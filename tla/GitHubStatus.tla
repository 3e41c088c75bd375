---------------------------- MODULE GitHubStatus ----------------------------
(***************************************************************************)
(* What GitHub is told about one commit: the webhook turns an event into    *)
(* the runs of a matched rule and posts a pending status for each, the      *)
(* result of a run posts its final status, and the last result of a matrix  *)
(* run dispatches the workflow that fetches the git notes.                  *)
(*                                                                          *)
(* All statuses go to one context of the commit: the last one posted is     *)
(* what GitHub shows.  Who executes the runs is Dispatch's business.        *)
(***************************************************************************)
EXTENDS Integers, FiniteSets

CONSTANTS
  Hooks,    \* bound: the events that GitHub delivers for the commit
  Cells,    \* the jobs that the rule's matrix expands to
  HubCodes, \* bound: the results that are reported
  GitHubFaults

GitHubFaultKinds == {"post",     \* a post fails, or the process dies before it
                     "dispatch", \* dispatching the workflow fails, in the same ways
                     "retired",  \* runs end by a cancel or by the reaper
                     "repeat"}   \* a worker reports a result twice

ASSUME GitHubAssumption ==
  /\ IsFiniteSet(Hooks) /\ IsFiniteSet(Cells) /\ GitHubFaults \subseteq GitHubFaultKinds
  /\ HubCodes \subseteq {"PASS", "FAIL", "ERROR"}

VARIABLES
  rule,      \* the rule: what its matrix column says, or that there is no rule
  result,    \* the runs, each named after the event and the job it was made for
  linked,    \* the events that made a matrix run, with its GitHub identity
  status,    \* the commit's status at GitHub, and the run it was posted for
  dispatched,\* the notes workflow was dispatched and has not fetched yet
  noted,     \* the runs in the notes that were fetched last
  ended,     \* history: how the run that ended last ended, in each event's matrix run
  excused    \* history: a pending status was posted that no result will replace

hubVars == <<rule, result, linked, status, dispatched, noted, ended, excused>>

Codes4Hub == {"PASS", "FAIL", "ERROR"}
Open4Hub  == {"queued", "running"}
HubRuns   == Hooks \X Cells

Posted == {"none", "pending", "success", "failure", "error"}

HubTypeOK ==
  /\ rule \in {"absent", "disabled", "matrix", "no matrix"}
  /\ result \in [HubRuns -> {"absent", "cancelled", "timed_out"} \cup Open4Hub \cup Codes4Hub]
  /\ linked \subseteq Hooks /\ status \in Posted
  /\ dispatched \in BOOLEAN /\ noted \subseteq HubRuns
  /\ ended \in [Hooks -> {"never", "report", "retired"}] /\ excused \in BOOLEAN

HubInit ==
  /\ rule = "absent" /\ result = [k \in HubRuns |-> "absent"] /\ linked = {}
  /\ status = "none" /\ dispatched = FALSE /\ noted = {}
  /\ ended = [e \in Hooks |-> "never"] /\ excused = FALSE

-----------------------------------------------------------------------------
(* Requests to GitHub.  A failed one is logged and not repeated. *)

Fails(request) == {FALSE} \cup (IF request \in GitHubFaults THEN {TRUE} ELSE {})

\* Mutant: the status is that of the run before the result.
StateBefore(value) == "pending"

\* set_status_from_run: the map from an effective status, an error by default.
StateOf(value) ==
  CASE value = "PASS" -> "success" [] value = "FAIL" -> "failure"
    [] value \in Open4Hub -> "pending" [] OTHER -> "error"

\* Mutant: the query comes before the result is written.
BatchWasOver(e) == \A j \in Cells : result[<<e, j>>] \notin Open4Hub

\* No run of the matrix run is queued or running.
BatchIsOver(e) == \A j \in Cells : result'[<<e, j>>] \notin Open4Hub

-----------------------------------------------------------------------------
(* Rules. *)

Rules == {"absent", "disabled", "matrix", "no matrix"}

RuleBecomes(new) ==
  /\ rule' = new /\ rule' # rule
  /\ UNCHANGED <<result, linked, status, dispatched, noted, ended, excused>>

\* create_rule: an unknown matrix is refused; the caller may disable the rule.
CreateRule == rule = "absent" /\ \E new \in Rules : RuleBecomes(new)

\* rule_create_web: an unknown matrix is no matrix.
CreateRuleWeb == rule = "absent" /\ \E new \in {"matrix", "no matrix"} : RuleBecomes(new)

\* opp_ci rule create --replace deletes the rule it replaces in the same transaction.
CreateRuleCommand ==
  rule \in {"absent", "disabled"} /\ \E new \in {"matrix", "no matrix"} : RuleBecomes(new)

\* rule_edit_web
EditRuleWeb == rule # "absent" /\ \E new \in Rules \ {"absent"} : RuleBecomes(new)

DeleteRule        == RuleBecomes("absent")
DeleteRuleWeb     == RuleBecomes("absent")
DeleteRuleCommand == RuleBecomes("absent")

-----------------------------------------------------------------------------
(* The webhook. *)

Finished4(j) == {k \in HubRuns : k[2] = j /\ result[k] \in Codes4Hub}

\* An event that matches the rule: each job gets a finished run with the same
\* fingerprint, if there is one, or a run of its own; after the commit a pending
\* status is posted for each of them, whatever their state.  A rule without a
\* matrix makes a single run that has no matrix run, and so no GitHub identity.
Webhook(e) ==
  LET made == {<<e, j>> : j \in {j \in Cells : Finished4(j) = {}}}
  IN
  /\ rule = "matrix" /\ e \notin linked /\ \A j \in Cells : result[<<e, j>>] = "absent"
  /\ linked' = linked \cup {e}
  /\ result' = [k \in HubRuns |-> IF k \in made THEN "queued" ELSE result[k]]
  /\ \E failed \in Fails("post") : status' = IF failed \/ Cells = {} THEN status ELSE "pending"
  /\ excused' = (excused \/ Cardinality(made) < Cardinality(Cells))
  /\ UNCHANGED <<rule, dispatched, noted, ended>>

SmokeWebhook(e, j) ==
  /\ rule = "no matrix" /\ e \notin linked /\ \A i \in Cells : result[<<e, i>>] = "absent"
  /\ result' = IF Finished4(j) = {} THEN [result EXCEPT ![<<e, j>>] = "queued"] ELSE result
  /\ \E failed \in Fails("post") : status' = IF failed THEN status ELSE "pending"
  /\ excused' = TRUE
  /\ UNCHANGED <<rule, linked, dispatched, noted, ended>>

-----------------------------------------------------------------------------
(* The runs. *)

ClaimHub(k) ==
  /\ result[k] = "queued" /\ result' = [result EXCEPT ![k] = "running"]
  /\ UNCHANGED <<rule, linked, status, dispatched, noted, ended, excused>>

Requeue(k) ==
  /\ result[k] = "running" /\ result' = [result EXCEPT ![k] = "queued"]
  /\ UNCHANGED <<rule, linked, status, dispatched, noted, ended, excused>>

\* The result of a run: after the commit its final status is posted, if it has
\* a GitHub identity, and the notes workflow is dispatched if its matrix run is
\* over, or at once if it has none.  A cancelled run stays cancelled.
ReportHub(k, code) ==
  LET e == k[1] IN
  /\ \/ result[k] \in {"running", "cancelled"}
     \/ "repeat" \in GitHubFaults /\ result[k] = code
  /\ result' = [result EXCEPT ![k] = IF @ = "cancelled" THEN @ ELSE code]
  /\ \E failed \in Fails("post") :
       /\ status' = IF failed \/ e \notin linked THEN status ELSE StateOf(result'[k])
       /\ excused' = (excused \/ failed)
  /\ \E failed \in Fails("dispatch") :
       dispatched' = IF failed \/ (e \in linked /\ ~BatchIsOver(e)) THEN dispatched ELSE TRUE
  /\ ended' = [ended EXCEPT ![e] = "report"]
  /\ UNCHANGED <<rule, linked, noted>>

\* A cancel, or the reaper: GitHub is told nothing.
RetireHub(k) ==
  /\ "retired" \in GitHubFaults /\ result[k] \in Open4Hub
  /\ \E how \in {"cancelled", "timed_out"} : result' = [result EXCEPT ![k] = how]
  /\ ended' = [ended EXCEPT ![k[1]] = "retired"]
  /\ excused' = TRUE
  /\ UNCHANGED <<rule, linked, status, dispatched, noted>>

-----------------------------------------------------------------------------
(* ci-notes.yml: the notes of all finished runs that have a GitHub identity.  *)
(* The acknowledgement that follows changes nothing.                          *)

FetchNotes ==
  /\ dispatched /\ dispatched' = FALSE
  /\ noted' = {k \in HubRuns : k[1] \in linked /\ result[k] \in Codes4Hub}
  /\ UNCHANGED <<rule, result, linked, status, ended, excused>>

HubNext ==
  \/ CreateRule \/ CreateRuleWeb \/ CreateRuleCommand \/ EditRuleWeb
  \/ DeleteRule \/ DeleteRuleWeb \/ DeleteRuleCommand \/ FetchNotes
  \/ \E e \in Hooks : Webhook(e) \/ \E j \in Cells : SmokeWebhook(e, j)
  \/ \E k \in HubRuns :
       \/ ClaimHub(k) \/ Requeue(k) \/ RetireHub(k)
       \/ \E code \in HubCodes : ReportHub(k, code)

HubSpec == HubInit /\ [][HubNext]_hubVars

\* GitHub runs a workflow that was dispatched.
HubFairness == WF_hubVars(FetchNotes)

-----------------------------------------------------------------------------
\* A pending status is owed to a run: when all runs of the commit have ended,
\* GitHub does not go on showing pending, unless a status was posted for a run
\* that ends otherwise than by a result, or a post failed.
PendingIsOwed ==
  status = "pending" /\ ~excused => \E k \in HubRuns : result[k] \in Open4Hub

\* The notes follow the batch: when the last run of a matrix run has ended by
\* its result, the notes of all its finished runs are fetched in the end, also
\* if other matrix runs of the repository end meanwhile.
NotesFollowTheBatch ==
  "dispatch" \notin GitHubFaults =>
    \A e \in Hooks :
      (e \in linked /\ ended[e] = "report" /\ \A j \in Cells : result[<<e, j>>] \notin Open4Hub)
        ~> ({<<e, j>> : j \in {j \in Cells : result[<<e, j>>] \in Codes4Hub}} \subseteq noted)

-----------------------------------------------------------------------------
\* doc/concepts.md: the commit status is set to pending on enqueue and updated
\* to the final state when the worker reports results.
StatusIsResolved ==
  status = "pending" => \E k \in HubRuns : result[k] \in Open4Hub
=============================================================================
