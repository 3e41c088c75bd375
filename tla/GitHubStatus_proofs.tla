------------------------ MODULE GitHubStatus_proofs ------------------------
(***************************************************************************)
(* Proofs, for any events, jobs and failures, that a pending status is owed. *)
(***************************************************************************)
EXTENDS GitHubStatus, FiniteSetTheorems, TLAPS

\* The runs that were made belong to a matrix run that GitHub knows, but for those
\* of a rule without a matrix, which excuse.
RunsAreLinked == \A k \in HubRuns : result[k] # "absent" => k[1] \in linked

HubInv == HubTypeOK /\ PendingIsOwed /\ (~excused => RunsAreLinked)

LEMMA HubInitLemma == HubInit => HubInv
BY DEF HubInit, HubInv, HubTypeOK, PendingIsOwed, RunsAreLinked, Posted

\* A step that leaves the runs and what was posted alone.
LEMMA RunsAlone ==
  ASSUME HubInv, UNCHANGED <<result, linked, status, ended, excused>>, HubTypeOK'
  PROVE  HubInv'
BY DEF HubInv, PendingIsOwed, RunsAreLinked

LEMMA RuleStep ==
  ASSUME HubInv, NEW new \in Rules, RuleBecomes(new)
  PROVE  HubInv'
BY RunsAlone DEF RuleBecomes, Rules, HubInv, HubTypeOK

LEMMA HubStep ==
  ASSUME HubInv, [HubNext]_hubVars
  PROVE  HubInv'
<1>0. HubTypeOK /\ status \in Posted /\ linked \subseteq Hooks
  BY DEF HubInv, HubTypeOK
<1>1. CASE \/ CreateRule \/ CreateRuleWeb \/ CreateRuleCommand \/ EditRuleWeb
           \/ DeleteRule \/ DeleteRuleWeb \/ DeleteRuleCommand
  BY <1>1, RuleStep DEF CreateRule, CreateRuleWeb, CreateRuleCommand, EditRuleWeb,
                        DeleteRule, DeleteRuleWeb, DeleteRuleCommand, Rules
<1>2. CASE FetchNotes
  BY <1>0, <1>2, RunsAlone DEF FetchNotes, HubTypeOK
<1>3. ASSUME NEW e \in Hooks, Webhook(e)
      PROVE  HubInv'
  <2> DEFINE made == {<<e, j>> : j \in {j \in Cells : Finished4(j) = {}}}
  <2>1. /\ linked' = linked \cup {e}
        /\ result' = [k \in HubRuns |-> IF k \in made THEN "queued" ELSE result[k]]
        /\ \E failed \in Fails("post") : status' = IF failed \/ Cells = {} THEN status ELSE "pending"
        /\ excused' = (excused \/ Cardinality(made) < Cardinality(Cells))
        /\ UNCHANGED <<rule, dispatched, noted, ended>>
    BY <1>3 DEF Webhook
  <2>2. status' = status \/ (status' = "pending" /\ Cells # {})
    BY <2>1
  <2>3. \A k \in made : k \in HubRuns /\ k[1] = e
    BY DEF HubRuns
  <2>4. Cells # {} /\ ~excused' => made # {}
    <3> SUFFICES ASSUME Cells # {}, made = {}
                 PROVE  excused'
      OBVIOUS
    <3>1. IsFiniteSet(Cells) /\ Cardinality(made) = 0
      BY FS_EmptySet, GitHubAssumption
    <3>2. Cardinality(Cells) \in Nat /\ Cardinality(Cells) # 0
      BY <3>1, FS_EmptySet, FS_CardinalityType
    <3>3. Cardinality(made) < Cardinality(Cells)
      BY <3>1, <3>2
    <3> QED BY <2>1, <3>3
  <2>5. excused' \in BOOLEAN
    BY <2>1
  <2> HIDE DEF made
  <2>6. \A k \in HubRuns : /\ k \in made => result'[k] = "queued"
                           /\ k \notin made => result'[k] = result[k]
    BY <2>1
  <2>7. HubTypeOK'
    BY <1>0, <2>1, <2>2, <2>5 DEF HubTypeOK, Posted, Open4Hub
  <2>8. PendingIsOwed'
    <3> SUFFICES ASSUME status' = "pending", ~excused'
                 PROVE  \E k \in HubRuns : result'[k] \in Open4Hub
      BY DEF PendingIsOwed
    <3>1. CASE status = "pending"
      <4>1. ~excused
        BY <2>1
      <4>2. PICK k \in HubRuns : result[k] \in Open4Hub
        BY <3>1, <4>1 DEF HubInv, PendingIsOwed
      <4> QED BY <2>6, <4>2 DEF Open4Hub
    <3>2. CASE status # "pending"
      <4>1. PICK k \in made : TRUE
        BY <2>2, <2>4, <3>2
      <4> QED BY <2>3, <2>6, <4>1 DEF Open4Hub
    <3> QED BY <3>1, <3>2
  <2>9. ~excused' => RunsAreLinked'
    <3>1. ~excused' => ~excused
      BY <2>1
    <3> QED BY <2>1, <2>3, <2>6, <3>1 DEF HubInv, RunsAreLinked
  <2> QED BY <2>7, <2>8, <2>9 DEF HubInv
<1>4. ASSUME NEW e \in Hooks, NEW j \in Cells, SmokeWebhook(e, j)
      PROVE  HubInv'
  <2>1. excused' = TRUE /\ UNCHANGED <<rule, linked, dispatched, noted, ended>>
        /\ status' \in {status, "pending"}
    BY <1>4 DEF SmokeWebhook
  <2>2. result' = [result EXCEPT ![<<e, j>>] = "queued"] \/ result' = result
    BY <1>4 DEF SmokeWebhook
  <2>3. HubTypeOK'
    BY <1>0, <2>1, <2>2 DEF HubTypeOK, Posted, Open4Hub
  <2> QED BY <2>1, <2>3 DEF HubInv, PendingIsOwed
<1>5. ASSUME NEW k \in HubRuns, ClaimHub(k) \/ Requeue(k)
      PROVE  HubInv'
  <2>1. PICK how \in Open4Hub : /\ result[k] \in Open4Hub /\ result' = [result EXCEPT ![k] = how]
                                /\ UNCHANGED <<rule, linked, status, dispatched, noted, ended, excused>>
    BY <1>5 DEF ClaimHub, Requeue, Open4Hub
  <2>2. HubTypeOK'
    BY <1>0, <2>1 DEF HubTypeOK
  <2>3. /\ \A m \in HubRuns : m # k => result'[m] = result[m]
        /\ result'[k] \in Open4Hub /\ result[k] # "absent"
    BY <1>0, <2>1 DEF HubTypeOK, Open4Hub
  <2>4. PendingIsOwed'
    BY <2>1, <2>3 DEF HubInv, PendingIsOwed
  <2>5. ~excused' => RunsAreLinked'
    BY <2>1, <2>3 DEF HubInv, RunsAreLinked
  <2> QED BY <2>2, <2>4, <2>5 DEF HubInv
<1>6. ASSUME NEW k \in HubRuns, RetireHub(k)
      PROVE  HubInv'
  <2>1. PICK how \in {"cancelled", "timed_out"} : result' = [result EXCEPT ![k] = how]
    BY <1>6 DEF RetireHub
  <2>2. /\ ended' = [ended EXCEPT ![k[1]] = "retired"] /\ excused' = TRUE
        /\ UNCHANGED <<rule, linked, status, dispatched, noted>>
    BY <1>6 DEF RetireHub
  <2>3. HubTypeOK'
    BY <1>0, <2>1, <2>2 DEF HubTypeOK
  <2> QED BY <2>2, <2>3 DEF HubInv, PendingIsOwed
<1>7. ASSUME NEW k \in HubRuns, NEW code \in HubCodes, ReportHub(k, code)
      PROVE  HubInv'
  <2> DEFINE new == IF result[k] = "cancelled" THEN "cancelled" ELSE code
  <2>1. /\ result[k] \in {"running", "cancelled", code} /\ result' = [result EXCEPT ![k] = new]
        /\ UNCHANGED <<rule, linked, noted>> /\ ended' = [ended EXCEPT ![k[1]] = "report"]
    BY <1>7 DEF ReportHub
  <2>2. code \in Codes4Hub /\ new \in {"cancelled"} \cup Codes4Hub
    BY GitHubAssumption DEF Codes4Hub
  <2>3. PICK failed \in Fails("post") :
          /\ status' = IF failed \/ k[1] \notin linked THEN status ELSE StateOf(result'[k])
          /\ excused' = (excused \/ failed)
    BY <1>7 DEF ReportHub
  <2>4. PICK lost \in Fails("dispatch") :
          dispatched' = IF lost \/ (k[1] \in linked /\ ~BatchIsOver(k[1])) THEN dispatched ELSE TRUE
    BY <1>7 DEF ReportHub
  <2>5. dispatched' \in BOOLEAN /\ excused' \in BOOLEAN
    BY <1>0, <2>3, <2>4 DEF HubTypeOK
  <2>6. result'[k] = new /\ \A m \in HubRuns : m # k => result'[m] = result[m]
    BY <1>0, <2>1 DEF HubTypeOK
  <2>7. StateOf(new) \in {"success", "failure", "error"}
    BY <2>2 DEF StateOf, Codes4Hub, Open4Hub
  <2>8. HubTypeOK'
    <3>1. status' \in Posted
      BY <1>0, <2>3, <2>6, <2>7 DEF Posted
    <3> HIDE DEF new
    <3> QED BY <1>0, <2>1, <2>2, <2>5, <3>1 DEF HubTypeOK, Codes4Hub
  <2>9. CASE excused'
    BY <2>8, <2>9 DEF HubInv, PendingIsOwed
  <2>10. CASE ~excused'
    <3>1. ~excused /\ ~failed /\ k[1] \in linked
      <4>1. ~excused /\ ~failed
        BY <2>3, <2>10
      <4>2. result[k] # "absent"
        BY <2>1, <2>2 DEF Codes4Hub
      <4> QED BY <4>1, <4>2 DEF HubInv, RunsAreLinked
    <3>2. status' # "pending"
      BY <2>3, <2>6, <2>7, <3>1
    <3>3. RunsAreLinked'
      BY <2>1, <2>6, <3>1 DEF HubInv, RunsAreLinked
    <3> QED BY <2>8, <3>2, <3>3 DEF HubInv, PendingIsOwed
  <2> QED BY <2>9, <2>10
<1>8. CASE UNCHANGED hubVars
  BY <1>0, <1>8, RunsAlone DEF hubVars, HubTypeOK
<1> QED BY <1>1, <1>2, <1>3, <1>4, <1>5, <1>6, <1>7, <1>8 DEF HubNext

\* When all runs of a commit have ended, GitHub does not go on showing pending,
\* unless a status was posted for a run that ends otherwise than by a result, or a
\* post failed: for any number of events and jobs, in any order of their results.
THEOREM PendingStatusIsOwed == HubSpec => []PendingIsOwed
<1>1. HubInv /\ [HubNext]_hubVars => HubInv'
  BY HubStep
<1>2. HubInv => PendingIsOwed
  BY DEF HubInv
<1> QED BY <1>1, <1>2, HubInitLemma, PTL DEF HubSpec
=============================================================================
