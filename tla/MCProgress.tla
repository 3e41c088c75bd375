------------------------------ MODULE MCProgress ------------------------------
(***************************************************************************)
(* The components that owe something in the end, for TLC: log shipping, the *)
(* workspaces of a host, and what GitHub is told.  They share no state: a    *)
(* behaviour is one of one component, named by `part`.                      *)
(***************************************************************************)
EXTENDS LogShipping, Workspaces, GitHubStatus

CONSTANTS Parts, p1, p2, a, b

VARIABLE part

Init == part \in Parts /\ LogInit /\ WorkspaceInit /\ HubInit

Next ==
  /\ UNCHANGED part
  /\ \/ part = "log" /\ LogNext /\ UNCHANGED <<workspaceVars, hubVars>>
     \/ part = "workspaces" /\ WorkspaceNext /\ UNCHANGED <<logVars, hubVars>>
     \/ part = "github" /\ HubNext /\ UNCHANGED <<logVars, workspaceVars>>

\* LogFairness, WorkspaceFairness and HubFairness, each of its own component.
FairSpec ==
  /\ Init /\ [][Next]_<<part, logVars, workspaceVars, hubVars>>
  /\ WF_logVars(part = "log" /\ SendHeartbeat)
  /\ WF_logVars(part = "log" /\ Arrive)
  /\ WF_logVars(part = "log" /\ Advance)
  /\ \A p \in Builders :
       /\ WF_workspaceVars(part = "workspaces" /\ JobSteps(p))
       /\ SF_workspaceVars(part = "workspaces" /\ LockSteps(p))
  /\ WF_hubVars(part = "github" /\ FetchNotes)
=============================================================================
