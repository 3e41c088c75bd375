----------------------------- MODULE Workspaces -----------------------------
(***************************************************************************)
(* The opp_env workspaces of a host, shared by the worker processes and the *)
(* local commands that run there: one directory per build coordinate, a     *)
(* lock file beside each, taken with flock, and the sweep before every      *)
(* installation that evicts the least recently used directories.            *)
(*                                                                          *)
(* A lock is held on the open file, not on its name: the sweep removes the  *)
(* name of the file it evicted with, and the next open creates another.     *)
(***************************************************************************)
EXTENDS Integers, Sequences, FiniteSets

CONSTANTS
  Builders,     \* the processes
  Trees,        \* build coordinates
  WorkspaceMax  \* OPP_CI_WORKSPACE_MAX

ASSUME WorkspaceAssumption ==
  /\ IsFiniteSet(Builders) /\ IsFiniteSet(Trees) /\ WorkspaceMax \in Nat \ {0}

VARIABLES
  builder,   \* each process: where it is, its tree, what its sweep has to evict
  recent,    \* the directories there are, least recently used first
  installed, \* the directories with a finished installation
  file,      \* the lock file that each tree's name stands for, 0 for none
  holder     \* the process that has a lock file locked

workspaceVars == <<builder, recent, installed, file, holder>>

NoBuilder == "nobody"
NoTree    == "no tree"
Idle      == [at |-> "idle", tree |-> NoTree, fd |-> 0, evict |-> <<>>]

\* Enough files for every name and every process that has one open.
Files == 1..(Cardinality(Builders) + Cardinality(Trees))

BuilderPlaces == {"idle", "sweep", "evict", "unlink", "open", "wait", "install",
                  "touch", "reopen", "rewait", "build"}

WorkspaceTypeOK ==
  /\ builder \in [Builders -> [at : BuilderPlaces, tree : Trees \cup {NoTree},
                               fd : Files \cup {0}, evict : Seq(Trees)]]
  /\ recent \in Seq(Trees) /\ installed \subseteq Trees
  /\ file \in [Trees -> Files \cup {0}] /\ holder \in [Files -> Builders \cup {NoBuilder}]

WorkspaceInit ==
  /\ builder = [p \in Builders |-> Idle] /\ recent = <<>> /\ installed = {}
  /\ file = [x \in Trees |-> 0] /\ holder = [f \in Files |-> NoBuilder]

There(x) == \E i \in DOMAIN recent : recent[i] = x
Without(x) == SelectSeq(recent, LAMBDA y : y # x)

-----------------------------------------------------------------------------
(* Files and locks. *)

\* A file that has neither a name nor a process that holds it open.
Free == {f \in Files : (\A x \in Trees : file[x] # f) /\ (\A p \in Builders : builder[p].fd # f)}
FreeFile == CHOOSE f \in Free : TRUE

\* open(O_CREAT): the file of that name, or a new one.
Open(x) ==
  IF file[x] # 0 THEN file[x] ELSE FreeFile

Moved(p, at) == builder' = [builder EXCEPT ![p].at = at]

-----------------------------------------------------------------------------
(* A job: the directory is touched, others are evicted, the project is       *)
(* installed under the lock; then, under the lock again, it is run.          *)

\* _opp_env_workspace: makedirs and utime.
Resolve(p, x) ==
  /\ builder[p].at = "idle"
  /\ builder' = [builder EXCEPT ![p] = [Idle EXCEPT !.at = "sweep", !.tree = x]]
  /\ recent' = Append(Without(x), x)
  /\ UNCHANGED <<installed, file, holder>>

\* _gc_workspaces lists the directories once, oldest first.
Sweep(p) ==
  /\ builder[p].at = "sweep"
  /\ builder' = [builder EXCEPT ![p].at = "evict",
       ![p].evict = SubSeq(recent, 1, Len(recent) - WorkspaceMax)]
  /\ UNCHANGED <<recent, installed, file, holder>>

\* A directory is gone between the listing and the look at its time: another
\* sweep has removed it.  The exception ends the job, and the worker with it.
SweepFails(p) ==
  /\ builder[p].at = "sweep" /\ \E q \in Builders : builder[q].at = "unlink"
  /\ builder' = [builder EXCEPT ![p] = Idle]
  /\ UNCHANGED <<recent, installed, file, holder>>

\* The next victim: its lock file is opened, and if it is locked it is left
\* alone; if not, the directory is removed while the lock is held.
Evict(p) ==
  /\ builder[p].at = "evict" /\ builder[p].evict # <<>>
  /\ LET x == Head(builder[p].evict)
         f == Open(x)
     IN  /\ file' = [file EXCEPT ![x] = f]
         /\ IF holder[f] = NoBuilder
            THEN /\ recent' = Without(x) /\ installed' = installed \ {x}
                 /\ builder' = [builder EXCEPT ![p].at = "unlink"]
            ELSE /\ builder' = [builder EXCEPT ![p].evict = Tail(@)]
                 /\ UNCHANGED <<recent, installed>>
  /\ UNCHANGED holder

\* The lock is gone by now; the name is removed, whatever file it stands for.
Unlink(p) ==
  /\ builder[p].at = "unlink"
  /\ file' = [file EXCEPT ![Head(builder[p].evict)] = 0]
  /\ builder' = [builder EXCEPT ![p].at = "evict", ![p].evict = Tail(@)]
  /\ UNCHANGED <<recent, installed, holder>>

SweepDone(p) ==
  /\ builder[p].at = "evict" /\ builder[p].evict = <<>>
  /\ Moved(p, "open")
  /\ UNCHANGED <<recent, installed, file, holder>>

\* _workspace_lock: makedirs, then the file; the lock is waited for.
OpenLock(p, from, to) ==
  /\ builder[p].at = from
  /\ LET x == builder[p].tree IN
       /\ recent' = IF There(x) THEN recent ELSE Append(recent, x)
       /\ file' = [file EXCEPT ![x] = Open(x)]
       /\ builder' = [builder EXCEPT ![p].at = to, ![p].fd = Open(x)]
  /\ UNCHANGED <<installed, holder>>

Lock(p, from, to) ==
  /\ builder[p].at = from /\ holder[builder[p].fd] = NoBuilder
  /\ holder' = [holder EXCEPT ![builder[p].fd] = p]
  /\ Moved(p, to)
  /\ UNCHANGED <<recent, installed, file>>

Unlocked(p) == holder' = [holder EXCEPT ![builder[p].fd] = NoBuilder]

\* opp_env install: it needs the directory to start in.  Without it, or if the
\* installation fails, the job is over.
InstallTree(p) ==
  /\ builder[p].at = "install" /\ Unlocked(p)
  /\ \/ /\ There(builder[p].tree)
        /\ installed' = installed \cup {builder[p].tree}
        /\ builder' = [builder EXCEPT ![p].at = "touch", ![p].fd = 0]
     \/ builder' = [builder EXCEPT ![p] = Idle] /\ UNCHANGED installed
  /\ UNCHANGED <<recent, file>>

\* The run resolves the workspace again, before it takes the lock.
Touch(p) ==
  /\ builder[p].at = "touch"
  /\ recent' = Append(Without(builder[p].tree), builder[p].tree)
  /\ Moved(p, "reopen")
  /\ UNCHANGED <<installed, file, holder>>

\* Mutant: a run that raises keeps its lock.
RunKeepsLock(p) ==
  /\ builder[p].at = "build"
  /\ IF There(builder[p].tree) THEN Unlocked(p) ELSE UNCHANGED holder
  /\ builder' = [builder EXCEPT ![p] = Idle]
  /\ UNCHANGED <<recent, installed, file>>

\* The stages of the run, in the tree if it is there; the context manager
\* releases the lock either way.
RunInTree(p) ==
  /\ builder[p].at = "build" /\ Unlocked(p)
  /\ builder' = [builder EXCEPT ![p] = Idle]
  /\ UNCHANGED <<recent, installed, file>>

LockSteps(p) == Lock(p, "wait", "install") \/ Lock(p, "rewait", "build")

JobSteps(p) ==
  \/ Sweep(p) \/ SweepFails(p) \/ Evict(p) \/ Unlink(p) \/ SweepDone(p)
  \/ OpenLock(p, "open", "wait") \/ InstallTree(p)
  \/ Touch(p) \/ OpenLock(p, "reopen", "rewait") \/ RunInTree(p)

WorkspaceNext ==
  \E p \in Builders : JobSteps(p) \/ LockSteps(p) \/ \E x \in Trees : Resolve(p, x)

WorkspaceSpec == WorkspaceInit /\ [][WorkspaceNext]_workspaceVars

\* A process goes on with its job, and the kernel grants a lock in turn.
WorkspaceFairness ==
  \A p \in Builders : WF_workspaceVars(JobSteps(p)) /\ SF_workspaceVars(LockSteps(p))

-----------------------------------------------------------------------------
\* A process has one lock at a time, sweeps without waiting, and gives its lock
\* back whatever becomes of the job: no job waits for ever.
EveryJobEnds ==
  \A p \in Builders : (builder[p].at # "idle") ~> (builder[p].at = "idle")

-----------------------------------------------------------------------------
\* The docstring of _gc_workspaces: it never deletes a tree out from under a
\* running job.
TreesOutliveTheirJobs ==
  \A p \in Builders :
    builder[p].at \in {"touch", "reopen", "rewait", "build"} => builder[p].tree \in installed

\* The docstring of _workspace_lock: jobs of one coordinate are serialised.
OneJobInATree ==
  \A p, q \in Builders :
    p # q /\ builder[p].at \in {"install", "build"} /\ builder[q].at \in {"install", "build"}
      => builder[p].tree # builder[q].tree
=============================================================================
