---------------------------- MODULE LogShipping ----------------------------
(***************************************************************************)
(* A worker's log lines on their way to the web page: the ring in the       *)
(* worker process, the heartbeat that ships what is new since a watermark,  *)
(* the ring in the coordinator process with sequence numbers of its own,    *)
(* and the page that tails it by a cursor.  Heartbeats and their replies    *)
(* get lost, and both processes restart with empty rings.                   *)
(*                                                                          *)
(* Lines are numbered in the order they are logged, over all processes of   *)
(* the worker; a process numbers its own from 1, so `first` is subtracted.  *)
(***************************************************************************)
EXTENDS Integers, Sequences, FiniteSets

CONSTANTS
  Ring,        \* OPP_CI_WORKER_LOG_RING, the worker's ring
  Batch,       \* OPP_CI_WORKER_LOG_BATCH, the lines one heartbeat carries
  StoreRing,   \* OPP_CI_COORDINATOR_WORKER_LOG_RING
  MaxLines,    \* bound: lines logged
  MaxLost,     \* bound: heartbeats that fail for the worker
  MaxRestarts  \* bound: restarts of either process

ASSUME LogAssumption ==
  /\ Ring \in Nat \ {0} /\ Batch \in Nat \ {0} /\ StoreRing \in Nat \ {0}
  /\ MaxLines \in Nat /\ MaxLost \in Nat /\ MaxRestarts \in Nat

VARIABLES
  logged,   \* the number of the last line logged
  first,    \* the number of the last line of the process before this one
  shipped,  \* _last_shipped_seq, as the number of a line
  beat,     \* the heartbeat under way
  store,    \* the coordinator's ring: lines in the order they came
  nextSeq,  \* the sequence number the store gives to the next line
  cursor,   \* the newest sequence number the open page was shown
  copies,   \* history: how often each line reached the coordinator
  waived,  \* history: lines a drop marker counts, or that left the ring unshipped
  lost,     \* history: heartbeats that failed for the worker
  restarts  \* history: restarts of either process

logVars == <<logged, first, shipped, beat, store, nextSeq, cursor,
             copies, waived, lost, restarts>>

\* The lines low..high of a batch, and from..(low - 1) the ones it skips.
NoBeat == [state |-> "none", from |-> 1, low |-> 1, high |-> 0]

Larger(a, b) == IF a >= b THEN a ELSE b

LogTypeOK ==
  /\ logged \in 0..MaxLines /\ first \in 0..logged /\ shipped \in first..logged
  /\ beat \in [state : {"none", "sent", "handled"}, from : Nat, low : Nat, high : Nat]
  /\ store \in Seq(0..MaxLines) /\ nextSeq \in Nat \ {0} /\ cursor \in Nat
  /\ copies \in [1..MaxLines -> Nat] /\ waived \in SUBSET (1..MaxLines)
  /\ lost \in 0..MaxLost /\ restarts \in 0..MaxRestarts

LogInit ==
  /\ logged = 0 /\ first = 0 /\ shipped = 0 /\ beat = NoBeat
  /\ store = <<>> /\ nextSeq = 1 /\ cursor = 0
  /\ copies = [i \in 1..MaxLines |-> 0] /\ waived = {}
  /\ lost = 0 /\ restarts = 0

-----------------------------------------------------------------------------
(* The worker process. *)

\* The oldest line the ring still holds, and the oldest that is new to the
\* coordinator.
Oldest == Larger(first, logged - Ring) + 1

\* Mutants: the last line shipped is new again; one line alone is not new.
FreshFromWatermark == Larger(Oldest, shipped)
FreshPastTheNext   == Larger(Oldest, shipped + 2)

Fresh == Larger(Oldest, shipped + 1)

\* The ring forgets its oldest line, shipped or not; nothing is left to tell.
Emit ==
  /\ logged < MaxLines
  /\ logged' = logged + 1
  /\ waived' = IF logged + 1 - Ring > shipped
                THEN waived \cup {logged + 1 - Ring} ELSE waived
  /\ UNCHANGED <<first, shipped, beat, store, nextSeq, cursor, copies, lost, restarts>>

\* _collect_log_batch: the newest Batch lines that are new, or no lines at all;
\* a marker line says how many older ones were skipped.
SendHeartbeat ==
  /\ beat = NoBeat
  /\ Fresh <= logged
  /\ beat' = [state |-> "sent", from |-> Fresh,
              low |-> Larger(Fresh, logged - Batch + 1), high |-> logged]
  /\ UNCHANGED <<logged, first, shipped, store, nextSeq, cursor, copies, waived, lost, restarts>>

\* Mutant: the watermark follows the ring, not the batch that was sent.
AdvanceToNewest ==
  /\ beat.state = "handled"
  /\ shipped' = logged /\ beat' = NoBeat
  /\ UNCHANGED <<logged, first, store, nextSeq, cursor, copies, waived, lost, restarts>>

\* The reply is there: the watermark moves to the last line of the batch.
Advance ==
  /\ beat.state = "handled"
  /\ shipped' = beat.high /\ beat' = NoBeat
  /\ UNCHANGED <<logged, first, store, nextSeq, cursor, copies, waived, lost, restarts>>

\* An error or a timeout, before or after the coordinator has handled the
\* heartbeat: the watermark stays, and the next one carries the lines again.
HeartbeatFails ==
  /\ beat # NoBeat /\ lost < MaxLost
  /\ beat' = NoBeat /\ lost' = lost + 1
  /\ UNCHANGED <<logged, first, shipped, store, nextSeq, cursor, copies, waived, restarts>>

WorkerRestarts ==
  /\ restarts < MaxRestarts /\ restarts' = restarts + 1
  /\ first' = logged /\ shipped' = logged /\ beat' = NoBeat
  /\ waived' = waived \cup (shipped + 1)..logged
  /\ UNCHANGED <<logged, store, nextSeq, cursor, copies, lost>>

-----------------------------------------------------------------------------
(* The coordinator process and the page. *)

LastOf(s, n) == IF Len(s) > n THEN SubSeq(s, Len(s) - n + 1, Len(s)) ELSE s

\* The lines of a batch, after a marker (line 0) if older ones were skipped.
Entries(b) ==
  LET lines == [i \in 1..(b.high - b.low + 1) |-> b.low + i - 1]
  IN  IF b.from < b.low THEN <<0>> \o lines ELSE lines

Received(b) == b.low..b.high

Arrive ==
  /\ beat.state = "sent"
  /\ beat' = [beat EXCEPT !.state = "handled"]
  /\ store' = LastOf(store \o Entries(beat), StoreRing)
  /\ nextSeq' = nextSeq + Len(Entries(beat))
  /\ copies' = [i \in DOMAIN copies |-> copies[i] + IF i \in Received(beat) THEN 1 ELSE 0]
  /\ waived' = waived \cup beat.from..(beat.low - 1)
  /\ UNCHANGED <<logged, first, shipped, cursor, lost, restarts>>

CoordinatorRestarts ==
  /\ restarts < MaxRestarts /\ restarts' = restarts + 1
  /\ store' = <<>> /\ nextSeq' = 1
  /\ beat' = NoBeat
  /\ UNCHANGED <<logged, first, shipped, cursor, copies, waived, lost>>

\* since(): the entries past the cursor, and the newest number among them.
TailPage ==
  /\ store # <<>> /\ nextSeq - 1 > cursor
  /\ cursor' = nextSeq - 1
  /\ UNCHANGED <<logged, first, shipped, beat, store, nextSeq, copies, waived, lost, restarts>>

LogNext ==
  \/ Emit \/ SendHeartbeat \/ Advance \/ HeartbeatFails \/ WorkerRestarts
  \/ Arrive \/ CoordinatorRestarts \/ TailPage

LogSpec == LogInit /\ [][LogNext]_logVars

LogFairness == WF_logVars(SendHeartbeat) /\ WF_logVars(Arrive) /\ WF_logVars(Advance)

-----------------------------------------------------------------------------
\* What the watermark has passed is not lost in silence: each line was received
\* by a coordinator, or is accounted for by a drop marker, by the ring having
\* wrapped before a heartbeat, or by the end of its process.
NothingSlipsThrough ==
  \A i \in 1..shipped : copies[i] > 0 \/ i \in waived

\* A line is received once, and once more for each heartbeat that failed or was
\* cut off by a restart: the watermark and the batch leave no other overlap.  It is
\* less than logbuffer.py claims, see NeverResent.
OncePerFailure ==
  \A i \in 1..MaxLines : copies[i] <= 1 + lost + restarts

\* Logging does not outrun shipping for ever: every line is received in the end,
\* or accounted for.
EveryLineSettles ==
  \A i \in 1..MaxLines : (logged >= i) ~> (copies[i] > 0 \/ i \in waived)

-----------------------------------------------------------------------------
\* The docstring of worker_logs.py: after a coordinator restart the next
\* heartbeat refills the page from the worker's own ring.
RefilledAfterRestart ==
  [][Arrive => \A i \in Larger(Oldest, logged - Batch + 1)..beat.high :
                 \E k \in DOMAIN store' : store'[k] = i]_logVars

\* The docstring of logbuffer.py: as the worker asks for what is newer than the
\* last batch it shipped, "heartbeats never re-send or duplicate lines".
NeverResent == restarts = 0 => \A i \in 1..MaxLines : copies[i] <= 1
=============================================================================
