----------------------------- MODULE LiveOutput -----------------------------
(***************************************************************************)
(* The live output of a running test: the stage recorder of the executor,   *)
(* the streamer, which ships the recorder's events in batches from a thread *)
(* of its own, and the coordinator's bounded buffer of the run, which the   *)
(* run page tails.                                                          *)
(*                                                                          *)
(* A batch is posted once.  A post that fails is given up, but the request  *)
(* may be on its way still and be handled later.  The result of the run is  *)
(* reported before the streamer is stopped, and drops the buffer.  The      *)
(* buffers of other runs are seen only in that the store, which keeps the   *)
(* ones used last, may evict this one.                                      *)
(***************************************************************************)
EXTENDS Integers, Sequences

CONSTANTS
  OutputRing, \* OPP_CI_COORDINATOR_RUN_OUTPUT_RING, lines per run
  MaxStages,  \* bound: stages a job begins
  MaxOutput,  \* bound: lines a job prints
  MaxTaken,   \* bound: stages and lines of an attempt by the time its run is reclaimed
  OutputFaults

OutputFaultKinds == {"drop",     \* a post fails: timed out, or no connection
                     "evict",    \* the store evicts the buffer
                     "reclaim",  \* the run is taken from its worker
                     "slow"}     \* a post outlasts the 5 s the streamer is joined for

ASSUME OutputAssumption ==
  /\ OutputFaults \subseteq OutputFaultKinds
  /\ OutputRing \in Nat \ {0} /\ MaxStages \in Nat /\ MaxOutput \in Nat
  /\ MaxTaken \in Nat

VARIABLES
  job,      \* the attempt under way: its recorder and the life of the run
  pending,  \* the events queued in the streamer
  post,     \* the batches being posted, by the streamer's thread and by its stop
  late,     \* the batches given up whose requests may still be handled
  buffer,   \* the buffer of the run in the store
  arrived,  \* history: the events of the attempt that reached the store, in order
  gap,      \* history: events were lost, or the buffer mixes two attempts
  astray    \* history: the lines given up, or overtaken by the batch of stop()

outputVars == <<job, pending, post, late, buffer, arrived, gap, astray>>

Posters == {"thread", "stop"}

\* `open` is the number of the last stage begun; 0 before the first.
NoBuffer == [kept |-> FALSE, stages |-> <<>>, lines |-> <<>>, open |-> 0]

NewAttempt(phase) ==
  [phase |-> phase, owned |-> TRUE, stages |-> <<>>, open |-> FALSE, printed |-> 0]

Statuses == {"running", "passed", "failed", "skipped"}

\* The value of an event is the status of its stage, or the number of a line.
Events == [kind : {"begin", "end"}, stage : Nat, value : Statuses]
            \cup [kind : {"output"}, stage : Nat, value : Nat]

OutputTypeOK ==
  /\ job \in [phase : {"idle", "executing", "reported", "stopped"}, owned : BOOLEAN,
              stages : Seq(Statuses), open : BOOLEAN, printed : Nat]
  /\ pending \in Seq(Events) /\ post \in [Posters -> Seq(Events)] /\ late \subseteq Seq(Events)
  /\ arrived \in Seq(Events) /\ gap \in BOOLEAN /\ astray \subseteq Nat

OutputInit ==
  /\ job = NewAttempt("idle") /\ pending = <<>> /\ post = [p \in Posters |-> <<>>]
  /\ late = {} /\ buffer = NoBuffer /\ arrived = <<>> /\ gap = FALSE /\ astray = {}

-----------------------------------------------------------------------------
(* The recorder.  An event names its stage, by its number here. *)

Record(events, rec) ==
  /\ job.phase = "executing"
  /\ job' = rec /\ pending' = pending \o events
  /\ UNCHANGED <<post, late, buffer, arrived, gap, astray>>

Start ==
  /\ job.phase = "idle"
  /\ job' = [job EXCEPT !.phase = "executing"]
  /\ UNCHANGED <<pending, post, late, buffer, arrived, gap, astray>>

LastStage == Len(job.stages)
Event(kind, n, v) == [kind |-> kind, stage |-> n, value |-> v]

BeginStage ==
  /\ LastStage < MaxStages /\ ~job.open
  /\ Record(<<Event("begin", LastStage + 1, "running")>>,
            [job EXCEPT !.stages = Append(@, "running"), !.open = TRUE])

Output ==
  /\ job.open /\ job.printed < MaxOutput
  /\ Record(<<Event("output", LastStage, job.printed + 1)>>, [job EXCEPT !.printed = @ + 1])

EndStage ==
  /\ job.open
  /\ \E status \in {"passed", "failed"} :
       Record(<<Event("end", LastStage, status)>>,
              [job EXCEPT !.stages[LastStage] = status, !.open = FALSE])

\* A stage that is skipped is begun and ended at once.
SkipStage ==
  /\ LastStage < MaxStages /\ ~job.open /\ \E i \in 1..LastStage : job.stages[i] = "failed"
  /\ Record(<<Event("begin", LastStage + 1, "running"), Event("end", LastStage + 1, "skipped")>>,
            [job EXCEPT !.stages = Append(@, "skipped")])

-----------------------------------------------------------------------------
(* The store. *)

LastLines(s) ==
  IF Len(s) > OutputRing THEN SubSeq(s, Len(s) - OutputRing + 1, Len(s)) ELSE s

\* A function on stage numbers is a sequence while no batch was lost.
Put(f, n, v) == [k \in DOMAIN f \cup {n} |-> IF k = n THEN v ELSE f[k]]

Applied(buf, e) ==
  LET b == [buf EXCEPT !.kept = TRUE]
  IN  CASE e.kind = "begin"  -> [b EXCEPT !.stages = Put(@, e.stage, e.value), !.open = e.stage]
        [] e.kind = "output" -> [b EXCEPT !.lines = LastLines(Append(@,
                                  [under |-> b.open, stage |-> e.stage, line |-> e.value]))]
        [] e.kind = "end"    -> IF e.stage \in DOMAIN b.stages
                                THEN [b EXCEPT !.stages = Put(@, e.stage, e.value)] ELSE b

\* Mutant: a batch is applied from its end.
ApplyBackwards(buf, batch) ==
  LET n == Len(batch)
      after[i \in 0..n] == IF i = 0 THEN buf ELSE Applied(after[i - 1], batch[n + 1 - i])
  IN  after[n]

ApplyAll(buf, batch) ==
  LET after[i \in 0..Len(batch)] == IF i = 0 THEN buf ELSE Applied(after[i - 1], batch[i])
  IN  after[Len(batch)]

\* output-append takes a batch from the run's worker only; that the run may have
\* finished is not asked.
Handled(batch) ==
  /\ IF job.owned
     THEN buffer' = ApplyAll(buffer, batch) /\ arrived' = arrived \o batch
     ELSE UNCHANGED <<buffer, arrived>>
  /\ UNCHANGED <<job, pending, gap, astray>>

Receive(p) ==
  /\ post[p] # <<>> /\ post' = [post EXCEPT ![p] = <<>>]
  /\ Handled(post[p]) /\ UNCHANGED late

\* The numbers of the lines in a batch.
Printed(batch) == {batch[i].value : i \in {j \in DOMAIN batch : batch[j].kind = "output"}}

\* The post fails at the worker, which gives the batch up.
GivesUp(p) ==
  /\ "drop" \in OutputFaults /\ post[p] # <<>>
  /\ post' = [post EXCEPT ![p] = <<>>] /\ late' = late \cup {post[p]}
  /\ gap' = TRUE /\ astray' = astray \cup Printed(post[p])
  /\ UNCHANGED <<job, pending, buffer, arrived>>

\* Its request is handled after all; or never.
ReceiveLate(batch) == late' = late \ {batch} /\ Handled(batch) /\ UNCHANGED post

\* Other runs have used their buffers since, as many as the store keeps.
Evicted ==
  /\ "evict" \in OutputFaults /\ buffer.kept
  /\ buffer' = NoBuffer /\ gap' = TRUE
  /\ UNCHANGED <<job, pending, post, late, arrived, astray>>

-----------------------------------------------------------------------------
(* The streamer. *)

\* Mutant: a batch is not taken out of the queue when it is posted.
FlushKeeps(p) ==
  /\ pending # <<>> /\ post[p] = <<>>
  /\ post' = [post EXCEPT ![p] = pending]
  /\ UNCHANGED pending

Flush(p) ==
  /\ pending # <<>> /\ post[p] = <<>>
  /\ post' = [post EXCEPT ![p] = pending]
  /\ pending' = <<>>

ThreadFlush ==
  /\ job.phase \in {"executing", "reported"}
  /\ Flush("thread")
  /\ UNCHANGED <<job, late, buffer, arrived, gap, astray>>

\* stop(): the thread is joined, unless its post takes too long, and what is
\* left is flushed by the caller, past the batch that the thread still posts.
Stop ==
  /\ job.phase = "reported"
  /\ post["thread"] = <<>> \/ "slow" \in OutputFaults
  /\ job' = [job EXCEPT !.phase = "stopped"]
  /\ IF pending = <<>>
     THEN UNCHANGED <<pending, post, astray>>
     ELSE Flush("stop") /\ astray' = astray \cup Printed(post["thread"])
  /\ UNCHANGED <<late, buffer, arrived, gap>>

-----------------------------------------------------------------------------
(* The end of an attempt. *)

\* The result is reported and, if it is still the worker's to report, drops
\* the buffer of the run.
ReportOutput ==
  /\ job.phase = "executing" /\ ~job.open
  /\ job' = [job EXCEPT !.phase = "reported"]
  /\ IF job.owned THEN buffer' = NoBuffer /\ gap' = TRUE ELSE UNCHANGED <<buffer, gap>>
  /\ UNCHANGED <<pending, post, late, arrived, astray>>

\* The run is taken from its worker, whose events are ignored from then on.
Reclaimed ==
  /\ "reclaim" \in OutputFaults /\ job.phase = "executing" /\ job.owned
  /\ LastStage + job.printed <= MaxTaken
  /\ job' = [job EXCEPT !.owned = FALSE] /\ gap' = TRUE
  /\ UNCHANGED <<pending, post, late, buffer, arrived, astray>>

\* Another worker attempts the run, and what the first one still posts is refused;
\* the buffer of the first attempt is still there.
Reattempted ==
  /\ ~job.owned
  /\ job' = NewAttempt("executing")
  /\ pending' = <<>> /\ post' = [p \in Posters |-> <<>>] /\ late' = {} /\ arrived' = <<>>
  /\ astray' = {}
  /\ UNCHANGED <<buffer, gap>>

OutputNext ==
  \/ Start \/ BeginStage \/ Output \/ EndStage \/ SkipStage
  \/ ThreadFlush \/ Stop \/ ReportOutput \/ Reclaimed \/ Reattempted \/ Evicted
  \/ \E p \in Posters : Receive(p) \/ GivesUp(p)
  \/ \E batch \in late : ReceiveLate(batch)

OutputSpec == OutputInit /\ [][OutputNext]_outputVars

-----------------------------------------------------------------------------
\* Whatever posts fail, arrive late or overtake one another, no line comes to the
\* page twice, and a line that comes after a later one is of a batch that was given
\* up, or that stop() went past while the thread was posting it.
OnlyAstrayLinesAreLate ==
  \A i, j \in DOMAIN arrived :
    i < j /\ arrived[i].kind = "output" /\ arrived[j].kind = "output" =>
      \/ arrived[i].value < arrived[j].value
      \/ arrived[i].value # arrived[j].value /\ arrived[j].value \in astray

\* The page catches up with the recorder: once the events of an attempt are all
\* delivered, its stages stand in the buffer as the recorder has them, the
\* skipped ones included, and each line under the stage that printed it, unless
\* events or the buffer were lost or the run was attempted before.
LiveViewIsTheTree ==
  ~gap =>
    /\ pending = <<>> /\ (\A p \in Posters : post[p] = <<>>) => buffer.stages = job.stages
    /\ \A i \in DOMAIN buffer.lines : buffer.lines[i].under = buffer.lines[i].stage

-----------------------------------------------------------------------------
\* The docstring of the streamer: the flush thread is the only one that posts, the
\* final flush runs after the thread is joined.
OnePosterAtATime == post["thread"] = <<>> \/ post["stop"] = <<>>

\* STORE.append: a batch of ordered stage events is applied; the page shows the
\* lines in the order in which they were printed.
OutputInOrder ==
  \A i, j \in DOMAIN arrived :
    i < j /\ arrived[i].kind = "output" /\ arrived[j].kind = "output" =>
      arrived[i].value < arrived[j].value

\* The docstring of run_output.py: once the run finishes the live buffer is
\* dropped.
FinishedRunsHaveNoBuffer ==
  job.phase = "stopped" /\ job.owned /\ (\A p \in Posters : post[p] = <<>>) => ~buffer.kept
=============================================================================
