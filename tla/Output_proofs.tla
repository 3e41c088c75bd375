--------------------------- MODULE Output_proofs ---------------------------
(***************************************************************************)
(* Proofs about what a worker sends.  Of its log, for rings and batches of  *)
(* any size and any number of failures: the watermark passes no line in     *)
(* silence, and a line is received again only on account of a heartbeat that*)
(* failed or a restart.  Of a run's live output, for any jobs, lines and    *)
(* failures: the view shows the stages as they are, no line twice, and the  *)
(* lines in the order in which they were printed, but for those of batches  *)
(* that were given up or that stop() went past.                             *)
(*                                                                          *)
(* The invariant of the order says of any two places a batch can be in which*)
(* one's lines were printed first.                                          *)
(***************************************************************************)
EXTENDS LogShipping, LiveOutput, WellFoundedInduction, SequenceTheorems, TLAPS

\* Received by a coordinator, or accounted for.
Settled(i) == copies[i] > 0 \/ i \in waived

Counters ==
  /\ logged \in 0..MaxLines /\ first \in 0..logged /\ shipped \in first..logged
  /\ beat \in [state : {"none", "sent", "handled"}, from : Nat, low : Nat, high : Nat]
  /\ copies \in [1..MaxLines -> Nat]
  /\ lost \in Nat /\ restarts \in Nat

\* What the watermark passed, and what the ring has forgotten.
PassedIsSettled ==
  \A i \in 1..logged : i <= shipped \/ i <= logged - Ring => Settled(i)

\* The batch under way begins past the watermark and past settled lines only; its
\* own lines are settled once the coordinator has it.
BatchOK ==
  beat.state # "none" =>
    /\ shipped < beat.from /\ beat.from <= beat.low /\ beat.low <= beat.high
    /\ beat.high <= logged
    /\ \A i \in 1..logged : i < beat.from => Settled(i)
    /\ beat.state = "handled" => \A i \in 1..logged : i <= beat.high => Settled(i)

\* Copies beyond those that failures explain: none past the watermark, but for a
\* batch whose reply is under way.
Excess(i) == IF i <= shipped \/ (beat.state = "handled" /\ i <= beat.high) THEN 1 ELSE 0
CopiesOK  == \A i \in 1..MaxLines : copies[i] <= lost + restarts + Excess(i)

LogInv == Counters /\ PassedIsSettled /\ BatchOK /\ CopiesOK

-----------------------------------------------------------------------------
LEMMA LogInvInit == LogInit => LogInv
  BY LogAssumption DEF LogInit, LogInv, Counters, PassedIsSettled, BatchOK, CopiesOK, Excess, NoBeat

\* Where a batch begins.
LEMMA FreshLemma ==
  ASSUME Counters
  PROVE  /\ Fresh \in Nat /\ Fresh > shipped
         /\ \A i \in Int : i < Fresh => i <= shipped \/ i <= logged - Ring
  BY LogAssumption DEF Counters, Fresh, Oldest, Larger

\* The lines of a batch that is stored.
LEMMA LowLemma ==
  ASSUME Counters, NEW f \in Nat, f <= logged
  PROVE  LET low == Larger(f, logged - Batch + 1)
         IN  low \in Nat /\ f <= low /\ low <= logged
  BY LogAssumption DEF Counters, Larger

LEMMA LogInvStep == LogInv /\ [LogNext]_logVars => LogInv'
<1> SUFFICES ASSUME LogInv, [LogNext]_logVars PROVE LogInv'
  OBVIOUS
<1> USE LogAssumption
<1>c. /\ logged \in 0..MaxLines /\ first \in 0..logged /\ shipped \in first..logged
      /\ beat \in [state : {"none", "sent", "handled"}, from : Nat, low : Nat, high : Nat]
      /\ copies \in [1..MaxLines -> Nat]
      /\ lost \in Nat /\ restarts \in Nat
  BY DEF LogInv, Counters
<1>n. NoBeat \in [state : {"none", "sent", "handled"}, from : Nat, low : Nat, high : Nat]
      /\ NoBeat.state = "none"
  BY DEF NoBeat
<1>1. CASE Emit
  <2>1. /\ logged' = logged + 1 /\ logged < MaxLines
        /\ waived' = IF logged + 1 - Ring > shipped THEN waived \cup {logged + 1 - Ring} ELSE waived
        /\ UNCHANGED <<first, shipped, beat, copies, lost, restarts>>
    BY <1>1 DEF Emit
  <2>2. Counters'
    BY <2>1, <1>c DEF Counters
  <2>3. \A i \in 1..logged : Settled(i) => Settled(i)'
    BY <2>1 DEF Settled
  <2>4. PassedIsSettled'
    BY <2>1, <2>3, <1>c DEF LogInv, PassedIsSettled, Settled
  <2>5. BatchOK'
    BY <2>1, <2>3, <1>c DEF LogInv, BatchOK
  <2> QED BY <2>1, <2>2, <2>4, <2>5 DEF LogInv, CopiesOK, Excess
<1>2. CASE SendHeartbeat
  <2> DEFINE f == Fresh
             low == Larger(Fresh, logged - Batch + 1)
  <2>1. /\ f <= logged
        /\ beat' = [state |-> "sent", from |-> f, low |-> low, high |-> logged]
        /\ UNCHANGED <<logged, first, shipped, copies, waived, lost, restarts>>
        /\ beat.state = "none"
    BY <1>2, <1>n DEF SendHeartbeat
  <2>2. f \in Nat /\ f > shipped /\ \A i \in Int : i < f => i <= shipped \/ i <= logged - Ring
    BY FreshLemma DEF LogInv
  <2>3. low \in Nat /\ f <= low /\ low <= logged
    BY <2>1, <2>2, LowLemma DEF LogInv
  <2> HIDE DEF f, low
  <2>4. /\ beat' \in [state : {"none", "sent", "handled"}, from : Nat, low : Nat, high : Nat]
        /\ beat'.state = "sent" /\ beat'.from = f /\ beat'.low = low /\ beat'.high = logged
    BY <2>1, <2>2, <2>3, <1>c
  <2>5. Counters'
    BY <2>1, <2>4, <1>c DEF Counters
  <2>6. PassedIsSettled' /\ BatchOK'
    BY SMTT(40), <2>1, <2>2, <2>3, <2>4, <1>c DEF LogInv, PassedIsSettled, BatchOK, Settled
  <2>7. CopiesOK'
    BY <2>1, <2>4, <1>c DEF LogInv, CopiesOK, Excess
  <2> QED BY <2>5, <2>6, <2>7 DEF LogInv
<1>3. CASE Advance
  <2>1. /\ beat.state = "handled" /\ shipped' = beat.high /\ beat' = NoBeat
        /\ UNCHANGED <<logged, first, copies, waived, lost, restarts>>
    BY <1>3 DEF Advance
  <2>2. shipped < beat.high /\ beat.high <= logged
        /\ \A i \in 1..logged : i <= beat.high => Settled(i)
    BY <2>1, <1>c DEF LogInv, BatchOK
  <2>3. Counters'
    BY <2>1, <2>2, <1>c, <1>n DEF Counters
  <2>4. PassedIsSettled' /\ BatchOK'
    BY <2>1, <2>2, <1>c, <1>n DEF LogInv, PassedIsSettled, BatchOK, Settled
  <2>5. CopiesOK'
    BY SMTT(40), <2>1, <2>2, <1>c, <1>n DEF LogInv, CopiesOK, Excess
  <2> QED BY <2>3, <2>4, <2>5 DEF LogInv
<1>4. CASE HeartbeatFails
  <2>1. /\ beat' = NoBeat /\ lost' = lost + 1
        /\ UNCHANGED <<logged, first, shipped, copies, waived, restarts>>
    BY <1>4 DEF HeartbeatFails
  <2>2. Counters'
    BY <2>1, <1>c, <1>n DEF Counters
  <2>3. PassedIsSettled' /\ BatchOK'
    BY <2>1, <1>n DEF LogInv, PassedIsSettled, BatchOK, Settled
  <2>4. CopiesOK'
    BY SMTT(40), <2>1, <1>c, <1>n DEF LogInv, CopiesOK, Excess
  <2> QED BY <2>2, <2>3, <2>4 DEF LogInv
<1>5. CASE WorkerRestarts
  <2>1. /\ restarts' = restarts + 1 /\ first' = logged /\ shipped' = logged /\ beat' = NoBeat
        /\ waived' = waived \cup (shipped + 1)..logged
        /\ UNCHANGED <<logged, copies, lost>>
    BY <1>5 DEF WorkerRestarts
  <2>2. Counters'
    BY <2>1, <1>c, <1>n DEF Counters
  <2>3. \A i \in 1..logged : Settled(i)'
    BY <2>1, <1>c DEF LogInv, PassedIsSettled, Settled
  <2>4. PassedIsSettled' /\ BatchOK'
    BY <2>1, <2>3, <1>n DEF PassedIsSettled, BatchOK
  <2>5. \A i \in 1..MaxLines : Excess(i) \in {0, 1} /\ Excess(i)' \in {0, 1}
    BY DEF Excess
  <2>6. \A i \in 1..MaxLines : copies'[i] <= lost + restarts + 1
    BY SMTT(40), <2>1, <2>5, <1>c DEF LogInv, CopiesOK
  <2>7. CopiesOK'
    BY <2>1, <2>5, <2>6, <1>c DEF CopiesOK
  <2> QED BY <2>2, <2>4, <2>7 DEF LogInv
<1>6. CASE Arrive
  <2>1. /\ beat.state = "sent" /\ beat' = [beat EXCEPT !.state = "handled"]
        /\ copies' = [i \in DOMAIN copies |-> copies[i] + IF i \in Received(beat) THEN 1 ELSE 0]
        /\ waived' = waived \cup beat.from..(beat.low - 1)
        /\ UNCHANGED <<logged, first, shipped, lost, restarts>>
    BY <1>6 DEF Arrive
  <2>2. /\ shipped < beat.from /\ beat.from <= beat.low /\ beat.low <= beat.high
        /\ beat.high <= logged /\ \A i \in 1..logged : i < beat.from => Settled(i)
    BY <2>1 DEF LogInv, BatchOK
  <2>3. /\ beat' \in [state : {"none", "sent", "handled"}, from : Nat, low : Nat, high : Nat]
        /\ beat'.state = "handled" /\ beat'.from = beat.from /\ beat'.low = beat.low
        /\ beat'.high = beat.high
    BY <2>1, <1>c
  <2>4. /\ copies' \in [1..MaxLines -> Nat]
        /\ \A i \in 1..MaxLines :
             copies'[i] = IF beat.low <= i /\ i <= beat.high THEN copies[i] + 1 ELSE copies[i]
    <3>1. \A i \in 1..MaxLines : i \in Received(beat) <=> beat.low <= i /\ i <= beat.high
      BY <1>c DEF Received
    <3>2. copies' = [i \in 1..MaxLines |-> copies[i] + IF i \in Received(beat) THEN 1 ELSE 0]
      BY <2>1, <1>c
    <3>3. \A i \in 1..MaxLines :
            copies'[i] = IF beat.low <= i /\ i <= beat.high THEN copies[i] + 1 ELSE copies[i]
      BY <3>1, <3>2, <1>c
    <3>4. \A i \in 1..MaxLines : copies[i] + (IF i \in Received(beat) THEN 1 ELSE 0) \in Nat
      BY <1>c
    <3> QED BY <3>2, <3>3, <3>4
  <2>5. Counters'
    BY <2>1, <2>3, <2>4, <1>c DEF Counters
  <2>6. \A i \in 1..logged : Settled(i) => Settled(i)'
    BY SMTT(40), <2>1, <2>4, <1>c DEF Settled
  <2>7. \A i \in 1..logged : i <= beat.high => Settled(i)'
    <3> SUFFICES ASSUME NEW i \in 1..logged, i <= beat.high PROVE Settled(i)'
      OBVIOUS
    <3>1. CASE i < beat.from
      BY <3>1, <2>2, <2>6
    <3>2. CASE beat.from <= i /\ i < beat.low
      BY <3>2, <2>1, <1>c DEF Settled
    <3>3. CASE beat.low <= i
      BY <3>3, <2>4, <1>c DEF Settled
    <3> QED BY <3>1, <3>2, <3>3, <1>c
  <2>8. PassedIsSettled'
    BY <2>1, <2>6, <1>c DEF LogInv, PassedIsSettled
  <2>9. BatchOK'
    BY <2>1, <2>2, <2>3, <2>6, <2>7, <1>c DEF BatchOK
  <2>10. CopiesOK'
    <3> SUFFICES ASSUME NEW i \in 1..MaxLines
                 PROVE  copies'[i] <= lost' + restarts' + Excess(i)'
      BY DEF CopiesOK
    <3>1. copies[i] <= lost + restarts + Excess(i) /\ lost' = lost /\ restarts' = restarts
      BY <2>1 DEF LogInv, CopiesOK
    <3>n. /\ i \in Nat /\ shipped \in Nat /\ copies[i] \in Nat
          /\ beat.from \in Nat /\ beat.low \in Nat /\ beat.high \in Nat
      BY <1>c
    <3>2. CASE i <= shipped
      <4>1. Excess(i) = 1 /\ Excess(i)' = 1 /\ copies'[i] = copies[i]
        BY SMTT(40), <3>2, <2>1, <2>2, <2>4, <1>c DEF Excess
      <4> QED BY <4>1, <3>1
    <3>3. CASE shipped < i /\ i <= beat.high
      <4>a. ~(i <= shipped) /\ beat.state # "handled" /\ beat'.state = "handled" /\ i <= beat'.high
        BY <3>3, <3>n, <2>1, <2>3
      <4>b. Excess(i) = 0 /\ Excess(i)' = 1
        BY <4>a DEF Excess
      <4>c. copies'[i] <= copies[i] + 1
        BY <2>4, <3>n
      <4>1. Excess(i) = 0 /\ Excess(i)' = 1 /\ copies'[i] <= copies[i] + 1
        BY <4>b, <4>c
      <4>2. copies'[i] \in Nat /\ copies[i] \in Nat
        BY <2>4, <1>c
      <4> QED BY <4>1, <4>2, <3>1, <1>c
    <3>4. CASE beat.high < i
      <4>a. ~(i <= shipped) /\ ~(i <= shipped') /\ beat.state # "handled" /\ ~(i <= beat'.high)
        BY <3>4, <3>n, <2>1, <2>2, <2>3
      <4>b. Excess(i) = 0 /\ Excess(i)' = 0
        BY <4>a DEF Excess
      <4>c. copies'[i] = copies[i]
        BY <3>4, <2>4, <3>n
      <4>1. Excess(i) = 0 /\ Excess(i)' = 0 /\ copies'[i] = copies[i]
        BY <4>b, <4>c
      <4> QED BY <4>1, <3>1
    <3> QED BY <3>2, <3>3, <3>4, <1>c
  <2> QED BY <2>5, <2>8, <2>9, <2>10 DEF LogInv
<1>7. CASE CoordinatorRestarts
  <2>1. /\ beat' = NoBeat /\ restarts' = restarts + 1
        /\ UNCHANGED <<logged, first, shipped, copies, waived, lost>>
    BY <1>7 DEF CoordinatorRestarts
  <2>2. Counters'
    BY <2>1, <1>c, <1>n DEF Counters
  <2>3. PassedIsSettled' /\ BatchOK'
    BY <2>1, <1>n DEF LogInv, PassedIsSettled, BatchOK, Settled
  <2>4. CopiesOK'
    BY SMTT(40), <2>1, <1>c, <1>n DEF LogInv, CopiesOK, Excess
  <2> QED BY <2>2, <2>3, <2>4 DEF LogInv
<1>8. CASE TailPage \/ UNCHANGED logVars
  BY <1>8 DEF TailPage, logVars, LogInv, Counters, PassedIsSettled, BatchOK, CopiesOK, Excess, Settled
<1> QED BY <1>1, <1>2, <1>3, <1>4, <1>5, <1>6, <1>7, <1>8 DEF LogNext

-----------------------------------------------------------------------------
LEMMA LogInvariant == LogSpec => []LogInv
  BY LogInvInit, LogInvStep, PTL DEF LogSpec

\* _collect_log_batch and the watermark, with lost heartbeats and restarts: no
\* line is passed that neither a coordinator received nor anything accounts for.
THEOREM NothingLostInSilence == LogSpec => []NothingSlipsThrough
<1>1. LogInv => NothingSlipsThrough
  BY DEF LogInv, Counters, PassedIsSettled, Settled, NothingSlipsThrough
<1> QED BY <1>1, LogInvariant, PTL

\* The same line is received again only for a heartbeat that failed or a restart,
\* whatever the ring, the batch and the store hold.
THEOREM CopiesAreBounded == LogSpec => []OncePerFailure
<1>1. LogInv => OncePerFailure
  BY SMTT(40) DEF LogInv, Counters, CopiesOK, Excess, OncePerFailure
<1> QED BY <1>1, LogInvariant, PTL

-----------------------------------------------------------------------------
(* Live output: the lines of an attempt, delivered and on their way. *)

\* Later lines come after earlier ones, but for those in `strays`.
InOrderBut(events, strays) ==
  \A i, j \in DOMAIN events :
    i < j /\ events[i].kind = "output" /\ events[j].kind = "output" =>
      \/ events[i].value < events[j].value
      \/ events[i].value # events[j].value /\ events[j].value \in strays

Ascending(events) == InOrderBut(events, {})

Before(early, later) == \A x \in early, y \in later : x < y
Apart(one, other)    == \A x \in one : x \notin other

\* The lines that have arrived or been given up, and all that left the queue.
Gone  == Printed(arrived) \cup UNION {Printed(batch) : batch \in late}
Taken == Gone \cup Printed(post["thread"]) \cup Printed(post["stop"])

LateOK ==
  /\ \A b \in late : /\ Ascending(b) /\ Printed(b) \subseteq astray
                     /\ Apart(Printed(arrived), Printed(b))
  /\ \A b, c \in late : b = c \/ Apart(Printed(b), Printed(c))

\* No line is in two places.  What is queued is past all that left the queue, what
\* stop() posts is past what the thread does, and what is posted is past all that is
\* gone, but for lines that are astray.
OrderInv ==
  /\ OutputTypeOK /\ LateOK
  /\ InOrderBut(arrived, astray) /\ Ascending(pending) /\ \A p \in Posters : Ascending(post[p])
  /\ Before(Taken, Printed(pending))
  /\ \A n \in Taken \cup Printed(pending) : n <= job.printed
  /\ \A p \in Posters : /\ Apart(Gone, Printed(post[p]))
                        /\ Before(Gone, Printed(post[p]) \ astray)
  /\ Before(Printed(post["thread"]), Printed(post["stop"]))
  /\ post["stop"] # <<>> => Printed(post["thread"]) \subseteq astray
  /\ job.phase # "stopped" => post["stop"] = <<>>

LEMMA JoinedDomain ==
  ASSUME NEW s \in Seq(Events), NEW t \in Seq(Events), NEW i \in DOMAIN (s \o t)
  PROVE  \/ i \in DOMAIN s /\ (s \o t)[i] = s[i]
         \/ /\ i > Len(s) /\ i - Len(s) \in DOMAIN t /\ (s \o t)[i] = t[i - Len(s)]
            /\ i \in Int /\ Len(s) \in Int
OBVIOUS

LEMMA JoinedInOrder ==
  ASSUME NEW s \in Seq(Events), NEW t \in Seq(Events), NEW A,
         InOrderBut(s, A), InOrderBut(t, A),
         Apart(Printed(s), Printed(t)), Before(Printed(s), Printed(t) \ A)
  PROVE  InOrderBut(s \o t, A)
<1> DEFINE u == s \o t
<1> SUFFICES ASSUME NEW i \in DOMAIN u, NEW j \in DOMAIN u, i < j,
                    u[i].kind = "output", u[j].kind = "output"
             PROVE  u[i].value < u[j].value \/ (u[i].value # u[j].value /\ u[j].value \in A)
  BY DEF InOrderBut
<1>1. CASE j \in DOMAIN s /\ u[j] = s[j]
  <2>1. i \in DOMAIN s /\ u[i] = s[i]
    BY <1>1
  <2> QED BY <1>1, <2>1 DEF InOrderBut
<1>2. CASE j > Len(s) /\ j - Len(s) \in DOMAIN t /\ u[j] = t[j - Len(s)]
  <2>1. CASE i \in DOMAIN s /\ u[i] = s[i]
    <3>1. u[i].value \in Printed(s) /\ u[j].value \in Printed(t)
      BY <1>2, <2>1 DEF Printed
    <3>2. u[i].value # u[j].value
      BY <3>1 DEF Apart
    <3>3. u[j].value \notin A => u[i].value < u[j].value
      BY <3>1 DEF Before
    <3> QED BY <3>2, <3>3
  <2>2. CASE i > Len(s) /\ i - Len(s) \in DOMAIN t /\ u[i] = t[i - Len(s)]
    <3>1. i - Len(s) < j - Len(s)
      OBVIOUS
    <3> QED BY <1>2, <2>2, <3>1 DEF InOrderBut
  <2> QED BY <2>1, <2>2, JoinedDomain
<1> QED BY <1>1, <1>2, JoinedDomain

LEMMA WiderInOrder ==
  ASSUME NEW s, NEW A, NEW B, A \subseteq B, InOrderBut(s, A)
  PROVE  InOrderBut(s, B)
BY DEF InOrderBut

LEMMA PrintedJoined ==
  ASSUME NEW s \in Seq(Events), NEW t \in Seq(Events)
  PROVE  Printed(s \o t) = Printed(s) \cup Printed(t)
<1> DEFINE u == s \o t
<1>1. ASSUME NEW x \in Printed(u) PROVE x \in Printed(s) \cup Printed(t)
  <2>1. PICK i \in DOMAIN u : u[i].kind = "output" /\ x = u[i].value
    BY <1>1 DEF Printed
  <2> QED BY <2>1, JoinedDomain DEF Printed
<1>2. ASSUME NEW x \in Printed(s) PROVE x \in Printed(u)
  <2>1. PICK i \in DOMAIN s : s[i].kind = "output" /\ x = s[i].value
    BY <1>2 DEF Printed
  <2>2. i \in DOMAIN u /\ u[i] = s[i]
    OBVIOUS
  <2> QED BY <2>1, <2>2 DEF Printed
<1>3. ASSUME NEW x \in Printed(t) PROVE x \in Printed(u)
  <2>1. PICK i \in DOMAIN t : t[i].kind = "output" /\ x = t[i].value
    BY <1>3 DEF Printed
  <2>2. i + Len(s) \in DOMAIN u /\ u[i + Len(s)] = t[i]
    OBVIOUS
  <2> QED BY <2>1, <2>2 DEF Printed
<1> QED BY <1>1, <1>2, <1>3

LEMMA PrintedIn ==
  ASSUME NEW s \in Seq(Events)
  PROVE  Printed(s) \subseteq Nat
<1>1. \A i \in DOMAIN s : s[i] \in Events
  OBVIOUS
<1>2. \A e \in Events : e.kind = "output" => e.value \in Nat
  BY DEF Events
<1> QED BY <1>1, <1>2 DEF Printed

LEMMA NothingSent ==
  /\ <<>> \in Seq(Events) /\ Printed(<<>>) = {} /\ \A A : InOrderBut(<<>>, A)
  BY DEF Printed, InOrderBut

Recorders == [phase : {"idle", "executing", "reported", "stopped"}, owned : BOOLEAN,
              stages : Seq(Statuses), open : BOOLEAN, printed : Nat]

\* What the recorder adds: stage events, or a line after all printed so far.
LEMMA RecordLemma ==
  ASSUME OrderInv, NEW events \in Seq(Events), NEW rec, Record(events, rec),
         rec \in Recorders, rec.phase = job.phase,
         \/ /\ rec.printed = job.printed
            /\ \A i \in DOMAIN events : events[i].kind # "output"
         \/ /\ rec.printed = job.printed + 1 /\ Len(events) = 1
            /\ events[1].value = job.printed + 1
  PROVE  OrderInv'
<1>1. /\ pending' = pending \o events /\ UNCHANGED <<post, late, arrived, gap, astray>>
      /\ job' = rec
  BY DEF Record
<1>2. Ascending(events)
  BY DEF Ascending, InOrderBut
<1>3. Printed(events) \subseteq {rec.printed} /\ (Printed(events) # {} => rec.printed = job.printed + 1)
  BY DEF Printed
<1>4. job.printed \in Nat /\ rec.printed \in Nat /\ job.printed <= rec.printed
  BY DEF OrderInv, OutputTypeOK, Recorders
<1>5. /\ pending' \in Seq(Events) /\ Printed(pending') = Printed(pending) \cup Printed(events)
      /\ Printed(pending) \subseteq Nat
  BY <1>1, PrintedJoined, PrintedIn DEF OrderInv, OutputTypeOK
<1>6. Taken' = Taken /\ Gone' = Gone
  BY <1>1 DEF Taken, Gone
<1>7. \A n \in Taken \cup Printed(pending) : n <= job.printed
  BY DEF OrderInv
<1>8. Taken \subseteq Nat
  <2>1. /\ Printed(arrived) \subseteq Nat /\ \A p \in Posters : Printed(post[p]) \subseteq Nat
        /\ \A b \in late : Printed(b) \subseteq Nat
    BY PrintedIn DEF OrderInv, OutputTypeOK
  <2> QED BY <2>1 DEF Taken, Gone, Posters
<1>9. Ascending(pending')
  <2>1. Apart(Printed(pending), Printed(events)) /\ Before(Printed(pending), Printed(events) \ {})
    BY <1>3, <1>4, <1>5, <1>7 DEF Apart, Before
  <2> QED BY <1>1, <1>2, <2>1, JoinedInOrder DEF OrderInv, OutputTypeOK, Ascending
<1>10. Before(Taken', Printed(pending'))
  BY <1>3, <1>4, <1>5, <1>6, <1>7, <1>8 DEF Before, OrderInv
<1>11. \A n \in Taken' \cup Printed(pending') : n <= rec.printed
  BY <1>3, <1>4, <1>5, <1>6, <1>7, <1>8
<1>12. OutputTypeOK' /\ LateOK'
  BY <1>1, <1>5 DEF OrderInv, OutputTypeOK, Recorders, LateOK
<1> HIDE DEF Recorders
<1> QED BY <1>1, <1>6, <1>9, <1>10, <1>11, <1>12 DEF OrderInv

LEMMA OrderStep ==
  ASSUME OrderInv, [OutputNext]_outputVars
  PROVE  OrderInv'
<1>0. /\ job \in Recorders /\ LastStage \in Nat /\ LastStage + 1 \in Nat
      /\ job.stages \in Seq(Statuses) /\ job.printed \in Nat
  BY DEF OrderInv, OutputTypeOK, Recorders, LastStage
<1>2. CASE BeginStage
  <2> DEFINE e   == Event("begin", LastStage + 1, "running")
             rec == [job EXCEPT !.stages = Append(@, "running"), !.open = TRUE]
  <2>1. Record(<<e>>, rec)
    BY <1>2 DEF BeginStage
  <2>2. e \in Events /\ e.kind = "begin"
    BY <1>0 DEF Events, Event, Statuses
  <2>3. rec \in Recorders /\ rec.phase = job.phase /\ rec.printed = job.printed
    <3>1. Append(job.stages, "running") \in Seq(Statuses)
      BY <1>0 DEF Statuses
    <3> QED BY <1>0, <3>1 DEF Recorders
  <2> HIDE DEF e, rec
  <2>4. <<e>> \in Seq(Events) /\ Len(<<e>>) = 1 /\ <<e>>[1] = e /\ DOMAIN <<e>> = {1}
    BY <2>2
  <2> QED BY <2>1, <2>2, <2>3, <2>4, RecordLemma
<1>3. CASE Output
  <2> DEFINE e   == Event("output", LastStage, job.printed + 1)
             rec == [job EXCEPT !.printed = @ + 1]
  <2>1. Record(<<e>>, rec)
    BY <1>3 DEF Output
  <2>2. e \in Events /\ e.value = job.printed + 1
    BY <1>0 DEF Events, Event
  <2>3. rec \in Recorders /\ rec.phase = job.phase /\ rec.printed = job.printed + 1
    BY <1>0 DEF Recorders
  <2> HIDE DEF e, rec
  <2>4. <<e>> \in Seq(Events) /\ Len(<<e>>) = 1 /\ <<e>>[1] = e /\ DOMAIN <<e>> = {1}
    BY <2>2
  <2> QED BY <2>1, <2>2, <2>3, <2>4, RecordLemma
<1>4. CASE EndStage
  <2>1. PICK status \in {"passed", "failed"} :
          Record(<<Event("end", LastStage, status)>>,
                 [job EXCEPT !.stages[LastStage] = status, !.open = FALSE])
    BY <1>4 DEF EndStage
  <2> DEFINE e   == Event("end", LastStage, status)
             rec == [job EXCEPT !.stages[LastStage] = status, !.open = FALSE]
  <2>2. e \in Events /\ e.kind = "end"
    BY <1>0 DEF Events, Event, Statuses
  <2>3. rec \in Recorders /\ rec.phase = job.phase /\ rec.printed = job.printed
    <3>1. [job.stages EXCEPT ![LastStage] = status] \in Seq(Statuses)
      <4>1. job.stages \in [1..LastStage -> Statuses] /\ status \in Statuses
        BY <1>0 DEF LastStage, Statuses
      <4>2. [job.stages EXCEPT ![LastStage] = status] \in [1..LastStage -> Statuses]
        BY <4>1
      <4> QED BY <1>0, <4>2
    <3> QED BY <1>0, <3>1 DEF Recorders
  <2>4. Record(<<e>>, rec)
    BY <2>1
  <2> HIDE DEF e, rec
  <2>5. <<e>> \in Seq(Events) /\ Len(<<e>>) = 1 /\ <<e>>[1] = e /\ DOMAIN <<e>> = {1}
    BY <2>2
  <2> QED BY <2>2, <2>3, <2>4, <2>5, RecordLemma
<1>5. CASE SkipStage
  <2> DEFINE e   == Event("begin", LastStage + 1, "running")
             f   == Event("end", LastStage + 1, "skipped")
             rec == [job EXCEPT !.stages = Append(@, "skipped")]
  <2>1. Record(<<e, f>>, rec)
    BY <1>5 DEF SkipStage
  <2>2. e \in Events /\ e.kind = "begin" /\ f \in Events /\ f.kind = "end"
    BY <1>0 DEF Events, Event, Statuses
  <2>3. rec \in Recorders /\ rec.phase = job.phase /\ rec.printed = job.printed
    <3>1. Append(job.stages, "skipped") \in Seq(Statuses)
      BY <1>0 DEF Statuses
    <3> QED BY <1>0, <3>1 DEF Recorders
  <2> HIDE DEF e, f, rec
  <2>4. <<e, f>> \in Seq(Events) /\ \A i \in DOMAIN <<e, f>> : <<e, f>>[i].kind # "output"
    BY <2>2
  <2> QED BY <2>1, <2>3, <2>4, RecordLemma
<1>p. /\ post \in [Posters -> Seq(Events)] /\ "thread" \in Posters /\ "stop" \in Posters
      /\ \A p \in Posters : p = "thread" \/ p = "stop"
      /\ pending \in Seq(Events) /\ arrived \in Seq(Events) /\ late \subseteq Seq(Events)
  BY DEF OrderInv, OutputTypeOK, Posters
<1>d. \A x \in Printed(post["thread"]), y \in Printed(post["stop"]) : x # y
  <2>1. Printed(post["thread"]) \subseteq Nat
    BY <1>p, PrintedIn
  <2> QED BY <2>1 DEF OrderInv, Before
<1>f. ASSUME NEW p \in Posters, Flush(p), p = "stop" \/ post["stop"] = <<>>, NEW strays,
             p = "stop" => strays = astray \cup Printed(post["thread"]),
             p = "thread" => strays = astray
      PROVE  /\ post' \in [Posters -> Seq(Events)] /\ pending' = <<>>
             /\ \A q \in Posters : Ascending(post'[q])
             /\ Printed(post'["thread"]) \cup Printed(post'["stop"]) =
                  Printed(post["thread"]) \cup Printed(post["stop"]) \cup Printed(pending)
             /\ \A q \in Posters : /\ Apart(Gone, Printed(post'[q]))
                                   /\ Before(Gone, Printed(post'[q]) \ strays)
             /\ Before(Printed(post'["thread"]), Printed(post'["stop"]))
             /\ post'["stop"] # <<>> => Printed(post'["thread"]) \subseteq strays
  <2>1. /\ post[p] = <<>> /\ post' = [post EXCEPT ![p] = pending] /\ pending' = <<>>
    BY <1>f DEF Flush
  <2>2. /\ post' \in [Posters -> Seq(Events)] /\ post'[p] = pending
        /\ \A q \in Posters \ {p} : post'[q] = post[q]
    BY <1>p, <2>1
  <2>3. \A q \in Posters : Ascending(post'[q])
    BY <2>2 DEF OrderInv
  <2>4. Printed(post[p]) = {} /\ (p = "thread" => Printed(post["stop"]) = {})
    BY <1>f, <2>1, NothingSent
  <2>5. Printed(post'["thread"]) \cup Printed(post'["stop"]) =
          Printed(post["thread"]) \cup Printed(post["stop"]) \cup Printed(pending)
    BY <1>p, <2>2, <2>4
  <2>6. Before(Gone, Printed(pending)) /\ Before(Printed(post["thread"]), Printed(pending))
    BY DEF OrderInv, Before, Taken
  <2>7. Apart(Gone, Printed(pending))
    <3>1. Printed(pending) \subseteq Nat
      BY <1>p, PrintedIn
    <3> QED BY <2>6, <3>1 DEF Apart, Before
  <2>8. astray \subseteq strays
    BY <1>f, <1>p
  <2>9. \A q \in Posters : Apart(Gone, Printed(post'[q])) /\ Before(Gone, Printed(post'[q]) \ strays)
    BY <2>2, <2>6, <2>7, <2>8 DEF OrderInv, Before
  <2>10. CASE p = "thread"
    <3>1. post'["stop"] = <<>> /\ Printed(post'["stop"]) = {}
      BY <1>f, <1>p, <2>1, <2>2, <2>4, <2>10
    <3> QED BY <2>1, <2>2, <2>3, <2>5, <2>9, <3>1 DEF Before
  <2>11. CASE p = "stop"
    <3>1. post'["thread"] = post["thread"] /\ post'["stop"] = pending
      BY <1>p, <2>2, <2>11
    <3> QED BY <1>f, <2>1, <2>2, <2>3, <2>5, <2>6, <2>9, <2>11, <3>1
  <2> QED BY <1>p, <2>10, <2>11
<1>6. CASE ThreadFlush
  <2>1. /\ Flush("thread") /\ post["stop"] = <<>> /\ UNCHANGED <<job, late, arrived, gap, astray>>
    BY <1>6 DEF ThreadFlush, OrderInv
  <2>2. /\ post' \in [Posters -> Seq(Events)] /\ pending' = <<>>
        /\ \A q \in Posters : Ascending(post'[q])
        /\ Printed(post'["thread"]) \cup Printed(post'["stop"]) =
             Printed(post["thread"]) \cup Printed(post["stop"]) \cup Printed(pending)
        /\ \A q \in Posters : /\ Apart(Gone, Printed(post'[q]))
                              /\ Before(Gone, Printed(post'[q]) \ astray)
        /\ Before(Printed(post'["thread"]), Printed(post'["stop"]))
        /\ post'["stop"] # <<>> => Printed(post'["thread"]) \subseteq astray
    BY <1>f, <1>p, <2>1
  <2>3. post'["stop"] = <<>>
    BY <1>p, <2>1 DEF Flush
  <2>4. Gone' = Gone /\ Taken' = Taken \cup Printed(pending) /\ Printed(pending') = {}
    BY <2>1, <2>2, NothingSent DEF Gone, Taken
  <2>5. OutputTypeOK' /\ LateOK' /\ Ascending(pending')
    BY <2>1, <2>2, NothingSent DEF OrderInv, OutputTypeOK, LateOK, Ascending
  <2>6. Before(Taken', Printed(pending')) /\ \A n \in Taken' \cup Printed(pending') : n <= job'.printed
    BY <2>1, <2>4 DEF OrderInv, Before
  <2> QED BY <2>1, <2>2, <2>3, <2>4, <2>5, <2>6 DEF OrderInv
<1>7. CASE Stop
  <2>1. /\ UNCHANGED <<late, arrived, gap>> /\ job' = [job EXCEPT !.phase = "stopped"]
    BY <1>7 DEF Stop
  <2>2. job' \in Recorders /\ job'.printed = job.printed /\ job'.phase = "stopped"
    BY <1>0, <2>1 DEF Recorders
  <2>3. CASE UNCHANGED <<pending, post, astray>>
    <3>1. Gone' = Gone /\ Taken' = Taken
      BY <2>1, <2>3 DEF Gone, Taken
    <3>2. OutputTypeOK' /\ LateOK'
      BY <2>1, <2>2, <2>3 DEF OrderInv, OutputTypeOK, LateOK, Recorders
    <3> QED BY <2>1, <2>2, <2>3, <3>1, <3>2 DEF OrderInv
  <2>4. CASE Flush("stop") /\ astray' = astray \cup Printed(post["thread"])
    <3>1. /\ post' \in [Posters -> Seq(Events)] /\ pending' = <<>>
          /\ \A q \in Posters : Ascending(post'[q])
          /\ Printed(post'["thread"]) \cup Printed(post'["stop"]) =
               Printed(post["thread"]) \cup Printed(post["stop"]) \cup Printed(pending)
          /\ \A q \in Posters : /\ Apart(Gone, Printed(post'[q]))
                                /\ Before(Gone, Printed(post'[q]) \ astray')
          /\ Before(Printed(post'["thread"]), Printed(post'["stop"]))
          /\ post'["stop"] # <<>> => Printed(post'["thread"]) \subseteq astray'
      BY <1>f, <1>p, <2>4
    <3>2. Gone' = Gone /\ Taken' = Taken \cup Printed(pending) /\ Printed(pending') = {}
      BY <2>1, <3>1, NothingSent DEF Gone, Taken
    <3>3. astray \subseteq astray' /\ astray' \subseteq Nat
      BY <1>p, <2>4, PrintedIn DEF OrderInv, OutputTypeOK
    <3>4. InOrderBut(arrived', astray')
      BY <2>1, <3>3, WiderInOrder DEF OrderInv
    <3>5. OutputTypeOK'
      BY <2>1, <2>2, <3>1, <3>3, NothingSent DEF OrderInv, OutputTypeOK, Recorders
    <3>6. LateOK' /\ Ascending(pending')
      BY <2>1, <3>1, <3>3, NothingSent DEF OrderInv, LateOK, Ascending
    <3>7. Before(Taken', Printed(pending')) /\ \A n \in Taken' \cup Printed(pending') : n <= job'.printed
      BY <2>2, <3>2 DEF OrderInv, Before
    <3> QED BY <2>1, <2>2, <3>1, <3>2, <3>4, <3>5, <3>6, <3>7 DEF OrderInv
  <2> QED BY <1>7, <2>3, <2>4 DEF Stop
<1>j. ASSUME NEW rec \in Recorders, job' = rec, rec.printed = job.printed,
             rec.phase # "stopped" => job.phase # "stopped",
             UNCHANGED <<pending, post, late, arrived, astray>>, gap' \in BOOLEAN
      PROVE  OrderInv'
  <2>1. Gone' = Gone /\ Taken' = Taken
    BY <1>j DEF Gone, Taken
  <2>2. OutputTypeOK' /\ LateOK'
    BY <1>j DEF OrderInv, OutputTypeOK, LateOK, Recorders
  <2> QED BY <1>j, <2>1, <2>2 DEF OrderInv
<1>1. CASE Start
  <2>1. /\ [job EXCEPT !.phase = "executing"] \in Recorders /\ job.phase = "idle"
        /\ job' = [job EXCEPT !.phase = "executing"]
        /\ UNCHANGED <<pending, post, late, arrived, astray, gap>>
    BY <1>0, <1>1 DEF Recorders, Start
  <2>2. job'.printed = job.printed
    BY <1>0, <2>1 DEF Recorders
  <2> QED BY <1>j, <2>1, <2>2 DEF OrderInv, OutputTypeOK
<1>8. CASE ReportOutput
  <2>1. /\ UNCHANGED <<pending, post, late, arrived, astray>> /\ job' = [job EXCEPT !.phase = "reported"]
        /\ job.phase = "executing" /\ gap' \in BOOLEAN
    BY <1>8 DEF ReportOutput, OrderInv, OutputTypeOK
  <2>2. job' \in Recorders /\ job'.printed = job.printed
    BY <1>0, <2>1 DEF Recorders
  <2> QED BY <1>j, <2>1, <2>2
<1>9. CASE Reclaimed
  <2>1. /\ UNCHANGED <<pending, post, late, arrived, astray>> /\ job' = [job EXCEPT !.owned = FALSE]
        /\ job.phase = "executing" /\ gap' \in BOOLEAN
    BY <1>9 DEF Reclaimed, OrderInv, OutputTypeOK
  <2>2. job' \in Recorders /\ job'.printed = job.printed
    BY <1>0, <2>1 DEF Recorders
  <2> QED BY <1>j, <2>1, <2>2
<1>e. ASSUME arrived' = <<>>, pending' = <<>>, late' = {}, astray' = {}, gap' \in BOOLEAN,
             post' = [p \in Posters |-> <<>>], job' \in Recorders
      PROVE  OrderInv'
  <2>1. /\ post' \in [Posters -> Seq(Events)] /\ \A p \in Posters : post'[p] = <<>>
        /\ post'["stop"] = <<>> /\ post'["thread"] = <<>>
    BY <1>e, <1>p, NothingSent
  <2>2. Gone' = {} /\ Taken' = {}
    BY <1>e, <2>1, NothingSent DEF Gone, Taken
  <2>3. OutputTypeOK' /\ LateOK'
    BY <1>e, <2>1, NothingSent DEF OutputTypeOK, LateOK, Recorders
  <2>4. /\ Before(Taken', Printed(pending')) /\ Before(Printed(post'["thread"]), Printed(post'["stop"]))
        /\ \A n \in Taken' \cup Printed(pending') : n <= job'.printed
        /\ \A p \in Posters : Apart(Gone', Printed(post'[p])) /\ Before(Gone', Printed(post'[p]) \ astray')
    BY <1>e, <2>1, <2>2, NothingSent DEF Before, Apart
  <2> QED BY <1>e, <2>1, <2>3, <2>4, NothingSent DEF OrderInv, Ascending
<1>10. CASE Reattempted
  <2>1. NewAttempt("executing") \in Recorders
    BY DEF NewAttempt, Recorders
  <2> QED BY <1>10, <1>e, <2>1 DEF Reattempted, OrderInv, OutputTypeOK
<1>11. CASE Evicted
  BY <1>11, <1>j, <1>0 DEF Evicted
<1>12. ASSUME NEW p \in Posters, Receive(p)
       PROVE  OrderInv'
  <2>1. /\ post' = [post EXCEPT ![p] = <<>>] /\ UNCHANGED <<job, pending, gap, late, astray>>
        /\ post[p] # <<>>
    BY <1>12 DEF Receive, Handled
  <2>2. /\ post' \in [Posters -> Seq(Events)] /\ post'[p] = <<>>
        /\ \A q \in Posters \ {p} : post'[q] = post[q]
    BY <1>p, <2>1, NothingSent
  <2>3. /\ Printed(post'[p]) = {} /\ \A q \in Posters : Printed(post'[q]) \subseteq Printed(post[q])
        /\ \A q \in Posters : Ascending(post'[q])
    BY <2>2, NothingSent DEF OrderInv, Ascending
  <2>4. /\ Before(Printed(post'["thread"]), Printed(post'["stop"]))
        /\ post'["stop"] # <<>> => Printed(post'["thread"]) \subseteq astray
        /\ job'.phase # "stopped" => post'["stop"] = <<>>
    <3>1. post'["stop"] # <<>> => post'["stop"] = post["stop"]
      BY <1>p, <2>2
    <3> QED BY <1>p, <2>1, <2>3, <3>1 DEF OrderInv, Before
  <2>5. CASE ~job.owned
    <3>1. arrived' = arrived
      BY <1>12, <2>5 DEF Receive, Handled
    <3>2. Gone' = Gone /\ Taken' \subseteq Taken
      BY <1>p, <2>1, <2>3, <3>1 DEF Gone, Taken
    <3>3. OutputTypeOK' /\ LateOK'
      BY <2>1, <2>2, <3>1 DEF OrderInv, OutputTypeOK, LateOK
    <3>4. /\ Before(Taken', Printed(pending)) /\ \A n \in Taken' \cup Printed(pending) : n <= job.printed
          /\ \A q \in Posters : Apart(Gone, Printed(post'[q])) /\ Before(Gone, Printed(post'[q]) \ astray)
      BY <2>3, <3>2 DEF OrderInv, Before, Apart
    <3> QED BY <2>1, <2>3, <2>4, <3>1, <3>2, <3>3, <3>4 DEF OrderInv
  <2>6. CASE job.owned
    <3>1. arrived' = arrived \o post[p] /\ post[p] \in Seq(Events)
      BY <1>12, <1>p, <2>6 DEF Receive, Handled
    <3>2. /\ Printed(arrived') = Printed(arrived) \cup Printed(post[p]) /\ arrived' \in Seq(Events)
          /\ Printed(arrived) \subseteq Gone
      BY <1>p, <3>1, PrintedJoined DEF Gone
    <3>3. Gone' = Gone \cup Printed(post[p]) /\ Taken' \subseteq Taken
      BY <1>p, <2>1, <2>3, <3>2 DEF Gone, Taken
    <3>4. InOrderBut(arrived', astray)
      <4>1. Apart(Printed(arrived), Printed(post[p])) /\ Before(Printed(arrived), Printed(post[p]) \ astray)
        BY <3>2 DEF OrderInv, Apart, Before
      <4>2. InOrderBut(post[p], astray)
        <5>1. InOrderBut(post[p], {}) /\ {} \subseteq astray
          BY DEF OrderInv, Ascending
        <5> QED BY <5>1, WiderInOrder
      <4> QED BY <1>p, <3>1, <4>1, <4>2, JoinedInOrder DEF OrderInv
    <3>5. OutputTypeOK'
      BY <2>1, <2>2, <3>2 DEF OrderInv, OutputTypeOK
    <3>6. LateOK'
      <4>1. \A b \in late : Apart(Printed(arrived'), Printed(b))
        <5>1. \A b \in late : Printed(b) \subseteq Gone
          BY DEF Gone
        <5> QED BY <3>2, <5>1 DEF OrderInv, LateOK, Apart
      <4> QED BY <2>1, <4>1 DEF OrderInv, LateOK
    <3>7. Before(Taken', Printed(pending)) /\ \A n \in Taken' \cup Printed(pending) : n <= job.printed
      BY <3>3 DEF OrderInv, Before
    <3>8. ASSUME NEW q \in Posters
          PROVE  /\ Apart(Gone', Printed(post'[q])) /\ Before(Gone', Printed(post'[q]) \ astray)
      <4>1. CASE q = p
        BY <2>3, <4>1 DEF Apart, Before
      <4>2. CASE q # p
        <5>1. post'[q] = post[q] /\ \A x \in Printed(post[p]), y \in Printed(post[q]) : x # y
          <6>1. (p = "thread" /\ q = "stop") \/ (p = "stop" /\ q = "thread")
            BY <1>p, <4>2
          <6> QED BY <1>d, <2>2, <4>2, <6>1
        <5>2. Before(Printed(post[p]), Printed(post[q]) \ astray)
          BY <1>p, <2>1, <4>2 DEF OrderInv, Before
        <5> QED BY <3>3, <5>1, <5>2 DEF OrderInv, Apart, Before
      <4> QED BY <4>1, <4>2
    <3> QED BY <2>1, <2>3, <2>4, <3>4, <3>5, <3>6, <3>7, <3>8 DEF OrderInv
  <2> QED BY <2>5, <2>6
<1>13. ASSUME NEW p \in Posters, GivesUp(p)
       PROVE  OrderInv'
  <2>1. /\ post' = [post EXCEPT ![p] = <<>>] /\ late' = late \cup {post[p]} /\ gap' = TRUE
        /\ astray' = astray \cup Printed(post[p]) /\ post[p] # <<>>
        /\ UNCHANGED <<job, pending, arrived>>
    BY <1>13 DEF GivesUp
  <2>2. /\ post' \in [Posters -> Seq(Events)] /\ post'[p] = <<>> /\ post[p] \in Seq(Events)
        /\ \A q \in Posters \ {p} : post'[q] = post[q]
    BY <1>p, <2>1, NothingSent
  <2>3. /\ Printed(post'[p]) = {} /\ \A q \in Posters : Printed(post'[q]) \subseteq Printed(post[q])
        /\ \A q \in Posters : Ascending(post'[q])
    BY <2>2, NothingSent DEF OrderInv, Ascending
  <2>4. /\ Before(Printed(post'["thread"]), Printed(post'["stop"]))
        /\ post'["stop"] # <<>> => Printed(post'["thread"]) \subseteq astray'
        /\ job'.phase # "stopped" => post'["stop"] = <<>>
    <3>1. post'["stop"] # <<>> => post'["stop"] = post["stop"]
      BY <1>p, <2>2
    <3> QED BY <1>p, <2>1, <2>3, <3>1 DEF OrderInv, Before
  <2>5. Gone' = Gone \cup Printed(post[p]) /\ Taken' \subseteq Taken
    <3>1. Gone' = Gone \cup Printed(post[p])
      BY <2>1 DEF Gone
    <3> QED BY <1>p, <2>3, <3>1 DEF Taken
  <2>6. OutputTypeOK'
    <3>1. Printed(post[p]) \subseteq Nat
      BY <2>2, PrintedIn
    <3> QED BY <2>1, <2>2, <3>1 DEF OrderInv, OutputTypeOK
  <2>7. LateOK'
    <3>1. Printed(arrived) \subseteq Gone /\ \A b \in late : Printed(b) \subseteq Gone
      BY DEF Gone
    <3>2. Apart(Gone, Printed(post[p])) /\ Ascending(post[p])
      BY DEF OrderInv
    <3>3. \A b \in late' : /\ Ascending(b) /\ Printed(b) \subseteq astray'
                           /\ Apart(Printed(arrived), Printed(b))
      BY <2>1, <3>1, <3>2 DEF OrderInv, LateOK, Apart
    <3>4. \A b, c \in late' : b = c \/ Apart(Printed(b), Printed(c))
      BY <2>1, <3>1, <3>2 DEF OrderInv, LateOK, Apart
    <3> QED BY <2>1, <3>3, <3>4 DEF LateOK
  <2>8. InOrderBut(arrived', astray')
    BY <2>1, WiderInOrder DEF OrderInv
  <2>9. Before(Taken', Printed(pending)) /\ \A n \in Taken' \cup Printed(pending) : n <= job.printed
    BY <2>5 DEF OrderInv, Before
  <2>10. ASSUME NEW q \in Posters
         PROVE  /\ Apart(Gone', Printed(post'[q])) /\ Before(Gone', Printed(post'[q]) \ astray')
    <3>1. CASE q = p
      BY <2>3, <3>1 DEF Apart, Before
    <3>2. CASE q # p
      <4>1. post'[q] = post[q] /\ \A x \in Printed(post[p]), y \in Printed(post[q]) : x # y
        <5>1. (p = "thread" /\ q = "stop") \/ (p = "stop" /\ q = "thread")
          BY <1>p, <3>2
        <5> QED BY <1>d, <2>2, <3>2, <5>1
      <4>2. Before(Printed(post[p]), Printed(post[q]) \ astray)
        BY <1>p, <2>1, <3>2 DEF OrderInv, Before
      <4> QED BY <2>1, <2>5, <4>1, <4>2 DEF OrderInv, Apart, Before
    <3> QED BY <3>1, <3>2
  <2> QED BY <2>1, <2>3, <2>4, <2>6, <2>7, <2>8, <2>9, <2>10 DEF OrderInv
<1>15. ASSUME NEW batch \in late, ReceiveLate(batch)
       PROVE  OrderInv'
  <2>1. late' = late \ {batch} /\ UNCHANGED <<job, pending, gap, post, astray>> /\ batch \in Seq(Events)
    BY <1>15, <1>p DEF ReceiveLate, Handled
  <2>2. /\ Printed(arrived) \subseteq Gone /\ Printed(batch) \subseteq Gone
        /\ Ascending(batch) /\ Printed(batch) \subseteq astray /\ Apart(Printed(arrived), Printed(batch))
    BY DEF Gone, OrderInv, LateOK
  <2>3. /\ arrived' \in Seq(Events) /\ InOrderBut(arrived', astray)
        /\ Printed(arrived') \subseteq Printed(arrived) \cup Printed(batch)
    <3>1. CASE ~job.owned
      BY <1>15, <1>p, <3>1 DEF ReceiveLate, Handled, OrderInv
    <3>2. CASE job.owned
      <4>1. arrived' = arrived \o batch
        BY <1>15, <3>2 DEF ReceiveLate, Handled
      <4>2. Before(Printed(arrived), Printed(batch) \ astray)
        BY <2>2 DEF Before
      <4>3. InOrderBut(batch, astray)
        <5>1. InOrderBut(batch, {}) /\ {} \subseteq astray
          BY <2>2 DEF Ascending
        <5> QED BY <5>1, WiderInOrder
      <4>4. InOrderBut(arrived', astray)
        BY <1>p, <2>1, <2>2, <4>1, <4>2, <4>3, JoinedInOrder DEF OrderInv
      <4> QED BY <1>p, <2>1, <4>1, <4>4, PrintedJoined
    <3> QED BY <3>1, <3>2
  <2>4. Gone' \subseteq Gone /\ Taken' \subseteq Taken
    <3>1. Gone' \subseteq Gone
      BY <2>1, <2>2, <2>3 DEF Gone
    <3> QED BY <2>1, <3>1 DEF Taken
  <2>5. LateOK'
    <3>1. \A b \in late' : Apart(Printed(arrived'), Printed(b))
      BY <2>1, <2>3 DEF OrderInv, LateOK, Apart
    <3> QED BY <2>1, <3>1 DEF OrderInv, LateOK
  <2>6. OutputTypeOK'
    BY <2>1, <2>3 DEF OrderInv, OutputTypeOK
  <2>7. /\ Before(Taken', Printed(pending)) /\ \A n \in Taken' \cup Printed(pending) : n <= job.printed
        /\ \A q \in Posters : Apart(Gone', Printed(post[q])) /\ Before(Gone', Printed(post[q]) \ astray)
    BY <2>4 DEF OrderInv, Before, Apart
  <2> QED BY <2>1, <2>3, <2>5, <2>6, <2>7 DEF OrderInv
<1>14. CASE UNCHANGED outputVars
  <2>1. UNCHANGED <<pending, post, late, arrived, astray, job, gap>>
    BY <1>14 DEF outputVars
  <2> QED BY <1>0, <1>j, <2>1 DEF OrderInv, OutputTypeOK
<1> QED BY <1>1, <1>2, <1>3, <1>4, <1>5, <1>6, <1>7, <1>8, <1>9, <1>10, <1>11, <1>12, <1>13, <1>14,
           <1>15 DEF OutputNext

LEMMA OrderInit == OutputInit => OrderInv
<1> SUFFICES ASSUME OutputInit PROVE OrderInv
  OBVIOUS
<1>1. /\ arrived = <<>> /\ pending = <<>> /\ late = {} /\ astray = {} /\ gap = FALSE
      /\ post = [p \in Posters |-> <<>>] /\ job = NewAttempt("idle")
  BY DEF OutputInit
<1>2. job \in Recorders
  BY <1>1 DEF NewAttempt, Recorders
<1>3. /\ post \in [Posters -> Seq(Events)] /\ \A p \in Posters : post[p] = <<>>
      /\ post["stop"] = <<>> /\ post["thread"] = <<>>
  BY <1>1, NothingSent DEF Posters
<1>4. Gone = {} /\ Taken = {}
  BY <1>1, <1>3, NothingSent DEF Gone, Taken
<1>5. OutputTypeOK /\ LateOK
  BY <1>1, <1>2, <1>3, NothingSent DEF OutputTypeOK, LateOK, Recorders
<1>6. /\ Before(Taken, Printed(pending)) /\ Before(Printed(post["thread"]), Printed(post["stop"]))
      /\ \A n \in Taken \cup Printed(pending) : n <= job.printed
      /\ \A p \in Posters : Apart(Gone, Printed(post[p])) /\ Before(Gone, Printed(post[p]) \ astray)
  BY <1>1, <1>3, <1>4, NothingSent DEF Before, Apart
<1> QED BY <1>1, <1>3, <1>5, <1>6, NothingSent DEF OrderInv, Ascending

\* Whatever posts fail, are handled late or overtake one another, and however long
\* an attempt and its batches are: no line comes to the page twice, and one that
\* comes after a later line was given up, or being posted when stop() went past it.
THEOREM LinesArriveOnceAndInOrder == OutputSpec => []OnlyAstrayLinesAreLate
<1>1. OrderInv /\ [OutputNext]_outputVars => OrderInv'
  BY OrderStep
<1>2. OrderInv => OnlyAstrayLinesAreLate
  BY DEF OrderInv, InOrderBut, OnlyAstrayLinesAreLate
<1> QED BY <1>1, <1>2, OrderInit, PTL DEF OutputSpec

-----------------------------------------------------------------------------
(* Live output: the buffer follows the recorder.  What a batch makes of a buffer is *)
(* a fold; its laws are found from the shortest batch that would break them.        *)

\* f holds the buffers along the first n events of a batch.
Along(f, buf, batch, n) ==
  f = [i \in 0..n |-> IF i = 0 THEN buf ELSE Applied(f[i - 1], batch[i])]

LEMMA LeastNumber ==
  ASSUME NEW T \in SUBSET Nat, T # {}
  PROVE  \E n \in T : \A k \in T : n <= k
<1>1. PICK n \in T : \A k \in T : ~ (<<k, n>> \in OpToRel(<, Nat))
  BY WFMin, NatLessThanWellFounded
<1>2. \A k \in T : ~(k < n)
  BY <1>1 DEF OpToRel
<1> QED BY <1>2

\* There is one such function, and no other.
LEMMA AlongUnique ==
  ASSUME NEW buf, NEW batch, NEW n \in Nat, NEW f, NEW g,
         Along(f, buf, batch, n), Along(g, buf, batch, n)
  PROVE  f = g
<1> DEFINE T == {i \in 0..n : f[i] # g[i]}
<1>1. /\ f = [i \in 0..n |-> f[i]] /\ g = [i \in 0..n |-> g[i]]
      /\ \A i \in 0..n : f[i] = IF i = 0 THEN buf ELSE Applied(f[i - 1], batch[i])
      /\ \A i \in 0..n : g[i] = IF i = 0 THEN buf ELSE Applied(g[i - 1], batch[i])
  BY DEF Along
<1>2. ASSUME T # {}
      PROVE  FALSE
  <2>0. T \in SUBSET Nat
    OBVIOUS
  <2>1. PICK i \in T : \A k \in T : i <= k
    <3> HIDE DEF T
    <3> QED BY <1>2, <2>0, LeastNumber
  <2>2. i \in 0..n /\ i # 0
    BY <1>1, <2>1
  <2>3. i - 1 \in 0..n /\ i - 1 \notin T
    BY <2>1, <2>2
  <2>4. f[i] = g[i]
    BY <1>1, <2>2, <2>3
  <2> QED BY <2>1, <2>4
<1> QED BY <1>1, <1>2

LEMMA AlongExists ==
  ASSUME NEW buf, NEW batch, NEW n \in Nat
  PROVE  \E f : Along(f, buf, batch, n)
<1> DEFINE T == {k \in Nat : ~ \E f : Along(f, buf, batch, k)}
<1>1. ASSUME T # {}
      PROVE  FALSE
  <2>1. PICK k \in T : \A j \in T : k <= j
    BY <1>1, LeastNumber
  <2>2. CASE k = 0
    <3>1. Along([i \in 0..0 |-> buf], buf, batch, 0)
      BY DEF Along
    <3> QED BY <2>1, <2>2, <3>1
  <2>3. CASE k # 0
    <3>1. k - 1 \in Nat /\ k - 1 \notin T
      BY <2>1, <2>3
    <3>2. PICK f : Along(f, buf, batch, k - 1)
      BY <3>1
    <3> DEFINE g == [i \in 0..k |-> IF i = k THEN Applied(f[k - 1], batch[k]) ELSE f[i]]
    <3>3. Along(g, buf, batch, k)
      <4>1. \A i \in 0..(k - 1) : f[i] = IF i = 0 THEN buf ELSE Applied(f[i - 1], batch[i])
        BY <3>2 DEF Along
      <4>2. ASSUME NEW i \in 0..k
            PROVE  g[i] = IF i = 0 THEN buf ELSE Applied(g[i - 1], batch[i])
        <5>1. CASE i = k
          BY <2>1, <2>3, <5>1
        <5>2. CASE i # k
          BY <2>1, <4>1, <5>2
        <5> QED BY <5>1, <5>2
      <4> QED BY <4>2 DEF Along
    <3> QED BY <2>1, <3>3
  <2> QED BY <2>2, <2>3
<1> QED BY <1>1

\* A batch of no events leaves the buffer as it is, and the last event of a batch
\* is applied to what the others made of it.
LEMMA AppliedAll ==
  ASSUME NEW buf, NEW batch \in Seq(Events), NEW f, Along(f, buf, batch, Len(batch))
  PROVE  ApplyAll(buf, batch) = f[Len(batch)]
<1> DEFINE g == CHOOSE g : g = [i \in 0..Len(batch) |->
                                  IF i = 0 THEN buf ELSE Applied(g[i - 1], batch[i])]
<1>1. Along(g, buf, batch, Len(batch))
  BY DEF Along
<1>2. g = f
  BY <1>1, AlongUnique
<1>3. ApplyAll(buf, batch) = g[Len(batch)]
  BY DEF ApplyAll
<1> QED BY <1>2, <1>3

LEMMA NothingApplied ==
  ASSUME NEW buf
  PROVE  ApplyAll(buf, <<>>) = buf
<1>1. PICK f : Along(f, buf, <<>>, 0)
  BY AlongExists
<1>2. f[0] = buf
  BY <1>1 DEF Along
<1>3. <<>> \in Seq(Events) /\ Len(<<>>) = 0
  OBVIOUS
<1> QED BY <1>1, <1>2, <1>3, AppliedAll

LEMMA LastApplied ==
  ASSUME NEW buf, NEW batch \in Seq(Events), NEW e \in Events
  PROVE  ApplyAll(buf, Append(batch, e)) = Applied(ApplyAll(buf, batch), e)
<1> DEFINE n == Len(batch)
           more == Append(batch, e)
<1>1. /\ n \in Nat /\ more \in Seq(Events) /\ Len(more) = n + 1 /\ more[n + 1] = e
      /\ \A i \in 1..n : more[i] = batch[i]
  OBVIOUS
<1>2. PICK f : Along(f, buf, batch, n)
  BY <1>1, AlongExists
<1>3. PICK g : Along(g, buf, more, n + 1)
  <2>1. n + 1 \in Nat
    BY <1>1
  <2> HIDE DEF n, more
  <2> QED BY <2>1, AlongExists
<1> HIDE DEF n, more
<1> DEFINE h == [i \in 0..n |-> g[i]]
<1>4. Along(h, buf, batch, n)
  <2>1. \A i \in 0..(n + 1) : g[i] = IF i = 0 THEN buf ELSE Applied(g[i - 1], more[i])
    BY <1>3 DEF Along
  <2>2. ASSUME NEW i \in 0..n
        PROVE  h[i] = IF i = 0 THEN buf ELSE Applied(h[i - 1], batch[i])
    <3>1. CASE i = 0
      BY <1>1, <2>1, <3>1
    <3>2. CASE i # 0
      <4>1. i \in 1..n /\ i - 1 \in 0..n /\ i \in 0..(n + 1)
        BY <1>1, <3>2
      <4> QED BY <1>1, <2>1, <3>2, <4>1
    <3> QED BY <3>1, <3>2
  <2> QED BY <2>2 DEF Along
<1>5. f = h
  BY <1>1, <1>2, <1>4, AlongUnique
<1>6. g[n + 1] = Applied(g[n], e)
  BY <1>1, <1>3 DEF Along
<1>7. g[n] = f[n]
  BY <1>1, <1>5
<1>8. ApplyAll(buf, more) = g[n + 1] /\ ApplyAll(buf, batch) = f[n]
  BY <1>1, <1>2, <1>3, AppliedAll DEF n
<1> QED BY <1>6, <1>7, <1>8 DEF more

-----------------------------------------------------------------------------
Lines   == [under : Nat, stage : Nat, line : Nat]
Buffers == [kept : BOOLEAN, stages : Seq(Statuses), lines : Seq(Lines), open : Nat]

\* Every line stands under the stage that printed it.
Placed(buf) == \A i \in DOMAIN buf.lines : buf.lines[i].under = buf.lines[i].stage

\* What the buffer will be when the batch under way has been received, and when
\* all that is recorded has.
Coming == ApplyAll(buffer, post["thread"])
CaughtUp == ApplyAll(Coming, pending)

\* As long as nothing was lost, the buffer is a view of the recorder's tree that is
\* behind by the events on their way.
Following ==
  /\ job.owned /\ job.phase \in {"idle", "executing"} /\ post["stop"] = <<>> /\ late = {}
  /\ job \in Recorders
  /\ job.open => Len(job.stages) > 0
  /\ pending \in Seq(Events) /\ post \in [Posters -> Seq(Events)]
  /\ buffer \in Buffers /\ Placed(buffer)
  /\ Coming \in Buffers /\ Placed(Coming)
  /\ CaughtUp \in Buffers /\ Placed(CaughtUp)
  /\ CaughtUp.stages = job.stages /\ CaughtUp.open = Len(job.stages)

ViewInv == gap \/ Following

LEMMA ABuffer ==
  ASSUME NEW s \in Seq(Statuses), NEW l \in Seq(Lines), NEW n \in Nat
  PROVE  [kept |-> TRUE, stages |-> s, lines |-> l, open |-> n] \in Buffers
BY DEF Buffers

LEMMA LastLinesPlaced ==
  ASSUME NEW S, NEW s \in Seq(S)
  PROVE  /\ LastLines(s) \in Seq(S)
         /\ \A i \in DOMAIN LastLines(s) : \E j \in DOMAIN s : LastLines(s)[i] = s[j]
<1>1. OutputRing \in Nat \ {0} /\ Len(s) \in Nat
  BY OutputAssumption
<1>2. CASE Len(s) > OutputRing
  <2> DEFINE m == Len(s) - OutputRing + 1
  <2>1. m \in 1..Len(s) /\ LastLines(s) = SubSeq(s, m, Len(s))
    BY <1>1, <1>2 DEF LastLines
  <2>2. /\ SubSeq(s, m, Len(s)) \in Seq(S)
        /\ \A i \in DOMAIN SubSeq(s, m, Len(s)) : /\ SubSeq(s, m, Len(s))[i] = s[m + i - 1]
                                                /\ m + i - 1 \in DOMAIN s
    BY <1>1, <2>1
  <2> QED BY <2>1, <2>2
<1>3. CASE ~(Len(s) > OutputRing)
  BY <1>3 DEF LastLines
<1> QED BY <1>2, <1>3

LEMMA AppliedBegin ==
  ASSUME NEW buf \in Buffers, Placed(buf),
         NEW e, e = Event("begin", Len(buf.stages) + 1, "running"), NEW b, b = Applied(buf, e)
  PROVE  /\ e \in Events /\ b \in Buffers /\ Placed(b)
         /\ b.stages = Append(buf.stages, "running") /\ b.open = Len(buf.stages) + 1
<1> DEFINE n == Len(buf.stages) + 1
<1>1. /\ n \in Nat /\ buf.stages \in Seq(Statuses) /\ "running" \in Statuses
      /\ buf.lines \in Seq(Lines)
  BY DEF Buffers, Statuses
<1>2. Put(buf.stages, n, "running") = Append(buf.stages, "running")
  BY <1>1 DEF Put
<1>3. Append(buf.stages, "running") \in Seq(Statuses)
  BY <1>1
<1>4. e \in Events /\ e.kind = "begin" /\ e.stage = n /\ e.value = "running"
  BY <1>1 DEF Event, Events
<1>n. n \in Nat
  BY <1>1
<1> HIDE DEF n
<1>5. Applied(buf, e) = [kept |-> TRUE, stages |-> Append(buf.stages, "running"),
                         lines |-> buf.lines, open |-> n]
  BY <1>2, <1>4 DEF Applied, Buffers
<1>6. /\ b.kept = TRUE /\ b.stages = Append(buf.stages, "running") /\ b.lines = buf.lines
      /\ b.open = n
  BY <1>5
<1>7. b \in Buffers
  BY <1>1, <1>3, <1>5, ABuffer
<1> QED BY <1>4, <1>6, <1>7 DEF Placed, n

LEMMA AppliedOutput ==
  ASSUME NEW buf \in Buffers, Placed(buf), NEW v \in Nat,
         NEW e, e = Event("output", buf.open, v), NEW b, b = Applied(buf, e)
  PROVE  /\ e \in Events /\ b \in Buffers /\ Placed(b)
         /\ b.stages = buf.stages /\ b.open = buf.open
<1> DEFINE new  == [under |-> buf.open, stage |-> buf.open, line |-> v]
           all  == Append(buf.lines, new)
<1>1. buf.open \in Nat /\ buf.lines \in Seq(Lines) /\ new \in Lines /\ buf.stages \in Seq(Statuses)
  BY DEF Buffers, Lines
<1>2. e \in Events /\ e.kind = "output" /\ e.stage = buf.open /\ e.value = v
  BY <1>1 DEF Event, Events
<1>3. all \in Seq(Lines) /\ \A i \in DOMAIN all : all[i].under = all[i].stage
  <2>1. all \in Seq(Lines)
    BY <1>1
  <2>2. \A i \in DOMAIN all : (i \in DOMAIN buf.lines /\ all[i] = buf.lines[i]) \/ all[i] = new
    BY <1>1
  <2> QED BY <2>1, <2>2 DEF Placed
<1>4. Applied(buf, e) = [kept |-> TRUE, stages |-> buf.stages, lines |-> LastLines(all),
                         open |-> buf.open]
  BY <1>2 DEF Applied, Buffers
<1> HIDE DEF all
<1>5. LastLines(all) \in Seq(Lines)
      /\ \A i \in DOMAIN LastLines(all) : LastLines(all)[i].under = LastLines(all)[i].stage
  BY <1>3, LastLinesPlaced
<1>6. /\ b.stages = buf.stages /\ b.lines = LastLines(all) /\ b.open = buf.open
  BY <1>4
<1>7. b \in Buffers
  BY <1>1, <1>4, <1>5, ABuffer
<1> QED BY <1>2, <1>5, <1>6, <1>7 DEF Placed

LEMMA AppliedEndAt ==
  ASSUME NEW buf \in Buffers, Placed(buf), Len(buf.stages) > 0, NEW v \in Statuses,
         NEW e, e = Event("end", Len(buf.stages), v), NEW b, b = Applied(buf, e)
  PROVE  /\ e \in Events /\ b \in Buffers /\ Placed(b)
         /\ b.open = buf.open
         /\ b.stages \in Seq(Statuses) /\ Len(b.stages) = Len(buf.stages)
         /\ b.stages[Len(buf.stages)] = v
         /\ \A i \in 1..(Len(buf.stages) - 1) : b.stages[i] = buf.stages[i]
<1> DEFINE n == Len(buf.stages)
           s == [buf.stages EXCEPT ![n] = v]
<1>1. /\ n \in Nat /\ buf.stages \in Seq(Statuses) /\ n \in DOMAIN buf.stages
      /\ buf.stages \in [1..n -> Statuses]
      /\ buf.lines \in Seq(Lines) /\ buf.open \in Nat
  BY DEF Buffers
<1>2. Put(buf.stages, n, v) = s
  BY <1>1 DEF Put
<1>3. /\ s \in Seq(Statuses) /\ Len(s) = n /\ s[n] = v
      /\ \A i \in 1..(n - 1) : s[i] = buf.stages[i]
  <2>1. /\ s \in [1..n -> Statuses] /\ s[n] = v
        /\ \A i \in 1..(n - 1) : s[i] = buf.stages[i]
    BY <1>1
  <2> HIDE DEF s, n
  <2> QED BY <1>1, <2>1
<1>4. e \in Events /\ e.kind = "end" /\ e.stage = n /\ e.value = v
  BY <1>1 DEF Event, Events
<1> HIDE DEF n, s
<1>5. Applied(buf, e) = [kept |-> TRUE, stages |-> s, lines |-> buf.lines, open |-> buf.open]
  BY <1>1, <1>2, <1>4 DEF Applied, Buffers
<1>6. b.stages = s /\ b.lines = buf.lines /\ b.open = buf.open
  BY <1>5
<1>7. b \in Buffers
  BY <1>1, <1>3, <1>5, ABuffer
<1> QED BY <1>3, <1>4, <1>6, <1>7 DEF Placed, n, s

LEMMA AppliedEnd ==
  ASSUME NEW buf \in Buffers, Placed(buf), Len(buf.stages) > 0, NEW v \in Statuses,
         NEW e, e = Event("end", Len(buf.stages), v), NEW b, b = Applied(buf, e)
  PROVE  /\ e \in Events /\ b \in Buffers /\ Placed(b)
         /\ b.stages = [buf.stages EXCEPT ![Len(buf.stages)] = v] /\ b.open = buf.open
<1>1. /\ Len(buf.stages) \in DOMAIN buf.stages
      /\ Put(buf.stages, Len(buf.stages), v) = [buf.stages EXCEPT ![Len(buf.stages)] = v]
  BY SMTT(40) DEF Put, Buffers
<1>2. e.kind = "end" /\ e.stage = Len(buf.stages) /\ e.value = v
  BY DEF Event
<1>3. b.stages = [buf.stages EXCEPT ![Len(buf.stages)] = v]
  BY <1>1, <1>2 DEF Applied, Buffers
<1> QED BY <1>3, AppliedEndAt

\* What the recorder adds is applied to what the buffer would have been without it.
LEMMA RecordedOne ==
  ASSUME Following, NEW e \in Events, NEW rec, Record(<<e>>, rec)
  PROVE  /\ pending' \in Seq(Events) /\ Coming' = Coming /\ CaughtUp' = Applied(CaughtUp, e)
         /\ job' = rec /\ UNCHANGED <<post, late, buffer, gap>>
<1>1. /\ pending' = pending \o <<e>> /\ job' = rec /\ UNCHANGED <<post, late, buffer, gap>>
  BY DEF Record
<1>2. pending \o <<e>> = Append(pending, e) /\ Append(pending, e) \in Seq(Events)
  BY DEF Following
<1>3. Coming' = Coming
  BY <1>1 DEF Coming
<1>4. CaughtUp' = ApplyAll(Coming, Append(pending, e))
  BY <1>1, <1>2, <1>3 DEF CaughtUp
<1> QED BY <1>1, <1>2, <1>3, <1>4, LastApplied DEF Following, CaughtUp

LEMMA RecordedTwo ==
  ASSUME Following, NEW e \in Events, NEW f \in Events, NEW rec, Record(<<e, f>>, rec)
  PROVE  /\ pending' \in Seq(Events) /\ Coming' = Coming
         /\ CaughtUp' = Applied(Applied(CaughtUp, e), f)
         /\ job' = rec /\ UNCHANGED <<post, late, buffer, gap>>
<1>1. /\ pending' = pending \o <<e, f>> /\ job' = rec /\ UNCHANGED <<post, late, buffer, gap>>
  BY DEF Record
<1>2. /\ pending \o <<e, f>> = Append(Append(pending, e), f)
      /\ pending \in Seq(Events) /\ Append(pending, e) \in Seq(Events)
      /\ Append(Append(pending, e), f) \in Seq(Events)
  BY DEF Following
<1>3. Coming' = Coming
  BY <1>1 DEF Coming
<1>4. CaughtUp' = ApplyAll(Coming, Append(Append(pending, e), f))
  BY <1>1, <1>2, <1>3 DEF CaughtUp
<1>5. ApplyAll(Coming, Append(Append(pending, e), f)) = Applied(ApplyAll(Coming, Append(pending, e)), f)
  BY <1>2, LastApplied
<1> QED BY <1>1, <1>2, <1>3, <1>4, <1>5, LastApplied DEF CaughtUp

LEMMA LastReplaced ==
  ASSUME NEW S, NEW s \in Seq(S), NEW y \in S, NEW b \in Seq(S), Len(b) = Len(s) + 1,
         \A i \in 1..Len(s) : b[i] = s[i], b[Len(s) + 1] = y
  PROVE  b = Append(s, y)
<1> DEFINE c == Append(s, y)
<1>1. /\ c \in Seq(S) /\ Len(c) = Len(b) /\ \A i \in 1..Len(b) : b[i] = c[i]
  OBVIOUS
<1> HIDE DEF c
<1>2. b = c
  BY <1>1, SeqEqual
<1> QED BY <1>2 DEF c

LEMMA AppliedSkip ==
  ASSUME NEW buf \in Buffers, Placed(buf),
         NEW e, e = Event("begin", Len(buf.stages) + 1, "running"),
         NEW f, f = Event("end", Len(buf.stages) + 1, "skipped"),
         NEW b, b = Applied(Applied(buf, e), f)
  PROVE  /\ e \in Events /\ f \in Events /\ b \in Buffers /\ Placed(b)
         /\ b.stages = Append(buf.stages, "skipped") /\ b.open = Len(buf.stages) + 1
<1>1. PICK a : a = Applied(buf, e)
  OBVIOUS
<1>2. /\ buf.stages \in Seq(Statuses) /\ "running" \in Statuses /\ "skipped" \in Statuses
  BY DEF Buffers, Statuses
<1>3. /\ e \in Events /\ a \in Buffers /\ Placed(a)
      /\ a.stages = Append(buf.stages, "running") /\ a.open = Len(buf.stages) + 1
  BY <1>1, AppliedBegin
<1>4. Len(a.stages) = Len(buf.stages) + 1 /\ Len(a.stages) > 0
  BY <1>2, <1>3
<1>5. f = Event("end", Len(a.stages), "skipped") /\ b = Applied(a, f)
  BY <1>1, <1>4
<1>6. /\ f \in Events /\ b \in Buffers /\ Placed(b) /\ b.open = a.open
      /\ b.stages \in Seq(Statuses) /\ Len(b.stages) = Len(a.stages)
      /\ b.stages[Len(a.stages)] = "skipped"
      /\ \A i \in 1..(Len(a.stages) - 1) : b.stages[i] = a.stages[i]
  <2>1. a \in Buffers /\ Placed(a) /\ Len(a.stages) > 0 /\ "skipped" \in Statuses
    BY <1>2, <1>3, <1>4
  <2> QED BY <1>5, <2>1, AppliedEndAt
<1>7. \A i \in 1..Len(buf.stages) : b.stages[i] = buf.stages[i]
  BY <1>2, <1>3, <1>4, <1>6
<1>8. b.stages = Append(buf.stages, "skipped")
  BY <1>2, <1>4, <1>6, <1>7, LastReplaced
<1> QED BY <1>3, <1>6, <1>8

LEMMA ViewStep ==
  ASSUME ViewInv, [OutputNext]_outputVars
  PROVE  ViewInv'
<1>1. CASE gap
  <2>1. gap'
    BY <1>1 DEF OutputNext, outputVars, Start, BeginStage, Output, EndStage, SkipStage, Record,
                ThreadFlush, Stop, ReportOutput, Reclaimed, Reattempted, Evicted, Receive,
                ReceiveLate, Handled, GivesUp
  <2> QED BY <2>1 DEF ViewInv
<1>2. CASE ~gap
  <2>0. /\ Following /\ LastStage = Len(job.stages) /\ LastStage \in Nat
        /\ CaughtUp \in Buffers /\ Placed(CaughtUp) /\ CaughtUp.stages = job.stages
        /\ CaughtUp.open = LastStage
        /\ job \in Recorders /\ job.stages \in Seq(Statuses) /\ job.printed \in Nat
        /\ Coming \in Buffers /\ Placed(Coming) /\ buffer \in Buffers /\ Placed(buffer)
        /\ pending \in Seq(Events) /\ post \in [Posters -> Seq(Events)] /\ post["stop"] = <<>>
    BY <1>2 DEF ViewInv, Following, LastStage, Recorders
  <2>r. ASSUME NEW rec \in Recorders, job' = rec, rec.phase = job.phase, rec.owned = job.owned,
               rec.open => Len(rec.stages) > 0, UNCHANGED <<post, late, buffer, gap>>,
               pending' \in Seq(Events), Coming' = Coming,
               CaughtUp' \in Buffers, Placed(CaughtUp'),
               CaughtUp'.stages = rec.stages, CaughtUp'.open = Len(rec.stages)
        PROVE  ViewInv'
    <3>1. /\ job'.phase = job.phase /\ job'.owned = job.owned /\ job'.open = rec.open
          /\ job'.stages = rec.stages
      BY <2>r
    <3> QED BY <2>0, <2>r, <3>1 DEF ViewInv, Following, Placed
  <2>1. CASE Start
    <3>1. /\ job' \in Recorders /\ job'.phase = "executing" /\ job'.owned = job.owned
          /\ job'.stages = job.stages /\ job'.open = job.open
          /\ UNCHANGED <<pending, post, late, buffer, gap>>
      BY <2>0, <2>1 DEF Start, Recorders
    <3>2. Coming' = Coming /\ CaughtUp' = CaughtUp
      BY <3>1 DEF Coming, CaughtUp
    <3> QED BY <2>0, <3>1, <3>2 DEF ViewInv, Following, Placed
  <2>2. CASE BeginStage
    <3> DEFINE e == Event("begin", LastStage + 1, "running")
               rec == [job EXCEPT !.stages = Append(@, "running"), !.open = TRUE]
               b == Applied(CaughtUp, e)
    <3>1. Record(<<e>>, rec)
      BY <2>2 DEF BeginStage
    <3>2. /\ e \in Events /\ b \in Buffers /\ Placed(b)
          /\ b.stages = Append(job.stages, "running") /\ b.open = LastStage + 1
      BY SMTT(40), <2>0, AppliedBegin
    <3>3. /\ rec \in Recorders /\ rec.phase = job.phase /\ rec.owned = job.owned
          /\ rec.stages = Append(job.stages, "running")
      <4>1. Append(job.stages, "running") \in Seq(Statuses)
        BY <2>0 DEF Statuses
      <4> QED BY <2>0, <4>1 DEF Recorders
    <3>4. Len(rec.stages) = LastStage + 1 /\ Len(rec.stages) > 0
      BY <2>0, <3>3
    <3> HIDE DEF e, rec
    <3> QED BY <2>0, <2>r, <3>1, <3>2, <3>3, <3>4, RecordedOne
  <2>3. CASE Output
    <3> DEFINE e == Event("output", LastStage, job.printed + 1)
               rec == [job EXCEPT !.printed = @ + 1]
               b == Applied(CaughtUp, e)
    <3>1. Record(<<e>>, rec)
      BY <2>3 DEF Output
    <3>2. /\ e \in Events /\ b \in Buffers /\ Placed(b)
          /\ b.stages = job.stages /\ b.open = LastStage
      <4>1. e = Event("output", CaughtUp.open, job.printed + 1) /\ job.printed + 1 \in Nat
        BY <2>0
      <4>2. b = Applied(CaughtUp, e)
        OBVIOUS
      <4>3. CaughtUp \in Buffers /\ Placed(CaughtUp)
        BY <2>0
      <4> HIDE DEF e, b
      <4>4. /\ e \in Events /\ b \in Buffers /\ Placed(b)
            /\ b.stages = CaughtUp.stages /\ b.open = CaughtUp.open
        BY <4>1, <4>2, <4>3, AppliedOutput
      <4> QED BY <2>0, <4>4
    <3>3. /\ rec \in Recorders /\ rec.phase = job.phase /\ rec.owned = job.owned
          /\ rec.stages = job.stages /\ rec.open = job.open
      <4>1. job.printed + 1 \in Nat
        BY <2>0
      <4> QED BY <2>0, <4>1 DEF Recorders
    <3>4. rec.open => Len(rec.stages) > 0
      BY <2>0, <3>3 DEF Following
    <3> HIDE DEF e, rec
    <3> QED BY <2>0, <2>r, <3>1, <3>2, <3>3, <3>4, RecordedOne
  <2>4. CASE EndStage
    <3>1. PICK status \in {"passed", "failed"} :
            Record(<<Event("end", LastStage, status)>>,
                   [job EXCEPT !.stages[LastStage] = status, !.open = FALSE])
      BY <2>4 DEF EndStage
    <3> DEFINE e   == Event("end", LastStage, status)
               rec == [job EXCEPT !.stages[LastStage] = status, !.open = FALSE]
               b == Applied(CaughtUp, e)
    <3>2. Record(<<e>>, rec)
      BY <3>1
    <3>3. Len(job.stages) > 0 /\ status \in Statuses
      BY <2>0, <2>4 DEF EndStage, Following, Statuses
    <3>4. /\ e \in Events /\ b \in Buffers /\ Placed(b)
          /\ b.stages = [job.stages EXCEPT ![LastStage] = status] /\ b.open = LastStage
      <4>0. CaughtUp.stages = job.stages /\ LastStage = Len(job.stages)
        BY <2>0
      <4>1. e = Event("end", Len(CaughtUp.stages), status) /\ Len(CaughtUp.stages) > 0
        BY <3>3, <4>0, ZenonT(40)
      <4>2. CaughtUp \in Buffers /\ Placed(CaughtUp) /\ b = Applied(CaughtUp, e)
        BY <2>0
      <4> HIDE DEF e, b
      <4>3. /\ e \in Events /\ b \in Buffers /\ Placed(b) /\ b.open = CaughtUp.open
            /\ b.stages = [CaughtUp.stages EXCEPT ![Len(CaughtUp.stages)] = status]
        BY <3>3, <4>1, <4>2, AppliedEnd
      <4> QED BY <2>0, <4>0, <4>3
    <3>5. /\ rec.phase = job.phase /\ rec.owned = job.owned
          /\ rec.stages = [job.stages EXCEPT ![LastStage] = status] /\ rec.open = FALSE
      BY <2>0 DEF Recorders
    <3>6. rec.stages \in Seq(Statuses) /\ Len(rec.stages) = LastStage
      <4>1. job.stages \in [1..LastStage -> Statuses]
        BY <2>0
      <4>2. [job.stages EXCEPT ![LastStage] = status] \in [1..LastStage -> Statuses]
        BY <3>3, <4>1
      <4> HIDE DEF rec
      <4> QED BY <2>0, <3>5, <4>2
    <3>7. rec \in Recorders
      BY <2>0, <3>5, <3>6 DEF Recorders
    <3> HIDE DEF e, rec
    <3> QED BY <2>0, <2>r, <3>2, <3>4, <3>5, <3>6, <3>7, RecordedOne
  <2>5. CASE SkipStage
    <3> DEFINE e   == Event("begin", LastStage + 1, "running")
               f   == Event("end", LastStage + 1, "skipped")
               rec == [job EXCEPT !.stages = Append(@, "skipped")]
               b   == Applied(Applied(CaughtUp, e), f)
    <3>1. Record(<<e, f>>, rec)
      BY <2>5 DEF SkipStage
    <3>2. /\ e \in Events /\ f \in Events /\ b \in Buffers /\ Placed(b)
          /\ b.stages = Append(job.stages, "skipped") /\ b.open = LastStage + 1
      BY SMTT(40), <2>0, AppliedSkip
    <3>6. /\ rec \in Recorders /\ rec.phase = job.phase /\ rec.owned = job.owned
          /\ rec.stages = Append(job.stages, "skipped")
      <4>1. Append(job.stages, "skipped") \in Seq(Statuses)
        BY <2>0 DEF Statuses
      <4> QED BY <2>0, <4>1 DEF Recorders
    <3>7. Len(rec.stages) = LastStage + 1 /\ Len(rec.stages) > 0
      BY <2>0, <3>6
    <3> HIDE DEF e, f, rec
    <3> QED BY <2>0, <2>r, <3>1, <3>2, <3>6, <3>7, RecordedTwo
  <2>6. CASE ThreadFlush
    <3>1. /\ post["thread"] = <<>> /\ pending' = <<>> /\ post' = [post EXCEPT !["thread"] = pending]
          /\ UNCHANGED <<job, late, buffer, gap>>
      BY <2>6 DEF ThreadFlush, Flush
    <3>2. post'["thread"] = pending /\ post'["stop"] = <<>> /\ post' \in [Posters -> Seq(Events)]
      BY <2>0, <3>1 DEF Posters
    <3>3. Coming = buffer
      BY <3>1, NothingApplied DEF Coming
    <3>4. Coming' = CaughtUp
      BY <3>1, <3>2, <3>3 DEF Coming, CaughtUp
    <3>5. CaughtUp' = CaughtUp
      BY <3>1, <3>4, NothingApplied DEF CaughtUp
    <3>6. pending' \in Seq(Events)
      BY <3>1
    <3> QED BY <2>0, <3>1, <3>2, <3>4, <3>5, <3>6 DEF ViewInv, Following, Placed
  <2>7. ASSUME NEW p \in Posters, Receive(p)
        PROVE  ViewInv'
    <3>1. /\ p = "thread" /\ post' = [post EXCEPT !["thread"] = <<>>] /\ buffer' = Coming
          /\ UNCHANGED <<job, pending, late, gap>>
      BY <2>0, <2>7 DEF Receive, Handled, Posters, Coming, Following
    <3>2. post'["thread"] = <<>> /\ post'["stop"] = <<>> /\ post' \in [Posters -> Seq(Events)]
      BY <2>0, <3>1 DEF Posters
    <3>3. Coming' = Coming
      BY <3>1, <3>2, NothingApplied DEF Coming
    <3>4. CaughtUp' = CaughtUp
      BY <3>1, <3>3 DEF CaughtUp
    <3> QED BY <2>0, <3>1, <3>2, <3>3, <3>4 DEF ViewInv, Following, Placed
  <2>8. CASE Stop \/ Reattempted
    BY <2>0, <2>8 DEF Stop, Reattempted, Following
  <2>9. CASE ReportOutput \/ Reclaimed \/ Evicted \/ \E p \in Posters : GivesUp(p)
    <3>1. gap'
      BY <2>0, <2>9 DEF ReportOutput, Reclaimed, Evicted, GivesUp, Following
    <3> QED BY <3>1 DEF ViewInv
  <2>11. late = {}
    BY SMTT(40), <2>0 DEF Following
  <2>10. CASE UNCHANGED outputVars
    BY <2>0, <2>10 DEF outputVars, ViewInv, Following, Coming, CaughtUp, Placed
  <2> QED BY <2>1, <2>2, <2>3, <2>4, <2>5, <2>6, <2>7, <2>8, <2>9, <2>10, <2>11
           DEF OutputNext
<1> QED BY <1>1, <1>2

LEMMA ViewInit == OutputInit => ViewInv
<1> SUFFICES ASSUME OutputInit PROVE ViewInv
  OBVIOUS
<1>1. /\ job = NewAttempt("idle") /\ job \in Recorders /\ job.stages = <<>>
      /\ job.phase = "idle" /\ job.owned = TRUE /\ job.open = FALSE
  BY DEF OutputInit, NewAttempt, Recorders
<1>2. /\ <<>> \in Seq(Events) /\ pending = <<>> /\ post \in [Posters -> Seq(Events)]
      /\ post["thread"] = <<>> /\ post["stop"] = <<>> /\ buffer = NoBuffer /\ late = {}
  BY DEF OutputInit, Posters
<1>3. /\ NoBuffer \in Buffers /\ Placed(NoBuffer) /\ NoBuffer.stages = <<>> /\ NoBuffer.open = 0
  BY ABuffer DEF NoBuffer, Placed, Buffers
<1>4. Coming = NoBuffer
  BY <1>2, NothingApplied DEF Coming
<1>5. CaughtUp = NoBuffer
  BY <1>2, <1>4, NothingApplied DEF CaughtUp
<1> QED BY <1>1, <1>2, <1>3, <1>4, <1>5 DEF ViewInv, Following

\* The run page catches up: as long as nothing was lost, once everything recorded is
\* delivered the buffer has the stages of the recorder, the skipped ones included,
\* and every line stands under the stage that printed it; for any number of stages
\* and lines, any ring and any batches.
THEOREM LiveViewFollows == OutputSpec => []LiveViewIsTheTree
<1>1. ViewInv /\ [OutputNext]_outputVars => ViewInv'
  BY ViewStep
<1>2. ViewInv => LiveViewIsTheTree
  <2> SUFFICES ASSUME Following PROVE LiveViewIsTheTree
    BY DEF ViewInv, LiveViewIsTheTree
  <2>1. \A i \in DOMAIN buffer.lines : buffer.lines[i].under = buffer.lines[i].stage
    BY DEF Following, Placed
  <2>2. ASSUME pending = <<>>, \A p \in Posters : post[p] = <<>>
        PROVE  buffer.stages = job.stages
    <3>1. Coming = buffer
      BY <2>2, NothingApplied DEF Coming, Posters
    <3>2. CaughtUp = buffer
      BY <2>2, <3>1, NothingApplied DEF CaughtUp
    <3> QED BY <3>2 DEF Following
  <2> QED BY <2>1, <2>2 DEF LiveViewIsTheTree
<1> QED BY <1>1, <1>2, ViewInit, PTL DEF OutputSpec
=============================================================================
