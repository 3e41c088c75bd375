--------------------------- MODULE Rollup_proofs ---------------------------
(***************************************************************************)
(* Proofs about the books, for any jobs, matrix runs, expectations, reclaims *)
(* and pushes: the stored roll-up of every matrix run is current, a run is   *)
(* graded exactly when it has ended, a verdict never changes again and is    *)
(* true, a cache hit is of its commit unless the branch moved under the run, *)
(* and matrix runs live as MatrixLife promises.                              *)
(*                                                                          *)
(* What makes them inductive: a cell that is not graded is on its own run,   *)
(* the cache only knows runs that have ended, and a job which `opp_ci        *)
(* run-matrix` has yet to reach has neither a cell nor a run.                *)
(***************************************************************************)
EXTENDS Rollup, FiniteSetTheorems, TLAPS

Ended == {"finished", "timed_out"}

UngradedIsOwn ==
  \A k \in Keys : cell[k].verdict \in Unrecorded => cell[k].run = k

EndedHasResult ==
  \A k \in Keys : run[k].lifecycle \in Ended => run[k].result \in ResultCodes

CacheHasEnded ==
  \A p \in Jobs \X Refs : newest[p] # NoRun => run[newest[p]].lifecycle \in Ended

OwnedIsClaimed ==
  \A k \in Keys : run[k].owned => run[k].lifecycle \in {"running", "finished"}

NoCellNoRun ==
  \A m \in Matrices, j \in Jobs :
    cell[<<m, j>>].verdict = "absent" => run[<<m, j>>].lifecycle = "absent"

TodoHasNoCell ==
  \A m \in Matrices : \A j \in local[m].todo : cell[<<m, j>>].verdict = "absent"

PinnedHasCommit ==
  \A k \in Keys : run[k].pinned => run[k].print \in Jobs \X Commits

TestsExist ==
  \A k \in Keys : run[k].lifecycle # "absent" => expected[TestAt(k)] # "unborn"

\* RollupIsCurrent, and that `completed` lags behind only where a user cancels one run.
Current(m) ==
  LET now == Tally(run, cell, m)
  IN  /\ [rollup[m] EXCEPT !.completed = now.completed] = now
      /\ rollup[m].completed => now.completed
      /\ now.completed /\ ~rollup[m].completed =>
           /\ "cancel run" \in Uses
           /\ \E j \in CellsOf(cell, m) : run[cell[<<m, j>>].run].lifecycle = "cancelled"

RollupsCurrent == \A m \in Matrices : Current(m)

RunsInv  == EndedHasResult /\ OwnedIsClaimed /\ PinnedHasCommit
CellsInv == UngradedIsOwn /\ NoCellNoRun /\ GradedExactlyWhenEnded /\ RollupsCurrent
LinksInv == CacheHasEnded /\ TodoHasNoCell /\ TestsExist

BookInv == RowsOK /\ RunsInv /\ CellsInv /\ LinksInv

-----------------------------------------------------------------------------
(* Names and types. *)

LEMMA KeyFacts ==
  /\ Singles \subseteq Keys /\ NoRun \notin Keys
  /\ \A m \in Matrices, j \in Jobs : <<m, j>> \in Keys /\ <<m, j>> \notin Singles
  /\ \A m \in Matrices, j \in Jobs : JobAt(<<m, j>>) = j
  /\ \A s \in Singles : JobAt(s) = JobOf[s]
  /\ \A k \in Keys : JobAt(k) \in Jobs /\ TestAt(k) = TestOf[JobAt(k)] /\ TestAt(k) \in Tests
<1>1. \A m \in Matrices, j \in Jobs : <<m, j>> \in Keys /\ <<m, j>> \notin Singles
  BY ConstantsAssumption DEF Keys
<1>2. \A m \in Matrices, j \in Jobs : JobAt(<<m, j>>) = j
  BY <1>1 DEF JobAt
<1>3. \A s \in Singles : JobAt(s) = JobOf[s] /\ JobAt(s) \in Jobs
  BY ConstantsAssumption DEF JobAt
<1>4. \A k \in Keys : JobAt(k) \in Jobs
  BY <1>2, <1>3 DEF Keys
<1>5. \A k \in Keys : TestAt(k) = TestOf[JobAt(k)] /\ TestAt(k) \in Tests
  BY <1>4, ConstantsAssumption DEF TestAt
<1> QED BY <1>1, <1>2, <1>3, <1>4, <1>5, ConstantsAssumption DEF Keys

LEMMA RefFacts ==
  /\ Commits \subseteq Refs /\ Literal \in Refs /\ 0 \in Commits
  /\ \A p \in Jobs \X Refs : p # NoPrint /\ p[1] \in Jobs /\ p[2] \in Refs
<1>1. 0 \in Commits
  BY ConstantsAssumption DEF Commits
<1>2. Commits \subseteq Refs /\ Literal \in Refs
  BY DEF Refs
<1>3. \A a \in Jobs, b \in Refs : <<a, b>> # <<>>
  OBVIOUS
<1> QED BY <1>1, <1>2, <1>3 DEF NoPrint

LEMMA GradedLemma ==
  ASSUME NEW result \in ResultCodes, NEW e
  PROVE  Graded(result, e) \in Verdicts
  BY DEF Graded, ResultCodes, NoResult, Verdicts

\* A roll-up from its numbers: of cells with a result, and with a verdict.
RowOf(resulted(_), judged(_), hits, total, done) ==
  [pass |-> resulted("PASS"), fail |-> resulted("FAIL"), error |-> resulted("ERROR"),
   met |-> judged("EXPECTED"), unmet |-> judged("UNEXPECTED"), unknown |-> judged("UNKNOWN"),
   hits |-> hits, total |-> total,
   summary |-> IF resulted("ERROR") > 0 THEN "ERROR"
               ELSE IF resulted("FAIL") > 0 THEN "FAIL"
               ELSE IF resulted("PASS") > 0 THEN "PASS" ELSE NoResult,
   verdict |-> IF judged("UNEXPECTED") > 0 THEN "UNEXPECTED"
               ELSE IF judged("UNKNOWN") > 0 THEN "UNKNOWN"
               ELSE IF total > 0 /\ judged("EXPECTED") = total THEN "EXPECTED"
               ELSE "none",
   completed |-> done]

LEMMA CountPositive ==
  ASSUME NEW S, IsFiniteSet(S)
  PROVE  Cardinality(S) \in Nat /\ (Cardinality(S) > 0 <=> S # {})
  BY FS_CardinalityType, FS_EmptySet

LEMMA TallyType ==
  ASSUME NEW R, NEW C, NEW m
  PROVE  Tally(R, C, m) \in RollupRow
<1> DEFINE cells == CellsOf(C, m)
           resulted(c) == Cardinality({j \in cells : R[C[<<m, j>>].run].result = c})
           judged(v)   == Cardinality({j \in cells : C[<<m, j>>].verdict = v})
           hits == Cardinality({j \in cells : C[<<m, j>>].hit})
           total == Cardinality(cells)
           done == total > 0 /\ \A j \in cells : R[C[<<m, j>>].run].lifecycle \in Terminal
<1>1. \A S \in SUBSET Jobs : Cardinality(S) \in Nat
  BY ConstantsAssumption, FS_Subset, FS_CardinalityType
<1>2. cells \in SUBSET Jobs
  BY DEF CellsOf
<1>3. total \in Nat /\ hits \in Nat
  BY <1>1, <1>2
<1>4. \A c : resulted(c) \in Nat /\ judged(c) \in Nat
  BY <1>1, <1>2
<1>5. done \in BOOLEAN
  OBVIOUS
<1>6. Tally(R, C, m) = RowOf(resulted, judged, hits, total, done)
  BY DEF Tally, RowOf
<1> HIDE DEF cells, resulted, judged, hits, total, done
<1> QED BY <1>3, <1>4, <1>5, <1>6 DEF RowOf, RollupRow, ResultCodes, Verdicts

\* Two roll-ups that differ in nothing but `completed`.
SameCounts(a, b) ==
  \A done : [a EXCEPT !.completed = done] = [b EXCEPT !.completed = done]

\* The counters depend on the cells and on the results of their runs; only
\* `completed` depends on more.
LEMMA TallyFrame ==
  ASSUME NEW R, NEW C, NEW R2, NEW C2, NEW m,
         \A j \in Jobs : C2[<<m, j>>] = C[<<m, j>>],
         \A j \in CellsOf(C, m) : R2[C[<<m, j>>].run].result = R[C[<<m, j>>].run].result
  PROVE  /\ CellsOf(C2, m) = CellsOf(C, m)
         /\ SameCounts(Tally(R2, C2, m), Tally(R, C, m))
<1> DEFINE cells == CellsOf(C, m)
           resulted(c) == Cardinality({j \in cells : R[C[<<m, j>>].run].result = c})
           judged(v)   == Cardinality({j \in cells : C[<<m, j>>].verdict = v})
           hits == Cardinality({j \in cells : C[<<m, j>>].hit})
           total == Cardinality(cells)
           done == total > 0 /\ \A j \in cells : R[C[<<m, j>>].run].lifecycle \in Terminal
           cells2 == CellsOf(C2, m)
           resulted2(c) == Cardinality({j \in cells2 : R2[C2[<<m, j>>].run].result = c})
           judged2(v)   == Cardinality({j \in cells2 : C2[<<m, j>>].verdict = v})
           hits2 == Cardinality({j \in cells2 : C2[<<m, j>>].hit})
           total2 == Cardinality(cells2)
           done2 == total2 > 0 /\ \A j \in cells2 : R2[C2[<<m, j>>].run].lifecycle \in Terminal
<1>1. cells2 = cells /\ cells \subseteq Jobs
  BY DEF CellsOf
<1>2. \A c : {j \in cells2 : R2[C2[<<m, j>>].run].result = c} = {j \in cells : R[C[<<m, j>>].run].result = c}
  BY <1>1
<1>3. \A v : {j \in cells2 : C2[<<m, j>>].verdict = v} = {j \in cells : C[<<m, j>>].verdict = v}
  BY <1>1
<1>4. {j \in cells2 : C2[<<m, j>>].hit} = {j \in cells : C[<<m, j>>].hit}
  BY SMTT(40), <1>1
<1>5. Tally(R, C, m) = RowOf(resulted, judged, hits, total, done)
  BY DEF Tally, RowOf
<1>6. Tally(R2, C2, m) = RowOf(resulted2, judged2, hits2, total2, done2)
  BY DEF Tally, RowOf
<1>7. /\ \A c : resulted2(c) = resulted(c)
      /\ \A v : judged2(v) = judged(v)
      /\ hits2 = hits /\ total2 = total
  BY <1>1, <1>2, <1>3, <1>4
<1> HIDE DEF cells, resulted, judged, hits, total, done, cells2, resulted2, judged2, hits2, total2, done2
<1>8. Tally(R2, C2, m) = RowOf(resulted, judged, hits, total, done2)
  BY <1>6, <1>7 DEF RowOf
<1>9. \A d, b : [RowOf(resulted, judged, hits, total, d) EXCEPT !.completed = b]
                  = RowOf(resulted, judged, hits, total, b)
  BY DEF RowOf
<1> QED BY <1>1, <1>5, <1>8, <1>9 DEF cells, cells2, SameCounts

\* What `completed` says.
LEMMA TallyCompleted ==
  ASSUME NEW R, NEW C, NEW m
  PROVE  /\ CellsOf(C, m) \subseteq Jobs
         /\ Tally(R, C, m).completed <=>
              /\ CellsOf(C, m) # {}
              /\ \A j \in CellsOf(C, m) : R[C[<<m, j>>].run].lifecycle \in Terminal
<1>1. CellsOf(C, m) \in SUBSET Jobs
  BY DEF CellsOf
<1>2. Cardinality(CellsOf(C, m)) > 0 <=> CellsOf(C, m) # {}
  BY <1>1, ConstantsAssumption, FS_Subset, FS_CardinalityType, FS_EmptySet
<1> QED BY <1>1, <1>2 DEF Tally

-----------------------------------------------------------------------------
(* When a roll-up stays current. *)

LEMMA RolledUpIsCurrent ==
  ASSUME NEW m \in Matrices, rollup'[m] = Tally(run', cell', m)
  PROVE  Current(m)' /\ rollup'[m] \in RollupRow
<1>1. rollup'[m] \in RollupRow
  BY TallyType
<1>2. [rollup'[m] EXCEPT !.completed = rollup'[m].completed] = rollup'[m]
  BY <1>1 DEF RollupRow
<1> QED BY <1>1, <1>2 DEF Current

\* A run that ends was cancelled by itself.
Calm(before, after) ==
  /\ after.result = before.result
  /\ before.lifecycle \in Terminal => after.lifecycle = before.lifecycle
  /\ after.lifecycle \in Terminal /\ before.lifecycle \notin Terminal =>
       after.lifecycle = "cancelled" /\ "cancel run" \in Uses

LEMMA StaysCurrent ==
  ASSUME NEW m \in Matrices, Current(m), rollup[m] \in RollupRow,
         rollup'[m] = rollup[m],
         \A j \in Jobs : cell'[<<m, j>>] = cell[<<m, j>>],
         \A j \in CellsOf(cell, m) : Calm(run[cell[<<m, j>>].run], run'[cell[<<m, j>>].run])
  PROVE  Current(m)' /\ rollup'[m] \in RollupRow
<1> DEFINE now  == Tally(run, cell, m)
           then == Tally(run', cell', m)
           cells == CellsOf(cell, m)
<1>1. CellsOf(cell', m) = cells /\ SameCounts(then, now)
  <2>1. \A j \in CellsOf(cell, m) :
          run'[cell[<<m, j>>].run].result = run[cell[<<m, j>>].run].result
    BY DEF Calm
  <2> QED BY <2>1, TallyFrame
<1>2. now \in RollupRow /\ then \in RollupRow
  BY TallyType
<1>3. cells \subseteq Jobs
  BY TallyCompleted
<1>4. now.completed <=> cells # {} /\ \A j \in cells : run[cell[<<m, j>>].run].lifecycle \in Terminal
  BY TallyCompleted
<1>5. then.completed <=> cells # {} /\ \A j \in cells : run'[cell[<<m, j>>].run].lifecycle \in Terminal
  <2>1. then.completed <=> /\ CellsOf(cell', m) # {}
                           /\ \A j \in CellsOf(cell', m) : run'[cell'[<<m, j>>].run].lifecycle \in Terminal
    BY TallyCompleted
  <2> QED BY <2>1, <1>1, <1>3
<1> HIDE DEF now, then
<1>6. now.completed => then.completed
  BY <1>4, <1>5 DEF Calm
<1>7. /\ [rollup[m] EXCEPT !.completed = now.completed] = now
      /\ rollup[m].completed => now.completed
      /\ now.completed /\ ~rollup[m].completed =>
           /\ "cancel run" \in Uses
           /\ \E j \in cells : run[cell[<<m, j>>].run].lifecycle = "cancelled"
  BY DEF Current, now
<1>8. [rollup[m] EXCEPT !.completed = then.completed] = then
  <2>1. [rollup[m] EXCEPT !.completed = then.completed]
          = [[rollup[m] EXCEPT !.completed = now.completed] EXCEPT !.completed = then.completed]
    BY DEF RollupRow
  <2>2. [now EXCEPT !.completed = then.completed] = [then EXCEPT !.completed = then.completed]
    BY <1>1 DEF SameCounts
  <2>3. [then EXCEPT !.completed = then.completed] = then
    BY <1>2 DEF RollupRow
  <2> QED BY <2>1, <2>2, <2>3, <1>7
<1>9. ASSUME then.completed, ~rollup[m].completed
      PROVE  /\ "cancel run" \in Uses
             /\ \E j \in cells : run'[cell[<<m, j>>].run].lifecycle = "cancelled"
  <2>1. CASE now.completed
    BY <2>1, <1>7, <1>9 DEF Calm, Terminal
  <2>2. CASE ~now.completed
    <3>1. PICK j \in cells : run[cell[<<m, j>>].run].lifecycle \notin Terminal
      BY <2>2, <1>4, <1>5, <1>9
    <3> QED BY <3>1, <1>5, <1>9 DEF Calm
  <2> QED BY <2>1, <2>2
<1>10. \A j \in cells : cell'[<<m, j>>] = cell[<<m, j>>]
  BY <1>3
<1> QED BY <1>1, <1>6, <1>7, <1>8, <1>9, <1>10 DEF Current, then

-----------------------------------------------------------------------------
(* What a cell and its run know of each other. *)

LEMMA CellLemma ==
  ASSUME BookInv, NEW k \in Keys
  PROVE  /\ cell[k] \in CellRow /\ cell[k].run \in Keys
         /\ cell[k].verdict \in Verdicts \/ cell[k].verdict \in Unrecorded
         /\ cell[k].verdict \in Verdicts =>
              /\ cell[k].verdict \notin Unrecorded
              /\ run[cell[k].run].lifecycle \in Ended /\ run[cell[k].run].result \in ResultCodes
         /\ cell[k].verdict \in Unrecorded =>
              cell[k].run = k /\ run[k].lifecycle \notin Ended
         /\ cell[k].verdict = "pending" => run[k].lifecycle \in {"queued", "running", "cancelled"}
         /\ cell[k].verdict = "absent" /\ k \notin Singles => run[k].lifecycle = "absent"
<1>1. cell[k] \in CellRow
  BY DEF BookInv, RowsOK
<1>2. cell[k].run \in Keys /\ (cell[k].verdict \in Verdicts \/ cell[k].verdict \in Unrecorded)
  BY <1>1 DEF CellRow, Unrecorded
<1>3. cell[k].verdict \in Verdicts =>
        /\ cell[k].verdict \notin Unrecorded
        /\ run[cell[k].run].lifecycle \in Ended /\ run[cell[k].run].result \in ResultCodes
  BY <1>2 DEF BookInv, CellsInv, RunsInv, GradedExactlyWhenEnded, EndedHasResult, Ended,
              Verdicts, Unrecorded
<1>4. cell[k].verdict \in Unrecorded => cell[k].run = k /\ run[k].lifecycle \notin Ended
  BY DEF BookInv, CellsInv, UngradedIsOwn, GradedExactlyWhenEnded, Ended, Verdicts, Unrecorded
<1>5. cell[k].verdict = "pending" => run[k].lifecycle \in {"queued", "running", "cancelled"}
  BY DEF BookInv, CellsInv, GradedExactlyWhenEnded
<1>6. cell[k].verdict = "absent" /\ k \notin Singles => run[k].lifecycle = "absent"
  BY DEF BookInv, CellsInv, NoCellNoRun, Keys
<1> QED BY <1>1, <1>2, <1>3, <1>4, <1>5, <1>6

\* The books after a step: the part of the invariant that cells and roll-ups are in.
BooksAgree ==
  /\ cell \in [Keys -> CellRow] /\ rollup \in [Matrices -> RollupRow]
  /\ CellsInv

Frozen == \A k \in Keys : cell[k].verdict \in Verdicts => cell'[k] = cell[k]

\* The runs K end and settle their cells; others at most return to the queue.
LEMMA FinalizeStep ==
  ASSUME BookInv, NEW K \in SUBSET Keys, Finalize(K),
         \A k \in K : /\ run[k].lifecycle \in {"queued", "running", "finished"}
                      /\ run'[k].lifecycle \in Ended /\ run'[k].result \in ResultCodes,
         \A k \in Keys \ K : \/ run'[k] = run[k]
                             \/ /\ run[k].lifecycle = "running" /\ run'[k].lifecycle = "queued"
                                /\ run'[k].result = run[k].result
  PROVE  /\ BooksAgree' /\ Frozen
         /\ \A m \in Matrices, j \in Jobs :
              cell[<<m, j>>].verdict = "absent" => cell'[<<m, j>>].verdict = "absent"
<1> DEFINE grade(k) == Graded(run'[cell[k].run].result, expected[TestAt(k)])
<1>1. /\ cell' = [k \in Keys |-> IF k \in SettledBy(K)
                    THEN [cell[k] EXCEPT !.expected = expected[TestAt(k)], !.verdict = grade(k)]
                    ELSE cell[k]]
      /\ RollUp({m \in Matrices : \E j \in CellsOf(cell, m) : cell[<<m, j>>].run \in K})
  BY DEF Finalize
<1>2. ASSUME NEW k \in Keys
      PROVE  k \in SettledBy(K) <=> cell[k].verdict \in Unrecorded /\ k \in K
  BY CellLemma DEF SettledBy
<1>3. ASSUME NEW k \in SettledBy(K)
      PROVE  /\ k \in Keys /\ k \in K /\ cell[k].run = k /\ grade(k) \in Verdicts
             /\ expected[TestAt(k)] \in InForce
  <2>1. k \in Keys /\ k \in K /\ cell[k].run = k
    BY <1>2, CellLemma DEF SettledBy
  <2>2. grade(k) \in Verdicts
    BY <2>1, GradedLemma
  <2>3. run[k].lifecycle # "absent"
    BY <2>1
  <2>4. expected[TestAt(k)] \in InForce
    BY <2>1, <2>3, KeyFacts DEF BookInv, LinksInv, TestsExist, RowsOK
  <2> QED BY <2>1, <2>2, <2>4
<1> HIDE DEF grade
<1>4. ASSUME NEW k \in Keys
      PROVE  /\ k \in SettledBy(K) => /\ cell'[k] = [cell[k] EXCEPT !.expected = expected[TestAt(k)],
                                                                   !.verdict = grade(k)]
                                      /\ cell'[k].verdict \in Verdicts /\ cell'[k].run = k
             /\ k \notin SettledBy(K) => cell'[k] = cell[k]
             /\ cell'[k] \in CellRow
  <2>1. cell[k] \in CellRow
    BY CellLemma
  <2>2. CASE k \in SettledBy(K)
    <3>1. cell'[k] = [cell[k] EXCEPT !.expected = expected[TestAt(k)], !.verdict = grade(k)]
      BY <1>1, <2>2
    <3> QED BY ZenonT(60), <3>1, <2>1, <2>2, <1>3 DEF CellRow
  <2>3. CASE k \notin SettledBy(K)
    BY <1>1, <2>1, <2>3
  <2> QED BY <2>2, <2>3
<1>5. cell' \in [Keys -> CellRow]
  BY <1>1, <1>4
<1>6. Frozen
  BY <1>2, <1>4, CellLemma DEF Frozen
<1>7. UngradedIsOwn'
  <2> SUFFICES ASSUME NEW k \in Keys, cell'[k].verdict \in Unrecorded
               PROVE  cell'[k].run = k
    BY DEF UngradedIsOwn
  <2>1. CASE k \in SettledBy(K)
    BY <2>1, <1>4
  <2>2. CASE k \notin SettledBy(K)
    BY <2>2, <1>4, CellLemma
  <2> QED BY <2>1, <2>2
<1>8. NoCellNoRun'
  <2> SUFFICES ASSUME NEW m \in Matrices, NEW j \in Jobs, cell'[<<m, j>>].verdict = "absent"
               PROVE  run'[<<m, j>>].lifecycle = "absent"
    BY DEF NoCellNoRun
  <2>1. <<m, j>> \in Keys /\ <<m, j>> \notin Singles
    BY KeyFacts
  <2>2. <<m, j>> \notin SettledBy(K) /\ cell[<<m, j>>].verdict = "absent"
    BY <1>4, <2>1 DEF Verdicts
  <2>3. <<m, j>> \notin K /\ run[<<m, j>>].lifecycle = "absent"
    BY <1>2, <2>1, <2>2, CellLemma DEF Unrecorded
  <2> QED BY <2>1, <2>3
<1>9. GradedExactlyWhenEnded'
  <2> SUFFICES ASSUME NEW k \in Keys
               PROVE  /\ cell'[k].verdict \in Verdicts => run'[cell'[k].run].lifecycle \in Ended
                      /\ run'[k].lifecycle \in Ended => cell'[k].verdict \in Verdicts
                      /\ cell'[k].verdict = "pending" =>
                           cell'[k].run = k /\ run'[k].lifecycle \in {"queued", "running", "cancelled"}
    BY DEF GradedExactlyWhenEnded, Ended
  <2>1. CASE k \in SettledBy(K)
    <3>1. cell'[k].verdict \in Verdicts /\ cell'[k].run = k
      BY <2>1, <1>4
    <3>2. run'[k].lifecycle \in Ended
      BY <2>1, <1>3
    <3>3. cell'[k].verdict # "pending"
      BY <3>1 DEF Verdicts
    <3> QED BY <3>1, <3>2, <3>3
  <2>2. CASE k \notin SettledBy(K)
    <3>1. cell'[k] = cell[k]
      BY <1>4, <2>2
    <3>2. cell[k].verdict \in Unrecorded => k \notin K
      BY <1>2, <2>2
    <3>3. cell[k].verdict \in Verdicts => run'[cell[k].run].lifecycle \in Ended
      BY CellLemma DEF Ended
    <3>4. run'[k].lifecycle \in Ended => cell[k].verdict \in Verdicts
      BY <3>2, CellLemma DEF Ended
    <3>5. cell[k].verdict = "pending" =>
            cell[k].run = k /\ run'[k].lifecycle \in {"queued", "running", "cancelled"}
      BY <3>2, CellLemma DEF Unrecorded
    <3> QED BY <3>1, <3>3, <3>4, <3>5
  <2> QED BY <2>1, <2>2
<1>10. ASSUME NEW m \in Matrices
       PROVE  Current(m)' /\ rollup'[m] \in RollupRow
  <2>1. CASE \E j \in CellsOf(cell, m) : cell[<<m, j>>].run \in K
    BY <2>1, <1>1, RolledUpIsCurrent DEF RollUp
  <2>2. CASE ~ \E j \in CellsOf(cell, m) : cell[<<m, j>>].run \in K
    <3>1. rollup'[m] = rollup[m]
      BY <2>2, <1>1 DEF RollUp
    <3>2. ASSUME NEW j \in Jobs
          PROVE  cell'[<<m, j>>] = cell[<<m, j>>]
      <4>1. <<m, j>> \in Keys /\ <<m, j>> \notin Singles
        BY KeyFacts
      <4>2. CASE j \in CellsOf(cell, m)
        BY <4>1, <4>2, <2>2, <1>4 DEF SettledBy
      <4>3. CASE j \notin CellsOf(cell, m)
        <5>1. run[<<m, j>>].lifecycle = "absent"
          BY <4>1, <4>3, CellLemma DEF CellsOf
        <5> QED BY <4>1, <5>1, <1>2, <1>4
      <4> QED BY <4>2, <4>3
    <3>3. ASSUME NEW j \in CellsOf(cell, m)
          PROVE  Calm(run[cell[<<m, j>>].run], run'[cell[<<m, j>>].run])
      <4>1. <<m, j>> \in Keys /\ cell[<<m, j>>].run \in Keys \ K
        BY <2>2, KeyFacts, CellLemma DEF CellsOf
      <4> QED BY <4>1 DEF Calm, Terminal
    <3>4. Current(m) /\ rollup[m] \in RollupRow
      BY DEF BookInv, CellsInv, RollupsCurrent, RowsOK
    <3> QED BY <3>1, <3>2, <3>3, <3>4, StaysCurrent
  <2> QED BY <2>1, <2>2
<1>11. RollupsCurrent' /\ rollup' \in [Matrices -> RollupRow]
  <2>1. RollupsCurrent'
    BY <1>10 DEF RollupsCurrent
  <2> QED BY <2>1, <1>1, <1>10 DEF RollUp
<1>12. ASSUME NEW m \in Matrices, NEW j \in Jobs, cell[<<m, j>>].verdict = "absent"
       PROVE  cell'[<<m, j>>].verdict = "absent"
  <2>1. <<m, j>> \in Keys /\ run[<<m, j>>].lifecycle = "absent"
    BY <1>12, KeyFacts, CellLemma
  <2> QED BY <2>1, <1>2, <1>4, <1>12
<1> QED BY <1>5, <1>6, <1>7, <1>8, <1>9, <1>11, <1>12 DEF BooksAgree, CellsInv

LEMMA NoRollUp ==
  ASSUME BookInv, UNCHANGED rollup
  PROVE  RollUp({})
  BY DEF BookInv, RowsOK, RollUp

\* Cells are left alone: runs are created outside matrix runs, start, and leave
\* the queue.
LEMMA QuietStep ==
  ASSUME BookInv, NEW M, RollUp(M), UNCHANGED cell,
         \A k \in Keys :
           \/ run'[k] = run[k]
           \/ /\ run[k].lifecycle = "absent" /\ k \in Singles
              /\ run'[k].lifecycle \in {"queued", "running"}
           \/ /\ run[k].lifecycle = "queued" /\ run'[k].lifecycle \in {"running", "cancelled"}
              /\ run'[k].result = run[k].result
              /\ run'[k].lifecycle = "cancelled" => "cancel run" \in Uses \/ k \in M \X Jobs
  PROVE  BooksAgree' /\ Frozen
<1>1. cell' \in [Keys -> CellRow] /\ UngradedIsOwn' /\ Frozen
  BY DEF BookInv, RowsOK, CellsInv, UngradedIsOwn, Frozen
<1>2. NoCellNoRun'
  <2>1. ASSUME NEW m \in Matrices, NEW j \in Jobs, cell[<<m, j>>].verdict = "absent"
        PROVE  run'[<<m, j>>].lifecycle = "absent"
    <3>1. <<m, j>> \in Keys /\ <<m, j>> \notin Singles
      BY KeyFacts
    <3>2. run[<<m, j>>].lifecycle = "absent"
      BY <2>1 DEF BookInv, CellsInv, NoCellNoRun
    <3> QED BY <3>1, <3>2
  <2> QED BY <2>1 DEF NoCellNoRun
<1>3. GradedExactlyWhenEnded'
  <2> SUFFICES ASSUME NEW k \in Keys
               PROVE  /\ cell[k].verdict \in Verdicts => run'[cell[k].run].lifecycle \in Ended
                      /\ run'[k].lifecycle \in Ended => cell[k].verdict \in Verdicts
                      /\ cell[k].verdict = "pending" =>
                           cell[k].run = k /\ run'[k].lifecycle \in {"queued", "running", "cancelled"}
    BY DEF GradedExactlyWhenEnded, Ended
  <2>1. cell[k].verdict \in Verdicts => run'[cell[k].run].lifecycle \in Ended
    BY CellLemma DEF Ended
  <2>2. run'[k].lifecycle \in Ended => cell[k].verdict \in Verdicts
    BY CellLemma DEF Ended
  <2>3. cell[k].verdict = "pending" =>
          cell[k].run = k /\ run'[k].lifecycle \in {"queued", "running", "cancelled"}
    BY CellLemma DEF Unrecorded
  <2> QED BY <2>1, <2>2, <2>3
<1>4. ASSUME NEW m \in Matrices
      PROVE  Current(m)' /\ rollup'[m] \in RollupRow
  <2>1. CASE m \in M
    BY <2>1, RolledUpIsCurrent DEF RollUp
  <2>2. CASE m \notin M
    <3>1. rollup'[m] = rollup[m]
      BY <2>2 DEF RollUp
    <3>2. ASSUME NEW j \in CellsOf(cell, m)
          PROVE  Calm(run[cell[<<m, j>>].run], run'[cell[<<m, j>>].run])
      <4>1. <<m, j>> \in Keys /\ cell[<<m, j>>].run \in Keys /\ cell[<<m, j>>].verdict # "absent"
        BY KeyFacts, CellLemma DEF CellsOf
      <4>2. /\ run[cell[<<m, j>>].run].lifecycle # "absent"
            /\ run[cell[<<m, j>>].run].lifecycle = "queued" => cell[<<m, j>>].run = <<m, j>>
        BY <4>1, CellLemma DEF Ended, Unrecorded
      <4>3. <<m, j>> \notin M \X Jobs
        BY <2>2
      <4> QED BY <4>1, <4>2, <4>3 DEF Calm, Terminal
    <3>3. Current(m) /\ rollup[m] \in RollupRow
      BY DEF BookInv, CellsInv, RollupsCurrent, RowsOK
    <3> QED BY <3>1, <3>2, <3>3, StaysCurrent
  <2> QED BY <2>1, <2>2
<1>5. RollupsCurrent' /\ rollup' \in [Matrices -> RollupRow]
  <2>1. RollupsCurrent'
    BY <1>4 DEF RollupsCurrent
  <2> QED BY <2>1, <1>4 DEF RollUp
<1> QED BY <1>1, <1>2, <1>3, <1>5 DEF BooksAgree, CellsInv

-----------------------------------------------------------------------------
(* Rows. *)

GoodRow(row) == row \in RunRow /\ (row.pinned => row.print \in Jobs \X Commits)

LEMMA NewRowLemma ==
  ASSUME NEW p \in (Jobs \X Refs) \cup {NoPrint}, NEW pinned \in BOOLEAN,
         pinned => p \in Jobs \X Commits
  PROVE  /\ GoodRow(NewRow(p, pinned)) /\ NewRow(p, pinned).lifecycle = "queued"
         /\ NewRow(p, pinned).result = NoResult /\ ~NewRow(p, pinned).owned
<1>1. NoRow \in RunRow
  BY RefFacts DEF NoRow, RunRow, Lifecycles
<1>2. NoRow.result = NoResult /\ ~NoRow.owned
  BY DEF NoRow
<1> HIDE DEF NoRow
<1>3. /\ NewRow(p, pinned) \in RunRow /\ NewRow(p, pinned).print = p
      /\ NewRow(p, pinned).pinned = pinned /\ NewRow(p, pinned).lifecycle = "queued"
      /\ NewRow(p, pinned).result = NoRow.result /\ NewRow(p, pinned).owned = NoRow.owned
  BY <1>1 DEF NewRow, RunRow, Lifecycles
<1> QED BY <1>2, <1>3 DEF GoodRow

LEMMA ExecutedLemma ==
  ASSUME NEW row, GoodRow(row), head \in Commits
  PROVE  /\ GoodRow(Executed(row)) /\ Executed(row).lifecycle = "running"
         /\ Executed(row).result = row.result /\ Executed(row).owned = row.owned
<1>1. Checkout(row) \in Commits
  BY DEF Checkout, GoodRow
<1>2. row \in RunRow
  BY DEF GoodRow
<1> QED BY <1>1, <1>2 DEF Executed, GoodRow, RunRow, Lifecycles

LEMMA StampedLemma ==
  ASSUME BookInv, NEW J \in SUBSET Jobs, NEW d \in Expectable \cup {"none"},
         expected' = Stamped(J, d)
  PROVE  /\ expected' \in [Tests -> InForce \cup {"unborn"}]
         /\ \A t \in Tests : expected[t] # "unborn" => expected'[t] = expected[t]
         /\ \A j \in J : expected'[TestOf[j]] \in InForce
<1>1. expected \in [Tests -> InForce \cup {"unborn"}]
  BY DEF BookInv, RowsOK
<1>2. "unborn" \notin Expectable
  BY ConstantsAssumption DEF ResultCodes
<1> QED BY <1>1, <1>2, ConstantsAssumption DEF Stamped, InForce

-----------------------------------------------------------------------------
(* Jobs of a matrix run that have no cell yet get one. *)

Enqueued(m, J, cached, source, spot) ==
  /\ m \in Matrices /\ J \in SUBSET Jobs
  /\ \A j \in J : cell[<<m, j>>].verdict = "absent"
  /\ cached \in BOOLEAN /\ spot \in BOOLEAN
  /\ source \in [ref : Refs, pinned : BOOLEAN] /\ (source.pinned => source.ref \in Commits)
  /\ EnqueueJobs(m, J, cached, source, spot)
  /\ UNCHANGED <<newest, head>>

CellsOn(m, J) == {<<m, j>> : j \in J}

LEMMA EnqueueStep ==
  ASSUME BookInv, NEW m, NEW J, NEW cached, NEW source, NEW spot,
         Enqueued(m, J, cached, source, spot)
  PROVE  /\ BooksAgree' /\ Frozen
         /\ run' \in [Keys -> RunRow] /\ RunsInv' /\ CacheHasEnded' /\ TestsExist'
         /\ expected' \in [Tests -> InForce \cup {"unborn"}]
         /\ \A k \in Keys : cell[k].verdict = "absent" /\ k \notin CellsOn(m, J) =>
                              cell'[k].verdict = "absent"
<1> DEFINE hits == {j \in J : cached /\ newest[<<j, source.ref>>] # NoRun}
           made == {<<m, j>> : j \in J \ hits}
           used == {<<m, j>> : j \in hits}
           queued(k) == IF cached THEN NewRow(<<JobAt(k), source.ref>>, source.pinned)
                        ELSE NewRow(NoPrint, FALSE)
           fresh(k) == IF spot THEN Executed(queued(k)) ELSE queued(k)
           hit(k) == LET r == newest[<<JobAt(k), source.ref>>]
                         e == expected'[TestAt(k)]
                     IN  [run |-> r, expected |-> e, verdict |-> Graded(run[r].result, e), hit |-> TRUE]
<1>1. /\ m \in Matrices /\ J \in SUBSET Jobs
      /\ \A j \in J : cell[<<m, j>>].verdict = "absent"
      /\ cached \in BOOLEAN /\ spot \in BOOLEAN
      /\ source.ref \in Refs /\ source.pinned \in BOOLEAN
      /\ source.pinned => source.ref \in Commits
      /\ newest' = newest /\ head' = head
  BY DEF Enqueued
<1>2. PICK d \in Expectable \cup {"none"} : expected' = Stamped(J, d)
  BY DEF Enqueued, EnqueueJobs
<1>3. run' = [k \in Keys |-> IF k \in made THEN fresh(k) ELSE run[k]]
  BY DEF Enqueued, EnqueueJobs
<1>4. /\ cell' = [k \in Keys |-> IF k \in made THEN [cell[k] EXCEPT !.verdict = "pending"]
                                 ELSE IF k \in used THEN hit(k) ELSE cell[k]]
      /\ RollUp({m})
  BY DEF Enqueued, EnqueueJobs
<1>5. ASSUME NEW k \in made \cup used
      PROVE  /\ k \in CellsOn(m, J) /\ k \in Keys /\ k \notin Singles /\ JobAt(k) \in J
             /\ cell[k].verdict = "absent" /\ cell[k].run = k /\ run[k].lifecycle = "absent"
  <2>1. PICK j \in J : k = <<m, j>>
    OBVIOUS
  <2>2. k \in Keys /\ k \notin Singles /\ JobAt(k) = j
    BY <1>1, <2>1, KeyFacts
  <2> QED BY <1>1, <2>1, <2>2, CellLemma DEF Unrecorded, CellsOn
<1>6. ASSUME NEW k \in made
      PROVE  /\ run'[k] = fresh(k) /\ GoodRow(run'[k]) /\ run'[k].lifecycle \in {"queued", "running"}
             /\ run'[k].result = NoResult /\ ~run'[k].owned
             /\ cell'[k] = [cell[k] EXCEPT !.verdict = "pending"]
  <2>1. <<JobAt(k), source.ref>> \in Jobs \X Refs
        /\ (source.pinned => <<JobAt(k), source.ref>> \in Jobs \X Commits)
    BY <1>1, <1>5
  <2>2. GoodRow(queued(k)) /\ queued(k).lifecycle = "queued" /\ queued(k).result = NoResult
        /\ ~queued(k).owned
    BY <2>1, <1>1, NewRowLemma
  <2>3. head \in Commits
    BY DEF BookInv, RowsOK
  <2> HIDE DEF queued
  <2>4. /\ GoodRow(fresh(k)) /\ fresh(k).lifecycle \in {"queued", "running"}
        /\ fresh(k).result = NoResult /\ ~fresh(k).owned
    BY <2>2, <2>3, <1>1, ExecutedLemma
  <2> QED BY <2>4, <1>3, <1>4, <1>5
<1>7. ASSUME NEW k \in Keys, k \notin made
      PROVE  run'[k] = run[k]
  BY <1>3, <1>7
<1>8. ASSUME NEW k \in used
      PROVE  /\ k \notin made /\ cell'[k] = hit(k) /\ hit(k).verdict \in Verdicts
             /\ hit(k).run \in Keys \ made /\ hit(k) \in CellRow
             /\ run[hit(k).run].lifecycle \in Ended
  <2>1. PICK j \in hits : k = <<m, j>>
    OBVIOUS
  <2>2. JobAt(k) = j /\ k \notin made /\ <<j, source.ref>> \in Jobs \X Refs
    BY <2>1, <1>1, KeyFacts
  <2>3. newest[<<j, source.ref>>] \in Keys /\ run[newest[<<j, source.ref>>]].lifecycle \in Ended
    BY <2>2 DEF BookInv, RowsOK, LinksInv, CacheHasEnded
  <2>4. run[newest[<<j, source.ref>>]].result \in ResultCodes
    BY <2>3 DEF BookInv, RunsInv, EndedHasResult
  <2>5. newest[<<j, source.ref>>] \notin made
    BY <2>3, <1>5 DEF Ended
  <2>6. TestAt(k) = TestOf[j] /\ expected'[TestAt(k)] \in InForce
    <3>1. j \in J /\ TestAt(k) = TestOf[j]
      BY <2>2, <1>5, KeyFacts
    <3>2. expected'[TestOf[j]] \in InForce
      BY <3>1, <1>1, <1>2, StampedLemma
    <3> QED BY <3>1, <3>2
  <2>7. hit(k) = [run |-> newest[<<j, source.ref>>], expected |-> expected'[TestAt(k)], hit |-> TRUE,
                  verdict |-> Graded(run[newest[<<j, source.ref>>]].result, expected'[TestAt(k)])]
    BY <2>2
  <2>8. cell'[k] = hit(k)
    BY <2>2, <1>4, <1>5
  <2>9. hit(k).verdict \in Verdicts /\ hit(k) \in CellRow
    BY <2>3, <2>4, <2>6, <2>7, GradedLemma DEF CellRow
  <2> QED BY <2>2, <2>3, <2>5, <2>7, <2>8, <2>9
<1>9. ASSUME NEW k \in Keys, k \notin made, k \notin used
      PROVE  cell'[k] = cell[k]
  BY <1>4, <1>9
<1>10. /\ \A k \in Keys : k \notin CellsOn(m, J) => k \notin made /\ k \notin used
       /\ \A n \in Matrices, j \in Jobs : n # m => <<n, j>> \notin made /\ <<n, j>> \notin used
  BY DEF CellsOn
<1>11. cell' = [k \in Keys |-> cell'[k]] /\ run' = [k \in Keys |-> run'[k]]
  BY <1>3, <1>4
<1> HIDE DEF hits, made, used, fresh, queued, hit
<1>12. \A k \in Keys : GoodRow(run'[k])
  BY <1>6, <1>7 DEF GoodRow, BookInv, RowsOK, RunsInv, PinnedHasCommit
<1>13. run' \in [Keys -> RunRow]
  BY <1>11, <1>12 DEF GoodRow
<1>14. RunsInv'
  <2>1. EndedHasResult'
    BY <1>6, <1>7 DEF BookInv, RunsInv, EndedHasResult, Ended
  <2>2. OwnedIsClaimed'
    BY <1>6, <1>7 DEF BookInv, RunsInv, OwnedIsClaimed
  <2>3. PinnedHasCommit'
    BY <1>12 DEF PinnedHasCommit, GoodRow
  <2> QED BY <2>1, <2>2, <2>3 DEF RunsInv
<1>15. \A k \in Keys : run[k].lifecycle \in Ended => run'[k] = run[k]
  BY <1>5, <1>7 DEF Ended
<1>16. CacheHasEnded'
  BY <1>1, <1>15 DEF BookInv, RowsOK, LinksInv, CacheHasEnded
<1>17. TestsExist' /\ expected' \in [Tests -> InForce \cup {"unborn"}]
  <2>1. /\ expected' \in [Tests -> InForce \cup {"unborn"}]
        /\ \A t \in Tests : expected[t] # "unborn" => expected'[t] = expected[t]
        /\ \A j \in J : expected'[TestOf[j]] \in InForce
    BY <1>1, <1>2, StampedLemma
  <2>2. "unborn" \notin InForce
    BY ConstantsAssumption DEF InForce, ResultCodes
  <2>3. ASSUME NEW k \in Keys, run'[k].lifecycle # "absent"
        PROVE  expected'[TestAt(k)] # "unborn"
    <3>1. CASE k \in made
      BY <3>1, <2>1, <2>2, <1>5, KeyFacts
    <3>2. CASE k \notin made
      BY <3>2, <2>1, <2>3, <1>7, KeyFacts DEF BookInv, LinksInv, TestsExist
    <3> QED BY <3>1, <3>2
  <2> QED BY <2>1, <2>3 DEF TestsExist
<1>18. ASSUME NEW k \in Keys
       PROVE  /\ cell'[k] \in CellRow
              /\ cell'[k].verdict \in Unrecorded => cell'[k].run = k
              /\ cell[k].verdict \in Verdicts => cell'[k] = cell[k]
  <2>1. cell[k] \in CellRow
    BY CellLemma
  <2>2. CASE k \in made
    <3>1. cell'[k] = [cell[k] EXCEPT !.verdict = "pending"]
      BY <2>2, <1>6
    <3>2. cell'[k] \in CellRow /\ cell'[k].run = cell[k].run
      BY <2>1, <3>1 DEF CellRow
    <3> QED BY <3>2, <2>2, <1>5 DEF Verdicts
  <2>3. CASE k \in used
    <3>1. cell'[k] \in CellRow /\ cell'[k].verdict \in Verdicts
      BY <2>3, <1>8
    <3> QED BY <3>1, <2>3, <1>5 DEF Verdicts, Unrecorded
  <2>4. CASE k \notin made /\ k \notin used
    BY <2>4, <2>1, <1>9, CellLemma
  <2> QED BY <2>2, <2>3, <2>4
<1>19. NoCellNoRun'
  <2> SUFFICES ASSUME NEW n \in Matrices, NEW j \in Jobs, cell'[<<n, j>>].verdict = "absent"
               PROVE  run'[<<n, j>>].lifecycle = "absent"
    BY DEF NoCellNoRun
  <2>1. <<n, j>> \in Keys /\ <<n, j>> \notin Singles
    BY KeyFacts
  <2>2. <<n, j>> \notin made
    <3>1. ASSUME <<n, j>> \in made PROVE FALSE
      <4>1. cell[<<n, j>>] \in CellRow /\ cell'[<<n, j>>] = [cell[<<n, j>>] EXCEPT !.verdict = "pending"]
        BY <2>1, <3>1, <1>6, CellLemma
      <4> QED BY <4>1 DEF CellRow
    <3> QED BY <3>1
  <2>3. <<n, j>> \notin used
    BY <1>8 DEF Verdicts
  <2> QED BY <2>1, <2>2, <2>3, <1>7, <1>9, CellLemma
<1>20. GradedExactlyWhenEnded'
  <2> SUFFICES ASSUME NEW k \in Keys
               PROVE  /\ cell'[k].verdict \in Verdicts => run'[cell'[k].run].lifecycle \in Ended
                      /\ run'[k].lifecycle \in Ended => cell'[k].verdict \in Verdicts
                      /\ cell'[k].verdict = "pending" =>
                           cell'[k].run = k /\ run'[k].lifecycle \in {"queued", "running", "cancelled"}
    BY DEF GradedExactlyWhenEnded, Ended
  <2>1. CASE k \in made
    <3>1. cell'[k].verdict = "pending" /\ cell'[k].run = k
      <4>1. cell[k] \in CellRow /\ cell'[k] = [cell[k] EXCEPT !.verdict = "pending"] /\ cell[k].run = k
        BY <2>1, <1>5, <1>6, CellLemma
      <4> QED BY <4>1 DEF CellRow
    <3> QED BY <3>1, <2>1, <1>6 DEF Verdicts, Ended
  <2>2. CASE k \in used
    BY <2>2, <1>7, <1>8 DEF Verdicts
  <2>3. CASE k \notin made /\ k \notin used
    <3>1. cell'[k] = cell[k] /\ run'[k] = run[k]
      BY <2>3, <1>7, <1>9
    <3> QED BY <3>1, <1>15, CellLemma DEF Unrecorded
  <2> QED BY <2>1, <2>2, <2>3
<1>21. ASSUME NEW n \in Matrices
       PROVE  Current(n)' /\ rollup'[n] \in RollupRow
  <2>1. CASE n = m
    BY <2>1, <1>4, RolledUpIsCurrent DEF RollUp
  <2>2. CASE n # m
    <3>1. rollup'[n] = rollup[n]
      BY <2>2, <1>4 DEF RollUp
    <3>2. \A j \in Jobs : cell'[<<n, j>>] = cell[<<n, j>>] /\ <<n, j>> \in Keys /\ <<n, j>> \notin made
      BY <2>2, <1>9, <1>10, KeyFacts
    <3>3. ASSUME NEW j \in CellsOf(cell, n)
          PROVE  Calm(run[cell[<<n, j>>].run], run'[cell[<<n, j>>].run])
      <4>1. <<n, j>> \in Keys /\ <<n, j>> \notin made /\ cell[<<n, j>>].verdict # "absent"
        BY <3>2 DEF CellsOf
      <4>2. run'[cell[<<n, j>>].run] = run[cell[<<n, j>>].run]
        BY <4>1, <1>7, <1>15, CellLemma
      <4> QED BY <4>2 DEF Calm
    <3>4. Current(n) /\ rollup[n] \in RollupRow
      BY DEF BookInv, CellsInv, RollupsCurrent, RowsOK
    <3> QED BY <3>1, <3>2, <3>3, <3>4, StaysCurrent
  <2> QED BY <2>1, <2>2
<1>22. RollupsCurrent' /\ rollup' \in [Matrices -> RollupRow]
  <2>1. RollupsCurrent'
    BY <1>21 DEF RollupsCurrent
  <2> QED BY <2>1, <1>4, <1>21 DEF RollUp
<1>23. cell' \in [Keys -> CellRow] /\ UngradedIsOwn' /\ Frozen
  BY <1>11, <1>18 DEF UngradedIsOwn, Frozen
<1>24. \A k \in Keys : cell[k].verdict = "absent" /\ k \notin CellsOn(m, J) => cell'[k].verdict = "absent"
  BY <1>9, <1>10
<1> QED BY <1>13, <1>14, <1>16, <1>17, <1>19, <1>20, <1>22, <1>23, <1>24 DEF BooksAgree, CellsInv

-----------------------------------------------------------------------------
(* The invariant is inductive. *)

\* What every step keeps besides the books.
RowsAgree ==
  /\ run \in [Keys -> RunRow] /\ expected \in [Tests -> InForce \cup {"unborn"}]
  /\ newest \in [Jobs \X Refs -> Keys \cup {NoRun}]
  /\ local \in [Matrices -> [up : BOOLEAN, todo : SUBSET Jobs]] /\ head \in Commits
  /\ RunsInv /\ LinksInv

LEMMA InvParts ==
  ASSUME RowsAgree', BooksAgree'
  PROVE  BookInv'
  BY DEF BookInv, RowsAgree, BooksAgree, RowsOK

\* A step on runs that creates none, moves no test and no local job.
LEMMA RunsStep ==
  ASSUME BookInv, run' \in [Keys -> RunRow], UNCHANGED <<expected, local, head>>,
         newest' \in [Jobs \X Refs -> Keys \cup {NoRun}],
         \A p \in Jobs \X Refs : newest'[p] # newest[p] => run'[newest'[p]].lifecycle \in Ended,
         \A m \in Matrices, j \in Jobs :
            cell[<<m, j>>].verdict = "absent" => cell'[<<m, j>>].verdict = "absent",
         \A k \in Keys :
           /\ run'[k].print = run[k].print /\ run'[k].pinned = run[k].pinned
           /\ run[k].lifecycle = "absent" => run'[k].lifecycle = "absent"
           /\ run[k].lifecycle \in Ended => run'[k].lifecycle \in Ended
           /\ run'[k].lifecycle \in Ended => run'[k].result \in ResultCodes
           /\ run'[k].owned => run'[k].lifecycle \in {"running", "finished"}
  PROVE  RowsAgree'
<1>1. RunsInv'
  BY DEF BookInv, RunsInv, EndedHasResult, OwnedIsClaimed, PinnedHasCommit
<1>2. CacheHasEnded'
  BY DEF BookInv, LinksInv, CacheHasEnded, RowsOK
<1>3. TodoHasNoCell' /\ TestsExist'
  BY DEF BookInv, LinksInv, TodoHasNoCell, TestsExist, RowsOK
<1>4. /\ expected' \in [Tests -> InForce \cup {"unborn"}] /\ head' \in Commits
      /\ local' \in [Matrices -> [up : BOOLEAN, todo : SUBSET Jobs]]
  BY DEF BookInv, RowsOK
<1> QED BY <1>1, <1>2, <1>3, <1>4 DEF RowsAgree, LinksInv

LEMMA InitInv ==
  ASSUME Init
  PROVE  BookInv
<1>1. run \in [Keys -> RunRow] /\ \A k \in Keys : run[k] = NoRow /\ ~NoRow.pinned /\ ~NoRow.owned
        /\ NoRow.lifecycle = "absent"
  BY RefFacts DEF Init, NoRow, RunRow, Lifecycles
<1>2. \A k \in Keys : cell[k] = NoCell(k) /\ NoCell(k) \in CellRow /\ NoCell(k).verdict = "absent"
                      /\ NoCell(k).run = k
  BY DEF Init, NoCell, CellRow, InForce
<1>3. cell \in [Keys -> CellRow]
  BY <1>2 DEF Init
<1>4. EmptyRollup \in RollupRow /\ ~EmptyRollup.completed
  BY DEF EmptyRollup, RollupRow
<1>5. rollup \in [Matrices -> RollupRow]
  BY <1>4 DEF Init
<1>6. RunsInv
  BY <1>1 DEF RunsInv, EndedHasResult, OwnedIsClaimed, PinnedHasCommit, Ended
<1>7. UngradedIsOwn /\ NoCellNoRun /\ GradedExactlyWhenEnded
  BY <1>1, <1>2, KeyFacts DEF UngradedIsOwn, NoCellNoRun, GradedExactlyWhenEnded, Verdicts
<1>8. ASSUME NEW m \in Matrices
      PROVE  Current(m)
  <2>1. CellsOf(cell, m) = {}
    BY <1>2, KeyFacts DEF CellsOf
  <2>2. Cardinality(CellsOf(cell, m)) = 0 /\ \A S \in SUBSET {} : Cardinality(S) = 0
    BY <2>1, FS_EmptySet
  <2>3. rollup[m] = EmptyRollup
    BY DEF Init
  <2>4. Tally(run, cell, m) = EmptyRollup
    <3> DEFINE cells == CellsOf(cell, m)
               resulted(c) == Cardinality({j \in cells : run[cell[<<m, j>>].run].result = c})
               judged(v)   == Cardinality({j \in cells : cell[<<m, j>>].verdict = v})
               hits == Cardinality({j \in cells : cell[<<m, j>>].hit})
               total == Cardinality(cells)
               done == total > 0 /\ \A j \in cells : run[cell[<<m, j>>].run].lifecycle \in Terminal
    <3>1. Tally(run, cell, m) = RowOf(resulted, judged, hits, total, done)
      BY DEF Tally, RowOf
    <3>2. \A c : resulted(c) = 0 /\ judged(c) = 0
      BY <2>1, <2>2
    <3>3. hits = 0 /\ total = 0 /\ done = FALSE
      BY <2>1, <2>2
    <3> HIDE DEF cells, resulted, judged, hits, total, done
    <3>4. LET row == RowOf(resulted, judged, hits, total, done)
          IN  /\ row.pass = 0 /\ row.fail = 0 /\ row.error = 0 /\ row.met = 0 /\ row.unmet = 0
              /\ row.unknown = 0 /\ row.hits = 0 /\ row.total = 0
              /\ row.summary = NoResult /\ row.verdict = "none" /\ ~row.completed
      BY <3>2, <3>3 DEF RowOf
    <3>5. Tally(run, cell, m) \in RollupRow
      BY TallyType
    <3> QED BY SMTT(40), <1>4, <3>1, <3>4, <3>5 DEF RollupRow, EmptyRollup
  <2>5. [EmptyRollup EXCEPT !.completed = EmptyRollup.completed] = EmptyRollup
    BY <1>4 DEF RollupRow
  <2> QED BY <2>3, <2>4, <2>5, <1>4 DEF Current
<1>9. LinksInv
  BY <1>1, <1>2 DEF Init, LinksInv, CacheHasEnded, TodoHasNoCell, TestsExist
<1>10. RowsOK
  BY <1>1, <1>3, <1>5, RefFacts DEF Init, RowsOK
<1> QED BY <1>6, <1>7, <1>8, <1>9, <1>10 DEF BookInv, CellsInv, RollupsCurrent

LEMMA ClaimInv ==
  ASSUME BookInv, NEW k \in Keys, Claim(k)
  PROVE  BookInv' /\ Frozen
<1>1. head \in Commits /\ run \in [Keys -> RunRow] /\ GoodRow(run[k]) /\ run[k].lifecycle = "queued"
  BY DEF Claim, BookInv, RowsOK, RunsInv, PinnedHasCommit, GoodRow
<1>2. /\ GoodRow(Executed(run[k])) /\ Executed(run[k]).lifecycle = "running"
      /\ Executed(run[k]).result = run[k].result
  BY <1>1, ExecutedLemma
<1>3. run' = [run EXCEPT ![k] = [Executed(run[k]) EXCEPT !.owned = TRUE]]
      /\ UNCHANGED <<cell, expected, rollup, newest, local, head>>
  BY DEF Claim
<1>4. /\ Executed(run[k]).print = run[k].print /\ Executed(run[k]).pinned = run[k].pinned
  BY <1>1 DEF Executed, GoodRow, RunRow
<1> DEFINE row == [Executed(run[k]) EXCEPT !.owned = TRUE]
<1>5. /\ row \in RunRow /\ row.lifecycle = "running" /\ row.result = run[k].result
      /\ row.print = run[k].print /\ row.pinned = run[k].pinned
  BY <1>2, <1>4 DEF GoodRow, RunRow
<1> HIDE DEF row
<1>6. run' \in [Keys -> RunRow] /\ run'[k] = row /\ \A i \in Keys : i # k => run'[i] = run[i]
  BY <1>1, <1>3, <1>5 DEF row
<1>7. RowsAgree'
  BY <1>1, <1>3, <1>5, <1>6, RunsStep DEF BookInv, RowsOK, RunsInv, EndedHasResult, OwnedIsClaimed, Ended
<1>8. BooksAgree' /\ Frozen
  BY <1>1, <1>3, <1>5, <1>6, NoRollUp, QuietStep
<1> QED BY <1>7, <1>8, InvParts

LEMMA CancelRunInv ==
  ASSUME BookInv, NEW k \in Keys, CancelRun(k)
  PROVE  BookInv' /\ Frozen
<1>1. /\ run \in [Keys -> RunRow] /\ run[k].lifecycle = "queued" /\ "cancel run" \in Uses
      /\ run' = [i \in Keys |-> IF i \in {k} THEN [run[i] EXCEPT !.lifecycle = "cancelled"] ELSE run[i]]
      /\ UNCHANGED <<cell, expected, rollup, newest, local, head>>
  BY DEF CancelRun, Cancelled, BookInv, RowsOK
<1>2. [run[k] EXCEPT !.lifecycle = "cancelled"] \in RunRow
  BY <1>1 DEF RunRow, Lifecycles
<1>3. /\ run' \in [Keys -> RunRow] /\ \A i \in Keys : i # k => run'[i] = run[i]
      /\ run'[k].lifecycle = "cancelled" /\ run'[k].result = run[k].result
      /\ run'[k].print = run[k].print /\ run'[k].pinned = run[k].pinned /\ run'[k].owned = run[k].owned
  BY <1>1, <1>2 DEF RunRow
<1>4. ~run[k].owned
  BY <1>1 DEF BookInv, RunsInv, OwnedIsClaimed
<1>5. RowsAgree'
  BY <1>1, <1>3, <1>4, RunsStep DEF BookInv, RowsOK, RunsInv, EndedHasResult, OwnedIsClaimed, Ended
<1>6. BooksAgree' /\ Frozen
  BY <1>1, <1>3, NoRollUp, QuietStep
<1> QED BY <1>5, <1>6, InvParts

LEMMA CancelMatrixInv ==
  ASSUME BookInv, NEW m \in Matrices, CancelMatrix(m)
  PROVE  BookInv' /\ Frozen
<1> DEFINE queued == {k \in {m} \X Jobs : run[k].lifecycle = "queued"}
<1>1. /\ run \in [Keys -> RunRow] /\ queued \subseteq Keys
      /\ run' = [i \in Keys |-> IF i \in queued THEN [run[i] EXCEPT !.lifecycle = "cancelled"] ELSE run[i]]
      /\ RollUp({m}) /\ UNCHANGED <<cell, expected, newest, local, head>>
  BY DEF CancelMatrix, Cancelled, BookInv, RowsOK, Keys
<1>2. ASSUME NEW k \in queued
      PROVE  /\ run[k].lifecycle = "queued" /\ ~run[k].owned /\ run'[k] \in RunRow
             /\ run'[k].lifecycle = "cancelled" /\ run'[k].result = run[k].result
             /\ run'[k].print = run[k].print /\ run'[k].pinned = run[k].pinned
             /\ run'[k].owned = run[k].owned
  <2>1. k \in Keys /\ run[k] \in RunRow /\ run[k].lifecycle = "queued"
    BY <1>1
  <2>2. run'[k] = [run[k] EXCEPT !.lifecycle = "cancelled"]
    BY <1>1, <2>1
  <2>3. ~run[k].owned
    BY <2>1 DEF BookInv, RunsInv, OwnedIsClaimed
  <2> QED BY <2>1, <2>2, <2>3 DEF RunRow, Lifecycles
<1>3. (\A i \in Keys : i \notin queued => run'[i] = run[i]) /\ queued \subseteq {m} \X Jobs
  BY <1>1
<1> HIDE DEF queued
<1>4. run' \in [Keys -> RunRow]
  BY <1>1, <1>2, <1>3
<1>5. RowsAgree'
  BY <1>1, <1>2, <1>3, <1>4, RunsStep
     DEF BookInv, RowsOK, RunsInv, EndedHasResult, OwnedIsClaimed, Ended
<1>6. BooksAgree' /\ Frozen
  BY <1>1, <1>2, <1>3, QuietStep
<1> QED BY <1>5, <1>6, InvParts

\* A run that is executed comes to its end, or is reported on again.
LEMMA FinishInv ==
  ASSUME BookInv, NEW k \in Keys, run[k].lifecycle \in {"running", "finished"},
         NEW c \in Outcomes, Finish(k, c)
  PROVE  BookInv' /\ Frozen
<1>1. /\ run \in [Keys -> RunRow] /\ run[k] \in RunRow /\ c \in ResultCodes
      /\ run' = [run EXCEPT ![k].lifecycle = "finished", ![k].result = c]
      /\ Finalize({k}) /\ UNCHANGED <<expected, local, head>>
  BY ConstantsAssumption DEF Finish, BookInv, RowsOK
<1>2. [run[k] EXCEPT !.lifecycle = "finished", !.result = c] \in RunRow
  BY <1>1 DEF RunRow, Lifecycles
<1>3. /\ run'[k] = [run[k] EXCEPT !.lifecycle = "finished", !.result = c]
      /\ run' \in [Keys -> RunRow] /\ \A i \in Keys : i # k => run'[i] = run[i]
  BY <1>1, <1>2
<1>4. /\ run'[k].lifecycle = "finished" /\ run'[k].result = c
      /\ run'[k].print = run[k].print /\ run'[k].pinned = run[k].pinned /\ run'[k].owned = run[k].owned
  BY <1>1, <1>3 DEF RunRow
<1>5. /\ BooksAgree' /\ Frozen
      /\ \A m \in Matrices, j \in Jobs :
           cell[<<m, j>>].verdict = "absent" => cell'[<<m, j>>].verdict = "absent"
  <2>1. \A i \in {k} : /\ run[i].lifecycle \in {"queued", "running", "finished"}
                       /\ run'[i].lifecycle \in Ended /\ run'[i].result \in ResultCodes
    BY <1>1, <1>4 DEF Ended
  <2>2. \A i \in Keys \ {k} : run'[i] = run[i]
    BY <1>3
  <2> QED BY <1>1, <2>1, <2>2, FinalizeStep
<1>6. /\ newest' \in [Jobs \X Refs -> Keys \cup {NoRun}]
      /\ \A p \in Jobs \X Refs : newest'[p] # newest[p] => newest'[p] = k
  <2>1. newest' = IF run[k].print = NoPrint THEN newest ELSE [newest EXCEPT ![run[k].print] = k]
    BY DEF Finish
  <2>2. newest \in [Jobs \X Refs -> Keys \cup {NoRun}]
    BY DEF BookInv, RowsOK
  <2>3. run[k].print \in (Jobs \X Refs) \cup {NoPrint}
    BY <1>1 DEF RunRow
  <2> QED BY <2>1, <2>2, <2>3
<1>7. RowsAgree'
  BY <1>1, <1>3, <1>4, <1>5, <1>6, RunsStep
     DEF BookInv, RowsOK, RunsInv, EndedHasResult, OwnedIsClaimed, Ended
<1> QED BY <1>5, <1>7, InvParts
LEMMA ReclaimInv ==
  ASSUME BookInv, NEW K \in SUBSET Keys, Reclaim(K)
  PROVE  BookInv' /\ Frozen
<1> DEFINE spent == {k \in K : run[k].reclaims >= MaxReclaims}
           Counted(k) == [run[k] EXCEPT !.reclaims = @ + 1]
<1>1. /\ run \in [Keys -> RunRow] /\ \A k \in K : run[k].lifecycle = "running"
      /\ run' = [k \in Keys |->
           IF k \in spent THEN Retired(Counted(k))
           ELSE IF k \in K THEN [Counted(k) EXCEPT !.lifecycle = "queued", !.owned = FALSE]
           ELSE run[k]]
      /\ Finalize(spent) /\ UNCHANGED <<expected, newest, local, head>>
  BY DEF Reclaim, BookInv, RowsOK
<1>2. ASSUME NEW k \in K
      PROVE  Counted(k) \in RunRow /\ Counted(k).result = run[k].result
             /\ Counted(k).print = run[k].print /\ Counted(k).pinned = run[k].pinned
  <2>1. run[k] \in RunRow
    BY <1>1
  <2>2. run[k].reclaims + 1 \in Nat
    BY <2>1 DEF RunRow
  <2> QED BY <2>1, <2>2 DEF RunRow
<1>3. ASSUME NEW k \in spent
      PROVE  /\ k \in Keys /\ run'[k] \in RunRow /\ run'[k].lifecycle = "timed_out"
             /\ run'[k].result = "ERROR" /\ ~run'[k].owned
             /\ run'[k].print = run[k].print /\ run'[k].pinned = run[k].pinned
  <2>1. k \in Keys /\ run'[k] = Retired(Counted(k))
    BY <1>1
  <2> HIDE DEF Counted
  <2>2. /\ Retired(Counted(k)) \in RunRow /\ Retired(Counted(k)).lifecycle = "timed_out"
        /\ Retired(Counted(k)).result = "ERROR" /\ ~Retired(Counted(k)).owned
        /\ Retired(Counted(k)).print = Counted(k).print
        /\ Retired(Counted(k)).pinned = Counted(k).pinned
    BY <1>2 DEF Retired, RunRow, Lifecycles, ResultCodes
  <2> QED BY <2>1, <2>2, <1>2
<1>4. ASSUME NEW k \in K, k \notin spent
      PROVE  /\ run'[k] \in RunRow /\ run'[k].lifecycle = "queued"
             /\ run'[k].result = run[k].result /\ ~run'[k].owned
             /\ run'[k].print = run[k].print /\ run'[k].pinned = run[k].pinned
  <2>1. run'[k] = [Counted(k) EXCEPT !.lifecycle = "queued", !.owned = FALSE]
    BY <1>1, <1>4
  <2> HIDE DEF Counted
  <2> QED BY <2>1, <1>2 DEF RunRow, Lifecycles
<1>5. ASSUME NEW k \in Keys, k \notin K
      PROVE  run'[k] = run[k]
  BY ZenonT(60), <1>1, <1>5
<1>6. run' \in [Keys -> RunRow]
  BY <1>1, <1>3, <1>4, <1>5
<1>7. spent \in SUBSET Keys /\ spent \subseteq K
  OBVIOUS
<1> HIDE DEF spent, Counted
<1>8. /\ BooksAgree' /\ Frozen
      /\ \A m \in Matrices, j \in Jobs :
           cell[<<m, j>>].verdict = "absent" => cell'[<<m, j>>].verdict = "absent"
  <2>1. \A k \in spent : /\ run[k].lifecycle \in {"queued", "running", "finished"}
                         /\ run'[k].lifecycle \in Ended /\ run'[k].result \in ResultCodes
    BY <1>1, <1>3, <1>7 DEF Ended, ResultCodes
  <2>2. \A k \in Keys \ spent :
          \/ run'[k] = run[k]
          \/ /\ run[k].lifecycle = "running" /\ run'[k].lifecycle = "queued"
             /\ run'[k].result = run[k].result
    BY ZenonT(60), <1>1, <1>4, <1>5
  <2> QED BY <1>1, <1>7, <2>1, <2>2, FinalizeStep
<1>9. \A k \in Keys :
        /\ run'[k].print = run[k].print /\ run'[k].pinned = run[k].pinned
        /\ run[k].lifecycle = "absent" => run'[k].lifecycle = "absent"
        /\ run[k].lifecycle \in Ended => run'[k].lifecycle \in Ended
        /\ run'[k].lifecycle \in Ended => run'[k].result \in ResultCodes
        /\ run'[k].owned => run'[k].lifecycle \in {"running", "finished"}
  BY <1>1, <1>3, <1>4, <1>5, <1>7
     DEF BookInv, RunsInv, EndedHasResult, OwnedIsClaimed, Ended, ResultCodes
<1>10. RowsAgree'
  BY <1>1, <1>6, <1>8, <1>9, RunsStep DEF BookInv, RowsOK
<1> QED BY <1>8, <1>10, InvParts

LEMMA ExpireInv ==
  ASSUME BookInv, NEW K \in SUBSET Keys, Expire(K)
  PROVE  BookInv' /\ Frozen
<1>1. /\ run \in [Keys -> RunRow] /\ \A k \in K : run[k].lifecycle = "queued"
      /\ run' = [k \in Keys |-> IF k \in K THEN Retired(run[k]) ELSE run[k]]
      /\ Finalize(K) /\ UNCHANGED <<expected, newest, local, head>>
  BY DEF Expire, BookInv, RowsOK
<1>2. ASSUME NEW k \in K
      PROVE  /\ k \in Keys /\ run'[k] \in RunRow /\ run'[k].lifecycle = "timed_out"
             /\ run'[k].result = "ERROR" /\ ~run'[k].owned
             /\ run'[k].print = run[k].print /\ run'[k].pinned = run[k].pinned
  BY <1>1 DEF Retired, RunRow, Lifecycles, ResultCodes
<1>3. \A k \in Keys : k \notin K => run'[k] = run[k]
  BY <1>1
<1>4. run' \in [Keys -> RunRow]
  BY <1>1, <1>2, <1>3
<1>5. /\ BooksAgree' /\ Frozen
      /\ \A m \in Matrices, j \in Jobs :
           cell[<<m, j>>].verdict = "absent" => cell'[<<m, j>>].verdict = "absent"
  <2>1. \A k \in K : /\ run[k].lifecycle \in {"queued", "running", "finished"}
                     /\ run'[k].lifecycle \in Ended /\ run'[k].result \in ResultCodes
    BY <1>1, <1>2 DEF Ended, ResultCodes
  <2> QED BY <1>1, <1>3, <2>1, FinalizeStep
<1>6. \A k \in Keys :
        /\ run'[k].print = run[k].print /\ run'[k].pinned = run[k].pinned
        /\ run[k].lifecycle = "absent" => run'[k].lifecycle = "absent"
        /\ run[k].lifecycle \in Ended => run'[k].lifecycle \in Ended
        /\ run'[k].lifecycle \in Ended => run'[k].result \in ResultCodes
        /\ run'[k].owned => run'[k].lifecycle \in {"running", "finished"}
  BY <1>1, <1>2, <1>3 DEF BookInv, RunsInv, EndedHasResult, OwnedIsClaimed, Ended, ResultCodes
<1>7. RowsAgree'
  BY <1>1, <1>4, <1>5, <1>6, RunsStep DEF BookInv, RowsOK
<1> QED BY <1>5, <1>7, InvParts

-----------------------------------------------------------------------------
(* Submitting, by whichever way. *)

LEMMA SourceFacts ==
  ASSUME head \in Commits
  PROVE  /\ ResolvesTo \subseteq Refs
         /\ \A refs \in SUBSET Refs : \A source \in Sources(refs) :
              /\ source \in [ref : Refs, pinned : BOOLEAN]
              /\ source.pinned => source.ref \in Commits
<1>1. Commits \subseteq Refs /\ Literal \in Refs
  BY RefFacts
<1>2. ResolvesTo \subseteq Refs
  BY <1>1 DEF ResolvesTo
<1>3. ASSUME NEW refs \in SUBSET Refs, NEW source \in Sources(refs)
      PROVE  /\ source \in [ref : Refs, pinned : BOOLEAN]
             /\ source.pinned => source.ref \in Commits
  <2>1. CASE source \in [ref : refs, pinned : {FALSE}]
    BY <2>1
  <2>2. CASE source \in [ref : Commits, pinned : {TRUE}]
    BY <2>2, <1>1
  <2> QED BY <1>3, <2>1, <2>2 DEF Sources
<1> QED BY <1>2, <1>3

\* A matrix run enqueues jobs and is done with some of those it had to do.
LEMMA SubmittedInv ==
  ASSUME BookInv, NEW m, NEW J, NEW cached, NEW source, NEW spot,
         Enqueued(m, J, cached, source, spot),
         local' \in [Matrices -> [up : BOOLEAN, todo : SUBSET Jobs]],
         \A n \in Matrices : local'[n].todo \subseteq local[n].todo,
         local'[m].todo \cap J = {}
  PROVE  BookInv' /\ Frozen
<1>1. /\ BooksAgree' /\ Frozen
      /\ run' \in [Keys -> RunRow] /\ RunsInv' /\ CacheHasEnded' /\ TestsExist'
      /\ expected' \in [Tests -> InForce \cup {"unborn"}]
      /\ \A k \in Keys : cell[k].verdict = "absent" /\ k \notin CellsOn(m, J) =>
                           cell'[k].verdict = "absent"
  BY EnqueueStep
<1>2. TodoHasNoCell'
  <2> SUFFICES ASSUME NEW n \in Matrices, NEW j \in local'[n].todo
               PROVE  cell'[<<n, j>>].verdict = "absent"
    BY DEF TodoHasNoCell
  <2>1. j \in local[n].todo /\ j \in Jobs /\ cell[<<n, j>>].verdict = "absent"
    BY DEF BookInv, LinksInv, TodoHasNoCell, RowsOK
  <2>2. <<n, j>> \in Keys /\ <<n, j>> \notin CellsOn(m, J)
    BY <2>1, KeyFacts DEF CellsOn
  <2> QED BY <2>1, <2>2, <1>1
<1>3. newest' \in [Jobs \X Refs -> Keys \cup {NoRun}] /\ head' \in Commits
  BY DEF Enqueued, BookInv, RowsOK
<1> QED BY <1>1, <1>2, <1>3, InvParts DEF RowsAgree, LinksInv

LEMMA SubmitMatrixInv ==
  ASSUME BookInv, NEW m \in Matrices, NEW J \in SUBSET Jobs, SubmitMatrix(m, J)
  PROVE  BookInv' /\ Frozen
<1>1. PICK cached \in BOOLEAN, source \in Sources(ResolvesTo) :
        EnqueueJobs(m, J, cached, source, FALSE)
  BY DEF SubmitMatrix
<1>2. /\ Fresh(m) /\ UNCHANGED <<newest, local, head>> /\ head \in Commits
      /\ local \in [Matrices -> [up : BOOLEAN, todo : SUBSET Jobs]]
  BY DEF SubmitMatrix, BookInv, RowsOK
<1>3. source \in [ref : Refs, pinned : BOOLEAN] /\ (source.pinned => source.ref \in Commits)
  BY <1>2, SourceFacts
<1>4. local[m].todo = {} /\ \A j \in J : cell[<<m, j>>].verdict = "absent"
  BY <1>2 DEF Fresh, CellsOf
<1>5. Enqueued(m, J, cached, source, FALSE)
  BY <1>1, <1>2, <1>3, <1>4 DEF Enqueued
<1> QED BY <1>2, <1>4, <1>5, SubmittedInv

LEMMA NextLocalInv ==
  ASSUME BookInv, NEW m \in Matrices, NEW j \in Jobs, NextLocal(m, j)
  PROVE  BookInv' /\ Frozen
<1>1. PICK cached \in BOOLEAN, source \in Sources({Literal}) :
        EnqueueJobs(m, {j}, cached, source, TRUE)
  BY DEF NextLocal
<1>2. /\ j \in local[m].todo /\ local' = [local EXCEPT ![m].todo = @ \ {j}]
      /\ UNCHANGED <<newest, head>> /\ head \in Commits
      /\ local \in [Matrices -> [up : BOOLEAN, todo : SUBSET Jobs]]
  BY DEF NextLocal, BookInv, RowsOK
<1>3. source \in [ref : Refs, pinned : BOOLEAN] /\ (source.pinned => source.ref \in Commits)
  BY <1>2, SourceFacts, RefFacts
<1>4. cell[<<m, j>>].verdict = "absent"
  BY <1>2 DEF BookInv, LinksInv, TodoHasNoCell
<1>5. Enqueued(m, {j}, cached, source, TRUE)
  BY <1>1, <1>2, <1>3, <1>4 DEF Enqueued
<1>6. /\ local' \in [Matrices -> [up : BOOLEAN, todo : SUBSET Jobs]]
      /\ \A n \in Matrices : local'[n].todo \subseteq local[n].todo
      /\ local'[m].todo \cap {j} = {}
  BY <1>2
<1> QED BY <1>5, <1>6, SubmittedInv
-----------------------------------------------------------------------------
(* Runs that belong to no matrix run, and what touches no row. *)

LEMMA SingleInv ==
  ASSUME BookInv, NEW s \in Singles, run[s].lifecycle = "absent",
         NEW row, GoodRow(row), row.lifecycle \in {"queued", "running"}, ~row.owned,
         run' = [run EXCEPT ![s] = row],
         NEW d \in Expectable \cup {"none"}, expected' = Stamped({JobOf[s]}, d),
         UNCHANGED <<cell, rollup, newest, local, head>>
  PROVE  BookInv' /\ Frozen
<1>1. s \in Keys /\ JobAt(s) = JobOf[s] /\ JobOf[s] \in Jobs /\ run \in [Keys -> RunRow]
  BY KeyFacts, ConstantsAssumption DEF BookInv, RowsOK
<1>2. /\ run' \in [Keys -> RunRow] /\ run'[s] = row /\ \A k \in Keys : k # s => run'[k] = run[k]
  BY <1>1 DEF GoodRow
<1>3. BooksAgree' /\ Frozen
  BY <1>2, NoRollUp, QuietStep
<1>4. RunsInv'
  BY <1>2 DEF BookInv, RunsInv, EndedHasResult, OwnedIsClaimed, PinnedHasCommit, GoodRow, Ended
<1>5. CacheHasEnded' /\ TodoHasNoCell'
  BY <1>2 DEF BookInv, RowsOK, LinksInv, CacheHasEnded, TodoHasNoCell, Ended
<1>6. /\ expected' \in [Tests -> InForce \cup {"unborn"}]
      /\ \A t \in Tests : expected[t] # "unborn" => expected'[t] = expected[t]
      /\ expected'[TestOf[JobOf[s]]] \in InForce
  BY <1>1, StampedLemma
<1>7. TestsExist'
  <2> SUFFICES ASSUME NEW k \in Keys, run'[k].lifecycle # "absent"
               PROVE  expected'[TestAt(k)] # "unborn"
    BY DEF TestsExist
  <2>1. CASE k = s
    <3>1. "unborn" \notin InForce
      BY ConstantsAssumption DEF InForce, ResultCodes
    <3> QED BY <2>1, <3>1, <1>1, <1>6, KeyFacts
  <2>2. CASE k # s
    BY <2>2, <1>2, <1>6, KeyFacts DEF BookInv, LinksInv, TestsExist
  <2> QED BY <2>1, <2>2
<1>8. RowsAgree'
  BY <1>2, <1>4, <1>5, <1>6, <1>7 DEF RowsAgree, LinksInv, BookInv, RowsOK
<1> QED BY <1>3, <1>8, InvParts

LEMMA SubmitSingleInv ==
  ASSUME BookInv, NEW s \in Singles, SubmitSingle(s)
  PROVE  BookInv' /\ Frozen
<1>1. head \in Commits /\ JobOf[s] \in Jobs
  BY ConstantsAssumption DEF BookInv, RowsOK
<1>2. PICK p \in {NoPrint} \cup {<<JobOf[s], ref>> : ref \in ResolvesTo} :
        run' = [run EXCEPT ![s] = NewRow(p, FALSE)]
  BY DEF SubmitSingle
<1>3. p \in (Jobs \X Refs) \cup {NoPrint}
  BY <1>1, <1>2, SourceFacts
<1>4. /\ GoodRow(NewRow(p, FALSE)) /\ NewRow(p, FALSE).lifecycle = "queued"
      /\ ~NewRow(p, FALSE).owned
  BY <1>3, NewRowLemma
<1>5. PICK d \in Expectable \cup {"none"} : expected' = Stamped({JobOf[s]}, d)
  BY DEF SubmitSingle
<1>6. run[s].lifecycle = "absent" /\ UNCHANGED <<cell, rollup, newest, local, head>>
  BY DEF SubmitSingle
<1> QED BY <1>2, <1>4, <1>5, <1>6, SingleInv

LEMMA RunLocalInv ==
  ASSUME BookInv, NEW s \in Singles, RunLocal(s)
  PROVE  BookInv' /\ Frozen
<1>1. head \in Commits
  BY DEF BookInv, RowsOK
<1>2. GoodRow(NewRow(NoPrint, FALSE)) /\ ~NewRow(NoPrint, FALSE).owned
  BY NewRowLemma
<1> DEFINE row == Executed(NewRow(NoPrint, FALSE))
<1>3. GoodRow(row) /\ row.lifecycle = "running" /\ ~row.owned
  BY <1>1, <1>2, ExecutedLemma
<1>4. PICK d \in Expectable \cup {"none"} : expected' = Stamped({JobOf[s]}, d)
  BY DEF RunLocal
<1>5. /\ run[s].lifecycle = "absent" /\ run' = [run EXCEPT ![s] = row]
      /\ UNCHANGED <<cell, rollup, newest, local, head>>
  BY DEF RunLocal
<1> HIDE DEF row
<1> QED BY <1>3, <1>4, <1>5, SingleInv

\* No row changes: an expectation, the branch or a local matrix run does.
LEMMA NoRowInv ==
  ASSUME BookInv, UNCHANGED <<run, cell, rollup, newest>>,
         expected' \in [Tests -> InForce \cup {"unborn"}],
         \A t \in Tests : expected[t] # "unborn" => expected'[t] # "unborn",
         local' \in [Matrices -> [up : BOOLEAN, todo : SUBSET Jobs]], head' \in Commits,
         \A m \in Matrices : \A j \in local'[m].todo : cell[<<m, j>>].verdict = "absent"
  PROVE  BookInv' /\ Frozen
<1>1. BooksAgree' /\ Frozen
  BY NoRollUp, QuietStep
<1>2. RunsInv' /\ CacheHasEnded' /\ TodoHasNoCell'
  BY DEF BookInv, RunsInv, EndedHasResult, OwnedIsClaimed, PinnedHasCommit, LinksInv,
         CacheHasEnded, TodoHasNoCell
<1>3. TestsExist'
  BY KeyFacts DEF BookInv, LinksInv, TestsExist
<1>4. RowsAgree'
  BY <1>2, <1>3 DEF RowsAgree, LinksInv, BookInv, RowsOK
<1> QED BY <1>1, <1>4, InvParts

LEMMA ExpectationInv ==
  ASSUME BookInv, NEW t \in Tests, SetExpectation(t)
  PROVE  BookInv' /\ Frozen
<1>1. PICK e \in Expectable \cup {"retracted"} : expected' = [expected EXCEPT ![t] = e]
  BY DEF SetExpectation
<1>2. e \in InForce /\ e # "unborn"
  BY ConstantsAssumption DEF InForce, ResultCodes
<1>3. UNCHANGED <<run, cell, rollup, newest, local, head>>
  BY DEF SetExpectation
<1> QED BY <1>1, <1>2, <1>3, NoRowInv DEF BookInv, RowsOK, LinksInv, TodoHasNoCell

LEMMA PushInv ==
  ASSUME BookInv, Push
  PROVE  BookInv' /\ Frozen
<1>1. head' \in Commits
  BY DEF Push
<1> QED BY <1>1, NoRowInv DEF Push, BookInv, RowsOK, LinksInv, TodoHasNoCell

LEMMA StartLocalInv ==
  ASSUME BookInv, NEW m \in Matrices, NEW J \in SUBSET Jobs, StartLocal(m, J)
  PROVE  BookInv' /\ Frozen
<1>1. /\ local' = [local EXCEPT ![m] = [up |-> TRUE, todo |-> J]]
      /\ local' \in [Matrices -> [up : BOOLEAN, todo : SUBSET Jobs]]
      /\ UNCHANGED <<run, cell, expected, rollup, newest, head>>
  BY DEF StartLocal, BookInv, RowsOK
<1>2. \A j \in J : cell[<<m, j>>].verdict = "absent"
  BY DEF StartLocal, Fresh, CellsOf
<1>3. \A n \in Matrices : \A j \in local'[n].todo : cell[<<n, j>>].verdict = "absent"
  BY <1>1, <1>2 DEF BookInv, RowsOK, LinksInv, TodoHasNoCell
<1> QED BY <1>1, <1>3, NoRowInv DEF BookInv, RowsOK

LEMMA KillLocalInv ==
  ASSUME BookInv, NEW m \in Matrices, KillLocal(m)
  PROVE  BookInv' /\ Frozen
<1>1. /\ local' = [local EXCEPT ![m].up = FALSE]
      /\ local' \in [Matrices -> [up : BOOLEAN, todo : SUBSET Jobs]]
      /\ \A n \in Matrices : local'[n].todo = local[n].todo
      /\ UNCHANGED <<run, cell, expected, rollup, newest, head>>
  BY DEF KillLocal, BookInv, RowsOK
<1> QED BY <1>1, NoRowInv DEF BookInv, RowsOK, LinksInv, TodoHasNoCell

-----------------------------------------------------------------------------
LEMMA NextInv ==
  ASSUME BookInv, Next
  PROVE  BookInv' /\ Frozen
<1>1. ASSUME NEW m \in Matrices, MatrixStep(m)
      PROVE  BookInv' /\ Frozen
  <2>1. CASE \E J \in SUBSET Jobs : SubmitMatrix(m, J) \/ StartLocal(m, J)
    BY <2>1, SubmitMatrixInv, StartLocalInv
  <2>2. CASE \E j \in Jobs : NextLocal(m, j)
    BY <2>2, NextLocalInv
  <2>3. CASE CancelMatrix(m) \/ KillLocal(m)
    BY <2>3, CancelMatrixInv, KillLocalInv
  <2> QED BY <1>1, <2>1, <2>2, <2>3 DEF MatrixStep
<1>2. ASSUME NEW k \in Keys, RunStep(k)
      PROVE  BookInv' /\ Frozen
  <2>1. CASE Claim(k) \/ CancelRun(k)
    BY <2>1, ClaimInv, CancelRunInv
  <2>2. ASSUME NEW c \in Outcomes, Report(k, c)
        PROVE  BookInv' /\ Frozen
    <3>1. run[k].lifecycle \in {"running", "finished"} /\ Finish(k, c)
      BY <2>2 DEF Report, BookInv, RunsInv, OwnedIsClaimed
    <3> QED BY <3>1, FinishInv
  <2>3. ASSUME NEW c \in Outcomes, FinishLocal(k, c)
        PROVE  BookInv' /\ Frozen
    BY <2>3, FinishInv DEF FinishLocal
  <2> QED BY <1>2, <2>1, <2>2, <2>3 DEF RunStep
<1>3. ASSUME NEW K \in SUBSET Keys, Reclaim(K) \/ Expire(K)
      PROVE  BookInv' /\ Frozen
  BY <1>3, ReclaimInv, ExpireInv
<1>4. ASSUME NEW s \in Singles, SubmitSingle(s) \/ RunLocal(s)
      PROVE  BookInv' /\ Frozen
  BY <1>4, SubmitSingleInv, RunLocalInv
<1>5. ASSUME NEW t \in Tests, SetExpectation(t)
      PROVE  BookInv' /\ Frozen
  BY <1>5, ExpectationInv
<1>6. CASE Push
  BY <1>6, PushInv
<1> QED BY <1>1, <1>2, <1>3, <1>4, <1>5, <1>6 DEF Next, BookStep

LEMMA StutterInv ==
  ASSUME BookInv, UNCHANGED vars
  PROVE  BookInv' /\ Frozen
<1>1. UNCHANGED <<run, cell, expected, rollup, newest, local, head>>
  BY DEF vars
<1> QED BY <1>1, NoRowInv DEF BookInv, RowsOK, LinksInv, TodoHasNoCell

\* The inductive invariant holds in every state that the books can reach.
THEOREM BooksInvariant == Spec => []BookInv
<1>1. Init => BookInv
  BY InitInv
<1>2. BookInv /\ [Next]_vars => BookInv'
  BY NextInv, StutterInv
<1> QED BY <1>1, <1>2, PTL DEF Spec

\* The tables keep their types.
THEOREM BooksTypeCorrect == Spec => []TypeOK
<1>1. Init => moved \subseteq Keys
  BY DEF Init
<1>2. moved \subseteq Keys /\ [Next]_vars => (moved \subseteq Keys)'
  BY DEF Next, Push, vars
<1>3. BookInv /\ moved \subseteq Keys => TypeOK
  BY DEF BookInv, TypeOK
<1> QED BY <1>1, <1>2, <1>3, BooksInvariant, PTL DEF Spec

\* The stored roll-up of every matrix run is what its cells and their runs say,
\* whoever finished, retired or cancelled them (recompute_matrix_rollup).
THEOREM RollupStaysCurrent == Spec => []RollupIsCurrent
<1>1. BookInv => RollupIsCurrent
  BY DEF BookInv, CellsInv, RollupsCurrent, Current, RollupIsCurrent
<1> QED BY <1>1, BooksInvariant, PTL

\* A verdict is there exactly when its run has an outcome (finalize_run).
THEOREM EndedIsGraded == Spec => []GradedExactlyWhenEnded
<1>1. BookInv => GradedExactlyWhenEnded
  BY DEF BookInv, CellsInv
<1> QED BY <1>1, BooksInvariant, PTL

\* No step of anybody changes a cell whose verdict is recorded.
THEOREM VerdictsNeverChange == Spec => VerdictsAreFrozen
<1>1. BookInv /\ [Next]_vars =>
        [\A k \in Keys : cell[k].verdict \in Verdicts => cell'[k] = cell[k]]_vars
  BY NextInv, StutterInv DEF Frozen
<1> QED BY <1>1, BooksInvariant, PTL DEF Spec, VerdictsAreFrozen

-----------------------------------------------------------------------------
(* What a step may do to cells and runs. *)

OutcomesStand ==
  \A k \in Keys : run[k].lifecycle \in Ended => run'[k].result = run[k].result

\* A cell is as it was, or graded by what its run and its expectation are now.
GradedNow ==
  \A k \in Keys :
    \/ cell'[k] = cell[k]
    \/ cell'[k].verdict \notin Verdicts
    \/ cell'[k].verdict = Graded(run'[cell'[k].run].result, cell'[k].expected)

CellsStand ==
  \A k \in Keys : cell[k].verdict # "absent" =>
                    cell'[k].verdict # "absent" /\ cell'[k].run = cell[k].run

CancelsStand ==
  \A k \in Keys : /\ run[k].lifecycle = "cancelled" => run'[k].lifecycle = "cancelled"
                  /\ run'[k].lifecycle = "cancelled" => run[k].lifecycle # "absent"

NoNewCells(m) ==
  \A j \in Jobs : cell[<<m, j>>].verdict = "absent" => cell'[<<m, j>>].verdict = "absent"

\* Cells are added to a matrix run at once, unless a local process adds them.
CellsAreAddedOnce ==
  \A m \in Matrices : CellsOf(cell, m) = {} \/ local[m].up \/ NoNewCells(m)

LocalIsUsed ==
  \A m \in Matrices : local'[m].up => local[m].up \/ "local matrix" \in Uses

OrderlyStep ==
  /\ "stale results" \notin Uses => OutcomesStand
  /\ GradedNow /\ CellsStand /\ CancelsStand /\ CellsAreAddedOnce /\ LocalIsUsed

LEMMA FinalizeOrderly ==
  ASSUME BookInv, NEW K \in SUBSET Keys, Finalize(K), \A k \in K : run[k].lifecycle # "absent"
  PROVE  GradedNow /\ CellsStand /\ CellsAreAddedOnce
<1>1. ASSUME NEW k \in Keys, cell'[k] # cell[k]
      PROVE  /\ cell'[k].verdict = Graded(run'[cell'[k].run].result, cell'[k].expected)
             /\ cell'[k].run = cell[k].run /\ cell[k].run \in K
             /\ cell'[k].verdict # "absent" /\ cell[k].verdict \in Unrecorded
  <2> DEFINE e == expected[TestAt(k)]
             g == Graded(run'[cell[k].run].result, e)
  <2>1. /\ cell'[k] = [cell[k] EXCEPT !.expected = e, !.verdict = g] /\ cell[k] \in CellRow
        /\ cell[k].run \in K /\ cell[k].verdict \in Unrecorded
    BY <1>1, CellLemma DEF Finalize, SettledBy
  <2>2. g # "absent"
    BY DEF Graded
  <2> HIDE DEF e, g
  <2>3. cell'[k].run = cell[k].run /\ cell'[k].expected = e /\ cell'[k].verdict = g
    BY <2>1 DEF CellRow
  <2> QED BY <2>1, <2>2, <2>3 DEF e, g
<1>2. ASSUME NEW m \in Matrices, NEW j \in Jobs, cell[<<m, j>>].verdict = "absent"
      PROVE  cell'[<<m, j>>] = cell[<<m, j>>]
  <2>1. <<m, j>> \in Keys /\ run[<<m, j>>].lifecycle = "absent" /\ cell[<<m, j>>].run = <<m, j>>
    BY <1>2, KeyFacts, CellLemma DEF Unrecorded
  <2> QED BY <2>1, <1>1
<1> QED BY <1>1, <1>2 DEF GradedNow, CellsStand, CellsAreAddedOnce, NoNewCells

LEMMA EnqueueOrderly ==
  ASSUME BookInv, NEW m, NEW J, NEW cached, NEW source, NEW spot,
         Enqueued(m, J, cached, source, spot)
  PROVE  /\ OutcomesStand /\ GradedNow /\ CellsStand /\ CancelsStand
         /\ \A n \in Matrices : n # m => NoNewCells(n)
<1> DEFINE hits == {j \in J : cached /\ newest[<<j, source.ref>>] # NoRun}
           made == {<<m, j>> : j \in J \ hits}
           used == {<<m, j>> : j \in hits}
           old(k) == newest[<<JobAt(k), source.ref>>]
           e(k) == expected'[TestAt(k)]
           queued(k) == IF cached THEN NewRow(<<JobAt(k), source.ref>>, source.pinned)
                        ELSE NewRow(NoPrint, FALSE)
           fresh(k) == IF spot THEN Executed(queued(k)) ELSE queued(k)
<1>1. /\ \A k \in Keys : k \in made => cell'[k] = [cell[k] EXCEPT !.verdict = "pending"]
      /\ \A k \in Keys : k \notin made /\ k \in used =>
           cell'[k] = [run |-> old(k), expected |-> e(k), hit |-> TRUE,
                       verdict |-> Graded(run[old(k)].result, e(k))]
      /\ \A k \in Keys : k \notin made /\ k \notin used => cell'[k] = cell[k]
      /\ \A k \in Keys : k \notin made => run'[k] = run[k]
  BY DEF Enqueued, EnqueueJobs
<1>2. ASSUME NEW k \in made \cup used
      PROVE  k \in Keys /\ cell[k].verdict = "absent" /\ run[k].lifecycle = "absent"
  <2>1. PICK j \in J : k = <<m, j>>
    OBVIOUS
  <2>2. m \in Matrices /\ j \in Jobs /\ cell[<<m, j>>].verdict = "absent"
    BY <2>1 DEF Enqueued
  <2> QED BY <2>1, <2>2, KeyFacts, CellLemma
<1>3. OutcomesStand
  BY <1>1, <1>2 DEF OutcomesStand, Ended
<1>4. ASSUME NEW k \in Keys, k \in used, k \notin made
      PROVE  run'[old(k)] = run[old(k)]
  <2>1. PICK j \in hits : k = <<m, j>>
    BY <1>4
  <2>2. JobAt(k) = j /\ <<j, source.ref>> \in Jobs \X Refs /\ newest[<<j, source.ref>>] # NoRun
    BY <2>1, KeyFacts DEF Enqueued
  <2>3. old(k) \in Keys /\ run[old(k)].lifecycle \in Ended
    BY <2>2 DEF BookInv, RowsOK, LinksInv, CacheHasEnded
  <2> QED BY <2>3, <1>1, <1>2 DEF Ended
<1>5. ASSUME NEW k \in made
      PROVE  run'[k].lifecycle \in {"queued", "running"}
  <2>1. run'[k] = fresh(k)
    BY <1>2 DEF Enqueued, EnqueueJobs
  <2>2. \A p, pinned : NewRow(p, pinned).lifecycle = "queued"
    BY DEF NewRow, NoRow
  <2>3. \A p, pinned : Executed(NewRow(p, pinned)).lifecycle = "running"
    BY DEF Executed, NewRow, NoRow
  <2>4. queued(k).lifecycle = "queued" /\ Executed(queued(k)).lifecycle = "running"
    BY <2>2, <2>3
  <2> HIDE DEF queued
  <2> QED BY <2>1, <2>4
<1>6. \A n \in Matrices : n # m => \A j \in Jobs : <<n, j>> \notin made /\ <<n, j>> \notin used
  OBVIOUS
<1> HIDE DEF made, used, old, e, queued, fresh
<1>7. ASSUME NEW k \in Keys
      PROVE  \/ cell'[k] = cell[k]
             \/ cell'[k].verdict \notin Verdicts
             \/ cell'[k].verdict = Graded(run'[cell'[k].run].result, cell'[k].expected)
  <2>1. CASE k \in made
    <3>1. cell[k] \in CellRow /\ cell'[k] = [cell[k] EXCEPT !.verdict = "pending"]
      BY <2>1, <1>1, CellLemma
    <3> QED BY <3>1 DEF CellRow, Verdicts
  <2>2. CASE k \notin made /\ k \in used
    <3>1. cell'[k] = [run |-> old(k), expected |-> e(k), hit |-> TRUE,
                      verdict |-> Graded(run[old(k)].result, e(k))]
      BY <2>2, <1>1
    <3>2. /\ cell'[k].run = old(k) /\ cell'[k].expected = e(k)
          /\ cell'[k].verdict = Graded(run[old(k)].result, e(k))
      BY <3>1
    <3>3. run'[old(k)] = run[old(k)]
      BY <2>2, <1>4
    <3> QED BY <3>2, <3>3
  <2>3. CASE k \notin made /\ k \notin used
    BY <2>3, <1>1
  <2> QED BY <2>1, <2>2, <2>3
<1>8. CellsStand
  BY <1>1, <1>2 DEF CellsStand
<1>9. CancelsStand
  <2> SUFFICES ASSUME NEW k \in Keys
               PROVE  /\ run[k].lifecycle = "cancelled" => run'[k].lifecycle = "cancelled"
                      /\ run'[k].lifecycle = "cancelled" => run[k].lifecycle # "absent"
    BY DEF CancelsStand
  <2>1. CASE k \in made
    BY <2>1, <1>2, <1>5
  <2>2. CASE k \notin made
    BY <2>2, <1>1
  <2> QED BY <2>1, <2>2
<1>10. \A n \in Matrices : n # m => NoNewCells(n)
  BY <1>1, <1>6, KeyFacts DEF NoNewCells
<1> QED BY <1>3, <1>7, <1>8, <1>9, <1>10 DEF GradedNow

LEMMA NextOrderly ==
  ASSUME BookInv, [Next]_vars
  PROVE  OrderlyStep
<1>1. ASSUME NEW m \in Matrices, NEW J \in SUBSET Jobs, SubmitMatrix(m, J)
      PROVE  OrderlyStep
  <2>1. PICK cached \in BOOLEAN, source \in Sources(ResolvesTo) :
          EnqueueJobs(m, J, cached, source, FALSE)
    BY <1>1 DEF SubmitMatrix
  <2>2. /\ head \in Commits /\ CellsOf(cell, m) = {}
        /\ \A j \in J : cell[<<m, j>>].verdict = "absent"
        /\ UNCHANGED <<newest, local, head>>
    BY <1>1 DEF SubmitMatrix, Fresh, CellsOf, BookInv, RowsOK
  <2>3. source \in [ref : Refs, pinned : BOOLEAN] /\ (source.pinned => source.ref \in Commits)
    BY <2>2, SourceFacts
  <2>4. Enqueued(m, J, cached, source, FALSE)
    BY <2>1, <2>2, <2>3 DEF Enqueued
  <2>5. LocalIsUsed
    BY <2>2 DEF LocalIsUsed
  <2> QED BY <2>2, <2>4, <2>5, EnqueueOrderly DEF OrderlyStep, CellsAreAddedOnce
<1>2. ASSUME NEW m \in Matrices, NEW j \in Jobs, NextLocal(m, j)
      PROVE  OrderlyStep
  <2>1. PICK cached \in BOOLEAN, source \in Sources({Literal}) :
          EnqueueJobs(m, {j}, cached, source, TRUE)
    BY <1>2 DEF NextLocal
  <2>2. /\ head \in Commits /\ cell[<<m, j>>].verdict = "absent" /\ local[m].up
        /\ UNCHANGED <<newest, head>> /\ local' = [local EXCEPT ![m].todo = @ \ {j}]
        /\ local \in [Matrices -> [up : BOOLEAN, todo : SUBSET Jobs]]
    BY <1>2 DEF NextLocal, BookInv, RowsOK, LinksInv, TodoHasNoCell
  <2>3. source \in [ref : Refs, pinned : BOOLEAN] /\ (source.pinned => source.ref \in Commits)
    BY <2>2, SourceFacts, RefFacts
  <2>4. Enqueued(m, {j}, cached, source, TRUE)
    BY <2>1, <2>2, <2>3 DEF Enqueued
  <2>5. LocalIsUsed
    BY <2>2 DEF LocalIsUsed
  <2> QED BY <2>2, <2>4, <2>5, EnqueueOrderly DEF OrderlyStep, CellsAreAddedOnce
<1>3. ASSUME NEW K \in SUBSET Keys, Finalize(K), \A k \in K : run[k].lifecycle # "absent",
             CancelsStand, "stale results" \notin Uses => OutcomesStand, UNCHANGED local
      PROVE  OrderlyStep
  BY <1>3, FinalizeOrderly DEF OrderlyStep, LocalIsUsed
<1>4. ASSUME NEW k \in Keys, NEW c \in Outcomes, Report(k, c) \/ FinishLocal(k, c)
      PROVE  OrderlyStep
  <2>1. /\ Finalize({k}) /\ run' = [run EXCEPT ![k].lifecycle = "finished", ![k].result = c]
        /\ run \in [Keys -> RunRow] /\ UNCHANGED local
    BY <1>4 DEF Report, FinishLocal, Finish, BookInv, RowsOK
  <2>2. /\ "stale results" \notin Uses /\ run[k].lifecycle \in Ended => c = run[k].result
        /\ run[k].lifecycle \in {"running", "finished"}
    BY <1>4 DEF Report, FinishLocal, BookInv, RunsInv, OwnedIsClaimed, Ended
  <2>3. /\ run'[k] = [run[k] EXCEPT !.lifecycle = "finished", !.result = c] /\ run[k] \in RunRow
        /\ \A i \in Keys : i # k => run'[i] = run[i]
    BY <2>1
  <2>4. run'[k].result = c /\ run'[k].lifecycle = "finished"
    BY <2>3 DEF RunRow
  <2>5. CancelsStand /\ ("stale results" \notin Uses => OutcomesStand)
    BY <2>2, <2>3, <2>4 DEF CancelsStand, OutcomesStand
  <2> QED BY <2>1, <2>2, <2>5, <1>3
<1>5. ASSUME NEW K \in SUBSET Keys, Reclaim(K)
      PROVE  OrderlyStep
  <2> DEFINE spent == {k \in K : run[k].reclaims >= MaxReclaims}
             Counted(k) == [run[k] EXCEPT !.reclaims = @ + 1]
  <2>1. /\ run \in [Keys -> RunRow] /\ \A k \in K : run[k].lifecycle = "running"
        /\ run' = [k \in Keys |->
             IF k \in spent THEN Retired(Counted(k))
             ELSE IF k \in K THEN [Counted(k) EXCEPT !.lifecycle = "queued", !.owned = FALSE]
             ELSE run[k]]
        /\ Finalize(spent) /\ UNCHANGED local
    BY <1>5 DEF Reclaim, BookInv, RowsOK
  <2>2. \A k \in Keys \ K : run'[k] = run[k]
    BY <2>1
  <2>3. \A k \in K : run'[k].lifecycle \in {"timed_out", "queued"}
    <3> SUFFICES ASSUME NEW k \in K
                 PROVE  run'[k].lifecycle \in {"timed_out", "queued"}
      OBVIOUS
    <3>1. run[k] \in RunRow
      BY <2>1
    <3>2. Counted(k) = [run[k] EXCEPT !.reclaims = run[k].reclaims + 1]
      OBVIOUS
    <3>3. /\ Retired(Counted(k)).lifecycle = "timed_out"
          /\ [Counted(k) EXCEPT !.lifecycle = "queued", !.owned = FALSE].lifecycle = "queued"
      BY <3>1, <3>2 DEF Retired, RunRow
    <3>4. run'[k] \in {Retired(Counted(k)), [Counted(k) EXCEPT !.lifecycle = "queued", !.owned = FALSE]}
      BY <2>1
    <3> HIDE DEF Counted
    <3> QED BY <3>3, <3>4
  <2>4. CancelsStand /\ OutcomesStand
    BY <2>1, <2>2, <2>3 DEF CancelsStand, OutcomesStand, Ended
  <2> QED BY <2>1, <2>4, <1>3
<1>6. ASSUME NEW K \in SUBSET Keys, Expire(K)
      PROVE  OrderlyStep
  <2>1. /\ run \in [Keys -> RunRow] /\ \A k \in K : run[k].lifecycle = "queued"
        /\ \A k \in K : run'[k] = Retired(run[k])
        /\ \A k \in Keys \ K : run'[k] = run[k]
        /\ Finalize(K) /\ UNCHANGED local
    BY <1>6 DEF Expire, BookInv, RowsOK
  <2>2. ASSUME NEW k \in K
        PROVE  run'[k].lifecycle = "timed_out"
    <3>1. run[k] \in RunRow /\ run'[k] = Retired(run[k])
      BY <2>1
    <3> QED BY <3>1 DEF Retired, RunRow
  <2>3. CancelsStand /\ OutcomesStand
    BY <2>1, <2>2 DEF CancelsStand, OutcomesStand, Ended
  <2> QED BY <2>1, <2>3, <1>3
<1>7. ASSUME UNCHANGED cell, CancelsStand, OutcomesStand, LocalIsUsed
      PROVE  OrderlyStep
  BY <1>7 DEF OrderlyStep, GradedNow, CellsStand, CellsAreAddedOnce, NoNewCells
<1>8. ASSUME NEW k \in Keys, Claim(k)
      PROVE  OrderlyStep
  <2>1. /\ run \in [Keys -> RunRow] /\ run[k].lifecycle = "queued" /\ UNCHANGED <<cell, local>>
        /\ run' = [run EXCEPT ![k] = [Executed(run[k]) EXCEPT !.owned = TRUE]]
    BY <1>8 DEF Claim, BookInv, RowsOK
  <2>2. /\ run'[k] = [Executed(run[k]) EXCEPT !.owned = TRUE] /\ run[k] \in RunRow
        /\ \A i \in Keys : i # k => run'[i] = run[i]
    BY <2>1
  <2>3. run'[k].lifecycle = "running"
    BY <2>2 DEF Executed, RunRow
  <2>4. CancelsStand /\ OutcomesStand /\ LocalIsUsed
    BY <2>1, <2>2, <2>3 DEF CancelsStand, OutcomesStand, LocalIsUsed, Ended
  <2> QED BY <2>1, <2>4, <1>7
<1>9. ASSUME NEW K \in SUBSET Keys, run' = Cancelled(K), \A k \in K : run[k].lifecycle = "queued",
             UNCHANGED <<cell, local>>
      PROVE  OrderlyStep
  <2>1. /\ \A k \in K : run'[k] = [run[k] EXCEPT !.lifecycle = "cancelled"] /\ run[k] \in RunRow
        /\ \A k \in Keys \ K : run'[k] = run[k]
    BY <1>9 DEF Cancelled, BookInv, RowsOK
  <2>2. \A k \in K : run'[k].lifecycle = "cancelled"
    BY <2>1 DEF RunRow
  <2>3. CancelsStand /\ OutcomesStand /\ LocalIsUsed
    BY <1>9, <2>1, <2>2 DEF CancelsStand, OutcomesStand, LocalIsUsed, Ended
  <2> QED BY <1>9, <2>3, <1>7
<1>10. ASSUME NEW k \in Keys, CancelRun(k)
       PROVE  OrderlyStep
  <2>1. run' = Cancelled({k}) /\ run[k].lifecycle = "queued" /\ UNCHANGED <<cell, local>>
    BY <1>10 DEF CancelRun
  <2> QED BY <2>1, <1>9
<1>11. ASSUME NEW m \in Matrices, CancelMatrix(m)
       PROVE  OrderlyStep
  <2> DEFINE queued == {k \in {m} \X Jobs : run[k].lifecycle = "queued"}
  <2>1. run' = Cancelled(queued) /\ queued \in SUBSET Keys /\ UNCHANGED <<cell, local>>
    BY <1>11 DEF CancelMatrix, Keys
  <2> QED BY <2>1, <1>9
<1>12. ASSUME NEW s \in Singles, run[s].lifecycle = "absent",
              run'[s].lifecycle \in {"queued", "running"},
              \A k \in Keys : k # s => run'[k] = run[k], UNCHANGED <<cell, local>>
       PROVE  OrderlyStep
  <2>1. CancelsStand /\ OutcomesStand /\ LocalIsUsed
    BY <1>12, KeyFacts DEF CancelsStand, OutcomesStand, LocalIsUsed, Ended
  <2> QED BY <1>12, <2>1, <1>7
<1>13. ASSUME NEW s \in Singles, SubmitSingle(s) \/ RunLocal(s)
       PROVE  OrderlyStep
  <2>1. \A p : NewRow(p, FALSE).lifecycle = "queued" /\ Executed(NewRow(p, FALSE)).lifecycle = "running"
    BY DEF NewRow, NoRow, Executed
  <2>2. s \in Keys /\ run \in [Keys -> RunRow]
    BY KeyFacts DEF BookInv, RowsOK
  <2>3. run[s].lifecycle = "absent" /\ UNCHANGED <<cell, local>>
    BY <1>13 DEF SubmitSingle, RunLocal
  <2>4. CASE SubmitSingle(s)
    <3>1. PICK p : run' = [run EXCEPT ![s] = NewRow(p, FALSE)]
      BY <2>4 DEF SubmitSingle
    <3>2. /\ run'[s].lifecycle \in {"queued", "running"}
          /\ \A k \in Keys : k # s => run'[k] = run[k]
      BY <2>1, <2>2, <3>1
    <3> QED BY <2>3, <3>2, <1>12
  <2>5. CASE RunLocal(s)
    <3>1. run' = [run EXCEPT ![s] = Executed(NewRow(NoPrint, FALSE))]
      BY <2>5 DEF RunLocal
    <3>2. /\ run'[s].lifecycle \in {"queued", "running"}
          /\ \A k \in Keys : k # s => run'[k] = run[k]
      BY <2>1, <2>2, <3>1
    <3> QED BY <2>3, <3>2, <1>12
  <2> QED BY <1>13, <2>4, <2>5
<1>14. ASSUME UNCHANGED <<run, cell>>, LocalIsUsed
       PROVE  OrderlyStep
  BY <1>14, <1>7 DEF CancelsStand, OutcomesStand
<1>15. ASSUME NEW m \in Matrices, KillLocal(m) \/ \E J \in SUBSET Jobs : StartLocal(m, J)
       PROVE  OrderlyStep
  BY <1>15, <1>14 DEF KillLocal, StartLocal, LocalIsUsed, BookInv, RowsOK
<1>16. ASSUME (\E t \in Tests : SetExpectation(t)) \/ Push \/ UNCHANGED vars
       PROVE  OrderlyStep
  BY <1>16, <1>14 DEF SetExpectation, Push, vars, LocalIsUsed
<1> QED BY <1>1, <1>2, <1>4, <1>5, <1>6, <1>8, <1>10, <1>11, <1>13, <1>15, <1>16
        DEF Next, BookStep, MatrixStep, RunStep

\* A verdict says what comparing its run's outcome with the expectation it pins
\* says, if no worker reports on an attempt it had lost.
THEOREM VerdictsStayTrue ==
  ASSUME "stale results" \notin Uses
  PROVE  Spec => []VerdictsAreTrue
<1>1. Init => VerdictsAreTrue
  <2>1. \A k \in Keys : NoCell(k).verdict = "absent"
    BY DEF NoCell
  <2> QED BY <2>1 DEF Init, VerdictsAreTrue, Verdicts
<1>2. BookInv /\ VerdictsAreTrue /\ [Next]_vars => VerdictsAreTrue'
  <2> SUFFICES ASSUME BookInv, VerdictsAreTrue, [Next]_vars,
                      NEW k \in Keys, cell'[k].verdict \in Verdicts
               PROVE  cell'[k].verdict = Graded(run'[cell'[k].run].result, cell'[k].expected)
    BY DEF VerdictsAreTrue
  <2>1. OutcomesStand /\ GradedNow
    BY NextOrderly DEF OrderlyStep
  <2>2. CASE cell'[k] = cell[k]
    <3>1. cell[k].run \in Keys /\ run[cell[k].run].lifecycle \in Ended
      BY <2>2, CellLemma
    <3>2. run'[cell[k].run].result = run[cell[k].run].result
      BY <2>1, <3>1 DEF OutcomesStand
    <3> QED BY <2>2, <3>2 DEF VerdictsAreTrue
  <2> QED BY <2>1, <2>2 DEF GradedNow
<1> QED BY <1>1, <1>2, BooksInvariant, PTL DEF Spec

-----------------------------------------------------------------------------
(* Where no run is cancelled by itself and `opp_ci run-matrix` is not used, the *)
(* books implement MatrixLife.                                                 *)

Answers(m) == [j \in Jobs |-> Answer(m, j)]

AnswersAreStored ==
  \A m \in Matrices : /\ Answers(m) \in [Jobs -> {"none", "pending"} \cup Life!Settled]
                      /\ rollup[m].verdict = Life!RolledUp(Answers(m))
                      /\ rollup[m].completed = Life!AllSettled(Answers(m))

NoLocal == \A m \in Matrices : ~local[m].up

\* What the answer for a job says about its cell.
LEMMA AnswerLemma ==
  ASSUME BookInv, NEW m \in Matrices, NEW j \in Jobs
  PROVE  /\ Answer(m, j) \in {"none", "pending"} \cup Life!Settled
         /\ Answer(m, j) = "none" <=> cell[<<m, j>>].verdict = "absent"
         /\ \A v \in Verdicts : Answer(m, j) = v <=> cell[<<m, j>>].verdict = v
         /\ cell[<<m, j>>].verdict \in Verdicts => run[cell[<<m, j>>].run].lifecycle \in Ended
         /\ Answer(m, j) = "pending" <=>
              /\ cell[<<m, j>>].verdict = "pending"
              /\ run[cell[<<m, j>>].run].lifecycle \notin Terminal
         /\ Answer(m, j) = "withdrawn" <=>
              /\ cell[<<m, j>>].verdict = "pending"
              /\ run[cell[<<m, j>>].run].lifecycle = "cancelled"
<1>1. <<m, j>> \in Keys
  BY KeyFacts
<1>2. cell[<<m, j>>].verdict \in Verdicts \cup {"absent", "pending"}
  BY <1>1, CellLemma DEF Unrecorded
<1>3. cell[<<m, j>>].verdict = "pending" =>
        run[cell[<<m, j>>].run].lifecycle \in {"queued", "running", "cancelled"}
  BY <1>1, CellLemma DEF Unrecorded
<1>4. cell[<<m, j>>].verdict \in Verdicts => run[cell[<<m, j>>].run].lifecycle \in Ended
  BY <1>1, CellLemma
<1> QED BY <1>2, <1>3, <1>4 DEF Answer, Verdicts, Terminal, Life!Settled, Life!Grades

LEMMA CellsInLemma ==
  ASSUME BookInv, NEW m \in Matrices
  PROVE  Life!CellsIn(Answers(m)) = CellsOf(cell, m)
<1>1. \A j \in Jobs : Answers(m)[j] = Answer(m, j)
  BY DEF Answers
<1> QED BY <1>1, AnswerLemma DEF Life!CellsIn, CellsOf

LEMMA StoredLemma ==
  ASSUME BookInv, "cancel run" \notin Uses, NEW m \in Matrices
  PROVE  /\ rollup[m].verdict = Life!RolledUp(Answers(m))
         /\ rollup[m].completed = Life!AllSettled(Answers(m))
<1> DEFINE cells == CellsOf(cell, m)
           judged(v) == Cardinality({j \in cells : cell[<<m, j>>].verdict = v})
           now == Tally(run, cell, m)
<1>1. cells \in SUBSET Jobs /\ IsFiniteSet(cells)
  BY ConstantsAssumption, FS_Subset DEF CellsOf
<1>2. \A j \in Jobs : Answers(m)[j] = Answer(m, j)
  BY DEF Answers
<1>3. Life!CellsIn(Answers(m)) = cells
  BY CellsInLemma
<1>4. ASSUME NEW v \in Verdicts
      PROVE  judged(v) > 0 <=> \E j \in Jobs : Answers(m)[j] = v
  <2> DEFINE S == {j \in cells : cell[<<m, j>>].verdict = v}
  <2>1. S = {j \in Jobs : Answers(m)[j] = v}
    BY <1>2, AnswerLemma DEF CellsOf, Verdicts
  <2>2. S \in SUBSET cells
    OBVIOUS
  <2> HIDE DEF S, cells
  <2>3. Cardinality(S) > 0 <=> S # {}
    BY <1>1, <2>2, FS_Subset, CountPositive
  <2>4. S # {} <=> \E j \in Jobs : Answers(m)[j] = v
    BY <2>1
  <2> QED BY <2>3, <2>4 DEF S
<1>5. Cardinality(cells) > 0 /\ judged("EXPECTED") = Cardinality(cells) <=>
        cells # {} /\ \A j \in cells : Answers(m)[j] = "EXPECTED"
  <2> DEFINE S == {j \in cells : cell[<<m, j>>].verdict = "EXPECTED"}
  <2>1. S \in SUBSET cells /\ \A j \in cells : j \in S <=> Answers(m)[j] = "EXPECTED"
    BY <1>1, <1>2, AnswerLemma DEF Verdicts
  <2>3. Cardinality(S) = Cardinality(cells) <=> S = cells
    BY <1>1, <2>1, FS_Subset
  <2> HIDE DEF S, cells
  <2>4. Cardinality(cells) > 0 <=> cells # {}
    BY <1>1, CountPositive
  <2>5. S = cells <=> \A j \in cells : Answers(m)[j] = "EXPECTED"
    BY <2>1
  <2>6. Cardinality(cells) > 0 /\ Cardinality(S) = Cardinality(cells) <=>
          cells # {} /\ \A j \in cells : Answers(m)[j] = "EXPECTED"
    BY <2>3, <2>4, <2>5
  <2> QED BY <2>6 DEF S
<1>6. now.completed <=> Life!AllSettled(Answers(m))
  <2>1. now.completed <=> cells # {} /\ \A j \in cells : run[cell[<<m, j>>].run].lifecycle \in Terminal
    BY TallyCompleted
  <2>2. \A j \in cells : run[cell[<<m, j>>].run].lifecycle \in Terminal <=> Answers(m)[j] \in Life!Settled
    <3> SUFFICES ASSUME NEW j \in cells
                 PROVE  run[cell[<<m, j>>].run].lifecycle \in Terminal <=> Answers(m)[j] \in Life!Settled
      OBVIOUS
    <3>1. j \in Jobs /\ cell[<<m, j>>].verdict # "absent"
      BY DEF CellsOf
    <3>2. Answers(m)[j] \in Life!Settled <=> Answers(m)[j] # "pending"
      BY <3>1, <1>2, AnswerLemma DEF Life!Settled, Life!Grades
    <3>3. Answers(m)[j] = "pending" <=> run[cell[<<m, j>>].run].lifecycle \notin Terminal
      <4>1. cell[<<m, j>>].verdict \in Verdicts \/ cell[<<m, j>>].verdict = "pending"
        BY <3>1, KeyFacts, CellLemma DEF Unrecorded
      <4> QED BY <3>1, <4>1, <1>2, AnswerLemma DEF Ended, Terminal, Verdicts
    <3> QED BY <3>2, <3>3
  <2> QED BY <2>1, <2>2, <1>3 DEF Life!AllSettled
<1>7. now.verdict = IF judged("UNEXPECTED") > 0 THEN "UNEXPECTED"
                    ELSE IF judged("UNKNOWN") > 0 THEN "UNKNOWN"
                    ELSE IF Cardinality(cells) > 0 /\ judged("EXPECTED") = Cardinality(cells)
                    THEN "EXPECTED" ELSE "none"
  BY DEF Tally
<1>8. now \in RollupRow /\ rollup[m] \in RollupRow /\ Current(m)
  BY TallyType DEF BookInv, RowsOK, CellsInv, RollupsCurrent
<1>9. /\ [rollup[m] EXCEPT !.completed = now.completed] = now
      /\ rollup[m].completed <=> now.completed
  BY <1>8 DEF Current
<1> HIDE DEF now, judged, cells
<1>10. rollup[m].verdict = now.verdict
  BY <1>8, <1>9 DEF RollupRow
<1>11. rollup[m].completed = now.completed
  BY <1>8, <1>9 DEF RollupRow
<1>12. now.completed = Life!AllSettled(Answers(m))
  BY <1>6, <1>8 DEF RollupRow, Life!AllSettled
<1>13. now.verdict = Life!RolledUp(Answers(m))
  BY <1>3, <1>4, <1>5, <1>7 DEF Life!RolledUp, Verdicts
<1> QED BY <1>10, <1>11, <1>12, <1>13

LEMMA AnswersStep ==
  ASSUME BookInv, BookInv', NoLocal, OrderlyStep, Frozen, NEW m \in Matrices
  PROVE  \/ CellsOf(cell, m) = {} /\ \A j \in Jobs : Answer(m, j)' # "withdrawn"
         \/ \A j \in Jobs : /\ Answer(m, j) # "pending" => Answer(m, j)' = Answer(m, j)
                            /\ Answer(m, j) = "pending" => Answer(m, j)' # "none"
<1>1. \A j \in Jobs : Answer(m, j)' =
        IF cell'[<<m, j>>].verdict = "absent" THEN "none"
        ELSE IF cell'[<<m, j>>].verdict = "pending" /\ run'[cell'[<<m, j>>].run].lifecycle = "cancelled"
        THEN "withdrawn" ELSE cell'[<<m, j>>].verdict
  BY DEF Answer
<1>2. \A j \in Jobs :
        /\ cell'[<<m, j>>].verdict = "pending" => cell'[<<m, j>>].run = <<m, j>>
        /\ cell'[<<m, j>>].verdict \in Verdicts =>
             run'[cell'[<<m, j>>].run].lifecycle \in Ended
        /\ cell'[<<m, j>>].verdict \in Verdicts \cup {"absent", "pending"}
  BY KeyFacts DEF BookInv, RowsOK, CellRow, CellsInv, GradedExactlyWhenEnded, Ended
<1>3. CASE CellsOf(cell, m) = {}
  <2>1. ASSUME NEW j \in Jobs, Answer(m, j)' = "withdrawn"
        PROVE  FALSE
    <3>1. run'[<<m, j>>].lifecycle = "cancelled"
      BY <2>1, <1>1, <1>2 DEF Verdicts
    <3>2. run[<<m, j>>].lifecycle # "absent"
      BY <3>1, KeyFacts DEF OrderlyStep, CancelsStand
    <3> QED BY <3>2, <1>3 DEF CellsOf, BookInv, CellsInv, NoCellNoRun
  <2> QED BY <1>3, <2>1
<1>4. CASE NoNewCells(m)
  <2> SUFFICES ASSUME NEW j \in Jobs
               PROVE  /\ Answer(m, j) # "pending" => Answer(m, j)' = Answer(m, j)
                      /\ Answer(m, j) = "pending" => Answer(m, j)' # "none"
    OBVIOUS
  <2>1. <<m, j>> \in Keys
    BY KeyFacts
  <2>2. CASE cell[<<m, j>>].verdict = "absent"
    BY <2>2, <1>1, <1>4 DEF NoNewCells, Answer
  <2>3. CASE cell[<<m, j>>].verdict \in Verdicts
    <3>1. cell'[<<m, j>>] = cell[<<m, j>>]
      BY <2>1, <2>3 DEF Frozen
    <3> QED BY <2>3, <3>1, <1>1 DEF Answer, Verdicts
  <2>4. CASE cell[<<m, j>>].verdict = "pending"
    <3>1. /\ cell'[<<m, j>>].verdict # "absent" /\ cell'[<<m, j>>].run = cell[<<m, j>>].run
          /\ cell[<<m, j>>].run \in Keys
      BY <2>1, <2>4, CellLemma DEF OrderlyStep, CellsStand
    <3>2. CASE run[cell[<<m, j>>].run].lifecycle = "cancelled"
      <4>1. run'[cell'[<<m, j>>].run].lifecycle = "cancelled"
        BY <3>1, <3>2 DEF OrderlyStep, CancelsStand
      <4>2. cell'[<<m, j>>].verdict = "pending"
        BY <3>1, <4>1, <1>2 DEF Ended
      <4> QED BY <2>4, <3>2, <4>1, <4>2, <1>1 DEF Answer
    <3>3. CASE run[cell[<<m, j>>].run].lifecycle # "cancelled"
      <4>1. Answer(m, j) = "pending"
        BY <2>4, <3>3 DEF Answer
      <4> QED BY <3>1, <4>1, <1>1, <1>2 DEF Verdicts
    <3> QED BY <3>2, <3>3
  <2> QED BY <2>1, <2>2, <2>3, <2>4, CellLemma DEF Unrecorded
<1> QED BY <1>3, <1>4 DEF OrderlyStep, CellsAreAddedOnce, NoLocal

\* Matrix runs live as MatrixLife promises: the cells are fixed at submission,
\* each is answered once, and the stored verdict and completion are at all times
\* what the answers say, with any cache, reclaims and expectations.
THEOREM ImplementsMatrixLife ==
  ASSUME "cancel run" \notin Uses, "local matrix" \notin Uses
  PROVE  Spec => MatrixRunsAsPromised
<1>1. Init => NoLocal
  <2> SUFFICES ASSUME Init, NEW m \in Matrices
               PROVE  local[m].up = FALSE
    BY DEF NoLocal
  <2>1. local[m] = [up |-> FALSE, todo |-> {}]
    BY DEF Init
  <2> DEFINE idle == [up |-> FALSE, todo |-> {}]
  <2>2. idle.up = FALSE
    OBVIOUS
  <2> HIDE DEF idle
  <2>3. local[m] = idle
    BY <2>1 DEF idle
  <2> QED BY <2>2, <2>3
<1>2. BookInv /\ NoLocal /\ [Next]_vars => NoLocal'
  BY NextOrderly DEF NoLocal, OrderlyStep, LocalIsUsed
<1>3. BookInv => AnswersAreStored
  BY StoredLemma, AnswerLemma DEF AnswersAreStored, Answers
<1>4. Init => Life!MatrixInit
  <2> SUFFICES ASSUME Init
               PROVE  Life!MatrixInit
    OBVIOUS
  <2>1. \A m \in Matrices, j \in Jobs : Answer(m, j) = "none"
    BY KeyFacts DEF Init, Answer, NoCell
  <2>2. \A m \in Matrices : rollup[m].verdict = "none" /\ rollup[m].completed = FALSE
    BY DEF Init, EmptyRollup
  <2> QED BY <2>1, <2>2 DEF Life!MatrixInit
<1>5. BookInv /\ BookInv' /\ NoLocal /\ AnswersAreStored' /\ [Next]_vars
        => [Life!MatrixNext]_(Life!matrixVars)
  <2> SUFFICES ASSUME BookInv, BookInv', NoLocal, AnswersAreStored', [Next]_vars,
                      NEW m \in Matrices
               PROVE  /\ \/ /\ Life!CellsIn(Answers(m)) = {}
                            /\ Answers(m)' \in [Jobs -> {"none", "pending"} \cup Life!Grades]
                         \/ /\ Answers(m)' \in [Jobs -> {"none", "pending"} \cup Life!Settled]
                            /\ \A j \in Jobs : Answers(m)[j] # "pending" =>
                                                 Answers(m)'[j] = Answers(m)[j]
                            /\ \A j \in Jobs : Answers(m)[j] = "pending" => Answers(m)'[j] # "none"
                      /\ rollup'[m].verdict = Life!RolledUp(Answers(m)')
                      /\ rollup'[m].completed = Life!AllSettled(Answers(m)')
    BY DEF Life!MatrixNext, Life!Submit, Life!Progress, Answers
  <2>1. OrderlyStep /\ Frozen
    BY NextOrderly, NextInv, StutterInv
  <2>2. /\ \A j \in Jobs : Answers(m)[j] = Answer(m, j)
        /\ \A j \in Jobs : Answers(m)'[j] = Answer(m, j)'
    BY DEF Answers
  <2>3. Answers(m)' \in [Jobs -> {"none", "pending"} \cup Life!Settled]
    BY DEF AnswersAreStored
  <2>4. /\ rollup'[m].verdict = Life!RolledUp(Answers(m)')
        /\ rollup'[m].completed = Life!AllSettled(Answers(m)')
    BY DEF AnswersAreStored
  <2>5. CASE CellsOf(cell, m) = {} /\ \A j \in Jobs : Answer(m, j)' # "withdrawn"
    <3>1. Life!CellsIn(Answers(m)) = {}
      BY <2>5, CellsInLemma
    <3>2. Answers(m)' \in [Jobs -> {"none", "pending"} \cup Life!Grades]
      BY <2>2, <2>3, <2>5 DEF Life!Settled
    <3> QED BY <3>1, <3>2, <2>4
  <2>6. CASE \A j \in Jobs : /\ Answer(m, j) # "pending" => Answer(m, j)' = Answer(m, j)
                             /\ Answer(m, j) = "pending" => Answer(m, j)' # "none"
    BY <2>2, <2>3, <2>4, <2>6
  <2> QED BY <2>1, <2>5, <2>6, AnswersStep
<1> QED BY <1>1, <1>2, <1>3, <1>4, <1>5, BooksInvariant, PTL
        DEF Spec, MatrixRunsAsPromised, Life!MatrixSafety

-----------------------------------------------------------------------------
(* What the cache hands out.  A run that names the branch, and is queued or     *)
(* running since before the branch last moved, has the commit of the branch in  *)
(* its fingerprint; an attempt of it checks that commit out.  So does every     *)
(* attempt of a run that names the commit.                                      *)

Attempted == {"running", "finished"}
Waiting   == {"queued", "running"}

\* A row with a resolved fingerprint, of a run that the branch moved under or not.
TrueToPrint(row, h, shifted) ==
  row.print # NoPrint /\ row.print[2] # Literal =>
    /\ row.lifecycle \in Waiting /\ ~row.pinned /\ ~shifted => row.print[2] = h
    /\ row.lifecycle \in Attempted /\ (row.pinned \/ ~shifted) => row.built = row.print[2]

RunsAreTrue == \A k \in Keys : TrueToPrint(run[k], head, k \in moved)

CacheIsExact ==
  \A p \in Jobs \X Refs :
    newest[p] # NoRun => /\ run[newest[p]].lifecycle = "finished"
                         /\ run[newest[p]].print = p

HitInv == RunsAreTrue /\ CacheIsExact

\* What a step may do to a run that exists: it keeps its fingerprint, and what
\* it built until the next attempt; only an attempt that was made finishes.
Continues(old, new) ==
  /\ new.print = old.print /\ new.pinned = old.pinned /\ new.built = old.built
  /\ new.lifecycle \in Attempted => old.lifecycle \in Attempted
  /\ new.lifecycle \in Waiting => old.lifecycle \in Waiting
  /\ old.lifecycle = "finished" => new.lifecycle = "finished"

Attempts(old, new, h) ==
  /\ new.print = old.print /\ new.pinned = old.pinned
  /\ new.built = IF old.pinned THEN old.print[2] ELSE h
  /\ old.lifecycle = "queued" /\ new.lifecycle = "running"

Created(old, new, h) ==
  /\ old.lifecycle = "absent" /\ new.lifecycle \in Waiting
  /\ new.print # NoPrint =>
       /\ ~new.pinned => new.print[2] \in {h, Literal}
       /\ new.lifecycle = "running" =>
            new.built = IF new.pinned THEN new.print[2] ELSE h

RunsMove ==
  \A k \in Keys : \/ Continues(run[k], run'[k])
                  \/ Attempts(run[k], run'[k], head)
                  \/ Created(run[k], run'[k], head)

CacheMoves ==
  \A p \in Jobs \X Refs :
    newest'[p] = newest[p] \/ /\ newest'[p] \in Keys
                              /\ run'[newest'[p]].lifecycle = "finished"
                              /\ run'[newest'[p]].print = p

HitsAreExact ==
  \A k \in Keys :
    cell'[k].hit /\ ~cell[k].hit =>
      \E ref \in Refs : /\ newest[<<JobAt(k), ref>>] # NoRun
                        /\ cell'[k].run = newest[<<JobAt(k), ref>>]

HitStep == RunsMove /\ CacheMoves /\ HitsAreExact

LEMMA NoRowIsTrue == \A h, shifted : TrueToPrint(NoRow, h, shifted)
<1>1. NoRow.print = NoPrint
  BY DEF NoRow
<1> QED BY <1>1 DEF TrueToPrint

LEMMA MoveIsTrue ==
  ASSUME NEW old, NEW new, NEW h, NEW shifted, TrueToPrint(old, h, shifted),
         Continues(old, new) \/ Attempts(old, new, h) \/ Created(old, new, h)
  PROVE  TrueToPrint(new, h, shifted)
<1>1. CASE Continues(old, new)
  BY <1>1 DEF Continues, TrueToPrint
<1>2. CASE Attempts(old, new, h)
  BY <1>2 DEF Attempts, TrueToPrint, Waiting, Attempted
<1>3. CASE Created(old, new, h)
  BY <1>3 DEF Created, TrueToPrint, Waiting, Attempted
<1> QED BY <1>1, <1>2, <1>3

\* The branch moves under the runs that are waiting or running.
LEMMA PushIsTrue ==
  ASSUME HitInv, Push
  PROVE  HitInv'
<1>1. /\ run' = run /\ newest' = newest
      /\ moved' = moved \cup {k \in Keys : run[k].lifecycle \in Waiting}
  BY DEF Push, Waiting
<1>2. RunsAreTrue'
  <2> SUFFICES ASSUME NEW k \in Keys
               PROVE  TrueToPrint(run[k], head', k \in moved')
    BY <1>1 DEF RunsAreTrue
  <2>1. TrueToPrint(run[k], head, k \in moved)
    BY DEF HitInv, RunsAreTrue
  <2>2. k \in moved => k \in moved'
    BY <1>1
  <2>3. run[k].lifecycle \in Waiting => k \in moved'
    BY <1>1
  <2> QED BY <2>1, <2>2, <2>3 DEF TrueToPrint
<1>3. CacheIsExact'
  BY <1>1 DEF HitInv, CacheIsExact
<1> QED BY <1>2, <1>3 DEF HitInv

LEMMA HitInvStep ==
  ASSUME BookInv, HitInv, HitStep, UNCHANGED <<head, moved>>
  PROVE  HitInv'
<1>1. RunsAreTrue'
  <2> SUFFICES ASSUME NEW k \in Keys
               PROVE  TrueToPrint(run'[k], head, k \in moved)
    BY DEF RunsAreTrue
  <2>1. TrueToPrint(run[k], head, k \in moved)
    BY DEF HitInv, RunsAreTrue
  <2>2. Continues(run[k], run'[k]) \/ Attempts(run[k], run'[k], head) \/ Created(run[k], run'[k], head)
    BY DEF HitStep, RunsMove
  <2> QED BY <2>1, <2>2, MoveIsTrue
<1>2. CacheIsExact'
  <2> SUFFICES ASSUME NEW p \in Jobs \X Refs, newest'[p] # NoRun
               PROVE  run'[newest'[p]].lifecycle = "finished" /\ run'[newest'[p]].print = p
    BY DEF CacheIsExact
  <2>1. CASE newest'[p] = newest[p]
    <3>1. /\ newest[p] \in Keys
          /\ run[newest[p]].lifecycle = "finished" /\ run[newest[p]].print = p
      BY <2>1 DEF HitInv, CacheIsExact, BookInv, RowsOK
    <3>2. Continues(run[newest[p]], run'[newest[p]])
      BY <3>1 DEF HitStep, RunsMove, Attempts, Created
    <3> QED BY <2>1, <3>1, <3>2 DEF Continues
  <2> QED BY <2>1 DEF HitStep, CacheMoves
<1> QED BY <1>1, <1>2 DEF HitInv

LEMMA HitLemma ==
  ASSUME BookInv, HitInv, HitsAreExact, NEW k \in Keys, cell'[k].hit, ~cell[k].hit
  PROVE  LET row == run[cell'[k].run]
         IN  /\ row.lifecycle = "finished" /\ row.print[1] = JobAt(k)
             /\ row.pinned \/ cell'[k].run \notin moved =>
                  row.built = row.print[2] \/ row.print[2] = Literal
<1>1. PICK ref \in Refs : /\ newest[<<JobAt(k), ref>>] # NoRun
                          /\ cell'[k].run = newest[<<JobAt(k), ref>>]
  BY DEF HitsAreExact
<1> DEFINE p == <<JobAt(k), ref>>
           r == newest[p]
<1>2. p \in Jobs \X Refs /\ p[1] = JobAt(k) /\ p # NoPrint
  BY KeyFacts, RefFacts
<1>3. r \in Keys /\ run[r].lifecycle = "finished" /\ run[r].print = p
  BY <1>1, <1>2 DEF BookInv, RowsOK, HitInv, CacheIsExact
<1>4. TrueToPrint(run[r], head, r \in moved)
  BY <1>3 DEF HitInv, RunsAreTrue
<1> HIDE DEF p, r
<1>5. run[r].pinned \/ r \notin moved => run[r].built = run[r].print[2] \/ run[r].print[2] = Literal
  BY <1>2, <1>3, <1>4 DEF TrueToPrint, Attempted
<1>6. cell'[k].run = r
  BY <1>1 DEF p, r
<1> QED BY <1>2, <1>3, <1>5, <1>6

\* A step that leaves cells and cache alone.
LEMMA QuietHits ==
  ASSUME BookInv, RunsMove, UNCHANGED <<cell, newest>>
  PROVE  HitStep
<1>1. HitsAreExact
  BY DEF HitsAreExact
<1> QED BY <1>1 DEF HitStep, CacheMoves

\* What a new row is, for a fingerprint p; executed on the spot or not.
LEMMA NewRowCreated ==
  ASSUME NEW old, old.lifecycle = "absent", NEW p, NEW pinned \in BOOLEAN, NEW spot \in BOOLEAN,
         ~pinned /\ p # NoPrint => p[2] \in {head, Literal}
  PROVE  Created(old, IF spot THEN Executed(NewRow(p, pinned)) ELSE NewRow(p, pinned), head)
<1>1. /\ NewRow(p, pinned).print = p /\ NewRow(p, pinned).lifecycle = "queued"
      /\ NewRow(p, pinned).pinned = pinned
  BY DEF NewRow, NoRow
<1>2. LET row == Executed(NewRow(p, pinned))
      IN  /\ row.print = p /\ row.lifecycle = "running" /\ row.pinned = pinned
          /\ row.built = IF pinned THEN p[2] ELSE head
  BY DEF NewRow, NoRow, Executed, Checkout
<1>3. CASE spot
  BY <1>2, <1>3 DEF Created, Waiting
<1>4. CASE ~spot
  BY <1>1, <1>4 DEF Created, Waiting
<1> QED BY <1>3, <1>4

\* The jobs of a matrix run become cells.
LEMMA EnqueueHits ==
  ASSUME BookInv, NEW m, NEW J, NEW cached, NEW source, NEW spot,
         Enqueued(m, J, cached, source, spot),
         ~source.pinned => source.ref \in {head, Literal}
  PROVE  HitStep
<1> DEFINE hits == {j \in J : cached /\ newest[<<j, source.ref>>] # NoRun}
           made == {<<m, j>> : j \in J \ hits}
           used == {<<m, j>> : j \in hits}
           queued(k) == IF cached THEN NewRow(<<JobAt(k), source.ref>>, source.pinned)
                        ELSE NewRow(NoPrint, FALSE)
           fresh(k) == IF spot THEN Executed(queued(k)) ELSE queued(k)
<1>1. /\ m \in Matrices /\ J \in SUBSET Jobs
      /\ \A j \in J : cell[<<m, j>>].verdict = "absent"
      /\ cached \in BOOLEAN /\ spot \in BOOLEAN
      /\ source.ref \in Refs /\ source.pinned \in BOOLEAN
      /\ newest' = newest
  BY DEF Enqueued
<1>2. run' = [k \in Keys |-> IF k \in made THEN fresh(k) ELSE run[k]]
  BY DEF Enqueued, EnqueueJobs
<1>3. cell' = [k \in Keys |->
           IF k \in made THEN [cell[k] EXCEPT !.verdict = "pending"]
           ELSE IF k \in used
           THEN [run |-> newest[<<JobAt(k), source.ref>>], expected |-> expected'[TestAt(k)],
                 verdict |-> Graded(run[newest[<<JobAt(k), source.ref>>]].result, expected'[TestAt(k)]),
                 hit |-> TRUE]
           ELSE cell[k]]
  BY DEF Enqueued, EnqueueJobs
<1>4. ASSUME NEW j \in J, NEW k, k = <<m, j>>
      PROVE  k \in Keys /\ JobAt(k) = j /\ run[k].lifecycle = "absent"
  BY <1>1, <1>4, KeyFacts DEF BookInv, CellsInv, NoCellNoRun
<1>5. ASSUME NEW k \in Keys
      PROVE  Continues(run[k], run'[k]) \/ Created(run[k], run'[k], head)
  <2>1. CASE k \in made
    <3>1. run[k].lifecycle = "absent"
      BY <2>1, <1>4
    <3>2. run'[k] = fresh(k)
      BY <2>1, <1>2
    <3>3. CASE cached
      <4>1. fresh(k) = IF spot THEN Executed(NewRow(<<JobAt(k), source.ref>>, source.pinned))
                       ELSE NewRow(<<JobAt(k), source.ref>>, source.pinned)
        BY <3>3
      <4>2. <<JobAt(k), source.ref>>[2] = source.ref
        OBVIOUS
      <4> HIDE DEF fresh
      <4> QED BY <1>1, <3>1, <3>2, <4>1, <4>2, NewRowCreated
    <3>4. CASE ~cached
      <4>1. fresh(k) = IF spot THEN Executed(NewRow(NoPrint, FALSE)) ELSE NewRow(NoPrint, FALSE)
        BY <3>4
      <4> HIDE DEF fresh
      <4> QED BY <1>1, <3>1, <3>2, <4>1, NewRowCreated
    <3> QED BY <3>3, <3>4
  <2>2. CASE k \notin made
    BY <2>2, <1>2 DEF Continues
  <2> QED BY <2>1, <2>2
<1>6. ASSUME NEW k \in Keys, cell'[k].hit, ~cell[k].hit
      PROVE  \E ref \in Refs : /\ newest[<<JobAt(k), ref>>] # NoRun
                               /\ cell'[k].run = newest[<<JobAt(k), ref>>]
  <2>1. cell[k] \in CellRow
    BY DEF BookInv, RowsOK
  <2>2. k \notin made
    <3>1. [cell[k] EXCEPT !.verdict = "pending"].hit = cell[k].hit
      BY <2>1 DEF CellRow
    <3> QED BY <3>1, <1>3, <1>6
  <2>3. k \in used
    BY <2>2, <1>3, <1>6
  <2>4. PICK j \in hits : k = <<m, j>>
    BY <2>3
  <2>5. JobAt(k) = j
    BY <2>4, <1>4
  <2>6. cell'[k].run = newest[<<JobAt(k), source.ref>>]
    BY <2>2, <2>3, <1>3
  <2> QED BY <2>4, <2>5, <2>6, <1>1
<1> QED BY <1>1, <1>5, <1>6 DEF HitStep, RunsMove, CacheMoves, HitsAreExact

\* Runs that a finalization settles keep what they are and what they built.
LEMMA FinalizeHits ==
  ASSUME BookInv, RunsMove, CacheMoves, NEW K, Finalize(K)
  PROVE  HitStep
<1>1. ASSUME NEW k \in Keys
      PROVE  cell'[k].hit = cell[k].hit
  <2>1. cell[k] \in CellRow
    BY DEF BookInv, RowsOK
  <2>2. \A e, v : [cell[k] EXCEPT !.expected = e, !.verdict = v].hit = cell[k].hit
    BY <2>1 DEF CellRow
  <2>3. cell'[k] = IF k \in SettledBy(K)
                   THEN [cell[k] EXCEPT !.expected = expected[TestAt(k)],
                                        !.verdict = Graded(run'[cell[k].run].result, expected[TestAt(k)])]
                   ELSE cell[k]
    BY DEF Finalize
  <2> QED BY <2>2, <2>3
<1> QED BY <1>1 DEF HitStep, HitsAreExact

LEMMA BookStepHits ==
  ASSUME BookInv, BookStep \/ UNCHANGED vars
  PROVE  HitStep /\ head' = head
<1> USE DEF Attempted, Waiting
<1>1. run \in [Keys -> RunRow] /\ head \in Commits
  BY DEF BookInv, RowsOK
<1>2. ASSUME NEW m \in Matrices, NEW J \in SUBSET Jobs, SubmitMatrix(m, J)
      PROVE  HitStep /\ head' = head
  <2>1. PICK cached \in BOOLEAN, source \in Sources(ResolvesTo) :
          EnqueueJobs(m, J, cached, source, FALSE)
    BY <1>2 DEF SubmitMatrix
  <2>2. source \in [ref : Refs, pinned : BOOLEAN] /\ (source.pinned => source.ref \in Commits)
    BY <1>1, SourceFacts
  <2>3. ~source.pinned => source.ref \in {head, Literal}
    <3>1. ResolvesTo \subseteq {head, Literal}
      BY DEF ResolvesTo
    <3>2. source \in [ref : ResolvesTo, pinned : {FALSE}] \/ source \in [ref : Commits, pinned : {TRUE}]
      BY DEF Sources
    <3>3. source.ref \in ResolvesTo \/ source.pinned = TRUE
      BY ONLY <3>2
    <3> QED BY <3>1, <3>3
  <2>4. UNCHANGED <<newest, head>> /\ \A j \in J : cell[<<m, j>>].verdict = "absent"
    BY <1>2 DEF SubmitMatrix, Fresh, CellsOf
  <2>5. Enqueued(m, J, cached, source, FALSE)
    BY <2>1, <2>2, <2>4 DEF Enqueued
  <2> QED BY <2>3, <2>4, <2>5, EnqueueHits
<1>3. ASSUME NEW m \in Matrices, NEW j \in Jobs, NextLocal(m, j)
      PROVE  HitStep /\ head' = head
  <2>1. PICK cached \in BOOLEAN, source \in Sources({Literal}) :
          EnqueueJobs(m, {j}, cached, source, TRUE)
    BY <1>3 DEF NextLocal
  <2>2. source \in [ref : Refs, pinned : BOOLEAN] /\ (source.pinned => source.ref \in Commits)
    BY <1>1, SourceFacts, RefFacts
  <2>3. ~source.pinned => source.ref \in {head, Literal}
    <3>1. source \in [ref : {Literal}, pinned : {FALSE}] \/ source \in [ref : Commits, pinned : {TRUE}]
      BY DEF Sources
    <3>2. source.ref = Literal \/ source.pinned = TRUE
      BY ONLY <3>1
    <3> QED BY <3>2
  <2>4. UNCHANGED <<newest, head>> /\ j \in local[m].todo
    BY <1>3 DEF NextLocal
  <2>5. cell[<<m, j>>].verdict = "absent"
    BY <2>4 DEF BookInv, LinksInv, TodoHasNoCell
  <2>6. Enqueued(m, {j}, cached, source, TRUE)
    BY <2>1, <2>2, <2>4, <2>5 DEF Enqueued
  <2> QED BY <2>3, <2>4, <2>6, EnqueueHits
<1>4. ASSUME NEW k \in Keys, NEW c \in Outcomes, Report(k, c) \/ FinishLocal(k, c)
      PROVE  HitStep /\ head' = head
  <2>1. /\ Finalize({k}) /\ run' = [run EXCEPT ![k].lifecycle = "finished", ![k].result = c]
        /\ newest' = IF run[k].print = NoPrint THEN newest ELSE [newest EXCEPT ![run[k].print] = k]
        /\ head' = head
    BY <1>4 DEF Report, FinishLocal, Finish
  <2>2. run[k].lifecycle \in {"running", "finished"}
    BY <1>4 DEF Report, FinishLocal, BookInv, RunsInv, OwnedIsClaimed
  <2>3. /\ run'[k] = [run[k] EXCEPT !.lifecycle = "finished", !.result = c] /\ run[k] \in RunRow
        /\ \A i \in Keys : i # k => run'[i] = run[i]
    BY <1>1, <2>1
  <2>4. /\ run'[k].lifecycle = "finished" /\ run'[k].print = run[k].print
        /\ run'[k].pinned = run[k].pinned /\ run'[k].built = run[k].built
    BY <2>3 DEF RunRow
  <2>5. RunsMove
    BY <2>2, <2>3, <2>4 DEF RunsMove, Continues
  <2>6. CacheMoves
    BY <2>1, <2>4 DEF CacheMoves, BookInv, RowsOK
  <2> QED BY <2>1, <2>5, <2>6, FinalizeHits
<1>5. ASSUME NEW K \in SUBSET Keys, Reclaim(K)
      PROVE  HitStep /\ head' = head
  <2> DEFINE spent == {k \in K : run[k].reclaims >= MaxReclaims}
             Counted(k) == [run[k] EXCEPT !.reclaims = @ + 1]
  <2>1. /\ \A k \in K : run[k].lifecycle = "running"
        /\ run' = [k \in Keys |->
             IF k \in spent THEN Retired(Counted(k))
             ELSE IF k \in K THEN [Counted(k) EXCEPT !.lifecycle = "queued", !.owned = FALSE]
             ELSE run[k]]
        /\ Finalize(spent) /\ UNCHANGED <<newest, head>>
    BY <1>5 DEF Reclaim
  <2>2. ASSUME NEW k \in Keys
        PROVE  Continues(run[k], run'[k])
    <3>1. CASE k \notin K
      BY <2>1, <3>1 DEF Continues
    <3>2. CASE k \in K
      <4>1. run[k] \in RunRow
        BY <1>1
      <4>2. Counted(k) = [run[k] EXCEPT !.reclaims = run[k].reclaims + 1]
        BY ZenonT(60)
      <4>3. /\ Continues(run[k], Retired(Counted(k)))
            /\ Continues(run[k], [Counted(k) EXCEPT !.lifecycle = "queued", !.owned = FALSE])
        BY <4>1, <4>2, <2>1, <3>2 DEF Retired, RunRow, Continues
      <4>4. run'[k] \in {Retired(Counted(k)), [Counted(k) EXCEPT !.lifecycle = "queued", !.owned = FALSE]}
        BY <2>1, <3>2
      <4> HIDE DEF Counted
      <4> QED BY <4>3, <4>4
    <3> QED BY <3>1, <3>2
  <2> QED BY <2>1, <2>2, FinalizeHits DEF RunsMove, CacheMoves
<1>6. ASSUME NEW K \in SUBSET Keys, Expire(K)
      PROVE  HitStep /\ head' = head
  <2>1. /\ \A k \in K : run[k].lifecycle = "queued" /\ run'[k] = Retired(run[k])
        /\ \A k \in Keys \ K : run'[k] = run[k]
        /\ Finalize(K) /\ UNCHANGED <<newest, head>>
    BY <1>6 DEF Expire
  <2>2. ASSUME NEW k \in Keys
        PROVE  Continues(run[k], run'[k])
    <3>1. run[k] \in RunRow
      BY <1>1
    <3>2. CASE k \in K
      <4>1. run'[k] = Retired(run[k]) /\ run[k].lifecycle = "queued"
        BY <2>1, <3>2
      <4> QED BY <3>1, <4>1 DEF Retired, RunRow, Continues
    <3>3. CASE k \notin K
      BY <2>1, <3>3 DEF Continues
    <3> QED BY <3>2, <3>3
  <2> QED BY <2>1, <2>2, FinalizeHits DEF RunsMove, CacheMoves
<1>7. ASSUME NEW k \in Keys, Claim(k)
      PROVE  HitStep /\ head' = head
  <2>1. /\ run[k].lifecycle = "queued" /\ UNCHANGED <<cell, newest, head>>
        /\ run' = [run EXCEPT ![k] = [Executed(run[k]) EXCEPT !.owned = TRUE]]
    BY <1>7 DEF Claim
  <2>2. /\ run'[k] = [Executed(run[k]) EXCEPT !.owned = TRUE] /\ run[k] \in RunRow
        /\ \A i \in Keys : i # k => run'[i] = run[i]
    BY <1>1, <2>1
  <2>3. /\ run'[k].print = run[k].print /\ run'[k].pinned = run[k].pinned
        /\ run'[k].built = (IF run[k].pinned THEN run[k].print[2] ELSE head)
        /\ run'[k].lifecycle = "running"
    BY <2>2 DEF Executed, Checkout, RunRow
  <2>4. Attempts(run[k], run'[k], head)
    BY <2>1, <2>3 DEF Attempts
  <2>5. RunsMove
    BY <2>2, <2>4 DEF RunsMove, Continues
  <2> QED BY <2>1, <2>5, QuietHits
<1>8. ASSUME NEW K, run' = Cancelled(K), \A k \in K : run[k].lifecycle = "queued",
             UNCHANGED <<cell, newest, head>>
      PROVE  HitStep /\ head' = head
  <2>1. ASSUME NEW k \in Keys
        PROVE  Continues(run[k], run'[k])
    <3>1. run[k] \in RunRow
      BY <1>1
    <3>2. run'[k] = IF k \in K THEN [run[k] EXCEPT !.lifecycle = "cancelled"] ELSE run[k]
      BY <1>8 DEF Cancelled
    <3> QED BY <1>8, <3>1, <3>2 DEF RunRow, Continues
  <2> QED BY <1>8, <2>1, QuietHits DEF RunsMove
<1>9. ASSUME NEW k \in Keys, CancelRun(k)
      PROVE  HitStep /\ head' = head
  <2>1. run' = Cancelled({k}) /\ run[k].lifecycle = "queued" /\ UNCHANGED <<cell, newest, head>>
    BY <1>9 DEF CancelRun
  <2>2. \A i \in {k} : run[i].lifecycle = "queued"
    BY <2>1
  <2> QED BY ONLY <2>1, <2>2, <1>8
<1>10. ASSUME NEW m \in Matrices, CancelMatrix(m)
       PROVE  HitStep /\ head' = head
  <2> DEFINE queued == {k \in {m} \X Jobs : run[k].lifecycle = "queued"}
  <2>1. run' = Cancelled(queued) /\ UNCHANGED <<cell, newest, head>>
    BY <1>10 DEF CancelMatrix
  <2>2. \A k \in queued : run[k].lifecycle = "queued"
    OBVIOUS
  <2> HIDE DEF queued
  <2> QED BY ONLY <2>1, <2>2, <1>8
<1>11. ASSUME NEW s \in Singles, SubmitSingle(s) \/ RunLocal(s)
       PROVE  HitStep /\ head' = head
  <2>1. s \in Keys /\ run[s].lifecycle = "absent" /\ UNCHANGED <<cell, newest, head>>
    BY <1>11, KeyFacts DEF SubmitSingle, RunLocal
  <2>2. ASSUME NEW p, NEW spot \in BOOLEAN, NEW row,
               p # NoPrint => p[2] \in {head, Literal},
               row = IF spot THEN Executed(NewRow(p, FALSE)) ELSE NewRow(p, FALSE),
               run' = [run EXCEPT ![s] = row]
        PROVE  HitStep
    <3>1. run'[s] = row /\ \A i \in Keys : i # s => run'[i] = run[i]
      BY <1>1, <2>1, <2>2
    <3>2. Created(run[s], run'[s], head)
      BY <2>1, <2>2, <3>1, NewRowCreated
    <3>3. RunsMove
      BY <3>1, <3>2 DEF RunsMove, Continues
    <3> QED BY <2>1, <3>3, QuietHits
  <2>3. CASE SubmitSingle(s)
    <3>1. PICK p \in {NoPrint} \cup {<<JobOf[s], ref>> : ref \in ResolvesTo} :
            run' = [run EXCEPT ![s] = NewRow(p, FALSE)]
      BY <2>3 DEF SubmitSingle
    <3>2. p # NoPrint => p[2] \in {head, Literal}
      <4>1. ResolvesTo \subseteq {head, Literal}
        BY DEF ResolvesTo
      <4>2. CASE \E ref \in ResolvesTo : p = <<JobOf[s], ref>>
        BY <4>1, <4>2
      <4> QED BY <3>1, <4>2
    <3>3. NewRow(p, FALSE) = IF FALSE THEN Executed(NewRow(p, FALSE)) ELSE NewRow(p, FALSE)
      OBVIOUS
    <3> QED BY <2>1, <2>2, <3>1, <3>2, <3>3
  <2>4. CASE RunLocal(s)
    <3>1. run' = [run EXCEPT ![s] = Executed(NewRow(NoPrint, FALSE))]
      BY <2>4 DEF RunLocal
    <3>2. Executed(NewRow(NoPrint, FALSE))
            = IF TRUE THEN Executed(NewRow(NoPrint, FALSE)) ELSE NewRow(NoPrint, FALSE)
      OBVIOUS
    <3> QED BY <2>1, <2>2, <3>1, <3>2
  <2> QED BY <1>11, <2>1, <2>3, <2>4
<1>12. ASSUME UNCHANGED <<run, cell, newest>>
       PROVE  HitStep
  BY <1>12, QuietHits DEF RunsMove, Continues
<1>13. ASSUME NEW m \in Matrices, KillLocal(m) \/ \E J \in SUBSET Jobs : StartLocal(m, J)
       PROVE  HitStep /\ head' = head
  BY <1>13, <1>12 DEF KillLocal, StartLocal
<1>14. ASSUME (\E t \in Tests : SetExpectation(t)) \/ UNCHANGED vars
       PROVE  HitStep /\ head' = head
  <2>1. CASE \E t \in Tests : SetExpectation(t)
    BY <1>12, <2>1 DEF SetExpectation
  <2>2. CASE UNCHANGED vars
    <3>1. UNCHANGED <<run, cell, newest>> /\ head' = head
      BY <2>2 DEF vars
    <3> QED BY <1>12, <3>1
  <2> QED BY <1>14, <2>1, <2>2
<1> QED BY <1>2, <1>3, <1>4, <1>5, <1>6, <1>7, <1>9, <1>10, <1>11, <1>13, <1>14
        DEF BookStep, MatrixStep, RunStep

\* What the books do besides, at a push: no cell is a hit that was none.
LEMMA NextHits ==
  ASSUME BookInv, HitInv, [Next]_vars
  PROVE  HitsAreExact /\ HitInv'
<1>1. CASE Push
  <2>1. HitsAreExact
    BY <1>1 DEF Push, HitsAreExact
  <2> QED BY <1>1, <2>1, PushIsTrue
<1>2. CASE (BookStep \/ UNCHANGED vars) /\ UNCHANGED moved
  BY <1>2, BookStepHits, HitInvStep DEF HitStep
<1> QED BY <1>1, <1>2 DEF Next, vars

\* A cache hit is of a finished run of the same job, built from the commit in its
\* fingerprint whenever the run named the commit, or named the branch and the branch
\* did not move while the run was waiting or running: for any pushes, forced or not,
\* any reclaims between them, and local matrix runs and literal refs beside.
THEOREM CacheHitsAreOfTheirCommit == Spec => HitsAreOfTheirCommit
<1>1. Init => HitInv
  <2>1. Init => RunsAreTrue
    BY NoRowIsTrue DEF Init, RunsAreTrue
  <2> QED BY <2>1 DEF Init, HitInv, CacheIsExact
<1>2. BookInv /\ HitInv /\ [Next]_vars => HitInv'
  BY NextHits
<1>3. BookInv /\ HitInv /\ [Next]_vars =>
        [\A k \in Keys :
           cell'[k].hit /\ ~cell[k].hit =>
             LET row == run[cell'[k].run]
             IN  /\ row.lifecycle = "finished" /\ row.print[1] = JobAt(k)
                 /\ row.pinned \/ cell'[k].run \notin moved =>
                      row.built = row.print[2] \/ row.print[2] = Literal]_vars
  BY NextHits, HitLemma
<1> QED BY <1>1, <1>2, <1>3, BooksInvariant, PTL DEF Spec, HitsAreOfTheirCommit
=============================================================================
