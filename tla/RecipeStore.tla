---------------------------- MODULE RecipeStore ----------------------------
(***************************************************************************)
(* The tests and test_matrices tables: recipes, which name what is still    *)
(* open, the pinned rows that resolving them yields, and what is run.       *)
(*                                                                          *)
(* A test is found by the hash of its coordinate, a resolved matrix by the   *)
(* hash of its content; the first is unique in the database, the second is   *)
(* not.  A web route reads, and commits later, in a thread; the API and the  *)
(* webhook are one step on the event loop, a command is one step too.        *)
(* No row is ever deleted, so the matrices are a sequence.  Names are left out: *)
(* any row may be given one, by which a request or a command then refers to it; *)
(* so is the origin of a matrix, which nothing but a page reads.              *)
(***************************************************************************)
EXTENDS Naturals, FiniteSets, Sequences

CONSTANTS
  Loose, Pinned,  \* what a test or a matrix may say: something open, or nothing
  MaxMatrices,    \* bound: the rows of test_matrices
  Routes          \* bound: the web requests in flight at once

Specs == Loose \cup Pinned

NoSpec    == "no spec"
NoMatrix  == 0

ASSUME RecipesAssumption ==
  /\ Loose \cap Pinned = {} /\ NoSpec \notin Specs /\ IsFiniteSet(Specs)
  /\ MaxMatrices \in Nat

VARIABLES
  now,     \* what each open spec resolves to: the fleet, and where branches are
  had,     \* history: all it ever resolved to
  test,    \* the tests table, by coordinate
  matrix,  \* the test_matrices table
  route,   \* the web requests in flight
  ran      \* history: the tests that have a run

recipeVars == <<now, had, test, matrix, route, ran>>

NoTest == [exists |-> FALSE, resolved |-> FALSE, from |-> NoSpec]

Idle == [phase |-> "idle"]

TestRows   == [exists : BOOLEAN, resolved : BOOLEAN, from : Loose \cup {NoSpec}]
MatrixRows == [resolved : BOOLEAN, config : Specs, hash : Specs \cup {NoSpec}]

\* What a web request has read and is to write.
TestFlights   == [phase : {"test"}, target : Specs, found : BOOLEAN,
                  from : Loose \cup {NoSpec}, run : BOOLEAN]
MatrixFlights == [phase : {"matrix"}, recipe : Nat, config : Specs,
                  content : Specs \cup {NoSpec}, hits : SUBSET Nat, run : BOOLEAN]
QueueFlights  == [phase : {"queue"}, matrix : Nat]
Flights       == {Idle} \cup TestFlights \cup MatrixFlights \cup QueueFlights

RecipesTypeOK ==
  /\ now \in [Loose -> Pinned \cup {NoSpec}] /\ had \in [Loose -> SUBSET Pinned]
  /\ test \in [Specs -> TestRows]
  /\ matrix \in Seq(MatrixRows) /\ Len(matrix) <= MaxMatrices
  /\ route \in [Routes -> Flights]
  /\ ran \subseteq Specs

RecipesInit ==
  /\ now \in [Loose -> Pinned \cup {NoSpec}]
  /\ had = [l \in Loose |-> {now[l]} \ {NoSpec}]
  /\ test = [c \in Specs |-> NoTest] /\ matrix = <<>>
  /\ route = [q \in Routes |-> Idle] /\ ran = {}

\* Workers come and go, and branches move.
Moves(l) ==
  /\ \E p \in Pinned \cup {NoSpec} : p # now[l] /\ now' = [now EXCEPT ![l] = p]
  /\ had' = [had EXCEPT ![l] = @ \cup ({now'[l]} \ {NoSpec})]
  /\ UNCHANGED <<test, matrix, route, ran>>

\* resolve_and_validate_coord, resolve_loose_matrix_axes with the refs pinned:
\* nothing, if the fleet cannot supply what is open.
Resolve(spec) == IF spec \in Loose THEN now[spec] ELSE spec

-----------------------------------------------------------------------------
(* Tests. *)

Take(q, flight) ==
  /\ route[q] = Idle /\ route' = [route EXCEPT ![q] = flight]
  /\ UNCHANGED <<now, had, test, matrix, ran>>

\* test_new_submit, its lookups: an open test that is only saved becomes a recipe,
\* any other is resolved first.
SaveTest(q, spec, andRun) ==
  LET target == IF andRun THEN Resolve(spec) ELSE spec IN
  /\ target # NoSpec
  /\ Take(q, [phase |-> "test", target |-> target, found |-> test[target].exists,
              from |-> NoSpec, run |-> andRun])

\* resolve_test_recipe, its lookups; the row keeps a recipe that it has.
ResolveTest(q, recipe) ==
  LET target == Resolve(recipe) IN
  /\ test[recipe].exists /\ ~test[recipe].resolved /\ target # NoSpec
  /\ Take(q, [phase |-> "test", target |-> target, found |-> test[target].exists,
              from |-> IF test[target].from = NoSpec THEN recipe ELSE NoSpec,
              run |-> FALSE])

\* get_or_create_test and get_or_create_test_recipe: a row that is there stays.
Found(c) ==
  IF test[c].exists THEN test[c] ELSE [NoTest EXCEPT !.exists = TRUE, !.resolved = c \in Pinned]

\* Mutant: a row that is found is run whatever it is.
RunnableIfFound(c) == c \in Pinned \/ test[c].exists

\* create_test_run refuses a recipe.
Runnable(c) == Found(c).resolved

\* Mutant: the lineage is written into the recipe.
CommitTestBackwards(q) ==
  LET f == route[q]
      c == f.target
      stored == (f.found \/ ~test[c].exists) /\ (f.run => Runnable(c))
  IN
  /\ f.phase = "test" /\ route' = [route EXCEPT ![q] = Idle]
  /\ test' = IF ~stored THEN test
             ELSE IF f.from # NoSpec
             THEN [test EXCEPT ![c] = Found(c), ![f.from].from = f.from]
             ELSE [test EXCEPT ![c] = Found(c)]
  /\ ran' = IF stored /\ f.run THEN ran \cup {c} ELSE ran
  /\ UNCHANGED <<now, had, matrix>>

\* The insert fails on the unique hash if another request was first; then nothing
\* is stored.
CommitTest(q) ==
  LET f == route[q]
      c == f.target
      stored == (f.found \/ ~test[c].exists) /\ (f.run => Runnable(c))
  IN
  /\ f.phase = "test" /\ route' = [route EXCEPT ![q] = Idle]
  /\ test' = IF ~stored THEN test
             ELSE [test EXCEPT ![c] =
                    [Found(c) EXCEPT !.from = IF f.from # NoSpec THEN f.from ELSE @]]
  /\ ran' = IF stored /\ f.run THEN ran \cup {c} ELSE ran
  /\ UNCHANGED <<now, had, matrix>>

\* test_run, and run_rerun, which runs what a run is of.
RunTest(c) ==
  /\ test[c].exists /\ Runnable(c) /\ ran' = ran \cup {c}
  /\ UNCHANGED <<now, had, test, matrix, route>>

-----------------------------------------------------------------------------
(* Matrices. *)

Room(n) == Len(matrix) + n <= MaxMatrices

\* create_matrix_from_axes, and the rows that the API and the command write
\* themselves, which have no hash.
MatrixRow(config, resolved, hash) ==
  [resolved |-> resolved, config |-> config, hash |-> hash]

Hashed(config, resolved) == MatrixRow(config, resolved, config)
Unhashed(config)         == MatrixRow(config, TRUE, NoSpec)

\* The lookup of resolve_matrix_recipe: one snapshot or none, else it raises.
Snapshots(content) == {i \in DOMAIN matrix : matrix[i].resolved /\ matrix[i].hash = content}
Resolvable(config) == Resolve(config) # NoSpec /\ Cardinality(Snapshots(Resolve(config))) <= 1

\* matrix_create, its lookups.  Run or resolved, a recipe is looked up as well;
\* one that the fleet cannot supply is saved all the same.
SaveMatrix(q, config, andRun) ==
  LET pins == andRun /\ config \in Loose /\ Resolve(config) # NoSpec IN
  /\ pins => Resolvable(config)
  /\ Take(q, [phase |-> "matrix", recipe |-> NoMatrix, config |-> config,
              content |-> IF pins THEN Resolve(config) ELSE NoSpec,
              hits |-> IF pins THEN Snapshots(Resolve(config)) ELSE {},
              run |-> andRun /\ (config \in Loose => pins)])

\* matrix_resolve, its lookups.
ResolveSavedMatrix(q, i) ==
  LET row == matrix[i] IN
  /\ ~row.resolved /\ Resolvable(row.config)
  /\ Take(q, [phase |-> "matrix", recipe |-> i, config |-> row.config,
              content |-> Resolve(row.config), hits |-> Snapshots(Resolve(row.config)),
              run |-> FALSE])

\* resolve_matrix_recipe, its writes, in table M: a row, if none was found.
WithSnapshot(M, content, hits) ==
  IF hits = {} THEN Append(M, Hashed(content, TRUE)) ELSE M

SnapshotId(M, hits) == IF hits = {} THEN Len(M) ELSE CHOOSE i \in hits : TRUE

\* The rows are committed; what is to be run is queued in a transaction of its own.
CommitMatrix(q) ==
  LET f     == route[q]
      saved == IF f.recipe # NoMatrix THEN matrix
               ELSE Append(matrix, Hashed(f.config, f.config \in Pinned))
      id    == IF f.recipe # NoMatrix THEN f.recipe ELSE Len(saved)
      after == IF f.content = NoSpec THEN saved ELSE WithSnapshot(saved, f.content, f.hits)
      toRun == IF f.content = NoSpec THEN id ELSE SnapshotId(after, f.hits)
  IN
  /\ f.phase = "matrix" /\ Len(after) <= MaxMatrices
  /\ matrix' = after
  /\ route' = [route EXCEPT ![q] = IF f.run THEN [phase |-> "queue", matrix |-> toRun] ELSE Idle]
  /\ UNCHANGED <<now, had, test, ran>>

\* _queue_matrix_run, its lookups: a recipe is refused, and each job is resolved
\* by what the fleet has now; a matrix has one job here.
Queueing(q, i) ==
  LET row    == matrix[i]
      target == Resolve(row.config)
      starts == row.resolved /\ target # NoSpec
  IN
  /\ route' = [route EXCEPT ![q] =
       IF ~starts THEN Idle
       ELSE [phase |-> "test", target |-> target, found |-> test[target].exists,
             from |-> NoSpec, run |-> TRUE]]
  /\ UNCHANGED <<now, had, test, matrix, ran>>

QueueSaved(q) == route[q].phase = "queue" /\ Queueing(q, route[q].matrix)

\* matrix_run, matrix_run_rerun.
RunMatrix(q, i) == route[q] = Idle /\ matrix[i].resolved /\ Queueing(q, i)

-----------------------------------------------------------------------------
(* The API, the webhook and the commands. *)

\* create_matrix.
ApiCreateMatrix(config) ==
  /\ Room(1)
  /\ matrix' = Append(matrix, Unhashed(config))
  /\ UNCHANGED <<now, had, test, route, ran>>

\* The cell of a matrix run: resolved, found or made, and run.
CellRuns(config) ==
  LET c == Resolve(config) IN
  /\ c # NoSpec /\ Runnable(c)
  /\ test' = [test EXCEPT ![c] = Found(c)] /\ ran' = ran \cup {c}

\* submit_run.
SubmitRun(coord) == CellRuns(coord) /\ UNCHANGED <<now, had, matrix, route>>

\* submit_matrix_run, of a matrix that is there: all of it, or nothing.
ApiRunMatrix(i) ==
  /\ matrix[i].resolved
  /\ CellRuns(matrix[i].config)
  /\ UNCHANGED <<now, had, matrix, route>>

\* submit_matrix_run, of a matrix in the request: never taken for a recipe.
ApiRunInline(config) ==
  /\ Room(1)
  /\ matrix' = Append(matrix, Hashed(config, TRUE))
  /\ CellRuns(config)
  /\ UNCHANGED <<now, had, route>>

\* _match_and_queue: a recipe is resolved, and what it yields is run.
Webhook(i) ==
  LET row  == matrix[i]
      hits == Snapshots(Resolve(row.config))
  IN
  /\ IF row.resolved THEN UNCHANGED matrix
     ELSE /\ Resolvable(row.config)
          /\ matrix' = WithSnapshot(matrix, Resolve(row.config), hits)
          /\ Len(matrix') <= MaxMatrices
  /\ CellRuns(matrix'[IF row.resolved THEN i ELSE SnapshotId(matrix', hits)].config)
  /\ UNCHANGED <<now, had, route>>

\* `opp_ci matrix create`.
CreateMatrixCommand(config) ==
  /\ Room(1)
  /\ matrix' = Append(matrix, Unhashed(config))
  /\ UNCHANGED <<now, had, test, route, ran>>

\* `opp_ci matrix create --replace`: the content, and nothing else.
ReplaceMatrixCommand(i, config) ==
  /\ matrix[i].config # config
  /\ matrix' = [matrix EXCEPT ![i].config = config]
  /\ UNCHANGED <<now, had, test, route, ran>>

\* `opp_ci run-matrix`: open axes are what this host has.
RunMatrixCommand(i) ==
  /\ matrix[i].resolved
  /\ \E c \in IF matrix[i].config \in Loose THEN Pinned ELSE {matrix[i].config} :
       /\ Runnable(c)
       /\ test' = [test EXCEPT ![c] = Found(c)] /\ ran' = ran \cup {c}
  /\ UNCHANGED <<now, had, matrix, route>>

-----------------------------------------------------------------------------
WebStep(q) ==
  \/ \E spec \in Specs, andRun \in BOOLEAN : SaveTest(q, spec, andRun) \/ SaveMatrix(q, spec, andRun)
  \/ \E l \in Loose : ResolveTest(q, l)
  \/ \E i \in DOMAIN matrix : ResolveSavedMatrix(q, i) \/ RunMatrix(q, i)
  \/ CommitTest(q) \/ CommitMatrix(q) \/ QueueSaved(q)

ServerStep ==
  \/ \E i \in DOMAIN matrix : Webhook(i) \/ ApiRunMatrix(i)
  \/ \E config \in Specs : ApiCreateMatrix(config) \/ ApiRunInline(config) \/ SubmitRun(config)

CommandStep ==
  \/ \E config \in Specs : CreateMatrixCommand(config)
  \/ \E i \in DOMAIN matrix :
       \/ RunMatrixCommand(i)
       \/ \E config \in Specs : ReplaceMatrixCommand(i, config)

RecipesNext ==
  \/ \E l \in Loose : Moves(l)
  \/ \E q \in Routes : WebStep(q)
  \/ \E c \in Specs : RunTest(c)
  \/ ServerStep \/ CommandStep

RecipesSpec == RecipesInit /\ [][RecipesNext]_recipeVars

-----------------------------------------------------------------------------
\* Whichever of the ways to a run was taken, by page, API, webhook or command,
\* and whatever was saved, resolved or replaced meanwhile, what runs is a test
\* that leaves nothing open.
RunsArePinned ==
  \A c \in ran : c \in Pinned /\ test[c].resolved

\* The lineage of a test is one step, and true: it names a recipe that is there,
\* and that resolved to this test at some time, whichever of several resolutions
\* came first.
LineageIsTrue ==
  \A c \in Specs :
    test[c].from # NoSpec =>
      /\ test[test[c].from].exists /\ ~test[test[c].from].resolved
      /\ c \in had[test[c].from]

-----------------------------------------------------------------------------
(* What the documentation says and the code does not do. *)

\* resolve_matrix_recipe: "reuse an existing resolved snapshot with the same
\* pinned content", of which it expects no more than one.
OneSnapshotPerContent == \A p \in Pinned : Cardinality(Snapshots(p)) <= 1

\* The same: what a recipe is resolved to has the content that it resolves to.
ReusedForItsContent == \A p \in Pinned : \A i \in Snapshots(p) : matrix[i].config = p

\* models.py: only a resolved matrix may run, and a resolved one leaves nothing open.
ResolvedMeansPinned ==
  \A i \in DOMAIN matrix : matrix[i].resolved => matrix[i].config \in Pinned
=============================================================================
