----------------------------- MODULE MCDispatch -----------------------------
(* Small instances of Dispatch for TLC. *)
EXTENDS Dispatch, TLC

CONSTANTS w1, w2

TwoRuns   == 1..2
OneRun    == 1..1
AllOfThem == {Runs}
AllOrNone == {Runs, {}}
Symmetric == Permutations(Workers)
=============================================================================
