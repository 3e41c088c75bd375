---------------------------- MODULE MCDispatchTx ----------------------------
(* Small instances of DispatchTx for TLC. *)
EXTENDS DispatchTx, TLC

CONSTANTS w1, w2

OneRun    == 1..1
TwoRuns   == 1..2
AllOfThem == {Runs}
Symmetric == Permutations(Workers)
=============================================================================
