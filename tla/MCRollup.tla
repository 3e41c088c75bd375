------------------------------ MODULE MCRollup ------------------------------
(* Small instances of Rollup for TLC. *)
EXTENDS Rollup, TLC

CONSTANTS m1, m2, j1, j2, s1, t1, t2

OneTest     == [j \in Jobs |-> t1]
OwnTests    == [j \in Jobs |-> IF j = j1 THEN t1 ELSE t2]
SingleOfOne == [s \in Singles |-> j1]
Symmetric   == Permutations(Matrices)
=============================================================================
