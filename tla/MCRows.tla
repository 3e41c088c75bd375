-------------------------------- MODULE MCRows --------------------------------
(***************************************************************************)
(* The components whose rows a web route reads and commits later, for TLC:   *)
(* accounts, and the recipes, tests and matrices.  They share no state: a    *)
(* behaviour is one of one component, named by `part`, and the variables of   *)
(* the other stay as they are.                                                *)
(***************************************************************************)
EXTENDS Access, RecipeStore, TLC

CONSTANTS
  Parts,
  b1, b2  \* what is alike: two tokens, two snapshots

VARIABLE part

Alike == Permutations({b1, b2})

Init ==
  /\ part \in Parts
  /\ AccessInit /\ RecipesInit
  /\ part # "accounts" => \A u \in HubUsers : member[u] = "submitters"
  /\ part # "recipes"  => now = [l \in Loose |-> NoSpec]

Next ==
  /\ UNCHANGED part
  /\ \/ part = "accounts" /\ AccessNext /\ UNCHANGED recipeVars
     \/ part = "recipes"  /\ RecipesNext /\ UNCHANGED accessVars

Spec == Init /\ [][Next]_<<part, accessVars, recipeVars>>
=============================================================================
