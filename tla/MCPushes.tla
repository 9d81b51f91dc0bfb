------------------------------ MODULE MCPushes ------------------------------
(* Bounds of Pushes for TLC. *)
EXTENDS Pushes, TLC

CONSTANTS here, there, main, feature

MCHeads == {here, there}
MCRefs == {main, feature}
Symmetry == Permutations(MCHeads) \cup Permutations(MCRefs)
MCBudgets ==
  {[person |-> 2, push |-> 1, fetch |-> 1, colleague |-> 1],
   [person |-> 1, push |-> 2, fetch |-> 1, colleague |-> 1],
   [person |-> 2, push |-> 2, fetch |-> 1, colleague |-> 0],
   [person |-> 3, push |-> 1, fetch |-> 0, colleague |-> 0]}
=============================================================================
