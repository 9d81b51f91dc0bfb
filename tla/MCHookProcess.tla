--------------------------- MODULE MCHookProcess ---------------------------
(* HookProcess for TLC: two copies of the hooks answer event e1, and g is  *)
(* a Git hook's check.                                                     *)
EXTENDS HookProcess, TLC

CONSTANTS a, b, g, e1

MCEvent == [p \in Procs |-> IF p \in {a, b} THEN e1 ELSE None]

(* The copies of an event's process are alike. *)
Copies == Permutations({a, b})
=============================================================================
