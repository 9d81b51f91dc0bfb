----------------------------- MODULE MCHookTurn -----------------------------
(* HookTurn for TLC: t1 is clean, every other tree has the finding f.      *)
EXTENDS HookTurn

CONSTANTS t1, f

MCFound == [t \in Trees |-> IF t = t1 THEN {} ELSE {f}]
=============================================================================
