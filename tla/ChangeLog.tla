----------------------------- MODULE ChangeLog -----------------------------
(***************************************************************************)
(* What `/changes?since=N` promises a reader: the changes of the report     *)
(* generations form a log that only grows and whose entries never change,  *)
(* and a reader that follows it with a cursor has every entry from where   *)
(* it began to its cursor, each as the log has it.                         *)
(***************************************************************************)
EXTENDS Naturals, Sequences

CONSTANT Changes

VARIABLES
  log,     \* the changes of generations 1, 2, ...
  since,   \* where the reader began: the cursor of its last reset
  told     \* what it was told of generations since + 1, since + 2, ...

lvars == <<log, since, told>>

Init == log = <<>> /\ since = 0 /\ told = <<>>

Close == \E c \in Changes : log' = Append(log, c) /\ UNCHANGED <<since, told>>

Tell == \E upto \in since..Len(log) :
          /\ upto >= since + Len(told)
          /\ told' = SubSeq(log, since + 1, upto)
          /\ UNCHANGED <<log, since>>

\* A gap: the reader fetches the snapshot and begins again after it.
Reset == \E cursor \in since..Len(log) :
           since' = cursor /\ told' = <<>> /\ UNCHANGED log

Next == Close \/ Tell \/ Reset

Spec == Init /\ [][Next]_lvars
=============================================================================
