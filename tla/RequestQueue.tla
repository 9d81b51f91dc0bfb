---------------------------- MODULE RequestQueue ----------------------------
(***************************************************************************)
(* What Evaluator::evaluate_queue promises the check that calls it          *)
(* (src/src/transport/mod.rs): each request is sent a bounded number of     *)
(* times, gets one outcome, is never sent after it, and none is forgotten.  *)
(***************************************************************************)
EXTENDS Naturals

CONSTANTS Requests, MaxSends, None

VARIABLES sends, outcome

vars == <<sends, outcome>>

Results == {"answered", "failed", "skipped"}

Init ==
  /\ sends = [r \in Requests |-> 0]
  /\ outcome = [r \in Requests |-> None]

Send(r) ==
  /\ outcome[r] = None
  /\ sends[r] < MaxSends
  /\ sends' = [sends EXCEPT ![r] = @ + 1]
  /\ UNCHANGED outcome

(* Only a request that was never sent is skipped, and only one that was    *)
(* sent is answered.                                                       *)
Complete(r) ==
  /\ outcome[r] = None
  /\ \E result \in Results :
       /\ result = "skipped" => sends[r] = 0
       /\ result = "answered" => sends[r] > 0
       /\ outcome' = [outcome EXCEPT ![r] = result]
  /\ UNCHANGED sends

Next == \E r \in Requests : Send(r) \/ Complete(r)

Spec == Init /\ [][Next]_vars /\ \A r \in Requests : WF_vars(Complete(r))
=============================================================================
