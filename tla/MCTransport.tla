---------------------------- MODULE MCTransport ----------------------------
(* Transport for TLC: request r costs r dollars, so that a budget may hold *)
(* some requests and not others.                                           *)
EXTENDS Transport, TLC

MCCost == [r \in Requests |-> r]

Setup(deadline, budget, responses) ==
  [deadline |-> deadline, budget |-> budget, responses |-> responses]
MCSetups == {Setup(3, 3, {"ok", "status", "account"}),
             Setup(3, 2, {"status", "interrupted", "unsent", "invalid"}),
             Setup(None, 2, {"ok", "status", "interrupted"}),
             Setup(2, 3, {"unsent", "edge"})}
=============================================================================
