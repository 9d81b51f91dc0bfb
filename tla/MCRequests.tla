----------------------------- MODULE MCRequests -----------------------------
(* Requests for TLC: states src and old, the second with an entry an       *)
(* earlier version left; built-in questions q and p, and a custom one, u.  *)
EXTENDS Requests, TLC

CONSTANTS src, old, q, p, u, yes, no

Ask(about, qs) == [state |-> about, asks |-> qs]
MCPlans == {<<<<Ask(src, {q}), Ask(src, {q, u})>>, <<Ask(src, {q})>>>>,
            <<<<Ask(src, {q, u}), Ask(src, {q})>>>>,
            <<<<Ask(old, {q, p}), Ask(old, {q})>>, <<Ask(old, {q, u})>>>>}
MCTwoBatches == {<<<<Ask(src, {q})>>, <<Ask(src, {u})>>>>}

MCWhole == {[state |-> old, answers |-> q :> yes @@ p :> None @@ u :> None]}

Opts(refresh, cacheOnly, maxRequests, budget, tracked) ==
  [refresh |-> refresh, cacheOnly |-> cacheOnly, maxRequests |-> maxRequests,
   budget |-> budget, tracked |-> tracked]
MCOptions == {Opts(FALSE, FALSE, 2, 3, {src}), Opts(TRUE, FALSE, 3, 2, {old}),
              Opts(FALSE, TRUE, 1, 1, MCWhole)}
MCOneOption == {Opts(FALSE, FALSE, 2, 1, {})}
=============================================================================
