---------------------------- MODULE UnitAnswers ----------------------------
(* The answers a unit's outcome rests on, pass by pass, and the follow-ups *)
(* they call for (src/units/compose/answers.rs, due.rs and caps.rs).  `j`  *)
(* is a unit's judgments: for each pass, a function from the questions     *)
(* answered in it.  `u.asks` names the follow-ups planned for a unit.      *)
EXTENDS UnitOutcomes

Passes == {"first", "recheck", "locate", "trace", "settle"}
Asked(j, pass) == DOMAIN j[pass] # {}

\* Rechecked answers in place of held ones, unless only the held one decides.
Replaced(held, again, Judged(_, _)) ==
  With(held, [q \in {x \in DOMAIN again :
                       \/ x \notin DOMAIN held
                       \/ Decisive(Judged(x, again[x]))
                       \/ ~Decisive(Judged(x, held[x]))} |-> again[q]])

SecurityAnswers(j) ==
  LET judged(q, a) == IF q = "origin" THEN Origin(a) ELSE Noul(a)
      traced == With(j["first"], j["trace"])
  IN With(With(Replaced(traced, j["recheck"], judged), j["settle"]), j["locate"])

\* The pass whose questions sit beside the first answers.
Beside(rule) == CASE rule \in {"stale", "doc_pair", "large_doc"} -> "trace"
                  [] rule \in {"section", "workflow"} -> "recheck"
                  [] OTHER -> "none"
BesideAnswers(u, j) == With(With(j["first"], j[Beside(u.rule)]), j["settle"])

\* `before` and `after`: the outcomes of the first answers and the rechecked.
CommentAnswers(u, j, before, after) ==
  With(IF /\ Asked(j, "recheck") /\ Open(u, j["first"], before)
          /\ Decisive(after) \/ ~Decisive(before)
       THEN j["recheck"] ELSE j["first"], j["settle"])

TestValueAnswers(j) ==
  LET judged(q, a) == Noul(a)
  IN With(Replaced(j["first"], j["recheck"], judged), j["locate"])

RecheckedAnyway(u, j, before, after) ==  \* mutant: whether or not the recheck decides
  IF Asked(j, "recheck") THEN j["recheck"] ELSE j["first"]
\* A recheck takes the place of an open first pass when it decides.
Rechecked(u, j, before, after) ==
  IF Open(u, j["first"], before) /\ Asked(j, "recheck") /\ Decisive(after)
  THEN j["recheck"] ELSE j["first"]

MergedBy(u, j, before, after) ==
  CASE u.rule \in Security -> SecurityAnswers(j)
    [] Beside(u.rule) # "none" -> BesideAnswers(u, j)
    [] u.rule = "comment" -> CommentAnswers(u, j, before, after)
    [] u.rule = "test_value" -> TestValueAnswers(j)
    [] u.rule = "test_pair" -> With(Rechecked(u, j, before, after), j["locate"])
    [] OTHER -> Rechecked(u, j, before, after)
Merged(u, j) == MergedBy(u, j, UnitOutcome(u, j["first"]), UnitOutcome(u, j["recheck"]))

\* A test still undecided at its last ask leans.
LeaningTest(u, j, o) ==
  IF /\ u.rule = "test_value" /\ o.level = "uncertain" /\ ~Leads(o.p)
     /\ "recheck" \notin DOMAIN u.asks \/ Asked(j, "recheck")
  THEN Clear ELSE o
\* A unit's outcome and the answers it rests on.
ResolvedBy(u, j, g) == [outcome |-> LeaningTest(u, j, UnitOutcome(u, g)), answers |-> g]
Resolved(u, j) == ResolvedBy(u, j, Merged(u, j))
-----------------------------------------------------------------------------
(* The follow-ups a judged unit calls for; `r` is what it resolved to. *)

Untraced(u, j) ==
  /\ u.rule \in Security /\ ~Asked(j, "trace")
  /\ \E q \in Presence[u.rule] \cap DOMAIN j["first"] : Noul(j["first"][q]) # Clear

OriginUnsettled(u, j) ==
  LET g == SecurityAnswers(j)
  IN /\ u.rule = Injected /\ ~AllClear(SettledChecks(Injected, g))
     /\ "origin" \in DOMAIN g /\ Origin(g["origin"]).level \in {"uncertain", "consider"}
Unclear(u, j) ==
  /\ ~Asked(j, "recheck")
  /\ IF u.rule \in Security THEN OriginUnsettled(u, j)
     ELSE Open(u, j["first"], UnitOutcome(u, j["first"]))

\* The settle Choices due: while the unit is undecided, those of undecided
\* checks; for a consider, where its URL's code runs; and those asked
\* whenever their checks are not clear.
Unsettled(u, j, r) ==
  LET g == r.answers
      level == r.outcome.level
      open(when) == \/ level = "uncertain"
                    \/ level = "consider" /\ when = "undecided_or_finding"
      due(s) == \E c \in s.checks \cap DOMAIN g :
                  IF s.when = "not_clear" THEN Noul(g[c]) # Clear
                  ELSE open(s.when) /\ Noul(g[c]).level = "uncertain"
  IN IF u.rule \notin Security \/ ~Asked(j, "trace") \/ level = "note" THEN {}
     ELSE {s.question : s \in {x \in Settles : /\ x.rule = u.rule
                                               /\ x.question \notin DOMAIN g
                                               /\ due(x)}}

\* A stale section's or section pair's check, asked unless a plan is done.
DocCheck(u) == u.rule \in {"stale", "doc_pair"} /\ "plan" \notin u.is
UnkindedSplit(j) ==
  /\ ~Asked(j, "trace") /\ "split" \in DOMAIN j["first"]
  /\ Benefit(j["first"]["split"]).level \in {"uncertain", "consider", "review"}
UnsettledCheck(u, j, r) ==
  Asked(j, "trace") /\ ~Asked(j, "settle") /\ r.outcome.level = "uncertain"
UnsettledComment(u, j, r) ==
  /\ ~Asked(j, "settle") /\ r.outcome.level = "uncertain"
  /\ "recheck" \notin DOMAIN u.asks \/ Asked(j, "recheck")
Unkinded(u, j, r) == CASE u.rule = "comment" -> UnsettledComment(u, j, r)
                       [] DocCheck(u) -> UnsettledCheck(u, j, r)
                       [] u.rule = "large_doc" -> UnkindedSplit(j)
                       [] OTHER -> FALSE

\* A consider that rests on the function's parameters is asked their values.
ValuesDue(r) ==
  /\ r.outcome.level = "consider"
  /\ "origin" \in DOMAIN r.answers => Origin(r.answers["origin"]).level # "review"
ConfirmableOf(r) == Confirmable(SettledChecks(Injected, r.answers))
UnlocatedFinding(u, r) ==
  LET g == r.answers
      level == r.outcome.level
  IN CASE u.rule = "test_pair"  -> level = "review"
       [] u.rule = "test_value" -> level = "consider"
       [] u.rule = Injected     -> ValuesDue(r) /\ "path" \notin ConfirmableOf(r)
       [] u.rule = "function"   -> "split" \in DOMAIN g /\ Benefit(g["split"]).level = "review"
       [] u.rule = "large_doc"  -> "split" \in DOMAIN g /\ Raised(DocumentSplit(g))
       [] OTHER -> FALSE
Unconfirmed(u, r) ==
  /\ Raised(r.outcome)
  /\ \/ /\ "checked" \in DOMAIN u.asks
        /\ \E k \in ConfirmableOf(r) \ Queried : k \in {"path", "markup"} \/ ~ValuesDue(r)
     \/ "logging" \in DOMAIN u.asks /\ FoundAmong(r.answers, LogSignals)
Unqueried(u, r) ==
  /\ Raised(r.outcome)
  /\ \/ /\ "queried" \in DOMAIN u.asks /\ ~ValuesDue(r)
        /\ ConfirmableOf(r) \cap Queried # {}
     \/ "rendered" \in DOMAIN u.asks /\ FoundAmong(r.answers, {"escape"})
     \/ "readers" \in DOMAIN u.asks /\ FoundAmong(r.answers, ErrorSignals)

FirstOf(u, names) == names \cap DOMAIN u.asks   \* a unit plans one of `names`
LocatesDue(u, j, r) ==
  IF Asked(j, "locate") THEN {}
  ELSE UNION {IF Unconfirmed(u, r) THEN FirstOf(u, {"checked", "logging"}) ELSE {},
              IF Unqueried(u, r) THEN FirstOf(u, {"queried", "rendered", "readers"}) ELSE {},
              IF UnlocatedFinding(u, r) THEN FirstOf(u, {"confirm", "values", "locate"}) ELSE {}}
-----------------------------------------------------------------------------
(* Limits on what a unit's answers may raise. *)

\* Weak-setting checks whose review needs its settle Choice to name what the
\* function itself does.
ShownInFunction == [token |-> <<"token_use", "turned_off">>,
                    hash  |-> <<"password_handling", "fast_hash">>]
OutsideFunction(u, r) ==
  LET g == r.answers
      found == Found(SettledChecks(Settings, g))
      shown(c) == c \in DOMAIN ShownInFunction =>
                    Holds(g, ShownInFunction[c][1], {ShownInFunction[c][2]}, At)
  IN /\ u.rule = Settings /\ r.outcome.level = "review"
     /\ found # {} /\ \A c \in found : ~shown(c)
Capped(u, r, few) ==
  IF u.rule \in LookRules THEN r.outcome
  ELSE IF "small_section" \in u.is THEN AtMostNote(r.outcome)
  ELSE IF "test_path" \in u.is \/ OutsideFunction(u, r) \/ few THEN Lowered(r.outcome)
  ELSE r.outcome

\* Below a review, a function's look-here answer decides.
Looked(u, j, o) ==
  IF u.rule = "function" /\ o.level # "review" /\ "look" \in DOMAIN j["first"]
  THEN LookHere(j["first"]["look"]) ELSE o
=============================================================================
