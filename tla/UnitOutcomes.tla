---------------------------- MODULE UnitOutcomes ----------------------------
(* A unit's outcome: each rule's decision on the answers the unit has so   *)
(* far (src/units/outcome).  A unit is a record of its rule, the files it  *)
(* is in, its lines and `is`, the set of what the rule reads of its detail.*)
EXTENDS SecurityOutcomes

\* A missing answer that the rule cannot do without leaves it unanswered.
Needs(g, questions, o) == IF questions \subseteq DOMAIN g THEN o ELSE Missing

(* Code: functions, tests, laws, comments. *)

FunctionOutcome(u, g) ==
  LET split == IF Benefit(g["split"]).level = "consider" /\ u.lines <= 20
               THEN AtMostNote(Benefit(g["split"])) ELSE Benefit(g["split"])
  IN Strongest({split} \cup {Benefit(g[q]) : q \in {"flatten"} \cap DOMAIN g})

\* What the assertions read weighs a test of internal details.
InternalOutcome(g) ==
  LET internal == Outcome("consider", g["internal"])
  IN IF "reads" \notin DOMAIN g THEN internal
     ELSE LET observed == Share(g["reads"], {"observed"})
          IN IF At(observed) THEN Clear
             ELSE IF Leads(100 - observed) THEN internal ELSE AtMostNote(internal)

TestValueOutcome(g) ==
  LET hollow == {g["own_logic"], g["mock_only"]}
  IN IF At(Max(hollow)) THEN Outcome("review", Max(hollow))
     ELSE IF At(g["internal"]) THEN InternalOutcome(g)
     ELSE IF At(g["several"]) THEN Outcome("note", g["several"])
     ELSE IF {Noul(n) : n \in hollow} = {Clear} THEN Clear
     ELSE Outcome("uncertain", Max({Noul(n).p : n \in hollow}))

\* Two tests are redundant when one adds nothing: a review also needs the
\* same input case and the same expected outcome, where these were asked.
TestPairOutcome(u, g) ==
  LET overlap   == Score(g["overlap"])
      separable == "distinct" \in DOMAIN g /\ ~At(100 - g["distinct"])
      differs   == /\ "identical" \notin u.is
                   /\ \E q \in {"same_input", "same_outcome"} \cap DOMAIN g : ~At(g[q])
      apart     == "identical" \notin u.is /\ Says(g, "same_outcome", "clear")
      redundant == IF overlap.level = "review" /\ (separable \/ differs)
                   THEN Outcome("consider", g["overlap"][2] + g["overlap"][3])
                   ELSE IF overlap.level = "consider" /\ apart THEN AtMostNote(overlap)
                   ELSE overlap
  IN IF redundant.level = "review" /\ "unseen_setup" \in u.is THEN Cleanup(redundant)
     ELSE IF redundant.level = "consider" /\ "no_table" \in u.is THEN AtMostNote(redundant)
     ELSE redundant

\* A law's own answer, or else what it leaves unstated and whether it checks
\* particular inputs.
LawOutcome(g) ==
  IF "states" \in DOMAIN g THEN Benefit(g["states"])
  ELSE IF "relation" \notin DOMAIN g THEN Missing
  ELSE LET gap == Share(g["relation"], {"gap"})
       IN IF "fixed" \in DOMAIN g /\ Located(g["fixed"]) THEN Outcome("consider", g["fixed"])
          ELSE IF At(gap) THEN Outcome("consider", gap)
          ELSE IF At(100 - gap) /\ ("fixed" \in DOMAIN g => Says(g, "fixed", "clear"))
          THEN Clear ELSE Outcome("uncertain", gap)

CommentScores == {"restates", "verbose"}
CommentNouls  == {"history", "disabled"}
CommentSignals(u, g) ==
  [q \in (CommentScores \cup CommentNouls) \cap DOMAIN g |->
     IF q \in CommentNouls THEN Noul(g[q])
     ELSE IF "documentation" \in u.is THEN AtMostNote(Benefit(g[q])) ELSE Benefit(g[q])]
ConcernKinds == {"restates", "narration", "history", "disabled"}
CommentOutcome(u, g) ==
  LET signals == CommentSignals(u, g)
      o       == Strongest({signals[q] : q \in DOMAIN signals})
      concern == Share(g["kind"], ConcernKinds)
      repeats == \A k \in ConcernKinds :
                   Share(g["kind"], {k}) <= Share(g["kind"], {"restates"})
  IN IF o.level # "uncertain" \/ "kind" \notin DOMAIN g THEN Cleanup(o)
     ELSE IF At(concern)
     THEN Outcome(IF "documentation" \in u.is /\ repeats THEN "note" ELSE "consider", concern)
     ELSE IF Leads(concern) THEN Outcome("note", concern) ELSE Clear
-----------------------------------------------------------------------------
(* Access control, workflows and custom questions. *)

\* A SpacetimeDB definition: its concern Nouls and the Score's top level.
ModuleOutcome(s, nouls) ==
  LET signals == {AcceptableLevels(s)} \cup {Noul(n) : n \in nouls}
      review  == {o.p : o \in {x \in signals : x.level = "review"}}
  IN IF review # {} THEN Outcome("review", Max(review))
     ELSE IF AcceptableLevels(s) = Clear THEN Clear
     ELSE Outcome("uncertain", Max({o.p : o \in signals}))

AccessAsks == [policy |-> {"others", "editable"}, definer |-> {"unchecked", "search_path"},
               grant |-> {"broad"}, table |-> {"data", "exposed"},
               view |-> {"rows", "returns_others"},
               reducer |-> {"reach", "argument_rows", "operator_only"}]
\* What a policy or grant opens may be meant to be public: a consider.
AccessOutcome(u, g) ==
  CASE "definer" \in u.is -> Strongest({Noul(g["unchecked"]), Cleanup(Noul(g["search_path"]))})
    [] "policy" \in u.is  -> Strongest({Cleanup(Noul(g[q])) : q \in AccessAsks["policy"]})
    [] "grant" \in u.is   -> Cleanup(Noul(g["broad"]))
    [] "table" \in u.is   -> Cleanup(ModuleOutcome(g["data"], {g["exposed"]}))
    [] "view" \in u.is    -> Cleanup(ModuleOutcome(g["rows"], {g["returns_others"]}))
    [] "reducer" \in u.is -> ModuleOutcome(g["reach"], {g["argument_rows"], g["operator_only"]})
    [] OTHER -> Missing
AccessAsked(u) == UNION {AccessAsks[k] : k \in DOMAIN AccessAsks \cap u.is}

WorkflowClears == [outside |-> <<"outside_source", {"none"}>>,
                   untrusted |-> <<"pull_request_code", {"base", "none"}>>]
WorkflowOutcome(g) ==
  LET asked == {"outside", "untrusted"} \cap DOMAIN g
      settled(q) ==
        IF /\ Noul(g[q]).level = "uncertain"
           /\ Holds(g, WorkflowClears[q][1], WorkflowClears[q][2], At)
        THEN Clear ELSE Noul(g[q])
  IN IF asked = {} THEN Missing ELSE Strongest({settled(q) : q \in asked})

CustomOutcome(u, g) ==
  LET n == g["custom"]
  IN IF n >= u.threshold THEN Outcome(u.strength, n)
     ELSE IF 100 - n >= u.threshold THEN Clear ELSE Outcome("uncertain", n)
-----------------------------------------------------------------------------
(* Documentation: cleanups, at most a consider. *)

StalenessOutcome(u, g) ==
  LET q == IF "plan" \in u.is THEN "plan" ELSE "relies"
      o == Cleanup(Noul(g[q]))
  IN IF q \notin DOMAIN g THEN Missing
     ELSE IF o.level = "uncertain" /\ RuledOut(g, "role", {"repository"}) THEN Clear ELSE o

SeveralDocumentKinds == {"collection"}
DocumentSplit(g) == WeighedByKind(Benefit(g["split"]), g, SeveralDocumentKinds)
DocumentOutcome(g) ==
  LET history == Cleanup(Noul(g["history"]))
      past    == IF Leads(history.p) THEN As(history, {"uncertain"}, "note") ELSE history
  IN Strongest({Cleanup(DocumentSplit(g)), past})

\* Each check of a section pair; a repetition is no concern of translations.
PairChecks(u, g) ==
  {"conflict"} \cup (IF "translated" \in u.is \/ Says(g, "translation", "review") THEN {}
                                                              ELSE {"a_covers", "b_covers"})
PairSignals(u, g) ==
  LET apart(relation) == Says(g, "subject", "clear") \/ RuledOut(g, "relation", {relation})
      settled(o, relation) == IF o.level = "uncertain" /\ apart(relation) THEN Clear ELSE o
  IN [q \in PairChecks(u, g) |->
        IF q = "conflict" THEN settled(Cleanup(Disagreement(g[q])), "contradict")
                          ELSE settled(Cleanup(Repeated(g[q])), "repeats")]
DocPairOutcome(u, g) ==
  LET signals == PairSignals(u, g) IN Strongest({signals[q] : q \in DOMAIN signals})

SectionKinds == [describes |-> "description", commands |-> "commands",
                 generic |-> "generic", history |-> "record"]
SectionNouls == {"describes", "commands", "generic", "history", "enforced"}
Inferable(g) ==
  LET o == Cleanup(Benefit(g["inferable"]))
  IN IF o.level = "uncertain" /\ Holds(g, "kind", {"instructions"}, At) THEN Clear ELSE o
\* One question about an instruction section: what the files show settles by
\* whether they show it, the rest by the section's kind.
SectionSignal(g, q) ==
  LET o    == Cleanup(Noul(g[q]))
      kind == IF q \in DOMAIN SectionKinds THEN {SectionKinds[q]} ELSE {}
  IN IF o.level # "uncertain" THEN o
     ELSE IF q \in {"describes", "commands"} /\ Inferable(g) = Clear THEN Clear
     ELSE IF kind = {} \/ "kind" \notin DOMAIN g THEN o
     ELSE IF Holds(g, "kind", kind, At) THEN Outcome("consider", Share(g["kind"], kind))
     ELSE IF RuledOut(g, "kind", kind) THEN Clear ELSE o
Scoped(g) == LET p == Max({0} \cup {g["scope"][d] : d \in DOMAIN g["scope"] \ {"none"}})
             IN IF At(p) THEN Outcome("note", p) ELSE Clear
SectionOutcome(g) ==
  Strongest({Inferable(g)} \cup {SectionSignal(g, q) : q \in SectionNouls \cap DOMAIN g}
                           \cup {Scoped(g) : q \in {"scope"} \cap DOMAIN g})
-----------------------------------------------------------------------------
LookRules == {"organization", "shared_logic", "hardcoded"}
Rules == LookRules \cup Security \cup
         {"custom", "function", "test_value", "test_pair", "law", "comment", "access",
          "workflow", "large_doc", "stale", "doc_pair", "section"}

RuleOutcome(u, g) ==
  CASE u.rule = "custom" -> Needs(g, {"custom"}, CustomOutcome(u, g))
    [] u.rule = "function" -> Needs(g, {"split"}, FunctionOutcome(u, g))
    [] u.rule \in LookRules -> Needs(g, {"look"}, LookHere(g["look"]))
    [] u.rule = "test_value" ->
         Needs(g, {"own_logic", "mock_only", "internal", "several"}, TestValueOutcome(g))
    [] u.rule = "test_pair" -> Needs(g, {"overlap"}, TestPairOutcome(u, g))
    [] u.rule = "law" -> LawOutcome(g)
    [] u.rule = "comment" -> Needs(g, {"restates", "history"}, CommentOutcome(u, g))
    [] u.rule = Injected -> InjectionOutcome(g)
    [] u.rule = Sensitive -> IF "handler" \in u.is
                             THEN Needs(g, {"handler_leaks"}, Noul(g["handler_leaks"]))
                             ELSE ExposureOutcome(Sensitive, g)
    [] u.rule = Settings -> SettingsOutcome(u.is, ExposureOutcome(Settings, g), g)
    [] u.rule = "access" -> Needs(g, AccessAsked(u), AccessOutcome(u, g))
    [] u.rule = "workflow" -> WorkflowOutcome(g)
    [] u.rule = "large_doc" -> Needs(g, {"split", "history"}, DocumentOutcome(g))
    [] u.rule = "stale" -> StalenessOutcome(u, g)
    [] u.rule = "doc_pair" -> Needs(g, PairChecks(u, g), DocPairOutcome(u, g))
    [] u.rule = "section" -> Needs(g, {"inferable"}, SectionOutcome(g))

\* Example code is written to be read and copied.
InExamples(u, o) ==
  IF "example" \notin u.is \/ u.rule = "custom" THEN o
  ELSE IF u.rule \in {Injected, Sensitive, "law"} THEN As(o, {"review"}, "consider")
  ELSE AtMostNote(o)
UnitOutcome(u, g) == InExamples(u, RuleOutcome(u, g))

\* The benefit notes split between their upper levels may hide a consider.
TornQuestions(u) == CASE u.rule = "function" -> {"split", "flatten"}
                      [] u.rule = "comment" -> CommentScores [] OTHER -> {}
Open(u, g, o) == \/ o.level = "uncertain"
                 \/ o.level = "note" /\ \E q \in TornQuestions(u) \cap DOMAIN g : Torn(g[q])
=============================================================================
