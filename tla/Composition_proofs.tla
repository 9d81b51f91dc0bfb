------------------------ MODULE Composition_proofs --------------------------
(* Proofs that composition (Judging's Compose) loses no unit.  The files   *)
(* composed from the judgments are sound: their counts add up to their     *)
(* units, hold as reviews what their findings show, and give their status; *)
(* a merge keeps them sound and keeps every unit that a finding names; the *)
(* one level reports what is left.  The invariant is that the report of a  *)
(* composed evaluation is that of its judgments.                           *)
EXTENDS Judging_proofs, FiniteSetTheorems, WellFoundedInduction

-----------------------------------------------------------------------------
(* The level of every outcome.                                             *)

\* What lowers an outcome leaves it a level.
LEMMA LevelKept ==
  ASSUME NEW o, o.level \in Levels
  PROVE  /\ AtMostNote(o).level \in Levels /\ Cleanup(o).level \in Levels
         /\ Lowered(o).level \in Levels
         /\ \A u : InExamples(u, o).level \in Levels
         /\ \A from : As(o, from, "note").level \in Levels
BY AsLevel DEF AtMostNote, Cleanup, Lowered, InExamples, Levels

\* Every reading of an answer is a level, and so is the strongest of several.
LEMMA AnswerLevels ==
  ASSUME NEW a
  PROVE  /\ Noul(a).level \in Levels /\ LookHere(a).level \in Levels
         /\ Benefit(a).level \in Levels /\ Score(a).level \in Levels
         /\ AcceptableLevels(a).level \in Levels /\ Disagreement(a).level \in Levels
         /\ Repeated(a).level \in Levels /\ Origin(a).level \in Levels
         /\ Clear.level \in Levels /\ Missing.level \in Levels
<1>1. Noul(a).level \in Levels /\ Clear.level \in Levels /\ Missing.level \in Levels
  BY NoulLevels DEF Levels
<1>2. LookHere(a).level \in Levels /\ Score(a).level \in Levels /\ AcceptableLevels(a).level \in Levels
  BY NoulLevels, OutcomeLevel DEF LookHere, Score, Graded, AcceptableLevels, Levels
<1>3. Benefit(a).level \in Levels /\ Origin(a).level \in Levels
  BY BenefitLevels, OriginLevels DEF Levels
<1>4. Disagreement(a).level \in Levels
  BY <1>2, LevelKept DEF Disagreement
<1>5. Repeated(a).level \in Levels
  BY <1>2, OutcomeLevel DEF Repeated, Levels
<1>6. QED  BY <1>1, <1>2, <1>3, <1>4, <1>5

LEMMA StrongestIn == ASSUME NEW os PROVE Strongest(os).level \in Levels
BY StrongestLevel, NoulLevels DEF Levels

\* The outcomes of the rules on code, on other text, and on security, by their answers.
LEMMA CodeLevels ==
  ASSUME NEW u, NEW g
  PROVE  /\ FunctionOutcome(u, g).level \in Levels /\ TestValueOutcome(g).level \in Levels
         /\ TestPairOutcome(u, g).level \in Levels /\ LawOutcome(g).level \in Levels
         /\ CommentOutcome(u, g).level \in Levels
<1>1. FunctionOutcome(u, g).level \in Levels  BY StrongestIn DEF FunctionOutcome
<1>2. \A p : /\ Outcome("review", p).level \in Levels /\ Outcome("consider", p).level \in Levels
             /\ Outcome("note", p).level \in Levels /\ Outcome("uncertain", p).level \in Levels
  BY OutcomeLevel DEF Levels
<1>3. Clear.level \in Levels /\ Missing.level \in Levels  BY AnswerLevels
<1>4. InternalOutcome(g).level \in Levels
  BY <1>2, <1>3, LevelKept DEF InternalOutcome
<1>5. TestValueOutcome(g).level \in Levels
  BY <1>2, <1>3, <1>4 DEF TestValueOutcome
<1>6. TestPairOutcome(u, g).level \in Levels
  <2> DEFINE overlap == Score(g["overlap"])
             separable == "distinct" \in DOMAIN g /\ ~At(100 - g["distinct"])
             differs   == /\ "identical" \notin u.is
                          /\ \E q \in {"same_input", "same_outcome"} \cap DOMAIN g : ~At(g[q])
             apart     == "identical" \notin u.is /\ Says(g, "same_outcome", "clear")
             redundant == IF overlap.level = "review" /\ (separable \/ differs)
                          THEN Outcome("consider", g["overlap"][2] + g["overlap"][3])
                          ELSE IF overlap.level = "consider" /\ apart THEN AtMostNote(overlap)
                          ELSE overlap
  <2>1. overlap.level \in Levels  BY AnswerLevels
  <2>2. redundant.level \in Levels  BY <2>1, <1>2, LevelKept
  <2>3. TestPairOutcome(u, g) =
          IF redundant.level = "review" /\ "unseen_setup" \in u.is THEN Cleanup(redundant)
          ELSE IF redundant.level = "consider" /\ "no_table" \in u.is THEN AtMostNote(redundant)
          ELSE redundant
    BY DEF TestPairOutcome
  <2> HIDE DEF redundant
  <2>4. QED  BY <2>2, <2>3, LevelKept
<1>7. LawOutcome(g).level \in Levels  BY <1>2, <1>3, AnswerLevels DEF LawOutcome
<1>8. CommentOutcome(u, g).level \in Levels
  <2>1. \A o : Strongest(o).level \in Levels /\ Cleanup(Strongest(o)).level \in Levels
    BY StrongestIn, LevelKept
  <2>2. QED  BY <1>2, <1>3, <2>1 DEF CommentOutcome
<1>9. QED  BY <1>1, <1>5, <1>6, <1>7, <1>8

LEMMA OtherLevels ==
  ASSUME NEW u, NEW g
  PROVE  /\ AccessOutcome(u, g).level \in Levels /\ WorkflowOutcome(g).level \in Levels
         /\ StalenessOutcome(u, g).level \in Levels /\ DocumentOutcome(g).level \in Levels
         /\ DocPairOutcome(u, g).level \in Levels /\ SectionOutcome(g).level \in Levels
         /\ u.strength \in {"review", "consider", "note"} => CustomOutcome(u, g).level \in Levels
<1>1. \A s, nouls : ModuleOutcome(s, nouls).level \in Levels
  BY OutcomeLevel, AnswerLevels DEF ModuleOutcome, Levels
<1>2. AccessOutcome(u, g).level \in Levels
  <2>1. \A a : Cleanup(Noul(a)).level \in Levels  BY AnswerLevels, LevelKept
  <2>2. \A s, nouls : Cleanup(ModuleOutcome(s, nouls)).level \in Levels  BY <1>1, LevelKept
  <2>3. QED  BY <1>1, <2>1, <2>2, StrongestIn, AnswerLevels DEF AccessOutcome
<1>3. WorkflowOutcome(g).level \in Levels
  BY StrongestIn, AnswerLevels DEF WorkflowOutcome
<1>4. StalenessOutcome(u, g).level \in Levels
  BY LevelKept, AnswerLevels DEF StalenessOutcome
<1>5. DocumentOutcome(g).level \in Levels /\ DocPairOutcome(u, g).level \in Levels
      /\ SectionOutcome(g).level \in Levels
  BY StrongestIn DEF DocumentOutcome, DocPairOutcome, SectionOutcome
<1>6. u.strength \in {"review", "consider", "note"} => CustomOutcome(u, g).level \in Levels
  BY OutcomeLevel, AnswerLevels DEF CustomOutcome, Levels
<1>7. QED  BY <1>1, <1>2, <1>3, <1>4, <1>5, <1>6

LEMMA SecurityLevels ==
  ASSUME NEW g
  PROVE  /\ InjectionOutcome(g).level \in Levels
         /\ \A rule : ExposureOutcome(rule, g).level \in Levels
         /\ \A is, o : o.level \in Levels => SettingsOutcome(is, o, g).level \in Levels
<1>1. \A p : /\ Outcome("review", p).level \in Levels /\ Outcome("note", p).level \in Levels
             /\ Outcome("uncertain", p).level \in Levels
  BY OutcomeLevel DEF Levels
<1>2. Clear.level \in Levels /\ Missing.level \in Levels  BY AnswerLevels
<1>3. \A checks : OriginOf(g, checks).level \in Levels
  BY <1>1, AnswerLevels DEF OriginOf
<1>4. \A o, checks : o.level \in Levels => ByOrigin(o, g, checks).level \in Levels
  BY <1>1, LevelKept DEF ByOrigin
<1>5. \A o, checks : o.level \in Levels => Confirmed(o, g, checks).level \in Levels
  BY LevelKept DEF Confirmed
<1>6. \A checks : TracedOutcome(g, checks).level \in Levels
  BY <1>2, <1>3, <1>4, <1>5 DEF TracedOutcome
<1>7. InjectionOutcome(g).level \in Levels
  BY <1>1, <1>2, <1>6, InjectionShape
<1>8. \A rule, held, specific : ExposureLevel(rule, held, specific).level \in Levels
  <2>1. \A os : Strongest(os).level \in Levels /\ AtMostNote(Strongest(os)).level \in Levels
    BY StrongestIn, LevelKept
  <2>2. QED  BY <1>1, <1>2, <2>1 DEF ExposureLevel
<1>9. \A o : o.level \in Levels => InDevelopment(o, g).level \in Levels
  BY LevelKept DEF InDevelopment
<1>10. \A rule : ExposureOutcome(rule, g).level \in Levels
  BY <1>2, <1>8, <1>9, ExposureOutcomeShape
<1>11. \A is, o : o.level \in Levels => SettingsOutcome(is, o, g).level \in Levels
  BY <1>9, LevelKept DEF SettingsOutcome, SettingsModuleOutcome, DjangoOutcome
<1>12. QED  BY <1>7, <1>10, <1>11

\* A planned unit of any rule resolves to one of the levels.
LEMMA RuleLevels ==
  ASSUME NEW u, NEW g, u.rule \in Rules,
         u.rule = "custom" => u.strength \in {"review", "consider", "note"}
  PROVE  RuleOutcome(u, g).level \in Levels
<1>1. \A questions, o : o.level \in Levels => Needs(g, questions, o).level \in Levels
  BY AnswerLevels DEF Needs
<1>2. CASE u.rule \in {"custom", "function", "test_value", "test_pair", "law", "comment"} \cup LookRules
  BY <1>1, <1>2, CodeLevels, OtherLevels, AnswerLevels
     DEF RuleOutcome, LookRules, Injected, Sensitive, Settings
<1>3. CASE u.rule \in Security
  BY <1>1, <1>3, SecurityLevels, AnswerLevels
     DEF RuleOutcome, LookRules, Security, Injected, Sensitive, Settings
<1>4. CASE u.rule \in {"access", "workflow", "large_doc", "stale", "doc_pair", "section"}
  BY <1>1, <1>4, OtherLevels
     DEF RuleOutcome, LookRules, Injected, Sensitive, Settings
<1>5. QED  BY <1>2, <1>3, <1>4 DEF Rules

\* Every unit resolves to an outcome of some level.
LEMMA ResolvedLevels ==
  ASSUME Typed, NEW u \in plan.units
  PROVE  Resolution[u].outcome.level \in Levels
<1>1. /\ u.rule \in Rules
      /\ u.rule = "custom" => u.strength \in {"review", "consider", "note"}
  BY Planned DEF Typed, WellPlanned
<1>2. \A g : UnitOutcome(u, g).level \in Levels
  BY <1>1, RuleLevels, LevelKept DEF UnitOutcome
<1>3. \A g : LeaningTest(u, J(u), UnitOutcome(u, g)).level \in Levels
  BY <1>2, AnswerLevels DEF LeaningTest
<1>4. Resolution[u] = Resolved(u, J(u))  BY DEF Resolution
<1>5. QED  BY <1>3, <1>4, ResolvedOutcome
-----------------------------------------------------------------------------
(* Finite sets and their cardinalities.                                    *)

\* Least and greatest members, images, and cardinalities compared and added.
LEMMA LeastNatural ==
  ASSUME NEW S \in SUBSET Nat, S # {}
  PROVE  \E m \in S : \A n \in S : m <= n
<1>1. PICK m \in S : \A n \in S : ~(<<n, m>> \in OpToRel(<, Nat))
  BY NatLessThanWellFounded, WFMin
<1>2. \A n \in S : ~(n < m)  BY <1>1 DEF OpToRel
<1>3. \A n \in S : m \in Nat /\ n \in Nat  OBVIOUS
<1>4. QED  BY <1>2, <1>3

LEMMA GreatestNatural ==
  ASSUME NEW S \in SUBSET Nat, S # {}, NEW b \in Nat, \A n \in S : n <= b
  PROVE  \E m \in S : \A n \in S : n <= m
<1> DEFINE gaps == {b - n : n \in S}
<1>0. \A n \in S : b - n \in Nat
  <2>1. \A n \in S : n \in Nat  OBVIOUS
  <2>2. QED  BY <2>1
<1>1. gaps \in SUBSET Nat /\ gaps # {}  BY <1>0
<1> HIDE DEF gaps
<1>2. PICK g \in gaps : \A h \in gaps : g <= h  BY <1>1, LeastNatural
<1>3. PICK m \in S : g = b - m  BY DEF gaps
<1>4. \A n \in S : b - m <= b - n  BY <1>2, <1>3 DEF gaps
<1>5. \A n \in S : n \in Nat /\ m \in Nat  OBVIOUS
<1>6. QED  BY <1>4, <1>5

LEMMA ImageFinite ==
  ASSUME NEW S, IsFiniteSet(S), NEW h, DOMAIN h = S
  PROVE  IsFiniteSet({h[x] : x \in S})
<1> DEFINE g == [x \in S |-> h[x]]
           T == {h[x] : x \in S}
<1>1. g \in Surjection(S, T)  BY DEF Surjection
<1>2. QED  BY <1>1, FS_Surjection

LEMMA OneToOneBound ==
  ASSUME NEW S, NEW T, IsFiniteSet(T), NEW h, \A x \in S : h[x] \in T,
         \A x, y \in S : h[x] = h[y] => x = y
  PROVE  IsFiniteSet(S) /\ Cardinality(S) <= Cardinality(T)
<1> DEFINE g == [x \in S |-> h[x]]
<1>1. g \in Injection(S, T)  BY DEF Injection, IsInjective
<1>2. QED  BY <1>1, FS_Injection

LEMMA DisjointSum ==
  ASSUME NEW A, NEW B, IsFiniteSet(A \cup B), A \cap B = {}
  PROVE  /\ Cardinality(A \cup B) = Cardinality(A) + Cardinality(B)
         /\ Cardinality(A) \in Nat /\ Cardinality(B) \in Nat
         /\ IsFiniteSet(A) /\ IsFiniteSet(B)
<1>1. IsFiniteSet(A) /\ IsFiniteSet(B)
  <2>1. A \subseteq A \cup B /\ B \subseteq A \cup B  OBVIOUS
  <2>2. QED  BY <2>1, FS_Subset
<1>2. Cardinality(A) \in Nat /\ Cardinality(B) \in Nat
  BY <1>1, FS_CardinalityType
<1>3. Cardinality(A \cup B) = Cardinality(A) + Cardinality(B) - Cardinality(A \cap B)
  BY <1>1, FS_Union
<1>4. Cardinality(A \cap B) = 0  BY FS_EmptySet
<1>5. QED  BY <1>1, <1>2, <1>3, <1>4
-----------------------------------------------------------------------------
(* The units of a plan, their levels and their categories.                 *)

\* Sets that share no member.
Apart(A, B) == A \cap B = {}

\* Five sets that share no member add up.
LEMMA FiveParts ==
  ASSUME NEW A, NEW B, NEW C, NEW D, NEW E, IsFiniteSet(A \cup (B \cup (C \cup (D \cup E)))),
         Apart(A, B \cup (C \cup (D \cup E))), Apart(B, C \cup (D \cup E)),
         Apart(C, D \cup E), Apart(D, E)
  PROVE  /\ Cardinality(A \cup (B \cup (C \cup (D \cup E))))
              = Cardinality(A) + Cardinality(B) + Cardinality(C) + Cardinality(D) + Cardinality(E)
         /\ Cardinality(A) \in Nat /\ Cardinality(B) \in Nat /\ Cardinality(C) \in Nat
         /\ Cardinality(D) \in Nat /\ Cardinality(E) \in Nat
<1> DEFINE S1 == B \cup (C \cup (D \cup E))
           S2 == C \cup (D \cup E)
           S3 == D \cup E
<1>1. /\ Cardinality(A \cup S1) = Cardinality(A) + Cardinality(S1)
      /\ Cardinality(A) \in Nat /\ IsFiniteSet(S1)
  <2> HIDE DEF S1
  <2>1. IsFiniteSet(A \cup S1) /\ A \cap S1 = {}  BY DEF Apart, S1
  <2>2. QED  BY <2>1, DisjointSum
<1>2. /\ Cardinality(B \cup S2) = Cardinality(B) + Cardinality(S2)
      /\ Cardinality(B) \in Nat /\ IsFiniteSet(S2)
  <2> HIDE DEF S2
  <2>1. IsFiniteSet(B \cup S2) /\ B \cap S2 = {}  BY <1>1 DEF Apart, S2
  <2>2. QED  BY <2>1, DisjointSum
<1>3. /\ Cardinality(C \cup S3) = Cardinality(C) + Cardinality(S3)
      /\ Cardinality(C) \in Nat /\ IsFiniteSet(S3)
  <2> HIDE DEF S3
  <2>1. IsFiniteSet(C \cup S3) /\ C \cap S3 = {}  BY <1>2 DEF Apart, S3
  <2>2. QED  BY <2>1, DisjointSum
<1>4. /\ Cardinality(S3) = Cardinality(D) + Cardinality(E)
      /\ Cardinality(D) \in Nat /\ Cardinality(E) \in Nat
  BY <1>3, DisjointSum DEF Apart
<1>5. QED  BY <1>1, <1>2, <1>3, <1>4

\* Every unit is judged, needs context or is too small.
PresenceTyped ==
  /\ DOMAIN presence = Units
  /\ \A i \in Units : presence[i] \in {"judged", "needs_context", "too_small"}
\* Every unit resolved to some level.
Resolves(r) == \A u \in plan.units : r[u].outcome.level \in Levels

\* What a well-formed plan says of its units, and that a file's are finite.
LEMMA PlannedUnits ==
  ASSUME Typed
  PROVE  /\ IsFiniteSet(plan.units) /\ \A u, v \in plan.units : u.id = v.id => u = v
         /\ \A u \in plan.units : /\ u.rule \in Rules /\ u.file \in Nat
                                  /\ "plan" \in u.is => u.rule = "stale"
                                  /\ u.rule = "doc_pair" => u.sections \in Nat \X Nat
         /\ \A f : /\ Of(f) \subseteq plan.units /\ IsFiniteSet(Of(f))
                   /\ JudgedOf(f) \subseteq Of(f) /\ IsFiniteSet(JudgedOf(f))
<1>1. WellPlanned(plan)  BY Planned
<1>2. IsFiniteSet(plan.units) /\ \A u, v \in plan.units : u.id = v.id => u = v
  BY <1>1 DEF WellPlanned
<1>3. \A u \in plan.units : /\ u.rule \in Rules /\ u.file \in Nat
                            /\ "plan" \in u.is => u.rule = "stale"
                            /\ u.rule = "doc_pair" => u.sections \in Nat \X Nat
  BY <1>1 DEF WellPlanned
<1>4. \A f : Of(f) \subseteq plan.units /\ JudgedOf(f) \subseteq Of(f)  BY DEF Of, JudgedOf
<1>5. \A f : IsFiniteSet(Of(f)) /\ IsFiniteSet(JudgedOf(f))
  <2>1. \A S : S \subseteq plan.units => IsFiniteSet(S)  BY <1>2, FS_Subset
  <2>2. QED  BY <1>4, <2>1
<1>6. QED  BY <1>2, <1>3, <1>4, <1>5

\* Limits, looks and caps leave every unit an outcome of some level.
LEMMA LimitedLevels ==
  ASSUME Typed
  PROVE  Resolves(Resolution) /\ Resolves(Limited(Resolution))
<1>1. Resolves(Resolution)  BY ResolvedLevels DEF Resolves
<1>2. ASSUME NEW u \in plan.units PROVE Limited(Resolution)[u].outcome.level \in Levels
  <2> DEFINE r == Resolution
             o1 == Capped(u, r[u], Few(u, r))
             o2 == Looked(u, J(u), o1)
  <2>1. o1.level \in Levels  BY <1>1, LevelKept DEF Resolves, Capped
  <2>2. o2.level \in Levels  BY <2>1, AnswerLevels DEF Looked
  <2>3. Limit(u, o2).level \in Levels  BY <2>2, AsLevel DEF Limit, Levels
  <2>4. Limited(r)[u].outcome = Limit(u, o2)  BY DEF Limited, Resolution, Resolved, ResolvedBy
  <2>5. QED  BY <2>3, <2>4
<1>3. QED  BY <1>1, <1>2 DEF Resolves

\* The level a unit is shown at is its own, or a note for a lone pair of tests.
LEMMA FinalLevels ==
  ASSUME NEW r, Resolves(r), NEW u \in plan.units
  PROVE  /\ Final(u, r).level \in Levels
         /\ u.rule # "test_pair" => Final(u, r) = r[u].outcome
         /\ Final(u, r).level \in {r[u].outcome.level, "note"}
         /\ u.rule = "test_pair" => /\ Final(u, r).level # "consider"
                                    /\ r[u].outcome.level = "consider" => Final(u, r).level = "note"
BY AsLevel DEF Resolves, Final, Levels

\* Every unit is judged or of one of three other categories.
LEMMA CategoryNames ==
  ASSUME PresenceTyped, NEW u \in plan.units
  PROVE  /\ Category(u) \in {"judged", "needs_context", "too_small", "covered"}
BY DEF PresenceTyped, Category, Units

\* Redundant tests that pairs connect, and those of them each is a note alone.
LEMMA ClusterUnits ==
  ASSUME NEW f, NEW r, NEW C \in Clusters(f, r)
  PROVE  C \subseteq Redundant(f, r) /\ C # {}
BY DEF Clusters, Components

\* A grouped unit is a considered pair of tests in some cluster.
LEMMA GroupedUnits ==
  ASSUME NEW f, NEW r, NEW u \in Grouped(f, r)
  PROVE  /\ u \in JudgedOf(f) /\ u.rule = "test_pair" /\ r[u].outcome.level = "consider"
         /\ \E C \in Clusters(f, r) : u \in C
BY ClusterUnits DEF Grouped, Redundant
-----------------------------------------------------------------------------
(* The counts of a rule.                                                   *)

\* What is counted of the units of a rule.
CountNames == {"review", "consider", "note", "clear", "uncertain", "judged", "needs_context",
               "too_small", "covered"}
Counted == [CountNames -> Int]
\* The counts of a rule's units: those judged, by level, and those not.
AddsUp(c, units) ==
  /\ c["review"] + c["consider"] + c["note"] + c["clear"] + c["uncertain"] = c["judged"]
  /\ c["judged"] + c["needs_context"] + c["too_small"] + c["covered"] = Cardinality(units)
\* A file's units of a rule: all, those judged at some level, those of a category.
RuleUnits(f, rule) == {u \in Of(f) : u.rule = rule}
ShownAt(f, rule, r, levels) ==
  {u \in RuleUnits(f, rule) \cap JudgedOf(f) : Final(u, r).level \in levels}
CategoryUnits(f, rule, category) == {u \in RuleUnits(f, rule) : Category(u) = category}
GroupedUnitsOf(f, rule, r) == RuleUnits(f, rule) \cap Grouped(f, r)

\* The counts of a rule, as cardinalities of sets of its units.
LEMMA CountsShape ==
  ASSUME NEW f, NEW rule, NEW r
  PROVE  LET c == Counts(f, rule, r)
             at(levels) == Cardinality(ShownAt(f, rule, r, levels))
             not(category) == Cardinality(CategoryUnits(f, rule, category))
             grouped == Cardinality(GroupedUnitsOf(f, rule, r))
         IN  /\ DOMAIN c = CountNames /\ c = [n \in CountNames |-> c[n]]
             /\ c["review"] = at({"review"}) /\ c["consider"] = at({"consider"}) + grouped
             /\ c["note"] = at({"note"}) - grouped /\ c["clear"] = at({"clear"})
             /\ c["uncertain"] = at({"uncertain", "missing"}) /\ c["judged"] = not("judged")
             /\ c["needs_context"] = not("needs_context") /\ c["too_small"] = not("too_small")
             /\ c["covered"] = not("covered")
BY DEF Counts, ShownAt, CategoryUnits, GroupedUnitsOf, RuleUnits, CountNames

\* The counts of a rule add up to its judged units, and to all its units.
LEMMA CountsAddUp ==
  ASSUME Typed, PresenceTyped, NEW r, Resolves(r), NEW f, NEW rule
  PROVE  /\ Counts(f, rule, r) \in Counted
         /\ AddsUp(Counts(f, rule, r), RuleUnits(f, rule))
<1> DEFINE c == Counts(f, rule, r)
           at(levels) == ShownAt(f, rule, r, levels)
           in(category) == CategoryUnits(f, rule, category)
<1>1. IsFiniteSet(RuleUnits(f, rule)) /\ RuleUnits(f, rule) \subseteq plan.units
  <2>1. RuleUnits(f, rule) \subseteq Of(f)  BY DEF RuleUnits
  <2>2. QED  BY <2>1, PlannedUnits, FS_Subset
<1>2. at(Levels) = in("judged")
  BY <1>1, FinalLevels DEF ShownAt, CategoryUnits, RuleUnits, JudgedOf
<1>3. /\ at(Levels) = at({"review"}) \cup (at({"consider"}) \cup (at({"note"}) \cup
                        (at({"clear"}) \cup at({"uncertain", "missing"}))))
      /\ at({"review"}) \cap (at({"consider"}) \cup (at({"note"}) \cup
                        (at({"clear"}) \cup at({"uncertain", "missing"})))) = {}
      /\ at({"consider"}) \cap (at({"note"}) \cup
                        (at({"clear"}) \cup at({"uncertain", "missing"}))) = {}
      /\ at({"note"}) \cap (at({"clear"}) \cup at({"uncertain", "missing"})) = {}
      /\ at({"clear"}) \cap at({"uncertain", "missing"}) = {}
  BY DEF ShownAt, Levels
<1>4. /\ RuleUnits(f, rule) = in("judged") \cup (in("needs_context") \cup (in("too_small") \cup
                                (in("covered") \cup {})))
      /\ in("judged") \cap (in("needs_context") \cup (in("too_small") \cup (in("covered") \cup {}))) = {}
      /\ in("needs_context") \cap (in("too_small") \cup (in("covered") \cup {})) = {}
      /\ in("too_small") \cap (in("covered") \cup {}) = {} /\ in("covered") \cap {} = {}
  BY <1>1, CategoryNames DEF CategoryUnits
<1>5. IsFiniteSet(at(Levels)) /\ IsFiniteSet(GroupedUnitsOf(f, rule, r))
  <2>1. at(Levels) \subseteq RuleUnits(f, rule) /\ GroupedUnitsOf(f, rule, r) \subseteq RuleUnits(f, rule)
    BY DEF ShownAt, GroupedUnitsOf
  <2>2. QED  BY <1>1, <2>1, FS_Subset
<1> HIDE DEF at, in
<1>6. /\ Cardinality(at(Levels)) = Cardinality(at({"review"})) + Cardinality(at({"consider"}))
           + Cardinality(at({"note"})) + Cardinality(at({"clear"}))
           + Cardinality(at({"uncertain", "missing"}))
      /\ \A levels \in {{"review"}, {"consider"}, {"note"}, {"clear"}, {"uncertain", "missing"}} :
           Cardinality(at(levels)) \in Nat
  <2> DEFINE A == at({"review"})
             B == at({"consider"})
             C == at({"note"})
             D == at({"clear"})
             E == at({"uncertain", "missing"})
  <2> HIDE DEF A, B, C, D, E
  <2>1. /\ at(Levels) = A \cup (B \cup (C \cup (D \cup E)))
        /\ IsFiniteSet(A \cup (B \cup (C \cup (D \cup E))))
        /\ Apart(A, B \cup (C \cup (D \cup E))) /\ Apart(B, C \cup (D \cup E))
        /\ Apart(C, D \cup E) /\ Apart(D, E)
    BY <1>3, <1>5 DEF Apart, A, B, C, D, E
  <2>2. /\ Cardinality(A \cup (B \cup (C \cup (D \cup E))))
             = Cardinality(A) + Cardinality(B) + Cardinality(C) + Cardinality(D) + Cardinality(E)
        /\ Cardinality(A) \in Nat /\ Cardinality(B) \in Nat /\ Cardinality(C) \in Nat
        /\ Cardinality(D) \in Nat /\ Cardinality(E) \in Nat
    BY <2>1, FiveParts
  <2>3. QED  BY <2>1, <2>2 DEF A, B, C, D, E
<1>7. /\ Cardinality(RuleUnits(f, rule)) = Cardinality(in("judged"))
           + Cardinality(in("needs_context")) + Cardinality(in("too_small"))
           + Cardinality(in("covered")) + Cardinality({})
      /\ \A category \in {"judged", "needs_context", "too_small", "covered"} :
           Cardinality(in(category)) \in Nat
  <2> DEFINE A == in("judged")
             B == in("needs_context")
             C == in("too_small")
             D == in("covered")
             E == {}
  <2> HIDE DEF A, B, C, D, E
  <2>1. /\ RuleUnits(f, rule) = A \cup (B \cup (C \cup (D \cup E)))
        /\ IsFiniteSet(A \cup (B \cup (C \cup (D \cup E))))
        /\ Apart(A, B \cup (C \cup (D \cup E))) /\ Apart(B, C \cup (D \cup E))
        /\ Apart(C, D \cup E) /\ Apart(D, E)
    BY <1>1, <1>4 DEF Apart, A, B, C, D, E
  <2>2. /\ Cardinality(A \cup (B \cup (C \cup (D \cup E))))
             = Cardinality(A) + Cardinality(B) + Cardinality(C) + Cardinality(D) + Cardinality(E)
        /\ Cardinality(A) \in Nat /\ Cardinality(B) \in Nat /\ Cardinality(C) \in Nat
        /\ Cardinality(D) \in Nat /\ Cardinality(E) \in Nat
    BY <2>1, FiveParts
  <2>3. QED  BY <2>1, <2>2 DEF A, B, C, D, E
<1>8. Cardinality({}) = 0  BY FS_EmptySet
<1>9. Cardinality(GroupedUnitsOf(f, rule, r)) \in Nat  BY <1>5, FS_CardinalityType
<1>10. /\ DOMAIN c = CountNames /\ c = [n \in CountNames |-> c[n]]
       /\ c["review"] = Cardinality(at({"review"}))
       /\ c["consider"] = Cardinality(at({"consider"})) + Cardinality(GroupedUnitsOf(f, rule, r))
       /\ c["note"] = Cardinality(at({"note"})) - Cardinality(GroupedUnitsOf(f, rule, r))
       /\ c["clear"] = Cardinality(at({"clear"}))
       /\ c["uncertain"] = Cardinality(at({"uncertain", "missing"}))
       /\ c["judged"] = Cardinality(in("judged"))
       /\ c["needs_context"] = Cardinality(in("needs_context"))
       /\ c["too_small"] = Cardinality(in("too_small"))
       /\ c["covered"] = Cardinality(in("covered"))
  BY CountsShape DEF at, in
<1> HIDE DEF c
<1>11. \A n \in CountNames : c[n] \in Int
  BY <1>6, <1>7, <1>9, <1>10 DEF CountNames
<1>12. c \in Counted  BY <1>10, <1>11 DEF Counted
<1>13. AddsUp(c, RuleUnits(f, rule))
  BY <1>2, <1>6, <1>7, <1>8, <1>9, <1>10 DEF AddsUp
<1>14. QED  BY <1>12, <1>13 DEF c

\* What the one level makes of counts, which still add up.
LEMMA OneLevelShape ==
  ASSUME NEW rule, NEW c \in Counted
  PROVE  LET d == OneLevelCounts(rule, c)
             custom == rule = "custom"
         IN  /\ d \in Counted
             /\ d["review"] = c["review"] + c["consider"] + (IF custom THEN c["note"] ELSE 0)
             /\ d["consider"] = 0 /\ d["note"] = 0
             /\ d["clear"] = c["clear"] + (IF custom THEN 0 ELSE c["note"])
             /\ \A n \in {"uncertain", "judged", "needs_context", "too_small", "covered"} : d[n] = c[n]
<1> DEFINE e == [c EXCEPT !["review"] = @ + c["consider"], !["consider"] = 0, !["note"] = 0]
           notes == IF rule = "custom" THEN "review" ELSE "clear"
<1>1. \A n \in CountNames : c[n] \in Int  BY DEF Counted
<1>2. /\ e \in Counted
      /\ e["review"] = c["review"] + c["consider"] /\ e["consider"] = 0 /\ e["note"] = 0
      /\ \A n \in {"clear", "uncertain", "judged", "needs_context", "too_small", "covered"} : e[n] = c[n]
  BY <1>1 DEF Counted, CountNames
<1>3. OneLevelCounts(rule, c) = [e EXCEPT ![notes] = @ + c["note"]]  BY DEF OneLevelCounts
<1>4. \A n \in CountNames : e[n] \in Int  BY <1>2 DEF Counted
<1> HIDE DEF e
<1>5. QED  BY <1>1, <1>2, <1>3, <1>4 DEF Counted, CountNames

LEMMA OneLevelAddsUp ==
  ASSUME NEW rule, NEW c \in Counted, NEW units, AddsUp(c, units)
  PROVE  AddsUp(OneLevelCounts(rule, c), units)
<1>1. \A n \in CountNames : c[n] \in Int  BY DEF Counted
<1> DEFINE d == OneLevelCounts(rule, c)
<1>2. /\ d["review"] = c["review"] + c["consider"] + (IF rule = "custom" THEN c["note"] ELSE 0)
      /\ d["consider"] = 0 /\ d["note"] = 0
      /\ d["clear"] = c["clear"] + (IF rule = "custom" THEN 0 ELSE c["note"])
      /\ \A n \in {"uncertain", "judged", "needs_context", "too_small", "covered"} : d[n] = c[n]
  BY OneLevelShape
<1> HIDE DEF d
<1>3. d["review"] + d["consider"] + d["note"] + d["clear"] + d["uncertain"]
        = c["review"] + c["consider"] + c["note"] + c["clear"] + c["uncertain"]
  BY <1>1, <1>2 DEF CountNames
<1>4. AddsUp(d, units)  BY <1>2, <1>3 DEF AddsUp
<1>5. QED  BY <1>4 DEF d

\* The units a file's counts of a rule hold as reviews once levels are one.
Showing(f, rule, r) ==
  {u \in JudgedOf(f) : /\ u.rule = rule
                       /\ \/ Raised(Final(u, r)) \/ u \in Grouped(f, r)
                          \/ rule = "custom" /\ Final(u, r).level = "note"}

\* Counted at one level, the reviews of a rule are the units that show.
LEMMA ReviewsShown ==
  ASSUME Typed, PresenceTyped, NEW r, Resolves(r), NEW f, NEW rule
  PROVE  /\ OneLevelCounts(rule, Counts(f, rule, r))["review"] = Cardinality(Showing(f, rule, r))
         /\ IsFiniteSet(Showing(f, rule, r))
<1> DEFINE c == Counts(f, rule, r)
           at(levels) == ShownAt(f, rule, r, levels)
           grouped == GroupedUnitsOf(f, rule, r)
           notes == IF rule = "custom" THEN at({"note"}) ELSE {}
<1>1. IsFiniteSet(Showing(f, rule, r))
  BY PlannedUnits, FS_Subset DEF Showing
<1>2. c \in Counted  BY CountsAddUp
<1>3. /\ c["review"] = Cardinality(at({"review"}))
      /\ c["consider"] = Cardinality(at({"consider"})) + Cardinality(grouped)
      /\ c["note"] = Cardinality(at({"note"})) - Cardinality(grouped)
  BY CountsShape
<1>4. OneLevelCounts(rule, c)["review"]
        = c["review"] + c["consider"] + (IF rule = "custom" THEN c["note"] ELSE 0)
  BY <1>2, OneLevelShape
<1>5. \A u \in grouped : /\ u \in JudgedOf(f) /\ rule = "test_pair"
                         /\ Final(u, r).level = "note"
  <2>1. ASSUME NEW u \in grouped PROVE /\ u \in JudgedOf(f) /\ rule = "test_pair"
                                       /\ Final(u, r).level = "note"
    <3>1. u \in JudgedOf(f) /\ u.rule = "test_pair" /\ r[u].outcome.level = "consider" /\ u.rule = rule
      BY <2>1, GroupedUnits DEF GroupedUnitsOf, RuleUnits
    <3>2. u \in plan.units  BY <3>1, PlannedUnits
    <3>3. QED  BY <3>1, <3>2, FinalLevels
  <2>2. QED  BY <2>1
<1>6. /\ Showing(f, rule, r) = at({"review"}) \cup (at({"consider"}) \cup (grouped \cup (notes \cup {})))
      /\ at({"review"}) \cap (at({"consider"}) \cup (grouped \cup (notes \cup {}))) = {}
      /\ at({"consider"}) \cap (grouped \cup (notes \cup {})) = {}
      /\ grouped \cap (notes \cup {}) = {} /\ notes \cap {} = {}
  <2>1. \A u \in JudgedOf(f) : u \in Of(f)  BY DEF JudgedOf
  <2>2. Showing(f, rule, r) = at({"review"}) \cup (at({"consider"}) \cup (grouped \cup (notes \cup {})))
    <3>1. ASSUME NEW u PROVE u \in grouped <=> u \in Grouped(f, r) /\ u \in Of(f) /\ u.rule = rule
      BY DEF GroupedUnitsOf, RuleUnits
    <3>2. ASSUME NEW u, NEW l
          PROVE  u \in at({l}) <=> u \in JudgedOf(f) /\ u.rule = rule /\ Final(u, r).level = l
      BY <2>1 DEF ShownAt, RuleUnits
    <3> HIDE DEF at, grouped
    <3>3. QED  BY <1>5, <2>1, <3>1, <3>2 DEF Showing, Raised
  <2>3. \A u : u \in at({"review"}) => Final(u, r).level = "review"  BY DEF ShownAt
  <2>4. \A u : u \in at({"consider"}) => Final(u, r).level = "consider"  BY DEF ShownAt
  <2>5. \A u : u \in notes => Final(u, r).level = "note" /\ rule = "custom"  BY DEF ShownAt
  <2> HIDE DEF at, grouped, notes
  <2>6. QED  BY <1>5, <2>2, <2>3, <2>4, <2>5
<1> HIDE DEF c, at, grouped, notes
<1>7. /\ Cardinality(Showing(f, rule, r)) = Cardinality(at({"review"})) + Cardinality(at({"consider"}))
           + Cardinality(grouped) + Cardinality(notes) + Cardinality({})
      /\ Cardinality(at({"review"})) \in Nat /\ Cardinality(at({"consider"})) \in Nat
      /\ Cardinality(grouped) \in Nat /\ Cardinality(notes) \in Nat
  <2> DEFINE A == at({"review"})
             B == at({"consider"})
             C == grouped
             D == notes
             E == {}
  <2> HIDE DEF A, B, C, D, E
  <2>1. /\ Showing(f, rule, r) = A \cup (B \cup (C \cup (D \cup E)))
        /\ IsFiniteSet(A \cup (B \cup (C \cup (D \cup E))))
        /\ Apart(A, B \cup (C \cup (D \cup E))) /\ Apart(B, C \cup (D \cup E))
        /\ Apart(C, D \cup E) /\ Apart(D, E)
    BY <1>1, <1>6 DEF Apart, A, B, C, D, E
  <2>2. /\ Cardinality(A \cup (B \cup (C \cup (D \cup E))))
             = Cardinality(A) + Cardinality(B) + Cardinality(C) + Cardinality(D) + Cardinality(E)
        /\ Cardinality(A) \in Nat /\ Cardinality(B) \in Nat /\ Cardinality(C) \in Nat
        /\ Cardinality(D) \in Nat /\ Cardinality(E) \in Nat
    BY <2>1, FiveParts
  <2>3. QED  BY <2>1, <2>2 DEF A, B, C, D, E
<1>8. Cardinality({}) = 0  BY FS_EmptySet
<1>9. rule = "custom" => grouped = {}  BY <1>5
<1>10. OneLevelCounts(rule, c)["review"] = Cardinality(Showing(f, rule, r))
  <2>1. CASE rule = "custom"
    <3>1. notes = at({"note"}) /\ Cardinality(grouped) = 0  BY <1>8, <1>9, <2>1 DEF notes
    <3>2. QED  BY <1>3, <1>4, <1>7, <1>8, <2>1, <3>1
  <2>2. CASE rule # "custom"
    <3>1. Cardinality(notes) = 0  BY <1>8, <2>2 DEF notes
    <3>2. QED  BY <1>3, <1>4, <1>7, <1>8, <2>2, <3>1
  <2>3. QED  BY <2>1, <2>2
<1>11. QED  BY <1>1, <1>10 DEF c
-----------------------------------------------------------------------------
(* The findings of a file, before any merge.                               *)

\* A finding's fields, and whether the one level still reports it.
IsFinding(x) == /\ x = [rule |-> x.rule, level |-> x.level, units |-> x.units, kind |-> x.kind]
                /\ x.level \in {"review", "consider", "note"}
Kept(x) == x.level # "note" \/ x.rule = "custom"
\* The finding that stands for one unit.
Own(u, r) == Finding(u.rule, Final(u, r).level, {u}, Kind(u, r[u].answers))
\* A repeat of tests that the findings of redundant tests name.
Covered(u, f, findings) ==
  /\ u.rule = "shared_logic" /\ u.copies # {}
  /\ \A t \in u.copies : \E v \in Of(f) : \E x \in findings :
       v.rule = "test_pair" /\ t \in v.names /\ Kept(x) /\ x.rule = "test_pair" /\ v.id \in x.units

\* The fields of a finding, of one that stands for one unit, and of each kind.
LEMMA FindingFields ==
  ASSUME NEW rule, NEW level, NEW us, NEW kind
  PROVE  LET x == Finding(rule, level, us, kind)
         IN  /\ x.rule = rule /\ x.level = level /\ x.units = {u.id : u \in us} /\ x.kind = kind
             /\ level \in {"review", "consider", "note"} => IsFinding(x)
BY DEF Finding, IsFinding

LEMMA OwnFields ==
  ASSUME NEW u, NEW r
  PROVE  /\ Own(u, r).rule = u.rule /\ Own(u, r).level = Final(u, r).level
         /\ Own(u, r).units = {u.id} /\ Own(u, r).kind = Kind(u, r[u].answers)
         /\ Reported(u, r) => IsFinding(Own(u, r))
BY FindingFields DEF Own, Reported

LEMMA OwnOf ==
  ASSUME NEW f, NEW r, NEW x \in OwnFindings(f, r)
  PROVE  \E u \in JudgedOf(f) : x = Own(u, r) /\ Reported(u, r)
BY DEF OwnFindings, Own

LEMMA GroupOf ==
  ASSUME NEW f, NEW r, NEW x \in GroupFindings(f, r)
  PROVE  /\ x.rule = "test_pair" /\ x.level = "consider" /\ x.kind = "group" /\ IsFinding(x)
         /\ JudgedOf(f) # {}
         /\ \A i \in x.units : \E u \in JudgedOf(f) : u.id = i /\ u.rule = "test_pair"
<1>1. PICK C \in Clusters(f, r) : x = Finding("test_pair", "consider", C, "group")
  BY DEF GroupFindings
<1>2. C \subseteq Redundant(f, r) /\ C # {}  BY ClusterUnits
<1>3. \A u \in C : u \in JudgedOf(f) /\ u.rule = "test_pair"  BY <1>2 DEF Redundant
<1>4. x.units = {u.id : u \in C}  BY <1>1, FindingFields
<1>5. x.rule = "test_pair" /\ x.level = "consider" /\ x.kind = "group" /\ IsFinding(x)
  BY <1>1, FindingFields
<1>6. \A i \in x.units : \E u \in JudgedOf(f) : u.id = i /\ u.rule = "test_pair"  BY <1>3, <1>4
<1>7. QED  BY <1>2, <1>3, <1>5, <1>6

LEMMA CommentOf ==
  ASSUME Typed, NEW f, NEW r, Resolves(r), NEW x \in CommentFindings(f, r)
  PROVE  x.rule = "comment" /\ x.kind = "comment" /\ IsFinding(x) /\ JudgedOf(f) # {}
<1> DEFINE comments == {u \in JudgedOf(f) : u.rule = "comment" /\ Reported(u, r)}
           beside(u, v) == v.owner = u.owner /\ r[v].outcome.level = r[u].outcome.level
<1>1. PICK u \in comments :
        x = Finding("comment", r[u].outcome.level, {v \in comments : beside(u, v)}, "comment")
  BY DEF CommentFindings
<1>2. u \in plan.units /\ u.rule = "comment" /\ Reported(u, r) /\ u \in JudgedOf(f)
  BY PlannedUnits
<1>3. r[u].outcome.level \in {"review", "consider", "note"}
  BY <1>2, FinalLevels DEF Reported
<1> HIDE DEF comments, beside
<1>4. QED  BY <1>1, <1>2, <1>3, FindingFields

LEMMA KindNamesOf ==
  ASSUME Typed, NEW u \in plan.units, NEW g
  PROVE  /\ Kind(u, g) = "plan" => u.rule = "stale"
         /\ Kind(u, g) = "repetition" => u.rule = "doc_pair"
BY PlannedUnits DEF Kind

\* What the findings of a file are before any merge.
LEMMA BaseFindings ==
  ASSUME Typed, NEW f, NEW r, Resolves(r), NEW x \in Composed(f, r).findings
  PROVE  /\ IsFinding(x) /\ JudgedOf(f) # {}
         /\ x.kind \in {"plan", "repetition"} =>
              \E u \in JudgedOf(f) : /\ x = Own(u, r)
                                     /\ x.kind = "plan" => u.rule = "stale"
                                     /\ x.kind = "repetition" => u.rule = "doc_pair"
<1>1. x \in OwnFindings(f, r) \cup GroupFindings(f, r) \cup CommentFindings(f, r)
  BY DEF Composed, FileReport, DropCopies
<1>2. CASE x \in OwnFindings(f, r)
  <2>1. PICK u \in JudgedOf(f) : x = Own(u, r) /\ Reported(u, r)  BY <1>2, OwnOf
  <2>2. u \in plan.units  BY PlannedUnits
  <2>3. QED  BY <2>1, <2>2, OwnFields, KindNamesOf
<1>3. CASE x \in GroupFindings(f, r)
  BY <1>3, GroupOf
<1>4. CASE x \in CommentFindings(f, r)
  BY <1>4, CommentOf
<1>5. QED  BY <1>1, <1>2, <1>3, <1>4

\* A unit shown as a review is named by a finding of its file, or is a
\* repeat of tests that such findings name.
LEMMA BaseKeeps ==
  ASSUME Typed, NEW f, NEW r, Resolves(r), NEW u \in JudgedOf(f),
         \/ Raised(Final(u, r)) \/ u \in Grouped(f, r)
         \/ u.rule = "custom" /\ Final(u, r).level = "note"
  PROVE  \/ \E x \in Composed(f, r).findings :
              /\ Kept(x) /\ x.rule = u.rule /\ u.id \in x.units
              /\ u.rule \notin {"comment", "test_pair"} => x = Own(u, r)
         \/ Covered(u, f, Composed(f, r).findings)
<1> DEFINE own == OwnFindings(f, r) \cup GroupFindings(f, r)
           findings == Composed(f, r).findings
<1>1. findings = DropCopies(own) \cup CommentFindings(f, r)  BY DEF Composed, FileReport
<1>2. \A x \in own : x.rule # "shared_logic" => x \in findings  BY <1>1 DEF DropCopies
<1>3. u \in plan.units /\ u \in Of(f)  BY PlannedUnits
<1>4. CASE u \in Grouped(f, r)
  <2>1. PICK C \in Clusters(f, r) : u \in C /\ u.rule = "test_pair"  BY <1>4, GroupedUnits
  <2> DEFINE x == Finding("test_pair", "consider", C, "group")
  <2>2. x \in own  BY DEF GroupFindings
  <2>3. x.rule = "test_pair" /\ x.level = "consider" /\ u.id \in x.units  BY <2>1, FindingFields
  <2> HIDE DEF x
  <2>4. QED  BY <1>2, <2>1, <2>2, <2>3 DEF Kept
<1>5. CASE u \notin Grouped(f, r) /\ u.rule = "comment"
  <2> DEFINE comments == {v \in JudgedOf(f) : v.rule = "comment" /\ Reported(v, r)}
             beside(v, w) == w.owner = v.owner /\ r[w].outcome.level = r[v].outcome.level
             x == Finding("comment", r[u].outcome.level, {v \in comments : beside(u, v)}, "comment")
  <2>1. u \in comments /\ Raised(Final(u, r))  BY <1>5 DEF Reported, Raised
  <2>2. Raised(r[u].outcome)  BY <1>3, <1>5, <2>1, FinalLevels
  <2>3. x \in CommentFindings(f, r)  BY <2>1 DEF CommentFindings
  <2>4. x.rule = "comment" /\ x.level = r[u].outcome.level /\ u.id \in x.units
    BY <2>1, FindingFields
  <2> HIDE DEF x, comments
  <2>5. QED  BY <1>1, <1>5, <2>2, <2>3, <2>4 DEF Kept, Raised
<1>6. CASE u \notin Grouped(f, r) /\ u.rule # "comment"
  <2>1. Reported(u, r) /\ Own(u, r) \in own  BY <1>6 DEF Reported, Raised, OwnFindings, Own
  <2>2. /\ Own(u, r).rule = u.rule /\ u.id \in Own(u, r).units /\ Own(u, r).units = {u.id}
        /\ Kept(Own(u, r))
    BY <1>6, OwnFields DEF Kept, Raised
  <2>3. CASE Own(u, r) \in findings  BY <2>2, <2>3
  <2>4. CASE Own(u, r) \notin findings
    <3> DEFINE reported == {x \in own : x.rule = "test_pair" /\ x.level # "note"}
               named == Tests({v \in plan.units : \E x \in reported : v.id \in x.units})
    <3>1. u.rule = "shared_logic"  BY <1>2, <2>1, <2>2, <2>4
    <3>2. UNION {v.copies : v \in {w \in plan.units : w.id \in Own(u, r).units}} = u.copies
      <4>1. {w \in plan.units : w.id \in Own(u, r).units} = {u}  BY <1>3, <2>2, PlannedUnits
      <4>2. QED  BY <4>1
    <3>3. u.copies # {} /\ u.copies \subseteq named
      BY <1>1, <2>1, <2>4, <3>2 DEF DropCopies
    <3>4. ASSUME NEW t \in u.copies
          PROVE  \E v \in Of(f) : \E x \in findings :
                   /\ v.rule = "test_pair" /\ t \in v.names /\ Kept(x) /\ x.rule = "test_pair"
                   /\ v.id \in x.units
      <4>1. PICK v \in plan.units, x \in reported : v.id \in x.units /\ t \in v.names
        BY <3>3 DEF Tests
      <4>2. x \in findings /\ Kept(x) /\ x.rule = "test_pair"  BY <1>2 DEF Kept
      <4>3. v \in Of(f) /\ v.rule = "test_pair"
        <5>1. CASE x \in OwnFindings(f, r)
          <6>1. PICK w \in JudgedOf(f) : x = Own(w, r)  BY <5>1, OwnOf
          <6>2. w.rule = "test_pair" /\ v.id = w.id  BY <4>1, <4>2, <6>1, OwnFields
          <6>3. w \in plan.units /\ w \in Of(f)  BY PlannedUnits
          <6>4. QED  BY <6>2, <6>3, PlannedUnits
        <5>2. CASE x \in GroupFindings(f, r)
          <6>1. PICK w \in JudgedOf(f) : w.id = v.id /\ w.rule = "test_pair"
            BY <4>1, <5>2, GroupOf
          <6>2. w \in plan.units /\ w \in Of(f)  BY PlannedUnits
          <6>3. QED  BY <6>1, <6>2, PlannedUnits
        <5>3. QED  BY <5>1, <5>2
      <4>4. QED  BY <4>1, <4>2, <4>3
    <3>5. Covered(u, f, findings)  BY <3>1, <3>3, <3>4 DEF Covered
    <3>6. QED  BY <3>5
  <2>5. QED  BY <2>3, <2>4
<1>7. QED  BY <1>4, <1>5, <1>6
-----------------------------------------------------------------------------
(* What a merge keeps.                                                     *)

\* Findings of files not known to be notes, joined with a head of their own.
MergesFindings(files, merges) ==
  \A g \in merges :
    /\ g.head \in g.members
    /\ \A m \in g.members : /\ m = [file |-> m.file, x |-> m.x] /\ m.file \in DOMAIN files
                            /\ m.x \in files[m.file].findings /\ m.x.level # "note"
\* A merge lowers finitely many findings of each file.
LoweredFinite(merges) == \A f : IsFiniteSet(LoweredIn(merges, f))

\* What composition and each merge leave true of the files.
SoundFile(f, file, r) ==
  /\ file = FileReport(file.counts, file.findings)
  /\ DOMAIN file.counts = {u.rule : u \in Of(f)}
  /\ \A rule \in DOMAIN file.counts :
       /\ file.counts[rule] \in Counted
       /\ AddsUp(file.counts[rule], RuleUnits(f, rule))
       /\ file.counts[rule]["consider"] = 0
       /\ \A n \in {"uncertain", "needs_context", "judged"} :
            file.counts[rule][n] = Counts(f, rule, r)[n]
  /\ \A x \in file.findings : IsFinding(x) /\ JudgedOf(f) # {}
Sound(files, r) ==
  /\ DOMAIN files = Files \ failed
  /\ \A f \in DOMAIN files : SoundFile(f, files[f], r)

\* The units that the findings still reported name.
KeptIds(files) == UNION {UNION {x.units : x \in {y \in files[f].findings : Kept(y)}} : f \in DOMAIN files}

\* A merge, file by file and finding by finding.
LEMMA MergeFile ==
  ASSUME NEW files, NEW merges
  PROVE  LET after == Merge(files, merges)
         IN  /\ DOMAIN after = DOMAIN files
             /\ \A f \in DOMAIN files :
                  /\ after[f] = FileReport(after[f].counts, after[f].findings)
                  /\ \A x \in files[f].findings : AfterMerge(merges, f, x) \in after[f].findings
                  /\ \A y \in after[f].findings : \E x \in files[f].findings :
                       y = AfterMerge(merges, f, x)
                  /\ DOMAIN after[f].counts = DOMAIN files[f].counts
                  /\ \A rule \in DOMAIN files[f].counts :
                       after[f].counts[rule] = Recounted(merges, f, rule, files[f].counts[rule])
<1> DEFINE after == Merge(files, merges)
<1>1. DOMAIN after = DOMAIN files  BY DEF Merge
<1>2. SUFFICES ASSUME NEW f \in DOMAIN files
               PROVE  /\ after[f] = FileReport(after[f].counts, after[f].findings)
                      /\ \A x \in files[f].findings : AfterMerge(merges, f, x) \in after[f].findings
                      /\ \A y \in after[f].findings : \E x \in files[f].findings :
                           y = AfterMerge(merges, f, x)
                      /\ DOMAIN after[f].counts = DOMAIN files[f].counts
                      /\ \A rule \in DOMAIN files[f].counts :
                           after[f].counts[rule] = Recounted(merges, f, rule, files[f].counts[rule])
  BY <1>1
<1> DEFINE counts == [rule \in DOMAIN files[f].counts |->
                        Recounted(merges, f, rule, files[f].counts[rule])]
           findings == {AfterMerge(merges, f, x) : x \in files[f].findings}
<1>3. after[f] = FileReport(counts, findings)  BY DEF Merge, MergedFile
<1>4. \A c, s : FileReport(c, s).counts = c /\ FileReport(c, s).findings = s  BY DEF FileReport
<1>5. after[f].counts = counts /\ after[f].findings = findings  BY <1>3, <1>4
<1>6. QED  BY <1>3, <1>5

LEMMA AfterMergeKeeps ==
  ASSUME NEW merges, NEW f, NEW x, IsFinding(x)
  PROVE  /\ IsFinding(AfterMerge(merges, f, x))
         /\ AfterMerge(merges, f, x).rule = x.rule /\ AfterMerge(merges, f, x).kind = x.kind
<1>1. \A v : [x EXCEPT !.units = v]
               = [rule |-> x.rule, level |-> x.level, units |-> v, kind |-> x.kind]
  BY DEF IsFinding
<1>2. [x EXCEPT !.level = "note"]
        = [rule |-> x.rule, level |-> "note", units |-> x.units, kind |-> x.kind]
  BY DEF IsFinding
<1>3. x = [rule |-> x.rule, level |-> x.level, units |-> x.units, kind |-> x.kind]
  BY DEF IsFinding
<1>4. \E v : \E l \in {"note", x.level} :
        AfterMerge(merges, f, x) = [rule |-> x.rule, level |-> l, units |-> v, kind |-> x.kind]
  <2>1. CASE [file |-> f, x |-> x] \in Heads(merges)
    BY <1>1, <2>1 DEF AfterMerge
  <2>2. CASE [file |-> f, x |-> x] \notin Heads(merges) /\ x \in LoweredIn(merges, f)
    BY <1>2, <2>2 DEF AfterMerge
  <2>3. CASE [file |-> f, x |-> x] \notin Heads(merges) /\ x \notin LoweredIn(merges, f)
    <3>1. AfterMerge(merges, f, x) = x  BY <2>3 DEF AfterMerge
    <3>2. QED  BY <1>3, <3>1
  <2>4. QED  BY <2>1, <2>2, <2>3
<1>5. QED  BY <1>4 DEF IsFinding

\* A merge changes the level of what it lowers and the units of what it keeps.
LEMMA AfterMergeFields ==
  ASSUME NEW merges, NEW f, NEW x, IsFinding(x)
  PROVE  LET y == AfterMerge(merges, f, x)
             m == [file |-> f, x |-> x]
         IN  /\ IsFinding(y) /\ y.rule = x.rule /\ y.kind = x.kind
             /\ m \in Heads(merges) => y.level = x.level /\ y.units = NamedBy(merges, m)
             /\ m \notin Heads(merges) /\ x \in LoweredIn(merges, f) =>
                  y.level = "note" /\ y.units = x.units
             /\ m \notin Heads(merges) /\ x \notin LoweredIn(merges, f) => y = x
<1> DEFINE y == AfterMerge(merges, f, x)
           m == [file |-> f, x |-> x]
<1>1. \A v : [x EXCEPT !.units = v]
               = [rule |-> x.rule, level |-> x.level, units |-> v, kind |-> x.kind]
  BY DEF IsFinding
<1>2. [x EXCEPT !.level = "note"]
        = [rule |-> x.rule, level |-> "note", units |-> x.units, kind |-> x.kind]
  BY DEF IsFinding
<1>3. CASE m \in Heads(merges)
  <2>1. y = [rule |-> x.rule, level |-> x.level, units |-> NamedBy(merges, m), kind |-> x.kind]
    BY <1>1, <1>3 DEF AfterMerge
  <2>2. QED  BY <1>3, <2>1 DEF IsFinding
<1>4. CASE m \notin Heads(merges) /\ x \in LoweredIn(merges, f)
  <2>1. y = [rule |-> x.rule, level |-> "note", units |-> x.units, kind |-> x.kind]
    BY <1>2, <1>4 DEF AfterMerge
  <2>2. QED  BY <1>4, <2>1 DEF IsFinding
<1>5. CASE m \notin Heads(merges) /\ x \notin LoweredIn(merges, f)
  BY <1>5 DEF AfterMerge
<1>6. QED  BY <1>3, <1>4, <1>5

\* The findings of a rule that a merge lowers in a file.
LoweredOf(merges, f, rule) == {x \in LoweredIn(merges, f) : x.rule = rule}

\* A merge moves from the reviews to the notes as many as it lowers.
LEMMA RecountedShape ==
  ASSUME NEW merges, NEW f, NEW rule, NEW c \in Counted, LoweredFinite(merges)
  PROVE  LET d == Recounted(merges, f, rule, c)
             k == Cardinality(LoweredOf(merges, f, rule))
         IN  /\ k \in Nat /\ d \in Counted
             /\ d["review"] = c["review"] - k /\ d["note"] = c["note"] + k
             /\ \A n \in CountNames \ {"review", "note"} : d[n] = c[n]
<1> DEFINE d == Recounted(merges, f, rule, c)
           k == Cardinality(LoweredOf(merges, f, rule))
<1>1. k \in Nat
  <2>1. IsFiniteSet(LoweredOf(merges, f, rule))  BY FS_Subset DEF LoweredFinite, LoweredOf
  <2>2. QED  BY <2>1, FS_CardinalityType
<1>2. \A n \in CountNames : c[n] \in Int  BY DEF Counted
<1>3. d = [c EXCEPT !["review"] = @ - k, !["note"] = @ + k]  BY DEF Recounted, LoweredOf
<1> HIDE DEF d, k
<1>4. /\ d \in Counted /\ d["review"] = c["review"] - k /\ d["note"] = c["note"] + k
      /\ \A n \in CountNames \ {"review", "note"} : d[n] = c[n]
  BY <1>1, <1>2, <1>3 DEF Counted, CountNames
<1>5. QED  BY <1>1, <1>4 DEF d, k

LEMMA RecountedAddsUp ==
  ASSUME NEW merges, NEW f, NEW rule, NEW c \in Counted, LoweredFinite(merges), NEW units,
         AddsUp(c, units)
  PROVE  AddsUp(Recounted(merges, f, rule, c), units)
<1> DEFINE d == Recounted(merges, f, rule, c)
           k == Cardinality(LoweredOf(merges, f, rule))
<1>1. /\ k \in Nat /\ d["review"] = c["review"] - k /\ d["note"] = c["note"] + k
      /\ \A n \in CountNames \ {"review", "note"} : d[n] = c[n]
  BY RecountedShape
<1> HIDE DEF d, k
<1>2. \A n \in CountNames : c[n] \in Int  BY DEF Counted
<1>3. /\ \A n \in {"consider", "clear", "uncertain", "judged", "needs_context", "too_small",
                    "covered"} : d[n] = c[n] /\ c[n] \in Int
      /\ c["review"] \in Int /\ c["note"] \in Int
  BY <1>1, <1>2 DEF CountNames
<1>4. d["review"] + d["consider"] + d["note"] + d["clear"] + d["uncertain"]
        = c["review"] + c["consider"] + c["note"] + c["clear"] + c["uncertain"]
  BY <1>1, <1>3
<1>5. AddsUp(d, units)  BY <1>3, <1>4 DEF AddsUp
<1>6. QED  BY <1>5 DEF d

\* A merge keeps files sound.
LEMMA MergeSound ==
  ASSUME NEW files, NEW merges, NEW r, Sound(files, r), LoweredFinite(merges)
  PROVE  Sound(Merge(files, merges), r)
<1> DEFINE after == Merge(files, merges)
<1>1. SUFFICES ASSUME NEW f \in DOMAIN files PROVE SoundFile(f, after[f], r)
  <2>1. DOMAIN after = DOMAIN files  BY DEF Merge
  <2>2. QED  BY <1>1, <2>1 DEF Sound
<1>2. SoundFile(f, files[f], r)  BY DEF Sound
<1>3. /\ after[f] = FileReport(after[f].counts, after[f].findings)
      /\ \A y \in after[f].findings : \E x \in files[f].findings : y = AfterMerge(merges, f, x)
      /\ DOMAIN after[f].counts = DOMAIN files[f].counts
      /\ \A rule \in DOMAIN files[f].counts :
           after[f].counts[rule] = Recounted(merges, f, rule, files[f].counts[rule])
  BY MergeFile
<1> HIDE DEF after
<1>4. ASSUME NEW x \in after[f].findings PROVE IsFinding(x) /\ JudgedOf(f) # {}
  <2>1. PICK y \in files[f].findings : x = AfterMerge(merges, f, y)  BY <1>3
  <2>2. IsFinding(y) /\ JudgedOf(f) # {}  BY <1>2 DEF SoundFile
  <2>3. QED  BY <2>1, <2>2, AfterMergeFields
<1>5. ASSUME NEW rule \in DOMAIN after[f].counts
      PROVE  /\ after[f].counts[rule] \in Counted
             /\ AddsUp(after[f].counts[rule], RuleUnits(f, rule))
             /\ after[f].counts[rule]["consider"] = 0
             /\ \A n \in {"uncertain", "needs_context", "judged"} :
                  after[f].counts[rule][n] = Counts(f, rule, r)[n]
  <2> DEFINE c == files[f].counts[rule]
             d == after[f].counts[rule]
  <2>1. d = Recounted(merges, f, rule, c)  BY <1>3
  <2>2. /\ c \in Counted /\ AddsUp(c, RuleUnits(f, rule)) /\ c["consider"] = 0
        /\ \A n \in {"uncertain", "needs_context", "judged"} : c[n] = Counts(f, rule, r)[n]
    BY <1>2, <1>3 DEF SoundFile
  <2> HIDE DEF c, d
  <2>3. d \in Counted /\ \A n \in CountNames \ {"review", "note"} : d[n] = c[n]
    BY <2>1, <2>2, RecountedShape
  <2>4. AddsUp(d, RuleUnits(f, rule))  BY <2>1, <2>2, RecountedAddsUp
  <2>5. QED  BY <2>2, <2>3, <2>4 DEF CountNames, c, d
<1>6. QED  BY <1>2, <1>3, <1>4, <1>5 DEF SoundFile

\* A finding that a merge lowers is one of those it joins.
LEMMA LoweredFinding ==
  ASSUME NEW files, NEW merges, MergesFindings(files, merges), NEW f, NEW x \in LoweredIn(merges, f)
  PROVE  \E g \in merges : \E m \in g.members :
           /\ m.file = f /\ m.x = x /\ f \in DOMAIN files /\ x \in files[f].findings
           /\ m = [file |-> f, x |-> x]
BY DEF LoweredIn, Joined, MergesFindings

\* A merge keeps every unit that a reported finding names.
LEMMA MergeKeepsIds ==
  ASSUME NEW files, NEW merges, NEW r, Sound(files, r), MergesFindings(files, merges)
  PROVE  KeptIds(files) \subseteq KeptIds(Merge(files, merges))
<1> DEFINE after == Merge(files, merges)
<1>1. SUFFICES ASSUME NEW f \in DOMAIN files, NEW x \in files[f].findings, Kept(x), NEW i \in x.units
               PROVE  \E h \in DOMAIN files : \E y \in after[h].findings : Kept(y) /\ i \in y.units
  <2>1. DOMAIN after = DOMAIN files  BY DEF Merge
  <2> HIDE DEF after
  <2>2. QED  BY <1>1, <2>1 DEF KeptIds, after
<1>2. \A h \in DOMAIN files : \A y \in files[h].findings :
        /\ IsFinding(y) /\ AfterMerge(merges, h, y) \in after[h].findings
  BY MergeFile DEF Sound, SoundFile
<1> HIDE DEF after
<1>3. \A g \in merges : \A m \in g.members :
        g.head \in Heads(merges) /\ m.x.units \subseteq NamedBy(merges, g.head)
  BY DEF Heads, NamedBy, Joined
<1>4. ASSUME NEW g \in merges, NEW m \in g.members, i \in m.x.units
      PROVE  \E h \in DOMAIN files : \E y \in after[h].findings : Kept(y) /\ i \in y.units
  <2> DEFINE h == g.head
             y == AfterMerge(merges, h.file, h.x)
  <2>1. /\ h = [file |-> h.file, x |-> h.x] /\ h.file \in DOMAIN files
        /\ h.x \in files[h.file].findings /\ h.x.level # "note"
    BY DEF MergesFindings
  <2>2. y \in after[h.file].findings /\ IsFinding(h.x)  BY <1>2, <2>1
  <2>3. y.level = h.x.level /\ y.units = NamedBy(merges, h)
    BY <1>3, <2>1, <2>2, AfterMergeFields
  <2>4. Kept(y) /\ i \in y.units  BY <1>3, <1>4, <2>1, <2>3 DEF Kept
  <2> HIDE DEF h, y
  <2>5. QED  BY <2>1, <2>2, <2>4
<1>5. CASE [file |-> f, x |-> x] \in Heads(merges)
  <2>1. PICK g \in merges : g.head = [file |-> f, x |-> x]  BY <1>5 DEF Heads
  <2>2. g.head \in g.members /\ g.head.x = x  BY <2>1 DEF MergesFindings
  <2>3. QED  BY <1>4, <2>2
<1>6. CASE x \in LoweredIn(merges, f)
  <2>1. PICK g \in merges : \E m \in g.members : m.x = x  BY <1>6, LoweredFinding
  <2>2. QED  BY <1>4, <2>1
<1>7. CASE [file |-> f, x |-> x] \notin Heads(merges) /\ x \notin LoweredIn(merges, f)
  <2>1. AfterMerge(merges, f, x) = x  BY <1>2, <1>7, AfterMergeFields
  <2>2. x \in after[f].findings  BY <1>2, <2>1
  <2>3. QED  BY <1>1, <2>2
<1>8. QED  BY <1>5, <1>6, <1>7

\* A reported finding stays reported in its file unless a merge lowers it.
LEMMA KeptUnlessLowered ==
  ASSUME NEW files, NEW merges, NEW r, Sound(files, r), NEW f \in DOMAIN files,
         NEW x \in files[f].findings, Kept(x), x \notin LoweredIn(merges, f)
  PROVE  \E y \in Merge(files, merges)[f].findings : Kept(y) /\ y.rule = x.rule
<1>1. IsFinding(x)  BY DEF Sound, SoundFile
<1>2. AfterMerge(merges, f, x) \in Merge(files, merges)[f].findings  BY MergeFile
<1>3. /\ AfterMerge(merges, f, x).level = x.level
      /\ AfterMerge(merges, f, x).rule = x.rule
  BY <1>1, AfterMergeFields
<1>4. QED  BY <1>2, <1>3 DEF Kept
-----------------------------------------------------------------------------
(* The files composed, and the merges of finished plans.                   *)

\* The files before any merge: what they hold, and that they are sound.
LEMMA BaseFile ==
  ASSUME NEW r
  PROVE  /\ DOMAIN ComposedFiles(r) = Files \ failed
         /\ \A f \in Files \ failed :
              LET file == ComposedFiles(r)[f]
              IN  /\ file = Composed(f, r) /\ file = FileReport(file.counts, file.findings)
                  /\ DOMAIN file.counts = {u.rule : u \in Of(f)}
                  /\ \A rule \in DOMAIN file.counts :
                       file.counts[rule] = OneLevelCounts(rule, Counts(f, rule, r))
<1>1. DOMAIN ComposedFiles(r) = Files \ failed  BY DEF ComposedFiles
<1>2. SUFFICES ASSUME NEW f \in Files \ failed
               PROVE  LET file == ComposedFiles(r)[f]
                      IN  /\ file = Composed(f, r) /\ file = FileReport(file.counts, file.findings)
                          /\ DOMAIN file.counts = {u.rule : u \in Of(f)}
                          /\ \A rule \in DOMAIN file.counts :
                               file.counts[rule] = OneLevelCounts(rule, Counts(f, rule, r))
  BY <1>1
<1> DEFINE file == ComposedFiles(r)[f]
           counts == [x \in {u.rule : u \in Of(f)} |-> OneLevelCounts(x, Counts(f, x, r))]
           findings == DropCopies(OwnFindings(f, r) \cup GroupFindings(f, r)) \cup CommentFindings(f, r)
<1>3. file = Composed(f, r)  BY DEF ComposedFiles
<1>4. file = FileReport(counts, findings)  BY <1>3 DEF Composed
<1>5. file.counts = counts /\ file.findings = findings  BY <1>4 DEF FileReport
<1>6. QED  BY <1>3, <1>4, <1>5

LEMMA BaseSound ==
  ASSUME Typed, PresenceTyped, NEW r, Resolves(r)
  PROVE  /\ Sound(ComposedFiles(r), r)
         /\ \A f \in Files \ failed : \A rule \in DOMAIN ComposedFiles(r)[f].counts :
              /\ ComposedFiles(r)[f].counts[rule]["review"] = Cardinality(Showing(f, rule, r))
              /\ ComposedFiles(r)[f].counts[rule]["note"] = 0
<1>1. ASSUME NEW f \in Files \ failed
      PROVE  /\ SoundFile(f, ComposedFiles(r)[f], r)
             /\ \A rule \in DOMAIN ComposedFiles(r)[f].counts :
                  /\ ComposedFiles(r)[f].counts[rule]["review"] = Cardinality(Showing(f, rule, r))
                  /\ ComposedFiles(r)[f].counts[rule]["note"] = 0
  <2> DEFINE file == ComposedFiles(r)[f]
  <2>1. /\ file = Composed(f, r) /\ file = FileReport(file.counts, file.findings)
        /\ DOMAIN file.counts = {u.rule : u \in Of(f)}
        /\ \A rule \in DOMAIN file.counts :
             file.counts[rule] = OneLevelCounts(rule, Counts(f, rule, r))
    BY BaseFile
  <2> HIDE DEF file
  <2>2. ASSUME NEW rule \in DOMAIN file.counts
        PROVE  /\ file.counts[rule] \in Counted
               /\ AddsUp(file.counts[rule], RuleUnits(f, rule))
               /\ file.counts[rule]["consider"] = 0 /\ file.counts[rule]["note"] = 0
               /\ \A n \in {"uncertain", "needs_context", "judged"} :
                    file.counts[rule][n] = Counts(f, rule, r)[n]
               /\ file.counts[rule]["review"] = Cardinality(Showing(f, rule, r))
    <3> DEFINE c == Counts(f, rule, r)
    <3>1. c \in Counted /\ AddsUp(c, RuleUnits(f, rule))  BY CountsAddUp
    <3>2. OneLevelCounts(rule, c)["review"] = Cardinality(Showing(f, rule, r))  BY ReviewsShown
    <3>3. file.counts[rule] = OneLevelCounts(rule, c)  BY <2>1
    <3> HIDE DEF c
    <3>4. AddsUp(OneLevelCounts(rule, c), RuleUnits(f, rule))  BY <3>1, OneLevelAddsUp
    <3>5. /\ OneLevelCounts(rule, c) \in Counted
          /\ OneLevelCounts(rule, c)["consider"] = 0 /\ OneLevelCounts(rule, c)["note"] = 0
          /\ \A n \in {"uncertain", "needs_context", "judged"} : OneLevelCounts(rule, c)[n] = c[n]
      BY <3>1, OneLevelShape
    <3>6. QED  BY <3>2, <3>3, <3>4, <3>5 DEF c
  <2>3. \A x \in file.findings : IsFinding(x) /\ JudgedOf(f) # {}
    BY <2>1, BaseFindings
  <2>4. QED  BY <2>1, <2>2, <2>3 DEF SoundFile, file
<1>2. QED  BY <1>1, BaseFile DEF Sound

\* A finding of one unit that a merge may join, and its file.
StandsForOne(m, rule, r) ==
  \E u \in JudgedOf(m.file) : u.rule = rule /\ m.x = Own(u, r)

\* What a merge may join stands for one unit, so what it lowers is finite.
LEMMA ThatOf ==
  ASSUME NEW files, NEW m
  PROVE  /\ m \in FindingsThat(files, FinishedPlan) =>
              /\ m = [file |-> m.file, x |-> m.x] /\ m.file \in DOMAIN files
              /\ m.x \in files[m.file].findings /\ m.x.kind = "plan" /\ m.x.level # "note"
         /\ m \in FindingsThat(files, Repetition) =>
              /\ m = [file |-> m.file, x |-> m.x] /\ m.file \in DOMAIN files
              /\ m.x \in files[m.file].findings /\ m.x.kind = "repetition" /\ m.x.level # "note"
BY DEF FindingsThat, FinishedPlan, Repetition

LEMMA UnitStood ==
  ASSUME Typed, NEW r, NEW m, NEW rule, StandsForOne(m, rule, r)
  PROVE  UnitOf(m) \in plan.units /\ UnitOf(m).rule = rule /\ m.x = Own(UnitOf(m), r)
<1>1. PICK u \in JudgedOf(m.file) : u.rule = rule /\ m.x = Own(u, r)  BY DEF StandsForOne
<1>2. u \in plan.units /\ m.x.units = {u.id}  BY <1>1, PlannedUnits, OwnFields
<1>3. UnitOf(m) = u  BY <1>2, PlannedUnits DEF UnitOf
<1>4. QED  BY <1>1, <1>2, <1>3

LEMMA StoodFinite ==
  ASSUME Typed, NEW r, NEW rule, NEW merges,
         \A m \in Joined(merges) : StandsForOne(m, rule, r)
  PROVE  LoweredFinite(merges)
<1>1. SUFFICES ASSUME NEW f PROVE IsFiniteSet(LoweredIn(merges, f))  BY DEF LoweredFinite
<1> DEFINE own == [u \in JudgedOf(f) |-> Own(u, r)]
           all == {own[u] : u \in JudgedOf(f)}
<1>2. IsFiniteSet(all)
  <2>1. DOMAIN own = JudgedOf(f) /\ IsFiniteSet(JudgedOf(f))  BY PlannedUnits
  <2> HIDE DEF own
  <2>2. QED  BY <2>1, ImageFinite
<1>3. LoweredIn(merges, f) \subseteq all
  <2>1. ASSUME NEW x \in LoweredIn(merges, f) PROVE x \in all
    <3>1. PICK m \in Joined(merges) : m.file = f /\ m.x = x  BY DEF LoweredIn
    <3>2. PICK u \in JudgedOf(f) : x = Own(u, r)  BY <3>1 DEF StandsForOne
    <3>3. QED  BY <3>2
  <2>2. QED  BY <2>1
<1>4. QED  BY <1>2, <1>3, FS_Subset

\* The first plan by path is one of them.
LEMMA FirstByPathIn ==
  ASSUME NEW plans, plans # {}, \A m \in plans : m.file \in Nat
  PROVE  FirstByPath(plans) \in plans
<1> DEFINE paths == {m.file : m \in plans}
<1>1. paths \in SUBSET Nat /\ paths # {}  OBVIOUS
<1> HIDE DEF paths
<1>2. PICK p \in paths : \A q \in paths : p <= q  BY <1>1, LeastNatural
<1>3. \E m \in plans : \A n \in plans : m.file <= n.file  BY <1>2 DEF paths
<1>4. QED  BY <1>3 DEF FirstByPath

LEMMA FileNumbers == ASSUME Typed PROVE Files \subseteq Nat
BY PlannedUnits DEF Files

\* The merges of finished plans join findings of the files, each of one unit.
LEMMA PlansMerge ==
  ASSUME Typed, PresenceTyped, NEW r, Resolves(r)
  PROVE  LET files == ComposedFiles(r)
         IN  /\ MergesFindings(files, PlanMerges(files)) /\ LoweredFinite(PlanMerges(files))
             /\ \A m \in Joined(PlanMerges(files)) :
                  StandsForOne(m, "stale", r) /\ m.x.kind = "plan"
<1> DEFINE files == ComposedFiles(r)
           merges == PlanMerges(files)
<1>1. \A m \in FindingsThat(files, FinishedPlan) :
        /\ m = [file |-> m.file, x |-> m.x] /\ m.file \in DOMAIN files /\ m.file \in Nat
        /\ m.x \in files[m.file].findings /\ m.x.level # "note" /\ m.x.kind = "plan"
  BY ThatOf, BaseFile, FileNumbers
<1>2. ASSUME NEW m \in FindingsThat(files, FinishedPlan) PROVE StandsForOne(m, "stale", r)
  <2>1. m.x \in Composed(m.file, r).findings  BY <1>1, BaseFile
  <2>2. QED  BY <1>1, <2>1, BaseFindings DEF StandsForOne
<1> HIDE DEF files
<1>3. ASSUME NEW g \in merges
      PROVE  g.members \subseteq FindingsThat(files, FinishedPlan) /\ g.head \in g.members
  <2>1. PICK d : /\ Cardinality(PlansIn(files, d)) >= 2 /\ g.members = PlansIn(files, d)
                 /\ g.head = FirstByPath(PlansIn(files, d))
    BY DEF PlanMerges
  <2>2. PlansIn(files, d) \subseteq FindingsThat(files, FinishedPlan)  BY DEF PlansIn
  <2>3. PlansIn(files, d) # {}  BY <2>1, FS_EmptySet
  <2>4. FirstByPath(PlansIn(files, d)) \in PlansIn(files, d)
    BY <1>1, <2>2, <2>3, FirstByPathIn
  <2>5. QED  BY <2>1, <2>2, <2>4
<1> HIDE DEF merges
<1>4. MergesFindings(files, merges)  BY <1>1, <1>3 DEF MergesFindings
<1>5. \A m \in Joined(merges) : StandsForOne(m, "stale", r) /\ m.x.kind = "plan"
  BY <1>1, <1>2, <1>3 DEF Joined
<1>6. LoweredFinite(merges)  BY <1>5, StoodFinite
<1>7. QED  BY <1>4, <1>5, <1>6 DEF merges, files

\* Grouping plans leaves every repetition as it was.
LEMMA RepetitionsStay ==
  ASSUME Typed, PresenceTyped, NEW r, Resolves(r), NEW f \in Files \ failed
  PROVE  /\ \A x \in ComposedFiles(r)[f].findings :
              AfterMerge(PlanMerges(ComposedFiles(r)), f, x).kind = "repetition" =>
                AfterMerge(PlanMerges(ComposedFiles(r)), f, x) = x
         /\ \A y \in GroupPlans(ComposedFiles(r))[f].findings :
              y.kind = "repetition" => \E u \in JudgedOf(f) : u.rule = "doc_pair" /\ y = Own(u, r)
<1> DEFINE files == ComposedFiles(r)
           merges == PlanMerges(files)
<1>1. /\ f \in DOMAIN files /\ files[f] = Composed(f, r)
      /\ \A y \in GroupPlans(files)[f].findings : \E x \in files[f].findings :
           y = AfterMerge(merges, f, x)
  BY BaseFile, MergeFile DEF GroupPlans
<1>2. \A g \in merges : g.head \in Joined(merges)
  BY PlansMerge DEF MergesFindings, Joined
<1>3. \A m \in Joined(merges) : m.x.kind = "plan"  BY PlansMerge
<1> HIDE DEF files, merges
<1>4. ASSUME NEW x \in files[f].findings, AfterMerge(merges, f, x).kind = "repetition"
      PROVE  AfterMerge(merges, f, x) = x /\ x.kind = "repetition"
  <2>1. IsFinding(x)  BY <1>1, BaseFindings
  <2>2. x.kind = "repetition"  BY <1>4, <2>1, AfterMergeKeeps
  <2>3. [file |-> f, x |-> x] \notin Heads(merges)
    <3>1. ASSUME NEW g \in merges, g.head = [file |-> f, x |-> x] PROVE FALSE
      <4>1. g.head.x = x  BY <3>1
      <4>2. QED  BY <1>2, <1>3, <2>2, <4>1
    <3>2. QED  BY <3>1 DEF Heads
  <2>4. x \notin LoweredIn(merges, f)  BY <1>3, <2>2 DEF LoweredIn
  <2>5. QED  BY <2>1, <2>2, <2>3, <2>4, AfterMergeFields
<1>5. ASSUME NEW y \in GroupPlans(files)[f].findings, y.kind = "repetition"
      PROVE  \E u \in JudgedOf(f) : u.rule = "doc_pair" /\ y = Own(u, r)
  <2>1. y \in files[f].findings  BY <1>1, <1>4, <1>5
  <2>2. QED  BY <1>1, <1>5, <2>1, BaseFindings
<1>6. QED  BY <1>4, <1>5 DEF files, merges
-----------------------------------------------------------------------------
(* The merges of repetitions.                                              *)

\* The two sections of a repetition's pair.
Sections(m) == {SectionsOf(m)[1], SectionsOf(m)[2]}

\* The repetition kept of those that share sections is one of them.
LEMMA SectionHeadIn ==
  ASSUME NEW C, IsFiniteSet(C), C # {}, \A m \in C : SectionsOf(m) \in Nat \X Nat
  PROVE  SectionHead(C) \in C
<1> DEFINE names(s) == {m \in C : Names(m, s)}
           named(s) == Cardinality(names(s))
           sections == UNION {Sections(m) : m \in C}
           most == {s \in sections : \A t \in sections : named(t) <= named(s)}
           heads == {m \in C : Names(m, Min(most))}
<1>1. \A m \in C : SectionsOf(m)[1] \in Nat /\ SectionsOf(m)[2] \in Nat  OBVIOUS
<1>2. sections \in SUBSET Nat /\ sections # {}  BY <1>1 DEF Sections
<1>3. \A s : named(s) \in Nat /\ named(s) <= Cardinality(C)
  <2>1. \A s : names(s) \in SUBSET C  OBVIOUS
  <2> HIDE DEF names
  <2>2. QED  BY <2>1, FS_Subset, FS_CardinalityType
<1>4. \A s \in sections : \E m \in C : Names(m, s)  BY DEF Sections, Names
<1>5. SectionHead(C) = CHOOSE m \in heads : \A n \in heads : SectionsOf(m)[1] <= SectionsOf(n)[1]
  BY DEF SectionHead, Sections
<1> HIDE DEF names, named, sections
<1>6. most \in SUBSET Nat /\ most # {}
  <2> DEFINE all == {named(s) : s \in sections}
  <2>1. all \in SUBSET Nat /\ all # {} /\ \A n \in all : n <= Cardinality(C)  BY <1>2, <1>3
  <2>2. Cardinality(C) \in Nat  BY FS_CardinalityType
  <2> HIDE DEF all
  <2>3. PICK k \in all : \A n \in all : n <= k  BY <2>1, <2>2, GreatestNatural
  <2>4. QED  BY <1>2, <2>3 DEF all
<1> HIDE DEF most
<1>7. Min(most) \in most
  <2>1. \E m \in most : \A n \in most : m <= n  BY <1>6, LeastNatural
  <2>2. QED  BY <2>1 DEF Min
<1>8. Min(most) \in sections  BY <1>7 DEF most
<1>9. heads # {} /\ heads \subseteq C  BY <1>4, <1>8
<1> HIDE DEF heads
<1>10. \E m \in heads : \A n \in heads : SectionsOf(m)[1] <= SectionsOf(n)[1]
  <2> DEFINE firsts == {SectionsOf(m)[1] : m \in heads}
  <2>1. firsts \in SUBSET Nat /\ firsts # {}  BY <1>1, <1>9
  <2> HIDE DEF firsts
  <2>2. PICK k \in firsts : \A n \in firsts : k <= n  BY <2>1, LeastNatural
  <2>3. QED  BY <2>2 DEF firsts
<1>11. SectionHead(C) \in heads  BY <1>5, <1>10
<1>12. QED  BY <1>9, <1>11

\* The merges of repetitions join findings of the files, each of one unit.
LEMMA SectionsMerge ==
  ASSUME Typed, PresenceTyped, NEW r, Resolves(r)
  PROVE  LET files == GroupPlans(ComposedFiles(r))
         IN  /\ MergesFindings(files, SectionMerges(files)) /\ LoweredFinite(SectionMerges(files))
             /\ \A m \in Joined(SectionMerges(files)) :
                  StandsForOne(m, "doc_pair", r) /\ m.x.kind = "repetition"
<1> DEFINE files == GroupPlans(ComposedFiles(r))
           merges == SectionMerges(files)
           repetitions == FindingsThat(files, Repetition)
<1>1. DOMAIN files = Files \ failed  BY BaseFile, MergeFile DEF GroupPlans
<1>2. \A m \in repetitions :
        /\ m = [file |-> m.file, x |-> m.x] /\ m.file \in DOMAIN files
        /\ m.x \in files[m.file].findings /\ m.x.level # "note" /\ m.x.kind = "repetition"
  BY ThatOf
<1>3. ASSUME NEW m \in repetitions PROVE StandsForOne(m, "doc_pair", r)
  BY <1>1, <1>2, RepetitionsStay DEF StandsForOne
<1> HIDE DEF files
<1>4. IsFiniteSet(repetitions)
  <2> DEFINE own == [u \in plan.units |-> [file |-> u.file, x |-> Own(u, r)]]
             all == {own[u] : u \in plan.units}
  <2>1. IsFiniteSet(all)
    <3>1. DOMAIN own = plan.units /\ IsFiniteSet(plan.units)  BY PlannedUnits
    <3> HIDE DEF own
    <3>2. QED  BY <3>1, ImageFinite
  <2>2. ASSUME NEW m \in repetitions PROVE m \in all
    <3>1. PICK u \in JudgedOf(m.file) : m.x = Own(u, r)  BY <1>3 DEF StandsForOne
    <3>2. u \in plan.units /\ u.file = m.file  BY PlannedUnits DEF Of
    <3>3. m = own[u]  BY <1>2, <3>1, <3>2
    <3>4. QED  BY <3>2, <3>3
  <2>3. repetitions \in SUBSET all  BY <2>2
  <2> HIDE DEF all, repetitions
  <2>4. QED  BY <2>1, <2>3, FS_Subset
<1> HIDE DEF repetitions
<1>5. \A m \in repetitions : SectionsOf(m) \in Nat \X Nat
  BY <1>3, UnitStood, PlannedUnits DEF SectionsOf
<1>6. ASSUME NEW g \in merges
      PROVE  g.members \subseteq repetitions /\ g.head \in g.members
  <2> DEFINE linked(m, n) == \E s \in {SectionsOf(m)[1], SectionsOf(m)[2]} : Names(n, s)
  <2>1. PICK C \in Components(repetitions, linked) : g = [head |-> SectionHead(C), members |-> C]
    BY DEF SectionMerges, repetitions
  <2>2. C \in SUBSET repetitions /\ C # {}  BY <2>1 DEF Components
  <2>3. IsFiniteSet(C)  BY <1>4, <2>2, FS_Subset
  <2>4. \A m \in C : SectionsOf(m) \in Nat \X Nat  BY <1>5, <2>2
  <2>5. SectionHead(C) \in C  BY <2>2, <2>3, <2>4, SectionHeadIn
  <2>6. QED  BY <2>1, <2>2, <2>5
<1> HIDE DEF merges
<1>7. MergesFindings(files, merges)  BY <1>2, <1>6 DEF MergesFindings
<1>8. \A m \in Joined(merges) : StandsForOne(m, "doc_pair", r) /\ m.x.kind = "repetition"
  BY <1>2, <1>3, <1>6 DEF Joined
<1>9. LoweredFinite(merges)  BY <1>8, StoodFinite
<1>10. QED  BY <1>7, <1>8, <1>9 DEF merges, files

\* The files after both merges.
MergedFiles(r) == GroupSections(GroupPlans(ComposedFiles(r)))

\* Both merges keep files sound, and every unit that a reported finding names.
LEMMA GroupedSound ==
  ASSUME Typed, PresenceTyped, NEW r, Resolves(r)
  PROVE  /\ Sound(GroupPlans(ComposedFiles(r)), r) /\ Sound(MergedFiles(r), r)
         /\ KeptIds(ComposedFiles(r)) \subseteq KeptIds(MergedFiles(r))
<1> DEFINE base == ComposedFiles(r)
           plans == GroupPlans(base)
<1>1. Sound(base, r)  BY BaseSound
<1>2. MergesFindings(base, PlanMerges(base)) /\ LoweredFinite(PlanMerges(base))  BY PlansMerge
<1>3. MergesFindings(plans, SectionMerges(plans)) /\ LoweredFinite(SectionMerges(plans))
  BY SectionsMerge
<1>4. plans = Merge(base, PlanMerges(base)) /\ MergedFiles(r) = Merge(plans, SectionMerges(plans))
  BY DEF GroupPlans, GroupSections, MergedFiles
<1> HIDE DEF base, plans
<1>5. Sound(plans, r) /\ KeptIds(base) \subseteq KeptIds(plans)
  BY <1>1, <1>2, <1>4, MergeSound, MergeKeepsIds
<1>6. Sound(MergedFiles(r), r) /\ KeptIds(plans) \subseteq KeptIds(MergedFiles(r))
  BY <1>3, <1>4, <1>5, MergeSound, MergeKeepsIds
<1>7. QED  BY <1>5, <1>6 DEF base, plans

\* Of a file that reports nothing, every reported finding of its own was
\* lowered by one of the merges.
LEMMA LoweredByMerges ==
  ASSUME Typed, PresenceTyped, NEW r, Resolves(r), NEW f \in Files \ failed,
         \A y \in MergedFiles(r)[f].findings : ~Kept(y),
         NEW x \in ComposedFiles(r)[f].findings, Kept(x)
  PROVE  \/ x \in LoweredIn(PlanMerges(ComposedFiles(r)), f)
         \/ x \in LoweredIn(SectionMerges(GroupPlans(ComposedFiles(r))), f)
<1> DEFINE base == ComposedFiles(r)
           plans == GroupPlans(base)
           first == PlanMerges(base)
           second == SectionMerges(plans)
<1>1. Sound(base, r) /\ f \in DOMAIN base  BY BaseSound, BaseFile
<1>2. Sound(plans, r) /\ f \in DOMAIN plans  BY GroupedSound DEF Sound
<1>3. plans = Merge(base, first) /\ MergedFiles(r) = Merge(plans, second)
  BY DEF GroupPlans, GroupSections, MergedFiles
<1>4. \A m \in Joined(second) : m.x.kind = "repetition"  BY SectionsMerge
<1>5. \A y \in base[f].findings :
        AfterMerge(first, f, y).kind = "repetition" => AfterMerge(first, f, y) = y
  BY RepetitionsStay
<1> HIDE DEF base, plans, first, second
<1>6. SUFFICES ASSUME x \notin LoweredIn(first, f) PROVE x \in LoweredIn(second, f)
  BY DEF base, plans, first, second
<1> DEFINE y == AfterMerge(first, f, x)
<1>7. x \in base[f].findings  BY DEF base
<1>8. y \in plans[f].findings  BY <1>1, <1>3, <1>7, MergeFile
<1>9. IsFinding(x)  BY <1>1, <1>7 DEF Sound, SoundFile
<1>10. y.level = x.level /\ y.rule = x.rule  BY <1>6, <1>9, AfterMergeFields
<1>11. Kept(y)  BY <1>10 DEF Kept
<1> HIDE DEF y
<1>12. y \in LoweredIn(second, f)  BY <1>2, <1>3, <1>8, <1>11, KeptUnlessLowered
<1>13. y.kind = "repetition"  BY <1>4, <1>12 DEF LoweredIn
<1>14. y = x  BY <1>5, <1>7, <1>13 DEF y
<1>15. QED  BY <1>12, <1>14
-----------------------------------------------------------------------------
(* Files that report nothing.                                              *)

\* The findings of a rule that each merge lowers in a file.
PlansLowered(f, rule, r) == LoweredOf(PlanMerges(ComposedFiles(r)), f, rule)
RepetitionsLowered(f, rule, r) == LoweredOf(SectionMerges(GroupPlans(ComposedFiles(r))), f, rule)

\* What a merge lowers are the plans, or the repetitions, of one rule.
LEMMA LoweredKinds ==
  ASSUME Typed, PresenceTyped, NEW r, Resolves(r), NEW f
  PROVE  LET first == PlanMerges(ComposedFiles(r))
             second == SectionMerges(GroupPlans(ComposedFiles(r)))
         IN  /\ LoweredFinite(first) /\ LoweredFinite(second)
             /\ \A x \in LoweredIn(first, f) : x.kind = "plan" /\ x.rule = "stale"
             /\ \A x \in LoweredIn(second, f) : x.kind = "repetition" /\ x.rule = "doc_pair"
             /\ \A x \in LoweredIn(first, f) \cup LoweredIn(second, f) :
                  \E u \in Showing(f, x.rule, r) : x = Own(u, r)
<1> DEFINE base == ComposedFiles(r)
           plans == GroupPlans(base)
           first == PlanMerges(base)
           second == SectionMerges(plans)
<1>1. Sound(base, r) /\ Sound(plans, r)  BY BaseSound, GroupedSound
<1>2. /\ LoweredFinite(first) /\ LoweredFinite(second)
      /\ MergesFindings(base, first) /\ MergesFindings(plans, second)
  BY PlansMerge, SectionsMerge
<1>3. /\ \A m \in Joined(first) : StandsForOne(m, "stale", r) /\ m.x.kind = "plan"
      /\ \A m \in Joined(second) : StandsForOne(m, "doc_pair", r) /\ m.x.kind = "repetition"
  BY PlansMerge, SectionsMerge
<1> HIDE DEF base, plans, first, second
<1>4. /\ \A m \in Joined(first) : IsFinding(m.x) /\ m.x.level # "note"
      /\ \A m \in Joined(second) : IsFinding(m.x) /\ m.x.level # "note"
  BY <1>1, <1>2 DEF MergesFindings, Joined, Sound, SoundFile
<1>5. ASSUME NEW m, NEW rule, StandsForOne(m, rule, r), IsFinding(m.x), m.x.level # "note"
      PROVE  m.x.rule = rule /\ \E u \in Showing(m.file, rule, r) : m.x = Own(u, r)
  <2>1. PICK u \in JudgedOf(m.file) : u.rule = rule /\ m.x = Own(u, r)  BY <1>5 DEF StandsForOne
  <2>2. m.x.rule = rule /\ m.x.level = Final(u, r).level  BY <2>1, OwnFields
  <2>3. Raised(Final(u, r))  BY <1>5, <2>2 DEF IsFinding, Raised
  <2>4. u \in Showing(m.file, rule, r)  BY <2>1, <2>3 DEF Showing
  <2>5. QED  BY <2>1, <2>2, <2>4
<1>6. \A x \in LoweredIn(first, f) : \E m \in Joined(first) : m.file = f /\ m.x = x
  BY DEF LoweredIn
<1>7. \A x \in LoweredIn(second, f) : \E m \in Joined(second) : m.file = f /\ m.x = x
  BY DEF LoweredIn
<1>8. \A x \in LoweredIn(first, f) : /\ x.kind = "plan" /\ x.rule = "stale"
                                     /\ \E u \in Showing(f, x.rule, r) : x = Own(u, r)
  BY <1>3, <1>4, <1>5, <1>6
<1>9. \A x \in LoweredIn(second, f) : /\ x.kind = "repetition" /\ x.rule = "doc_pair"
                                      /\ \E u \in Showing(f, x.rule, r) : x = Own(u, r)
  BY <1>3, <1>4, <1>5, <1>7
<1>10. QED  BY <1>2, <1>8, <1>9 DEF base, plans, first, second

\* What both merges leave of the counts of a rule.
LEMMA MergedCounts ==
  ASSUME Typed, PresenceTyped, NEW r, Resolves(r), NEW f \in Files \ failed,
         NEW rule \in DOMAIN MergedFiles(r)[f].counts
  PROVE  LET A == PlansLowered(f, rule, r)
             B == RepetitionsLowered(f, rule, r)
             c == OneLevelCounts(rule, Counts(f, rule, r))
             e == MergedFiles(r)[f].counts[rule]
         IN  /\ IsFiniteSet(A) /\ IsFiniteSet(B) /\ A \cap B = {}
             /\ Cardinality(A) \in Nat /\ Cardinality(B) \in Nat
             /\ rule = "custom" => A = {} /\ B = {}
             /\ c \in Counted /\ e \in Counted
             /\ c["review"] = Cardinality(Showing(f, rule, r)) /\ c["note"] = 0
             /\ e["review"] = c["review"] - Cardinality(A) - Cardinality(B)
             /\ e["note"] = Cardinality(A) + Cardinality(B)
             /\ \A n \in CountNames \ {"review", "note"} : e[n] = c[n]
<1> DEFINE base == ComposedFiles(r)
           plans == GroupPlans(base)
           first == PlanMerges(base)
           second == SectionMerges(plans)
           A == PlansLowered(f, rule, r)
           B == RepetitionsLowered(f, rule, r)
           c == base[f].counts[rule]
           d == plans[f].counts[rule]
           e == MergedFiles(r)[f].counts[rule]
<1>1. /\ Sound(base, r) /\ f \in DOMAIN base
      /\ \A s \in DOMAIN base[f].counts :
           /\ base[f].counts[s]["review"] = Cardinality(Showing(f, s, r))
           /\ base[f].counts[s]["note"] = 0
           /\ base[f].counts[s] = OneLevelCounts(s, Counts(f, s, r))
  BY BaseSound, BaseFile
<1>2. Sound(plans, r) /\ f \in DOMAIN plans /\ Sound(MergedFiles(r), r)
  BY GroupedSound DEF Sound
<1>3. plans = Merge(base, first) /\ MergedFiles(r) = Merge(plans, second)
  BY DEF GroupPlans, GroupSections, MergedFiles
<1>4. /\ LoweredFinite(first) /\ LoweredFinite(second)
      /\ \A x \in LoweredIn(first, f) : x.kind = "plan" /\ x.rule = "stale"
      /\ \A x \in LoweredIn(second, f) : x.kind = "repetition" /\ x.rule = "doc_pair"
  BY LoweredKinds
<1>5. A = LoweredOf(first, f, rule) /\ B = LoweredOf(second, f, rule)
  BY DEF PlansLowered, RepetitionsLowered
<1> HIDE DEF base, plans, first, second
<1>6. /\ rule \in DOMAIN base[f].counts /\ c \in Counted /\ d \in Counted /\ e \in Counted
      /\ d = Recounted(first, f, rule, c) /\ e = Recounted(second, f, rule, d)
  <2>1. rule \in DOMAIN plans[f].counts /\ e = Recounted(second, f, rule, d)
    BY <1>2, <1>3, MergeFile
  <2>2. rule \in DOMAIN base[f].counts /\ d = Recounted(first, f, rule, c)
    BY <1>1, <1>3, <2>1, MergeFile
  <2>3. c \in Counted /\ d \in Counted  BY <1>1, <1>2, <2>1, <2>2 DEF Sound, SoundFile
  <2>4. f \in DOMAIN MergedFiles(r)  BY <1>2 DEF Sound
  <2>5. e \in Counted  BY <1>2, <2>4 DEF Sound, SoundFile
  <2>6. QED  BY <2>1, <2>2, <2>3, <2>5
<1>7. /\ c["review"] = Cardinality(Showing(f, rule, r)) /\ c["note"] = 0
      /\ c = OneLevelCounts(rule, Counts(f, rule, r))
  BY <1>1, <1>6
<1>8. /\ IsFiniteSet(A) /\ IsFiniteSet(B) /\ A \cap B = {}
      /\ rule = "custom" => A = {} /\ B = {}
  <2>1. IsFiniteSet(A) /\ IsFiniteSet(B)  BY <1>4, <1>5, FS_Subset DEF LoweredFinite, LoweredOf
  <2>2. QED  BY <1>4, <1>5, <2>1 DEF LoweredOf
<1> HIDE DEF A, B, c, d, e
<1>9. /\ Cardinality(A) \in Nat /\ d["review"] = c["review"] - Cardinality(A)
      /\ d["note"] = c["note"] + Cardinality(A)
      /\ \A n \in CountNames \ {"review", "note"} : d[n] = c[n]
  BY <1>4, <1>5, <1>6, RecountedShape
<1>10. /\ Cardinality(B) \in Nat /\ e["review"] = d["review"] - Cardinality(B)
       /\ e["note"] = d["note"] + Cardinality(B)
       /\ \A n \in CountNames \ {"review", "note"} : e[n] = d[n]
  BY <1>4, <1>5, <1>6, RecountedShape
<1>11. c["review"] \in Int  BY <1>6 DEF Counted, CountNames
<1>12. /\ e["review"] = c["review"] - Cardinality(A) - Cardinality(B)
       /\ e["note"] = Cardinality(A) + Cardinality(B)
       /\ \A n \in CountNames \ {"review", "note"} : e[n] = c[n]
  BY <1>7, <1>9, <1>10, <1>11
<1>13. c = OneLevelCounts(rule, Counts(f, rule, r))  BY <1>7
<1> HIDE DEF Showing
<1>14. QED  BY <1>6, <1>7, <1>8, <1>9, <1>10, <1>12, <1>13 DEF A, B, e

\* No merge lowers more findings of a rule than its reviews count.
LEMMA LoweredBound ==
  ASSUME Typed, PresenceTyped, NEW r, Resolves(r), NEW f \in Files \ failed,
         NEW rule \in DOMAIN MergedFiles(r)[f].counts
  PROVE  Cardinality(PlansLowered(f, rule, r)) + Cardinality(RepetitionsLowered(f, rule, r))
           <= Cardinality(Showing(f, rule, r))
<1> DEFINE A == PlansLowered(f, rule, r)
           B == RepetitionsLowered(f, rule, r)
           stood == [x \in A \cup B |-> CHOOSE u \in Showing(f, rule, r) : x = Own(u, r)]
<1>1. IsFiniteSet(A) /\ IsFiniteSet(B) /\ A \cap B = {}  BY MergedCounts
<1>2. \A x \in A \cup B : \E u \in Showing(f, rule, r) : x = Own(u, r)
  BY LoweredKinds DEF PlansLowered, RepetitionsLowered, LoweredOf
<1>3. \A x \in A \cup B : stood[x] \in Showing(f, rule, r) /\ x = Own(stood[x], r)  BY <1>2
<1>4. IsFiniteSet(Showing(f, rule, r))  BY ReviewsShown
<1> HIDE DEF A, B, stood
<1>5. /\ \A x \in A \cup B : stood[x] \in Showing(f, rule, r)
      /\ \A x, y \in A \cup B : stood[x] = stood[y] => x = y
  BY <1>3
<1>6. Cardinality(A \cup B) <= Cardinality(Showing(f, rule, r))  BY <1>4, <1>5, OneToOneBound
<1>7. IsFiniteSet(A \cup B)  BY <1>1, FS_Union
<1>8. Cardinality(A \cup B) = Cardinality(A) + Cardinality(B)  BY <1>1, <1>7, DisjointSum
<1>9. QED  BY <1>6, <1>8 DEF A, B

\* A file that reports nothing has no review left in its counts, and the
\* units whose findings a merge lowered are plans or repetitions.
LEMMA NoneKept ==
  ASSUME Typed, PresenceTyped, NEW r, Resolves(r), NEW f \in Files \ failed,
         \A y \in MergedFiles(r)[f].findings : ~Kept(y)
  PROVE  \A rule \in DOMAIN MergedFiles(r)[f].counts :
           /\ MergedFiles(r)[f].counts[rule]["review"] <= 0
           /\ rule = "custom" => MergedFiles(r)[f].counts[rule]["note"] = 0
           /\ \A u \in Showing(f, rule, r) : rule \in {"stale", "doc_pair"}
<1>1. SUFFICES ASSUME NEW rule \in DOMAIN MergedFiles(r)[f].counts
               PROVE  /\ MergedFiles(r)[f].counts[rule]["review"] <= 0
                      /\ rule = "custom" => MergedFiles(r)[f].counts[rule]["note"] = 0
                      /\ \A u \in Showing(f, rule, r) : rule \in {"stale", "doc_pair"}
  OBVIOUS
<1> DEFINE base == ComposedFiles(r)
           first == PlanMerges(base)
           second == SectionMerges(GroupPlans(base))
           A == PlansLowered(f, rule, r)
           B == RepetitionsLowered(f, rule, r)
           e == MergedFiles(r)[f].counts[rule]
<1>2. /\ IsFiniteSet(A) /\ IsFiniteSet(B) /\ A \cap B = {}
      /\ Cardinality(A) \in Nat /\ Cardinality(B) \in Nat
      /\ rule = "custom" => A = {} /\ B = {}
      /\ e["review"] = Cardinality(Showing(f, rule, r)) - Cardinality(A) - Cardinality(B)
      /\ e["note"] = Cardinality(A) + Cardinality(B)
  BY MergedCounts
<1>3. \A x \in LoweredIn(first, f) \cup LoweredIn(second, f) : x.rule \in {"stale", "doc_pair"}
  BY LoweredKinds
<1>4. \A x \in base[f].findings : Kept(x) => x \in LoweredIn(first, f) \cup LoweredIn(second, f)
  BY LoweredByMerges
<1>5. base[f] = Composed(f, r)  BY BaseFile
<1>6. A = LoweredOf(first, f, rule) /\ B = LoweredOf(second, f, rule)
  BY DEF PlansLowered, RepetitionsLowered
<1> HIDE DEF base, first, second, A, B, e
<1>7. ASSUME NEW u \in Showing(f, rule, r)
      PROVE  rule \in {"stale", "doc_pair"} /\ Own(u, r) \in A \cup B
  <2>1. /\ u \in JudgedOf(f) /\ u.rule = rule
        /\ \/ Raised(Final(u, r)) \/ u \in Grouped(f, r)
           \/ u.rule = "custom" /\ Final(u, r).level = "note"
    BY DEF Showing
  <2>2. ~Covered(u, f, base[f].findings)
    <3>1. ASSUME Covered(u, f, base[f].findings) PROVE FALSE
      <4>1. PICK t \in u.copies : TRUE  BY <3>1 DEF Covered
      <4>2. PICK x \in base[f].findings : Kept(x) /\ x.rule = "test_pair"
        BY <3>1, <4>1 DEF Covered
      <4>3. QED  BY <1>3, <1>4, <4>2
    <3>2. QED  BY <3>1
  <2>3. PICK x \in base[f].findings :
          /\ Kept(x) /\ x.rule = rule
          /\ rule \notin {"comment", "test_pair"} => x = Own(u, r)
    BY <1>5, <2>1, <2>2, BaseKeeps
  <2>4. x \in LoweredIn(first, f) \cup LoweredIn(second, f)  BY <1>4, <2>3
  <2>5. rule \in {"stale", "doc_pair"}  BY <1>3, <2>3, <2>4
  <2>6. QED  BY <1>6, <2>3, <2>4, <2>5 DEF LoweredOf
<1>8. Cardinality(Showing(f, rule, r)) <= Cardinality(A) + Cardinality(B)
      /\ Cardinality(Showing(f, rule, r)) \in Nat
  <2> DEFINE own == [u \in Showing(f, rule, r) |-> Own(u, r)]
  <2>1. IsFiniteSet(A \cup B) /\ Cardinality(A \cup B) = Cardinality(A) + Cardinality(B)
    <3>1. IsFiniteSet(A \cup B)  BY <1>2, FS_Union
    <3>2. QED  BY <1>2, <3>1, DisjointSum
  <2>2. \A u \in Showing(f, rule, r) : own[u] \in A \cup B  BY <1>7
  <2>3. \A u, v \in Showing(f, rule, r) : own[u] = own[v] => u = v
    <3>1. SUFFICES ASSUME NEW u \in Showing(f, rule, r), NEW v \in Showing(f, rule, r),
                          Own(u, r) = Own(v, r)
                   PROVE  u = v
      OBVIOUS
    <3>2. u \in plan.units /\ v \in plan.units  BY PlannedUnits DEF Showing
    <3>3. Own(u, r).units = {u.id} /\ Own(v, r).units = {v.id}  BY OwnFields
    <3>4. u.id = v.id  BY <3>1, <3>3
    <3>5. QED  BY <3>2, <3>4, PlannedUnits
  <2> HIDE DEF own
  <2>4. /\ IsFiniteSet(Showing(f, rule, r))
        /\ Cardinality(Showing(f, rule, r)) <= Cardinality(A \cup B)
    BY <2>1, <2>2, <2>3, OneToOneBound
  <2>5. QED  BY <2>1, <2>4, FS_CardinalityType
<1>9. e["review"] <= 0  BY <1>2, <1>8
<1>10. rule = "custom" => e["note"] = 0
  <2>1. rule = "custom" => Cardinality(A) = 0 /\ Cardinality(B) = 0  BY <1>2, FS_EmptySet
  <2>2. QED  BY <1>2, <2>1
<1>11. QED  BY <1>7, <1>9, <1>10 DEF e

\* What a clear file holds, and what a finding and a count make of a status.
LEMMA ClearStatus ==
  ASSUME NEW counts, NEW findings, FileStatus(counts, findings) = "clear"
  PROVE  /\ findings = {}
         /\ \A rule \in DOMAIN counts : CountedStatus(counts[rule]) \notin {"needs_context", "uncertain"}
BY DEF FileStatus

LEMMA FoundStatus ==
  ASSUME NEW counts, NEW findings, NEW rule \in DOMAIN counts,
         CountedStatus(counts[rule]) # "not_applicable", NEW x \in findings
  PROVE  /\ x.level = "review" => FileStatus(counts, findings) = "review"
         /\ x.level = "consider" => FileStatus(counts, findings) \in {"review", "consider"}
<1> DEFINE statuses == {CountedStatus(counts[s]) : s \in DOMAIN counts}
           levels == {y.level : y \in findings}
<1>1. ~(statuses \subseteq {"not_applicable"}) /\ x.level \in levels  OBVIOUS
<1>2. FileStatus(counts, findings) =
        IF statuses \subseteq {"not_applicable"} THEN "not_applicable"
        ELSE IF "review" \in levels THEN "review"
        ELSE IF "consider" \in levels THEN "consider"
        ELSE IF "needs_context" \in statuses THEN "needs_context"
        ELSE IF "uncertain" \in statuses THEN "uncertain"
        ELSE IF findings # {} THEN "note" ELSE "clear"
  BY DEF FileStatus
<1> HIDE DEF statuses, levels
<1>3. QED  BY <1>1, <1>2

LEMMA CountedApplies ==
  ASSUME NEW c \in Counted, NEW units, AddsUp(c, units), c["judged"] > 0
  PROVE  CountedStatus(c) # "not_applicable"
<1>1. /\ c["review"] \in Int /\ c["consider"] \in Int /\ c["note"] \in Int /\ c["clear"] \in Int
      /\ c["uncertain"] \in Int /\ c["judged"] \in Int
  BY DEF Counted, CountNames
<1>2. c["review"] + c["consider"] + c["note"] + c["clear"] + c["uncertain"] > 0
  BY <1>1 DEF AddsUp
<1>3. \/ c["review"] > 0 \/ c["consider"] > 0 \/ c["note"] > 0 \/ c["clear"] > 0
      \/ c["uncertain"] > 0
  BY <1>1, <1>2
<1>4. QED  BY <1>3 DEF CountedStatus

LEMMA CountedSettled ==
  ASSUME NEW c \in Counted, c["review"] <= 0, c["consider"] <= 0,
         CountedStatus(c) \notin {"needs_context", "uncertain"}
  PROVE  c["needs_context"] <= 0 /\ c["uncertain"] <= 0
<1>1. /\ c["review"] \in Int /\ c["consider"] \in Int /\ c["needs_context"] \in Int
      /\ c["uncertain"] \in Int
  BY DEF Counted, CountNames
<1>2. QED  BY <1>1 DEF CountedStatus

\* Capping lowers what an outcome raises and decides nothing.
LEMMA CappedLevel ==
  ASSUME NEW u, NEW s, NEW few
  PROVE  /\ Decisive(Capped(u, s, few)) => Decisive(s.outcome)
         /\ Raised(Capped(u, s, few)) => Raised(s.outcome)
BY AsLevel DEF Capped, AtMostNote, Lowered, Decisive, Raised

\* A judged unit that ends decided was decided by its own answers, and if a
\* text may steer its reviewer, was found.
LEMMA EndsDecided ==
  ASSUME Typed, NEW u \in plan.units,
         Final(u, Limited(Resolution)).level \notin {"uncertain", "missing"}
  PROVE  /\ Decisive(Looked(u, J(u), Resolution[u].outcome))
         /\ Steered(u) => /\ u.rule # "function" => Raised(Resolution[u].outcome)
                          /\ u.rule = "function" => Raised(Final(u, Limited(Resolution)))
<1> DEFINE r == Resolution
           o == r[u].outcome
           o1 == Capped(u, r[u], Few(u, r))
           o2 == Looked(u, J(u), o1)
           last == Limited(r)[u].outcome
<1>1. last = Limit(u, o2)  BY DEF Limited, Resolution, Resolved, ResolvedBy
<1>2. /\ (Final(u, Limited(r)).level = last.level) \/ (last.level = "consider" /\ u.rule = "test_pair")
      /\ u.rule # "test_pair" => Final(u, Limited(r)) = last
  BY AsLevel DEF Final
<1>3. last.level \in Levels  BY LimitedLevels DEF Resolves
<1>4. o.level \in Levels  BY LimitedLevels DEF Resolves
<1>5. o2.level \in Levels
  <2>1. o1.level \in Levels  BY <1>4, LevelKept DEF Capped
  <2>2. QED  BY <2>1, AnswerLevels DEF Looked
<1>6. Decisive(o1) => Decisive(o)  BY CappedLevel
<1>7. Raised(o1) => Raised(o)  BY CappedLevel
<1>8. o2 = IF u.rule = "function" /\ o1.level # "review" /\ "look" \in DOMAIN J(u)["first"]
           THEN LookHere(J(u)["first"]["look"]) ELSE o1
  BY DEF Looked
<1>9. Decisive(LookHere(J(u)["first"]["look"]))
  BY OutcomeLevel, NoulLevels DEF LookHere, Decisive
<1> HIDE DEF o1, o2, last
<1>10. last.level \notin {"uncertain", "missing"}  BY <1>2
<1>11. Limit(u, o2).level = IF Steered(u) /\ o2.level \in {"clear", "note"} THEN "uncertain" ELSE o2.level
  BY AsLevel DEF Limit
<1>12. Decisive(o2)  BY <1>1, <1>5, <1>10, <1>11 DEF Decisive, Levels
<1>13. Decisive(Looked(u, J(u), o))
  <2>1. CASE u.rule = "function" /\ "look" \in DOMAIN J(u)["first"]
    <3>1. CASE o.level = "review"  BY <3>1 DEF Looked, Decisive
    <3>2. CASE o.level # "review"  BY <1>9, <2>1, <3>2 DEF Looked
    <3>3. QED  BY <3>1, <3>2
  <2>2. CASE ~(u.rule = "function" /\ "look" \in DOMAIN J(u)["first"])
    <3>1. o2 = o1 /\ Looked(u, J(u), o) = o  BY <1>8, <2>2 DEF Looked
    <3>2. QED  BY <1>6, <1>12, <3>1
  <2>3. QED  BY <2>1, <2>2
<1>14. ASSUME Steered(u)
       PROVE  /\ u.rule # "function" => Raised(o)
              /\ u.rule = "function" => Raised(Final(u, Limited(r)))
  <2>1. Raised(o2) /\ last = o2
    <3>1. o2.level \notin {"clear", "note"} /\ Raised(o2)
      BY <1>1, <1>5, <1>10, <1>11, <1>14 DEF Levels, Raised
    <3>2. QED  BY <1>1, <3>1 DEF Limit, As
  <2>2. u.rule # "function" => Raised(o)  BY <1>7, <1>8, <2>1
  <2>3. u.rule = "function" => Raised(Final(u, Limited(r)))  BY <1>2, <2>1
  <2>4. QED  BY <2>2, <2>3
<1>15. QED  BY <1>13, <1>14
-----------------------------------------------------------------------------
(* The report at one level.                                                *)

\* The one level: what it reports, counts and decides of a file.
LEMMA OneLevelFile ==
  ASSUME NEW files, NEW f \in DOMAIN files
  PROVE  LET file == files[f]
             after == Leveled(files)[f]
         IN  /\ DOMAIN after.counts = DOMAIN file.counts
             /\ \A rule \in DOMAIN file.counts :
                  after.counts[rule] = OneLevelCounts(rule, file.counts[rule])
             /\ \A x \in file.findings : Kept(x) => [x EXCEPT !.level = "review"] \in after.findings
             /\ \A y \in after.findings : \E x \in file.findings :
                  Kept(x) /\ y = [x EXCEPT !.level = "review"]
             /\ after.status = IF file.status \in {"review", "consider", "note"}
                               THEN FileStatus(after.counts, after.findings) ELSE file.status
<1> DEFINE file == files[f]
           after == Leveled(files)[f]
<1>1. after = OneLevel(file)  BY DEF Leveled
<1> HIDE DEF file, after
<1>2. DOMAIN after.counts = DOMAIN file.counts  BY <1>1 DEF OneLevel
<1>3. \A rule \in DOMAIN file.counts : after.counts[rule] = OneLevelCounts(rule, file.counts[rule])
  BY <1>1 DEF OneLevel
<1>4. after.findings = {[x EXCEPT !.level = "review"] : x \in {y \in file.findings : Kept(y)}}
  BY <1>1 DEF OneLevel, Kept
<1>5. after.status = IF file.status \in {"review", "consider", "note"}
                     THEN FileStatus(after.counts, after.findings) ELSE file.status
  BY <1>1 DEF OneLevel
<1>6. \A x \in file.findings : Kept(x) => [x EXCEPT !.level = "review"] \in after.findings
  BY <1>4
<1>7. \A y \in after.findings : \E x \in file.findings : Kept(x) /\ y = [x EXCEPT !.level = "review"]
  BY <1>4
<1>8. QED  BY <1>2, <1>3, <1>5, <1>6, <1>7 DEF file, after

\* The one level changes the level of a finding alone.
LEMMA LeveledFinding ==
  ASSUME NEW x, IsFinding(x)
  PROVE  LET y == [x EXCEPT !.level = "review"]
         IN y.level = "review" /\ y.rule = x.rule /\ y.units = x.units
<1>1. x = [rule |-> x.rule, level |-> x.level, units |-> x.units, kind |-> x.kind]  BY DEF IsFinding
<1>2. [x EXCEPT !.level = "review"]
        = [rule |-> x.rule, level |-> "review", units |-> x.units, kind |-> x.kind]
  BY <1>1
<1>3. QED  BY <1>2

\* A unit raised on its own or in a group is reported, or is a repeat of
\* tests that are.
LEMMA UnitsStand ==
  ASSUME Typed, PresenceTyped, NEW r, Resolves(r), report = Leveled(MergedFiles(r)),
         NEW f \in DOMAIN report, NEW u \in JudgedOf(f),
         Raised(Final(u, r)) \/ u \in Grouped(f, r)
  PROVE  u \in Standing(f)
<1> DEFINE base == ComposedFiles(r)
           merged == MergedFiles(r)
           named == UNION {x.units : x \in UNION {report[g].findings : g \in DOMAIN report}}
<1>1. Sound(merged, r) /\ KeptIds(base) \subseteq KeptIds(merged)  BY GroupedSound
<1>2. DOMAIN report = DOMAIN merged /\ DOMAIN merged = Files \ failed
  BY <1>1 DEF Leveled, Sound
<1>3. KeptIds(merged) \subseteq named
  <2>1. SUFFICES ASSUME NEW g \in DOMAIN merged, NEW x \in merged[g].findings, Kept(x),
                        NEW i \in x.units
                 PROVE  \E h \in DOMAIN report : \E y \in report[h].findings : i \in y.units
    BY DEF KeptIds
  <2>2. IsFinding(x)  BY <1>1 DEF Sound, SoundFile
  <2>3. [x EXCEPT !.level = "review"] \in report[g].findings  BY <2>1, OneLevelFile
  <2>4. [x EXCEPT !.level = "review"].units = x.units  BY <2>2, LeveledFinding
  <2>5. QED  BY <1>2, <2>1, <2>3, <2>4
<1>4. f \in DOMAIN base /\ base[f] = Composed(f, r)  BY <1>2, BaseFile
<1>5. ASSUME NEW x \in base[f].findings, Kept(x) PROVE x.units \subseteq named
  <2>1. x.units \subseteq KeptIds(base)  BY <1>4, <1>5 DEF KeptIds
  <2>2. QED  BY <1>1, <1>3, <2>1
<1>6. u \in Of(f)  BY DEF JudgedOf
<1>7. \/ \E x \in base[f].findings : Kept(x) /\ u.id \in x.units
      \/ Covered(u, f, base[f].findings)
  BY <1>4, BaseKeeps
<1> HIDE DEF base, merged, named
<1>8. CASE \E x \in base[f].findings : Kept(x) /\ u.id \in x.units
  <2>1. u.id \in named  BY <1>5, <1>8
  <2>2. QED  BY <1>6, <2>1 DEF Standing, named
<1>9. CASE Covered(u, f, base[f].findings)
  <2> DEFINE tests == Tests({v \in Of(f) : v.rule = "test_pair" /\ v.id \in named})
  <2>1. u.rule = "shared_logic" /\ u.copies # {}  BY <1>9 DEF Covered
  <2>2. ASSUME NEW t \in u.copies PROVE t \in tests
    <3>1. PICK v \in Of(f) : \E x \in base[f].findings :
            v.rule = "test_pair" /\ t \in v.names /\ Kept(x) /\ v.id \in x.units
      BY <1>9, <2>2 DEF Covered
    <3>2. v.id \in named  BY <1>5, <3>1
    <3>3. QED  BY <3>1, <3>2 DEF Tests
  <2>3. u.copies \subseteq tests  BY <2>2
  <2>4. QED  BY <1>6, <2>1, <2>3 DEF Standing, named
<1>10. QED  BY <1>7, <1>8, <1>9

\* The counts of a reported file add up to its units.
LEMMA CountsStand ==
  ASSUME Typed, PresenceTyped, NEW r, Resolves(r), report = Leveled(MergedFiles(r)),
         NEW f \in DOMAIN report, NEW rule \in DOMAIN report[f].counts
  PROVE  LET c == report[f].counts[rule]
         IN /\ c["review"] + c["clear"] + c["uncertain"] = c["judged"]
            /\ c["judged"] + c["needs_context"] + c["too_small"] + c["covered"]
                 = Cardinality({u \in Of(f) : u.rule = rule})
<1> DEFINE merged == MergedFiles(r)
           c == merged[f].counts[rule]
           d == report[f].counts[rule]
<1>1. Sound(merged, r)  BY GroupedSound
<1>2. f \in DOMAIN merged  BY DEF Leveled
<1>3. rule \in DOMAIN merged[f].counts /\ d = OneLevelCounts(rule, c)  BY <1>2, OneLevelFile
<1>4. c \in Counted /\ AddsUp(c, RuleUnits(f, rule))  BY <1>1, <1>2, <1>3 DEF Sound, SoundFile
<1> HIDE DEF c, d
<1>5. AddsUp(d, RuleUnits(f, rule))  BY <1>3, <1>4, OneLevelAddsUp
<1>6. d \in Counted /\ d["consider"] = 0 /\ d["note"] = 0  BY <1>3, <1>4, OneLevelShape
<1>7. d["review"] \in Int /\ d["clear"] \in Int /\ d["uncertain"] \in Int
  BY <1>6 DEF Counted, CountNames
<1>8. /\ d["review"] + d["clear"] + d["uncertain"] = d["judged"]
      /\ d["judged"] + d["needs_context"] + d["too_small"] + d["covered"]
           = Cardinality(RuleUnits(f, rule))
  BY <1>5, <1>6, <1>7 DEF AddsUp
<1>9. QED  BY <1>8 DEF d, RuleUnits

\* The pairs that groups take from the notes of a rule are among them.
LEMMA CountsNatural ==
  ASSUME Typed, PresenceTyped, NEW r, Resolves(r), NEW f, NEW rule
  PROVE  \A n \in CountNames : Counts(f, rule, r)[n] \in Nat
<1> DEFINE c == Counts(f, rule, r)
           at(levels) == ShownAt(f, rule, r, levels)
           in(category) == CategoryUnits(f, rule, category)
           grouped == GroupedUnitsOf(f, rule, r)
<1>1. \A levels, category : at(levels) \subseteq Of(f) /\ in(category) \subseteq Of(f)
  BY DEF ShownAt, CategoryUnits, RuleUnits
<1>2. \A levels, category : IsFiniteSet(at(levels)) /\ IsFiniteSet(in(category))
  <2>1. IsFiniteSet(Of(f))  BY PlannedUnits
  <2>2. \A S : S \subseteq Of(f) => IsFiniteSet(S)  BY <2>1, FS_Subset
  <2>3. QED  BY <1>1, <2>2
<1>3. grouped \subseteq at({"note"})
  <2>1. SUFFICES ASSUME NEW u \in grouped PROVE u \in at({"note"})  OBVIOUS
  <2>2. u \in RuleUnits(f, rule) /\ u \in Grouped(f, r)  BY <2>1 DEF GroupedUnitsOf
  <2>3. u \in JudgedOf(f) /\ u.rule = "test_pair" /\ r[u].outcome.level = "consider"
    BY <2>2, GroupedUnits
  <2>4. u \in plan.units  BY <2>3, PlannedUnits
  <2>5. Final(u, r).level = "note"  BY <2>3, <2>4, FinalLevels
  <2>6. QED  BY <2>2, <2>3, <2>5 DEF ShownAt
<1>4. IsFiniteSet(grouped) /\ Cardinality(grouped) <= Cardinality(at({"note"}))
  BY <1>2, <1>3, FS_Subset
<1> HIDE DEF at, in, grouped
<1>5. \A levels, category : Cardinality(at(levels)) \in Nat /\ Cardinality(in(category)) \in Nat
  BY <1>2, FS_CardinalityType
<1>6. Cardinality(grouped) \in Nat  BY <1>4, FS_CardinalityType
<1>7. /\ c["review"] = Cardinality(at({"review"}))
      /\ c["consider"] = Cardinality(at({"consider"})) + Cardinality(grouped)
      /\ c["note"] = Cardinality(at({"note"})) - Cardinality(grouped)
      /\ c["clear"] = Cardinality(at({"clear"}))
      /\ c["uncertain"] = Cardinality(at({"uncertain", "missing"}))
      /\ c["judged"] = Cardinality(in("judged")) /\ c["needs_context"] = Cardinality(in("needs_context"))
      /\ c["too_small"] = Cardinality(in("too_small")) /\ c["covered"] = Cardinality(in("covered"))
  BY CountsShape DEF at, in, grouped
<1> HIDE DEF c
<1>8. c["note"] \in Nat /\ c["consider"] \in Nat
  <2>1. Cardinality(at({"note"})) \in Nat /\ Cardinality(at({"consider"})) \in Nat  BY <1>5
  <2>2. QED  BY <1>4, <1>6, <1>7, <2>1
<1>9. /\ c["review"] \in Nat /\ c["clear"] \in Nat /\ c["uncertain"] \in Nat /\ c["judged"] \in Nat
      /\ c["needs_context"] \in Nat /\ c["too_small"] \in Nat /\ c["covered"] \in Nat
  BY <1>5, <1>7
<1>10. QED  BY <1>8, <1>9 DEF CountNames, c

\* No count of a reported file is below zero.
LEMMA ReportedNatural ==
  ASSUME Typed, PresenceTyped, NEW r, Resolves(r), report = Leveled(MergedFiles(r)),
         NEW f \in DOMAIN report, NEW rule \in DOMAIN report[f].counts
  PROVE  /\ DOMAIN report[f].counts[rule] = CountNames
         /\ \A n \in CountNames : report[f].counts[rule][n] \in Nat
<1> DEFINE merged == MergedFiles(r)
           A == PlansLowered(f, rule, r)
           B == RepetitionsLowered(f, rule, r)
           o == Counts(f, rule, r)
           c == OneLevelCounts(rule, o)
           e == merged[f].counts[rule]
           d == report[f].counts[rule]
           custom == rule = "custom"
<1>1. Sound(merged, r)  BY GroupedSound
<1>2. f \in DOMAIN merged /\ f \in Files \ failed  BY <1>1 DEF Leveled, Sound
<1>3. rule \in DOMAIN merged[f].counts /\ d = OneLevelCounts(rule, e)  BY <1>2, OneLevelFile
<1>4. /\ Cardinality(A) \in Nat /\ Cardinality(B) \in Nat /\ e \in Counted
      /\ c["review"] = Cardinality(Showing(f, rule, r))
      /\ e["review"] = c["review"] - Cardinality(A) - Cardinality(B)
      /\ e["note"] = Cardinality(A) + Cardinality(B)
      /\ \A n \in CountNames \ {"review", "note"} : e[n] = c[n]
  BY <1>2, <1>3, MergedCounts
<1>5. Cardinality(A) + Cardinality(B) <= Cardinality(Showing(f, rule, r))  BY <1>2, <1>3, LoweredBound
<1>6. Cardinality(Showing(f, rule, r)) \in Nat  BY ReviewsShown, FS_CardinalityType
<1>7. o \in Counted  BY CountsAddUp
<1>8. \A n \in CountNames : o[n] \in Nat  BY CountsNatural
<1> HIDE DEF merged, A, B, o
<1>9. /\ c["consider"] = 0 /\ c["clear"] = o["clear"] + (IF custom THEN 0 ELSE o["note"])
      /\ \A n \in {"uncertain", "judged", "needs_context", "too_small", "covered"} : c[n] = o[n]
  BY <1>7, OneLevelShape
<1> HIDE DEF c, e
<1>10. e["review"] \in Nat /\ e["note"] \in Nat  BY <1>4, <1>5, <1>6
<1>11. c["clear"] \in Nat
  <2>1. o["clear"] \in Nat /\ o["note"] \in Nat  BY <1>8 DEF CountNames
  <2>2. QED  BY <1>9, <2>1
<1>12. /\ e["consider"] = 0 /\ e["clear"] \in Nat
       /\ \A n \in {"uncertain", "judged", "needs_context", "too_small", "covered"} : e[n] \in Nat
  BY <1>4, <1>8, <1>9, <1>11 DEF CountNames
<1>13. /\ d \in Counted
       /\ d["review"] = e["review"] + e["consider"] + (IF custom THEN e["note"] ELSE 0)
       /\ d["consider"] = 0 /\ d["note"] = 0
       /\ d["clear"] = e["clear"] + (IF custom THEN 0 ELSE e["note"])
       /\ \A n \in {"uncertain", "judged", "needs_context", "too_small", "covered"} : d[n] = e[n]
  BY <1>3, <1>4, OneLevelShape
<1> HIDE DEF d
<1>14. /\ d["review"] \in Nat /\ d["consider"] \in Nat /\ d["note"] \in Nat /\ d["clear"] \in Nat
       /\ \A n \in {"uncertain", "judged", "needs_context", "too_small", "covered"} : d[n] \in Nat
  BY <1>10, <1>12, <1>13
<1>15. \A n \in CountNames : d[n] \in Nat  BY <1>14 DEF CountNames
<1>16. DOMAIN d = CountNames  BY <1>13 DEF Counted
<1>17. QED  BY <1>15, <1>16 DEF d

\* A file of which a unit is judged has a rule that applies, also at one
\* level.
LEMMA JudgedApplies ==
  ASSUME Typed, PresenceTyped, NEW r, NEW f, NEW file, SoundFile(f, file, r), JudgedOf(f) # {},
         NEW counts,
         \A rule \in DOMAIN file.counts : counts[rule] = OneLevelCounts(rule, file.counts[rule])
  PROVE  \E rule \in DOMAIN file.counts : /\ CountedStatus(file.counts[rule]) # "not_applicable"
                                         /\ CountedStatus(counts[rule]) # "not_applicable"
<1>1. PICK u \in JudgedOf(f) : TRUE  OBVIOUS
<1> DEFINE rule == u.rule
           c == file.counts[rule]
           d == counts[rule]
<1>2. u \in Of(f) /\ Category(u) = "judged"  BY <1>1 DEF JudgedOf
<1>3. /\ rule \in DOMAIN file.counts /\ c \in Counted /\ AddsUp(c, RuleUnits(f, rule))
      /\ c["judged"] = Counts(f, rule, r)["judged"]
  BY <1>2 DEF SoundFile
<1>4. c["judged"] > 0
  <2>1. u \in CategoryUnits(f, rule, "judged") /\ CategoryUnits(f, rule, "judged") \subseteq Of(f)
    BY <1>2 DEF CategoryUnits, RuleUnits
  <2>2. IsFiniteSet(CategoryUnits(f, rule, "judged"))  BY <2>1, PlannedUnits, FS_Subset
  <2>3. /\ Cardinality(CategoryUnits(f, rule, "judged")) \in Nat
        /\ Cardinality(CategoryUnits(f, rule, "judged")) # 0
    BY <2>1, <2>2, FS_CardinalityType, FS_EmptySet
  <2>4. Counts(f, rule, r)["judged"] = Cardinality(CategoryUnits(f, rule, "judged"))
    BY CountsShape
  <2>5. QED  BY <1>3, <2>3, <2>4
<1>5. d = OneLevelCounts(rule, c)  BY <1>3
<1> HIDE DEF c, d
<1>6. CountedStatus(c) # "not_applicable"  BY <1>3, <1>4, CountedApplies
<1>7. d \in Counted /\ AddsUp(d, RuleUnits(f, rule)) /\ d["judged"] > 0
  BY <1>3, <1>4, <1>5, OneLevelShape, OneLevelAddsUp
<1>8. CountedStatus(d) # "not_applicable"  BY <1>7, CountedApplies
<1>9. QED  BY <1>3, <1>6, <1>8 DEF c, d

\* A file that reports a finding of a built-in rule is for review.
LEMMA StatusStands ==
  ASSUME Typed, PresenceTyped, NEW r, Resolves(r), report = Leveled(MergedFiles(r)),
         NEW f \in DOMAIN report, NEW y \in report[f].findings, y.rule # "custom"
  PROVE  report[f].status = "review"
<1> DEFINE merged == MergedFiles(r)
           file == merged[f]
           after == report[f]
<1>1. Sound(merged, r)  BY GroupedSound
<1>2. f \in DOMAIN merged  BY DEF Leveled
<1>3. SoundFile(f, file, r)  BY <1>1, <1>2 DEF Sound
<1>4. /\ DOMAIN after.counts = DOMAIN file.counts
      /\ \A rule \in DOMAIN file.counts : after.counts[rule] = OneLevelCounts(rule, file.counts[rule])
      /\ after.status = IF file.status \in {"review", "consider", "note"}
                        THEN FileStatus(after.counts, after.findings) ELSE file.status
  BY <1>2, OneLevelFile
<1>5. PICK x \in file.findings : Kept(x) /\ y = [x EXCEPT !.level = "review"]
  BY <1>2, OneLevelFile
<1> HIDE DEF merged, file, after
<1>6. IsFinding(x) /\ JudgedOf(f) # {}  BY <1>3, <1>5 DEF SoundFile
<1>7. y.level = "review" /\ y.rule = x.rule  BY <1>5, <1>6, LeveledFinding
<1>8. x.level \in {"review", "consider"}  BY <1>5, <1>6, <1>7 DEF Kept, IsFinding
<1>9. PICK rule \in DOMAIN file.counts : CountedStatus(file.counts[rule]) # "not_applicable"
                                       /\ CountedStatus(after.counts[rule]) # "not_applicable"
  BY <1>3, <1>4, <1>6, JudgedApplies
<1>17. FileStatus(file.counts, file.findings) \in {"review", "consider"}
  BY <1>5, <1>8, <1>9, FoundStatus
<1>18. file.status = FileStatus(file.counts, file.findings)  BY <1>3 DEF SoundFile, FileReport
<1>19. y \in after.findings  BY DEF after
<1>20. FileStatus(after.counts, after.findings) = "review"
  BY <1>4, <1>7, <1>9, <1>19, FoundStatus
<1>21. after.status = "review"  BY <1>4, <1>17, <1>18, <1>20
<1>22. QED  BY <1>21 DEF after

\* A file with findings is for review, or a unit holds it open.
LEMMA FindingsStand ==
  ASSUME Typed, PresenceTyped, NEW r, Resolves(r), report = Leveled(MergedFiles(r)),
         NEW f \in DOMAIN report, report[f].findings # {}, report[f].status # "review"
  PROVE  HeldOpen(report[f])
<1> DEFINE merged == MergedFiles(r)
           file == merged[f]
           after == report[f]
<1>1. Sound(merged, r)  BY GroupedSound
<1>2. f \in DOMAIN merged  BY DEF Leveled
<1>3. SoundFile(f, file, r)  BY <1>1, <1>2 DEF Sound
<1>4. /\ DOMAIN after.counts = DOMAIN file.counts
      /\ \A rule \in DOMAIN file.counts : after.counts[rule] = OneLevelCounts(rule, file.counts[rule])
      /\ after.status = IF file.status \in {"review", "consider", "note"}
                        THEN FileStatus(after.counts, after.findings) ELSE file.status
  BY <1>2, OneLevelFile
<1>5. PICK y \in after.findings : TRUE  OBVIOUS
<1>6. PICK x \in file.findings : Kept(x) /\ y = [x EXCEPT !.level = "review"]
  BY <1>2, <1>5, OneLevelFile
<1> HIDE DEF merged, file, after
<1>7. IsFinding(x) /\ JudgedOf(f) # {}  BY <1>3, <1>6 DEF SoundFile
<1>8. y.level = "review"  BY <1>6, <1>7, LeveledFinding
<1>9. PICK rule \in DOMAIN file.counts : CountedStatus(file.counts[rule]) # "not_applicable"
                                       /\ CountedStatus(after.counts[rule]) # "not_applicable"
  BY <1>3, <1>4, <1>7, JudgedApplies
<1>10. file.status = FileStatus(file.counts, file.findings)  BY <1>3 DEF SoundFile, FileReport
<1>11. FileStatus(after.counts, after.findings) = "review"  BY <1>4, <1>5, <1>8, <1>9, FoundStatus
<1>12. file.status \notin {"review", "consider", "note"} /\ after.status = file.status
  BY <1>4, <1>11 DEF after
<1>13. PICK open \in DOMAIN file.counts :
         file.status \in {"uncertain", "needs_context"} /\ CountedStatus(file.counts[open]) = file.status
  BY <1>6, <1>9, <1>10, <1>12 DEF FileStatus
<1> DEFINE c == file.counts[open]
           d == after.counts[open]
<1>14. c \in Counted  BY <1>3 DEF SoundFile
<1>15. d = OneLevelCounts(open, c)  BY <1>4
<1> HIDE DEF c, d
<1>16. d["uncertain"] = c["uncertain"] /\ d["needs_context"] = c["needs_context"]
  BY <1>14, <1>15, OneLevelShape
<1>17. c["uncertain"] > 0 \/ c["needs_context"] > 0  BY <1>13 DEF c, CountedStatus
<1>18. QED  BY <1>4, <1>12, <1>13, <1>16, <1>17 DEF HeldOpen, d, after

\* A file whose counts hold no undecided and no unsent unit has none.
LEMMA NoneUndecided ==
  ASSUME Typed, PresenceTyped, NEW r, NEW f, NEW u \in Of(f),
         Counts(f, u.rule, r)["needs_context"] <= 0, Counts(f, u.rule, r)["uncertain"] <= 0
  PROVE  /\ Category(u) # "needs_context"
         /\ u \in JudgedOf(f) => Final(u, r).level \notin {"uncertain", "missing"}
<1> DEFINE A == CategoryUnits(f, u.rule, "needs_context")
           B == ShownAt(f, u.rule, r, {"uncertain", "missing"})
<1>1. A \subseteq Of(f) /\ B \subseteq Of(f)  BY DEF CategoryUnits, ShownAt, RuleUnits
<1>2. IsFiniteSet(A) /\ IsFiniteSet(B)  BY <1>1, PlannedUnits, FS_Subset
<1>3. Cardinality(A) <= 0 /\ Cardinality(B) <= 0  BY CountsShape
<1>4. Category(u) = "needs_context" => u \in A  BY DEF CategoryUnits, RuleUnits
<1>5. u \in JudgedOf(f) /\ Final(u, r).level \in {"uncertain", "missing"} => u \in B
  BY DEF ShownAt, RuleUnits
<1> HIDE DEF A, B
<1>6. Cardinality(A) \in Nat /\ Cardinality(B) \in Nat  BY <1>2, FS_CardinalityType
<1>7. Cardinality(A) = 0 /\ Cardinality(B) = 0  BY <1>3, <1>6
<1>8. A = {} /\ B = {}  BY <1>2, <1>7, FS_EmptySet
<1>9. QED  BY <1>4, <1>5, <1>8

\* A clear file reports nothing and counts no undecided and no unsent unit.
LEMMA ClearFile ==
  ASSUME Typed, PresenceTyped, NEW r, Resolves(r), report = Leveled(MergedFiles(r)),
         NEW f \in DOMAIN report, report[f].status = "clear"
  PROVE  /\ \A x \in MergedFiles(r)[f].findings : ~Kept(x)
         /\ \A rule \in {u.rule : u \in Of(f)} :
              Counts(f, rule, r)["needs_context"] <= 0 /\ Counts(f, rule, r)["uncertain"] <= 0
<1> DEFINE merged == MergedFiles(r)
           file == merged[f]
           after == report[f]
<1>1. Sound(merged, r)  BY GroupedSound
<1>2. f \in DOMAIN merged /\ DOMAIN merged = Files \ failed  BY <1>1 DEF Leveled, Sound
<1>3. SoundFile(f, file, r)  BY <1>1, <1>2 DEF Sound
<1>4. /\ DOMAIN after.counts = DOMAIN file.counts
      /\ \A rule \in DOMAIN file.counts : after.counts[rule] = OneLevelCounts(rule, file.counts[rule])
      /\ \A x \in file.findings : Kept(x) => [x EXCEPT !.level = "review"] \in after.findings
      /\ after.status = IF file.status \in {"review", "consider", "note"}
                        THEN FileStatus(after.counts, after.findings) ELSE file.status
  BY <1>2, OneLevelFile
<1>5. file.status = FileStatus(file.counts, file.findings)  BY <1>3 DEF SoundFile, FileReport
<1>6. \/ FileStatus(file.counts, file.findings) = "clear"
      \/ FileStatus(after.counts, after.findings) = "clear"
  BY <1>4, <1>5
<1>7. \A x \in file.findings : ~Kept(x)  BY <1>4, <1>6, ClearStatus
<1>8. \A rule \in DOMAIN file.counts :
        /\ file.counts[rule]["review"] <= 0
        /\ rule = "custom" => file.counts[rule]["note"] = 0
  BY <1>2, <1>7, NoneKept
<1> HIDE DEF merged, file, after
<1>9. ASSUME NEW rule \in DOMAIN file.counts
      PROVE  file.counts[rule]["needs_context"] <= 0 /\ file.counts[rule]["uncertain"] <= 0
  <2> DEFINE c == file.counts[rule]
             d == after.counts[rule]
  <2>1. c \in Counted /\ c["consider"] = 0  BY <1>3 DEF SoundFile
  <2>2. c["review"] <= 0 /\ (rule = "custom" => c["note"] = 0)  BY <1>8
  <2>3. d = OneLevelCounts(rule, c) /\ rule \in DOMAIN after.counts  BY <1>4
  <2>4. \/ CountedStatus(c) \notin {"needs_context", "uncertain"}
        \/ CountedStatus(d) \notin {"needs_context", "uncertain"}
    BY <1>6, <2>3, ClearStatus
  <2> HIDE DEF c, d
  <2>5. c["review"] \in Int /\ c["note"] \in Int  BY <2>1 DEF Counted, CountNames
  <2>6. /\ d \in Counted /\ d["consider"] = 0
        /\ d["review"] = c["review"] + c["consider"] + (IF rule = "custom" THEN c["note"] ELSE 0)
        /\ d["needs_context"] = c["needs_context"] /\ d["uncertain"] = c["uncertain"]
    BY <2>1, <2>3, OneLevelShape
  <2>7. d["review"] <= 0 /\ d["consider"] <= 0 /\ c["consider"] <= 0
    BY <2>1, <2>2, <2>5, <2>6
  <2>8. c["needs_context"] <= 0 /\ c["uncertain"] <= 0
    <3>1. CASE CountedStatus(c) \notin {"needs_context", "uncertain"}
      BY <2>1, <2>2, <2>7, <3>1, CountedSettled
    <3>2. CASE CountedStatus(d) \notin {"needs_context", "uncertain"}
      BY <2>6, <2>7, <3>2, CountedSettled
    <3>3. QED  BY <2>4, <3>1, <3>2
  <2>9. QED  BY <2>8 DEF c
<1>10. \A rule \in {u.rule : u \in Of(f)} :
         Counts(f, rule, r)["needs_context"] <= 0 /\ Counts(f, rule, r)["uncertain"] <= 0
  BY <1>3, <1>9 DEF SoundFile
<1>11. QED  BY <1>7, <1>10 DEF file, merged

\* A clear file has no unit left undecided, unanswered, unsent or steered.
LEMMA ClearStands ==
  ASSUME Typed, PresenceTyped, report = Leveled(MergedFiles(Limited(Resolution))),
         NEW f \in DOMAIN report, report[f].status = "clear", NEW u \in Of(f)
  PROVE  \/ Category(u) \in {"covered", "too_small"}
         \/ /\ Category(u) = "judged"
            /\ Decisive(Looked(u, J(u), Resolution[u].outcome))
            /\ Steered(u) => Raised(Resolution[u].outcome)
<1> DEFINE r == Limited(Resolution)
<1>1. Resolves(r)  BY LimitedLevels
<1>2. u \in plan.units /\ u.rule \in {v.rule : v \in Of(f)}  BY PlannedUnits
<1>3. /\ \A x \in MergedFiles(r)[f].findings : ~Kept(x)
      /\ Counts(f, u.rule, r)["needs_context"] <= 0 /\ Counts(f, u.rule, r)["uncertain"] <= 0
  BY <1>1, <1>2, ClearFile
<1>4. /\ Category(u) # "needs_context"
      /\ u \in JudgedOf(f) => Final(u, r).level \notin {"uncertain", "missing"}
  BY <1>3, NoneUndecided
<1>5. Category(u) \in {"judged", "covered", "too_small"}  BY <1>2, <1>4, CategoryNames
<1>6. CASE Category(u) = "judged"
  <2>1. u \in JudgedOf(f)  BY <1>6 DEF JudgedOf
  <2>2. Final(u, r).level \notin {"uncertain", "missing"}  BY <1>4, <2>1
  <2>3. /\ Decisive(Looked(u, J(u), Resolution[u].outcome))
        /\ Steered(u) => /\ u.rule # "function" => Raised(Resolution[u].outcome)
                         /\ u.rule = "function" => Raised(Final(u, r))
    BY <1>2, <2>2, EndsDecided
  <2>4. ~(u.rule = "function" /\ Raised(Final(u, r)))
    <3>1. SUFFICES ASSUME u.rule = "function", Raised(Final(u, r)) PROVE FALSE  OBVIOUS
    <3>2. u \in Showing(f, "function", r)  BY <2>1, <3>1 DEF Showing
    <3>3. Sound(MergedFiles(r), r)  BY <1>1, GroupedSound
    <3>4. f \in DOMAIN MergedFiles(r)  BY DEF Leveled
    <3>5. f \in Files \ failed /\ "function" \in DOMAIN MergedFiles(r)[f].counts
      BY <1>2, <3>1, <3>3, <3>4 DEF Sound, SoundFile
    <3>6. \A v \in Showing(f, "function", r) : "function" \in {"stale", "doc_pair"}
      BY <1>1, <1>3, <3>5, NoneKept
    <3>7. QED  BY <3>2, <3>6
  <2>5. QED  BY <1>6, <2>3, <2>4
<1>7. QED  BY <1>5, <1>6

\* What is reported of the limited resolution loses no unit.
LEMMA ComposedLosesNothing ==
  ASSUME Typed, PresenceTyped, report = Leveled(MergedFiles(Limited(Resolution)))
  PROVE  NothingLostOf(Resolution, Limited(Resolution))
<1> DEFINE r == Limited(Resolution)
<1>1. Resolves(r)  BY LimitedLevels
<1> HIDE DEF r
<1>2. SUFFICES ASSUME NEW f \in DOMAIN report
               PROVE
      /\ \A u \in JudgedOf(f) :
           Raised(Final(u, r)) \/ u \in Grouped(f, r) => u \in Standing(f)
      /\ \A rule \in DOMAIN report[f].counts :
           LET c == report[f].counts[rule]
           IN /\ c["review"] + c["clear"] + c["uncertain"] = c["judged"]
              /\ c["judged"] + c["needs_context"] + c["too_small"] + c["covered"]
                   = Cardinality({u \in Of(f) : u.rule = rule})
      /\ (\E x \in report[f].findings : x.rule # "custom") => report[f].status = "review"
      /\ report[f].findings # {} => report[f].status = "review" \/ HeldOpen(report[f])
      /\ report[f].status = "clear" =>
           \A u \in Of(f) : \/ Category(u) \in {"covered", "too_small"}
                            \/ /\ Category(u) = "judged"
                               /\ Decisive(Looked(u, J(u), Resolution[u].outcome))
                               /\ Steered(u) => Raised(Resolution[u].outcome)
  BY DEF NothingLostOf, r
<1>3. report = Leveled(MergedFiles(r))  BY DEF r
<1>4. \A u \in JudgedOf(f) : Raised(Final(u, r)) \/ u \in Grouped(f, r) => u \in Standing(f)
  BY <1>1, <1>3, UnitsStand
<1>5. \A rule \in DOMAIN report[f].counts :
        LET c == report[f].counts[rule]
        IN /\ c["review"] + c["clear"] + c["uncertain"] = c["judged"]
           /\ c["judged"] + c["needs_context"] + c["too_small"] + c["covered"]
                = Cardinality({u \in Of(f) : u.rule = rule})
  BY <1>1, <1>3, CountsStand
<1>6. (\E x \in report[f].findings : x.rule # "custom") => report[f].status = "review"
  BY <1>1, <1>3, StatusStands
<1>7. report[f].status = "clear" =>
           \A u \in Of(f) : \/ Category(u) \in {"covered", "too_small"}
                            \/ /\ Category(u) = "judged"
                               /\ Decisive(Looked(u, J(u), Resolution[u].outcome))
                               /\ Steered(u) => Raised(Resolution[u].outcome)
  BY ClearStands
<1>8. report[f].findings # {} => report[f].status = "review" \/ HeldOpen(report[f])
  BY <1>1, <1>3, FindingsStand
<1>9. QED  BY <1>4, <1>5, <1>6, <1>7, <1>8
-----------------------------------------------------------------------------
(* The report of a composed evaluation.                                    *)

\* After composition the report is that of the judgments, which no step
\* changes any more.
ReportComposed == phase = Done => report = Leveled(MergedFiles(Limited(Resolution)))

\* A unit that is judged may come to need context, and nothing else.
LEMMA PresenceStep == ASSUME Inv, PresenceTyped, [Next]_vars PROVE PresenceTyped'
<1>1. CASE plan' = plan /\ presence' = presence
  BY <1>1 DEF PresenceTyped, Units
<1>2. CASE plan' = plan /\ Applied
  <2>1. \/ presence' = presence
        \/ presence' = [i \in Units |-> IF presence[i] = "judged" /\ Unsent(i)'
                                        THEN "needs_context" ELSE presence[i]]
    BY <1>2 DEF Applied
  <2>2. Units' = Units  BY <1>2 DEF Units
  <2>3. QED  BY <2>1, <2>2 DEF PresenceTyped
<1>3. QED
  BY <1>1, <1>2 DEF Next, Advance, Answered, Failed, Refused, Compose, vars

\* A step that leaves what composition reads as it is.
Still == plan' = plan /\ judged' = judged /\ presence' = presence /\ failed' = failed

\* What composition reports is a matter of the plan, the answers, the
\* presence of its units and the files in error.
LEMMA SameUnits ==
  ASSUME Still
  PROVE  /\ Resolution' = Resolution
         /\ \A f : Of(f)' = Of(f) /\ JudgedOf(f)' = JudgedOf(f)
         /\ \A u : Category(u)' = Category(u)
         /\ \A r : Limited(r)' = Limited(r)
<1>1. Resolution' = Resolution  BY DEF Still, Resolution, J
<1>2. \A u : Category(u)' = Category(u)  BY DEF Still, Category, J
<1>3. \A f : Of(f)' = Of(f) /\ JudgedOf(f)' = JudgedOf(f)  BY <1>2 DEF Still, Of, JudgedOf
<1>4. \A u, r : Few(u, r)' = Few(u, r)  BY <1>3 DEF Few
<1>5. \A u : Steered(u)' = Steered(u)  BY DEF Still, Steered
<1>6. \A u, o : Limit(u, o)' = Limit(u, o)  BY <1>5 DEF Limit
<1>7. \A u : J(u)' = J(u)  BY DEF Still, J
<1>8. \A r : Limited(r)' = Limited(r)  BY <1>4, <1>6, <1>7 DEF Limited
<1>9. QED  BY <1>1, <1>2, <1>3, <1>8

\* So of the findings of each file, of the merges, and of the report.
LEMMA SameFindings ==
  ASSUME Still
  PROVE  \A f, r : Composed(f, r)' = Composed(f, r)
<1>1. \A f : Of(f)' = Of(f) /\ JudgedOf(f)' = JudgedOf(f)  BY SameUnits
<1>2. \A u : Category(u)' = Category(u)  BY SameUnits
<1>3. \A f, r : Redundant(f, r)' = Redundant(f, r)  BY <1>1 DEF Redundant
<1>4. \A f, r : Clusters(f, r)' = Clusters(f, r)  BY <1>3 DEF Clusters, Components
<1>5. \A f, r : Grouped(f, r)' = Grouped(f, r)  BY <1>4 DEF Grouped
<1>6. \A f, r : OwnFindings(f, r)' = OwnFindings(f, r)  BY <1>1, <1>5 DEF OwnFindings
<1>7. \A f, r : GroupFindings(f, r)' = GroupFindings(f, r)  BY <1>4 DEF GroupFindings
<1>8. \A f, r : CommentFindings(f, r)' = CommentFindings(f, r)  BY <1>1 DEF CommentFindings
<1>9. \A findings : DropCopies(findings)' = DropCopies(findings)  BY DEF Still, DropCopies
<1>10. ASSUME NEW f, NEW rule, NEW r PROVE Counts(f, rule, r)' = Counts(f, rule, r)
  <2>1. /\ \A levels : ShownAt(f, rule, r, levels)' = ShownAt(f, rule, r, levels)
        /\ \A category : CategoryUnits(f, rule, category)' = CategoryUnits(f, rule, category)
        /\ GroupedUnitsOf(f, rule, r)' = GroupedUnitsOf(f, rule, r)
    BY <1>1, <1>2, <1>5 DEF RuleUnits, ShownAt, CategoryUnits, GroupedUnitsOf
  <2>2. Counts(f, rule, r) =
          [review        |-> Cardinality(ShownAt(f, rule, r, {"review"})),
           consider      |-> Cardinality(ShownAt(f, rule, r, {"consider"}))
                             + Cardinality(GroupedUnitsOf(f, rule, r)),
           note          |-> Cardinality(ShownAt(f, rule, r, {"note"}))
                             - Cardinality(GroupedUnitsOf(f, rule, r)),
           clear         |-> Cardinality(ShownAt(f, rule, r, {"clear"})),
           uncertain     |-> Cardinality(ShownAt(f, rule, r, {"uncertain", "missing"})),
           judged        |-> Cardinality(CategoryUnits(f, rule, "judged")),
           needs_context |-> Cardinality(CategoryUnits(f, rule, "needs_context")),
           too_small     |-> Cardinality(CategoryUnits(f, rule, "too_small")),
           covered       |-> Cardinality(CategoryUnits(f, rule, "covered"))]
    BY DEF Counts, ShownAt, CategoryUnits, GroupedUnitsOf, RuleUnits
  <2>3. Counts(f, rule, r)' =
          [review        |-> Cardinality(ShownAt(f, rule, r, {"review"})'),
           consider      |-> Cardinality(ShownAt(f, rule, r, {"consider"})')
                             + Cardinality(GroupedUnitsOf(f, rule, r)'),
           note          |-> Cardinality(ShownAt(f, rule, r, {"note"})')
                             - Cardinality(GroupedUnitsOf(f, rule, r)'),
           clear         |-> Cardinality(ShownAt(f, rule, r, {"clear"})'),
           uncertain     |-> Cardinality(ShownAt(f, rule, r, {"uncertain", "missing"})'),
           judged        |-> Cardinality(CategoryUnits(f, rule, "judged")'),
           needs_context |-> Cardinality(CategoryUnits(f, rule, "needs_context")'),
           too_small     |-> Cardinality(CategoryUnits(f, rule, "too_small")'),
           covered       |-> Cardinality(CategoryUnits(f, rule, "covered")')]
    BY DEF Counts, ShownAt, CategoryUnits, GroupedUnitsOf, RuleUnits
  <2>4. QED  BY <2>1, <2>2, <2>3
<1>11. QED  BY <1>1, <1>6, <1>7, <1>8, <1>9, <1>10 DEF Composed

LEMMA SameMerges ==
  ASSUME Still
  PROVE  \A files : /\ GroupPlans(files)' = GroupPlans(files)
                    /\ GroupSections(files)' = GroupSections(files)
<1>1. \A m : UnitOf(m)' = UnitOf(m)  BY DEF Still, UnitOf
<1>2. \A m : SectionsOf(m)' = SectionsOf(m)  BY <1>1 DEF SectionsOf
<1>3. \A m, s : Names(m, s)' = Names(m, s)  BY <1>2 DEF Names
<1>4. \A files, d : PlansIn(files, d)' = PlansIn(files, d)  BY <1>1 DEF PlansIn
<1>5. \A files : PlanMerges(files)' = PlanMerges(files)  BY <1>4 DEF Still, PlanMerges
<1>6. ASSUME NEW C PROVE SectionHead(C)' = SectionHead(C)
  <2> DEFINE names(s) == {m \in C : Names(m, s)}
             sections == UNION {{SectionsOf(m)[1], SectionsOf(m)[2]} : m \in C}
             most == {s \in sections : \A t \in sections : Cardinality(names(t)) <= Cardinality(names(s))}
             heads == {m \in C : Names(m, Min(most))}
             head(S) == CHOOSE m \in S : \A n \in S : SectionsOf(m)[1] <= SectionsOf(n)[1]
  <2>1. \A s : names(s)' = names(s)  BY <1>3
  <2>2. sections' = sections  BY <1>2
  <2>3. most' = most
    <3> HIDE DEF names, sections
    <3>1. QED  BY <2>1, <2>2
  <2>4. heads' = heads
    <3> HIDE DEF most
    <3>1. QED  BY <1>3, <2>3
  <2>5. SectionHead(C) = head(heads) /\ SectionHead(C)' = head(heads)'  BY DEF SectionHead
  <2> HIDE DEF heads
  <2>6. head(heads)' = head(heads)  BY <1>2, <2>4
  <2>7. QED  BY <2>5, <2>6
<1>7. \A files : SectionMerges(files)' = SectionMerges(files)
  BY <1>2, <1>3, <1>6 DEF SectionMerges, Components
<1>8. QED  BY <1>5, <1>7 DEF GroupPlans, GroupSections

LEMMA SameComposition ==
  ASSUME Still
  PROVE  Leveled(MergedFiles(Limited(Resolution)))' = Leveled(MergedFiles(Limited(Resolution)))
<1>1. \A r : ComposedFiles(r)' = ComposedFiles(r)
  <2>1. (Files \ failed)' = Files \ failed  BY DEF Still, Files
  <2>2. QED  BY <2>1, SameFindings DEF ComposedFiles
<1>2. \A r : MergedFiles(r)' = MergedFiles(r)  BY <1>1, SameMerges DEF MergedFiles
<1>3. QED  BY <1>2, SameUnits

\* The last stage composes the report, and no step follows that changes it.
LEMMA ReportStep ==
  ASSUME Inv, ReportComposed, [Next]_vars
  PROVE  ReportComposed'
<1>1. phase = Done => pending = {}
  BY StageNames DEF Inv, Dispatched, Fresh
<1>2. CASE UNCHANGED <<plan, phase, judged, presence, failed, report>>
  BY <1>2, SameComposition DEF ReportComposed, Still
<1>3. CASE phase' # Done  BY <1>3 DEF ReportComposed
<1>4. CASE Compose
  <2>1. /\ plan' = plan /\ judged' = judged /\ presence' = presence /\ failed' = failed
        /\ report' = Leveled(MergedFiles(Limited(Resolution)))
    BY <1>4 DEF Compose, MergedFiles
  <2>2. Leveled(MergedFiles(Limited(Resolution)))' = Leveled(MergedFiles(Limited(Resolution)))
    BY <2>1, SameComposition DEF Still
  <2>3. QED  BY <2>1, <2>2 DEF ReportComposed
<1>5. ASSUME Next, ~Compose, phase' = Done PROVE UNCHANGED <<plan, phase, judged, presence, failed, report>>
  <2>1. pending = {} \/ phase # Done  BY <1>1
  <2>2. phase \in 1..8  BY DEF Inv, Typed
  <2>3. ~Advance  BY <1>5, <2>2, StageNames DEF Advance
  <2>4. QED  BY <1>5, <2>1, <2>3 DEF Next, Answered, Failed, Refused
<1>6. QED  BY <1>2, <1>3, <1>4, <1>5 DEF vars

ComposedInv == Inv /\ PresenceTyped /\ ReportComposed

LEMMA ComposedHolds == Spec => []ComposedInv
<1>1. Init => PresenceTyped /\ ReportComposed
  BY StageNames DEF Init, PresenceTyped, ReportComposed
<1>2. Inv /\ PresenceTyped /\ ReportComposed /\ [Next]_vars => (PresenceTyped /\ ReportComposed)'
  BY PresenceStep, ReportStep
<1>3. QED  BY <1>1, <1>2, StagesInOrder, PTL DEF Spec, ComposedInv

\* No count goes below zero: neither the pairs a group takes from the notes
\* (compose/mod.rs) nor the findings a merge takes from the reviews
\* (grouping.rs) are more than were counted.
LEMMA ComposedCounts ==
  ASSUME Typed, PresenceTyped, NEW r, Resolves(r), report = Leveled(MergedFiles(r))
  PROVE  CountsAreNatural(r)
<1>1. SUFFICES ASSUME NEW f \in DOMAIN report, NEW rule \in DOMAIN report[f].counts
               PROVE  /\ \A n \in DOMAIN Counts(f, rule, r) : Counts(f, rule, r)[n] >= 0
                      /\ \A n \in DOMAIN report[f].counts[rule] : report[f].counts[rule][n] >= 0
  BY DEF CountsAreNatural
<1>2. DOMAIN Counts(f, rule, r) = CountNames  BY CountsShape
<1>3. \A n \in CountNames : Counts(f, rule, r)[n] \in Nat  BY CountsNatural
<1>4. /\ DOMAIN report[f].counts[rule] = CountNames
      /\ \A n \in CountNames : report[f].counts[rule][n] \in Nat
  BY ReportedNatural
<1>5. \A k \in Nat : k >= 0  OBVIOUS
<1>6. QED  BY <1>2, <1>3, <1>4, <1>5

\* Composition loses no unit (NothingLost): a raised unit is reported by a
\* finding or by those of the tests it repeats, the counts of a rule are
\* natural and add up to its units, a file with a finding of a built-in rule
\* is for review, and a clear file has no unit undecided, unanswered, unsent
\* or steered.
THEOREM NothingIsLost == Spec => []NothingLost
<1>1. ASSUME ComposedInv, phase = Done
      PROVE  NothingLostOf(Resolution, Limited(Resolution)) /\ CountsAreNatural(Limited(Resolution))
  <2> DEFINE r == Limited(Resolution)
  <2>1. /\ Typed /\ PresenceTyped /\ Resolves(r) /\ report = Leveled(MergedFiles(r))
    BY <1>1, LimitedLevels DEF ComposedInv, Inv, ReportComposed
  <2>2. NothingLostOf(Resolution, r)  BY <2>1, ComposedLosesNothing
  <2> HIDE DEF r
  <2>3. CountsAreNatural(r)  BY <2>1, ComposedCounts
  <2>4. QED  BY <2>2, <2>3 DEF r
<1>2. QED  BY <1>1, ComposedHolds, PTL DEF NothingLost
=============================================================================
