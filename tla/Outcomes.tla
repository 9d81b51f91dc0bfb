------------------------------ MODULE Outcomes ------------------------------
(* Outcomes of single answers, and how outcomes combine (src/units/        *)
(* outcome/mod.rs).  Answers are a function from the questions answered; a *)
(* Noul is the percentage of yes, a Score the percentages of its levels    *)
(* bottom to top, a Choice the percentages of its options.                 *)
EXTENDS Integers, FiniteSetsExt

At(p)      == p >= 80                       \* REVIEW_PROBABILITY
LooksAt(p) == p >= 70                       \* LOOK_PROBABILITY
Located(p) == p >= 65                       \* LOCATION_PROBABILITY
Leads(p)   == p >= 50                       \* LEADING_PROBABILITY

Levels == {"review", "consider", "note", "clear", "uncertain", "missing"}
Outcomes == [level : Levels, p : 0..100]
Outcome(level, p) == [level |-> level, p |-> p]
Clear   == Outcome("clear", 0)
Missing == Outcome("missing", 0)

Raised(o)   == o.level \in {"review", "consider"}
Decisive(o) == o.level \in {"review", "consider", "note", "clear"}
As(o, from, to) == IF o.level \in from THEN Outcome(to, o.p) ELSE o
AtMostNote(o) == As(o, {"review", "consider"}, "note")
Cleanup(o)    == As(o, {"review"}, "consider")
Lowered(o)    == IF o.level = "review" THEN As(o, {"review"}, "consider")
                                       ELSE As(o, {"consider"}, "note")

\* The strongest of several signals, at its highest probability; clear only
\* when all are.
Strongest(os) ==
  LET at(level) == {o.p : o \in {x \in os : x.level = level}}
      top(level) == Outcome(level, Max(at(level)))
  IN IF at("review") # {} THEN top("review")
     ELSE IF at("consider") # {} THEN top("consider")
     ELSE IF at("note") # {} THEN top("note")
     ELSE IF os \subseteq {Clear} THEN Clear
     ELSE Outcome("uncertain", Max({o.p : o \in os}))
-----------------------------------------------------------------------------
(* One answer. *)

Noul(n) == IF At(n) THEN Outcome("review", n)
           ELSE IF At(100 - n) THEN Clear ELSE Outcome("uncertain", n)

LookHere(n) == IF LooksAt(n) THEN Outcome("review", n) ELSE Clear

Graded(s, middle) ==       \* `middle` is what middle-or-top mass raises
  IF At(s[3]) THEN Outcome("review", s[3])
  ELSE IF At(s[2] + s[3]) THEN Outcome(middle, s[2] + s[3])
  ELSE IF At(s[1] + s[2]) THEN Clear ELSE Outcome("uncertain", s[3])
Score(s) == Graded(s, "consider")
Benefit(s) == Graded(s, IF Leads(s[3]) THEN "consider" ELSE "note")
Torn(s) == Benefit(s).level = "note" /\ ~Leads(s[2]) /\ ~Leads(s[3])

AcceptableLevels(s) == IF At(s[3]) THEN Outcome("review", s[3])
                       ELSE IF At(s[1] + s[2]) THEN Clear
                       ELSE Outcome("uncertain", s[3])
Disagreement(s) == LET o == AcceptableLevels(s)
                   IN IF Leads(o.p) THEN As(o, {"uncertain"}, "note") ELSE o
Repeated(s) == LET o == AcceptableLevels(s)
               IN IF o.level = "uncertain" /\ At(s[2] + s[3])
                  THEN Outcome("note", s[2] + s[3]) ELSE o
Origin(s) == IF At(s[3]) THEN Outcome("review", s[3])
             ELSE IF At(s[2] + s[3]) THEN Outcome("consider", s[2] + s[3])
             ELSE IF At(s[1]) THEN Clear ELSE Outcome("uncertain", s[3])

\* Answers in `b` in place of those in `a`.
With(a, b) == [q \in DOMAIN a \cup DOMAIN b |-> IF q \in DOMAIN b THEN b[q] ELSE a[q]]
Says(g, q, level) == q \in DOMAIN g /\ Noul(g[q]).level = level
Share(c, options) == MapThenSumSet(LAMBDA o : c[o], options \cap DOMAIN c)
Holds(g, q, options, Reaches(_)) == q \in DOMAIN g /\ Reaches(Share(g[q], options))
RuledOut(g, q, options) == q \in DOMAIN g /\ At(100 - Share(g[q], options))

\* A split weighed with the kind of document, once that is asked.
WeighedByKind(o, g, several) ==
  IF ~(Raised(o) \/ o.level = "uncertain") \/ "kind" \notin DOMAIN g THEN o
  ELSE IF RuledOut(g, "kind", several) THEN Clear
  ELSE IF o.level = "uncertain" /\ Holds(g, "kind", several, At)
       THEN Outcome("consider", Share(g["kind"], several)) ELSE o
=============================================================================
