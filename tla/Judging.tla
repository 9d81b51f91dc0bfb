------------------------------ MODULE Judging ------------------------------
(* One evaluation of planned units (src/evaluate.rs, src/units/follow_ups  *)
(* .rs, compose/mod.rs, grouping.rs): the first pass and each follow-up    *)
(* stage are dispatched, their receipts applied in the order of the tasks, *)
(* and the recorded judgments composed into findings, counts and statuses. *)
(* A plan's requests carry the answers Jev may give to each unit they ask. *)
EXTENDS UnitAnswers, Sequences

CONSTANTS Plans,      \* the plans a run may judge
          MaxFaults   \* requests that fail or are refused, in one evaluation

ASSUME FaultsAssumption == MaxFaults \in Nat

\* What the follow-ups of a finding, the settles and the kinds ask, by name.
Confirms == [values |-> {"values"}, checked |-> {"paths", "markup_values", "redirect_reach"},
             queried |-> {"query_values"}, rendered |-> {"raw_html"},
             readers |-> {"error_readers"}, logging |-> {"logged_when"},
             confirm |-> {"distinct", "reads"}, locate |-> {"block", "part"}]
SettleChoices == {s.question : s \in Settles}
KindChoices == {"kind", "role", "relation"}
Late == DOMAIN Confirms \cup SettleChoices \cup {"kind"}
LateAsks(name) == IF name \in DOMAIN Confirms THEN Confirms[name]
                  ELSE IF name = "kind" THEN KindChoices ELSE {name}

\* A unit of a rule is planned under an id of its own; each follow-up asks
\* something, and what a late one asks of a unit is asked of it nowhere else;
\* checks of documents have no first request, and a plan is a staleness unit.
\* Files, and sections, are numbered in the order of their paths.
AskElsewhere(pl, u, name) ==
  (UNION {{DOMAIN a : a \in r.asks[u.id]} : r \in {x \in pl.first : u.id \in DOMAIN x.asks}})
  \cup (UNION {{DOMAIN a : a \in u.asks[n]} : n \in DOMAIN u.asks \ {name}})
WellPlanned(pl) ==
  /\ IsFiniteSet(pl.units) /\ \A u, v \in pl.units : u.id = v.id => u = v
  /\ \A u \in pl.units : u.rule \in Rules /\ u.file \in Nat
  /\ \A u \in pl.units : /\ u.rule = "custom" => u.strength \in {"review", "consider", "note"}
                         /\ u.rule = "doc_pair" => u.sections \in Nat \X Nat
  /\ \A u \in pl.units : \A name \in DOMAIN u.asks : \A a \in u.asks[name] :
       DOMAIN a # {} /\ (name \in Late => DOMAIN a \subseteq LateAsks(name))
  /\ \A u \in pl.units : \A name \in DOMAIN u.asks \cap Late :
       \A asked \in AskElsewhere(pl, u, name) : asked \cap LateAsks(name) = {}
  /\ \A u \in pl.units : DocCheck(u) => \A r \in pl.first : u.id \notin DOMAIN r.asks
  /\ \A u \in pl.units : "plan" \in u.is => u.rule = "stale"
  /\ \A r \in pl.first : r.pass = "first"
ASSUME PlansAssumption == \A pl \in Plans : WellPlanned(pl)

VARIABLES plan,       \* units, their first requests, texts that may steer
          phase,      \* the stage being asked
          pending,    \* dispatched requests whose receipts are not applied yet
          judged,     \* unit -> pass -> answers recorded
          presence,   \* unit -> judged, needs_context or too_small
          failed,     \* files in error
          refused,    \* history: requests refused as beyond the context
          faults,     \* history: faults so far
          report      \* file -> what composition made of it

vars == <<plan, phase, pending, judged, presence, failed, refused, faults, report>>

StagesRecheckFirst ==  \* mutant: rechecks before the traces they look at again
  <<"first", "doc_checks", "rechecks", "traces", "settles", "kinds", "locates">>
Stages == <<"first", "doc_checks", "traces", "rechecks", "settles", "kinds", "locates">>
Composing == Len(Stages)
Done == Composing + 1

Units == {u.id : u \in plan.units}
Ids   == Units \cup {s.id : s \in plan.steering}
Files == {u.file : u \in plan.units}
Of(f) == {u \in plan.units : u.file = f}
J(u)  == judged[u.id]
Resolution == [u \in plan.units |-> Resolved(u, J(u))]

Init ==
  /\ plan \in Plans
  /\ phase = 1
  /\ pending = plan.first
  /\ judged = [i \in Ids |-> [p \in Passes |-> <<>>]]
  /\ presence = [i \in Units |-> IF \E u \in plan.units : u.id = i /\ "too_small" \in u.is
                               THEN "too_small" ELSE "judged"]
  /\ failed = {} /\ refused = {} /\ faults = 0 /\ report = <<>>
-----------------------------------------------------------------------------
(* The follow-ups each stage asks of the judgments recorded so far. *)

FinishedPlans(r) ==
  {u.file : u \in {x \in plan.units : "plan" \in x.is /\ Raised(r[x].outcome)}}
DocCheckDue(u, finished) ==
  DocCheck(u) /\ ~Asked(J(u), "trace") /\ {u.file, u.other} \cap finished = {}

\* `r` gives what each unit resolved to.
DueNames(stage, u, r) ==
  CASE stage = "doc_checks" -> IF DocCheckDue(u, FinishedPlans(r)) THEN {"check"} ELSE {}
    [] stage = "traces"     -> IF Untraced(u, J(u)) THEN {"trace"} ELSE {}
    [] stage = "rechecks"   -> IF Unclear(u, J(u)) THEN {"recheck"} ELSE {}
    [] stage = "settles"    -> Unsettled(u, J(u), r[u])
    [] stage = "kinds"      -> IF Unkinded(u, J(u), r[u]) THEN {"kind"} ELSE {}
    [] stage = "locates"    -> LocatesDue(u, J(u), r[u])

PassOf(stage, u) == CASE stage \in {"doc_checks", "traces"} -> "trace"
                      [] stage = "rechecks" -> "recheck"
                      [] stage = "settles"  -> "settle"
                      [] stage = "kinds"    -> IF u.rule = "large_doc" THEN "trace" ELSE "settle"
                      [] stage = "locates"  -> "locate"
FollowUp(stage, u, name) ==
  [file |-> u.file, pass |-> PassOf(stage, u), asks |-> [i \in {u.id} |-> u.asks[name]]]
DueOf(stage, u, r) ==
  {FollowUp(stage, u, name) : name \in DueNames(stage, u, r) \cap DOMAIN u.asks}
FollowUps(stage, r) ==
  UNION {DueOf(stage, u, r) : u \in {x \in plan.units : /\ presence[x.id] = "judged"
                                                     /\ x.file \notin failed}}
-----------------------------------------------------------------------------
(* Dispatch and receipts. *)

Advance ==
  /\ pending = {} /\ phase < Composing
  /\ phase' = phase + 1
  /\ pending' = FollowUps(Stages[phase + 1], Resolution)
  /\ UNCHANGED <<plan, judged, presence, failed, refused, faults, report>>

Task == CHOOSE r \in pending : TRUE   \* the task whose receipt is applied next

\* Its request was refused as beyond the model's context, and no other one
\* answered the unit: it needs context.
Unsent(i) == /\ \E r \in refused : i \in DOMAIN r.asks
             /\ \A p \in Passes : ~Asked(judged[i], p)
\* The task's receipt is applied; the last one of a stage ends it.
Applied ==
  /\ pending' = pending \ {Task}
  /\ presence' = IF pending' # {} THEN presence
                 ELSE [i \in Units |-> IF presence[i] = "judged" /\ Unsent(i)'
                                       THEN "needs_context" ELSE presence[i]]

\* A file in error keeps its failure, and takes no more answers.
Answered ==
  /\ pending # {}
  /\ \E a \in [DOMAIN Task.asks -> UNION {Task.asks[i] : i \in DOMAIN Task.asks}] :
       /\ \A i \in DOMAIN a : a[i] \in Task.asks[i]
       /\ judged' = IF Task.file \in failed THEN judged
                    ELSE [i \in DOMAIN judged |->
                           IF i \in DOMAIN a
                           THEN [judged[i] EXCEPT ![Task.pass] = With(@, a[i])] ELSE judged[i]]
  /\ UNCHANGED <<plan, phase, failed, refused, faults, report>>
  /\ Applied

\* The provider failed, an answer did not parse, or a source changed.
Failed ==
  /\ pending # {} /\ faults < MaxFaults
  /\ failed' = failed \cup {Task.file}
  /\ faults' = faults + 1
  /\ UNCHANGED <<plan, phase, judged, refused, report>>
  /\ Applied

\* Refused as beyond the model's context: units with answers keep them.
Refused ==
  /\ pending # {} /\ faults < MaxFaults
  /\ refused' = refused \cup {Task}
  /\ faults' = faults + 1
  /\ UNCHANGED <<plan, phase, judged, failed, report>>
  /\ Applied
-----------------------------------------------------------------------------
(* Composing a file's units. *)

Category(u) == IF presence[u.id] # "judged" THEN presence[u.id]
               ELSE IF DocCheck(u) /\ ~Asked(J(u), "trace") THEN "covered" ELSE "judged"
JudgedOf(f) == {u \in Of(f) : Category(u) = "judged"}

\* Considered comments of one unit that span under three lines in all.
Lines(comments) == MapThenSumSet(LAMBDA u : u.lines, comments)
Few(u, r) ==
  LET considered == {v \in JudgedOf(u.file) : /\ v.rule = "comment" /\ v.owner = u.owner
                                              /\ r[v].outcome.level = "consider"}
  IN u.rule = "comment" /\ u \in considered /\ Lines(considered) < 3

\* A text sent with the unit reads as written to steer its reviewer.
Steered(u) ==
  \E s \in plan.steering : /\ u.id \in s.covers
                           /\ Says(judged[s.id]["first"], "steers", "review")
Limit(u, o) == IF Steered(u) THEN As(o, {"clear", "note"}, "uncertain") ELSE o
Limited(r) ==
  [u \in DOMAIN r |->
     [r[u] EXCEPT !.outcome = Limit(u, Looked(u, J(u), Capped(u, r[u], Few(u, r))))]]
\* From here on, `r` is so limited.  A lone pair of overlapping tests is a note.
Final(u, r) == IF u.rule = "test_pair" THEN As(r[u].outcome, {"consider"}, "note")
                                       ELSE r[u].outcome
Reported(u, r) == Final(u, r).level \in {"review", "consider", "note"}

\* The parts of S that Link connects.
Components(S, Link(_, _)) ==
  LET closed(C) == C # {} /\ \A u \in C : \A v \in S : Link(u, v) => v \in C
  IN {C \in SUBSET S : closed(C) /\ \A D \in SUBSET C \ {C} : ~closed(D)}

\* Three or more tests that overlapping pairs of one subject connect.
Redundant(f, r) == {u \in JudgedOf(f) : u.rule = "test_pair" /\ Raised(r[u].outcome)}
Tests(C) == UNION {u.names : u \in C}
Clusters(f, r) ==
  LET linked(u, v) == u.subject = v.subject /\ u.names \cap v.names # {}
  IN {C \in Components(Redundant(f, r), linked) : Cardinality(Tests(C)) >= 3}
Grouped(f, r) == {u \in UNION Clusters(f, r) : r[u].outcome.level = "consider"}

Finding(rule, level, us, kind) ==
  [rule |-> rule, level |-> level, units |-> {u.id : u \in us}, kind |-> kind]
Kind(u, g) == CASE "plan" \in u.is -> "plan"
                [] u.rule = "doc_pair" -> IF Disagreement(g["conflict"]).level = "review"
                                          THEN "conflict" ELSE "repetition"
                [] OTHER -> "own"
OwnFindings(f, r) ==
  {Finding(u.rule, Final(u, r).level, {u}, Kind(u, r[u].answers)) :
     u \in {v \in JudgedOf(f) : v.rule # "comment" /\ Reported(v, r)} \ Grouped(f, r)}
GroupFindings(f, r) == {Finding("test_pair", "consider", C, "group") : C \in Clusters(f, r)}
CommentFindings(f, r) ==
  LET comments == {u \in JudgedOf(f) : u.rule = "comment" /\ Reported(u, r)}
      beside(u, v) == v.owner = u.owner /\ r[v].outcome.level = r[u].outcome.level
  IN {Finding("comment", r[u].outcome.level, {v \in comments : beside(u, v)}, "comment") :
        u \in comments}
DropAnyCopies(findings) ==  \* mutant: a repeat with one copy in such a test
  LET named == Tests({u \in plan.units : \E x \in findings : u.id \in x.units})
      copies(x) == UNION {u.copies : u \in {v \in plan.units : v.id \in x.units}}
  IN {x \in findings : x.rule # "shared_logic" \/ copies(x) \cap named = {}}
\* A repeat whose every copy lies in tests a reported redundancy names.
DropCopies(findings) ==
  LET reported == {x \in findings : x.rule = "test_pair" /\ x.level # "note"}
      named == Tests({u \in plan.units : \E x \in reported : u.id \in x.units})
      copies(x) == UNION {u.copies : u \in {v \in plan.units : v.id \in x.units}}
  IN {x \in findings : \/ x.rule # "shared_logic"
                       \/ copies(x) = {} \/ ~(copies(x) \subseteq named)}
-----------------------------------------------------------------------------
(* Counts and statuses. *)

OneLevelCounts(rule, c) ==
  LET notes == IF rule = "custom" THEN "review" ELSE "clear"
  IN [[c EXCEPT !["review"] = @ + c["consider"], !["consider"] = 0, !["note"] = 0]
        EXCEPT ![notes] = @ + c["note"]]

Counts(f, rule, r) ==
  LET us == {u \in Of(f) : u.rule = rule}
      judgedAt(levels) == Cardinality({u \in us \cap JudgedOf(f) : Final(u, r).level \in levels})
      not(category) == Cardinality({u \in us : Category(u) = category})
      grouped == Cardinality(us \cap Grouped(f, r))
  IN [review |-> judgedAt({"review"}), consider |-> judgedAt({"consider"}) + grouped,
      note |-> judgedAt({"note"}) - grouped, clear |-> judgedAt({"clear"}),
      uncertain |-> judgedAt({"uncertain", "missing"}), judged |-> not("judged"),
      needs_context |-> not("needs_context"), too_small |-> not("too_small"),
      covered |-> not("covered")]

CountedStatus(c) == IF c["review"] > 0 THEN "review"
                    ELSE IF c["consider"] > 0 THEN "consider"
                    ELSE IF c["needs_context"] > 0 THEN "needs_context"
                    ELSE IF c["uncertain"] > 0 THEN "uncertain"
                    ELSE IF c["note"] > 0 THEN "note"
                    ELSE IF c["clear"] > 0 THEN "clear" ELSE "not_applicable"
FileStatus(counts, findings) ==
  LET statuses == {CountedStatus(counts[r]) : r \in DOMAIN counts}
      levels   == {x.level : x \in findings}
  IN IF statuses \subseteq {"not_applicable"} THEN "not_applicable"
     ELSE IF "review" \in levels THEN "review"
     ELSE IF "consider" \in levels THEN "consider"
     ELSE IF "needs_context" \in statuses THEN "needs_context"
     ELSE IF "uncertain" \in statuses THEN "uncertain"
     ELSE IF findings # {} THEN "note" ELSE "clear"

FileReport(counts, findings) ==
  [counts |-> counts, findings |-> findings, status |-> FileStatus(counts, findings)]
Composed(f, r) ==
  FileReport([x \in {u.rule : u \in Of(f)} |-> OneLevelCounts(x, Counts(f, x, r))],
             DropCopies(OwnFindings(f, r) \cup GroupFindings(f, r)) \cup CommentFindings(f, r))
-----------------------------------------------------------------------------
(* Findings repeated in several files become one; then one level. *)

\* Each such finding of `files`, with the file it is in.
FindingsThat(files, Are(_)) ==
  UNION {{[file |-> f, x |-> x] : x \in {y \in files[f].findings : Are(y)}} :
           f \in DOMAIN files}

(* A merge joins members, of which the head stays.  Its source merges one  *)
(* group after another; no finding is in two of them, so here all at once. *)

Heads(merges) == {g.head : g \in merges}
Joined(merges) == UNION {g.members : g \in merges}
LoweredIn(merges, f) == {m.x : m \in {n \in Joined(merges) \ Heads(merges) : n.file = f}}
NamedBy(merges, head) ==
  UNION {m.x.units : m \in Joined({g \in merges : g.head = head})}

\* The head names the other members' units; they become notes.
AfterMerge(merges, f, x) ==
  IF [file |-> f, x |-> x] \in Heads(merges)
  THEN [x EXCEPT !.units = NamedBy(merges, [file |-> f, x |-> x])]
  ELSE IF x \in LoweredIn(merges, f) THEN [x EXCEPT !.level = "note"] ELSE x
Recounted(merges, f, rule, c) ==
  LET lowered == Cardinality({x \in LoweredIn(merges, f) : x.rule = rule})
  IN [c EXCEPT !["review"] = @ - lowered, !["note"] = @ + lowered]
MergedFile(merges, f, file) ==
  FileReport([rule \in DOMAIN file.counts |-> Recounted(merges, f, rule, file.counts[rule])],
             {AfterMerge(merges, f, x) : x \in file.findings})
Merge(files, merges) == [f \in DOMAIN files |-> MergedFile(merges, f, files[f])]

\* The unit of a finding that stands for one.
UnitOf(m) == CHOOSE u \in plan.units : u.id \in m.x.units

\* Finished plans of one directory: the first by path keeps its finding.
FinishedPlan(x) == x.kind = "plan" /\ x.level # "note"
PlansIn(files, directory) ==
  {m \in FindingsThat(files, FinishedPlan) : UnitOf(m).directory = directory}
FirstByPath(plans) == CHOOSE m \in plans : \A n \in plans : m.file <= n.file
PlanMerges(files) ==
  LET directories == {u.directory : u \in plan.units}
  IN {[head |-> FirstByPath(PlansIn(files, d)), members |-> PlansIn(files, d)] :
        d \in {e \in directories : Cardinality(PlansIn(files, e)) >= 2}}
GroupPlans(files) == Merge(files, PlanMerges(files))

\* The sections of a repetition's pair, the file's own first; sections are
\* numbered by path and line.
SectionsOf(m) == UnitOf(m).sections
Names(m, s) == s \in {SectionsOf(m)[1], SectionsOf(m)[2]}
\* The repetitions that share sections: the first that names the section
\* most of them name keeps its finding.
SectionHead(members) ==
  LET named(s) == Cardinality({m \in members : Names(m, s)})
      sections == UNION {{SectionsOf(m)[1], SectionsOf(m)[2]} : m \in members}
      most == {s \in sections : \A t \in sections : named(t) <= named(s)}
      heads == {m \in members : Names(m, Min(most))}
  IN CHOOSE m \in heads : \A n \in heads : SectionsOf(m)[1] <= SectionsOf(n)[1]
Repetition(x) == x.kind = "repetition" /\ x.level # "note"
SectionMerges(files) ==
  LET linked(m, n) == \E s \in {SectionsOf(m)[1], SectionsOf(m)[2]} : Names(n, s)
      groups == {C \in Components(FindingsThat(files, Repetition), linked) : Cardinality(C) >= 2}
  IN {[head |-> SectionHead(C), members |-> C] : C \in groups}
GroupSections(files) == Merge(files, SectionMerges(files))

\* Every finding is a review; notes are not reported, but a custom question's.
OneLevel(file) ==
  LET findings == {[x EXCEPT !.level = "review"] :
                     x \in {y \in file.findings : y.level # "note" \/ y.rule = "custom"}}
      counts == [r \in DOMAIN file.counts |-> OneLevelCounts(r, file.counts[r])]
  IN [counts |-> counts, findings |-> findings,
      status |-> IF file.status \in {"review", "consider", "note"}
                 THEN FileStatus(counts, findings) ELSE file.status]
Leveled(files) == [f \in DOMAIN files |-> OneLevel(files[f])]
ComposedFiles(r) == [f \in Files \ failed |-> Composed(f, r)]

Compose ==
  /\ pending = {} /\ phase = Composing
  /\ phase' = Done
  /\ report' = Leveled(GroupSections(GroupPlans(ComposedFiles(Limited(Resolution)))))
  /\ UNCHANGED <<plan, pending, judged, presence, failed, refused, faults>>

Next == Advance \/ Answered \/ Failed \/ Refused \/ Compose
Spec == Init /\ [][Next]_vars
-----------------------------------------------------------------------------
(* Properties. *)

\* A settle Choice asked only of undecided units, of a unit whose other
\* settles were asked: clearing a finding's check may leave it undecided.
LateSettle(u, r) ==
  /\ r.pass = "settle" /\ Asked(J(u), "settle")
  /\ \E s \in Settles : /\ s.rule = u.rule /\ s.when # "not_clear"
                        /\ s.question \in DOMAIN u.asks /\ u.asks[s.question] = r.asks[u.id]

\* When an evaluation is composed, no judged unit is left with a follow-up
\* its answers call for and its plan holds: each stage runs once
\* (evaluate.rs), so a stage before the one whose answers make it due would
\* never ask it.  Not so of a request the provider refused, and of a settle
\* of undecided units when another settle left the unit undecided.
NoneLeftDue ==
  phase = Done =>
    \A u \in plan.units : presence[u.id] = "judged" /\ u.file \notin failed =>
      \A n \in 2..Composing : \A r \in DueOf(Stages[n], u, Resolution) :
        r \in refused \/ LateSettle(u, r)

Severity(r) == CASE r.outcome.level = "review" -> 2
                 [] r.outcome.level = "consider" -> 1 [] OTHER -> 0
\* A settle or confirm answer never raises a unit: "a settle only clears"
\* (due.rs), and what a confirm asks of a finding only lowers it.  Not so of
\* PHP markup joined from another party's values, which raises its origin.
LateAsksOnlyLower ==
  [][\A u \in plan.units :
       /\ Stages[phase] \in {"settles", "locates"} /\ phase' = phase
       /\ u.rule = Injected =>
            LET g == SecurityAnswers(judged'[u.id])
            IN ~OutsideMarkup(g, SettledChecks(Injected, g))
       => Severity(Resolved(u, judged'[u.id])) <= Severity(Resolved(u, J(u)))]_vars

\* No follow-up answer makes undecided a unit its answers decided, outside
\* the security rules, whose traces and rechecks see more evidence: a
\* recheck that does not decide leaves the first answers (answers.rs).  A
\* document whose kind rules its split out is left with its history answer.
DecidedStays ==
  [][\A u \in plan.units :
       u.rule \notin Security /\ phase > 1 /\ Decisive(Resolved(u, J(u)).outcome)
       => \/ Decisive(Resolved(u, judged'[u.id]).outcome)
          \/ /\ u.rule = "large_doc"
             /\ RuledOut(judged'[u.id]["trace"], "kind", SeveralDocumentKinds)]_vars

\* The units a finding stands for: those it names, and for a dropped repeat
\* of tests, the repeat.
Standing(f) ==
  LET named == UNION {x.units : x \in UNION {report[g].findings : g \in DOMAIN report}}
      tests == Tests({u \in Of(f) : u.rule = "test_pair" /\ u.id \in named})
  IN {u \in Of(f) : \/ u.id \in named
                    \/ u.rule = "shared_logic" /\ u.copies # {} /\ u.copies \subseteq tests}
\* A file's status is that of a unit left undecided or not sent.
HeldOpen(file) ==
  \E rule \in DOMAIN file.counts : \E n \in {"uncertain", "needs_context"} :
    file.counts[rule][n] > 0 /\ file.status \in {"uncertain", "needs_context"}
NothingLostOf(r, limited) ==
    \A f \in DOMAIN report :
      /\ \A u \in JudgedOf(f) :
           Raised(Final(u, limited)) \/ u \in Grouped(f, limited) => u \in Standing(f)
      /\ \A rule \in DOMAIN report[f].counts :
           LET c == report[f].counts[rule]
           IN /\ c["review"] + c["clear"] + c["uncertain"] = c["judged"]
              /\ c["judged"] + c["needs_context"] + c["too_small"] + c["covered"]
                   = Cardinality({u \in Of(f) : u.rule = rule})
      /\ (\E x \in report[f].findings : x.rule # "custom") => report[f].status = "review"
      /\ report[f].findings # {} => report[f].status = "review" \/ HeldOpen(report[f])
      /\ report[f].status = "clear" =>
           \A u \in Of(f) : \/ Category(u) \in {"covered", "too_small"}
                            \/ /\ Category(u) = "judged"
                               /\ Decisive(Looked(u, J(u), r[u].outcome))
                               /\ Steered(u) => Raised(r[u].outcome)
\* The pairs a group takes are among the notes composition takes them from
\* (an unsigned subtraction), and what a merge lowers is among the reviews (a
\* saturating one, which would lose a unit).
CountsAreNatural(limited) ==
  \A f \in DOMAIN report : \A rule \in DOMAIN report[f].counts :
    \A c \in {Counts(f, rule, limited), report[f].counts[rule]} :
      \A n \in DOMAIN c : c[n] >= 0
\* Composition loses no unit: every unit that reached a review or consider
\* on its own or in a group is reported by a finding of some file, the
\* counts of a rule never go below zero and add up to its units, a file with
\* a finding of a built-in rule has the status review, one with only custom
\* questions' findings has it too unless a unit is undecided or not sent
\* (one_level), and a clear file has no unit left undecided, unanswered,
\* unsent or steered (a function's look-here answer decides what its
\* measured answers leave open).
NothingLost ==
  LET limited == Limited(Resolution)
  IN phase = Done => NothingLostOf(Resolution, limited) /\ CountsAreNatural(limited)
=============================================================================
