----------------------------- MODULE MCJudging -----------------------------
(* Plans for Judging: each gives the answers that tell its rules' outcomes *)
(* apart: both sides of a threshold, and the undecided between.            *)
EXTENDS Judging, TLC

Top == <<2, 8, 90>>
Leading == <<10, 30, 60>>
Torn1 == <<15, 45, 40>>
Fine == <<5, 80, 15>>
Split1 == <<30, 40, 30>>
Bottom == <<90, 5, 5>>
Yes == 90
Lean == 60
Doubt == 30
No == 10

\* Every answer of one question; every combination of two requests' worth.
Q(question, answers) == {question :> a : a \in answers}
X(as, bs) == {a @@ b : a \in as, b \in bs}
C(question, options) == Q(question, {o :> 90 @@ "other" :> 10 : o \in options})

Unit(id, rule, file, asks) ==
  [id |-> id, rule |-> rule, file |-> file, asks |-> asks, is |-> {}, lines |-> 30,
   owner |-> "f", subject |-> "s", names |-> {}, copies |-> {}, sections |-> <<0, 0>>,
   directory |-> "docs", other |-> 0, threshold |-> 0, strength |-> "note"]
Ask(file, asks) == [file |-> file, pass |-> "first", asks |-> asks]
Plan(units, first) == [units |-> units, first |-> first, steering |-> {}]
One(u, first) == Plan({u}, {Ask(u.file, u.id :> first)})
Is(u, flags) == [u EXCEPT !.is = flags]

\* Security.
InjectionFirst == X(Q("interpreted", {Yes, No}), Q("resource", {Doubt, No}))
Query == Unit("query", Injected, 1,
  "trace" :> X(X(Q("origin", {Top, Fine, Split1}), Q("sql", {Yes, No, Lean})),
               Q("path", {Yes, Doubt, No}))
  @@ "recheck" :> Q("origin", {Top, Fine, Split1, Bottom})
  @@ "path_source" :> C("path_source", {"fine", "outside"})
  @@ "values" :> C("values", {"fine", "other"})
  @@ "checked" :> C("paths", {"fine", "other"})
  @@ "queried" :> C("query_values", {"fine", "other"}))
Page == Unit("page", Injected, 1,
  "trace" :> X(X(Q("origin", {Fine, Split1}), Q("markup", {Yes, Lean, Doubt, No})),
               X(Q("path", {Yes, Doubt}), Q("redirect", {Doubt, No})))
  @@ "markup_parts" :> C("markup_parts", {"fine", "outside", "other"})
  @@ "path_parts" :> C("path_parts", {"fine", "other"})
  @@ "redirect_target" :> C("redirect_target", {"fine", "outside", "other"})
  @@ "values" :> C("values", {"fine", "other"})
  @@ "checked" :> C("markup_values", {"fine", "other"}))
Handler == Unit("handler", Sensitive, 1,
  "trace" :> X(X(Q("logs_object_secret", {Yes, No}), Q("exception_to_client", {Yes, Lean})),
               X(C("messages", {"none", "m0"}), Q("dev_only", {Yes, No})))
  @@ "destination" :> C("destination", {"fine", "other"})
  @@ "logged" :> C("logged", {"fine", "other"})
  @@ "logging" :> C("logged_when", {"opt_in", "other"})
  @@ "readers" :> C("error_readers", {"fine", "other"}))
Setup == Unit("setup", Settings, 1,
  "trace" :> X(X(Q("token", {Yes, Lean, No}), Q("cors", {Lean, No})),
               X(Q("escape", {Yes, No}), Q("hash", {Yes, No})))
  @@ "token_use" :> C("token_use", {"fine", "turned_off", "other"})
  @@ "cors_origins" :> C("cors_origins", {"fine", "other"})
  @@ "password_handling" :> C("password_handling", {"fine", "other"})
  @@ "rendered" :> C("raw_html", {"fine", "other"}))
SecurityPlans ==
  {One(Query, InjectionFirst), One(Is(Query, {"example"}), InjectionFirst),
   One(Page, InjectionFirst),
   One(Handler, X(Q("logs_secret", {Yes, Lean, No}), Q("error_details", {Yes, Doubt}))),
   One(Is(Unit("catch", Sensitive, 1, <<>>), {"handler"}), Q("handler_leaks", {Yes, Doubt, No}))}
  \cup {One(Is(Setup, flags), Q("weakened", {Yes, Doubt, No})) :
          flags \in {{}, {"django"}, {"django", "settings_module"}, {"test_path"}}}

\* Code: functions packed in one request, a test, test pairs, comments.
FunctionFirst == X(Q("split", {Top, Leading, Torn1, Split1}), Q("look", {Yes, No}))
Function1(id, lines) ==
  [Unit(id, "function", 1, "recheck" :> Q("split", {Top, Split1, Bottom})
                           @@ "locate" :> C("block", {"B1"})) EXCEPT !.lines = lines]
Functions1 ==
  Plan({Function1("long", 30), Function1("short", 10)},
       {Ask(1, "long" :> FunctionFirst @@ "short" :> Q("split", {Leading, Split1}))})
TestFirst == X(X(Q("own_logic", {Yes, Lean, Doubt, No}), Q("mock_only", {Doubt, No})),
               X(Q("internal", {Yes, No}), Q("several", {Yes, No})))
Test1 == Unit("test", "test_value", 1,
  "recheck" :> Q("own_logic", {Yes, Lean, Doubt})
  @@ "confirm" :> Q("reads", {"observed" :> n @@ "other" :> 100 - n : n \in {90, 60, 10}}))
Steer(plan1, id, covers) ==
  [plan1 EXCEPT !.steering = {[id |-> id, covers |-> covers]},
                !.first = @ \cup {Ask(1, id :> Q("steers", {Yes, No}))}]
Pair(id, names, asks) == [Unit(id, "test_pair", 1, asks) EXCEPT !.names = names]
PairFirst == X(Q("overlap", {Top, Fine, Split1}),
               X(Q("same_input", {Yes, Doubt}), Q("same_outcome", {Yes, No})))
Pairs1 ==
  Plan({Pair("ab", {"a", "b"}, "recheck" :> Q("overlap", {Top, Split1})
                               @@ "confirm" :> Q("distinct", {Yes, No})),
        Pair("bc", {"b", "c"}, <<>>), Pair("de", {"d", "e"}, <<>>),
        [Unit("copy", "shared_logic", 1, <<>>) EXCEPT !.copies = {"a", "b"}],
        [Unit("part", "shared_logic", 1, <<>>) EXCEPT !.copies = {"a", "outside"}]},
       {Ask(1, "ab" :> PairFirst), Ask(1, "bc" :> Q("overlap", {Top, Fine, Bottom})),
        Ask(1, "de" :> Q("overlap", {Top, Fine})),
        Ask(1, "copy" :> Q("look", {Yes, No})), Ask(1, "part" :> Q("look", {Yes}))})
Comment1(id, lines) ==
  [Unit(id, "comment", 1,
        "recheck" :> X(Q("restates", {Top, Split1, Bottom}), Q("history", {No}))
        @@ "kind" :> Q("kind", {"narration" :> n @@ "other" :> 100 - n : n \in {90, 60, 10}}))
     EXCEPT !.lines = lines]
CommentFirst == X(Q("restates", {Top, Leading, Torn1, Split1}), Q("history", {No, Doubt}))
Comments1 ==
  Plan({Comment1("one", 1), Is(Comment1("two", 2), {"documentation"}),
        [Comment1("law", 2) EXCEPT !.asks = "kind" :> C("kind", {"other"})]},
       {Ask(1, "one" :> CommentFirst @@ "two" :> CommentFirst),
        Ask(1, "law" :> X(Q("restates", {Top, Split1}), Q("history", {No})))})
Law1 == Unit("claim", "law", 1,
  "recheck" :> X(Q("relation", {"gap" :> n @@ "other" :> 100 - n : n \in {90, 50, 10}}),
                 Q("fixed", {Yes, Doubt, No})))
CodePlans ==
  {Functions1, One(Test1, TestFirst), Steer(One(Test1, TestFirst), "s1", {"test"}),
   Pairs1, Steer(Pairs1, "s1", {"ab", "copy"}), Comments1,
   One(Law1, Q("states", {Top, Leading, Split1, Bottom})),
   One(Is(Law1, {"example"}), Q("states", {Top, Split1})),
   Plan({Unit("file", "organization", 1, <<>>), Is(Unit("tiny", "function", 1, <<>>), {"too_small"})},
        {Ask(1, "file" :> Q("look", {Yes, No}))})}

\* Documents: plans, stale sections and section pairs of three files.
Plan1(id, file) == Is(Unit(id, "stale", file, <<>>), {"plan"})
Stale1 == [Unit("stale", "stale", 2, "check" :> Q("relies", {Yes, Doubt, No})
                                     @@ "kind" :> C("role", {"repository", "other"}))
             EXCEPT !.other = 0]
Repeat1(id, file, other, sections) ==
  [Unit(id, "doc_pair", file,
        "check" :> X(X(Q("a_covers", {Top, Split1}), Q("b_covers", {Bottom})),
                     Q("conflict", {Top, Bottom}))
        @@ "kind" :> C("relation", {"repeats", "other"}))
     EXCEPT !.other = other, !.sections = sections]
DocPlans ==
  {Plan({Plan1("p1", 1), Plan1("p2", 2), Stale1, Repeat1("r13", 3, 1, <<3, 1>>),
         [Plan1("p4", 4) EXCEPT !.directory = "archive"]},
        {Ask(4, "p4" :> Q("plan", {Yes})),
         Ask(1, "p1" :> Q("plan", {Yes, Doubt, No})), Ask(2, "p2" :> Q("plan", {Yes, No}))}),
   Plan({Repeat1("r12", 1, 2, <<1, 2>>), Repeat1("r23", 2, 3, <<2, 3>>),
         Repeat1("r34", 3, 0, <<4, 5>>)}, {}),
   One(Unit("guide", "large_doc", 1,
            "kind" :> Q("kind", {"collection" :> n @@ "other" :> 100 - n : n \in {90, 50, 10}})
            @@ "locate" :> C("part", {"B1"})),
       X(Q("split", {Top, Torn1, Split1, Bottom}), Q("history", {Yes, Lean, Doubt, No})))}
  \cup {One(Is(Unit("rules", "section", 1,
                    "recheck" :> C("kind", {"instructions", "description", "record", "other"})), flags),
            X(X(Q("inferable", {Top, Split1, Bottom}), Q("describes", {Yes, Doubt})),
              X(Q("history", {Doubt, No}), Q("scope", {"src" :> 90 @@ "none" :> 10}))) ) :
          flags \in {{}, {"small_section"}}}

\* Access control, workflow jobs, a custom question beside an undecided law.
Custom1(strength) == [Unit("custom", "custom", 1, <<>>) EXCEPT !.threshold = 70, !.strength = strength]
CustomPlans ==
  {Plan({Custom1(s), Unit("claim", "law", 1, <<>>)},
        {Ask(1, "custom" :> Q("custom", {Yes, Lean, No})),
         Ask(1, "claim" :> Q("states", {Top, Split1, Bottom}))}) : s \in {"note", "review"}}
OtherPlans ==
  {One(Unit("job", "workflow", 1, "recheck" :> C("outside_source", {"none", "other"})),
       X(Q("outside", {Yes, Doubt, No}), Q("untrusted", {Doubt, No}))),
   One(Is(Unit("a", "access", 1, <<>>), {"definer"}),
       X(Q("unchecked", {Yes, Doubt, No}), Q("search_path", {Yes, No}))),
   One(Is(Unit("a", "access", 1, <<>>), {"policy"}),
       X(Q("others", {Yes, Doubt, No}), Q("editable", {Yes, No}))),
   One(Is(Unit("a", "access", 1, <<>>), {"grant"}), Q("broad", {Yes, Doubt, No})),
   One(Is(Unit("a", "access", 1, <<>>), {"table"}),
       X(Q("data", {Top, Split1, Bottom}), Q("exposed", {Yes, Doubt}))),
   One(Is(Unit("a", "access", 1, <<>>), {"view"}),
       X(Q("rows", {Top, Split1, Bottom}), Q("returns_others", {Yes, Doubt}))),
   One(Is(Unit("a", "access", 1, <<>>), {"reducer"}),
       X(Q("reach", {Top, Bottom}), X(Q("argument_rows", {Yes, No}), Q("operator_only", {Doubt, No}))))}
AllPlans == SecurityPlans \cup CodePlans \cup DocPlans \cup CustomPlans \cup OtherPlans
=============================================================================
