--------------------------- MODULE Judging_proofs ---------------------------
(* Proofs about Judging.  The invariants say which passes of a unit may    *)
(* hold answers at each stage, that a pending request is the follow-up of  *)
(* one unit whose answers still call for it, that what a late follow-up    *)
(* asks is unanswered until it is applied, and that what a unit's answers  *)
(* still owe a stage already asked is pending or was refused.              *)
EXTENDS Judging, TLAPS

IsFcn(f) == f = [x \in DOMAIN f |-> f[x]]

\* The stage that asks a late follow-up.
LateStage(name) == IF name \in SettleChoices THEN 5 ELSE IF name = "kind" THEN 6 ELSE 7

Typed ==
  /\ plan \in Plans
  /\ phase \in 1..8
  /\ DOMAIN judged = Ids
  /\ \A i \in Ids : /\ judged[i] = [p \in Passes |-> judged[i][p]]
                    /\ \A p \in Passes : IsFcn(judged[i][p])

\* What a follow-up `name` of a stage tells of the unit it is asked of.
Fresh(n, u, name, j) ==
  /\ n = 2 => name = "check" /\ DocCheck(u) /\ ~Asked(j, "trace")
  /\ n = 3 => name = "trace" /\ u.rule \in Security /\ ~Asked(j, "trace")
  /\ n = 4 => /\ name = "recheck" /\ ~Asked(j, "recheck")
              /\ u.rule \notin Security => Open(u, j["first"], UnitOutcome(u, j["first"]))
  /\ n = 5 => /\ name \in SettleChoices /\ u.rule \in Security
              /\ Resolved(u, j).outcome.level = "note" => Asked(j, "settle")
  /\ n = 6 => name = "kind" /\ Unkinded(u, j, Resolved(u, j))
  /\ n = 7 => name \in DOMAIN Confirms
  /\ n # 8
Dispatched ==
  /\ phase = 1 => pending \subseteq plan.first
  /\ phase > 1 => \A r \in pending : \E u \in plan.units : \E name \in DOMAIN u.asks :
                    r = FollowUp(Stages[phase], u, name) /\ Fresh(phase, u, name, J(u))

\* The stage from which a pass of a unit may hold answers.
TimelyUnit(n, u, j) ==
  /\ Asked(j, "first") => ~DocCheck(u)
  /\ Asked(j, "trace") => /\ n >= 2
                          /\ \/ u.rule \in Security \/ DocCheck(u)
                             \/ u.rule = "large_doc" /\ n >= 6
  /\ Asked(j, "recheck") => n >= 4
  /\ Asked(j, "settle") => \/ u.rule \in Security /\ n >= 5
                           \/ (u.rule = "comment" \/ DocCheck(u)) /\ n >= 6
  /\ Asked(j, "locate") => n >= 7
Timely == \A u \in plan.units : TimelyUnit(phase, u, J(u))

\* What a late follow-up asks is unanswered until its answer is applied.
AwaitsAsking(u, name) ==
  \/ phase < LateStage(name)
  \/ phase = LateStage(name) /\ FollowUp(Stages[phase], u, name) \in pending
Unasked ==
  \A u \in plan.units : \A name \in DOMAIN u.asks \cap Late : AwaitsAsking(u, name) =>
    \A p \in Passes : LateAsks(name) \cap DOMAIN J(u)[p] = {}

Inv == Typed /\ Dispatched /\ Timely /\ Unasked
-----------------------------------------------------------------------------
(* The stages, the passes, and the shape of a follow-up.                   *)

LEMMA StageNames ==
  /\ Composing = 7 /\ Done = 8
  /\ Stages[1] = "first" /\ Stages[2] = "doc_checks" /\ Stages[3] = "traces"
  /\ Stages[4] = "rechecks" /\ Stages[5] = "settles" /\ Stages[6] = "kinds"
  /\ Stages[7] = "locates"
BY DEF Stages, Composing, Done

LEMMA PassNames ==
  ASSUME NEW u
  PROVE  /\ PassOf(Stages[2], u) = "trace" /\ PassOf(Stages[3], u) = "trace"
         /\ PassOf(Stages[4], u) = "recheck" /\ PassOf(Stages[5], u) = "settle"
         /\ u.rule = "large_doc" => PassOf(Stages[6], u) = "trace"
         /\ u.rule # "large_doc" => PassOf(Stages[6], u) = "settle"
         /\ PassOf(Stages[7], u) = "locate"
BY StageNames DEF PassOf

LEMMA FollowUpFields ==
  ASSUME NEW stage, NEW u, NEW name
  PROVE  /\ FollowUp(stage, u, name).file = u.file
         /\ FollowUp(stage, u, name).pass = PassOf(stage, u)
         /\ DOMAIN FollowUp(stage, u, name).asks = {u.id}
         /\ FollowUp(stage, u, name).asks[u.id] = u.asks[name]
BY DEF FollowUp

\* The names of late follow-ups are those of no other stage.
LEMMA NamesApart ==
  /\ \A name \in SettleChoices : name \notin DOMAIN Confirms /\ name # "kind"
  /\ "kind" \notin DOMAIN Confirms
  /\ \A name \in {"check", "trace", "recheck"} : name \notin Late
BY DEF SettleChoices, Settles, Settle, Confirms, Late

LEMMA WithDomain ==
  ASSUME NEW a, NEW b
  PROVE  DOMAIN With(a, b) = DOMAIN a \cup DOMAIN b /\ IsFcn(With(a, b))
BY DEF With, IsFcn

LEMMA WithAt ==
  ASSUME NEW a, NEW b, NEW q \in DOMAIN a \cup DOMAIN b
  PROVE  With(a, b)[q] = IF q \in DOMAIN b THEN b[q] ELSE a[q]
BY DEF With

LEMMA WithNone ==
  ASSUME NEW a, NEW b, IsFcn(a), DOMAIN b = {}
  PROVE  With(a, b) = a
BY DEF With, IsFcn

LEMMA WithNothing ==
  ASSUME NEW a, NEW b, DOMAIN a = {}, DOMAIN b = {}
  PROVE  DOMAIN With(a, b) = {}
BY DEF With

LEMMA Planned == ASSUME Typed PROVE WellPlanned(plan)
BY PlansAssumption DEF Typed
-----------------------------------------------------------------------------
(* What a step does to the answers of a unit.                              *)

LEMMA EmptyAnswers == IsFcn(<<>>) /\ DOMAIN <<>> = {}
BY DEF IsFcn

LEMMA TaskPending == ASSUME pending # {} PROVE Task \in pending
BY DEF Task

\* The task answered at a stage is a follow-up of one unit of the plan.
LEMMA TaskOf ==
  ASSUME Dispatched, Typed, pending # {}, phase > 1
  PROVE  \E u \in plan.units : \E name \in DOMAIN u.asks :
           /\ Task = FollowUp(Stages[phase], u, name) /\ Fresh(phase, u, name, J(u))
           /\ Task.file = u.file /\ Task.pass = PassOf(Stages[phase], u)
           /\ DOMAIN Task.asks = {u.id} /\ Task.asks[u.id] = u.asks[name]
<1>1. PICK u \in plan.units : \E name \in DOMAIN u.asks :
             Task = FollowUp(Stages[phase], u, name) /\ Fresh(phase, u, name, J(u))
  BY TaskPending DEF Dispatched
<1>2. PICK name \in DOMAIN u.asks :
             Task = FollowUp(Stages[phase], u, name) /\ Fresh(phase, u, name, J(u))
  BY <1>1
<1>3. QED  BY <1>2, FollowUpFields

\* The pass of every task is a pass a unit has answers of.
LEMMA TaskPass ==
  ASSUME Dispatched, Typed, pending # {}
  PROVE  Task.pass \in Passes
<1>1. CASE phase = 1
  BY <1>1, TaskPending, Planned DEF Dispatched, WellPlanned, Passes
<1>2. CASE phase > 1
  <2>1. PICK u \in plan.units : \E name \in DOMAIN u.asks :
               Fresh(phase, u, name, J(u)) /\ Task.pass = PassOf(Stages[phase], u)
    BY <1>2, TaskOf
  <2>2. phase \in 1..7  BY <2>1 DEF Fresh, Typed
  <2>3. QED
    BY <2>1, <2>2, <1>2, PassNames DEF Passes
<1>3. QED  BY <1>1, <1>2 DEF Typed

\* The judgments of unit `i` with an answer of the task in place.
Placed(i, a) == [judged[i] EXCEPT ![Task.pass] = With(@, a)]

LEMMA AnsweredUnit ==
  ASSUME Typed, Dispatched, Answered, NEW i \in Ids
  PROVE  \/ judged'[i] = judged[i]
         \/ /\ Task \in pending /\ Task.file \notin failed /\ i \in DOMAIN Task.asks
            /\ \E a \in Task.asks[i] : judged'[i] = Placed(i, a)
<1>1. Task \in pending  BY TaskPending DEF Answered
<1>2. PICK a \in [DOMAIN Task.asks -> UNION {Task.asks[k] : k \in DOMAIN Task.asks}] :
         /\ \A k \in DOMAIN a : a[k] \in Task.asks[k]
         /\ judged' = IF Task.file \in failed THEN judged
                      ELSE [k \in DOMAIN judged |->
                             IF k \in DOMAIN a
                             THEN [judged[k] EXCEPT ![Task.pass] = With(@, a[k])] ELSE judged[k]]
  BY DEF Answered
<1>3. DOMAIN a = DOMAIN Task.asks  BY <1>2
<1>4. CASE Task.file \in failed \/ i \notin DOMAIN a
  BY <1>2, <1>4 DEF Typed
<1>5. CASE Task.file \notin failed /\ i \in DOMAIN a
  <2>1. judged'[i] = Placed(i, a[i])  BY <1>2, <1>5 DEF Typed, Placed
  <2>2. a[i] \in Task.asks[i]  BY <1>2, <1>5
  <2>3. QED  BY <1>1, <1>3, <1>5, <2>1, <2>2
<1>6. QED  BY <1>4, <1>5

\* The judgments of a unit whose answer is placed.
LEMMA PlacedPasses ==
  ASSUME Typed, NEW i \in Ids, NEW a, Task.pass \in Passes
  PROVE  /\ Placed(i, a) = [p \in Passes |-> Placed(i, a)[p]]
         /\ Placed(i, a)[Task.pass] = With(judged[i][Task.pass], a)
         /\ \A p \in Passes \ {Task.pass} : Placed(i, a)[p] = judged[i][p]
         /\ \A p \in Passes : IsFcn(Placed(i, a)[p])
<1>1. DOMAIN judged[i] = Passes  BY DEF Typed
<1>2. /\ Placed(i, a)[Task.pass] = With(judged[i][Task.pass], a)
      /\ \A p \in Passes \ {Task.pass} : Placed(i, a)[p] = judged[i][p]
  BY <1>1 DEF Placed
<1>3. Placed(i, a) = [p \in Passes |-> Placed(i, a)[p]]
  BY <1>1 DEF Placed
<1>4. \A p \in Passes : IsFcn(Placed(i, a)[p])
  <2>1. IsFcn(Placed(i, a)[Task.pass])  BY <1>2, WithDomain
  <2>2. \A p \in Passes : IsFcn(judged[i][p])  BY DEF Typed
  <2>3. QED  BY <1>2, <2>1, <2>2
<1>5. QED  BY <1>2, <1>3, <1>4

LEMMA UnitIds == ASSUME NEW u \in plan.units PROVE u.id \in Ids
BY DEF Ids, Units

\* A follow-up's answer in the judgments of the unit it is asked of: its
\* pass takes the answer's questions, the other passes keep theirs.
Takes(u, name, a) ==
  /\ Task \in pending /\ Task = FollowUp(Stages[phase], u, name)
  /\ Fresh(phase, u, name, J(u)) /\ u.file \notin failed
  /\ a \in u.asks[name] /\ DOMAIN a # {}
  /\ judged'[u.id][PassOf(Stages[phase], u)] = With(J(u)[PassOf(Stages[phase], u)], a)
  /\ \A p \in Passes \ {PassOf(Stages[phase], u)} : judged'[u.id][p] = J(u)[p]

\* The answer's pass is asked; a pass asked stays asked.
LEMMA TakenAsked ==
  ASSUME NEW u, NEW name, NEW a, Takes(u, name, a)
  PROVE  /\ Asked(judged'[u.id], PassOf(Stages[phase], u))
         /\ \A p \in Passes : Asked(J(u), p) => Asked(judged'[u.id], p)
<1> DEFINE pass == PassOf(Stages[phase], u)
           j == J(u)
           k == judged'[u.id]
<1>1. k[pass] = With(j[pass], a) /\ DOMAIN a # {} /\ \A p \in Passes \ {pass} : k[p] = j[p]
  BY DEF Takes
<1> HIDE DEF pass, j, k
<1>2. DOMAIN k[pass] = DOMAIN j[pass] \cup DOMAIN a  BY <1>1, WithDomain
<1>3. Asked(k, pass)  BY <1>1, <1>2 DEF Asked
<1>4. \A p \in Passes : Asked(j, p) => Asked(k, p)  BY <1>1, <1>3 DEF Asked
<1>5. QED  BY <1>3, <1>4 DEF pass, j, k

LEMMA FollowUpAnswered ==
  ASSUME Typed, Dispatched, Answered, phase > 1, NEW u \in plan.units
  PROVE  \/ judged'[u.id] = J(u)
         \/ \E name \in DOMAIN u.asks : \E a \in u.asks[name] : Takes(u, name, a)
<1>1. CASE judged'[u.id] = judged[u.id]  BY <1>1 DEF J
<1>2. CASE judged'[u.id] # judged[u.id]
  <2>1. /\ Task \in pending /\ Task.file \notin failed /\ u.id \in DOMAIN Task.asks
        /\ \E a \in Task.asks[u.id] : judged'[u.id] = Placed(u.id, a)
    BY <1>2, AnsweredUnit, UnitIds
  <2>2. PICK v \in plan.units : \E name \in DOMAIN v.asks :
           /\ Task = FollowUp(Stages[phase], v, name) /\ Fresh(phase, v, name, J(v))
           /\ Task.file = v.file /\ Task.pass = PassOf(Stages[phase], v)
           /\ DOMAIN Task.asks = {v.id} /\ Task.asks[v.id] = v.asks[name]
    BY <2>1, TaskOf
  <2>3. v = u  BY <2>1, <2>2, Planned DEF WellPlanned
  <2>4. PICK name \in DOMAIN u.asks :
           /\ Task = FollowUp(Stages[phase], u, name) /\ Fresh(phase, u, name, J(u))
           /\ Task.file = u.file /\ Task.pass = PassOf(Stages[phase], u)
           /\ DOMAIN Task.asks = {u.id} /\ Task.asks[u.id] = u.asks[name]
    BY <2>2, <2>3
  <2>5. PICK a \in u.asks[name] : judged'[u.id] = Placed(u.id, a)  BY <2>1, <2>4
  <2>6. DOMAIN a # {}  BY <2>5, Planned DEF WellPlanned
  <2>7. Task.pass \in Passes  BY <2>1, TaskPass
  <2>8. Takes(u, name, a)
    BY <2>1, <2>4, <2>5, <2>6, <2>7, UnitIds, PlacedPasses DEF Takes, J
  <2>9. QED  BY <2>8
<1>3. QED  BY <1>1, <1>2

LEMMA OthersKeepAnswers ==
  ASSUME Next \/ UNCHANGED vars, ~Answered
  PROVE  judged' = judged
BY DEF Next, Advance, Failed, Refused, Compose, vars
-----------------------------------------------------------------------------
(* The invariant is inductive.                                             *)

LEMMA InvInit == ASSUME Init PROVE Inv
<1>1. Typed
  <2>1. plan \in Plans /\ phase \in 1..8 /\ DOMAIN judged = Ids  BY DEF Init
  <2>2. ASSUME NEW i \in Ids
        PROVE  /\ judged[i] = [p \in Passes |-> judged[i][p]]
               /\ \A p \in Passes : IsFcn(judged[i][p])
    <3>1. judged[i] = [p \in Passes |-> <<>>]  BY DEF Init
    <3>2. QED  BY <3>1, EmptyAnswers
  <2>3. QED  BY <2>1, <2>2 DEF Typed
<1>2. \A u \in plan.units : \A p \in Passes : DOMAIN J(u)[p] = {}
  BY EmptyAnswers, UnitIds DEF Init, J
<1>3. Dispatched  BY DEF Init, Dispatched
<1>4. Timely  BY <1>2 DEF Timely, TimelyUnit, Asked, Passes
<1>5. Unasked  BY <1>2 DEF Unasked
<1>6. QED  BY <1>1, <1>3, <1>4, <1>5 DEF Inv

LEMMA TypedStep == ASSUME Inv, Next \/ UNCHANGED vars PROVE Typed'
<1>1. plan' = plan /\ Ids' = Ids
  BY DEF Next, Advance, Answered, Failed, Refused, Compose, vars, Ids, Units
<1>2. phase' \in 1..8
  BY StageNames DEF Inv, Typed, Next, Advance, Answered, Failed, Refused, Compose, vars
<1>3. DOMAIN judged' = Ids
  BY DEF Inv, Typed, Next, Advance, Answered, Failed, Refused, Compose, vars
<1>4. ASSUME NEW i \in Ids
      PROVE  /\ judged'[i] = [p \in Passes |-> judged'[i][p]]
             /\ \A p \in Passes : IsFcn(judged'[i][p])
  <2>1. CASE judged'[i] = judged[i]  BY <2>1 DEF Inv, Typed
  <2>2. CASE judged'[i] # judged[i]
    <3>1. Answered  BY <2>2, OthersKeepAnswers
    <3>2. PICK a \in Task.asks[i] : judged'[i] = Placed(i, a)
      BY <2>2, <3>1, AnsweredUnit DEF Inv
    <3>3. Task.pass \in Passes  BY <3>1, TaskPass DEF Inv, Answered
    <3>4. QED  BY <3>2, <3>3, PlacedPasses DEF Inv
  <2>3. QED  BY <2>1, <2>2
<1>5. QED  BY <1>1, <1>2, <1>3, <1>4 DEF Inv, Typed

\* A receipt leaves the stage and the plan as they are.
LEMMA ReceiptKeeps ==
  ASSUME Answered \/ Failed \/ Refused
  PROVE  /\ phase' = phase /\ plan' = plan /\ pending' = pending \ {Task}
         /\ pending # {} /\ Task \in pending
BY TaskPending DEF Answered, Failed, Refused, Applied

\* What a follow-up tells of its unit holds until its receipt is applied.
LEMMA FreshKept ==
  ASSUME Inv, Answered, phase > 1, NEW u \in plan.units, NEW name \in DOMAIN u.asks,
         FollowUp(Stages[phase], u, name) \in pending',
         Fresh(phase, u, name, J(u))
  PROVE  Fresh(phase, u, name, judged'[u.id])
<1>1. CASE judged'[u.id] = J(u)  BY <1>1
<1>2. CASE judged'[u.id] # J(u)
  <2>1. PICK n \in DOMAIN u.asks : \E a \in u.asks[n] : Takes(u, n, a)
    BY <1>2, FollowUpAnswered DEF Inv
  <2>2. Fresh(phase, u, n, J(u))  BY <2>1 DEF Takes
  <2>3. name # n  BY <2>1, ReceiptKeeps DEF Takes
  <2>4. CASE phase = 5
    <3>1. PassOf(Stages[phase], u) = "settle"  BY <2>4, PassNames
    <3>2. Asked(judged'[u.id], "settle")  BY <2>1, <3>1, TakenAsked
    <3>3. QED  BY <2>4, <3>2 DEF Fresh
  <2>5. CASE phase # 5
    BY <2>2, <2>3, <2>5 DEF Fresh, Inv, Typed
  <2>6. QED  BY <2>4, <2>5
<1>3. QED  BY <1>1, <1>2

LEMMA DispatchedAdvance == ASSUME Inv, Advance PROVE Dispatched'
<1>1. phase \in 1..6 /\ phase' = phase + 1 /\ judged' = judged /\ plan' = plan
  BY StageNames DEF Advance, Inv, Typed
<1> DEFINE n == phase + 1
<1>2. ASSUME NEW r \in pending'
      PROVE  \E u \in plan.units : \E name \in DOMAIN u.asks :
               r = FollowUp(Stages[n], u, name) /\ Fresh(n, u, name, J(u))
  <2>1. PICK u \in plan.units : r \in DueOf(Stages[n], u, Resolution)
    BY DEF Advance, FollowUps
  <2>2. PICK name \in DueNames(Stages[n], u, Resolution) \cap DOMAIN u.asks :
           r = FollowUp(Stages[n], u, name)
    BY <2>1 DEF DueOf
  <2>3. Resolution[u] = Resolved(u, J(u))  BY DEF Resolution
  <2>4. Fresh(n, u, name, J(u))
    <3>1. CASE n = 2
      BY <2>2, <3>1, StageNames DEF DueNames, Fresh, DocCheckDue
    <3>2. CASE n = 3
      BY <2>2, <3>2, StageNames DEF DueNames, Fresh, Untraced
    <3>3. CASE n = 4
      BY <2>2, <3>3, StageNames DEF DueNames, Fresh, Unclear
    <3>4. CASE n = 5
      BY <2>2, <2>3, <3>4, StageNames DEF DueNames, Fresh, Unsettled, SettleChoices
    <3>5. CASE n = 6
      BY <2>2, <2>3, <3>5, StageNames DEF DueNames, Fresh
    <3>6. CASE n = 7
      BY <2>2, <3>6, StageNames DEF DueNames, Fresh, LocatesDue, FirstOf, Confirms
    <3>7. QED  BY <1>1, <3>1, <3>2, <3>3, <3>4, <3>5, <3>6
  <2>5. QED  BY <2>2, <2>4
<1>3. QED  BY <1>1, <1>2 DEF Dispatched, J

LEMMA DispatchedStep == ASSUME Inv, Next \/ UNCHANGED vars PROVE Dispatched'
<1>1. CASE Advance  BY <1>1, DispatchedAdvance
<1>2. CASE Answered
  <2>1. phase' = phase /\ plan' = plan /\ pending' = pending \ {Task}  BY <1>2, ReceiptKeeps
  <2>2. CASE phase = 1  BY <2>1, <2>2 DEF Inv, Dispatched
  <2>3. CASE phase > 1
    <3>1. ASSUME NEW r \in pending'
          PROVE  \E u \in plan.units : \E name \in DOMAIN u.asks :
                   r = FollowUp(Stages[phase], u, name) /\ Fresh(phase, u, name, judged'[u.id])
      <4>1. PICK u \in plan.units : \E name \in DOMAIN u.asks :
               r = FollowUp(Stages[phase], u, name) /\ Fresh(phase, u, name, J(u))
        BY <2>1, <2>3 DEF Inv, Dispatched
      <4>2. PICK name \in DOMAIN u.asks :
               r = FollowUp(Stages[phase], u, name) /\ Fresh(phase, u, name, J(u))
        BY <4>1
      <4>3. Fresh(phase, u, name, judged'[u.id])  BY <1>2, <2>3, <4>2, FreshKept
      <4>4. QED  BY <4>2, <4>3
    <3>2. QED  BY <2>1, <2>3, <3>1 DEF Dispatched, J
  <2>4. QED  BY <2>2, <2>3 DEF Inv, Typed
<1>3. CASE Failed \/ Refused
  <2>1. /\ phase' = phase /\ plan' = plan /\ pending' = pending \ {Task}
        /\ judged' = judged
    BY <1>3, ReceiptKeeps DEF Failed, Refused
  <2>2. QED  BY <2>1 DEF Inv, Dispatched, J
<1>4. CASE Compose
  BY <1>4, StageNames DEF Compose, Dispatched
<1>5. CASE UNCHANGED vars
  BY <1>5 DEF vars, Inv, Dispatched, J
<1>6. QED  BY <1>1, <1>2, <1>3, <1>4, <1>5 DEF Next

\* An answer of the first pass, in the judgments of a unit it answers.
LEMMA FirstAnswered ==
  ASSUME Typed, Dispatched, Answered, phase = 1, NEW u \in plan.units,
         judged'[u.id] # J(u)
  PROVE  /\ \A p \in Passes \ {"first"} : judged'[u.id][p] = J(u)[p]
         /\ \E r \in plan.first : \E a \in r.asks[u.id] :
              /\ u.id \in DOMAIN r.asks
              /\ judged'[u.id]["first"] = With(J(u)["first"], a)
<1>1. /\ Task \in pending /\ u.id \in DOMAIN Task.asks
      /\ \E a \in Task.asks[u.id] : judged'[u.id] = Placed(u.id, a)
  BY AnsweredUnit, UnitIds DEF J
<1>2. Task \in plan.first  BY <1>1 DEF Dispatched
<1>3. Task.pass = "first"  BY <1>2, Planned DEF WellPlanned
<1>4. PICK a \in Task.asks[u.id] : judged'[u.id] = Placed(u.id, a)  BY <1>1
<1>5. Task.pass \in Passes  BY <1>3 DEF Passes
<1>6. /\ judged'[u.id]["first"] = With(J(u)["first"], a)
      /\ \A p \in Passes \ {"first"} : judged'[u.id][p] = J(u)[p]
  BY <1>3, <1>4, <1>5, UnitIds, PlacedPasses DEF J
<1>7. QED  BY <1>1, <1>2, <1>4, <1>6

LEMMA TimelyStep == ASSUME Inv, Next \/ UNCHANGED vars PROVE Timely'
<1>1. plan' = plan /\ phase' \in Int /\ phase' >= phase
  BY DEF Next, Advance, Answered, Failed, Refused, Compose, vars, Inv, Typed, Composing, Done, Stages
<1>2. ASSUME NEW u \in plan.units PROVE TimelyUnit(phase', u, judged'[u.id])
  <2>1. TimelyUnit(phase, u, J(u))  BY DEF Inv, Timely
  <2>2. CASE judged'[u.id] = J(u)
    <3> DEFINE j == J(u)
    <3>1. TimelyUnit(phase, u, j)  BY <2>1
    <3>2. judged'[u.id] = j  BY <2>2
    <3> HIDE DEF j
    <3>3. QED  BY <1>1, <3>1, <3>2 DEF TimelyUnit, Inv, Typed
  <2>3. CASE judged'[u.id] # J(u)
    <3>0. Answered  BY <2>3, OthersKeepAnswers DEF J
    <3>1. phase' = phase /\ pending # {}  BY <3>0, ReceiptKeeps
    <3>2. CASE phase = 1
      <4>1. \A p \in Passes \ {"first"} : judged'[u.id][p] = J(u)[p]
        BY <2>3, <3>0, <3>2, FirstAnswered DEF Inv
      <4>2. ~DocCheck(u)
        <5>1. PICK r \in plan.first : u.id \in DOMAIN r.asks
          BY <2>3, <3>0, <3>2, FirstAnswered DEF Inv
        <5>2. QED  BY <5>1, Planned DEF Inv, WellPlanned
      <4>3. QED  BY <2>1, <3>1, <4>1, <4>2 DEF TimelyUnit, Asked, Passes
    <3>3. CASE phase > 1
      <4>1. PICK name \in DOMAIN u.asks : \E a \in u.asks[name] : Takes(u, name, a)
        BY <2>3, <3>0, <3>3, FollowUpAnswered DEF Inv
      <4> DEFINE pass == PassOf(Stages[phase], u)
      <4>2. \A p \in Passes \ {pass} : judged'[u.id][p] = J(u)[p]  BY <4>1 DEF Takes
      <4>3. Fresh(phase, u, name, J(u)) /\ phase \in 2..7  BY <3>3, <4>1 DEF Takes, Fresh, Inv, Typed
      <4>4. CASE phase = 2 \/ phase = 3
        <5>1. pass = "trace" /\ (u.rule \in Security \/ DocCheck(u))
          BY <4>3, <4>4, PassNames DEF Fresh
        <5> HIDE DEF pass
        <5>2. QED  BY <2>1, <3>1, <4>2, <4>3, <5>1 DEF TimelyUnit, Asked, Passes
      <4>5. CASE phase = 4
        <5>1. pass = "recheck"  BY <4>5, PassNames
        <5> HIDE DEF pass
        <5>2. QED  BY <2>1, <3>1, <4>2, <4>5, <5>1 DEF TimelyUnit, Asked, Passes
      <4>6. CASE phase = 5
        <5>1. pass = "settle" /\ u.rule \in Security  BY <4>3, <4>6, PassNames DEF Fresh
        <5> HIDE DEF pass
        <5>2. QED  BY <2>1, <3>1, <4>2, <4>6, <5>1 DEF TimelyUnit, Asked, Passes
      <4>7. CASE phase = 6
        <5>1. Unkinded(u, J(u), Resolved(u, J(u)))  BY <4>3, <4>7 DEF Fresh
        <5>2. \/ pass = "trace" /\ u.rule = "large_doc"
              \/ pass = "settle" /\ (u.rule = "comment" \/ DocCheck(u))
          BY <5>1, <4>7, PassNames DEF Unkinded, DocCheck
        <5> HIDE DEF pass
        <5>3. QED  BY <2>1, <3>1, <4>2, <4>7, <5>2 DEF TimelyUnit, Asked, Passes
      <4>8. CASE phase = 7
        <5>1. pass = "locate"  BY <4>8, PassNames
        <5> HIDE DEF pass
        <5>2. QED  BY <2>1, <3>1, <4>2, <4>8, <5>1 DEF TimelyUnit, Asked, Passes
      <4>9. QED  BY <4>3, <4>4, <4>5, <4>6, <4>7, <4>8
    <3>4. QED  BY <3>2, <3>3 DEF Inv, Typed
  <2>4. QED  BY <2>2, <2>3
<1>3. QED  BY <1>1, <1>2 DEF Timely, J

\* What a unit is asked before a late follow-up of it is answered asks
\* nothing that follow-up asks.
LEMMA AskedElsewhere ==
  ASSUME Inv, Answered, NEW u \in plan.units, NEW name \in DOMAIN u.asks \cap Late,
         AwaitsAsking(u, name)', judged'[u.id] # J(u)
  PROVE  /\ AwaitsAsking(u, name)
         /\ \E a : /\ DOMAIN a \in AskElsewhere(plan, u, name)
                   /\ \E p \in Passes : /\ judged'[u.id][p] = With(J(u)[p], a)
                                        /\ \A x \in Passes \ {p} : judged'[u.id][x] = J(u)[x]
<1>1. phase' = phase /\ pending' = pending \ {Task}  BY ReceiptKeeps
<1>2. AwaitsAsking(u, name)  BY <1>1 DEF AwaitsAsking
<1>3. CASE phase = 1
  <2>1. PICK r \in plan.first : \E a \in r.asks[u.id] :
              /\ u.id \in DOMAIN r.asks
              /\ judged'[u.id]["first"] = With(J(u)["first"], a)
    BY <1>3, FirstAnswered DEF Inv
  <2>2. PICK a \in r.asks[u.id] : /\ u.id \in DOMAIN r.asks
                                  /\ judged'[u.id]["first"] = With(J(u)["first"], a)
    BY <2>1
  <2>3. DOMAIN a \in AskElsewhere(plan, u, name)
    <3>1. DOMAIN a \in {DOMAIN x : x \in r.asks[u.id]}  BY <2>2
    <3>2. r \in {x \in plan.first : u.id \in DOMAIN x.asks}  BY <2>2
    <3>3. QED  BY <3>1, <3>2 DEF AskElsewhere
  <2>4. QED  BY <1>2, <1>3, <2>2, <2>3, FirstAnswered DEF Inv, Passes
<1>4. CASE phase > 1
  <2>0. PICK n \in DOMAIN u.asks : \E a \in u.asks[n] : Takes(u, n, a)
    BY <1>4, FollowUpAnswered DEF Inv
  <2>1. PICK a \in u.asks[n] : Takes(u, n, a)  BY <2>0
  <2>2. Task = FollowUp(Stages[phase], u, n) /\ Fresh(phase, u, n, J(u))  BY <2>1 DEF Takes
  <2>3. n # name
    <3>1. SUFFICES ASSUME n = name PROVE FALSE  OBVIOUS
    <3>2. phase = LateStage(name)
      BY <2>2, <3>1, <1>4, NamesApart DEF Fresh, LateStage, Inv, Typed
    <3>3. phase' = phase /\ phase \in Int  BY <1>1 DEF Inv, Typed
    <3>4. FollowUp(Stages[phase], u, name) \in pending'
      BY <3>2, <3>3 DEF AwaitsAsking
    <3>5. QED  BY <1>1, <2>2, <3>1, <3>4
  <2>4. DOMAIN a \in AskElsewhere(plan, u, name)
    <3>1. DOMAIN a \in {DOMAIN x : x \in u.asks[n]}  BY <2>1
    <3>2. n \in DOMAIN u.asks \ {name}  BY <2>3
    <3>3. QED  BY <3>1, <3>2 DEF AskElsewhere
  <2>5. PassOf(Stages[phase], u) \in Passes
    BY <2>1, TaskPass, FollowUpFields DEF Takes, Inv
  <2>6. QED  BY <1>2, <2>1, <2>4, <2>5 DEF Takes
<1>5. QED  BY <1>3, <1>4 DEF Inv, Typed

LEMMA UnaskedStep == ASSUME Inv, Next \/ UNCHANGED vars PROVE Unasked'
<1>1. plan' = plan
  BY DEF Next, Advance, Answered, Failed, Refused, Compose, vars
<1>2. SUFFICES ASSUME NEW u \in plan.units, NEW name \in DOMAIN u.asks \cap Late,
                      AwaitsAsking(u, name)', NEW p \in Passes
               PROVE  LateAsks(name) \cap DOMAIN judged'[u.id][p] = {}
  BY <1>1 DEF Unasked, J
<1>3. CASE judged'[u.id] = J(u)
  <2>1. AwaitsAsking(u, name)
    <3>1. CASE Advance
      <4>1. phase' = phase + 1 /\ phase \in Int  BY <3>1 DEF Advance, Inv, Typed
      <4>2. LateStage(name) \in Int  BY DEF LateStage
      <4>3. QED  BY <1>2, <4>1, <4>2 DEF AwaitsAsking
    <3>2. CASE Answered \/ Failed \/ Refused
      <4>1. phase' = phase /\ pending' = pending \ {Task}  BY <3>2, ReceiptKeeps
      <4>2. QED  BY <1>2, <4>1 DEF AwaitsAsking
    <3>3. CASE Compose
      BY <1>2, <3>3, StageNames DEF Compose, AwaitsAsking, LateStage
    <3>4. CASE UNCHANGED vars
      BY <1>2, <3>4 DEF vars, AwaitsAsking
    <3>5. QED  BY <3>1, <3>2, <3>3, <3>4 DEF Next
  <2>2. QED  BY <1>3, <2>1 DEF Inv, Unasked
<1>4. CASE judged'[u.id] # J(u)
  <2>1. Answered  BY <1>4, OthersKeepAnswers DEF J
  <2>2. AwaitsAsking(u, name)  BY <1>2, <1>4, <2>1, AskedElsewhere
  <2>3. PICK a : /\ DOMAIN a \in AskElsewhere(plan, u, name)
                 /\ \E x \in Passes : /\ judged'[u.id][x] = With(J(u)[x], a)
                                      /\ \A y \in Passes \ {x} : judged'[u.id][y] = J(u)[y]
    BY <1>2, <1>4, <2>1, AskedElsewhere
  <2>0. \/ judged'[u.id][p] = With(J(u)[p], a)
        \/ judged'[u.id][p] = J(u)[p]
    BY <2>3
  <2>4. DOMAIN a \cap LateAsks(name) = {}
    BY <2>3, Planned DEF Inv, WellPlanned
  <2>5. DOMAIN judged'[u.id][p] \subseteq DOMAIN J(u)[p] \cup DOMAIN a
    <3>1. CASE judged'[u.id][p] = J(u)[p]  BY <3>1
    <3>2. CASE judged'[u.id][p] = With(J(u)[p], a)
      <4>1. DOMAIN With(J(u)[p], a) = DOMAIN J(u)[p] \cup DOMAIN a  BY WithDomain
      <4>2. QED  BY <3>2, <4>1
    <3>3. QED  BY <2>0, <3>1, <3>2
  <2>6. LateAsks(name) \cap DOMAIN J(u)[p] = {}  BY <2>2 DEF Inv, Unasked
  <2>7. QED  BY <2>4, <2>5, <2>6
<1>5. QED  BY <1>3, <1>4

LEMMA InvStep == ASSUME Inv, Next \/ UNCHANGED vars PROVE Inv'
BY TypedStep, DispatchedStep, TimelyStep, UnaskedStep DEF Inv

\* What the stages know of each other's answers, in every run.
THEOREM StagesInOrder == Spec => []Inv
BY InvInit, InvStep, PTL DEF Spec
-----------------------------------------------------------------------------
(* Outcomes of answers a late follow-up adds to.                           *)

\* `g2` adds answers of `D` to `g`, and changes none of it.
Extends(g2, g, D) ==
  /\ DOMAIN g2 = DOMAIN g \cup D /\ D \cap DOMAIN g = {}
  /\ \A q \in DOMAIN g : g2[q] = g[q]

ConfirmQuestions ==
  {"values", "paths", "markup_values", "redirect_reach", "query_values", "raw_html",
   "error_readers", "logged_when", "distinct", "reads", "block", "part"}
SettleQuestions ==
  {"url_parts", "runs_in", "redirect_target", "markup_output", "markup_parts", "shell_parts",
   "path_parts", "path_source", "destination", "logged", "cors_origins", "cookie_flags",
   "token_use", "password_handling"}

LEMMA ConfirmNames ==
  /\ \A name \in DOMAIN Confirms : LateAsks(name) \subseteq ConfirmQuestions /\ name \in Late
BY DEF Confirms, LateAsks, ConfirmQuestions, Late

LEMMA SettleNames ==
  /\ \A s \in Settles : s.question \in SettleQuestions
  /\ SettleChoices \subseteq SettleQuestions
  /\ \A name \in SettleChoices : LateAsks(name) = {name} /\ name \in Late
<1>1. \A s \in Settles : s.question \in SettleQuestions
  BY DEF Settles, Settle, SettleQuestions
<1>2. SettleChoices \subseteq SettleQuestions  BY <1>1 DEF SettleChoices
<1>3. \A name \in SettleChoices : LateAsks(name) = {name} /\ name \in Late
  BY NamesApart DEF LateAsks, Late
<1>4. QED  BY <1>1, <1>2, <1>3

LEMMA KindNames == LateAsks("kind") = KindChoices /\ "kind" \in Late
BY NamesApart DEF LateAsks, Late

\* What the answer of a late follow-up adds, no pass has an answer of.
LEMMA LateAnswer ==
  ASSUME Inv, NEW u \in plan.units, NEW name \in DOMAIN u.asks \cap Late, NEW a \in u.asks[name],
         Takes(u, name, a), phase = LateStage(name)
  PROVE  /\ DOMAIN a \subseteq LateAsks(name)
         /\ \A p \in Passes : LateAsks(name) \cap DOMAIN J(u)[p] = {}
<1>1. DOMAIN a \subseteq LateAsks(name)  BY Planned DEF Inv, WellPlanned
<1>2. AwaitsAsking(u, name)  BY DEF Takes, AwaitsAsking
<1>3. QED  BY <1>1, <1>2 DEF Inv, Unasked

LEMMA NoulLevels ==
  ASSUME NEW n
  PROVE  /\ Noul(n).level \in {"review", "clear", "uncertain"}
         /\ Noul(n).level = "clear" => Noul(n) = Clear
         /\ Clear.level = "clear" /\ Missing.level = "missing"
BY DEF Noul, Clear, Missing, Outcome

LEMMA OutcomeLevel == ASSUME NEW l, NEW p PROVE Outcome(l, p).level = l
BY DEF Outcome

LEMMA AsLevel ==
  ASSUME NEW o, NEW from, NEW to
  PROVE  As(o, from, to).level = IF o.level \in from THEN to ELSE o.level
BY DEF As, Outcome

LEMMA BenefitLevels ==
  ASSUME NEW s
  PROVE  Benefit(s).level \in {"review", "consider", "note", "clear", "uncertain"}
BY DEF Benefit, Graded, Outcome, Clear

\* The level of the strongest of several signals.
LEMMA StrongestLevel ==
  ASSUME NEW os
  PROVE  /\ (\E o \in os : o.level = "review") => Strongest(os).level = "review"
         /\ ~(\E o \in os : o.level = "review") =>
              /\ (\E o \in os : o.level = "consider") => Strongest(os).level = "consider"
              /\ ~(\E o \in os : o.level = "consider") =>
                   /\ (\E o \in os : o.level = "note") => Strongest(os).level = "note"
                   /\ ~(\E o \in os : o.level = "note") =>
                        IF os \subseteq {Clear} THEN Strongest(os) = Clear
                                                ELSE Strongest(os).level = "uncertain"
<1> DEFINE at(level) == {o.p : o \in {x \in os : x.level = level}}
           top(level) == Outcome(level, Max(at(level)))
<1>1. Strongest(os) = IF at("review") # {} THEN top("review")
                      ELSE IF at("consider") # {} THEN top("consider")
                      ELSE IF at("note") # {} THEN top("note")
                      ELSE IF os \subseteq {Clear} THEN Clear
                      ELSE Outcome("uncertain", Max({o.p : o \in os}))
  BY DEF Strongest
<1>2. \A level : at(level) # {} <=> \E o \in os : o.level = level  OBVIOUS
<1>3. \A level : top(level).level = level  BY OutcomeLevel
<1> HIDE DEF at, top
<1>4. QED  BY <1>1, <1>2, <1>3, OutcomeLevel

LEMMA DecisiveInExamples ==
  ASSUME NEW u, NEW o
  PROVE  Decisive(InExamples(u, o)) <=> Decisive(o)
BY AsLevel DEF InExamples, Decisive, AtMostNote
-----------------------------------------------------------------------------
(* A follow-up never undoes a decision.                                    *)

\* The rules whose pass of answers is the first or the recheck alone.
Plain(u) == /\ u.rule \notin Security
            /\ u.rule \notin {"stale", "doc_pair", "large_doc", "section", "workflow"}
            /\ u.rule \notin {"comment", "test_value", "test_pair"}

LEMMA MergedPlain ==
  ASSUME NEW u, NEW j, Plain(u)
  PROVE  Merged(u, j) = Rechecked(u, j, UnitOutcome(u, j["first"]), UnitOutcome(u, j["recheck"]))
BY DEF Plain, Merged, MergedBy, Beside

LEMMA MergedBeside ==
  ASSUME NEW u, NEW j, u.rule \in {"stale", "doc_pair", "large_doc", "section", "workflow"}
  PROVE  /\ Merged(u, j) = With(With(j["first"], j[Beside(u.rule)]), j["settle"])
         /\ Beside(u.rule) = IF u.rule \in {"section", "workflow"} THEN "recheck" ELSE "trace"
BY DEF Merged, MergedBy, Beside, BesideAnswers, Security, Injected, Sensitive, Settings

LEMMA MergedComment ==
  ASSUME NEW u, NEW j, u.rule = "comment"
  PROVE  Merged(u, j) = CommentAnswers(u, j, UnitOutcome(u, j["first"]), UnitOutcome(u, j["recheck"]))
BY DEF Merged, MergedBy, Beside, Security, Injected, Sensitive, Settings

LEMMA MergedTests ==
  ASSUME NEW u, NEW j
  PROVE  /\ u.rule = "test_value" => Merged(u, j) = TestValueAnswers(j)
         /\ u.rule = "test_pair" =>
              Merged(u, j) = With(Rechecked(u, j, UnitOutcome(u, j["first"]),
                                            UnitOutcome(u, j["recheck"])), j["locate"])
BY DEF Merged, MergedBy, Beside, Security, Injected, Sensitive, Settings

LEMMA MergedSecurity ==
  ASSUME NEW u, NEW j, u.rule \in Security
  PROVE  Merged(u, j) = SecurityAnswers(j)
BY DEF Merged, MergedBy, Beside, Security, Injected, Sensitive, Settings

LEMMA ResolvedOutcome ==
  ASSUME NEW u, NEW j
  PROVE  /\ Resolved(u, j).answers = Merged(u, j)
         /\ u.rule # "test_value" => Resolved(u, j).outcome = UnitOutcome(u, Merged(u, j))
         /\ Resolved(u, j).outcome = LeaningTest(u, j, UnitOutcome(u, Merged(u, j)))
BY DEF Resolved, ResolvedBy, LeaningTest

\* The judgments of a unit: every pass a function of the questions it answers.
LEMMA UnitPasses ==
  ASSUME Inv, NEW u \in plan.units
  PROVE  \A p \in Passes : IsFcn(J(u)[p]) /\ (Next => IsFcn(judged'[u.id][p]))
<1>1. \A p \in Passes : IsFcn(J(u)[p])  BY UnitIds DEF Inv, Typed, J
<1>2. ASSUME Next PROVE \A p \in Passes : IsFcn(judged'[u.id][p])
  <2>1. Typed' /\ plan' = plan
    BY <1>2, TypedStep DEF Next, Advance, Answered, Failed, Refused, Compose
  <2>2. Ids' = Ids  BY <2>1 DEF Ids, Units
  <2>3. QED  BY <2>1, <2>2, UnitIds DEF Typed
<1>3. QED  BY <1>1, <1>2

\* A check of a document is the first answer of its unit.
LEMMA DocCheckUndecided ==
  ASSUME Inv, NEW u \in plan.units, phase = 2, DocCheck(u), ~Asked(J(u), "trace")
  PROVE  ~Decisive(Resolved(u, J(u)).outcome)
<1> DEFINE j == J(u)
           g == Merged(u, j)
<1>1. u.rule \in {"stale", "doc_pair"} /\ "plan" \notin u.is  BY DEF DocCheck
<1>2. DOMAIN j["first"] = {} /\ DOMAIN j["trace"] = {} /\ DOMAIN j["settle"] = {}
  BY DEF Inv, Timely, TimelyUnit, Asked
<1>3. g = With(With(j["first"], j["trace"]), j["settle"])
  BY <1>1, MergedBeside
<1>4. DOMAIN g = {}
  <2>1. DOMAIN With(j["first"], j["trace"]) = {}  BY <1>2, WithNothing
  <2>2. QED  BY <1>2, <1>3, <2>1, WithNothing
<1> HIDE DEF g
<1>5. RuleOutcome(u, g) = Missing
  <2>1. CASE u.rule = "stale"
    <3>1. RuleOutcome(u, g) = StalenessOutcome(u, g)
      BY <2>1 DEF RuleOutcome, LookRules, Injected, Sensitive, Settings
    <3>2. StalenessOutcome(u, g) = Missing  BY <1>4 DEF StalenessOutcome
    <3>3. QED  BY <3>1, <3>2
  <2>2. CASE u.rule = "doc_pair"
    <3>1. RuleOutcome(u, g) = Needs(g, PairChecks(u, g), DocPairOutcome(u, g))
      BY <2>2 DEF RuleOutcome, LookRules, Injected, Sensitive, Settings
    <3>2. "conflict" \in PairChecks(u, g)  BY DEF PairChecks
    <3>3. QED  BY <1>4, <3>1, <3>2 DEF Needs
  <2>3. QED  BY <1>1, <2>1, <2>2
<1>6. ~Decisive(UnitOutcome(u, g))
  BY <1>5, DecisiveInExamples, NoulLevels DEF UnitOutcome, Decisive
<1>7. QED  BY <1>1, <1>6, ResolvedOutcome DEF g

\* A recheck of an open first pass.
LEMMA RecheckDecides ==
  ASSUME Inv, Next, NEW u \in plan.units, phase = 4, u.rule \notin Security,
         "recheck" \in DOMAIN u.asks, ~Asked(J(u), "recheck"),
         Open(u, J(u)["first"], UnitOutcome(u, J(u)["first"])),
         \A p \in Passes \ {"recheck"} : judged'[u.id][p] = J(u)[p],
         Decisive(Resolved(u, J(u)).outcome)
  PROVE  Decisive(Resolved(u, judged'[u.id]).outcome)
<1> DEFINE j == J(u)
           k == judged'[u.id]
           first == j["first"]
           r == Rechecked(u, k, UnitOutcome(u, first), UnitOutcome(u, k["recheck"]))
<1>0. SUFFICES Decisive(Resolved(u, k).outcome)  OBVIOUS
<1>1. DOMAIN j["recheck"] = {} /\ DOMAIN j["settle"] = {} /\ DOMAIN j["locate"] = {}
  BY DEF Inv, Timely, TimelyUnit, Asked
<1>2. /\ k["first"] = first /\ k["trace"] = j["trace"]
      /\ k["settle"] = j["settle"] /\ k["locate"] = j["locate"]
  BY DEF Passes
<1>3. IsFcn(first) /\ IsFcn(k["recheck"])  BY UnitPasses DEF Passes
<1>4. Decisive(Resolved(u, j).outcome)  OBVIOUS
<1>5. Open(u, first, UnitOutcome(u, first))  OBVIOUS
<1>6. ~Asked(j, "recheck")  OBVIOUS
<1> HIDE DEF j, k
<1>7. Rechecked(u, j, UnitOutcome(u, first), UnitOutcome(u, j["recheck"])) = first
  BY <1>6 DEF Rechecked, first
<1>8. IsFcn(r) /\ (r = first \/ Decisive(UnitOutcome(u, r)))
  BY <1>2, <1>3 DEF Rechecked, first
<1>15. r = Rechecked(u, k, UnitOutcome(u, k["first"]), UnitOutcome(u, k["recheck"]))
  BY <1>2
<1> HIDE DEF r
<1>9. CASE Plain(u)
  <2>1. Decisive(UnitOutcome(u, first))
    BY <1>4, <1>7, <1>9, MergedPlain, ResolvedOutcome DEF first, Plain
  <2>2. Merged(u, k) = r  BY <1>9, <1>15, MergedPlain
  <2>3. QED  BY <1>8, <1>9, <2>1, <2>2, ResolvedOutcome DEF Plain
<1>10. CASE u.rule = "test_pair"
  <2>1. Merged(u, j) = first
    <3>1. Merged(u, j) = With(first, j["locate"])  BY <1>7, <1>10, MergedTests DEF first
    <3>2. QED  BY <1>1, <1>3, <3>1, WithNone
  <2>2. Merged(u, k) = r
    <3>1. Merged(u, k) = With(r, k["locate"])  BY <1>10, <1>15, MergedTests
    <3>2. QED  BY <1>1, <1>2, <1>8, <3>1, WithNone
  <2>3. QED  BY <1>4, <1>8, <1>10, <2>1, <2>2, ResolvedOutcome
<1>11. CASE u.rule = "comment"
  <2>1. Merged(u, j) = first
    <3>1. Merged(u, j) = With(first, j["settle"])
      BY <1>6, <1>11, MergedComment DEF CommentAnswers, first
    <3>2. QED  BY <1>1, <1>3, <3>1, WithNone
  <2>2. Decisive(UnitOutcome(u, first))  BY <1>4, <1>11, <2>1, ResolvedOutcome
  <2>3. Merged(u, k) = r
    <3>1. Merged(u, k) = With(r, k["settle"])
      BY <1>2, <1>11, <2>2, MergedComment DEF CommentAnswers, Rechecked, first, r
    <3>2. QED  BY <1>1, <1>2, <1>8, <3>1, WithNone
  <2>4. QED  BY <1>8, <1>11, <2>2, <2>3, ResolvedOutcome
<1>12. CASE u.rule \in {"test_value", "section", "workflow"}
  <2>1. Merged(u, j) = first
    <3>1. CASE u.rule = "test_value"
      <4>1. Merged(u, j) = TestValueAnswers(j)  BY <3>1, MergedTests
      <4>3. TestValueAnswers(j) = first
        <5> DEFINE again == [q \in {x \in DOMAIN j["recheck"] :
                                      \/ x \notin DOMAIN first
                                      \/ Decisive(Noul(j["recheck"][x]))
                                      \/ ~Decisive(Noul(first[x]))} |-> j["recheck"][q]]
        <5>1. TestValueAnswers(j) = With(With(first, again), j["locate"])
          BY DEF TestValueAnswers, Replaced, first
        <5>2. DOMAIN again = {}  BY <1>1
        <5> HIDE DEF again
        <5>3. With(first, again) = first  BY <1>3, <5>2, WithNone
        <5>4. With(first, j["locate"]) = first  BY <1>1, <1>3, WithNone
        <5>5. QED  BY <5>1, <5>3, <5>4
      <4>4. QED  BY <4>1, <4>3
    <3>2. CASE u.rule \in {"section", "workflow"}
      <4>1. Merged(u, j) = With(With(first, j["recheck"]), j["settle"])
        BY <3>2, MergedBeside DEF first
      <4>2. QED  BY <1>1, <1>3, <4>1, WithNone
    <3>3. QED  BY <1>12, <3>1, <3>2
  <2>2. UnitOutcome(u, first).level = "uncertain"
    BY <1>5, <1>12 DEF Open, TornQuestions
  <2>3. Resolved(u, j).outcome = UnitOutcome(u, first)
    BY <1>6, <2>1, ResolvedOutcome DEF LeaningTest
  <2>4. QED  BY <1>4, <2>2, <2>3 DEF Decisive
<1>13. CASE u.rule \in {"stale", "doc_pair", "large_doc"}
  <2>1. Merged(u, k) = Merged(u, j)  BY <1>2, <1>13, MergedBeside DEF first
  <2>2. QED  BY <1>4, <1>13, <2>1, ResolvedOutcome
<1>14. QED  BY <1>9, <1>10, <1>11, <1>12, <1>13 DEF Plain, j, k

LEMMA StrongestDecisive ==
  ASSUME NEW os
  PROVE  Decisive(Strongest(os)) <=> \/ \E o \in os : o.level \in {"review", "consider", "note"}
                                     \/ os \subseteq {Clear}
BY StrongestLevel, NoulLevels DEF Decisive

\* A document's kind decides its split, unless it rules the split out.
LEMMA DocumentKind ==
  ASSUME NEW u, NEW g, NEW g2, NEW D, u.rule = "large_doc", Extends(g2, g, D),
         D \subseteq KindChoices, "kind" \notin DOMAIN g,
         Benefit(g["split"]).level \in {"uncertain", "consider", "review"},
         Decisive(UnitOutcome(u, g)), ~RuledOut(g2, "kind", SeveralDocumentKinds)
  PROVE  Decisive(UnitOutcome(u, g2))
<1>1. \A x : RuleOutcome(u, x) = Needs(x, {"split", "history"}, DocumentOutcome(x))
  BY DEF RuleOutcome, LookRules, Injected, Sensitive, Settings
<1>2. Decisive(RuleOutcome(u, g))  BY DecisiveInExamples DEF UnitOutcome
<1>3. {"split", "history"} \subseteq DOMAIN g /\ Decisive(DocumentOutcome(g))
  BY <1>1, <1>2, NoulLevels DEF Needs, Decisive
<1>4. /\ {"split", "history"} \subseteq DOMAIN g2
      /\ g2["split"] = g["split"] /\ g2["history"] = g["history"]
  BY <1>3 DEF Extends
<1> DEFINE history == Cleanup(Noul(g["history"]))
           past == IF Leads(history.p) THEN As(history, {"uncertain"}, "note") ELSE history
           split == Cleanup(DocumentSplit(g))
           split2 == Cleanup(DocumentSplit(g2))
<1>5. DocumentOutcome(g) = Strongest({split, past}) /\ DocumentOutcome(g2) = Strongest({split2, past})
  BY <1>4 DEF DocumentOutcome
<1>6. DocumentSplit(g) = Benefit(g["split"])
  BY DEF DocumentSplit, WeighedByKind
<1>7. DocumentSplit(g2) = DocumentSplit(g) \/ DocumentSplit(g2).level = "consider"
  BY <1>4, <1>6, OutcomeLevel DEF DocumentSplit, WeighedByKind
<1>8. split.level \in {"uncertain", "consider"}
  BY <1>6, AsLevel DEF Cleanup
<1>9. split2 = split \/ split2.level = "consider"
  BY <1>7, AsLevel DEF Cleanup
<1>10. split # Clear  BY <1>8, NoulLevels
<1> HIDE DEF split, split2, past
<1>11. Decisive(DocumentOutcome(g2))
  BY <1>3, <1>5, <1>8, <1>9, <1>10, StrongestDecisive
<1>12. QED  BY <1>1, <1>4, <1>11, DecisiveInExamples DEF UnitOutcome, Needs

\* What an answer of one pass adds to the answers merged from all of them.
LEMMA WithExtends ==
  ASSUME NEW x, NEW b, NEW b2, NEW a, b2 = With(b, a),
         DOMAIN a \cap DOMAIN x = {}, DOMAIN a \cap DOMAIN b = {}
  PROVE  Extends(With(x, b2), With(x, b), DOMAIN a)
<1>1. DOMAIN b2 = DOMAIN b \cup DOMAIN a /\ \A q \in DOMAIN b : b2[q] = b[q]
  <2>1. DOMAIN With(b, a) = DOMAIN b \cup DOMAIN a  BY WithDomain
  <2>2. ASSUME NEW q \in DOMAIN b PROVE With(b, a)[q] = b[q]
    <3>1. With(b, a)[q] = IF q \in DOMAIN a THEN a[q] ELSE b[q]  BY WithAt
    <3>2. QED  BY <3>1
  <2>3. QED  BY <2>1, <2>2
<1>2. /\ DOMAIN With(x, b2) = DOMAIN x \cup DOMAIN b \cup DOMAIN a
      /\ DOMAIN With(x, b) = DOMAIN x \cup DOMAIN b
  <2>1. DOMAIN With(x, b2) = DOMAIN x \cup DOMAIN b2  BY WithDomain
  <2>2. DOMAIN With(x, b) = DOMAIN x \cup DOMAIN b  BY WithDomain
  <2>3. QED  BY <1>1, <2>1, <2>2
<1>3. ASSUME NEW q \in DOMAIN With(x, b) PROVE With(x, b2)[q] = With(x, b)[q]
  <2>1. With(x, b)[q] = IF q \in DOMAIN b THEN b[q] ELSE x[q]  BY <1>2, WithAt
  <2>2. With(x, b2)[q] = IF q \in DOMAIN b2 THEN b2[q] ELSE x[q]  BY <1>1, <1>2, WithAt
  <2>3. q \in DOMAIN b2 <=> q \in DOMAIN b  BY <1>1, <1>2
  <2>4. QED  BY <1>1, <2>1, <2>2, <2>3
<1>4. DOMAIN a \cap DOMAIN With(x, b) = {}  BY <1>2
<1>5. QED  BY <1>2, <1>3, <1>4 DEF Extends

LEMMA ExtendsBase ==
  ASSUME NEW x, NEW x2, NEW b, NEW D, Extends(x2, x, D), D \cap DOMAIN b = {}
  PROVE  Extends(With(x2, b), With(x, b), D)
BY DEF Extends, With

LEMMA KindDecides ==
  ASSUME Inv, Next, NEW u \in plan.units, phase = 6, u.rule = "large_doc",
         "kind" \in DOMAIN u.asks, NEW a \in u.asks["kind"], Takes(u, "kind", a),
         Decisive(Resolved(u, J(u)).outcome),
         ~RuledOut(judged'[u.id]["trace"], "kind", SeveralDocumentKinds)
  PROVE  Decisive(Resolved(u, judged'[u.id]).outcome)
<1> DEFINE j == J(u)
           k == judged'[u.id]
           base == With(j["first"], j["trace"])
           base2 == With(k["first"], k["trace"])
           g == Merged(u, j)
           g2 == Merged(u, k)
<1>1. UnkindedSplit(j)
  BY DEF Takes, Fresh, Unkinded, DocCheck
<1>2. DOMAIN j["trace"] = {} /\ DOMAIN j["settle"] = {}
  BY <1>1 DEF UnkindedSplit, Asked, Inv, Timely, TimelyUnit, DocCheck, Security, Injected, Sensitive, Settings
<1>3. /\ k["trace"] = With(j["trace"], a)
      /\ k["first"] = j["first"] /\ k["settle"] = j["settle"]
  BY PassNames DEF Takes, Passes
<1>4. DOMAIN a \subseteq KindChoices /\ \A p \in Passes : KindChoices \cap DOMAIN j[p] = {}
  BY LateAnswer, KindNames, NamesApart DEF LateStage
<1>5. Extends(base2, base, DOMAIN a)
  BY <1>3, <1>4, WithExtends DEF Passes
<1>6. g = With(base, j["settle"]) /\ g2 = With(base2, j["settle"])
  BY <1>3, MergedBeside
<1>7. Extends(g2, g, DOMAIN a)
  BY <1>2, <1>5, <1>6, ExtendsBase
<1>8. DOMAIN g = DOMAIN j["first"] /\ \A q \in DOMAIN g : g[q] = j["first"][q]
  <2>1. IsFcn(j["first"]) /\ IsFcn(base)  BY UnitPasses, WithDomain DEF Passes
  <2>2. base = j["first"]  BY <1>2, <2>1, WithNone
  <2>3. g = base  BY <1>2, <1>6, <2>1, WithNone
  <2>4. QED  BY <2>2, <2>3
<1>9. "kind" \notin DOMAIN g  BY <1>4, <1>8 DEF KindChoices, Passes
<1>10. ~RuledOut(g2, "kind", SeveralDocumentKinds)
  <2>1. g2 = base2
    <3>1. IsFcn(base2)  BY WithDomain
    <3>2. QED  BY <1>2, <1>6, <3>1, WithNone
  <2>2. "kind" \notin DOMAIN k["first"]  BY <1>3, <1>4 DEF KindChoices, Passes
  <2>3. "kind" \in DOMAIN g2 => "kind" \in DOMAIN k["trace"] /\ g2["kind"] = k["trace"]["kind"]
    <3>1. DOMAIN base2 = DOMAIN k["first"] \cup DOMAIN k["trace"]  BY WithDomain
    <3>2. SUFFICES ASSUME "kind" \in DOMAIN base2
                   PROVE  "kind" \in DOMAIN k["trace"] /\ base2["kind"] = k["trace"]["kind"]
      BY <2>1
    <3>3. "kind" \in DOMAIN k["trace"]  BY <2>2, <3>1, <3>2
    <3>4. base2["kind"] = k["trace"]["kind"]  BY <3>3, WithAt
    <3>5. QED  BY <3>3, <3>4
  <2>4. QED  BY <2>3 DEF RuledOut
<1>11. Benefit(g["split"]).level \in {"uncertain", "consider", "review"}
  BY <1>1, <1>8 DEF UnkindedSplit
<1>12. Decisive(UnitOutcome(u, g))  BY ResolvedOutcome
<1>13. Decisive(UnitOutcome(u, g2))
  <2> HIDE DEF g, g2
  <2>1. QED  BY <1>4, <1>7, <1>9, <1>10, <1>11, <1>12, DocumentKind
<1>14. QED  BY <1>13, ResolvedOutcome
-----------------------------------------------------------------------------
(* What confirming a finding of a test changes.                            *)

LEMMA SeverityLevels ==
  ASSUME NEW r
  PROVE  /\ r.outcome.level = "review" => Severity(r) = 2
         /\ r.outcome.level = "consider" => Severity(r) = 1
         /\ r.outcome.level \notin {"review", "consider"} => Severity(r) = 0
         /\ Severity(r) \in 0..2
BY DEF Severity


LEMMA TestPairConfirmed ==
  ASSUME NEW u, NEW g, NEW g2, NEW D, u.rule = "test_pair", Extends(g2, g, D),
         D \subseteq ConfirmQuestions
  PROVE  \/ RuleOutcome(u, g2) = RuleOutcome(u, g)
         \/ /\ RuleOutcome(u, g).level \in {"review", "consider"}
            /\ RuleOutcome(u, g2).level \in {"consider", "note"}
<1>1. \A x : RuleOutcome(u, x) = Needs(x, {"overlap"}, TestPairOutcome(u, x))
  BY DEF RuleOutcome, LookRules, Injected, Sensitive, Settings
<1>2. D \cap {"overlap", "same_input", "same_outcome"} = {}  BY DEF ConfirmQuestions
<1>3. CASE "overlap" \notin DOMAIN g
  BY <1>1, <1>2, <1>3 DEF Needs, Extends
<1>4. CASE "overlap" \in DOMAIN g
  <2>1. /\ "overlap" \in DOMAIN g2 /\ g2["overlap"] = g["overlap"]
        /\ \A q \in {"same_input", "same_outcome"} :
             (q \in DOMAIN g2 <=> q \in DOMAIN g) /\ (q \in DOMAIN g => g2[q] = g[q])
    BY <1>2, <1>4 DEF Extends
  <2> DEFINE overlap == Score(g["overlap"])
             separable(x) == "distinct" \in DOMAIN x /\ ~At(100 - x["distinct"])
             differs(x) == /\ "identical" \notin u.is
                           /\ \E q \in {"same_input", "same_outcome"} \cap DOMAIN x : ~At(x[q])
             apart(x) == "identical" \notin u.is /\ Says(x, "same_outcome", "clear")
             middle == Outcome("consider", g["overlap"][2] + g["overlap"][3])
             redundant(x) == IF overlap.level = "review" /\ (separable(x) \/ differs(x)) THEN middle
                             ELSE IF overlap.level = "consider" /\ apart(x)
                             THEN AtMostNote(overlap) ELSE overlap
             limited(o) == IF o.level = "review" /\ "unseen_setup" \in u.is THEN Cleanup(o)
                           ELSE IF o.level = "consider" /\ "no_table" \in u.is THEN AtMostNote(o)
                           ELSE o
  <2>2. differs(g2) = differs(g) /\ apart(g2) = apart(g)
    BY <2>1 DEF Says
  <2>3. separable(g) => separable(g2)
    BY DEF Extends
  <2>4. TestPairOutcome(u, g) = limited(redundant(g)) /\ TestPairOutcome(u, g2) = limited(redundant(g2))
    BY <2>1 DEF TestPairOutcome
  <2>5. middle.level = "consider"  BY OutcomeLevel
  <2>6. \/ redundant(g2) = redundant(g)
        \/ redundant(g) = overlap /\ overlap.level = "review" /\ redundant(g2) = middle
    <3> HIDE DEF separable, differs, apart, overlap, middle
    <3>1. QED  BY <2>2, <2>3
  <2>7. ASSUME overlap.level = "review" PROVE limited(overlap).level \in {"review", "consider"}
    BY <2>7, AsLevel DEF Cleanup
  <2>8. limited(middle).level \in {"consider", "note"}
    BY <2>5, AsLevel DEF AtMostNote
  <2> HIDE DEF redundant, limited, middle, overlap
  <2>9. QED  BY <1>1, <1>4, <2>1, <2>4, <2>6, <2>7, <2>8 DEF Needs
<1>5. QED  BY <1>3, <1>4

LEMMA TestValueConfirmed ==
  ASSUME NEW u, NEW g, NEW g2, NEW D, u.rule = "test_value", Extends(g2, g, D),
         D \subseteq ConfirmQuestions
  PROVE  \/ RuleOutcome(u, g2) = RuleOutcome(u, g)
         \/ /\ RuleOutcome(u, g).level = "consider"
            /\ RuleOutcome(u, g2).level \in {"consider", "note", "clear"}
<1> DEFINE asked == {"own_logic", "mock_only", "internal", "several"}
<1>1. \A x : RuleOutcome(u, x) = Needs(x, asked, TestValueOutcome(x))
  BY DEF RuleOutcome, LookRules, Injected, Sensitive, Settings
<1>2. D \cap asked = {}  BY DEF ConfirmQuestions
<1>3. CASE ~(asked \subseteq DOMAIN g)
  BY <1>1, <1>2, <1>3 DEF Needs, Extends
<1>4. CASE asked \subseteq DOMAIN g
  <2>1. asked \subseteq DOMAIN g2 /\ \A q \in asked : g2[q] = g[q]
    BY <1>4 DEF Extends
  <2>2. \/ InternalOutcome(g2) = InternalOutcome(g)
        \/ "reads" \notin DOMAIN g /\ InternalOutcome(g).level = "consider"
    BY <2>1, OutcomeLevel DEF InternalOutcome, Extends
  <2>3. InternalOutcome(g2).level \in {"consider", "note", "clear"}
    BY OutcomeLevel, AsLevel, NoulLevels DEF InternalOutcome, AtMostNote
  <2>4. \/ TestValueOutcome(g2) = TestValueOutcome(g)
        \/ TestValueOutcome(g2) = InternalOutcome(g2) /\ TestValueOutcome(g) = InternalOutcome(g)
    BY <2>1 DEF TestValueOutcome
  <2>5. QED  BY <1>1, <1>4, <2>1, <2>2, <2>3, <2>4 DEF Needs
<1>5. QED  BY <1>3, <1>4

\* Confirming lowers a test's outcome and leaves it decided.
LEMMA TestConfirmed ==
  ASSUME NEW u, NEW g, NEW g2, NEW D, u.rule \in {"test_pair", "test_value"},
         Extends(g2, g, D), D \subseteq ConfirmQuestions
  PROVE  \/ UnitOutcome(u, g2) = UnitOutcome(u, g)
         \/ /\ Decisive(UnitOutcome(u, g)) /\ Decisive(UnitOutcome(u, g2))
            /\ UnitOutcome(u, g2).level = "review" => UnitOutcome(u, g).level = "review"
            /\ Raised(UnitOutcome(u, g2)) => Raised(UnitOutcome(u, g))
<1>1. \/ RuleOutcome(u, g2) = RuleOutcome(u, g)
      \/ /\ RuleOutcome(u, g).level \in {"review", "consider"}
         /\ RuleOutcome(u, g2).level \in {"consider", "note", "clear"}
  BY TestPairConfirmed, TestValueConfirmed
<1>2. \A o : InExamples(u, o) = IF "example" \in u.is THEN AtMostNote(o) ELSE o
  BY DEF InExamples, Injected, Sensitive
<1>3. CASE RuleOutcome(u, g2) = RuleOutcome(u, g)  BY <1>3 DEF UnitOutcome
<1>4. CASE /\ RuleOutcome(u, g).level \in {"review", "consider"}
           /\ RuleOutcome(u, g2).level \in {"consider", "note", "clear"}
  BY <1>2, <1>4, AsLevel DEF UnitOutcome, AtMostNote, Decisive, Raised
<1>5. QED  BY <1>1, <1>3, <1>4

\* Outside the rules that confirm a finding, no answer rests on that pass.
LEMMA MergedKept ==
  ASSUME NEW u, NEW j, NEW k, u.rule \notin Security \cup {"test_pair", "test_value"},
         k["first"] = j["first"], k["trace"] = j["trace"],
         k["recheck"] = j["recheck"], k["settle"] = j["settle"]
  PROVE  Merged(u, k) = Merged(u, j)
<1>1. CASE Plain(u)  BY <1>1, MergedPlain DEF Rechecked, Asked
<1>2. CASE u.rule \in {"stale", "doc_pair", "large_doc", "section", "workflow"}
  BY <1>2, MergedBeside
<1>3. CASE u.rule = "comment"  BY <1>3, MergedComment DEF CommentAnswers, Asked
<1>4. QED  BY <1>1, <1>2, <1>3 DEF Plain

LEMMA ConfirmExtends ==
  ASSUME Inv, Next, NEW u \in plan.units, u.rule \in {"test_pair", "test_value"}, phase = 7,
         NEW name \in DOMAIN u.asks, NEW a \in u.asks[name], Takes(u, name, a)
  PROVE  /\ Extends(Merged(u, judged'[u.id]), Merged(u, J(u)), DOMAIN a)
         /\ DOMAIN a \subseteq ConfirmQuestions
<1> DEFINE j == J(u)
           k == judged'[u.id]
<1>1. name \in DOMAIN Confirms  BY DEF Takes, Fresh
<1>2. /\ k["locate"] = With(j["locate"], a) /\ k["first"] = j["first"]
      /\ k["recheck"] = j["recheck"]
  BY PassNames DEF Takes, Passes
<1>3. LateStage(name) = 7  BY <1>1, NamesApart DEF LateStage
<1>4. DOMAIN a \subseteq LateAsks(name) /\ \A p \in Passes : LateAsks(name) \cap DOMAIN j[p] = {}
  BY <1>1, <1>3, LateAnswer, ConfirmNames
<1>5. /\ DOMAIN a \cap DOMAIN j["first"] = {} /\ DOMAIN a \cap DOMAIN j["recheck"] = {}
      /\ DOMAIN a \cap DOMAIN j["locate"] = {}
  BY <1>4 DEF Passes
<1>6. DOMAIN a \subseteq ConfirmQuestions  BY <1>1, <1>4, ConfirmNames
<1> HIDE DEF j, k
<1>7. CASE u.rule = "test_pair"
  <2> DEFINE x == Rechecked(u, j, UnitOutcome(u, j["first"]), UnitOutcome(u, j["recheck"]))
  <2>1. Merged(u, j) = With(x, j["locate"]) /\ Merged(u, k) = With(x, k["locate"])
    BY <1>2, <1>7, MergedTests DEF Rechecked, Asked
  <2>2. DOMAIN a \cap DOMAIN x = {}  BY <1>5 DEF Rechecked
  <2> HIDE DEF x
  <2>3. Extends(With(x, k["locate"]), With(x, j["locate"]), DOMAIN a)
    BY <1>2, <1>5, <2>2, WithExtends
  <2>4. QED  BY <1>6, <2>1, <2>3 DEF j, k
<1>8. CASE u.rule = "test_value"
  <2> DEFINE again == {q \in DOMAIN j["recheck"] :
                         \/ q \notin DOMAIN j["first"]
                         \/ Decisive(Noul(j["recheck"][q]))
                         \/ ~Decisive(Noul(j["first"][q]))}
             taken == [q \in again |-> j["recheck"][q]]
             x == With(j["first"], taken)
  <2>1. Merged(u, j) = With(x, j["locate"]) /\ Merged(u, k) = With(x, k["locate"])
    BY <1>2, <1>8, MergedTests DEF TestValueAnswers, Replaced
  <2>2. DOMAIN x = DOMAIN j["first"] \cup again
    <3>1. DOMAIN taken = again  OBVIOUS
    <3> HIDE DEF taken, again
    <3>2. DOMAIN x = DOMAIN j["first"] \cup DOMAIN taken  BY WithDomain
    <3>3. QED  BY <3>1, <3>2
  <2>3. again \subseteq DOMAIN j["recheck"]  OBVIOUS
  <2>4. DOMAIN a \cap DOMAIN x = {}  BY <1>5, <2>2, <2>3
  <2> HIDE DEF x
  <2>5. Extends(With(x, k["locate"]), With(x, j["locate"]), DOMAIN a)
    BY <1>2, <1>5, <2>4, WithExtends
  <2>6. QED  BY <1>6, <2>1, <2>5 DEF j, k
<1>9. QED  BY <1>7, <1>8

\* A confirm lowers what its unit resolved to, outside security, and leaves
\* it decided.
LEMMA ConfirmLowers ==
  ASSUME Inv, Next, NEW u \in plan.units, u.rule \notin Security, phase = 7,
         NEW name \in DOMAIN u.asks, NEW a \in u.asks[name], Takes(u, name, a)
  PROVE  /\ Severity(Resolved(u, judged'[u.id])) <= Severity(Resolved(u, J(u)))
         /\ Decisive(Resolved(u, J(u)).outcome) => Decisive(Resolved(u, judged'[u.id]).outcome)
<1> DEFINE j == J(u)
           k == judged'[u.id]
           o == UnitOutcome(u, Merged(u, j))
           o2 == UnitOutcome(u, Merged(u, k))
           r == Resolved(u, j)
           r2 == Resolved(u, k)
<1>1. /\ k["first"] = j["first"] /\ k["trace"] = j["trace"]
      /\ k["recheck"] = j["recheck"] /\ k["settle"] = j["settle"]
  BY PassNames DEF Takes, Passes
<1>2. r.outcome = LeaningTest(u, j, o) /\ r2.outcome = LeaningTest(u, k, o2)
  BY ResolvedOutcome
<1>3. \A x : LeaningTest(u, k, x) = LeaningTest(u, j, x)
  BY <1>1 DEF LeaningTest, Asked
<1>4. \/ o2 = o
      \/ /\ Decisive(o) /\ Decisive(o2)
         /\ o2.level = "review" => o.level = "review"
         /\ Raised(o2) => Raised(o)
  <2>1. CASE u.rule \in {"test_pair", "test_value"}
    BY <2>1, ConfirmExtends, TestConfirmed
  <2>2. CASE u.rule \notin {"test_pair", "test_value"}
    BY <1>1, <2>2, MergedKept
  <2>3. QED  BY <2>1, <2>2
<1> HIDE DEF o, o2, j, k, r, r2
<1>5. CASE o2 = o
  <2>1. r2.outcome = r.outcome  BY <1>2, <1>3, <1>5
  <2>2. QED  BY <2>1, SeverityLevels DEF r, r2, j, k, Severity
<1>6. CASE /\ Decisive(o) /\ Decisive(o2)
           /\ o2.level = "review" => o.level = "review"
           /\ Raised(o2) => Raised(o)
  <2>1. r.outcome = o /\ r2.outcome = o2  BY <1>2, <1>6 DEF LeaningTest, Decisive
  <2>2. Severity(r2) <= Severity(r)  BY <1>6, <2>1, SeverityLevels DEF Raised
  <2>3. QED  BY <1>6, <2>1, <2>2 DEF r, r2, j, k
<1>7. QED  BY <1>4, <1>5, <1>6

LEMMA DecidedStep ==
  ASSUME Inv, Next, NEW u \in plan.units, u.rule \notin Security, phase > 1,
         Decisive(Resolved(u, J(u)).outcome)
  PROVE  \/ Decisive(Resolved(u, judged'[u.id]).outcome)
         \/ /\ u.rule = "large_doc"
            /\ RuledOut(judged'[u.id]["trace"], "kind", SeveralDocumentKinds)
<1>1. CASE judged'[u.id] = J(u)  BY <1>1
<1>2. CASE judged'[u.id] # J(u)
  <2>1. Answered  BY <1>2, OthersKeepAnswers DEF J
  <2>2. PICK name \in DOMAIN u.asks : \E a \in u.asks[name] : Takes(u, name, a)
    BY <1>2, <2>1, FollowUpAnswered DEF Inv
  <2>3. PICK a \in u.asks[name] : Takes(u, name, a)  BY <2>2
  <2>4. Fresh(phase, u, name, J(u)) /\ phase \in 2..7  BY <2>3 DEF Takes, Fresh, Inv, Typed
  <2>5. CASE phase = 2
    BY <2>4, <2>5, DocCheckUndecided DEF Fresh
  <2>6. CASE phase = 3 \/ phase = 5
    BY <2>4, <2>6 DEF Fresh
  <2>7. CASE phase = 4
    <3>1. \A p \in Passes \ {"recheck"} : judged'[u.id][p] = J(u)[p]
      BY <2>3, <2>7, PassNames DEF Takes
    <3>2. QED  BY <2>4, <2>7, <3>1, RecheckDecides DEF Fresh
  <2>8. CASE phase = 6
    <3>1. name = "kind" /\ Unkinded(u, J(u), Resolved(u, J(u)))  BY <2>4, <2>8 DEF Fresh
    <3>2. u.rule = "large_doc"
      BY <3>1 DEF Unkinded, UnsettledComment, UnsettledCheck, DocCheck, Decisive
    <3>3. QED  BY <2>3, <2>8, <3>1, <3>2, KindDecides
  <2>9. CASE phase = 7
    BY <2>3, <2>9, ConfirmLowers
  <2>10. QED  BY <2>4, <2>5, <2>6, <2>7, <2>8, <2>9
<1>3. QED  BY <1>1, <1>2

\* What a unit outside security resolved to stays decided, whatever answers
\* a follow-up of it (DecidedStays).
THEOREM DecidedIsKept == Spec => DecidedStays
<1>1. Inv /\ [Next]_vars =>
        [\A u \in plan.units :
           u.rule \notin Security /\ phase > 1 /\ Decisive(Resolved(u, J(u)).outcome)
           => \/ Decisive(Resolved(u, judged'[u.id]).outcome)
              \/ /\ u.rule = "large_doc"
                 /\ RuledOut(judged'[u.id]["trace"], "kind", SeveralDocumentKinds)]_vars
  BY DecidedStep
<1>2. QED  BY <1>1, StagesInOrder, PTL DEF Spec, DecidedStays
-----------------------------------------------------------------------------
(* What the answers of a settle or a confirm change of a security unit.    *)

LEMMA ExtendsKeeps ==
  ASSUME NEW g, NEW g2, NEW D, Extends(g2, g, D)
  PROVE  \A q : q \notin D => /\ q \in DOMAIN g2 <=> q \in DOMAIN g
                              /\ q \in DOMAIN g => g2[q] = g[q]
BY DEF Extends

\* No question of a rule, of its presence or its checks, is asked late.
LEMMA SecurityQuestions ==
  /\ ConfirmQuestions \cap SettleQuestions = {}
  /\ \A rule \in Security : \A q \in Presence[rule] \cup Checks[rule] :
       q \notin ConfirmQuestions /\ q \notin SettleQuestions
  /\ \A q \in {"origin", "messages", "own_messages", "dev_only", "handler_leaks"} :
       q \notin ConfirmQuestions /\ q \notin SettleQuestions
BY DEF ConfirmQuestions, SettleQuestions, Presence, Checks, Security, Injected, Sensitive, Settings

\* A settled check stays settled, and only a settle's answer settles one.
LEMMA SettledByKept ==
  ASSUME NEW g, NEW g2, NEW D, Extends(g2, g, D), NEW rule, NEW c, NEW found
  PROVE  /\ SettledBy(rule, g, c, found) => SettledBy(rule, g2, c, found)
         /\ D \subseteq ConfirmQuestions =>
              (SettledBy(rule, g2, c, found) <=> SettledBy(rule, g, c, found))
<1>1. \A s \in Settles : Holds(g, s.question, {"fine"}, At) => Holds(g2, s.question, {"fine"}, At)
  BY DEF Holds, Extends
<1>2. ASSUME D \subseteq ConfirmQuestions
      PROVE  \A s \in Settles :
               Holds(g2, s.question, {"fine"}, At) => Holds(g, s.question, {"fine"}, At)
  <2>1. \A s \in Settles : s.question \notin D
    BY <1>2, SettleNames, SecurityQuestions
  <2>2. QED  BY <2>1, ExtendsKeeps DEF Holds
<1>3. QED  BY <1>1, <1>2 DEF SettledBy

LEMMA SettledChecksKept ==
  ASSUME NEW g, NEW g2, NEW D, Extends(g2, g, D),
         D \subseteq ConfirmQuestions \/ D \subseteq SettleQuestions
  PROVE  LET checks  == SettledChecks(Injected, g)
             checks2 == SettledChecks(Injected, g2)
         IN /\ DOMAIN checks2 = DOMAIN checks
            /\ DOMAIN checks = Checks[Injected] \cap DOMAIN g
            /\ \A c \in DOMAIN checks : checks2[c] = checks[c] \/ checks2[c] = Clear
            /\ D \subseteq ConfirmQuestions => checks2 = checks
<1> DEFINE settled(h, c) == SettledCheck(Injected, h, c)
<1>1. Injected \in Security  BY DEF Security
<1>2. \A c \in Checks[Injected] : c \notin D  BY <1>1, SecurityQuestions
<1>3. Checks[Injected] \cap DOMAIN g2 = Checks[Injected] \cap DOMAIN g
  BY <1>2, ExtendsKeeps
<1>4. ASSUME NEW c \in Checks[Injected] \cap DOMAIN g
      PROVE  /\ settled(g2, c) = settled(g, c) \/ settled(g2, c) = Clear
             /\ D \subseteq ConfirmQuestions => settled(g2, c) = settled(g, c)
  <2>1. g2[c] = g[c]  BY DEF Extends
  <2>2. QED  BY <2>1, SettledByKept DEF SettledCheck
<1> HIDE DEF settled
<1>5. /\ SettledChecks(Injected, g) = [c \in Checks[Injected] \cap DOMAIN g |-> settled(g, c)]
      /\ SettledChecks(Injected, g2) = [c \in Checks[Injected] \cap DOMAIN g |-> settled(g2, c)]
  BY <1>3 DEF SettledChecks, settled
<1>6. QED  BY <1>4, <1>5

\* How far up an outcome stands.
Rank(o) == IF o.level = "review" THEN 2 ELSE IF o.level = "consider" THEN 1 ELSE 0

LEMMA RankSeverity == ASSUME NEW r PROVE Severity(r) = Rank(r.outcome)
BY DEF Severity, Rank

LEMMA RankLowers ==
  ASSUME NEW o, NEW o2
  PROVE  /\ Rank(o) \in 0..2
         /\ Raised(o) <=> Rank(o) > 0
         /\ Rank(AtMostNote(o)) = 0
         /\ o2.level \in {o.level, "note"} => Rank(o2) <= Rank(o)
         /\ Rank(o2) <= Rank(o) => Rank(Lowered(o2)) <= Rank(Lowered(o))
         /\ \A u : Rank(o2) <= Rank(o) => Rank(InExamples(u, o2)) <= Rank(InExamples(u, o))
<1>1. Rank(o) \in 0..2 /\ (Raised(o) <=> Rank(o) > 0)  BY DEF Rank, Raised
<1>2. \A x : Rank(AtMostNote(x)) = 0  BY AsLevel DEF Rank, AtMostNote
<1>3. o2.level \in {o.level, "note"} => Rank(o2) <= Rank(o)  BY DEF Rank
<1>4. \A x : Rank(Lowered(x)) = IF x.level = "review" THEN 1 ELSE 0
  BY AsLevel DEF Rank, Lowered
<1>5. Rank(o2) <= Rank(o) => Rank(Lowered(o2)) <= Rank(Lowered(o))
  BY <1>4 DEF Rank
<1>6. \A x : Rank(As(x, {"review"}, "consider")) = IF Rank(x) = 0 THEN 0 ELSE 1
  BY AsLevel DEF Rank
<1>7. ASSUME NEW u, Rank(o2) <= Rank(o)
      PROVE  Rank(InExamples(u, o2)) <= Rank(InExamples(u, o))
  <2>1. Rank(o2) \in 0..2 /\ Rank(o) \in 0..2  BY DEF Rank
  <2> HIDE DEF Rank
  <2>2. QED  BY <1>2, <1>6, <1>7, <2>1 DEF InExamples
<1>8. QED  BY <1>1, <1>2, <1>3, <1>5, <1>7
-----------------------------------------------------------------------------
(* Injections.                                                             *)

LEMMA OriginLevels ==
  ASSUME NEW s
  PROVE  Origin(s).level \in {"review", "consider", "clear", "uncertain"}
BY NoulLevels, OutcomeLevel DEF Origin

LEMMA InjectionShape ==
  ASSUME NEW g
  PROVE  InjectionOutcome(g) =
           IF ~(Presence[Injected] \subseteq DOMAIN g) THEN Missing
           ELSE IF {Noul(g[q]) : q \in Presence[Injected]} = {Clear} THEN Clear
           ELSE IF "origin" \notin DOMAIN g \/ Checks[Injected] \cap DOMAIN g = {}
           THEN Outcome("uncertain", Max({x.p : x \in {Noul(g[q]) : q \in Presence[Injected]}}))
           ELSE TracedOutcome(g, SettledChecks(Injected, g))
BY DEF InjectionOutcome

\* A late answer leaves what an injection shows at first and where its
\* values come from.
LEMMA InjectionTraced ==
  ASSUME NEW g, NEW g2, NEW D, Extends(g2, g, D),
         D \subseteq ConfirmQuestions \/ D \subseteq SettleQuestions
  PROVE  \/ InjectionOutcome(g2) = InjectionOutcome(g)
         \/ /\ InjectionOutcome(g)  = TracedOutcome(g, SettledChecks(Injected, g))
            /\ InjectionOutcome(g2) = TracedOutcome(g2, SettledChecks(Injected, g2))
            /\ "origin" \in DOMAIN g /\ g2["origin"] = g["origin"]
<1>1. Injected \in Security  BY DEF Security
<1>2. \A q \in Presence[Injected] \cup Checks[Injected] \cup {"origin"} : q \notin D
  BY <1>1, SecurityQuestions
<1>3. \A q \in Presence[Injected] \cup Checks[Injected] \cup {"origin"} :
        /\ q \in DOMAIN g2 <=> q \in DOMAIN g
        /\ q \in DOMAIN g => g2[q] = g[q]
  BY <1>2, ExtendsKeeps
<1>4. CASE ~(Presence[Injected] \subseteq DOMAIN g)
  <2>1. InjectionOutcome(g) = Missing  BY <1>4, InjectionShape
  <2>2. ~(Presence[Injected] \subseteq DOMAIN g2)  BY <1>3, <1>4
  <2>3. InjectionOutcome(g2) = Missing  BY <2>2, InjectionShape
  <2>4. QED  BY <2>1, <2>3
<1>5. CASE Presence[Injected] \subseteq DOMAIN g
  <2> DEFINE shown(h) == {Noul(h[q]) : q \in Presence[Injected]}
             unseen(h) == "origin" \notin DOMAIN h \/ Checks[Injected] \cap DOMAIN h = {}
             open(s) == Outcome("uncertain", Max({x.p : x \in s}))
  <2>1. shown(g2) = shown(g) /\ unseen(g2) = unseen(g)  BY <1>3, <1>5
  <2>2. Presence[Injected] \subseteq DOMAIN g2  BY <1>3, <1>5
  <2>3. \A h : Presence[Injected] \subseteq DOMAIN h =>
          InjectionOutcome(h) = IF shown(h) = {Clear} THEN Clear
                                ELSE IF unseen(h) THEN open(shown(h))
                                ELSE TracedOutcome(h, SettledChecks(Injected, h))
    BY InjectionShape
  <2>4. ~unseen(g) => "origin" \in DOMAIN g /\ g2["origin"] = g["origin"]  BY <1>3
  <2> HIDE DEF shown, unseen, open
  <2>5. QED  BY <1>5, <2>1, <2>2, <2>3, <2>4
<1>6. QED  BY <1>4, <1>5

LEMMA ByOriginRank ==
  ASSUME NEW o, NEW g, NEW checks
  PROVE  /\ Found(checks) = {} => Rank(ByOrigin(o, g, checks)) = 0
         /\ Found(checks) # {} =>
              ByOrigin(o, g, checks) = IF o.level = "consider" /\ Found(checks) \subseteq Resources
                                       THEN Lowered(o) ELSE o
<1> DEFINE open == {c \in DOMAIN checks : checks[c] # Clear}
           leaning == Max({0} \cup {g[c] : c \in open})
           led == \/ Leads(leaning)
                  \/ open # {} /\ \A c \in open : c \in Resources /\ SettleAsked(g, c)
           left == IF led THEN Outcome("note", Max({leaning, o.p})) ELSE Outcome("uncertain", o.p)
           found == Found(checks)
<1>1. ByOrigin(o, g, checks) =
        IF found = {} /\ o.level = "review" THEN AtMostNote(o)
        ELSE IF found = {} /\ o.level = "consider" THEN left
        ELSE IF o.level = "consider" /\ found \subseteq Resources THEN Lowered(o) ELSE o
  BY DEF ByOrigin
<1>2. Rank(left) = 0  BY OutcomeLevel DEF Rank
<1> HIDE DEF left, found
<1>3. found = {} => Rank(ByOrigin(o, g, checks)) = 0
  BY <1>1, <1>2, RankLowers DEF Rank
<1>4. QED  BY <1>1, <1>3 DEF found

LEMMA HarmlessSettled ==
  ASSUME NEW g, NEW g2, NEW D, Extends(g2, g, D), D \subseteq SettleQuestions,
         NEW checks, NEW checks2, Found(checks2) \subseteq Found(checks), Found(checks2) # {},
         Harmless(g, checks)
  PROVE  Harmless(g2, checks2)
<1>1. PICK k \in DOMAIN Confirm : Found(checks) = {k} /\ Holds(g, Confirm[k], {"fine"}, Leads)
  BY DEF Harmless, Confirmable
<1>2. Found(checks2) = {k}  BY <1>1
<1>3. Holds(g2, Confirm[k], {"fine"}, Leads)  BY <1>1 DEF Holds, Extends
<1>4. QED  BY <1>1, <1>2, <1>3 DEF Harmless, Confirmable

\* A settle's answer lowers an injection, unless it places its markup
\* outside.
LEMMA InjectionSettled ==
  ASSUME NEW g, NEW g2, NEW D, Extends(g2, g, D), D \subseteq SettleQuestions,
         ~OutsideMarkup(g2, SettledChecks(Injected, g2))
  PROVE  Rank(InjectionOutcome(g2)) <= Rank(InjectionOutcome(g))
<1> DEFINE checks  == SettledChecks(Injected, g)
           checks2 == SettledChecks(Injected, g2)
           o  == OriginOf(g, checks)
           o2 == OriginOf(g2, checks2)
           a  == ByOrigin(o, g, checks)
           a2 == ByOrigin(o2, g2, checks2)
<1>1. /\ DOMAIN checks2 = DOMAIN checks
      /\ \A c \in DOMAIN checks : checks2[c] = checks[c] \/ checks2[c] = Clear
  BY SettledChecksKept
<1>2. /\ Found(checks2) \subseteq Found(checks)
      /\ AllClear(checks) => AllClear(checks2)
  BY <1>1, NoulLevels DEF Found, AllClear
<1>3. CASE InjectionOutcome(g2) = InjectionOutcome(g)
  BY <1>3, RankLowers
<1>4. CASE /\ InjectionOutcome(g)  = TracedOutcome(g, checks)
           /\ InjectionOutcome(g2) = TracedOutcome(g2, checks2)
           /\ "origin" \in DOMAIN g /\ g2["origin"] = g["origin"]
  <2>1. o2 = Origin(g["origin"])  BY <1>4 DEF OriginOf
  <2>2. o = o2 \/ Rank(o) = 2
    BY <2>1, OutcomeLevel DEF OriginOf, Rank
  <2>3. CASE AllClear(checks2)
    <3>1. Rank(InjectionOutcome(g2)) = 0
      BY <1>4, <2>3, NoulLevels DEF TracedOutcome, Rank
    <3>2. QED  BY <3>1, RankLowers
  <2>4. CASE ~AllClear(checks2)
    <3>1. /\ InjectionOutcome(g)  = Confirmed(a, g, checks)
          /\ InjectionOutcome(g2) = Confirmed(a2, g2, checks2)
      BY <1>2, <1>4, <2>4 DEF TracedOutcome
    <3>2. Rank(Confirmed(a2, g2, checks2)) <= Rank(a2)
      BY RankLowers DEF Confirmed
    <3>3. CASE Found(checks2) = {}
      <4>1. Rank(a2) = 0  BY <3>3, ByOriginRank
      <4>2. Rank(InjectionOutcome(g2)) = 0  BY <3>1, <3>2, <4>1, RankLowers
      <4>3. QED  BY <4>2, RankLowers
    <3>4. CASE Found(checks2) # {}
      <4>1. Found(checks) # {}  BY <1>2, <3>4
      <4>2. /\ a  = IF o.level = "consider" /\ Found(checks) \subseteq Resources THEN Lowered(o) ELSE o
            /\ a2 = IF o2.level = "consider" /\ Found(checks2) \subseteq Resources THEN Lowered(o2) ELSE o2
        BY <3>4, <4>1, ByOriginRank
      <4> HIDE DEF a, a2, o, o2, checks, checks2
      <4>3. \A x : Rank(Lowered(x)) <= Rank(x)  BY AsLevel DEF Lowered, Rank
      <4>4. Rank(a2) <= Rank(a)
        <5>1. CASE o = o2  BY <1>2, <4>2, <4>3, <5>1, RankLowers
        <5>2. CASE Rank(o) = 2
          <6>1. a = o  BY <4>2, <5>2 DEF Rank
          <6>2. QED  BY <5>2, <6>1, RankLowers
        <5>3. QED  BY <2>2, <5>1, <5>2
      <4>5. ProgramValues(g2) <=> ProgramValues(g)
        <5>1. "values" \notin D  BY SecurityQuestions DEF SettleQuestions
        <5>2. QED  BY <5>1, ExtendsKeeps DEF ProgramValues, Holds
      <4>6. CASE Raised(a) /\ Harmless(g, checks)
        <5>1. Harmless(g2, checks2)  BY <1>2, <3>4, <4>6, HarmlessSettled
        <5>2. Rank(Confirmed(a2, g2, checks2)) = 0
          BY <5>1, RankLowers DEF Confirmed
        <5>3. QED  BY <3>1, <5>2, RankLowers
      <4>7. CASE a.level = "consider" /\ ProgramValues(g)
        <5>1. a2.level # "review"  BY <4>4, <4>7 DEF Rank
        <5>2. Rank(Confirmed(a2, g2, checks2)) = 0
          <6>1. CASE a2.level = "consider"
            BY <4>5, <4>7, <6>1, RankLowers DEF Confirmed
          <6>2. CASE a2.level # "consider"
            BY <3>2, <5>1, <6>2, RankLowers DEF Rank
          <6>3. QED  BY <6>1, <6>2
        <5>3. QED  BY <3>1, <5>2, RankLowers
      <4>8. CASE ~(Raised(a) /\ Harmless(g, checks)) /\ ~(a.level = "consider" /\ ProgramValues(g))
        <5>1. Confirmed(a, g, checks) = a  BY <4>8 DEF Confirmed
        <5>2. Rank(a) \in Int /\ Rank(a2) \in Int /\ Rank(Confirmed(a2, g2, checks2)) \in Int
          BY DEF Rank
        <5>3. QED  BY <3>1, <3>2, <4>4, <5>1, <5>2
      <4>9. QED  BY <4>6, <4>7, <4>8
    <3>5. QED  BY <3>3, <3>4
  <2>5. QED  BY <2>3, <2>4
<1>5. QED  BY <1>3, <1>4, InjectionTraced

\* A confirm's answer leaves an injection at its level, or makes it a note.
LEMMA InjectionConfirmed ==
  ASSUME NEW g, NEW g2, NEW D, Extends(g2, g, D), D \subseteq ConfirmQuestions
  PROVE  InjectionOutcome(g2).level \in {InjectionOutcome(g).level, "note"}
<1> DEFINE checks  == SettledChecks(Injected, g)
           a == ByOrigin(OriginOf(g, checks), g, checks)
<1>1. SettledChecks(Injected, g2) = checks /\ DOMAIN checks \subseteq DOMAIN g
  BY SettledChecksKept
<1>2. CASE InjectionOutcome(g2) = InjectionOutcome(g)  BY <1>2
<1>3. CASE /\ InjectionOutcome(g)  = TracedOutcome(g, checks)
           /\ InjectionOutcome(g2) = TracedOutcome(g2, checks)
           /\ "origin" \in DOMAIN g /\ g2["origin"] = g["origin"]
  <2>1. OriginOf(g2, checks) = OriginOf(g, checks)
    <3>1. "markup_parts" \notin D  BY SecurityQuestions DEF SettleQuestions
    <3>2. QED  BY <1>3, <3>1, ExtendsKeeps DEF OriginOf, OutsideMarkup, Holds
  <2>2. \A c \in DOMAIN checks : g2[c] = g[c]  BY <1>1 DEF Extends
  <2>3. \A c : c \in Resources => (SettleAsked(g2, c) <=> SettleAsked(g, c))
    <3>1. \A q \in {"path_parts", "path_source", "url_parts", "redirect_target"} : q \notin D
      BY SecurityQuestions DEF SettleQuestions
    <3>2. \A q \in {"path_parts", "path_source", "url_parts", "redirect_target"} :
            /\ q \in DOMAIN g2 <=> q \in DOMAIN g
            /\ q \in DOMAIN g => g2[q] = g[q]
      BY <3>1, ExtendsKeeps
    <3>3. QED  BY <3>2 DEF SettleAsked, Resources
  <2>4. \A x : ByOrigin(x, g2, checks) = ByOrigin(x, g, checks)
    <3> DEFINE open == {c \in DOMAIN checks : checks[c] # Clear}
               leaning(h) == Max({0} \cup {h[c] : c \in open})
               led(h, m) == \/ Leads(m)
                            \/ open # {} /\ \A c \in open : c \in Resources /\ SettleAsked(h, c)
               found == Found(checks)
               low(x, l, s) == IF s THEN Outcome("note", Max({l, x.p}))
                               ELSE Outcome("uncertain", x.p)
               by(x, l, s) ==
                 IF found = {} /\ x.level = "review" THEN AtMostNote(x)
                 ELSE IF found = {} /\ x.level = "consider" THEN low(x, l, s)
                 ELSE IF x.level = "consider" /\ found \subseteq Resources THEN Lowered(x) ELSE x
    <3>1. leaning(g2) = leaning(g)
      <4>1. {g2[c] : c \in open} = {g[c] : c \in open}  BY <2>2
      <4>2. QED  BY <4>1
    <3>2. \A m : led(g2, m) <=> led(g, m)  BY <2>3
    <3>3. ASSUME NEW x, NEW h
          PROVE  ByOrigin(x, h, checks) = by(x, leaning(h), led(h, leaning(h)))
      BY DEF ByOrigin
    <3> HIDE DEF leaning, led, by
    <3>4. ASSUME NEW x PROVE ByOrigin(x, g2, checks) = ByOrigin(x, g, checks)
      <4>1. led(g2, leaning(g2)) <=> led(g, leaning(g))  BY <3>1, <3>2
      <4>2. CASE led(g, leaning(g))
        BY <3>1, <3>3, <4>1, <4>2 DEF by
      <4>3. CASE ~led(g, leaning(g))
        BY <3>1, <3>3, <4>1, <4>3 DEF by
      <4>4. QED  BY <4>2, <4>3
    <3>5. QED  BY <3>4
  <2>5. CASE AllClear(checks)
    BY <1>3, <2>5 DEF TracedOutcome
  <2>6. CASE ~AllClear(checks)
    <3>1. InjectionOutcome(g) = Confirmed(a, g, checks) /\ InjectionOutcome(g2) = Confirmed(a, g2, checks)
      BY <1>3, <2>1, <2>4, <2>6 DEF TracedOutcome
    <3>2. ProgramValues(g) => ProgramValues(g2)  BY DEF ProgramValues, Holds, Extends
    <3>3. Harmless(g, checks) => Harmless(g2, checks)  BY DEF Harmless, Holds, Extends
    <3> HIDE DEF a
    <3>4. QED  BY <3>1, <3>2, <3>3, AsLevel DEF Confirmed, AtMostNote, Raised
  <2>7. QED  BY <2>5, <2>6
<1>4. QED  BY <1>1, <1>2, <1>3, InjectionTraced
-----------------------------------------------------------------------------
(* Sensitive data and settings.                                            *)

\* A late answer leaves every signal's own answer, and what is not asked late.
LEMMA ExposureKeeps ==
  ASSUME NEW g, NEW g2, NEW D, Extends(g2, g, D),
         D \subseteq ConfirmQuestions \/ D \subseteq SettleQuestions,
         NEW rule \in Security
  PROVE  /\ \A q \in Presence[rule] \cup Checks[rule] :
              (q \in DOMAIN g2 <=> q \in DOMAIN g) /\ (q \in DOMAIN g => g2[q] = g[q])
         /\ OwnMessages(g2) <=> OwnMessages(g)
         /\ Says(g2, "dev_only", "review") <=> Says(g, "dev_only", "review")
         /\ FoundAmong(g2, Checks[rule]) <=> FoundAmong(g, Checks[rule])
<1>1. \A q \in Presence[rule] \cup Checks[rule] :
        (q \in DOMAIN g2 <=> q \in DOMAIN g) /\ (q \in DOMAIN g => g2[q] = g[q])
  BY SecurityQuestions, ExtendsKeeps
<1>2. \A q \in {"messages", "own_messages", "dev_only"} :
        (q \in DOMAIN g2 <=> q \in DOMAIN g) /\ (q \in DOMAIN g => g2[q] = g[q])
  BY SecurityQuestions, ExtendsKeeps
<1>3. OwnMessages(g2) <=> OwnMessages(g)  BY <1>2 DEF OwnMessages, Holds, Says
<1>4. Says(g2, "dev_only", "review") <=> Says(g, "dev_only", "review")  BY <1>2 DEF Says
<1>5. FoundAmong(g2, Checks[rule]) <=> FoundAmong(g, Checks[rule])
  BY <1>1 DEF FoundAmong, Says
<1>6. QED  BY <1>1, <1>3, <1>4, <1>5

\* The signals of a rule: those of its presence, and of its checks answered.
PresenceSignals(rule, g) ==
  {PresenceSignal(Judge(rule, g, q), rule, g, q) : q \in Presence[rule]}
CheckSignals(rule, g) ==
  {CheckSignal(Judge(rule, g, c), rule, g, c) : c \in Checks[rule] \cap DOMAIN g}

LEMMA SignalFields ==
  /\ ClearSignal.o = Clear /\ ClearSignal.lean = 0
  /\ \A o, lean : Signal(o, lean).o = o /\ Signal(o, lean).lean = lean
BY DEF ClearSignal, Signal

\* A settle's answer leaves a signal as it is, or clears it.
LEMMA SignalSettled ==
  ASSUME NEW g, NEW g2, NEW D, Extends(g2, g, D), D \subseteq SettleQuestions,
         NEW rule \in Security, NEW q \in (Presence[rule] \cup Checks[rule]) \cap DOMAIN g
  PROVE  LET s == Judge(rule, g, q)
             s2 == Judge(rule, g2, q)
         IN /\ \/ PresenceSignal(s2, rule, g2, q) = PresenceSignal(s, rule, g, q)
               \/ PresenceSignal(s2, rule, g2, q) = ClearSignal
            /\ \/ CheckSignal(s2, rule, g2, q) = CheckSignal(s, rule, g, q)
               \/ CheckSignal(s2, rule, g2, q) = ClearSignal
<1> DEFINE s == Judge(rule, g, q)
           s2 == Judge(rule, g2, q)
<1>1. g2[q] = g[q]  BY DEF Extends
<1>2. OwnMessages(g2) <=> OwnMessages(g)  BY ExposureKeeps
<1>3. \A x \in {"logged_when", "raw_html", "error_readers"} : x \notin D
  BY SecurityQuestions DEF ConfirmQuestions
<1>4. /\ NotedLog(g2) <=> NotedLog(g)
      /\ Inert(g2) <=> Inert(g)
      /\ PrivateReaders(g2) <=> PrivateReaders(g)
  BY <1>3, ExtendsKeeps DEF NotedLog, Inert, PrivateReaders, Holds
<1>5. \A c, f : SettledBy(rule, g, c, f) => SettledBy(rule, g2, c, f)
  BY SettledByKept
<1>6. \A f : SettledBy(Sensitive, g, "error_details", f) => SettledBy(Sensitive, g2, "error_details", f)
  BY SettledByKept
<1>7. s2 = s \/ s2 = ClearSignal
  BY <1>1, <1>2, <1>4, <1>6 DEF Judge
<1> HIDE DEF s, s2
<1>8. Clear.level = "clear" /\ ~Raised(Clear)  BY NoulLevels DEF Raised
<1>9. \/ PresenceSignal(s2, rule, g2, q) = PresenceSignal(s, rule, g, q)
      \/ PresenceSignal(s2, rule, g2, q) = ClearSignal
  BY <1>5, <1>7, SignalFields DEF PresenceSignal
<1>10. \/ CheckSignal(s2, rule, g2, q) = CheckSignal(s, rule, g, q)
       \/ CheckSignal(s2, rule, g2, q) = ClearSignal
  BY <1>5, <1>7, <1>8, SignalFields DEF CheckSignal
<1>11. QED  BY <1>9, <1>10 DEF s, s2

\* The level of what the signals say: whether one is found, and none named.
Unnamed(rule, named) ==
  /\ rule = Settings /\ named # {}
  /\ \A s \in named : ~Leads(s.lean) /\ ~Raised(s.o)
FoundOf(signals) == {s.o : s \in {x \in signals : Raised(x.o)}}

LEMMA ExposureShape ==
  ASSUME NEW rule, NEW shown, NEW named
  PROVE  LET found == FoundOf(shown \cup named)
             level == ExposureLevel(rule, shown, named)
         IN /\ found # {} =>
                 level = IF Unnamed(rule, named) THEN AtMostNote(Strongest(found))
                                                    ELSE Strongest(found)
            /\ found = {} => Rank(level) = 0
            /\ found = {} /\ (\E s \in shown \cup named : s.o.level = "note") =>
                 level.level = "note"
<1> DEFINE signals == shown \cup named
           found == FoundOf(signals)
           noted == {s.o.p : s \in {x \in signals : x.o.level = "note"}}
           leaning == Max({0} \cup {s.lean : s \in {x \in signals : x.o.level = "uncertain"}})
           clear(t) == \A s \in t : s.o = Clear
           rest == IF clear(shown) \/ (named # {} /\ clear(named)) THEN Clear
                   ELSE Outcome(IF Leads(leaning) THEN "note" ELSE "uncertain", leaning)
<1>1. ExposureLevel(rule, shown, named) =
        IF found # {} THEN IF Unnamed(rule, named) THEN AtMostNote(Strongest(found))
                                                      ELSE Strongest(found)
        ELSE IF noted # {} THEN Outcome("note", Max(noted))
        ELSE rest
  BY DEF ExposureLevel, FoundOf, Unnamed
<1>2. Rank(rest) = 0  BY OutcomeLevel, NoulLevels DEF Rank
<1>3. noted # {} <=> \E s \in signals : s.o.level = "note"  OBVIOUS
<1> HIDE DEF rest, noted
<1>4. QED  BY <1>1, <1>2, <1>3, OutcomeLevel DEF Rank

LEMMA ExposureSettledLevel ==
  ASSUME NEW rule, NEW shown, NEW shown2, NEW named, NEW named2,
         \A s \in shown2 : s \in shown \/ s = ClearSignal,
         \A s \in named2 : s \in named \/ s = ClearSignal,
         named # {} => named2 # {}
  PROVE  Rank(ExposureLevel(rule, shown2, named2)) <= Rank(ExposureLevel(rule, shown, named))
<1> DEFINE found  == FoundOf(shown \cup named)
           found2 == FoundOf(shown2 \cup named2)
           o  == ExposureLevel(rule, shown, named)
           o2 == ExposureLevel(rule, shown2, named2)
<1>1. ~Raised(ClearSignal.o) /\ ~Leads(ClearSignal.lean)
  BY SignalFields, NoulLevels DEF Raised, Leads
<1>2. found2 \subseteq found  BY <1>1 DEF FoundOf
<1>3. Unnamed(rule, named) => Unnamed(rule, named2)  BY <1>1 DEF Unnamed
<1>4. CASE found2 = {}
  <2>1. Rank(o2) = 0  BY <1>4, ExposureShape
  <2>2. QED  BY <2>1, RankLowers
<1>5. CASE found2 # {}
  <2>1. found # {}  BY <1>2, <1>5
  <2>2. /\ o  = IF Unnamed(rule, named) THEN AtMostNote(Strongest(found)) ELSE Strongest(found)
        /\ o2 = IF Unnamed(rule, named2) THEN AtMostNote(Strongest(found2)) ELSE Strongest(found2)
    BY <1>5, <2>1, ExposureShape
  <2>3. \A x \in found : x.level \in {"review", "consider"}  BY DEF FoundOf, Raised
  <2> HIDE DEF found, found2, o, o2
  <2>4. Rank(Strongest(found2)) <= Rank(Strongest(found))
    <3>1. CASE \E x \in found : x.level = "review"
      <4>1. Rank(Strongest(found)) = 2  BY <3>1, StrongestLevel DEF Rank
      <4>2. QED  BY <4>1, RankLowers
    <3>2. CASE ~\E x \in found : x.level = "review"
      <4>1. /\ Strongest(found).level = "consider"
            /\ Strongest(found2).level = "consider"
        BY <1>2, <1>5, <2>1, <2>3, <3>2, StrongestLevel
      <4>2. QED  BY <4>1 DEF Rank
    <3>3. QED  BY <3>1, <3>2
  <2>5. CASE Unnamed(rule, named2)
    <3>1. Rank(o2) = 0  BY <2>2, <2>5, RankLowers
    <3>2. QED  BY <3>1, RankLowers DEF o, o2
  <2>6. CASE ~Unnamed(rule, named2)
    BY <1>3, <2>2, <2>4, <2>6 DEF o, o2
  <2>7. QED  BY <2>5, <2>6
<1>6. QED  BY <1>4, <1>5

LEMMA ExposureOutcomeShape ==
  ASSUME NEW rule, NEW g
  PROVE  ExposureOutcome(rule, g) =
           IF ~(Presence[rule] \subseteq DOMAIN g) THEN Missing
           ELSE InDevelopment(ExposureLevel(rule, PresenceSignals(rule, g), CheckSignals(rule, g)), g)
BY DEF ExposureOutcome, PresenceSignals, CheckSignals

LEMMA ExposureSettled ==
  ASSUME NEW g, NEW g2, NEW D, Extends(g2, g, D), D \subseteq SettleQuestions,
         NEW rule \in Security
  PROVE  Rank(ExposureOutcome(rule, g2)) <= Rank(ExposureOutcome(rule, g))
<1>1. \A q \in Presence[rule] \cup Checks[rule] :
        (q \in DOMAIN g2 <=> q \in DOMAIN g) /\ (q \in DOMAIN g => g2[q] = g[q])
  BY ExposureKeeps
<1>2. CASE ~(Presence[rule] \subseteq DOMAIN g)
  <2>1. ~(Presence[rule] \subseteq DOMAIN g2)  BY <1>1, <1>2
  <2>2. ExposureOutcome(rule, g2) = ExposureOutcome(rule, g)
    BY <1>2, <2>1, ExposureOutcomeShape
  <2>3. QED  BY <2>2, RankLowers
<1>3. CASE Presence[rule] \subseteq DOMAIN g
  <2>1. Presence[rule] \subseteq DOMAIN g2  BY <1>1, <1>3
  <2>2. \A s \in PresenceSignals(rule, g2) : s \in PresenceSignals(rule, g) \/ s = ClearSignal
    <3>1. SUFFICES ASSUME NEW q \in Presence[rule]
                   PROVE  LET s == PresenceSignal(Judge(rule, g2, q), rule, g2, q)
                          IN s \in PresenceSignals(rule, g) \/ s = ClearSignal
      BY DEF PresenceSignals
    <3>2. q \in (Presence[rule] \cup Checks[rule]) \cap DOMAIN g  BY <1>3
    <3>3. QED  BY <3>2, SignalSettled DEF PresenceSignals
  <2>3. Checks[rule] \cap DOMAIN g2 = Checks[rule] \cap DOMAIN g  BY <1>1
  <2>4. \A s \in CheckSignals(rule, g2) : s \in CheckSignals(rule, g) \/ s = ClearSignal
    <3>1. SUFFICES ASSUME NEW q \in Checks[rule] \cap DOMAIN g
                   PROVE  LET s == CheckSignal(Judge(rule, g2, q), rule, g2, q)
                          IN s \in CheckSignals(rule, g) \/ s = ClearSignal
      BY <2>3 DEF CheckSignals
    <3>2. q \in (Presence[rule] \cup Checks[rule]) \cap DOMAIN g  OBVIOUS
    <3>3. QED  BY <3>2, SignalSettled DEF CheckSignals
  <2>5. CheckSignals(rule, g) # {} => CheckSignals(rule, g2) # {}
    BY <2>3 DEF CheckSignals
  <2> DEFINE level(h) == ExposureLevel(rule, PresenceSignals(rule, h), CheckSignals(rule, h))
  <2>6. Rank(level(g2)) <= Rank(level(g))
    BY <2>2, <2>4, <2>5, ExposureSettledLevel
  <2>7. /\ ExposureOutcome(rule, g)  = InDevelopment(level(g), g)
        /\ ExposureOutcome(rule, g2) = InDevelopment(level(g2), g2)
    BY <1>3, <2>1, ExposureOutcomeShape
  <2>8. Says(g2, "dev_only", "review") <=> Says(g, "dev_only", "review")  BY ExposureKeeps
  <2> HIDE DEF level
  <2>9. Rank(InDevelopment(level(g2), g2)) <= Rank(InDevelopment(level(g), g))
    BY <2>6, <2>8, RankLowers DEF InDevelopment
  <2>10. QED  BY <2>7, <2>9
<1>4. QED  BY <1>2, <1>3

LEMMA SettingsRank ==
  ASSUME NEW is, NEW o, NEW o2, NEW g, NEW g2, Rank(o2) <= Rank(o),
         Says(g2, "dev_only", "review") <=> Says(g, "dev_only", "review"),
         FoundAmong(g2, Checks[Settings]) <=> FoundAmong(g, Checks[Settings])
  PROVE  Rank(SettingsOutcome(is, o2, g2)) <= Rank(SettingsOutcome(is, o, g))
<1>1. Rank(DjangoOutcome(o2, g2)) <= Rank(DjangoOutcome(o, g))
  BY RankLowers DEF DjangoOutcome
<1>2. QED
  BY <1>1, RankLowers DEF SettingsOutcome, SettingsModuleOutcome, InDevelopment

\* A confirm's answer leaves a signal as it is, or makes it a note that
\* leans nowhere when it is one of settings.
LEMMA SignalConfirmed ==
  ASSUME NEW g, NEW g2, NEW D, Extends(g2, g, D), D \subseteq ConfirmQuestions,
         NEW rule \in Security, NEW q \in (Presence[rule] \cup Checks[rule]) \cap DOMAIN g
  PROVE  LET s == Judge(rule, g, q)
             s2 == Judge(rule, g2, q)
             noted(x) == x.o.level = "note" /\ (rule = Settings => x.lean = 0)
         IN /\ \/ PresenceSignal(s2, rule, g2, q) = PresenceSignal(s, rule, g, q)
               \/ noted(PresenceSignal(s2, rule, g2, q))
            /\ \/ CheckSignal(s2, rule, g2, q) = CheckSignal(s, rule, g, q)
               \/ noted(CheckSignal(s2, rule, g2, q))
<1> DEFINE s == Judge(rule, g, q)
           s2 == Judge(rule, g2, q)
           noted(x) == x.o.level = "note" /\ (rule = Settings => x.lean = 0)
<1>1. g2[q] = g[q]  BY DEF Extends
<1>2. OwnMessages(g2) <=> OwnMessages(g)  BY ExposureKeeps
<1>3. /\ NotedLog(g) => NotedLog(g2)
      /\ Inert(g) => Inert(g2)
      /\ PrivateReaders(g) => PrivateReaders(g2)
  BY DEF NotedLog, Inert, PrivateReaders, Holds, Extends
<1>4. \A c, f : SettledBy(rule, g2, c, f) <=> SettledBy(rule, g, c, f)
  BY SettledByKept
<1>5. \A f : SettledBy(Sensitive, g2, "error_details", f) <=> SettledBy(Sensitive, g, "error_details", f)
  BY SettledByKept
<1>6. \A o : Raised(o) => AtMostNote(o).level = "note"  BY AsLevel DEF Raised, AtMostNote
<1>7. s2 = s \/ (Raised(s.o) /\ noted(s2))
  <2> DEFINE o == Noul(g[q])
             error == rule = Sensitive /\ q \in ErrorSignals
             own == OwnMessages(g)
             settled == SettledBy(Sensitive, g, "error_details", FALSE)
             escape == rule = Settings /\ q = "escape"
             shown(h) == \/ rule = Sensitive /\ q \in LogSignals /\ NotedLog(h)
                         \/ error /\ PrivateReaders(h)
             says(h) == IF error /\ own THEN ClearSignal
                        ELSE IF error /\ o.level = "uncertain" /\ settled THEN ClearSignal
                        ELSE IF Raised(o) /\ escape /\ Inert(h) THEN Signal(AtMostNote(o), 0)
                        ELSE IF Raised(o) /\ shown(h) THEN Signal(AtMostNote(o), g[q])
                        ELSE Signal(o, g[q])
  <2>1. s = says(g) /\ s2 = says(g2)
    BY <1>1, <1>2, <1>5 DEF Judge
  <2>2. shown(g) => shown(g2)  BY <1>3
  <2>3. ~(escape /\ shown(g2)) /\ (shown(g2) => rule # Settings)
    BY DEF Settings, Sensitive
  <2> HIDE DEF o, error, own, settled, escape, shown
  <2>4. \/ s2 = s
        \/ s = Signal(o, g[q]) /\ Raised(o) /\ s2 = Signal(AtMostNote(o), 0)
        \/ /\ s = Signal(o, g[q]) /\ Raised(o) /\ s2 = Signal(AtMostNote(o), g[q])
           /\ rule # Settings
    BY <1>3, <2>1, <2>2, <2>3
  <2>5. QED  BY <1>6, <2>4, SignalFields
<1> HIDE DEF s, s2
<1>8. Clear.level = "clear" /\ ~Raised(Clear)  BY NoulLevels DEF Raised
<1>9. \/ PresenceSignal(s2, rule, g2, q) = PresenceSignal(s, rule, g, q)
      \/ noted(PresenceSignal(s2, rule, g2, q))
  BY <1>4, <1>7, <1>8 DEF PresenceSignal
<1>10. \/ CheckSignal(s2, rule, g2, q) = CheckSignal(s, rule, g, q)
       \/ noted(CheckSignal(s2, rule, g2, q))
  BY <1>4, <1>7, <1>8 DEF CheckSignal, Raised
<1>11. QED  BY <1>9, <1>10 DEF s, s2

\* A signal found is a review.
LEMMA SignalFound ==
  ASSUME NEW rule, NEW g, NEW s \in PresenceSignals(rule, g) \cup CheckSignals(rule, g), Raised(s.o)
  PROVE  s.o.level = "review"
<1>1. ASSUME NEW q, Raised(Judge(rule, g, q).o) PROVE Judge(rule, g, q).o.level = "review"
  <2>1. \A o : ~Raised(AtMostNote(o))  BY RankLowers
  <2>2. Noul(g[q]).level \in {"review", "clear", "uncertain"}  BY NoulLevels
  <2>3. ~Raised(Clear)  BY NoulLevels DEF Raised
  <2>4. \/ Judge(rule, g, q).o = Clear \/ Judge(rule, g, q).o = Noul(g[q])
        \/ Judge(rule, g, q).o = AtMostNote(Noul(g[q]))
    BY SignalFields DEF Judge
  <2>5. QED  BY <1>1, <2>1, <2>2, <2>3, <2>4 DEF Raised
<1>2. ~Raised(Clear)  BY NoulLevels DEF Raised
<1>3. CASE s \in PresenceSignals(rule, g)
  <2>1. PICK q \in Presence[rule] : s = PresenceSignal(Judge(rule, g, q), rule, g, q)
    BY <1>3 DEF PresenceSignals
  <2>2. QED  BY <1>1, <1>2, <2>1, SignalFields DEF PresenceSignal
<1>4. CASE s \in CheckSignals(rule, g)
  <2>1. PICK q \in Checks[rule] \cap DOMAIN g : s = CheckSignal(Judge(rule, g, q), rule, g, q)
    BY <1>4 DEF CheckSignals
  <2>2. QED  BY <1>1, <1>2, <2>1, SignalFields DEF CheckSignal
<1>5. QED  BY <1>3, <1>4

LEMMA ExposureFoundLevel ==
  ASSUME NEW rule, NEW P, NEW S, FoundOf(P \cup S) # {},
         \A s \in P \cup S : Raised(s.o) => s.o.level = "review"
  PROVE  ExposureLevel(rule, P, S).level = IF Unnamed(rule, S) THEN "note" ELSE "review"
<1> DEFINE found == FoundOf(P \cup S)
<1>1. ExposureLevel(rule, P, S) = IF Unnamed(rule, S) THEN AtMostNote(Strongest(found))
                                                     ELSE Strongest(found)
  BY ExposureShape
<1>2. found # {} /\ \A x \in found : x.level = "review"  BY DEF FoundOf
<1> HIDE DEF found
<1>3. Strongest(found).level = "review"  BY <1>2, StrongestLevel
<1>4. QED  BY <1>1, <1>3, AsLevel DEF AtMostNote

LEMMA ExposureConfirmedLevel ==
  ASSUME NEW rule, NEW P, NEW P2, NEW S, NEW S2,
         \A s \in P2 \cup S2 : Raised(s.o) => s.o.level = "review",
         \A s \in P \cup S : Raised(s.o) => s.o.level = "review",
         \A s \in P2 : s \in P \/ (s.o.level = "note" /\ (rule = Settings => s.lean = 0)),
         \A s \in S2 : s \in S \/ (s.o.level = "note" /\ (rule = Settings => s.lean = 0)),
         (\A s \in P2 \cup S2 : s.o.level # "note") => P2 = P /\ S2 = S,
         S # {} => S2 # {}
  PROVE  ExposureLevel(rule, P2, S2).level \in {ExposureLevel(rule, P, S).level, "note"}
<1> DEFINE found  == FoundOf(P \cup S)
           found2 == FoundOf(P2 \cup S2)
           o  == ExposureLevel(rule, P, S)
           o2 == ExposureLevel(rule, P2, S2)
<1>1. ~Leads(0)  BY DEF Leads
<1>2. found2 \subseteq found  BY DEF FoundOf, Raised
<1>3. Unnamed(rule, S) => Unnamed(rule, S2)  BY <1>1 DEF Unnamed, Raised
<1>4. CASE found2 = {}
  <2>1. CASE \E s \in P2 \cup S2 : s.o.level = "note"
    BY <1>4, <2>1, ExposureShape
  <2>2. CASE \A s \in P2 \cup S2 : s.o.level # "note"
    <3>1. P2 = P /\ S2 = S  BY <2>2
    <3>2. QED  BY <3>1
  <2>3. QED  BY <2>1, <2>2
<1>5. CASE found2 # {}
  <2>1. o2.level = IF Unnamed(rule, S2) THEN "note" ELSE "review"
    BY <1>5, ExposureFoundLevel
  <2>2. o.level = IF Unnamed(rule, S) THEN "note" ELSE "review"
    BY <1>2, <1>5, ExposureFoundLevel
  <2>3. QED  BY <1>3, <2>1, <2>2
<1>6. QED  BY <1>4, <1>5

\* Limits that keep a unit at its level or make it a note.
LEMMA NotedLevels ==
  ASSUME NEW o, NEW o2, o2.level \in {o.level, "note"}
  PROVE  /\ Lowered(o2).level \in {Lowered(o).level, "note"}
         /\ AtMostNote(o2).level \in {AtMostNote(o).level, "note"}
         /\ \A u : InExamples(u, o2).level \in {InExamples(u, o).level, "note"}
BY AsLevel DEF Lowered, AtMostNote, InExamples

LEMMA ExposureConfirmed ==
  ASSUME NEW g, NEW g2, NEW D, Extends(g2, g, D), D \subseteq ConfirmQuestions,
         NEW rule \in Security
  PROVE  ExposureOutcome(rule, g2).level \in {ExposureOutcome(rule, g).level, "note"}
<1>1. \A q \in Presence[rule] \cup Checks[rule] :
        (q \in DOMAIN g2 <=> q \in DOMAIN g) /\ (q \in DOMAIN g => g2[q] = g[q])
  BY ExposureKeeps
<1>2. CASE ~(Presence[rule] \subseteq DOMAIN g)
  <2>1. ~(Presence[rule] \subseteq DOMAIN g2)  BY <1>1, <1>2
  <2>2. QED  BY <1>2, <2>1, ExposureOutcomeShape
<1>3. CASE Presence[rule] \subseteq DOMAIN g
  <2>1. Presence[rule] \subseteq DOMAIN g2  BY <1>1, <1>3
  <2> DEFINE shows(h, q) == PresenceSignal(Judge(rule, h, q), rule, h, q)
             names(h, q) == CheckSignal(Judge(rule, h, q), rule, h, q)
             asked == Checks[rule] \cap DOMAIN g
             noted(x) == x.o.level = "note" /\ (rule = Settings => x.lean = 0)
             P == PresenceSignals(rule, g)
             P2 == PresenceSignals(rule, g2)
             S == CheckSignals(rule, g)
             S2 == CheckSignals(rule, g2)
             level(h) == ExposureLevel(rule, PresenceSignals(rule, h), CheckSignals(rule, h))
  <2>2. Checks[rule] \cap DOMAIN g2 = asked  BY <1>1
  <2>3. /\ P = {shows(g, q) : q \in Presence[rule]} /\ P2 = {shows(g2, q) : q \in Presence[rule]}
        /\ S = {names(g, q) : q \in asked} /\ S2 = {names(g2, q) : q \in asked}
    BY <2>2 DEF PresenceSignals, CheckSignals
  <2>4. \A q \in Presence[rule] : shows(g2, q) = shows(g, q) \/ noted(shows(g2, q))
    <3>1. SUFFICES ASSUME NEW q \in Presence[rule]
                   PROVE  shows(g2, q) = shows(g, q) \/ noted(shows(g2, q))
      OBVIOUS
    <3>2. q \in (Presence[rule] \cup Checks[rule]) \cap DOMAIN g  BY <1>3
    <3>3. QED  BY <3>2, SignalConfirmed
  <2>5. \A q \in asked : names(g2, q) = names(g, q) \/ noted(names(g2, q))
    <3>1. SUFFICES ASSUME NEW q \in asked
                   PROVE  names(g2, q) = names(g, q) \/ noted(names(g2, q))
      OBVIOUS
    <3>2. q \in (Presence[rule] \cup Checks[rule]) \cap DOMAIN g  OBVIOUS
    <3>3. QED  BY <3>2, SignalConfirmed
  <2>6. /\ \A s \in P2 \cup S2 : Raised(s.o) => s.o.level = "review"
        /\ \A s \in P \cup S : Raised(s.o) => s.o.level = "review"
    BY SignalFound
  <2> HIDE DEF P, P2, S, S2, shows, names, asked
  <2>7. /\ \A s \in P2 : s \in P \/ noted(s)
        /\ \A s \in S2 : s \in S \/ noted(s)
    BY <2>3, <2>4, <2>5
  <2>8. (\A s \in P2 \cup S2 : s.o.level # "note") => P2 = P /\ S2 = S
    <3>1. SUFFICES ASSUME \A s \in P2 \cup S2 : s.o.level # "note" PROVE P2 = P /\ S2 = S
      OBVIOUS
    <3>2. \A q \in Presence[rule] : shows(g2, q) = shows(g, q)  BY <2>3, <2>4, <3>1
    <3>3. \A q \in asked : names(g2, q) = names(g, q)  BY <2>3, <2>5, <3>1
    <3>4. QED  BY <2>3, <3>2, <3>3
  <2>9. S # {} => S2 # {}  BY <2>3
  <2>10. ExposureLevel(rule, P2, S2).level \in {ExposureLevel(rule, P, S).level, "note"}
    BY <2>6, <2>7, <2>8, <2>9, ExposureConfirmedLevel
  <2>11. level(g2).level \in {level(g).level, "note"}  BY <2>10 DEF P, P2, S, S2
  <2>12. /\ ExposureOutcome(rule, g)  = InDevelopment(level(g), g)
         /\ ExposureOutcome(rule, g2) = InDevelopment(level(g2), g2)
    BY <1>3, <2>1, ExposureOutcomeShape
  <2>13. Says(g2, "dev_only", "review") <=> Says(g, "dev_only", "review")  BY ExposureKeeps
  <2> HIDE DEF level
  <2>14. QED  BY <2>11, <2>12, <2>13, NotedLevels DEF InDevelopment
<1>4. QED  BY <1>2, <1>3
-----------------------------------------------------------------------------
(* A late answer of a security unit.                                       *)

LEMMA SecurityRules ==
  ASSUME NEW u, NEW g
  PROVE  /\ u.rule = Injected => RuleOutcome(u, g) = InjectionOutcome(g)
         /\ u.rule = Sensitive =>
              RuleOutcome(u, g) = IF "handler" \in u.is
                                  THEN Needs(g, {"handler_leaks"}, Noul(g["handler_leaks"]))
                                  ELSE ExposureOutcome(Sensitive, g)
         /\ u.rule = Settings =>
              RuleOutcome(u, g) = SettingsOutcome(u.is, ExposureOutcome(Settings, g), g)
BY DEF RuleOutcome, LookRules, Injected, Sensitive, Settings

LEMMA HandlerKept ==
  ASSUME NEW g, NEW g2, NEW D, Extends(g2, g, D),
         D \subseteq ConfirmQuestions \/ D \subseteq SettleQuestions
  PROVE  Needs(g2, {"handler_leaks"}, Noul(g2["handler_leaks"])) =
           Needs(g, {"handler_leaks"}, Noul(g["handler_leaks"]))
<1>1. "handler_leaks" \notin D  BY SecurityQuestions
<1>2. QED  BY <1>1, ExtendsKeeps DEF Needs

LEMMA SettingsNoted ==
  ASSUME NEW is, NEW o, NEW o2, NEW g, NEW g2, o2.level \in {o.level, "note"},
         Says(g2, "dev_only", "review") <=> Says(g, "dev_only", "review"),
         FoundAmong(g2, Checks[Settings]) <=> FoundAmong(g, Checks[Settings])
  PROVE  SettingsOutcome(is, o2, g2).level \in {SettingsOutcome(is, o, g).level, "note"}
<1>1. DjangoOutcome(o2, g2).level \in {DjangoOutcome(o, g).level, "note"}
  BY NotedLevels DEF DjangoOutcome
<1>2. InDevelopment(DjangoOutcome(o2, g2), g2).level
        \in {InDevelopment(DjangoOutcome(o, g), g).level, "note"}
  BY <1>1, NotedLevels DEF InDevelopment
<1>3. QED  BY <1>1, <1>2 DEF SettingsOutcome, SettingsModuleOutcome

LEMMA SecuritySettled ==
  ASSUME NEW u, NEW g, NEW g2, NEW D, Extends(g2, g, D), D \subseteq SettleQuestions,
         u.rule \in Security,
         u.rule = Injected => ~OutsideMarkup(g2, SettledChecks(Injected, g2))
  PROVE  Rank(UnitOutcome(u, g2)) <= Rank(UnitOutcome(u, g))
<1>1. Rank(RuleOutcome(u, g2)) <= Rank(RuleOutcome(u, g))
  <2>1. CASE u.rule = Injected
    BY <2>1, SecurityRules, InjectionSettled
  <2>2. CASE u.rule = Sensitive /\ "handler" \in u.is
    <3>1. RuleOutcome(u, g2) = RuleOutcome(u, g)  BY <2>2, SecurityRules, HandlerKept
    <3>2. QED  BY <3>1, RankLowers
  <2>3. CASE u.rule = Sensitive /\ "handler" \notin u.is
    <3>1. Sensitive \in Security  BY DEF Security
    <3>2. QED  BY <2>3, <3>1, SecurityRules, ExposureSettled
  <2>4. CASE u.rule = Settings
    <3>1. Settings \in Security  BY DEF Security
    <3>2. Rank(ExposureOutcome(Settings, g2)) <= Rank(ExposureOutcome(Settings, g))
      BY <3>1, ExposureSettled
    <3>3. /\ Says(g2, "dev_only", "review") <=> Says(g, "dev_only", "review")
          /\ FoundAmong(g2, Checks[Settings]) <=> FoundAmong(g, Checks[Settings])
      BY <3>1, ExposureKeeps
    <3>4. Rank(SettingsOutcome(u.is, ExposureOutcome(Settings, g2), g2))
            <= Rank(SettingsOutcome(u.is, ExposureOutcome(Settings, g), g))
      BY <3>2, <3>3, SettingsRank
    <3>5. QED  BY <2>4, <3>4, SecurityRules
  <2>5. QED  BY <2>1, <2>2, <2>3, <2>4 DEF Security
<1>2. QED  BY <1>1, RankLowers DEF UnitOutcome

LEMMA SecurityConfirmed ==
  ASSUME NEW u, NEW g, NEW g2, NEW D, Extends(g2, g, D), D \subseteq ConfirmQuestions,
         u.rule \in Security
  PROVE  UnitOutcome(u, g2).level \in {UnitOutcome(u, g).level, "note"}
<1>1. RuleOutcome(u, g2).level \in {RuleOutcome(u, g).level, "note"}
  <2>1. CASE u.rule = Injected
    BY <2>1, SecurityRules, InjectionConfirmed
  <2>2. CASE u.rule = Sensitive /\ "handler" \in u.is
    BY <2>2, SecurityRules, HandlerKept
  <2>3. CASE u.rule = Sensitive /\ "handler" \notin u.is
    <3>1. Sensitive \in Security  BY DEF Security
    <3>2. QED  BY <2>3, <3>1, SecurityRules, ExposureConfirmed
  <2>4. CASE u.rule = Settings
    <3>1. Settings \in Security  BY DEF Security
    <3>2. ExposureOutcome(Settings, g2).level \in {ExposureOutcome(Settings, g).level, "note"}
      BY <3>1, ExposureConfirmed
    <3>3. /\ Says(g2, "dev_only", "review") <=> Says(g, "dev_only", "review")
          /\ FoundAmong(g2, Checks[Settings]) <=> FoundAmong(g, Checks[Settings])
      BY <3>1, ExposureKeeps
    <3>4. QED  BY <2>4, <3>2, <3>3, SettingsNoted, SecurityRules
  <2>5. QED  BY <2>1, <2>2, <2>3, <2>4 DEF Security
<1>2. QED  BY <1>1, NotedLevels DEF UnitOutcome

\* The answers of the first three passes, a recheck in place of a trace
\* unless only the traced answer decides.
LEMMA SecurityCore ==
  ASSUME NEW j
  PROVE  \E core : /\ DOMAIN core \subseteq
                        DOMAIN j["first"] \cup DOMAIN j["trace"] \cup DOMAIN j["recheck"]
                   /\ \A k : /\ k["first"] = j["first"] /\ k["trace"] = j["trace"]
                             /\ k["recheck"] = j["recheck"]
                             => SecurityAnswers(k) = With(With(core, k["settle"]), k["locate"])
<1> DEFINE says(q, a) == IF q = "origin" THEN Origin(a) ELSE Noul(a)
           traced == With(j["first"], j["trace"])
           again == {q \in DOMAIN j["recheck"] :
                       \/ q \notin DOMAIN traced
                       \/ Decisive(says(q, j["recheck"][q]))
                       \/ ~Decisive(says(q, traced[q]))}
           taken == [q \in again |-> j["recheck"][q]]
           core == With(traced, taken)
<1>1. DOMAIN core = DOMAIN traced \cup again
  <2>1. DOMAIN taken = again  OBVIOUS
  <2> HIDE DEF taken, again, traced
  <2>2. DOMAIN core = DOMAIN traced \cup DOMAIN taken  BY WithDomain
  <2>3. QED  BY <2>1, <2>2
<1>2. DOMAIN traced = DOMAIN j["first"] \cup DOMAIN j["trace"]  BY WithDomain
<1>3. \A k : /\ k["first"] = j["first"] /\ k["trace"] = j["trace"] /\ k["recheck"] = j["recheck"]
             => SecurityAnswers(k) = With(With(core, k["settle"]), k["locate"])
  BY DEF SecurityAnswers, Replaced
<1>4. again \subseteq DOMAIN j["recheck"]  OBVIOUS
<1> HIDE DEF core, again
<1>5. QED  BY <1>1, <1>2, <1>3, <1>4

\* What the answer of a late follow-up adds to the answers of its unit.
LEMMA SecurityExtends ==
  ASSUME Inv, Next, NEW u \in plan.units, u.rule \in Security, phase \in {5, 7},
         NEW name \in DOMAIN u.asks, NEW a \in u.asks[name], Takes(u, name, a)
  PROVE  /\ Extends(SecurityAnswers(judged'[u.id]), SecurityAnswers(J(u)), DOMAIN a)
         /\ phase = 5 => DOMAIN a = {name} /\ name \in SettleChoices
                         /\ DOMAIN a \subseteq SettleQuestions
         /\ phase = 7 => DOMAIN a \subseteq ConfirmQuestions
<1> DEFINE j == J(u)
           k == judged'[u.id]
<1>1. /\ phase = 5 => name \in SettleChoices
      /\ phase = 7 => name \in DOMAIN Confirms
  BY DEF Takes, Fresh
<1>2. name \in Late /\ LateStage(name) = phase
  BY <1>1, NamesApart, ConfirmNames, SettleNames DEF LateStage
<1>3. /\ DOMAIN a \subseteq LateAsks(name) /\ DOMAIN a # {}
      /\ \A p \in Passes : LateAsks(name) \cap DOMAIN j[p] = {}
  BY <1>2, LateAnswer DEF Takes
<1>4. /\ phase = 5 => DOMAIN a = {name} /\ DOMAIN a \subseteq SettleQuestions
      /\ phase = 7 => DOMAIN a \subseteq ConfirmQuestions
  <2>1. CASE phase = 5
    <3>1. LateAsks(name) = {name} /\ name \in SettleQuestions  BY <1>1, <2>1, SettleNames
    <3>2. DOMAIN a \subseteq {name} /\ DOMAIN a # {}  BY <1>3, <3>1
    <3>3. DOMAIN a = {name}  BY <3>2
    <3>4. QED  BY <2>1, <3>1, <3>3
  <2>2. CASE phase = 7
    <3>1. LateAsks(name) \subseteq ConfirmQuestions  BY <1>1, <2>2, ConfirmNames
    <3>2. QED  BY <1>3, <2>2, <3>1
  <2>3. QED  BY <2>1, <2>2
<1>5. \A p \in Passes : DOMAIN a \cap DOMAIN j[p] = {}  BY <1>3
<1>6. k["first"] = j["first"] /\ k["trace"] = j["trace"] /\ k["recheck"] = j["recheck"]
  BY PassNames DEF Takes, Passes
<1>7. /\ phase = 5 => k["settle"] = With(j["settle"], a) /\ k["locate"] = j["locate"]
      /\ phase = 7 => k["locate"] = With(j["locate"], a) /\ k["settle"] = j["settle"]
  BY PassNames DEF Takes, Passes
<1> HIDE DEF j, k
<1>8. PICK core : /\ DOMAIN core \subseteq
                       DOMAIN j["first"] \cup DOMAIN j["trace"] \cup DOMAIN j["recheck"]
                  /\ SecurityAnswers(j) = With(With(core, j["settle"]), j["locate"])
                  /\ SecurityAnswers(k) = With(With(core, k["settle"]), k["locate"])
  BY <1>6, SecurityCore
<1>9. DOMAIN a \cap DOMAIN core = {}  BY <1>5, <1>8 DEF Passes
<1>10. Extends(SecurityAnswers(k), SecurityAnswers(j), DOMAIN a)
  <2>1. CASE phase = 5
    <3>1. Extends(With(core, k["settle"]), With(core, j["settle"]), DOMAIN a)
      BY <1>5, <1>7, <1>9, <2>1, WithExtends DEF Passes
    <3>2. DOMAIN a \cap DOMAIN j["locate"] = {}  BY <1>5 DEF Passes
    <3>3. QED  BY <1>7, <1>8, <2>1, <3>1, <3>2, ExtendsBase
  <2>2. CASE phase = 7
    <3> DEFINE x == With(core, j["settle"])
    <3>1. DOMAIN x = DOMAIN core \cup DOMAIN j["settle"]  BY WithDomain
    <3>2. DOMAIN a \cap DOMAIN x = {} /\ DOMAIN a \cap DOMAIN j["locate"] = {}
      BY <1>5, <1>9, <3>1 DEF Passes
    <3>3. k["locate"] = With(j["locate"], a)  BY <1>7, <2>2
    <3>4. SecurityAnswers(k) = With(x, k["locate"]) /\ SecurityAnswers(j) = With(x, j["locate"])
      BY <1>7, <1>8, <2>2
    <3> HIDE DEF x
    <3>5. QED  BY <3>2, <3>3, <3>4, WithExtends
  <2>3. QED  BY <2>1, <2>2
<1>11. QED  BY <1>1, <1>4, <1>10 DEF j, k

\* Outside the tests a unit resolves to what its merged answers say.
LEMMA SecurityResolved ==
  ASSUME NEW u, NEW j, u.rule \in Security
  PROVE  Severity(Resolved(u, j)) = Rank(UnitOutcome(u, SecurityAnswers(j)))
<1>1. u.rule # "test_value"  BY DEF Security, Injected, Sensitive, Settings
<1>2. Resolved(u, j).outcome = UnitOutcome(u, SecurityAnswers(j))
  BY <1>1, ResolvedOutcome, MergedSecurity
<1>3. QED  BY <1>2, RankSeverity

LEMMA LateSecurityLowers ==
  ASSUME Inv, Next, NEW u \in plan.units, u.rule \in Security, phase \in {5, 7},
         NEW name \in DOMAIN u.asks, NEW a \in u.asks[name], Takes(u, name, a),
         u.rule = Injected =>
           ~OutsideMarkup(SecurityAnswers(judged'[u.id]),
                          SettledChecks(Injected, SecurityAnswers(judged'[u.id])))
  PROVE  Severity(Resolved(u, judged'[u.id])) <= Severity(Resolved(u, J(u)))
<1> DEFINE g == SecurityAnswers(J(u))
           g2 == SecurityAnswers(judged'[u.id])
<1>1. /\ Extends(g2, g, DOMAIN a)
      /\ phase = 5 => DOMAIN a \subseteq SettleQuestions
      /\ phase = 7 => DOMAIN a \subseteq ConfirmQuestions
  BY SecurityExtends
<1>2. /\ Severity(Resolved(u, judged'[u.id])) = Rank(UnitOutcome(u, g2))
      /\ Severity(Resolved(u, J(u))) = Rank(UnitOutcome(u, g))
  BY SecurityResolved
<1>3. u.rule = Injected => ~OutsideMarkup(g2, SettledChecks(Injected, g2))  OBVIOUS
<1> HIDE DEF g, g2
<1>4. CASE phase = 5
  BY <1>1, <1>2, <1>3, <1>4, SecuritySettled
<1>5. CASE phase = 7
  <2>1. UnitOutcome(u, g2).level \in {UnitOutcome(u, g).level, "note"}
    BY <1>1, <1>5, SecurityConfirmed
  <2>2. QED  BY <1>2, <2>1, RankLowers
<1>6. QED  BY <1>4, <1>5

LEMMA SeverityInt == ASSUME NEW r PROVE Severity(r) <= Severity(r)
BY DEF Severity

LEMMA LateLowersStep ==
  ASSUME Inv, Next, NEW u \in plan.units,
         Stages[phase] \in {"settles", "locates"}, phase' = phase,
         u.rule = Injected =>
           LET g == SecurityAnswers(judged'[u.id])
           IN ~OutsideMarkup(g, SettledChecks(Injected, g))
  PROVE  Severity(Resolved(u, judged'[u.id])) <= Severity(Resolved(u, J(u)))
<1>1. CASE judged'[u.id] = J(u)  BY <1>1, SeverityInt
<1>2. CASE judged'[u.id] # J(u)
  <2>1. Answered  BY <1>2, OthersKeepAnswers DEF J
  <2>2. phase \in 1..8 /\ phase # 1  BY StageNames DEF Inv, Typed
  <2>3. PICK name \in DOMAIN u.asks : \E a \in u.asks[name] : Takes(u, name, a)
    BY <1>2, <2>1, <2>2, FollowUpAnswered DEF Inv
  <2>4. PICK a \in u.asks[name] : Takes(u, name, a)  BY <2>3
  <2>5. Fresh(phase, u, name, J(u))  BY <2>4 DEF Takes
  <2>6. phase \in {5, 7}
    <3>1. phase # 8  BY <2>5 DEF Fresh
    <3>2. QED  BY <2>2, <3>1, StageNames
  <2>7. CASE u.rule \in Security
    BY <2>4, <2>6, <2>7, LateSecurityLowers
  <2>8. CASE u.rule \notin Security
    <3>1. phase = 7  BY <2>5, <2>6, <2>8 DEF Fresh
    <3>2. QED  BY <2>4, <2>8, <3>1, ConfirmLowers
  <2>9. QED  BY <2>7, <2>8
<1>3. QED  BY <1>1, <1>2

\* A settle or confirm answer never raises a unit (LateAsksOnlyLower).
THEOREM LateAsksLower == Spec => LateAsksOnlyLower
<1>1. Inv /\ [Next]_vars =>
        [\A u \in plan.units :
           /\ Stages[phase] \in {"settles", "locates"} /\ phase' = phase
           /\ u.rule = Injected =>
                LET g == SecurityAnswers(judged'[u.id])
                IN ~OutsideMarkup(g, SettledChecks(Injected, g))
           => Severity(Resolved(u, judged'[u.id])) <= Severity(Resolved(u, J(u)))]_vars
  BY LateLowersStep
<1>2. QED  BY <1>1, StagesInOrder, PTL DEF Spec, LateAsksOnlyLower
-----------------------------------------------------------------------------
(* No follow-up is left due.                                               *)

\* A settle Choice a unit's stage still owes it: one asked whenever its check
\* is not clear, and until the first settle is answered, the others due.
OwesSettle(u, j, name) ==
  LET g == SecurityAnswers(j)
      level == Resolved(u, j).outcome.level
  IN /\ u.rule \in Security /\ Asked(j, "trace") /\ name \notin DOMAIN g
     /\ \E s \in Settles :
          /\ s.rule = u.rule /\ s.question = name
          /\ \E c \in s.checks \cap DOMAIN g :
               IF s.when = "not_clear"
               THEN Noul(g[c]) # Clear /\ (level # "note" \/ Asked(j, "settle"))
               ELSE /\ ~Asked(j, "settle") /\ Noul(g[c]).level = "uncertain"
                    /\ \/ level = "uncertain"
                       \/ level = "consider" /\ s.when = "undecided_or_finding"

\* What stage `n` owes a unit of judgments `j`, files of `finished` plans.
Owes(n, u, j, finished, name) ==
  CASE n = 2 -> /\ name = "check" /\ DocCheck(u) /\ ~Asked(j, "trace")
                /\ {u.file, u.other} \cap finished = {}
    [] n = 3 -> name = "trace" /\ Untraced(u, j)
    [] n = 4 -> name = "recheck" /\ Unclear(u, j)
    [] n = 5 -> OwesSettle(u, j, name)
    [] n = 6 -> name = "kind" /\ Unkinded(u, j, Resolved(u, j))
    [] n = 7 -> name \in LocatesDue(u, j, Resolved(u, j))

\* A stage's due follow-ups are those it owes, before its first answer.
LEMMA DueOwed ==
  ASSUME NEW n \in 2..7, NEW u \in plan.units, NEW name,
         n = 5 => ~Asked(J(u), "settle"),
         Owes(n, u, J(u), FinishedPlans(Resolution), name)
  PROVE  name \in DueNames(Stages[n], u, Resolution)
<1>1. Resolution[u] = Resolved(u, J(u))  BY DEF Resolution
<1>2. CASE n = 2  BY <1>2, StageNames DEF Owes, DueNames, DocCheckDue
<1>3. CASE n = 3  BY <1>3, StageNames DEF Owes, DueNames
<1>4. CASE n = 4  BY <1>4, StageNames DEF Owes, DueNames
<1>5. CASE n = 5
  <2> DEFINE g == SecurityAnswers(J(u))
             r == Resolved(u, J(u))
  <2>1. r.answers = g
    <3>1. u.rule \in Security  BY <1>5 DEF Owes, OwesSettle
    <3>2. QED  BY <3>1, ResolvedOutcome, MergedSecurity
  <2>2. /\ u.rule \in Security /\ Asked(J(u), "trace") /\ name \notin DOMAIN g
        /\ \E s \in Settles :
             /\ s.rule = u.rule /\ s.question = name
             /\ \E c \in s.checks \cap DOMAIN g :
                  IF s.when = "not_clear" THEN Noul(g[c]) # Clear /\ r.outcome.level # "note"
                  ELSE /\ Noul(g[c]).level = "uncertain"
                       /\ \/ r.outcome.level = "uncertain"
                          \/ r.outcome.level = "consider" /\ s.when = "undecided_or_finding"
    BY <1>5 DEF Owes, OwesSettle
  <2>3. DueNames("settles", u, Resolution) = Unsettled(u, J(u), r)
    BY <1>1 DEF DueNames
  <2> HIDE DEF g, r
  <2>4. r.outcome.level # "note"  BY <2>2
  <2>5. name \in Unsettled(u, J(u), r)  BY <2>1, <2>2, <2>4 DEF Unsettled
  <2>6. QED  BY <1>5, <2>3, <2>5, StageNames
<1>6. CASE n = 6  BY <1>1, <1>6, StageNames DEF Owes, DueNames
<1>7. CASE n = 7  BY <1>1, <1>7, StageNames DEF Owes, DueNames
<1>8. QED  BY <1>2, <1>3, <1>4, <1>5, <1>6, <1>7

\* What is due at any time is owed, or a settle left by an undecided unit.
LEMMA DueOwedOrLate ==
  ASSUME NEW n \in 2..7, NEW u \in plan.units, NEW name \in DOMAIN u.asks,
         name \in DueNames(Stages[n], u, Resolution)
  PROVE  \/ Owes(n, u, J(u), FinishedPlans(Resolution), name)
         \/ LateSettle(u, FollowUp(Stages[n], u, name))
<1>1. Resolution[u] = Resolved(u, J(u))  BY DEF Resolution
<1>2. CASE n = 2  BY <1>2, StageNames DEF Owes, DueNames, DocCheckDue
<1>3. CASE n = 3  BY <1>3, StageNames DEF Owes, DueNames
<1>4. CASE n = 4  BY <1>4, StageNames DEF Owes, DueNames
<1>5. CASE n = 5
  <2> DEFINE g == SecurityAnswers(J(u))
             r == Resolved(u, J(u))
  <2>1. name \in Unsettled(u, J(u), r)  BY <1>1, <1>5, StageNames DEF DueNames
  <2>2. r.answers = g
    <3>1. u.rule \in Security  BY <2>1 DEF Unsettled
    <3>2. QED  BY <3>1, ResolvedOutcome, MergedSecurity
  <2> HIDE DEF g, r
  <2>3. /\ u.rule \in Security /\ Asked(J(u), "trace") /\ r.outcome.level # "note"
        /\ \E s \in Settles :
             /\ s.rule = u.rule /\ s.question = name /\ name \notin DOMAIN g
             /\ \E c \in s.checks \cap DOMAIN g :
                  IF s.when = "not_clear" THEN Noul(g[c]) # Clear
                  ELSE /\ Noul(g[c]).level = "uncertain"
                       /\ \/ r.outcome.level = "uncertain"
                          \/ r.outcome.level = "consider" /\ s.when = "undecided_or_finding"
    BY <2>1, <2>2 DEF Unsettled
  <2>4. PICK s \in Settles :
          /\ s.rule = u.rule /\ s.question = name /\ name \notin DOMAIN g
          /\ \E c \in s.checks \cap DOMAIN g :
               IF s.when = "not_clear" THEN Noul(g[c]) # Clear
               ELSE /\ Noul(g[c]).level = "uncertain"
                    /\ \/ r.outcome.level = "uncertain"
                       \/ r.outcome.level = "consider" /\ s.when = "undecided_or_finding"
    BY <2>3
  <2>5. CASE s.when = "not_clear" \/ ~Asked(J(u), "settle")
    <3>1. OwesSettle(u, J(u), name)  BY <2>3, <2>4, <2>5 DEF OwesSettle, g, r
    <3>2. QED  BY <1>5, <3>1 DEF Owes
  <2>6. CASE s.when # "not_clear" /\ Asked(J(u), "settle")
    <3>1. FollowUp(Stages[5], u, name).pass = "settle"  BY FollowUpFields, PassNames
    <3>2. FollowUp(Stages[5], u, name).asks[u.id] = u.asks[name]  BY FollowUpFields
    <3>3. LateSettle(u, FollowUp(Stages[5], u, name))
      BY <2>4, <2>6, <3>1, <3>2 DEF LateSettle
    <3>4. QED  BY <1>5, <3>3
  <2>7. QED  BY <2>5, <2>6
<1>6. CASE n = 6  BY <1>1, <1>6, StageNames DEF Owes, DueNames
<1>7. CASE n = 7  BY <1>1, <1>7, StageNames DEF Owes, DueNames
<1>8. QED  BY <1>2, <1>3, <1>4, <1>5, <1>6, <1>7

\* The plans of the finished files are asked in the first pass alone.
LEMMA FinishedKept ==
  ASSUME Inv, Next \/ UNCHANGED vars, phase > 1
  PROVE  FinishedPlans(Resolution)' = FinishedPlans(Resolution)
<1>1. plan' = plan
  BY DEF Next, Advance, Answered, Failed, Refused, Compose, vars
<1>2. Inv'  BY InvStep
<1>3. ASSUME NEW u \in plan.units, "plan" \in u.is
      PROVE  Resolved(u, judged'[u.id]).outcome = Resolved(u, J(u)).outcome
  <2>1. u.rule = "stale" /\ ~DocCheck(u)
    BY <1>3, Planned DEF Inv, WellPlanned, DocCheck
  <2>2. u.rule \notin Security  BY <2>1 DEF Security, Injected, Sensitive, Settings
  <2>3. TimelyUnit(phase, u, J(u)) /\ TimelyUnit(phase', u, judged'[u.id])
    BY <1>1, <1>2 DEF Inv, Timely, J
  <2>4. /\ ~Asked(J(u), "trace") /\ ~Asked(J(u), "settle")
        /\ ~Asked(judged'[u.id], "trace") /\ ~Asked(judged'[u.id], "settle")
    BY <2>1, <2>2, <2>3 DEF TimelyUnit
  <2>5. judged'[u.id]["first"] = J(u)["first"]
    <3>1. CASE judged'[u.id] = J(u)  BY <3>1
    <3>2. CASE judged'[u.id] # J(u)
      <4>1. Answered  BY <3>2, OthersKeepAnswers DEF J
      <4>2. PICK name \in DOMAIN u.asks : \E a \in u.asks[name] : Takes(u, name, a)
        BY <3>2, <4>1, FollowUpAnswered DEF Inv
      <4>3. phase \in 2..7  BY <4>2 DEF Takes, Fresh, Inv, Typed
      <4>4. PassOf(Stages[phase], u) # "first"  BY <4>3, PassNames
      <4>5. QED  BY <4>2, <4>4 DEF Takes, Passes
    <3>3. QED  BY <3>1, <3>2
  <2>6. \A j : /\ IsFcn(j["first"]) /\ ~Asked(j, "trace") /\ ~Asked(j, "settle")
               => Merged(u, j) = j["first"]
    <3>1. ASSUME NEW j, IsFcn(j["first"]), DOMAIN j["trace"] = {}, DOMAIN j["settle"] = {}
          PROVE  Merged(u, j) = j["first"]
      <4>1. Merged(u, j) = With(With(j["first"], j["trace"]), j["settle"])
        BY <2>1, MergedBeside
      <4>2. With(j["first"], j["trace"]) = j["first"]  BY <3>1, WithNone
      <4>3. QED  BY <3>1, <4>1, <4>2, WithNone
    <3>2. QED  BY <3>1 DEF Asked
  <2>7. IsFcn(J(u)["first"]) /\ IsFcn(judged'[u.id]["first"])
    BY <1>1, <1>2, UnitIds DEF Inv, Typed, J, Passes, Ids, Units
  <2>8. Merged(u, judged'[u.id]) = Merged(u, J(u))  BY <2>4, <2>5, <2>6, <2>7
  <2>9. QED  BY <2>1, <2>8, ResolvedOutcome
<1>4. \A u \in plan.units : /\ Resolution[u] = Resolved(u, J(u))
                            /\ Resolution'[u] = Resolved(u, judged'[u.id])
  BY <1>1 DEF Resolution, J
<1>5. QED  BY <1>1, <1>3, <1>4 DEF FinishedPlans

\* The task of a live unit is applied to its judgments.
LEMMA TaskTaken ==
  ASSUME Inv, Answered, phase > 1, NEW u \in plan.units, u.file \notin failed,
         NEW name \in DOMAIN u.asks, Task = FollowUp(Stages[phase], u, name)
  PROVE  \E n \in DOMAIN u.asks : \E a \in u.asks[n] : Takes(u, n, a)
<1>1. DOMAIN Task.asks = {u.id} /\ Task.asks[u.id] = u.asks[name] /\ Task.file = u.file
  BY FollowUpFields
<1>2. Task \in pending  BY TaskPending DEF Answered
<1>3. PICK v \in plan.units : \E n \in DOMAIN v.asks :
         /\ Task = FollowUp(Stages[phase], v, n) /\ Fresh(phase, v, n, J(v))
         /\ DOMAIN Task.asks = {v.id} /\ Task.asks[v.id] = v.asks[n]
  BY TaskOf DEF Inv, Answered
<1>4. v = u  BY <1>1, <1>3, Planned DEF Inv, WellPlanned
<1>5. PICK n \in DOMAIN u.asks :
         /\ Task = FollowUp(Stages[phase], u, n) /\ Fresh(phase, u, n, J(u))
         /\ Task.asks[u.id] = u.asks[n]
  BY <1>3, <1>4
<1>6. PICK b \in [DOMAIN Task.asks -> UNION {Task.asks[k] : k \in DOMAIN Task.asks}] :
         /\ \A k \in DOMAIN b : b[k] \in Task.asks[k]
         /\ judged' = IF Task.file \in failed THEN judged
                      ELSE [k \in DOMAIN judged |->
                             IF k \in DOMAIN b
                             THEN [judged[k] EXCEPT ![Task.pass] = With(@, b[k])] ELSE judged[k]]
  BY DEF Answered
<1>7. DOMAIN b = {u.id}  BY <1>1, <1>6
<1>8. b[u.id] \in u.asks[n] /\ judged'[u.id] = Placed(u.id, b[u.id])
  BY <1>1, <1>5, <1>6, <1>7, UnitIds DEF Inv, Typed, Placed
<1>9. DOMAIN b[u.id] # {}  BY <1>8, Planned DEF Inv, WellPlanned
<1>10. Task.pass \in Passes /\ Task.pass = PassOf(Stages[phase], u)
  BY <1>2, TaskPass, FollowUpFields DEF Inv
<1>11. /\ judged'[u.id][Task.pass] = With(judged[u.id][Task.pass], b[u.id])
       /\ \A p \in Passes \ {Task.pass} : judged'[u.id][p] = judged[u.id][p]
  BY <1>8, <1>10, UnitIds, PlacedPasses DEF Inv
<1>12. Takes(u, n, b[u.id])
  BY <1>2, <1>5, <1>8, <1>9, <1>10, <1>11 DEF Takes, J
<1>13. QED  BY <1>8, <1>12

\* An origin that a settle or confirm leaves open was open before it.
LEMMA OriginKept ==
  ASSUME NEW u, NEW j, NEW k, NEW D, Extends(SecurityAnswers(k), SecurityAnswers(j), D),
         D \subseteq ConfirmQuestions \/ D \subseteq SettleQuestions,
         OriginUnsettled(u, k)
  PROVE  OriginUnsettled(u, j)
<1> DEFINE g == SecurityAnswers(j)
           g2 == SecurityAnswers(k)
<1>1. /\ u.rule = Injected /\ ~AllClear(SettledChecks(Injected, g2))
      /\ "origin" \in DOMAIN g2 /\ Origin(g2["origin"]).level \in {"uncertain", "consider"}
  BY DEF OriginUnsettled
<1>2. Extends(g2, g, D)  OBVIOUS
<1>3. OriginUnsettled(u, j) <=> /\ u.rule = Injected /\ ~AllClear(SettledChecks(Injected, g))
                                /\ "origin" \in DOMAIN g
                                /\ Origin(g["origin"]).level \in {"uncertain", "consider"}
  BY DEF OriginUnsettled
<1> HIDE DEF g, g2
<1>4. "origin" \notin D  BY SecurityQuestions
<1>5. "origin" \in DOMAIN g /\ g["origin"] = g2["origin"]  BY <1>1, <1>2, <1>4, ExtendsKeeps
<1>6. ~AllClear(SettledChecks(Injected, g))
  <2>1. \A c \in DOMAIN SettledChecks(Injected, g) :
          \/ SettledChecks(Injected, g2)[c] = SettledChecks(Injected, g)[c]
          \/ SettledChecks(Injected, g2)[c] = Clear
    BY <1>2, SettledChecksKept
  <2>2. DOMAIN SettledChecks(Injected, g2) = DOMAIN SettledChecks(Injected, g)
    BY <1>2, SettledChecksKept
  <2>3. QED  BY <1>1, <2>1, <2>2 DEF AllClear
<1>7. QED  BY <1>1, <1>3, <1>5, <1>6

LEMMA SettleChecksApart ==
  \A s \in Settles : \A c \in s.checks : c \notin ConfirmQuestions /\ c \notin SettleQuestions
BY DEF Settles, Settle, ConfirmQuestions, SettleQuestions

\* A settle owed after another follow-up's answer was owed before it, and is
\* not the one answered.
LEMMA SettleOwedBefore ==
  ASSUME Inv, Next, NEW u \in plan.units, u.rule \in Security, phase \in {5, 7},
         NEW name \in DOMAIN u.asks, NEW a \in u.asks[name], Takes(u, name, a),
         NEW due \in DOMAIN u.asks, OwesSettle(u, judged'[u.id], due)
  PROVE  OwesSettle(u, J(u), due) /\ (phase = 5 => due # name)
<1> DEFINE j == J(u)
           k == judged'[u.id]
           g == SecurityAnswers(j)
           g2 == SecurityAnswers(k)
           D == DOMAIN a
           level == Resolved(u, j).outcome.level
           level2 == Resolved(u, k).outcome.level
<1>1. /\ Extends(g2, g, D)
      /\ phase = 5 => D = {name} /\ D \subseteq SettleQuestions
      /\ phase = 7 => D \subseteq ConfirmQuestions
  BY SecurityExtends
<1>2. PassOf(Stages[phase], u) = IF phase = 5 THEN "settle" ELSE "locate"  BY PassNames
<1>3. /\ Asked(k, PassOf(Stages[phase], u))
      /\ \A p \in Passes \ {PassOf(Stages[phase], u)} : k[p] = j[p]
  BY TakenAsked DEF Takes
<1>4. /\ phase = 5 => Asked(k, "settle")
      /\ phase = 7 => (Asked(k, "settle") <=> Asked(j, "settle"))
      /\ Asked(k, "trace") <=> Asked(j, "trace")
  BY <1>2, <1>3 DEF Asked, Passes
<1>5. phase = 5 /\ level = "note" => Asked(j, "settle")  BY DEF Takes, Fresh
<1>6. phase = 7 => level2 \in {level, "note"}
  <2>1. \A x : Resolved(u, x).outcome = UnitOutcome(u, SecurityAnswers(x))
    <3>1. u.rule # "test_value"  BY DEF Security, Injected, Sensitive, Settings
    <3>2. QED  BY <3>1, ResolvedOutcome, MergedSecurity
  <2>2. CASE phase = 7
    <3>1. UnitOutcome(u, g2).level \in {UnitOutcome(u, g).level, "note"}
      BY <1>1, <2>2, SecurityConfirmed
    <3>2. QED  BY <2>1, <3>1
  <2>3. QED  BY <2>2
<1>7. /\ Asked(k, "trace") /\ due \notin DOMAIN g2
      /\ \E s \in Settles :
           /\ s.rule = u.rule /\ s.question = due
           /\ \E c \in s.checks \cap DOMAIN g2 :
                IF s.when = "not_clear"
                THEN Noul(g2[c]) # Clear /\ (level2 # "note" \/ Asked(k, "settle"))
                ELSE /\ ~Asked(k, "settle") /\ Noul(g2[c]).level = "uncertain"
                     /\ \/ level2 = "uncertain"
                        \/ level2 = "consider" /\ s.when = "undecided_or_finding"
  BY DEF OwesSettle
<1>8. PICK s \in Settles :
         /\ s.rule = u.rule /\ s.question = due
         /\ \E c \in s.checks \cap DOMAIN g2 :
              IF s.when = "not_clear"
              THEN Noul(g2[c]) # Clear /\ (level2 # "note" \/ Asked(k, "settle"))
              ELSE /\ ~Asked(k, "settle") /\ Noul(g2[c]).level = "uncertain"
                   /\ \/ level2 = "uncertain"
                      \/ level2 = "consider" /\ s.when = "undecided_or_finding"
  BY <1>7
<1>9. OwesSettle(u, j, due) <=>
        /\ u.rule \in Security /\ Asked(j, "trace") /\ due \notin DOMAIN g
        /\ \E x \in Settles :
             /\ x.rule = u.rule /\ x.question = due
             /\ \E c \in x.checks \cap DOMAIN g :
                  IF x.when = "not_clear"
                  THEN Noul(g[c]) # Clear /\ (level # "note" \/ Asked(j, "settle"))
                  ELSE /\ ~Asked(j, "settle") /\ Noul(g[c]).level = "uncertain"
                       /\ \/ level = "uncertain"
                          \/ level = "consider" /\ x.when = "undecided_or_finding"
  BY DEF OwesSettle
<1> HIDE DEF g, g2, D, level, level2, j, k
<1>10. \A c \in s.checks : c \notin D
  BY <1>1, SettleChecksApart
<1>11. \A c \in s.checks \cap DOMAIN g2 : c \in DOMAIN g /\ g2[c] = g[c]
  BY <1>1, <1>10 DEF Extends
<1>12. due \notin DOMAIN g /\ (phase = 5 => due # name)  BY <1>1, <1>7 DEF Extends
<1>13. \E c \in s.checks \cap DOMAIN g :
         IF s.when = "not_clear"
         THEN Noul(g[c]) # Clear /\ (level # "note" \/ Asked(j, "settle"))
         ELSE /\ ~Asked(j, "settle") /\ Noul(g[c]).level = "uncertain"
              /\ \/ level = "uncertain"
                 \/ level = "consider" /\ s.when = "undecided_or_finding"
  <2>1. PICK c \in s.checks \cap DOMAIN g2 :
          IF s.when = "not_clear"
          THEN Noul(g2[c]) # Clear /\ (level2 # "note" \/ Asked(k, "settle"))
          ELSE /\ ~Asked(k, "settle") /\ Noul(g2[c]).level = "uncertain"
               /\ \/ level2 = "uncertain"
                  \/ level2 = "consider" /\ s.when = "undecided_or_finding"
    BY <1>8
  <2>2. c \in DOMAIN g /\ g2[c] = g[c]  BY <1>11
  <2>3. CASE phase = 5  BY <1>4, <1>5, <2>1, <2>2, <2>3
  <2>4. CASE phase = 7  BY <1>4, <1>6, <2>1, <2>2, <2>4
  <2>5. QED  BY <2>3, <2>4
<1>14. OwesSettle(u, j, due)  BY <1>4, <1>7, <1>8, <1>9, <1>12, <1>13
<1>15. QED  BY <1>12, <1>14 DEF j

\* What a settle leaves to the name of its follow-up: the same answers.
LEMMA SettleTaskNamed ==
  ASSUME Inv, phase = 5, NEW u \in plan.units,
         NEW name \in DOMAIN u.asks, NEW a \in u.asks[name], Takes(u, name, a),
         NEW due \in DOMAIN u.asks, due \in SettleChoices, Task = FollowUp(Stages[phase], u, due)
  PROVE  due = name
<1>1. u.asks[due] = u.asks[name]
  <2>1. FollowUp(Stages[phase], u, due) = FollowUp(Stages[phase], u, name)  BY DEF Takes
  <2>2. \A n : FollowUp(Stages[phase], u, n).asks[u.id] = u.asks[n]  BY FollowUpFields
  <2>3. QED  BY <2>1, <2>2
<1>2. name \in SettleChoices /\ DOMAIN a # {}  BY DEF Takes, Fresh
<1>3. LateAsks(due) = {due} /\ LateAsks(name) = {name} /\ due \in Late /\ name \in Late
  BY <1>2, SettleNames
<1>4. DOMAIN a \subseteq LateAsks(due) /\ DOMAIN a \subseteq LateAsks(name)
  BY <1>1, <1>3, Planned DEF Inv, WellPlanned
<1>5. PICK q \in DOMAIN a : TRUE  BY <1>2
<1>6. q \in {due} /\ q \in {name}  BY <1>3, <1>4, <1>5
<1>7. QED  BY <1>6

\* A stage owes a unit after an answer only what it owed it before, and not
\* the follow-up just answered.
LEMMA OwedBefore ==
  ASSUME Inv, Next, phase > 1, NEW n \in 2..7, n <= phase, NEW u \in plan.units, NEW finished,
         NEW name \in DOMAIN u.asks, NEW a \in u.asks[name], Takes(u, name, a),
         NEW due \in DOMAIN u.asks, Owes(n, u, judged'[u.id], finished, due)
  PROVE  /\ Owes(n, u, J(u), finished, due)
         /\ n = phase => Task # FollowUp(Stages[n], u, due)
<1> DEFINE j == J(u)
           k == judged'[u.id]
           pass == PassOf(Stages[phase], u)
<1>1. /\ Asked(k, pass)
      /\ \A p \in Passes : Asked(j, p) => Asked(k, p)
      /\ \A p \in Passes \ {pass} : k[p] = j[p]
  BY TakenAsked DEF Takes
<1>2. Fresh(phase, u, name, j) /\ phase \in 2..7  BY DEF Takes, Fresh, Inv, Typed
<1>3. k["first"] = j["first"]
  BY <1>1, <1>2, PassNames DEF Passes
<1>4. phase = 6 => /\ u.rule \notin Security
                   /\ u.rule = "comment" \/ DocCheck(u) \/ u.rule = "large_doc"
  BY <1>2 DEF Fresh, Unkinded, DocCheck, Security, Injected, Sensitive, Settings
<1>5. CASE n = 2
  <2>1. Owes(2, u, j, finished, due)  BY <1>1, <1>5 DEF Owes, Passes
  <2>2. ~Asked(k, "trace")  BY <1>5 DEF Owes
  <2>3. phase # 2  BY <1>1, <2>2, PassNames
  <2>4. QED  BY <1>5, <2>1, <2>3
<1>6. CASE n = 3
  <2>1. Untraced(u, k) /\ due = "trace"  BY <1>6 DEF Owes
  <2>2. Untraced(u, j)  BY <1>1, <1>3, <2>1 DEF Untraced, Passes
  <2>3. ~Asked(k, "trace")  BY <2>1 DEF Untraced
  <2>4. phase # 3  BY <1>1, <2>3, PassNames
  <2>5. QED  BY <1>6, <2>1, <2>2, <2>4 DEF Owes
<1>7. CASE n = 4
  <2>1. Unclear(u, k) /\ due = "recheck"  BY <1>7 DEF Owes
  <2>2. ~Asked(k, "recheck") /\ ~Asked(j, "recheck")  BY <1>1, <2>1 DEF Unclear, Passes
  <2>3. phase # 4  BY <1>1, <2>2, PassNames
  <2>4. CASE u.rule \in Security
    <3>1. phase \in {5, 7}  BY <1>2, <1>4, <1>7, <2>3, <2>4
    <3>2. /\ Extends(SecurityAnswers(k), SecurityAnswers(j), DOMAIN a)
          /\ phase = 5 => DOMAIN a \subseteq SettleQuestions
          /\ phase = 7 => DOMAIN a \subseteq ConfirmQuestions
      BY <2>4, <3>1, SecurityExtends
    <3>3. OriginUnsettled(u, k)  BY <2>1, <2>4 DEF Unclear
    <3>4. OriginUnsettled(u, j)  BY <3>1, <3>2, <3>3, OriginKept
    <3>5. Unclear(u, j)  BY <2>2, <2>4, <3>4 DEF Unclear
    <3>6. QED  BY <1>7, <2>1, <2>3, <3>5 DEF Owes
  <2>5. CASE u.rule \notin Security
    <3>1. Unclear(u, j)  BY <1>3, <2>1, <2>2, <2>5 DEF Unclear
    <3>2. QED  BY <1>7, <2>1, <2>3, <3>1 DEF Owes
  <2>6. QED  BY <2>4, <2>5
<1>8. CASE n = 5
  <2>1. OwesSettle(u, k, due) /\ u.rule \in Security  BY <1>8 DEF Owes, OwesSettle
  <2>2. phase \in {5, 7}  BY <1>2, <1>4, <1>8, <2>1
  <2>3. OwesSettle(u, j, due) /\ (phase = 5 => due # name)
    BY <2>1, <2>2, SettleOwedBefore
  <2>4. due \in SettleChoices  BY <2>1 DEF OwesSettle, SettleChoices
  <2>5. phase = 5 => Task # FollowUp(Stages[phase], u, due)
    BY <2>3, <2>4, SettleTaskNamed
  <2>6. QED  BY <1>8, <2>3, <2>5 DEF Owes
<1>9. CASE n = 6
  <2>1. Unkinded(u, k, Resolved(u, k)) /\ due = "kind"  BY <1>9 DEF Owes
  <2>2. u.rule = "comment" \/ DocCheck(u) \/ u.rule = "large_doc"
    BY <2>1 DEF Unkinded
  <2>3. u.rule \notin Security \cup {"test_pair", "test_value"}
    BY <2>2 DEF DocCheck, Security, Injected, Sensitive, Settings
  <2>4. phase # 6
    <3>1. CASE u.rule = "large_doc"
      <4>1. ~Asked(k, "trace")  BY <2>1, <3>1 DEF Unkinded, UnkindedSplit, DocCheck
      <4>2. QED  BY <1>1, <3>1, <4>1, PassNames
    <3>2. CASE u.rule # "large_doc"
      <4>1. ~Asked(k, "settle")
        BY <2>1, <2>2, <3>2 DEF Unkinded, UnsettledComment, UnsettledCheck
      <4>2. QED  BY <1>1, <3>2, <4>1, PassNames
    <3>3. QED  BY <3>1, <3>2
  <2>5. phase = 7 /\ pass = "locate"  BY <1>2, <1>9, <2>4, PassNames
  <2>6. /\ k["first"] = j["first"] /\ k["trace"] = j["trace"]
        /\ k["recheck"] = j["recheck"] /\ k["settle"] = j["settle"]
    BY <1>1, <2>5 DEF Passes
  <2>7. Merged(u, k) = Merged(u, j)  BY <2>3, <2>6, MergedKept
  <2>8. Resolved(u, k).outcome = Resolved(u, j).outcome
    BY <2>3, <2>7, ResolvedOutcome
  <2>9. \A p \in {"first", "trace", "recheck", "settle"} : Asked(k, p) <=> Asked(j, p)
    BY <2>6 DEF Asked
  <2> HIDE DEF j, k
  <2>10. Unkinded(u, j, Resolved(u, j))
    BY <2>1, <2>6, <2>8, <2>9
    DEF Unkinded, UnsettledComment, UnsettledCheck, UnkindedSplit
  <2>11. QED  BY <1>9, <2>1, <2>4, <2>10 DEF Owes, j, k
<1>10. CASE n = 7
  <2>1. due \in LocatesDue(u, k, Resolved(u, k))  BY <1>10 DEF Owes
  <2>2. ~Asked(k, "locate")  BY <2>1 DEF LocatesDue
  <2>3. phase = 7  BY <1>2, <1>10
  <2>4. QED  BY <1>1, <2>2, <2>3, PassNames
<1>11. QED  BY <1>5, <1>6, <1>7, <1>8, <1>9, <1>10

\* Whatever a stage already asked still owes a judged unit of a file not in
\* error is in flight, or the provider refused it.
Live(u) == presence[u.id] = "judged" /\ u.file \notin failed
Held(n, u, name) == \/ FollowUp(Stages[n], u, name) \in refused
                    \/ n = phase /\ FollowUp(Stages[n], u, name) \in pending
OwedIsHeld ==
  \A n \in 2..7 : n <= phase =>
    \A u \in plan.units : Live(u) => \A name \in DOMAIN u.asks :
      Owes(n, u, J(u), FinishedPlans(Resolution), name) => Held(n, u, name)

LEMMA LiveBefore ==
  ASSUME Next, NEW u \in plan.units, Live(u)'
  PROVE  Live(u)
<1>1. u.id \in Units  BY DEF Units
<1>2. failed \subseteq failed'  BY DEF Next, Advance, Answered, Failed, Refused, Compose
<1>3. presence'[u.id] = "judged" => presence[u.id] = "judged"
  <2>1. CASE presence' = presence  BY <2>1
  <2>2. CASE Applied  BY <1>1, <2>2 DEF Applied
  <2>3. QED  BY <2>1, <2>2 DEF Next, Advance, Answered, Failed, Refused, Compose
<1>4. QED  BY <1>2, <1>3 DEF Live

\* The next stage asks all it owes.
LEMMA AdvanceAsks ==
  ASSUME Inv, Advance, NEW u \in plan.units, Live(u), NEW name \in DOMAIN u.asks,
         Owes(phase + 1, u, J(u), FinishedPlans(Resolution), name)
  PROVE  FollowUp(Stages[phase + 1], u, name) \in pending'
<1>1. phase \in 1..6 /\ phase + 1 \in 2..7  BY StageNames DEF Advance, Inv, Typed
<1>2. phase + 1 = 5 => ~Asked(J(u), "settle")
  <2>1. CASE phase + 1 = 5
    <3>0. Owes(5, u, J(u), FinishedPlans(Resolution), name)  BY <2>1
    <3>1. u.rule \in Security  BY <3>0 DEF Owes, OwesSettle
    <3>2. u.rule # "comment" /\ ~DocCheck(u)
      BY <3>1 DEF DocCheck, Security, Injected, Sensitive, Settings
    <3>3. TimelyUnit(phase, u, J(u))  BY DEF Inv, Timely
    <3>4. QED  BY <1>1, <2>1, <3>2, <3>3 DEF TimelyUnit
  <2>2. QED  BY <2>1
<1> DEFINE n == phase + 1
<1>3. Owes(n, u, J(u), FinishedPlans(Resolution), name) /\ n \in 2..7  BY <1>1
<1>4. n = 5 => ~Asked(J(u), "settle")  BY <1>2
<1>5. pending' = FollowUps(Stages[n], Resolution)  BY DEF Advance
<1> HIDE DEF n
<1>6. name \in DueNames(Stages[n], u, Resolution)  BY <1>3, <1>4, DueOwed
<1>7. FollowUp(Stages[n], u, name) \in DueOf(Stages[n], u, Resolution)  BY <1>6 DEF DueOf
<1>8. FollowUp(Stages[n], u, name) \in pending'  BY <1>5, <1>7 DEF FollowUps, Live
<1>9. QED  BY <1>8 DEF n

\* What a unit still owes after a step it owed before, unless the step asked.
LEMMA HeldStep ==
  ASSUME Inv, OwedIsHeld, Next, NEW n \in 2..7, n <= phase', NEW u \in plan.units, Live(u)',
         NEW name \in DOMAIN u.asks,
         Owes(n, u, judged'[u.id], FinishedPlans(Resolution), name)
  PROVE  \/ FollowUp(Stages[n], u, name) \in refused'
         \/ n = phase' /\ FollowUp(Stages[n], u, name) \in pending'
<1> DEFINE done == FinishedPlans(Resolution)
           ask == FollowUp(Stages[n], u, name)
<1>1. Live(u)  BY LiveBefore
<1>2. ASSUME n <= phase, Owes(n, u, J(u), done, name)
      PROVE  ask \in refused \/ (n = phase /\ ask \in pending)
  BY <1>1, <1>2 DEF OwedIsHeld, Held
<1>3. refused \subseteq refused'  BY DEF Next, Advance, Answered, Failed, Refused, Compose
<1>4. phase \in 1..8  BY DEF Inv, Typed
<1>5. Owes(n, u, judged'[u.id], done, name)  OBVIOUS
<1> HIDE DEF done, ask
<1>6. CASE Advance
  <2>1. judged' = judged /\ phase' = phase + 1 /\ pending = {}  BY <1>6 DEF Advance
  <2>2. Owes(n, u, J(u), done, name)  BY <1>5, <2>1 DEF J
  <2>3. CASE n <= phase  BY <1>2, <1>3, <2>1, <2>2, <2>3 DEF ask
  <2>4. CASE n = phase + 1
    <3>1. FollowUp(Stages[phase + 1], u, name) \in pending'
      BY <1>1, <1>6, <2>2, <2>4, AdvanceAsks DEF done
    <3>2. QED  BY <2>1, <2>4, <3>1
  <2>5. QED  BY <1>4, <2>1, <2>3, <2>4
<1>7. CASE Compose
  <2>1. judged' = judged /\ phase = 7 /\ pending = {}  BY <1>7, StageNames DEF Compose
  <2>2. Owes(n, u, J(u), done, name)  BY <1>5, <2>1 DEF J
  <2>3. QED  BY <1>2, <1>3, <2>1, <2>2 DEF ask
<1>8. CASE Answered \/ Failed \/ Refused
  <2>1. phase' = phase /\ pending' = pending \ {Task} /\ phase > 1
    BY <1>4, <1>8, ReceiptKeeps
  <2>2. /\ Owes(n, u, J(u), done, name)
        /\ (n = phase /\ Task = ask) => Refused
    <3>1. CASE judged'[u.id] = J(u) /\ (Answered => ~(n = phase /\ Task = ask))
      <4>1. Owes(n, u, J(u), done, name)  BY <1>5, <3>1
      <4>2. ASSUME Failed, Task = ask PROVE FALSE
        <5>1. Task.file = u.file  BY <4>2, FollowUpFields DEF ask
        <5>2. u.file \in failed'  BY <4>2, <5>1 DEF Failed
        <5>3. QED  BY <5>2 DEF Live
      <4>3. QED  BY <1>8, <3>1, <4>1, <4>2
    <3>2. CASE judged'[u.id] # J(u) \/ (Answered /\ n = phase /\ Task = ask)
      <4>1. Answered  BY <3>2, OthersKeepAnswers DEF J
      <4>2. \E m \in DOMAIN u.asks : \E a \in u.asks[m] : Takes(u, m, a)
        <5>1. CASE judged'[u.id] # J(u)  BY <2>1, <4>1, <5>1, FollowUpAnswered DEF Inv
        <5>2. CASE n = phase /\ Task = ask
          BY <1>1, <2>1, <4>1, <5>2, TaskTaken DEF ask, Live
        <5>3. QED  BY <3>2, <5>1, <5>2
      <4>3. PICK m \in DOMAIN u.asks : \E a \in u.asks[m] : Takes(u, m, a)  BY <4>2
      <4>4. PICK a \in u.asks[m] : Takes(u, m, a)  BY <4>3
      <4>5. /\ Owes(n, u, J(u), done, name)
            /\ n = phase => Task # FollowUp(Stages[n], u, name)
        BY <1>5, <2>1, <4>4, OwedBefore
      <4>6. QED  BY <4>5 DEF ask
    <3>3. QED  BY <3>1, <3>2
  <2>3. ask \in refused \/ (n = phase /\ ask \in pending)  BY <1>2, <2>1, <2>2
  <2>4. CASE ask \in refused  BY <1>3, <2>4 DEF ask
  <2>5. CASE n = phase /\ ask \in pending
    <3>1. CASE Task = ask
      <4>1. ask \in refused'  BY <2>2, <2>5, <3>1 DEF Refused
      <4>2. QED  BY <4>1 DEF ask
    <3>2. CASE Task # ask  BY <2>1, <2>5, <3>2 DEF ask
    <3>3. QED  BY <3>1, <3>2
  <2>6. QED  BY <2>3, <2>4, <2>5
<1>9. QED  BY <1>6, <1>7, <1>8 DEF Next

LEMMA OwedIsHeldStep ==
  ASSUME Inv, OwedIsHeld, [Next]_vars
  PROVE  OwedIsHeld'
<1>1. CASE UNCHANGED vars
  <2>1. /\ plan' = plan /\ phase' = phase /\ pending' = pending /\ judged' = judged
        /\ presence' = presence /\ failed' = failed /\ refused' = refused
    BY <1>1 DEF vars
  <2>2. Resolution' = Resolution  BY <2>1 DEF Resolution, J
  <2>3. FinishedPlans(Resolution)' = FinishedPlans(Resolution)  BY <2>1, <2>2 DEF FinishedPlans
  <2>4. QED  BY <2>1, <2>3 DEF OwedIsHeld, Live, Held, J
<1>2. CASE Next
  <2>1. plan' = plan /\ phase \in 1..8
    BY <1>2 DEF Next, Advance, Answered, Failed, Refused, Compose, Inv, Typed
  <2>2. ASSUME NEW n \in 2..7, n <= phase', NEW u \in plan.units, Live(u)',
               NEW name \in DOMAIN u.asks,
               Owes(n, u, judged'[u.id], FinishedPlans(Resolution)', name)
        PROVE  \/ FollowUp(Stages[n], u, name) \in refused'
               \/ n = phase' /\ FollowUp(Stages[n], u, name) \in pending'
    <3>1. CASE phase > 1
      <4>1. FinishedPlans(Resolution)' = FinishedPlans(Resolution)  BY <1>2, <3>1, FinishedKept
      <4>2. Owes(n, u, judged'[u.id], FinishedPlans(Resolution), name)  BY <2>2, <4>1
      <4>3. QED  BY <1>2, <2>2, <4>2, HeldStep
    <3>2. CASE phase = 1
      <4>1. Advance
        BY <1>2, <2>2, <3>2, StageNames DEF Next, Advance, Answered, Failed, Refused, Compose
      <4>2. judged' = judged  BY <4>1 DEF Advance
      <4>3. Resolution' = Resolution  BY <2>1, <4>2 DEF Resolution, J
      <4>4. FinishedPlans(Resolution)' = FinishedPlans(Resolution)
        BY <2>1, <4>3 DEF FinishedPlans
      <4>5. Owes(n, u, judged'[u.id], FinishedPlans(Resolution), name)  BY <2>2, <4>4
      <4>6. QED  BY <1>2, <2>2, <4>5, HeldStep
    <3>3. QED  BY <2>1, <3>1, <3>2
  <2>3. QED  BY <2>1, <2>2 DEF OwedIsHeld, Held, J
<1>3. QED  BY <1>1, <1>2

LEMMA HeldMeansNoneLeft ==
  ASSUME Inv, OwedIsHeld
  PROVE  NoneLeftDue
<1>1. SUFFICES ASSUME phase = Done, NEW u \in plan.units, presence[u.id] = "judged",
                      u.file \notin failed, NEW n \in 2..Composing,
                      NEW r \in DueOf(Stages[n], u, Resolution)
               PROVE  r \in refused \/ LateSettle(u, r)
  BY DEF NoneLeftDue
<1>2. n \in 2..7 /\ phase = 8  BY <1>1, StageNames
<1>3. PICK name \in DueNames(Stages[n], u, Resolution) \cap DOMAIN u.asks :
         r = FollowUp(Stages[n], u, name)
  BY DEF DueOf
<1>4. CASE Owes(n, u, J(u), FinishedPlans(Resolution), name)
  <2>1. Held(n, u, name)  BY <1>1, <1>2, <1>4 DEF OwedIsHeld, Live
  <2>2. QED  BY <1>2, <1>3, <2>1 DEF Held
<1>5. QED  BY <1>2, <1>3, <1>4, DueOwedOrLate

\* No judged unit is composed with a follow-up left that its answers call
\* for (NoneLeftDue): a stage's answers make no earlier stage's due.
THEOREM EveryFollowUpAsked == Spec => []NoneLeftDue
<1>1. Init => OwedIsHeld  BY DEF Init, OwedIsHeld
<1>2. Inv /\ OwedIsHeld /\ [Next]_vars => OwedIsHeld'  BY OwedIsHeldStep
<1>3. Inv /\ OwedIsHeld => NoneLeftDue  BY HeldMeansNoneLeft
<1>4. QED  BY <1>1, <1>2, <1>3, StagesInOrder, PTL DEF Spec
=============================================================================
