-------------------------- MODULE HookTurn_proofs --------------------------
(* What HookTurn keeps for any session: its types, the cap on blocks, and  *)
(* what a turn owes the agent and the person.                              *)
EXTENDS HookTurn, TLAPS

USE HookAssumption DEF HookAssumption

(* A check has a tree to check, and a stop's check a turn to check from.   *)
TypeInv ==
  /\ TypeOK
  /\ \A h \in Hooks : pc[h] = "check" =>
       now[h] \in Trees /\ (kind[h] = "Stop" => turn[h] # None)
  /\ lost => "unreadable" \in env

LEMMA TurnTyped ==
  ASSUME NEW t \in Trees, NEW notice \in Notices
  PROVE  BeginTurn(t, notice) \in Turn
BY DEF BeginTurn, Turn, Items

LEMMA TypeInit == Init => TypeInv
<1> SUFFICES ASSUME Init PROVE TypeInv
  OBVIOUS
<1>1. file \in Turn \cup {None} BY TurnTyped DEF Init, FirstTurn, Notices
<1>2. /\ tree \in Trees /\ since \in Trees /\ lost = FALSE
      /\ debt \in Trees \cup {None} /\ unnamed \subseteq Nested
      /\ run \in [blocks: 0 .. MaxBlocks + 1, last: Trees \cup {None}]
  BY DEF Init
<1>3. reply \in [Hooks -> Replies]
  <2>1. NoReply \in Replies BY DEF NoReply, Replies, Verdicts, Notices
  <2> QED BY <2>1 DEF Init
<1> QED BY <1>1, <1>2, <1>3
        DEF Init, TypeInv, TypeOK, EnvChoices, Phases, Labels, Kinds, Edits, NoEdit,
            Verdicts

(* What the handlers write into a turn is a turn again. *)
LEMMA TurnWritten ==
  ASSUME NEW u \in Turn
  PROVE  /\ u.tree \in Trees /\ u.notice \in Notices /\ u.unseen \in SUBSET Nested
         /\ u.blocks \in Nat
         /\ [u EXCEPT !.notice = None] \in Turn
         /\ [u EXCEPT !.carried = TRUE] \in Turn
         /\ [u EXCEPT !.notice = "unchecked", !.unchecked = TRUE] \in Turn
         /\ \A paths \in SUBSET Nested : RememberUnseen(u, paths) \in Turn
         /\ \A ids \in SUBSET Items : Report(u, ids) \in Turn
         /\ \A n \in Nat, t \in Trees :
              [u EXCEPT !.blocks = n, !.blockedTree = t] \in Turn
<1>1. /\ u.tree \in Trees /\ u.notice \in Notices /\ u.unseen \in SUBSET Nested
      /\ u.blocks \in Nat
  BY DEF Turn
<1>2. None \in Notices /\ "unchecked" \in Notices BY DEF Notices
<1>3. [u EXCEPT !.notice = None] \in Turn BY <1>2 DEF Turn
<1>4. [u EXCEPT !.carried = TRUE] \in Turn BY DEF Turn
<1>5. [u EXCEPT !.notice = "unchecked", !.unchecked = TRUE] \in Turn BY <1>2 DEF Turn
<1>6. \A paths \in SUBSET Nested : RememberUnseen(u, paths) \in Turn
  BY DEF RememberUnseen, Turn
<1>7. \A ids \in SUBSET Items : Report(u, ids) \in Turn BY DEF Report, Turn
<1>8. \A n \in Nat, t \in Trees : [u EXCEPT !.blocks = n, !.blockedTree = t] \in Turn
  BY DEF Turn
<1> QED BY <1>1, <1>3, <1>4, <1>5, <1>6, <1>7, <1>8

LEMMA TypeAgent ==
  ASSUME TypeInv, NEW h \in Hooks, Agent(h) PROVE TypeInv'
<1> USE DEF TypeInv, TypeOK, Phases, Labels, Kinds, session, history
<1>1. NoEdit \in Edits /\ NoReply \in Replies
  BY DEF NoEdit, Edits, NoReply, Replies, Verdicts, Notices
<1>2. CASE Prompt(h)
  <2>1. /\ run' \in [blocks: 0 .. MaxBlocks + 1, last: Trees \cup {None}]
        /\ event' \in [prompt: {"person", "reason"}, continued: BOOLEAN]
        /\ since' \in Trees /\ unnamed' \subseteq Nested /\ lost' = FALSE
        /\ UNCHANGED <<env, tree, debt>>
    BY <1>2 DEF Prompt
  <2>2. StartTurn(h) BY <1>2 DEF Prompt
  <2>3. CASE Launch(h, "TurnStart", NoEdit) /\ phase' = "starting"
    <3>1. pc'[h] = "load" /\ \A g \in Hooks \ {h} : pc'[g] = pc[g] /\ kind'[g] = kind[g]
      BY <2>3 DEF Launch
    <3> QED BY <1>1, <2>1, <2>3, <3>1 DEF Launch
  <2>4. CASE phase' = "working" /\ UNCHANGED <<file, hooks>> BY <2>1, <2>4 DEF hooks
  <2> QED BY <2>2, <2>3, <2>4 DEF StartTurn
<1>3. CASE Resend(h) BY <1>1, <1>3 DEF Resend, StartTurn, Launch, hooks
<1>4. CASE Compact(h) BY <1>1, <1>4 DEF Compact, Launch
<1>5. CASE StopTurn(h) BY <1>1, <1>5 DEF StopTurn, Launch
<1>6. ASSUME NEW e \in Edits, NEW t \in Trees, EditFiles(h, e, t) PROVE TypeInv'
  BY <1>6 DEF EditFiles, Launch
<1>7. CASE Kill(h) BY <1>1, <1>7 DEF Kill, Exit, AfterHook
<1>8. CASE Deliver(h)
  <2>1. Exit({h}) BY <1>8 DEF Deliver
  <2>2. run' \in [blocks: 0 .. MaxBlocks + 1, last: Trees \cup {None}]
    BY <1>8 DEF Deliver
  <2>3. phase' \in Phases /\ event' \in [prompt: {"person", "reason"}, continued: BOOLEAN]
    BY <1>8 DEF Deliver, AfterHook
  <2>4. unnamed' \subseteq Nested BY <1>8 DEF Deliver, Edits
  <2>5. UNCHANGED <<env, tree, file, debt, since, lost>> BY <1>8 DEF Deliver
  <2> QED BY <1>1, <2>1, <2>2, <2>3, <2>4, <2>5 DEF Exit
<1> QED BY <1>2, <1>3, <1>4, <1>5, <1>6, <1>7, <1>8 DEF Agent

(* A save leaves the old file or the whole new turn; an answer is a reply. *)
LEMMA Saved ==
  ASSUME TypeOK, NEW u \in Turn, \E ok \in Outcomes : Save(ok, u)
  PROVE  file' \in Turn \cup {None}
BY DEF Save, TypeOK

LEMMA Answered ==
  ASSUME TypeOK, NEW h \in Hooks, NEW v \in Verdicts, NEW n \in Notices,
         NEW s \in SUBSET Nested, Answer(h, v, n, s)
  PROVE  reply' \in [Hooks -> Replies] /\ pc' = [pc EXCEPT ![h] = "reply"]
<1>1. [verdict |-> v, notice |-> n, named |-> s] \in Replies BY DEF Replies
<1> QED BY <1>1 DEF Answer, TypeOK

LEMMA TypeHook ==
  ASSUME TypeInv, NEW h \in Hooks, Hook(h) PROVE TypeInv'
<1> DEFINE Moved(label) == pc' = [pc EXCEPT ![h] = label] /\ label \in Labels
           Typed == /\ file' \in Turn \cup {None}
                    /\ turn' \in [Hooks -> Turn \cup {None}]
                    /\ reply' \in [Hooks -> Replies]
                    /\ UNCHANGED <<env, tree, phase, event, kind, edit, run>>
                    /\ since' \in Trees /\ lost' \in BOOLEAN
                    /\ lost' => "unreadable" \in env
<1>1. TypeOK BY DEF TypeInv
<1>2. None \in Notices /\ "unreadable" \in Notices /\ {} \in SUBSET Nested BY DEF Notices
<1>3. Verdicts = {"context", "failed", "first", "block", "passed", "letThrough",
                  "unchecked", "unreadable"}
  BY DEF Verdicts
<1>4. /\ file \in Turn \cup {None} /\ turn \in [Hooks -> Turn \cup {None}]
      /\ reply \in [Hooks -> Replies] /\ pc \in [Hooks -> Labels] /\ tree \in Trees
      /\ edit[h].nested \in SUBSET Nested /\ since \in Trees /\ lost \in BOOLEAN
      /\ (lost => "unreadable" \in env)
  BY <1>1 DEF TypeInv, TypeOK, Edits
<1>5. turn[h] # None => turn[h] \in Turn BY <1>4
<1>6. ASSUME Typed, NEW label \in Labels \ {"check"}, Moved(label), UNCHANGED now,
             found' \in [Hooks -> SUBSET Findings], debt' \in Trees \cup {None},
             unnamed' \in SUBSET Nested,
             \A g \in Hooks \ {h} : turn'[g] = turn[g]
      PROVE  TypeInv'
  BY <1>1, <1>6 DEF TypeInv, TypeOK, Labels
<1>7. /\ found \in [Hooks -> SUBSET Findings] /\ debt \in Trees \cup {None}
      /\ unnamed \in SUBSET Nested /\ Labels = {"off", "load", "loaded", "snapshot",
                                            "check", "told", "context", "reply"}
  BY <1>1 DEF TypeOK, Labels
<1>8. CASE LoadTurn(h)
  <2>1. /\ UNCHANGED <<session, kind, edit, now, found, reply, run, debt, since, unnamed>>
        /\ \/ turn' = [turn EXCEPT ![h] = file] /\ lost' = lost
           \/ turn' = [turn EXCEPT ![h] = None] /\ lost' = TRUE /\ "unreadable" \in env
    BY <1>8 DEF LoadTurn
  <2>2. turn' \in [Hooks -> Turn \cup {None}]
    <3>1. CASE turn' = [turn EXCEPT ![h] = file] BY <1>4, <3>1
    <3>2. CASE turn' = [turn EXCEPT ![h] = None] BY <1>4, <3>2
    <3> QED BY <2>1, <3>1, <3>2
  <2>3. UNCHANGED <<file, env, tree, phase, event, kind, edit, reply, run, since>>
    BY <2>1 DEF session
  <2>4. lost' \in BOOLEAN /\ (lost' => "unreadable" \in env)
    <3>1. CASE lost' = lost BY <1>4, <3>1
    <3>2. CASE lost' = TRUE /\ "unreadable" \in env BY <3>2
    <3> QED BY <2>1, <3>1, <3>2
  <2>5. Typed BY <1>4, <2>2, <2>3, <2>4
  <2> QED BY <1>4, <1>6, <1>7, <1>8, <2>5 DEF LoadTurn, Goto, session, history
<1>9. CASE KeepTurn(h)
  <2>1. Typed BY <1>4, <1>9 DEF KeepTurn, session, history
  <2> QED BY <1>6, <1>7, <1>9, <2>1 DEF KeepTurn, Goto, session, history
<1>10. CASE TurnStartCarry(h)
  <2> DEFINE new == CarryTurn(turn[h])
  <2>1. new \in Turn
    <3>1. turn[h] \in Turn BY <1>5, <1>10 DEF TurnStartCarry
    <3>2. BeginTurn(turn[h].tree, turn[h].notice) \in Turn BY <3>1, TurnTyped, TurnWritten
    <3> QED BY <3>2, TurnWritten DEF CarryTurn
  <2>2. PICK ok \in Outcomes :
          /\ Save(ok, new)
          /\ IF ok THEN /\ turn' = [turn EXCEPT ![h] = new]
                        /\ Goto(h, "context")
                        /\ UNCHANGED reply
                   ELSE Answer(h, "failed", None, {}) /\ UNCHANGED turn
    BY <1>10 DEF TurnStartCarry
  <2> HIDE DEF new
  <2>3. file' \in Turn \cup {None} BY <1>4, <2>1, <2>2 DEF Save
  <2>4. CASE ok
    <3>1. Typed BY <1>4, <1>10, <2>1, <2>2, <2>3, <2>4 DEF TurnStartCarry, history
    <3> QED BY <1>4, <1>6, <1>7, <1>10, <2>2, <2>4, <3>1 DEF TurnStartCarry, Goto, history
  <2>5. CASE ~ok
    <3>1. reply' \in [Hooks -> Replies] /\ Moved("reply")
      BY <1>1, <1>2, <1>3, <1>7, <2>2, <2>5, Answered
    <3>2. Typed BY <1>4, <1>10, <2>2, <2>3, <2>5, <3>1 DEF TurnStartCarry, history
    <3> QED BY <1>6, <1>7, <1>10, <2>2, <2>5, <3>1, <3>2 DEF TurnStartCarry, history
  <2> QED BY <2>4, <2>5
<1>11. CASE Begin(h)
  <2> DEFINE new == BeginTurn(tree, IF turn[h] = None THEN None ELSE turn[h].notice)
  <2>1. new \in Turn BY <1>2, <1>4, <1>5, TurnTyped, TurnWritten
  <2>2. PICK ok \in Outcomes :
          /\ Save(ok, new)
          /\ IF ok THEN /\ turn' = [turn EXCEPT ![h] = new]
                        /\ Goto(h, "context")
                        /\ unnamed' = {}
                        /\ since' = IF debt = None THEN tree ELSE since
                        /\ UNCHANGED reply
                   ELSE Answer(h, "failed", None, {}) /\ UNCHANGED <<turn, unnamed, since>>
    BY <1>11 DEF Begin
  <2> HIDE DEF new
  <2>3. file' \in Turn \cup {None} BY <1>4, <2>1, <2>2 DEF Save
  <2>4. CASE ok
    <3>1. Typed BY <1>4, <1>11, <2>1, <2>2, <2>3, <2>4 DEF Begin
    <3> QED BY <1>4, <1>6, <1>7, <1>11, <2>2, <2>4, <3>1 DEF Begin, Goto
  <2>5. CASE ~ok
    <3>1. reply' \in [Hooks -> Replies] /\ Moved("reply")
      BY <1>1, <1>2, <1>3, <1>7, <2>2, <2>5, Answered
    <3>2. Typed BY <1>4, <1>11, <2>2, <2>3, <2>5, <3>1 DEF Begin
    <3> QED BY <1>6, <1>7, <1>11, <2>2, <2>5, <3>1, <3>2 DEF Begin
  <2> QED BY <2>4, <2>5
<1>12. CASE GiveContext(h)
  <2> DEFINE gives == turn[h] # None /\ turn[h].notice # None /\ HasContext(kind[h])
             notice == IF gives THEN turn[h].notice ELSE None
  <2>1. notice \in Notices BY <1>2, <1>5, TurnWritten
  <2>2. Answer(h, "context", notice, {}) BY <1>12 DEF GiveContext
  <2>3. file' \in Turn \cup {None}
    <3>1. CASE gives
      <4>1. [turn[h] EXCEPT !.notice = None] \in Turn BY <1>5, <3>1, TurnWritten
      <4> QED BY <1>1, <1>12, <3>1, <4>1, Saved DEF GiveContext
    <3>2. CASE ~gives BY <1>4, <1>12, <3>2 DEF GiveContext
    <3> QED BY <3>1, <3>2
  <2> HIDE DEF notice
  <2>4. reply' \in [Hooks -> Replies] /\ Moved("reply")
    BY <1>1, <1>2, <1>3, <1>7, <2>1, <2>2, Answered
  <2>5. Typed BY <1>4, <1>12, <2>3, <2>4 DEF GiveContext, history
  <2> QED BY <1>6, <1>7, <1>12, <2>4, <2>5 DEF GiveContext, history
<1>13. CASE SeenFiles(h)
  <2> DEFINE u == RememberUnseen(turn[h], edit[h].nested)
  <2>1. turn[h] # None => u \in Turn BY <1>4, <1>5, TurnWritten
  <2>2. turn' \in [Hooks -> Turn \cup {None}] /\ (\A g \in Hooks \ {h} : turn'[g] = turn[g])
    BY <1>4, <1>13, <2>1 DEF SeenFiles
  <2>3. file' \in Turn \cup {None}
    <3>1. CASE UNCHANGED file BY <1>4, <3>1
    <3>2. CASE turn[h] # None /\ turn' = [turn EXCEPT ![h] = u]
               /\ \E ok \in Outcomes : Save(ok, turn'[h])
      BY <1>1, <1>4, <2>1, <3>2, Saved
    <3> QED BY <1>13, <3>1, <3>2 DEF SeenFiles
  <2>4. Typed BY <1>4, <1>13, <2>2, <2>3 DEF SeenFiles, history
  <2>5. PICK label \in {"snapshot", "told"} : Moved(label)
    BY <1>7, <1>13 DEF SeenFiles, Goto
  <2>6. found' \in [Hooks -> SUBSET Findings] BY <1>7, <1>13 DEF SeenFiles
  <2> QED BY <1>6, <1>7, <1>13, <2>2, <2>4, <2>5, <2>6 DEF SeenFiles, history
<1>14. CASE Snapshot(h)
  <2>1. CASE now' = [now EXCEPT ![h] = tree] /\ Goto(h, "check") /\ UNCHANGED <<file, reply, debt>>
    BY <1>1, <1>14, <2>1 DEF Snapshot, Goto, At, TypeInv, TypeOK, Labels
  <2>2. CASE Answer(h, "failed", None, {}) /\ UNCHANGED <<file, now, debt>>
    <3>1. reply' \in [Hooks -> Replies] /\ Moved("reply")
      BY <1>1, <1>2, <1>3, <1>7, <2>2, Answered
    <3>2. Typed BY <1>4, <1>14, <2>2, <3>1 DEF Snapshot
    <3> QED BY <1>6, <1>7, <1>14, <2>2, <3>1, <3>2 DEF Snapshot
  <2> QED BY <1>14, <2>1, <2>2 DEF Snapshot
<1>15. CASE CheckEdit(h)
  <2>1. Open(h) \subseteq Findings
    BY <1>15 DEF CheckEdit, Open, At, TypeInv
  <2>2. CASE \E ids \in SUBSET Open(h) :
               found' = [found EXCEPT ![h] = ids] /\ Goto(h, "told") /\ UNCHANGED reply
    <3>1. Typed BY <1>4, <1>15, <2>2 DEF CheckEdit, session, history
    <3>2. found' \in [Hooks -> SUBSET Findings] BY <1>7, <2>1, <2>2
    <3> QED BY <1>6, <1>7, <1>15, <2>2, <3>1, <3>2 DEF CheckEdit, Goto, session, history
  <2>3. CASE Answer(h, "failed", None, {}) /\ UNCHANGED found
    <3>1. reply' \in [Hooks -> Replies] /\ Moved("reply")
      BY <1>1, <1>2, <1>3, <1>7, <2>3, Answered
    <3>2. Typed BY <1>4, <1>15, <2>3, <3>1 DEF CheckEdit, session, history
    <3> QED BY <1>6, <1>7, <1>15, <2>3, <3>1, <3>2 DEF CheckEdit, session, history
  <2> QED BY <1>15, <2>2, <2>3 DEF CheckEdit
<1>16. CASE Told(h)
  <2> DEFINE u == Report(turn[h], found[h] \cup edit[h].nested)
  <2>1. turn[h] # None => u \in Turn BY <1>4, <1>5, <1>7, TurnWritten DEF Items
  <2>2. turn' \in [Hooks -> Turn \cup {None}] /\ (\A g \in Hooks \ {h} : turn'[g] = turn[g])
    BY <1>4, <1>16, <2>1 DEF Told
  <2>3. file' \in Turn \cup {None}
    <3>1. CASE UNCHANGED file BY <1>4, <3>1
    <3>2. CASE turn[h] # None /\ turn' = [turn EXCEPT ![h] = u]
               /\ \E ok \in Outcomes : Save(ok, turn'[h])
      BY <1>1, <1>4, <2>1, <3>2, Saved
    <3> QED BY <1>16, <3>1, <3>2 DEF Told
  <2>4. Typed BY <1>4, <1>16, <2>2, <2>3 DEF Told, history
  <2> QED BY <1>6, <1>7, <1>16, <2>2, <2>4 DEF Told, Goto, history
<1>17. CASE FirstStop(h)
  <2>1. BeginTurn(tree, None) \in Turn /\ debt' \in Trees \cup {None}
    BY <1>2, <1>4, <1>17, TurnTyped DEF FirstStop, Judged
  <2>2. file' \in Turn \cup {None} BY <1>1, <1>17, <2>1, Saved DEF FirstStop
  <2>3. reply' \in [Hooks -> Replies] /\ Moved("reply")
    BY <1>1, <1>2, <1>3, <1>7, <1>17, Answered DEF FirstStop
  <2>4. Typed BY <1>4, <1>17, <2>2, <2>3 DEF FirstStop
  <2> QED BY <1>6, <1>7, <1>17, <2>1, <2>3, <2>4 DEF FirstStop
<1>18. ASSUME NEW u \in Turn, NEW v \in Verdicts, NEW n \in SUBSET Nested,
              \E ok \in Outcomes : Save(ok, u), Answer(h, v, None, n),
              debt' \in Trees \cup {None},
              UNCHANGED <<env, tree, phase, event, kind, edit, turn, now, found, run, since,
                          unnamed, lost>>
       PROVE  TypeInv'
  <2>1. file' \in Turn \cup {None} BY <1>1, <1>18, Saved
  <2>2. reply' \in [Hooks -> Replies] /\ Moved("reply")
    BY <1>1, <1>2, <1>7, <1>18, Answered
  <2>3. Typed BY <1>4, <1>18, <2>1, <2>2
  <2> QED BY <1>6, <1>7, <1>18, <2>2, <2>3
<1>19. ASSUME At(h, {"Stop"}, "check") PROVE turn[h] \in Turn /\ now[h] \in Trees
  BY <1>5, <1>19 DEF At, TypeInv
<1>20. ASSUME NEW v \in {"passed", "letThrough"}, Checked(h), EndTurn(h, v) PROVE TypeInv'
  <2>1. turn[h].unseen \in SUBSET Nested BY <1>19, <1>20, TurnWritten DEF Checked
  <2>2. BeginTurn(now[h], None) \in Turn BY <1>2, <1>19, <1>20, TurnTyped DEF Checked
  <2>3. v \in Verdicts /\ debt' \in Trees \cup {None}
    BY <1>3, <1>19, <1>20 DEF EndTurn, Checked, Judged
  <2> QED BY <1>18, <1>20, <2>1, <2>2, <2>3 DEF EndTurn
<1>21. CASE Pass(h) \/ LetThrough(h) BY <1>20, <1>21 DEF Pass, LetThrough
<1>22. CASE Block(h)
  <2>1. turn[h] \in Turn /\ now[h] \in Trees BY <1>19, <1>22 DEF Block, Checked
  <2>2. Blocks(h) + 1 \in Nat
    <3>1. turn[h].blocks \in Nat BY <2>1, TurnWritten
    <3> QED BY <3>1 DEF Blocks
  <2> DEFINE u == [turn[h] EXCEPT !.blocks = Blocks(h) + 1, !.blockedTree = now[h]]
  <2>3. u \in Turn BY <2>1, <2>2, TurnWritten
  <2>4. turn[h].unseen \in SUBSET Nested BY <2>1, TurnWritten
  <2>5. PICK ok \in Outcomes :
          /\ Save(ok, u)
          /\ IF ok THEN Answer(h, "block", None, turn[h].unseen)
                   ELSE Answer(h, "failed", None, {})
    BY <1>22 DEF Block
  <2>6. PICK v \in Verdicts, n \in SUBSET Nested : Answer(h, v, None, n)
    BY <1>2, <1>3, <2>4, <2>5
  <2>7. debt' \in Trees \cup {None} BY <1>7, <1>22 DEF Block, Judged
  <2> HIDE DEF u
  <2> QED BY <1>18, <1>22, <2>3, <2>5, <2>6, <2>7 DEF Block
<1>23. CASE UnreadableStart(h)
  <2>1. BeginTurn(now[h], "unreadable") \in Turn
    BY <1>2, <1>19, <1>23, TurnTyped DEF UnreadableStart
  <2>2. debt' \in Trees \cup {None} BY <1>19, <1>23 DEF UnreadableStart, Judged
  <2> QED BY <1>2, <1>3, <1>18, <1>23, <2>1, <2>2 DEF UnreadableStart
<1>24. CASE Unchecked(h)
  <2>1. turn[h] \in Turn BY <1>5, <1>19, <1>24 DEF Unchecked
  <2>2. [turn[h] EXCEPT !.notice = "unchecked", !.unchecked = TRUE] \in Turn
    BY <2>1, TurnWritten
  <2>3. debt' \in Trees \cup {None} BY <1>7, <1>24, <2>1, TurnWritten DEF Unchecked
  <2> QED BY <1>2, <1>3, <1>18, <1>24, <2>2, <2>3 DEF Unchecked
<1> QED BY <1>8, <1>9, <1>10, <1>11, <1>12, <1>13, <1>14, <1>15, <1>16, <1>17, <1>21, <1>22,
           <1>23, <1>24 DEF Hook

LEMMA TypeStep == TypeInv /\ [Next]_vars => TypeInv'
<1> SUFFICES ASSUME TypeInv, [Next]_vars PROVE TypeInv'
  OBVIOUS
<1>1. ASSUME NEW h \in Hooks, Agent(h) \/ Hook(h) PROVE TypeInv'
  BY <1>1, TypeAgent, TypeHook
<1>2. ASSUME NEW t \in Trees, ChangeTree(t) PROVE TypeInv'
  BY <1>2 DEF ChangeTree, hooks, history, TypeInv, TypeOK
<1>3. CASE Interrupt
  BY <1>3 DEF Interrupt, Exit, history, TypeInv, TypeOK, Phases, Labels, Kinds, NoEdit, Edits,
              NoReply, Replies, Verdicts, Notices
<1>4. CASE UNCHANGED vars
  BY <1>4 DEF vars, session, hooks, history, TypeInv, TypeOK
<1> QED BY <1>1, <1>2, <1>3, <1>4 DEF Next

(* HookTurn is type correct. *)
THEOREM TypeCorrect == Spec => []TypeOK
<1>1. TypeInv => TypeOK BY DEF TypeInv
<1> QED BY <1>1, TypeInit, TypeStep, PTL DEF Spec

-----------------------------------------------------------------------------
(* Only after-edit hooks overlap, and each event belongs to one phase.     *)
PhaseOf(k) == IF k = "AfterEdit" THEN "working"
              ELSE IF k = "Stop" THEN "stopping" ELSE "starting"
Pending(h) == pc[h] = "reply" /\ reply[h].verdict = "block"
Closing(h) == pc[h] = "reply" /\ reply[h].verdict # "block" /\ kind[h] = "Stop"
PhaseInv ==
  \A h \in Hooks :
    /\ pc[h] # "off" => phase = PhaseOf(kind[h])
    /\ pc[h] # "off" /\ kind[h] # "AfterEdit" => \A g \in Hooks \ {h} : pc[g] = "off"
    /\ Pending(h) => kind[h] = "Stop"

(* What a step of a hook leaves alone. *)
Holding == {"loaded", "snapshot", "check", "told", "context"}
Framed(h) ==
  /\ pc[h] \in {"load"} \cup Holding
  /\ pc'[h] \in {"reply"} \cup Holding
  /\ \A g \in Hooks \ {h} : pc'[g] = pc[g] /\ turn'[g] = turn[g] /\ reply'[g] = reply[g]
  /\ UNCHANGED <<phase, event, kind, run>>

LEMMA HookFramed == ASSUME TypeOK, NEW h \in Hooks, Hook(h) PROVE Framed(h)
<1> USE DEF Framed, Holding, TypeOK, Goto, At, session, history
<1>1. CASE LoadTurn(h) \/ KeepTurn(h) BY <1>1 DEF LoadTurn, KeepTurn
<1>2. CASE TurnStartCarry(h) \/ Begin(h) BY <1>2 DEF TurnStartCarry, Begin, Answer
<1>3. CASE GiveContext(h) BY <1>3 DEF GiveContext, Answer
<1>4. CASE SeenFiles(h) \/ Told(h) BY <1>4 DEF SeenFiles, Told
<1>5. CASE Snapshot(h) BY <1>5 DEF Snapshot, Answer
<1>6. CASE CheckEdit(h) BY <1>6 DEF CheckEdit, Answer
<1>7. CASE FirstStop(h) BY <1>7 DEF FirstStop, Answer
<1>8. CASE Pass(h) \/ LetThrough(h) BY <1>8 DEF Pass, LetThrough, Checked, EndTurn, Answer
<1>9. CASE Block(h) BY <1>9 DEF Block, Checked, Answer
<1>10. CASE UnreadableStart(h) BY <1>10 DEF UnreadableStart, Answer
<1>11. CASE Unchecked(h) BY <1>11 DEF Unchecked, Answer
<1> QED BY <1>1, <1>2, <1>3, <1>4, <1>5, <1>6, <1>7, <1>8, <1>9, <1>10, <1>11 DEF Hook

(* A hook that did not block has another verdict, and only a stop blocks.  *)
LEMMA OnlyStopsBlock ==
  ASSUME TypeOK, NEW h \in Hooks, Hook(h), Pending(h)' PROVE Block(h) /\ kind[h] = "Stop"
<1> USE DEF Pending, TypeOK, Goto, session, history
<1>1. CASE LoadTurn(h) \/ KeepTurn(h) BY <1>1 DEF LoadTurn, KeepTurn
<1>2. CASE TurnStartCarry(h) \/ Begin(h) BY <1>2 DEF TurnStartCarry, Begin, Answer
<1>3. CASE GiveContext(h) BY <1>3 DEF GiveContext, Answer
<1>4. CASE SeenFiles(h) \/ Told(h) BY <1>4 DEF SeenFiles, Told
<1>5. CASE Snapshot(h)
  <2>1. CASE Goto(h, "check") BY <2>1
  <2>2. CASE Answer(h, "failed", None, {}) BY <2>2 DEF Answer
  <2> QED BY <1>5, <2>1, <2>2 DEF Snapshot
<1>6. CASE CheckEdit(h) BY <1>6 DEF CheckEdit, Answer
<1>7. CASE FirstStop(h) BY <1>7 DEF FirstStop, Answer
<1>8. CASE Pass(h) \/ LetThrough(h) BY <1>8 DEF Pass, LetThrough, EndTurn, Answer
<1>9. CASE Block(h) BY <1>9 DEF Block, Checked, At
<1>10. CASE UnreadableStart(h) BY <1>10 DEF UnreadableStart, Answer
<1>11. CASE Unchecked(h) BY <1>11 DEF Unchecked, Answer
<1> QED BY <1>1, <1>2, <1>3, <1>4, <1>5, <1>6, <1>7, <1>8, <1>9, <1>10, <1>11 DEF Hook

LEMMA PhaseInit == Init => PhaseInv
BY DEF Init, PhaseInv, Pending

LEMMA PhaseStep == TypeInv /\ PhaseInv /\ [Next]_vars => PhaseInv'
<1> SUFFICES ASSUME TypeInv, PhaseInv, [Next]_vars PROVE PhaseInv'
  OBVIOUS
<1>1. TypeOK BY DEF TypeInv
<1>2. ASSUME NEW h \in Hooks, Hook(h) PROVE PhaseInv'
  <2>1. Framed(h) BY <1>1, <1>2, HookFramed
  <2>2. Pending(h)' => kind[h] = "Stop" BY <1>1, <1>2, OnlyStopsBlock
  <2>3. \A g \in Hooks \ {h} : Pending(g)' => Pending(g) BY <2>1 DEF Framed, Pending
  <2> QED BY <2>1, <2>2, <2>3 DEF PhaseInv, Framed, Holding
<1>3. ASSUME NEW h \in Hooks, NEW k \in Kinds, NEW e, Launch(h, k, e), phase' = PhaseOf(k),
             Quiet \/ (k = "AfterEdit" /\ phase = "working")
      PROVE  PhaseInv'
  <2>1. \A g \in Hooks \ {h} : pc'[g] = pc[g] /\ kind'[g] = kind[g]
    BY <1>1, <1>3 DEF Launch, TypeOK
  <2>2. pc'[h] = "load" /\ kind'[h] = k BY <1>1, <1>3 DEF Launch, TypeOK
  <2>3. \A g \in Hooks : pc[g] # "off" => kind[g] = "AfterEdit" /\ k = "AfterEdit"
    BY <1>1, <1>3 DEF Quiet, PhaseInv, PhaseOf, TypeOK, Kinds
  <2>4. \A g \in Hooks : Pending(g)' => Pending(g)
    BY <1>3, <2>1, <2>2 DEF Launch, Pending
  <2> QED BY <1>3, <2>1, <2>2, <2>3, <2>4 DEF PhaseInv, PhaseOf, Pending
<1>4. ASSUME NEW h \in Hooks, Prompt(h) \/ Resend(h) \/ Compact(h) \/ StopTurn(h) PROVE PhaseInv'
  <2>1. CASE UNCHANGED hooks
    BY <1>1, <1>4, <2>1 DEF Prompt, Resend, Compact, StopTurn, Launch, Quiet, hooks, PhaseInv,
                            Pending, TypeOK
  <2>2. CASE ~(UNCHANGED hooks)
    BY <1>3, <1>4, <2>2 DEF Prompt, Resend, StartTurn, Compact, StopTurn, PhaseOf, Kinds
  <2> QED BY <2>1, <2>2
<1>5. ASSUME NEW h \in Hooks, NEW e \in Edits, NEW t \in Trees, EditFiles(h, e, t) PROVE PhaseInv'
  BY <1>3, <1>5 DEF EditFiles, PhaseOf, Kinds
<1>6. ASSUME NEW h \in Hooks, pc[h] # "off", Exit({h}), phase' = AfterHook(h) PROVE PhaseInv'
  <2>1. \A g \in Hooks : pc'[g] # "off" =>
          g # h /\ pc'[g] = pc[g] /\ kind'[g] = kind[g] /\ reply'[g] = reply[g]
    BY <1>6 DEF Exit
  <2>2. \A g \in Hooks : pc'[g] # "off" => kind[g] = "AfterEdit" /\ kind[h] = "AfterEdit"
    BY <1>6, <2>1 DEF PhaseInv
  <2>3. \A g \in Hooks : Pending(g)' => Pending(g) BY <2>1 DEF Pending
  <2>4. ASSUME NEW g \in Hooks, pc'[g] # "off" PROVE phase' = PhaseOf(kind'[g])
    BY <1>6, <2>1, <2>2, <2>4 DEF PhaseOf, AfterHook
  <2>5. ASSUME NEW g \in Hooks, pc'[g] # "off" PROVE kind'[g] = "AfterEdit"
    BY <2>1, <2>2, <2>5
  <2>6. \A g \in Hooks : Pending(g)' => pc'[g] # "off" BY DEF Pending
  <2>7. \A g \in Hooks : Pending(g) => kind[g] = "Stop" BY DEF PhaseInv
  <2> QED BY <2>1, <2>3, <2>4, <2>5, <2>6, <2>7 DEF PhaseInv
<1>7. ASSUME NEW h \in Hooks, Kill(h) PROVE PhaseInv'
  BY <1>6, <1>7 DEF Kill
<1>8. ASSUME NEW h \in Hooks, Deliver(h) PROVE PhaseInv'
  <2>1. CASE reply[h].verdict = "block"
    <3>1. kind[h] = "Stop" BY <1>8, <2>1 DEF PhaseInv, Pending, Deliver
    <3>2. \A g \in Hooks : pc'[g] = "off" BY <1>8, <3>1 DEF Deliver, Exit, PhaseInv
    <3> QED BY <3>2 DEF PhaseInv, Pending
  <2>2. CASE reply[h].verdict # "block" BY <1>6, <1>8, <2>2 DEF Deliver
  <2> QED BY <2>1, <2>2
<1>9. CASE Interrupt BY <1>9 DEF Interrupt, Exit, PhaseInv, Pending
<1>10. CASE UNCHANGED vars \/ \E t \in Trees : ChangeTree(t)
  BY <1>10 DEF vars, ChangeTree, session, hooks, PhaseInv, Pending
<1> QED BY <1>2, <1>4, <1>5, <1>7, <1>8, <1>9, <1>10 DEF Next, Agent

-----------------------------------------------------------------------------
(* Why the turn file counts at least the blocks the agent got: every copy   *)
(* a running hook may write back holds the file's own count, and a stop in  *)
(* a turn that was blocked finds the turn, with the tree it was blocked on. *)
SameBlocks(u, v) ==
  /\ u = None <=> v = None
  /\ u # None => u.blocks = v.blocks /\ u.blockedTree = v.blockedTree
Capped(u, n) == u # None /\ n <= u.blocks /\ u.blocks <= MaxBlocks /\ u.blockedTree # None
WithinCap == run.blocks <= MaxBlocks
Counted ==
  /\ WithinCap
  /\ ~event.continued => run.blocks = 0
  /\ event.continued /\ phase # "idle" /\ (\A h \in Hooks : ~Closing(h))
       => Capped(file, run.blocks)
  /\ \A h \in Hooks : pc[h] # "off" /\ kind[h] = "TurnStart" /\ event.continued
       => event.prompt = "reason"
  /\ \A h \in Hooks : pc[h] \in Holding => SameBlocks(turn[h], file)
  /\ \A h \in Hooks : Pending(h) => Capped(file, run.blocks + 1)

(* A hook that could not read the turn has lost the count. *)
CapInv == ~lost => Counted

LEMMA CapInit == Init => CapInv
BY DEF Init, CapInv, Counted, WithinCap, Holding, Pending

(* A step that keeps the file's count keeps the invariant. *)
LEMMA CapKept ==
  ASSUME Counted, NEW h \in Hooks, Framed(h), SameBlocks(file', file),
         \/ pc'[h] \in Holding /\ SameBlocks(turn'[h], file')
         \/ pc'[h] = "reply" /\ reply'[h].verdict # "block" /\ kind[h] # "Stop"
  PROVE  Counted'
<1>1. /\ UNCHANGED <<phase, event, kind, run>>
      /\ \A g \in Hooks \ {h} : pc'[g] = pc[g] /\ turn'[g] = turn[g] /\ reply'[g] = reply[g]
      /\ pc[h] \in {"load"} \cup Holding
  BY DEF Framed
<1>2. "reply" \notin Holding /\ "off" \notin Holding BY DEF Holding
<1>3. ~Closing(h)' /\ ~Pending(h)' /\ ~Closing(h) /\ ~Pending(h)
  BY <1>1, <1>2 DEF Closing, Pending
<1>4. \A g \in Hooks : (Closing(g)' <=> Closing(g)) /\ (Pending(g)' => Pending(g))
  BY <1>1, <1>3 DEF Closing, Pending
<1>5. \A n : Capped(file, n) => Capped(file', n) BY DEF Capped, SameBlocks
<1>6. \A g \in Hooks : pc'[g] \in Holding => SameBlocks(turn'[g], file')
  <2>1. ASSUME NEW g \in Hooks \ {h}, pc'[g] \in Holding PROVE SameBlocks(turn'[g], file')
    BY <1>1, <2>1 DEF Counted, SameBlocks
  <2> QED BY <1>2, <2>1
<1>7. \A g \in Hooks : pc'[g] # "off" => pc[g] # "off" BY <1>1, <1>2
<1> QED BY <1>1, <1>4, <1>5, <1>6, <1>7 DEF Counted, WithinCap

(* So does the answer of a stop that ends the turn's blocks, and a turn     *)
(* that begins when the agent was not blocked.                              *)
LEMMA CapRestarts ==
  ASSUME PhaseInv, Counted, NEW h \in Hooks, Framed(h), kind[h] # "AfterEdit",
         \/ ~event.continued /\ pc'[h] \in Holding /\ SameBlocks(turn'[h], file')
         \/ ~event.continued /\ pc'[h] = "reply" /\ reply'[h].verdict # "block"
         \/ kind[h] = "Stop" /\ pc'[h] = "reply" /\ reply'[h].verdict # "block"
  PROVE  Counted'
<1>1. /\ UNCHANGED <<phase, event, kind, run>>
      /\ \A g \in Hooks \ {h} : pc'[g] = pc[g]
      /\ pc[h] \in {"load"} \cup Holding
  BY DEF Framed
<1>2. "reply" \notin Holding /\ "off" \notin Holding /\ "load" # "off" BY DEF Holding
<1>3. \A g \in Hooks \ {h} : pc'[g] = "off" BY <1>1, <1>2 DEF PhaseInv
<1>4. \A g \in Hooks : ~Pending(g)' BY <1>2, <1>3 DEF Pending
<1>5. \A g \in Hooks : pc'[g] \in Holding => SameBlocks(turn'[g], file') BY <1>2, <1>3
<1>6. ~event.continued \/ Closing(h)' BY <1>1 DEF Closing
<1>7. \A g \in Hooks : pc'[g] # "off" => pc[g] # "off" BY <1>1, <1>2, <1>3
<1> QED BY <1>1, <1>4, <1>5, <1>6, <1>7 DEF Counted, WithinCap

LEMMA SameItself == \A u : SameBlocks(u, u)
BY DEF SameBlocks

(* A turn that was blocked is neither begun again nor carried. *)
LEMMA BlockedTurnStays ==
  ASSUME TypeInv, PhaseInv, Counted, NEW h \in Hooks, TurnStartCarry(h) \/ Begin(h)
  PROVE  ~event.continued /\ kind[h] \in {"TurnStart", "SessionStart"}
<1>1. pc[h] = "loaded" /\ kind[h] \in {"TurnStart", "SessionStart"}
  BY DEF TurnStartCarry, Begin, At
<1> SUFFICES ASSUME event.continued PROVE FALSE
  BY <1>1
<1>2. phase = "starting" BY <1>1 DEF PhaseInv, PhaseOf
<1>3. \A g \in Hooks : ~Closing(g)
  BY <1>1 DEF PhaseInv, Closing
<1>4. Capped(file, run.blocks) BY <1>2, <1>3 DEF Counted
<1>5. SameBlocks(turn[h], file) BY <1>1 DEF Counted, Holding
<1>6. turn[h] # None /\ turn[h].blockedTree # None BY <1>4, <1>5 DEF Capped, SameBlocks
<1>7. kind[h] = "TurnStart" => ContinuedBy(turn[h])
  BY <1>1, <1>6 DEF Counted, ContinuedBy
<1> QED BY <1>1, <1>6, <1>7 DEF TurnStartCarry, Begin, At

(* What a handler writes of a turn it loaded keeps the turn's blocks. *)
LEMMA BlocksWritten ==
  ASSUME NEW u \in Turn
  PROVE  /\ SameBlocks([u EXCEPT !.notice = None], u)
         /\ \A paths \in SUBSET Nested : SameBlocks(RememberUnseen(u, paths), u)
         /\ \A ids \in SUBSET Items : SameBlocks(Report(u, ids), u)
<1>1. SameBlocks([u EXCEPT !.notice = None], u)
  <2>1. [u EXCEPT !.notice = None] \in Turn BY TurnWritten
  <2>2. /\ [u EXCEPT !.notice = None].blocks = u.blocks
        /\ [u EXCEPT !.notice = None].blockedTree = u.blockedTree
    BY DEF Turn
  <2> QED BY <2>1, <2>2, NoneAssumption DEF SameBlocks
<1>2. ASSUME NEW paths \in SUBSET Nested PROVE SameBlocks(RememberUnseen(u, paths), u)
  <2>1. RememberUnseen(u, paths) \in Turn BY TurnWritten
  <2>2. /\ RememberUnseen(u, paths).blocks = u.blocks
        /\ RememberUnseen(u, paths).blockedTree = u.blockedTree
    BY DEF RememberUnseen, Turn
  <2> QED BY <2>1, <2>2, NoneAssumption DEF SameBlocks
<1>3. ASSUME NEW ids \in SUBSET Items PROVE SameBlocks(Report(u, ids), u)
  <2>1. Report(u, ids) \in Turn BY TurnWritten
  <2>2. Report(u, ids).blocks = u.blocks /\ Report(u, ids).blockedTree = u.blockedTree
    BY DEF Report, Turn
  <2> QED BY <2>1, <2>2, NoneAssumption DEF SameBlocks
<1> QED BY <1>1, <1>2, <1>3

LEMMA CapHook ==
  ASSUME TypeInv, PhaseInv, Counted, ~lost', NEW h \in Hooks, Hook(h) PROVE Counted'
<1>1. TypeOK BY DEF TypeInv
<1>2. Framed(h) BY <1>1, HookFramed
<1>3. turn[h] \in Turn \cup {None} /\ edit[h].nested \in SUBSET Nested
      /\ found[h] \in SUBSET Findings
  BY <1>1 DEF TypeOK, Edits
<1>4. pc[h] \in Holding => SameBlocks(turn[h], file) BY DEF Counted
<1>5. ASSUME UNCHANGED file,
             \/ pc'[h] \in Holding /\ SameBlocks(turn'[h], file)
             \/ pc'[h] = "reply" /\ reply'[h].verdict # "block" /\ kind[h] # "Stop"
      PROVE  Counted'
  BY <1>2, <1>5, CapKept, SameItself
<1>6. ASSUME NEW u, SameBlocks(u, turn[h]), pc[h] \in Holding,
             file' = u \/ file' = file,
             \/ pc'[h] \in Holding /\ turn'[h] = u
             \/ pc'[h] = "reply" /\ reply'[h].verdict # "block" /\ kind[h] # "Stop"
      PROVE  Counted'
  <2>1. SameBlocks(u, file) BY <1>4, <1>6 DEF SameBlocks
  <2>2. SameBlocks(file', file) BY <1>6, <2>1, SameItself
  <2>3. SameBlocks(u, file') BY <1>6, <2>1, SameItself
  <2> QED BY <1>2, <1>6, <2>2, <2>3, CapKept
<1>7. ASSUME NEW v \in Verdicts \ {"block"}, NEW n, NEW s, Answer(h, v, n, s)
      PROVE  pc'[h] = "reply" /\ reply'[h].verdict # "block"
  BY <1>1, <1>7 DEF Answer, TypeOK
<1>8. Verdicts = {"context", "failed", "first", "block", "passed", "letThrough",
                  "unchecked", "unreadable"}
  BY DEF Verdicts
<1>9. CASE LoadTurn(h)
  <2>1. pc'[h] = "loaded" /\ turn'[h] = file /\ file' = file
    BY <1>1, <1>9 DEF LoadTurn, Goto, TypeOK, session
  <2> QED BY <1>5, <2>1, SameItself DEF Holding
<1>10. CASE KeepTurn(h)
  <2>1. pc[h] = "loaded" /\ pc'[h] = "context" /\ turn'[h] = turn[h] /\ file' = file
    BY <1>1, <1>10 DEF KeepTurn, At, Goto, TypeOK, session
  <2> QED BY <1>4, <1>5, <2>1 DEF Holding
<1>11. CASE TurnStartCarry(h) \/ Begin(h)
  <2>1. ~event.continued /\ kind[h] # "AfterEdit" BY <1>11, BlockedTurnStays
  <2>2. \/ pc'[h] = "context" /\ turn'[h] = file'
        \/ Answer(h, "failed", None, {})
    BY <1>1, <1>11 DEF TurnStartCarry, Begin, Save, Goto, TypeOK
  <2>3. CASE pc'[h] = "context" /\ turn'[h] = file'
    <3>1. pc'[h] \in Holding /\ SameBlocks(turn'[h], file')
      BY <2>3, SameItself DEF Holding
    <3> QED BY <1>2, <2>1, <3>1, CapRestarts
  <2>4. CASE Answer(h, "failed", None, {})
    <3>1. pc'[h] = "reply" /\ reply'[h].verdict # "block" BY <1>7, <1>8, <2>4
    <3> QED BY <1>2, <2>1, <3>1, CapRestarts
  <2> QED BY <2>2, <2>3, <2>4
<1>12. CASE GiveContext(h)
  <2>1. pc[h] \in Holding BY <1>12 DEF GiveContext, Holding
  <2>2. PICK n : Answer(h, "context", n, {}) BY <1>12 DEF GiveContext
  <2>3. pc'[h] = "reply" /\ reply'[h].verdict # "block" BY <1>7, <1>8, <2>2
  <2>4. CASE kind[h] = "Stop" BY <1>2, <2>3, <2>4, CapRestarts
  <2>5. CASE kind[h] # "Stop" /\ UNCHANGED file BY <1>5, <2>3, <2>5
  <2>6. CASE /\ kind[h] # "Stop" /\ turn[h] # None
             /\ \E ok \in Outcomes : Save(ok, [turn[h] EXCEPT !.notice = None])
    <3>1. SameBlocks([turn[h] EXCEPT !.notice = None], turn[h])
      BY <1>3, <2>6, BlocksWritten
    <3>2. file' = [turn[h] EXCEPT !.notice = None] \/ file' = file BY <2>6 DEF Save
    <3> QED BY <1>6, <2>1, <2>3, <2>6, <3>1, <3>2
  <2> QED BY <1>12, <2>4, <2>5, <2>6 DEF GiveContext
<1>13. CASE SeenFiles(h)
  <2>1. pc[h] \in Holding /\ pc'[h] \in Holding
    BY <1>1, <1>13 DEF SeenFiles, At, Goto, TypeOK, Holding
  <2>2. CASE UNCHANGED <<turn, file>> BY <1>4, <1>5, <2>1, <2>2
  <2>3. CASE /\ turn[h] # None /\ turn' = [turn EXCEPT ![h] = RememberUnseen(turn[h], edit[h].nested)]
             /\ \E ok \in Outcomes : Save(ok, turn'[h])
    <3>1. SameBlocks(turn'[h], turn[h]) BY <1>1, <1>3, <2>3, BlocksWritten DEF TypeOK
    <3>2. file' = turn'[h] \/ file' = file BY <2>3 DEF Save
    <3> QED BY <1>6, <2>1, <3>1, <3>2
  <2> QED BY <1>13, <2>2, <2>3 DEF SeenFiles
<1>14. CASE Told(h)
  <2>1. pc[h] \in Holding /\ pc'[h] \in Holding
    BY <1>1, <1>14 DEF Told, At, Goto, TypeOK, Holding
  <2>2. CASE UNCHANGED <<turn, file>> BY <1>4, <1>5, <2>1, <2>2
  <2>3. CASE /\ turn[h] # None
             /\ turn' = [turn EXCEPT ![h] = Report(turn[h], found[h] \cup edit[h].nested)]
             /\ \E ok \in Outcomes : Save(ok, turn'[h])
    <3>1. found[h] \cup edit[h].nested \in SUBSET Items BY <1>3 DEF Items
    <3>2. SameBlocks(turn'[h], turn[h]) BY <1>1, <1>3, <2>3, <3>1, BlocksWritten DEF TypeOK
    <3>3. file' = turn'[h] \/ file' = file BY <2>3 DEF Save
    <3> QED BY <1>6, <2>1, <3>2, <3>3
  <2> QED BY <1>14, <2>2, <2>3 DEF Told
<1>15. CASE Snapshot(h)
  <2>1. pc[h] \in Holding /\ file' = file /\ turn' = turn
    BY <1>15 DEF Snapshot, At, Holding
  <2>2. CASE Goto(h, "check")
    <3>1. pc'[h] \in Holding BY <1>1, <2>2 DEF Goto, TypeOK, Holding
    <3> QED BY <1>4, <1>5, <2>1, <3>1
  <2>3. CASE kind[h] = "AfterEdit" /\ Answer(h, "failed", None, {})
    BY <1>5, <1>7, <1>8, <2>1, <2>3
  <2> QED BY <1>15, <2>2, <2>3 DEF Snapshot
<1>16. CASE CheckEdit(h)
  <2>1. pc[h] \in Holding /\ file' = file /\ turn' = turn /\ kind[h] = "AfterEdit"
    BY <1>16 DEF CheckEdit, At, Holding, session
  <2>2. CASE Goto(h, "told")
    <3>1. pc'[h] \in Holding BY <1>1, <2>2 DEF Goto, TypeOK, Holding
    <3> QED BY <1>4, <1>5, <2>1, <3>1
  <2>3. CASE Answer(h, "failed", None, {}) BY <1>5, <1>7, <1>8, <2>1, <2>3
  <2> QED BY <1>16, <2>2, <2>3 DEF CheckEdit
<1>17. ASSUME kind[h] = "Stop", NEW v \in Verdicts \ {"block"}, NEW n, Answer(h, v, None, n)
       PROVE  Counted'
  BY <1>2, <1>7, <1>17, CapRestarts
<1>18. CASE FirstStop(h) BY <1>8, <1>17, <1>18 DEF FirstStop, At
<1>19. CASE Pass(h) \/ LetThrough(h)
  BY <1>8, <1>17, <1>19 DEF Pass, LetThrough, EndTurn, Checked, At
<1>20. CASE UnreadableStart(h) BY <1>8, <1>17, <1>20 DEF UnreadableStart, At
<1>21. CASE Unchecked(h) BY <1>8, <1>17, <1>21 DEF Unchecked, At
<1>22. CASE Block(h)
  <2>1. pc[h] = "check" /\ kind[h] = "Stop" /\ turn[h] \in Turn /\ now[h] \in Trees
    BY <1>3, <1>22 DEF Block, Checked, At, TypeInv
  <2> DEFINE u == [turn[h] EXCEPT !.blocks = Blocks(h) + 1, !.blockedTree = now[h]]
  <2>2. CASE Answer(h, "failed", None, {}) BY <1>8, <1>17, <2>1, <2>2
  <2>3. CASE file' = u /\ Answer(h, "block", None, turn[h].unseen)
    <3>1. Blocks(h) \in Nat /\ Blocks(h) < MaxBlocks
      <4>1. turn[h].blocks \in Nat BY <2>1, TurnWritten
      <4>2. Blocks(h) < MaxBlocks BY <1>22 DEF Block, MayBlock
      <4> QED BY <4>1, <4>2 DEF Blocks
    <3>2. run.blocks \in Nat BY <1>1 DEF TypeOK
    <3>3. run.blocks <= Blocks(h)
      <4>1. CASE ~event.continued BY <3>2, <4>1 DEF Blocks, Counted
      <4>2. CASE event.continued
        <5>1. phase # "idle" /\ (\A g \in Hooks : ~Closing(g))
          BY <2>1 DEF PhaseInv, PhaseOf, Closing
        <5>2. Capped(file, run.blocks) /\ SameBlocks(turn[h], file)
          BY <1>4, <2>1, <4>2, <5>1 DEF Counted, Holding
        <5> QED BY <4>2, <5>2 DEF Capped, SameBlocks, Blocks
      <4> QED BY <4>1, <4>2
    <3>4. u.blocks = Blocks(h) + 1 /\ u.blockedTree = now[h] /\ u # None
      <4>1. u \in Turn
        <5>1. Blocks(h) + 1 \in Nat BY <3>1
        <5> QED BY <2>1, <5>1, TurnWritten
      <4>2. u.blocks = Blocks(h) + 1 /\ u.blockedTree = now[h] BY <2>1 DEF Turn
      <4> QED BY <4>1, <4>2, NoneAssumption
    <3> HIDE DEF u
    <3>5. Capped(file', run.blocks + 1) /\ Capped(file', run.blocks)
      BY <2>1, <2>3, <3>1, <3>2, <3>3, <3>4 DEF Capped
    <3>6. pc'[h] = "reply" BY <1>1, <2>3 DEF Answer, TypeOK
    <3>7. \A g \in Hooks \ {h} : pc'[g] = "off"
      BY <1>2, <2>1 DEF Framed, PhaseInv
    <3>8. UNCHANGED <<event, run, kind, phase>> BY <1>2 DEF Framed
    <3>9. \A g \in Hooks : pc'[g] \notin Holding BY <3>6, <3>7 DEF Holding
    <3>10. \A g \in Hooks : pc'[g] # "off" => kind[g] = "Stop" BY <2>1, <3>7
    <3> QED BY <3>5, <3>8, <3>9, <3>10 DEF Counted, WithinCap
  <2> QED BY <1>22, <2>2, <2>3 DEF Block, Save
<1> QED BY <1>9, <1>10, <1>11, <1>12, <1>13, <1>14, <1>15, <1>16, <1>18, <1>19, <1>20, <1>21,
           <1>22 DEF Hook

(* The agent's own steps: it starts a hook, ... *)
LEMMA CapLaunched ==
  ASSUME TypeOK, PhaseInv, Counted, NEW h \in Hooks, NEW k \in Kinds, NEW e, Launch(h, k, e),
         event'.continued = event.continued, run' = run, phase \in {"working", "resending"},
         k = "TurnStart" => event'.prompt = "reason",
         \A g \in Hooks : pc[g] # "off" => kind[g] = "AfterEdit"
  PROVE  Counted'
<1>1. /\ pc'[h] = "load" /\ kind'[h] = k /\ UNCHANGED <<file, turn, reply>>
      /\ \A g \in Hooks \ {h} : pc'[g] = pc[g] /\ kind'[g] = kind[g]
  BY DEF Launch, TypeOK
<1>2. \A g \in Hooks : pc'[g] \in Holding => SameBlocks(turn'[g], file')
  BY <1>1 DEF Counted, Holding
<1>3. \A g \in Hooks : ~Pending(g)' BY <1>1 DEF Pending, PhaseInv
<1>4. \A g \in Hooks : ~Closing(g) BY DEF Closing
<1>5. event.continued => Capped(file', run'.blocks) BY <1>1, <1>4 DEF Counted
<1>6. \A g \in Hooks : pc'[g] # "off" /\ kind'[g] = "TurnStart" => event'.prompt = "reason"
  BY <1>1
<1> QED BY <1>2, <1>3, <1>5, <1>6 DEF Counted, WithinCap

(* ... ends one, or reads a block. *)
LEMMA CapEnded ==
  ASSUME PhaseInv, Counted, NEW h \in Hooks, pc[h] # "off", Exit({h}), phase' = AfterHook(h),
         UNCHANGED <<file, event, run>>
  PROVE  Counted'
<1>1. \A g \in Hooks : pc'[g] # "off" =>
        g # h /\ pc'[g] = pc[g] /\ kind'[g] = kind[g] /\ turn'[g] = turn[g] /\ reply'[g] = reply[g]
  BY DEF Exit
<1>2. \A g \in Hooks : pc'[g] \in Holding => SameBlocks(turn'[g], file')
  BY <1>1 DEF Counted, Holding
<1>3. \A g \in Hooks : Pending(g)' => Pending(g) BY <1>1 DEF Pending
<1>4. event.continued /\ phase' # "idle" => Capped(file', run'.blocks)
  <2> SUFFICES ASSUME event.continued, phase' # "idle" PROVE Capped(file', run'.blocks)
    OBVIOUS
  <2>1. kind[h] # "Stop" BY DEF AfterHook
  <2>2. phase # "idle" /\ phase # "stopping" BY <2>1 DEF PhaseInv, PhaseOf
  <2>3. \A g \in Hooks : ~Closing(g) BY <2>2 DEF PhaseInv, PhaseOf, Closing
  <2> QED BY <2>2, <2>3 DEF Counted
<1>5. WithinCap' /\ (~event'.continued => run'.blocks = 0) BY DEF Counted, WithinCap
<1>6. \A g \in Hooks : pc'[g] # "off" /\ kind'[g] = "TurnStart" /\ event'.continued
        => event'.prompt = "reason"
  BY <1>1 DEF Counted
<1>7. \A g \in Hooks : Pending(g)' => Capped(file', run'.blocks + 1) BY <1>3 DEF Counted
<1> QED BY <1>2, <1>4, <1>5, <1>6, <1>7 DEF Counted

LEMMA LostStays ==
  ASSUME [Next]_vars, \A h \in Hooks : ~Prompt(h) PROVE lost => lost'
<1>1. ASSUME NEW h \in Hooks, Hook(h) PROVE lost => lost'
  BY <1>1 DEF Hook, LoadTurn, KeepTurn, TurnStartCarry, Begin, GiveContext, SeenFiles, Snapshot,
              CheckEdit, Told, FirstStop, Pass, LetThrough, EndTurn, Block, UnreadableStart,
              Unchecked, history
<1>2. ASSUME NEW h \in Hooks, Agent(h) PROVE lost => lost'
  BY <1>2 DEF Agent, Resend, Compact, StopTurn, EditFiles, Kill, Deliver, history
<1> QED BY <1>1, <1>2 DEF Next, ChangeTree, Interrupt, vars, history

(* A prompt begins the count anew. *)
LEMMA CapAnew ==
  ASSUME TypeInv, NEW h \in Hooks, Prompt(h) PROVE Counted'
<1>1. \A g \in Hooks : pc'[g] \in {"load", "off"}
  BY DEF Prompt, StartTurn, Launch, Quiet, hooks, TypeInv, TypeOK
<1>2. ~event'.continued /\ run'.blocks = 0 BY DEF Prompt
<1> QED BY <1>1, <1>2 DEF Counted, WithinCap, Holding, Pending

LEMMA CapStep == TypeInv /\ PhaseInv /\ CapInv /\ [Next]_vars => CapInv'
<1> SUFFICES ASSUME TypeInv, PhaseInv, CapInv, [Next]_vars, ~lost',
                    \A h \in Hooks : ~Prompt(h)
             PROVE  Counted'
  BY CapAnew DEF CapInv
<1>1. TypeOK /\ Counted BY LostStays DEF TypeInv, CapInv
<1>2. ASSUME NEW h \in Hooks, Prompt(h) \/ Resend(h) \/ Compact(h) \/ StopTurn(h) PROVE Counted'
  <2>1. "TurnStart" \in Kinds /\ "SessionStart" \in Kinds /\ "Stop" \in Kinds BY DEF Kinds
  <2>2. Quiet /\ (\A g \in Hooks : pc[g] # "off" => kind[g] = "AfterEdit")
    BY <1>2 DEF Prompt, Resend, Compact, StopTurn, Quiet
  <2>4. CASE Resend(h)
    <3>1. event'.continued = event.continued /\ event'.prompt = "reason" /\ run' = run
      BY <1>1, <2>4 DEF Resend, TypeOK, history
    <3>2. CASE Launch(h, "TurnStart", NoEdit)
      BY <1>1, <2>1, <2>2, <2>4, <3>1, <3>2, CapLaunched DEF Resend
    <3>3. CASE UNCHANGED <<file, hooks>>
      BY <1>1, <2>2, <2>4, <3>1, <3>3 DEF Resend, Counted, WithinCap, Holding, Pending, Closing,
                                         Quiet, hooks
    <3> QED BY <2>4, <3>2, <3>3 DEF Resend, StartTurn
  <2>5. CASE Compact(h)
    BY <1>1, <2>1, <2>2, <2>5, CapLaunched DEF Compact, history
  <2>6. CASE StopTurn(h)
    BY <1>1, <2>1, <2>2, <2>6, CapLaunched DEF StopTurn, history
  <2> QED BY <1>2, <2>4, <2>5, <2>6
<1>3. ASSUME NEW h \in Hooks, NEW e \in Edits, NEW t \in Trees, EditFiles(h, e, t) PROVE Counted'
  <2>1. \A g \in Hooks : pc[g] # "off" => kind[g] = "AfterEdit"
    BY <1>1, <1>3 DEF EditFiles, PhaseInv, PhaseOf, TypeOK, Kinds
  <2>2. "AfterEdit" \in Kinds BY DEF Kinds
  <2> QED BY <1>1, <1>3, <2>1, <2>2, CapLaunched DEF EditFiles, history
<1>4. ASSUME NEW h \in Hooks, Kill(h) PROVE Counted'
  BY <1>1, <1>4, CapEnded DEF Kill, history
<1>5. ASSUME NEW h \in Hooks, Deliver(h) PROVE Counted'
  <2>1. CASE reply[h].verdict # "block" BY <1>1, <1>5, <2>1, CapEnded DEF Deliver
  <2>2. CASE reply[h].verdict = "block"
    <3>1. Pending(h) BY <1>5, <2>2 DEF Deliver, Pending
    <3>2. Capped(file, run.blocks + 1) /\ kind[h] = "Stop" BY <1>1, <3>1 DEF Counted, PhaseInv
    <3>3. \A g \in Hooks : pc'[g] = "off"
      BY <1>5, <3>2 DEF Deliver, Exit, PhaseInv
    <3>4. run.blocks \in Nat /\ run.blocks <= MaxBlocks BY <1>1 DEF TypeOK, Counted, WithinCap
    <3>5. run'.blocks = run.blocks + 1 /\ file' = file /\ event'.continued = TRUE
      BY <1>1, <1>5, <2>2, <3>4 DEF Deliver, TypeOK
    <3>6. file # None /\ file.blocks \in Nat /\ run.blocks + 1 <= MaxBlocks
      <4>1. file \in Turn BY <1>1, <3>2 DEF TypeOK, Capped
      <4>2. file.blocks \in Nat BY <4>1, TurnWritten
      <4> QED BY <3>2, <3>4, <4>2 DEF Capped
    <3>7. Capped(file', run'.blocks) /\ WithinCap'
      BY <3>2, <3>5, <3>6 DEF WithinCap
    <3> QED BY <3>3, <3>5, <3>7 DEF Counted, Holding, Pending
  <2> QED BY <2>1, <2>2
<1>6. CASE Interrupt
  <2>1. /\ \A g \in Hooks : pc'[g] = "off"
        /\ phase' = "idle" /\ UNCHANGED <<event, run>>
    BY <1>6 DEF Interrupt, Exit, history
  <2> QED BY <1>1, <2>1 DEF Counted, WithinCap, Holding, Pending
<1>7. ASSUME NEW t \in Trees, ChangeTree(t) PROVE Counted'
  BY <1>1, <1>7 DEF ChangeTree, hooks, history, Counted, WithinCap, Pending, Closing
<1>8. CASE UNCHANGED vars
  BY <1>1, <1>8 DEF vars, session, hooks, history, Counted, WithinCap, Pending, Closing
<1> QED BY <1>1, <1>2, <1>3, <1>4, <1>5, <1>6, <1>7, <1>8, CapHook DEF Next, Agent

(* The agent is blocked at most MaxBlocks times between two prompts of the *)
(* person, whatever is killed, interrupted or not saved on the way.        *)
THEOREM BlocksAreCapped == Spec => []BlockCap
<1>1. CapInv => BlockCap BY DEF CapInv, Counted, WithinCap, BlockCap
<1>2. Init => TypeInv /\ PhaseInv /\ CapInv BY TypeInit, PhaseInit, CapInit
<1>3. TypeInv /\ PhaseInv /\ CapInv /\ [Next]_vars => (TypeInv /\ PhaseInv /\ CapInv)'
  BY TypeStep, PhaseStep, CapStep
<1> QED BY <1>1, <1>2, <1>3, PTL DEF Spec
-----------------------------------------------------------------------------
(* What HookTurn keeps of a turn from its start to the stop that checks it. *)

(* A person's turn start that has not begun the turn, and what lies between *)
(* two turns.                                                              *)
Fresh(h) == kind[h] = "TurnStart" /\ pc[h] \in {"load", "loaded"} /\ event.prompt = "person"
Between  == phase = "idle" \/ \E h \in Hooks : Closing(h) \/ Fresh(h)

(* A block reason comes back only after a block; a stop gives no context;  *)
(* without parallel edits hooks run one at a time; where no hook starts a   *)
(* turn, none runs then.                                                   *)
NoStart == "noTurnStart" \in env
StartInv ==
  /\ event.prompt = "reason" \/ phase = "resending" => event.continued
  /\ \A h \in Hooks : pc[h] = "context" => kind[h] # "Stop"
  /\ "parallel" \notin env =>
       \A g, h \in Hooks : g # h /\ pc[g] # "off" => pc[h] = "off"
  /\ NoStart => \A h \in Hooks : pc[h] # "off" => kind[h] # "TurnStart"

(* What was not checked is in the file, which carries it to the next turn; *)
(* where no hook starts a turn, the file itself is the next turn's start.  *)
Pends(u) == u.unchecked /\ ~NoStart
DebtInv ==
  /\ file # None /\ file.unchecked => debt # None
  /\ debt # None => file # None /\ file.tree = debt
  /\ debt # None /\ Between => file.unchecked \/ NoStart
  /\ NoStart => debt # None

(* Within a turn the file says where it began. *)
SinceInv ==
  /\ ~Between => file # None /\ file.tree = since /\ ~Pends(file)
  /\ (\E h \in Hooks : Fresh(h)) => debt = None \/ since = debt
  /\ \A h \in Hooks : Closing(h) /\ reply[h].verdict = "passed"
                        => now[h] = since \/ Found[now[h]] = {}

(* A copy is the file, or with parallel edits of the same turn. *)
Copy(h) ==
  pc[h] \in Holding =>
    /\ kind[h] # "AfterEdit" \/ "parallel" \notin env => turn[h] = file
    /\ kind[h] = "AfterEdit" =>
         /\ turn[h] # None /\ turn[h].tree = since /\ ~Pends(turn[h])
         /\ PromptsCarryContext => turn[h].notice # "unreadable"
CopyInv == \A h \in Hooks : Copy(h)

(* A notice that a start was unreadable waits for the next turn's start.   *)
OwedInv ==
  PromptsCarryContext /\ file # None /\ file.notice = "unreadable" =>
    Between \/ \E h \in Hooks : pc[h] = "context" /\ kind[h] = "TurnStart"

(* The file remembers what the person is to be named. *)
InOrder == env \cap {"parallel", "outage"} = {}
Remembered(h) ==
  kind[h] = "AfterEdit" /\ pc[h] \in {"snapshot", "check", "told", "context", "reply"}
    => edit[h].nested \subseteq file.unseen
UnseenInv ==
  InOrder =>
    /\ file # None => ~Pends(file)
    /\ ~Between => unnamed \subseteq file.unseen
    /\ \A h \in Hooks :
         /\ Remembered(h)
         /\ Closing(h) /\ reply[h].verdict \in {"passed", "letThrough"}
              => unnamed \subseteq reply[h].named

KeptInv == DebtInv /\ SinceInv /\ CopyInv /\ OwedInv /\ UnseenInv

(* Within a turn, nothing is owed anew. *)
DebtGoesOn == debt' = debt \/ (debt' = None /\ ~NoStart)

-----------------------------------------------------------------------------
LEMMA SavesSucceed ==
  ASSUME Undisturbed
  PROVE  Outcomes = {TRUE} /\ "interrupt" \notin env /\ "kill" \notin env
BY DEF Undisturbed, Outcomes

(* What the handlers write leaves the rest of the turn alone. *)
LEMMA FieldsWritten ==
  ASSUME NEW u \in Turn
  PROVE  /\ u # None /\ u.unchecked \in BOOLEAN
         /\ LET w == [u EXCEPT !.notice = None]
            IN w # None /\ w.tree = u.tree /\ w.unchecked = u.unchecked /\ w.unseen = u.unseen
               /\ w.notice = None
         /\ LET w == CarryTurn(u)
            IN w # None /\ w.tree = u.tree /\ w.unchecked = FALSE /\ w.notice = u.notice
         /\ LET w == [u EXCEPT !.notice = "unchecked", !.unchecked = TRUE]
            IN w # None /\ w.tree = u.tree /\ w.unchecked = TRUE /\ w.notice = "unchecked"
<1>1. \A w \in Turn : w # None BY NoneAssumption
<1>2. u.tree \in Trees /\ u.notice \in Notices /\ u.unchecked \in BOOLEAN BY DEF Turn
<1>3. /\ [u EXCEPT !.notice = None] \in Turn
      /\ [u EXCEPT !.notice = "unchecked", !.unchecked = TRUE] \in Turn
  BY TurnWritten
<1>4. CarryTurn(u) \in Turn
  <2>1. BeginTurn(u.tree, u.notice) \in Turn BY <1>2, TurnTyped
  <2> QED BY <2>1, TurnWritten DEF CarryTurn
<1>5. /\ CarryTurn(u).tree = u.tree /\ CarryTurn(u).unchecked = FALSE
      /\ CarryTurn(u).notice = u.notice
  BY DEF CarryTurn, BeginTurn
<1>6. LET w == [u EXCEPT !.notice = None]
      IN w.tree = u.tree /\ w.unchecked = u.unchecked /\ w.unseen = u.unseen /\ w.notice = None
  BY DEF Turn
<1>7. LET w == [u EXCEPT !.notice = "unchecked", !.unchecked = TRUE]
      IN w.tree = u.tree /\ w.unchecked = TRUE /\ w.notice = "unchecked"
  BY DEF Turn
<1> QED BY <1>1, <1>2, <1>3, <1>4, <1>5, <1>6, <1>7

LEMMA EditsWritten ==
  ASSUME NEW u \in Turn, NEW paths \in SUBSET Nested, NEW ids \in SUBSET Items
  PROVE  /\ LET w == RememberUnseen(u, paths)
            IN w # None /\ w.tree = u.tree /\ w.unchecked = u.unchecked /\ w.notice = u.notice
               /\ w.unseen = u.unseen \cup paths
         /\ LET w == Report(u, ids)
            IN w # None /\ w.tree = u.tree /\ w.unchecked = u.unchecked /\ w.notice = u.notice
               /\ w.unseen = u.unseen
<1>1. RememberUnseen(u, paths) # None /\ Report(u, ids) # None BY TurnWritten, NoneAssumption
<1> QED BY <1>1 DEF RememberUnseen, Report, Turn

LEMMA BegunTurn ==
  ASSUME NEW t \in Trees, NEW n \in Notices
  PROVE  LET w == BeginTurn(t, n)
         IN w # None /\ w.tree = t /\ w.unchecked = FALSE /\ w.notice = n /\ w.unseen = {}
BY TurnTyped, NoneAssumption DEF BeginTurn

(* A hook that neither starts nor ends a turn runs within one. *)
LEMMA Inside ==
  ASSUME TypeOK, PhaseInv, NEW h \in Hooks, pc[h] # "off", ~Fresh(h), ~Closing(h)
  PROVE  ~Between
BY DEF Between, PhaseInv, PhaseOf, Fresh, Closing

LEMMA InsideNext ==
  ASSUME TypeOK', PhaseInv', NEW h \in Hooks, pc'[h] # "off", ~Fresh(h)', ~Closing(h)'
  PROVE  ~Between'
BY DEF Between, PhaseInv, PhaseOf, Fresh, Closing

LEMMA InsidePhase ==
  /\ PhaseInv /\ phase \in {"working", "resending"} => ~Between
  /\ (PhaseInv /\ phase \in {"working", "resending"} => ~Between)'
BY DEF Between, PhaseInv, PhaseOf, Fresh, Closing

(* A step within a turn *)
LEMMA GoesOn ==
  ASSUME KeptInv, ~Between, ~Between', UNCHANGED <<env, since>>, DebtGoesOn,
         file' # None, file'.tree = since, ~Pends(file'),
         PromptsCarryContext => file'.notice # "unreadable",
         InOrder => unnamed' \subseteq file'.unseen /\ \A g \in Hooks : Remembered(g)',
         \A g \in Hooks : Copy(g)'
  PROVE  KeptInv'
<1>1. DebtInv' BY DEF KeptInv, DebtInv, SinceInv, DebtGoesOn, Pends, NoStart
<1>2. SinceInv' BY DEF SinceInv, Between, Pends, NoStart
<1>3. CopyInv' BY DEF CopyInv
<1>4. OwedInv' BY DEF OwedInv, PromptsCarryContext
<1>5. UnseenInv' BY DEF UnseenInv, InOrder, Between, Pends, NoStart
<1> QED BY <1>1, <1>2, <1>3, <1>4, <1>5 DEF KeptInv

(* ... by a hook's handler *)
LEMMA HandlerGoesOn ==
  ASSUME TypeOK, PhaseInv, TypeOK', PhaseInv', StartInv, KeptInv, NEW h \in Hooks, Framed(h),
         ~Fresh(h), ~Fresh(h)', ~Closing(h)',
         UNCHANGED <<env, since, edit, unnamed>>, DebtGoesOn,
         file' # None, file'.tree = since, ~Pends(file'),
         PromptsCarryContext => file'.notice # "unreadable",
         InOrder => file.unseen \subseteq file'.unseen,
         InOrder => Remembered(h)',
         Copy(h)'
  PROVE  KeptInv'
<1>1. /\ pc[h] # "off" /\ pc[h] # "reply" /\ pc'[h] # "off"
      /\ \A g \in Hooks \ {h} : pc'[g] = pc[g] /\ turn'[g] = turn[g]
      /\ kind' = kind
  BY DEF Framed, Holding
<1>2. ~Between BY <1>1, Inside DEF Closing
<1>3. ~Between' BY <1>1, InsideNext
<1>4. InOrder => unnamed' \subseteq file'.unseen BY <1>2 DEF KeptInv, UnseenInv
<1>5. ASSUME NEW g \in Hooks \ {h} PROVE Copy(g)'
  <2>1. CASE pc[g] = "off" BY <1>1, <2>1 DEF Copy, Holding
  <2>2. CASE pc[g] # "off"
    <3>1. kind[g] = "AfterEdit" /\ "parallel" \in env BY <1>1, <2>2 DEF PhaseInv, StartInv
    <3>2. Copy(g) BY DEF KeptInv, CopyInv
    <3> QED BY <1>1, <3>1, <3>2 DEF Copy, Pends, NoStart, PromptsCarryContext
  <2> QED BY <2>1, <2>2
<1>6. ASSUME NEW g \in Hooks \ {h}, InOrder PROVE Remembered(g)'
  <2>1. pc'[g] = "off" BY <1>1, <1>6 DEF StartInv, InOrder
  <2> QED BY <2>1 DEF Remembered
<1> QED BY <1>2, <1>3, <1>4, <1>5, <1>6, GoesOn

-----------------------------------------------------------------------------
LEMMA HookEnv ==
  ASSUME NEW h \in Hooks, Hook(h) PROVE env' = env
BY DEF Hook, session, LoadTurn, KeepTurn, TurnStartCarry, Begin, GiveContext, SeenFiles,
       Snapshot, CheckEdit, Told, FirstStop, Pass, LetThrough, EndTurn, Block,
       UnreadableStart, Unchecked

LEMMA EnvStays == [Next]_vars => env' = env
<1>1. ASSUME NEW h \in Hooks, Hook(h) PROVE env' = env BY <1>1, HookEnv
<1>2. ASSUME NEW h \in Hooks, Agent(h) PROVE env' = env
  BY <1>2 DEF Agent, Prompt, Resend, Compact, StopTurn, EditFiles, Kill, Deliver
<1>3. [Next]_vars /\ ~(\E h \in Hooks : Agent(h) \/ Hook(h)) => env' = env
  BY DEF Next, ChangeTree, Interrupt, vars, session
<1> QED BY <1>1, <1>2, <1>3

LEMMA StartInit == Init => StartInv
BY DEF Init, StartInv

LEMMA StartStep == TypeInv /\ PhaseInv /\ StartInv /\ [Next]_vars => StartInv'
<1> SUFFICES ASSUME TypeInv, PhaseInv, StartInv, [Next]_vars PROVE StartInv'
  OBVIOUS
<1>1. TypeOK BY DEF TypeInv
<1>2. ASSUME NEW h \in Hooks, Hook(h) PROVE StartInv'
  <2>1. Framed(h) BY <1>1, <1>2, HookFramed
  <2>2. env' = env BY <1>2, HookEnv
  <2>3. pc'[h] = "context" => kind[h] # "Stop"
    <3> USE <1>1 DEF TypeOK, Goto, At, Answer
    <3>1. CASE LoadTurn(h) BY <3>1 DEF LoadTurn
    <3>2. CASE KeepTurn(h) BY <3>2 DEF KeepTurn
    <3>3. CASE TurnStartCarry(h) BY <3>3 DEF TurnStartCarry
    <3>4. CASE Begin(h) BY <3>4 DEF Begin
    <3>5. CASE GiveContext(h) BY <3>5 DEF GiveContext
    <3>6. CASE SeenFiles(h) BY <3>6 DEF SeenFiles
    <3>7. CASE Snapshot(h) BY <3>7 DEF Snapshot
    <3>8. CASE CheckEdit(h) BY <3>8 DEF CheckEdit
    <3>9. CASE Told(h) BY <3>9 DEF Told
    <3>10. CASE FirstStop(h) BY <3>10 DEF FirstStop
    <3>11. CASE Pass(h) \/ LetThrough(h) BY <3>11 DEF Pass, LetThrough, EndTurn
    <3>12. CASE Block(h) BY <3>12 DEF Block
    <3>13. CASE UnreadableStart(h) BY <3>13 DEF UnreadableStart
    <3>14. CASE Unchecked(h) BY <3>14 DEF Unchecked
    <3> QED BY <1>2, <3>1, <3>2, <3>3, <3>4, <3>5, <3>6, <3>7, <3>8, <3>9, <3>10, <3>11, <3>12,
               <3>13, <3>14 DEF Hook
  <2>4. \A g \in Hooks : pc'[g] # "off" => pc[g] # "off" BY <2>1 DEF Framed, Holding
  <2>5. \A g \in Hooks : pc'[g] = "context" => kind'[g] # "Stop"
    BY <2>1, <2>3 DEF Framed, StartInv
  <2>6. \A g \in Hooks : pc[g] = "off" => pc'[g] = "off" BY <2>1 DEF Framed, Holding
  <2> QED BY <2>1, <2>2, <2>4, <2>5, <2>6 DEF Framed, StartInv, NoStart
<1>3. ASSUME NEW h \in Hooks, NEW k \in Kinds, NEW e, Launch(h, k, e),
             Quiet \/ "parallel" \in env, env' = env, NoStart => k # "TurnStart",
             event'.prompt = "reason" \/ phase' = "resending" => event'.continued
      PROVE  StartInv'
  <2>1. pc'[h] = "load" /\ \A g \in Hooks \ {h} : pc'[g] = pc[g] /\ kind'[g] = kind[g]
    BY <1>1, <1>3 DEF Launch, TypeOK
  <2>2. kind'[h] = k BY <1>1, <1>3 DEF Launch, TypeOK
  <2> QED BY <1>3, <2>1, <2>2 DEF StartInv, Quiet, NoStart
<1>4. ASSUME NEW h \in Hooks, Prompt(h) \/ Resend(h) \/ Compact(h) \/ StopTurn(h) PROVE StartInv'
  <2>1. event'.prompt = "reason" \/ phase' = "resending" => event'.continued
    BY <1>1, <1>4 DEF Prompt, Resend, StartTurn, Compact, StopTurn, StartInv, TypeOK
  <2>2. CASE UNCHANGED hooks
    BY <1>4, <2>1, <2>2 DEF Prompt, Resend, Compact, StopTurn, Quiet, hooks, StartInv, NoStart
  <2>3. CASE ~(UNCHANGED hooks)
    BY <1>3, <1>4, <2>1, <2>3 DEF Prompt, Resend, StartTurn, Compact, StopTurn, Kinds, NoStart
  <2> QED BY <2>2, <2>3
<1>5. ASSUME NEW h \in Hooks, NEW e \in Edits, NEW t \in Trees, EditFiles(h, e, t) PROVE StartInv'
  BY <1>3, <1>5 DEF EditFiles, Kinds, StartInv, NoStart
<1>6. ASSUME NEW h \in Hooks, Kill(h) \/ Deliver(h) PROVE StartInv'
  <2>1. /\ \A g \in Hooks : pc'[g] # "off" => pc'[g] = pc[g] /\ kind'[g] = kind[g]
        /\ env' = env
    BY <1>6 DEF Kill, Deliver, Exit
  <2>2. event'.prompt = "reason" \/ phase' = "resending" => event'.continued
    BY <1>1, <1>6 DEF Kill, Deliver, AfterHook, StartInv, TypeOK
  <2> QED BY <2>1, <2>2 DEF StartInv, NoStart
<1>7. CASE Interrupt BY <1>7 DEF Interrupt, Exit, StartInv
<1>8. CASE UNCHANGED vars \/ \E t \in Trees : ChangeTree(t)
  BY <1>8 DEF vars, ChangeTree, session, hooks, StartInv, NoStart
<1> QED BY <1>2, <1>4, <1>5, <1>6, <1>7, <1>8 DEF Next, Agent

-----------------------------------------------------------------------------
(* The turn's start *)

(* A hook that is not of an edit runs alone. *)
LEMMA Alone ==
  ASSUME TypeOK, PhaseInv, NEW h \in Hooks, pc[h] # "off", kind[h] # "AfterEdit"
  PROVE  /\ \A g \in Hooks \ {h} : pc[g] = "off"
         /\ phase = PhaseOf(kind[h]) /\ phase # "idle"
BY DEF PhaseInv, PhaseOf

LEMMA StartLoaded ==
  ASSUME TypeOK, PhaseInv, Undisturbed, KeptInv, NEW h \in Hooks, Fresh(h), LoadTurn(h)
  PROVE  KeptInv'
<1>1. \A g \in Hooks \ {h} : pc[g] = "off" BY Alone DEF Fresh
<1>2. /\ pc' = [pc EXCEPT ![h] = "loaded"] /\ turn' = [turn EXCEPT ![h] = file]
      /\ UNCHANGED <<env, tree, file, phase, event, kind, edit, now, reply, debt, since, unnamed>>
  BY DEF LoadTurn, Goto, session, Undisturbed
<1>3. Fresh(h)' /\ Between /\ Between' BY <1>2 DEF Fresh, Between, TypeOK
<1>4. pc'[h] = "loaded" /\ turn'[h] = file /\ \A g \in Hooks \ {h} : pc'[g] = "off"
  BY <1>1, <1>2 DEF TypeOK
<1>5. DebtInv' BY <1>2, <1>3 DEF KeptInv, DebtInv, NoStart
<1>6. \A g \in Hooks : ~Closing(g)' BY <1>4 DEF Closing
<1>7. SinceInv' BY <1>2, <1>3, <1>6 DEF KeptInv, SinceInv
<1>8. CopyInv' BY <1>2, <1>4 DEF CopyInv, Copy, Holding, Fresh
<1>9. OwedInv' BY <1>3 DEF OwedInv
<1>10. \A g \in Hooks : Remembered(g)' BY <1>2, <1>4 DEF Remembered
<1>11. UnseenInv' BY <1>2, <1>3, <1>6, <1>10 DEF KeptInv, UnseenInv, InOrder, Pends, NoStart
<1> QED BY <1>5, <1>7, <1>8, <1>9, <1>11 DEF KeptInv

(* A turn that starts begins where the person prompted, or is carried. *)
LEMMA TurnBegun ==
  ASSUME TypeOK, PhaseInv, TypeOK', PhaseInv', Undisturbed, StartInv, KeptInv,
         NEW h \in Hooks, Framed(h), kind[h] # "AfterEdit",
         pc'[h] = "context", turn'[h] = file', UNCHANGED <<env, edit, debt>>,
         file' # None, file'.tree = since', ~file'.unchecked, debt = None \/ file'.tree = debt,
         kind[h] # "TurnStart" => "cursor" \in env \/ file'.notice # "unreadable",
         InOrder => unnamed' \subseteq file'.unseen
  PROVE  KeptInv'
<1>1. \A g \in Hooks \ {h} : pc'[g] = "off" BY Alone DEF Framed, Holding
<1>2. kind' = kind BY DEF Framed
<1>3. ~Between' BY <1>2, InsideNext DEF Fresh, Closing
<1>4. DebtInv' BY <1>3 DEF KeptInv, DebtInv, NoStart
<1>5. SinceInv' BY <1>3 DEF SinceInv, Between, Pends
<1>6. CopyInv' BY <1>1, <1>2 DEF CopyInv, Copy, Holding
<1>7. OwedInv' BY <1>2 DEF OwedInv, PromptsCarryContext
<1>8. \A g \in Hooks : Remembered(g)' BY <1>1, <1>2 DEF Remembered
<1>9. UnseenInv' BY <1>3, <1>8 DEF UnseenInv, InOrder, Between, Pends
<1> QED BY <1>4, <1>5, <1>6, <1>7, <1>9 DEF KeptInv

LEMMA TurnStarts ==
  ASSUME TypeInv, PhaseInv, Counted, TypeOK', PhaseInv', Undisturbed, StartInv, KeptInv,
         NEW h \in Hooks, TurnStartCarry(h) \/ Begin(h)
  PROVE  KeptInv'
<1>1. TypeOK BY DEF TypeInv
<1>2. Framed(h) BY <1>1, HookFramed DEF Hook
<1>3. ~event.continued /\ kind[h] \in {"TurnStart", "SessionStart"} BY BlockedTurnStays
<1>4. pc[h] = "loaded" BY DEF TurnStartCarry, Begin, At
<1>5. event.prompt = "person" BY <1>1, <1>3 DEF StartInv, TypeOK
<1>6. turn[h] = file BY <1>3, <1>4 DEF KeptInv, CopyInv, Copy, Holding
<1>7. Outcomes = {TRUE} BY SavesSucceed
<1>8. tree \in Trees /\ file \in Turn \cup {None} BY <1>1 DEF TypeOK
<1>9. kind[h] = "TurnStart"
  <2> SUFFICES ASSUME kind[h] = "SessionStart" PROVE FALSE
    BY <1>3
  <2>1. file = None BY <1>6 DEF TurnStartCarry, Begin, At
  <2>2. ~Between BY <1>1, <1>4, Inside DEF Fresh, Closing
  <2> QED BY <2>1, <2>2 DEF KeptInv, SinceInv
<1>10. Fresh(h) BY <1>4, <1>5, <1>9 DEF Fresh
<1>11. Between /\ ~NoStart /\ (debt = None \/ since = debt)
  BY <1>4, <1>9, <1>10 DEF Between, KeptInv, SinceInv, StartInv
<1>12. CASE TurnStartCarry(h)
  <2>1. file \in Turn /\ file.unchecked BY <1>6, <1>8, <1>12 DEF TurnStartCarry
  <2>2. file' = CarryTurn(file) /\ turn' = [turn EXCEPT ![h] = CarryTurn(file)]
        /\ Goto(h, "context")
    BY <1>6, <1>7, <1>12 DEF TurnStartCarry, Save
  <2>3. debt # None /\ file.tree = debt BY <2>1, NoneAssumption DEF KeptInv, DebtInv
  <2>4. file' # None /\ file'.tree = since /\ ~file'.unchecked
    BY <1>11, <2>1, <2>2, <2>3, FieldsWritten
  <2>5. ~InOrder BY <1>11, <2>1, NoneAssumption DEF KeptInv, UnseenInv, Pends
  <2>6. pc'[h] = "context" /\ turn'[h] = file' BY <1>1, <2>2 DEF Goto, TypeOK
  <2>7. UNCHANGED <<env, since, edit, debt>> BY <1>12 DEF TurnStartCarry, history
  <2> QED BY <1>1, <1>2, <1>9, <1>11, <2>3, <2>4, <2>5, <2>6, <2>7, TurnBegun
<1>13. CASE Begin(h)
  <2> DEFINE notice == IF turn[h] = None THEN None ELSE turn[h].notice
  <2>1. notice \in Notices BY <1>6, <1>8, TurnWritten DEF Notices
  <2>2. file' = BeginTurn(tree, notice) /\ turn' = [turn EXCEPT ![h] = BeginTurn(tree, notice)]
        /\ Goto(h, "context") /\ unnamed' = {}
        /\ since' = IF debt = None THEN tree ELSE since
    BY <1>7, <1>13 DEF Begin, Save
  <2>3. file = None \/ ~file.unchecked BY <1>6, <1>9, <1>13 DEF Begin, At
  <2>4. debt = None BY <1>11, <2>3 DEF KeptInv, DebtInv
  <2> HIDE DEF notice
  <2>5. file' # None /\ file'.tree = since' /\ ~file'.unchecked
    BY <1>8, <2>1, <2>2, <2>4, BegunTurn
  <2>6. pc'[h] = "context" /\ turn'[h] = file' BY <1>1, <2>2 DEF Goto, TypeOK
  <2>7. UNCHANGED <<env, edit, debt>> BY <1>13 DEF Begin
  <2> QED BY <1>1, <1>2, <1>9, <2>2, <2>4, <2>5, <2>6, <2>7, TurnBegun
<1> QED BY <1>12, <1>13

-----------------------------------------------------------------------------
(* Within a turn *)
LEMMA Within ==
  ASSUME TypeOK, PhaseInv, KeptInv, NEW h \in Hooks, pc[h] # "off", ~Fresh(h), ~Closing(h)
  PROVE  /\ file \in Turn /\ file # None /\ file.tree = since /\ ~Pends(file)
         /\ InOrder => unnamed \subseteq file.unseen
         /\ PromptsCarryContext /\ file.notice = "unreadable"
              => pc[h] = "context" /\ kind[h] = "TurnStart"
<1>1. ~Between BY Inside
<1>2. file # None /\ file.tree = since /\ ~Pends(file) BY <1>1 DEF KeptInv, SinceInv
<1>3. file \in Turn BY <1>2 DEF TypeOK
<1>4. InOrder => unnamed \subseteq file.unseen BY <1>1 DEF KeptInv, UnseenInv
<1>5. ASSUME PromptsCarryContext, file.notice = "unreadable"
      PROVE  pc[h] = "context" /\ kind[h] = "TurnStart"
  <2>1. PICK g \in Hooks : pc[g] = "context" /\ kind[g] = "TurnStart"
    BY <1>1, <1>2, <1>5 DEF KeptInv, OwedInv
  <2>2. g = h BY <2>1, Alone
  <2> QED BY <2>1, <2>2
<1> QED BY <1>2, <1>3, <1>4, <1>5

(* A handler that writes nothing moves on with its copy, or answers. *)
LEMMA NothingWritten ==
  ASSUME TypeOK, PhaseInv, TypeOK', PhaseInv', StartInv, KeptInv, NEW h \in Hooks, Framed(h),
         ~Fresh(h), ~Fresh(h)', ~Closing(h)',
         ~(pc[h] = "context" /\ kind[h] = "TurnStart"),
         UNCHANGED <<env, since, edit, unnamed, file>>, DebtGoesOn,
         \/ pc[h] = "load" /\ turn'[h] = file
         \/ pc[h] # "load" /\ turn'[h] = turn[h] /\ pc[h] # "loaded"
         \/ kind[h] # "AfterEdit" /\ turn'[h] = turn[h] /\ pc[h] # "load",
         pc[h] = "load" => pc'[h] = "loaded"
  PROVE  KeptInv'
<1>1. /\ pc[h] \in {"load"} \cup Holding /\ pc'[h] \in {"reply"} \cup Holding /\ kind' = kind
      /\ pc[h] # "off" /\ ~Closing(h)
  BY DEF Framed, Holding, Closing
<1>2. /\ file # None /\ file.tree = since /\ ~Pends(file)
      /\ PromptsCarryContext => file.notice # "unreadable"
  BY <1>1, Within
<1>3. Copy(h)'
  <2> USE DEF Pends, NoStart, PromptsCarryContext
  <2>1. CASE turn'[h] = file BY <1>1, <1>2, <2>1 DEF Copy
  <2>2. CASE turn'[h] = turn[h] /\ pc[h] # "load"
    <3>1. Copy(h) /\ pc[h] \in Holding BY <1>1, <2>2 DEF KeptInv, CopyInv
    <3> QED BY <1>1, <2>2, <3>1 DEF Copy
  <2> QED BY <2>1, <2>2
<1>4. InOrder => Remembered(h)'
  <2>1. CASE kind[h] # "AfterEdit" BY <1>1, <2>1 DEF Remembered
  <2>2. CASE pc[h] = "load" BY <2>2 DEF Remembered
  <2>3. CASE kind[h] = "AfterEdit" /\ pc[h] \notin {"load", "loaded"}
    <3>1. InOrder => Remembered(h) BY DEF KeptInv, UnseenInv
    <3> QED BY <1>1, <2>3, <3>1 DEF Remembered, Holding
  <2> QED BY <2>1, <2>2, <2>3
<1> QED BY <1>2, <1>3, <1>4, HandlerGoesOn

(* A handler that writes its copy back keeps what the file says. *)
LEMMA CopyWritten ==
  ASSUME TypeOK, PhaseInv, TypeOK', PhaseInv', StartInv, KeptInv, NEW h \in Hooks, Framed(h),
         ~Fresh(h), ~Fresh(h)', ~Closing(h)', pc[h] \in Holding,
         UNCHANGED <<env, since, edit, unnamed>>, DebtGoesOn,
         file' # None, file'.tree = turn[h].tree, file'.unchecked = turn[h].unchecked,
         PromptsCarryContext => file'.notice # "unreadable",
         InOrder => turn[h].unseen \subseteq file'.unseen,
         InOrder /\ kind[h] = "AfterEdit" /\ pc[h] = "loaded" => edit[h].nested \subseteq file'.unseen,
         pc'[h] = "reply" \/ turn'[h] = file'
  PROVE  KeptInv'
<1>1. pc'[h] \in {"reply"} \cup Holding /\ kind' = kind /\ pc[h] # "off" /\ ~Closing(h)
  BY DEF Framed, Holding, Closing
<1>2. file # None /\ file.tree = since /\ ~Pends(file) BY <1>1, Within
<1>3. Copy(h) BY DEF KeptInv, CopyInv
<1>4. file'.tree = since /\ ~Pends(file')
  <2> USE DEF Pends
  <2>1. CASE kind[h] = "AfterEdit" BY <1>3, <2>1 DEF Copy
  <2>2. CASE kind[h] # "AfterEdit" BY <1>2, <1>3, <2>2 DEF Copy
  <2> QED BY <2>1, <2>2
<1>5. InOrder => turn[h] = file BY <1>3 DEF Copy, InOrder
<1>6. InOrder => file.unseen \subseteq file'.unseen BY <1>5
<1>7. InOrder => Remembered(h)'
  <2>1. CASE kind[h] = "AfterEdit" /\ pc[h] # "loaded"
    <3>1. InOrder => Remembered(h) BY DEF KeptInv, UnseenInv
    <3> QED BY <1>1, <1>6, <2>1, <3>1 DEF Remembered, Holding
  <2>2. CASE kind[h] # "AfterEdit" \/ pc[h] = "loaded" BY <1>1, <2>2 DEF Remembered
  <2> QED BY <2>1, <2>2
<1>8. Copy(h)' BY <1>1, <1>4 DEF Copy, Holding, Pends, NoStart, PromptsCarryContext
<1> QED BY <1>4, <1>6, <1>7, <1>8, HandlerGoesOn

LEMMA Handles ==
  ASSUME TypeInv, PhaseInv, TypeOK', PhaseInv', Undisturbed, StartInv, KeptInv, NEW h \in Hooks,
         \/ LoadTurn(h) /\ ~Fresh(h)
         \/ KeepTurn(h) \/ GiveContext(h) \/ SeenFiles(h) \/ Snapshot(h) \/ CheckEdit(h)
         \/ Told(h) \/ Block(h)
  PROVE  KeptInv'
<1>1. TypeOK BY DEF TypeInv
<1>2. Framed(h) BY <1>1, HookFramed DEF Hook
<1>3. kind' = kind /\ pc[h] # "off" /\ pc[h] # "reply" BY <1>2 DEF Framed, Holding
<1>4. ~Closing(h) BY <1>3 DEF Closing
<1>5. Outcomes = {TRUE} BY SavesSucceed
<1>6. CASE LoadTurn(h) /\ ~Fresh(h)
  <2>1. /\ pc[h] = "load" /\ pc'[h] = "loaded" /\ turn'[h] = file
        /\ UNCHANGED <<env, since, edit, unnamed, file, debt, event>>
    BY <1>1, <1>6 DEF LoadTurn, Goto, TypeOK, session, Undisturbed
  <2>2. ~Fresh(h)' /\ ~Closing(h)' BY <1>3, <1>6, <2>1 DEF Fresh, Closing
  <2> QED BY <1>1, <1>2, <1>6, <2>1, <2>2, NothingWritten DEF DebtGoesOn
<1>7. CASE KeepTurn(h)
  <2>1. /\ pc[h] = "loaded" /\ pc'[h] = "context" /\ turn' = turn /\ kind[h] # "AfterEdit"
        /\ kind[h] = "SessionStart" \/ event.prompt = "reason"
        /\ UNCHANGED <<env, since, edit, unnamed, file, debt, event>>
    BY <1>1, <1>7 DEF KeepTurn, At, ContinuedBy, Goto, TypeOK, session, history
  <2>2. ~Fresh(h) /\ ~Fresh(h)' /\ ~Closing(h)' BY <1>3, <2>1 DEF Fresh, Closing
  <2> QED BY <1>1, <1>2, <2>1, <2>2, NothingWritten DEF DebtGoesOn
<1>8. CASE Snapshot(h)
  <2>1. /\ pc[h] \in {"snapshot", "loaded"} /\ (pc[h] = "loaded" => kind[h] = "Stop")
        /\ kind[h] # "TurnStart" /\ pc'[h] = "check" /\ turn' = turn
        /\ UNCHANGED <<env, since, edit, unnamed, file, debt>>
    BY <1>1, <1>5, <1>8 DEF Snapshot, At, Goto, TypeOK
  <2>2. ~Fresh(h) /\ ~Fresh(h)' /\ ~Closing(h)' BY <1>3, <2>1 DEF Fresh, Closing
  <2> QED BY <1>1, <1>2, <2>1, <2>2, NothingWritten DEF DebtGoesOn
<1>9. CASE CheckEdit(h)
  <2>1. /\ pc[h] = "check" /\ kind[h] = "AfterEdit" /\ turn' = turn
        /\ UNCHANGED <<env, since, edit, unnamed, file, debt>>
    BY <1>9 DEF CheckEdit, At, session, history
  <2>2. ~Fresh(h) /\ ~Fresh(h)' /\ ~Closing(h)' BY <1>3, <2>1 DEF Fresh, Closing
  <2> QED BY <1>1, <1>2, <2>1, <2>2, NothingWritten DEF DebtGoesOn
<1>10. CASE GiveContext(h)
  <2> DEFINE gives == turn[h] # None /\ turn[h].notice # None /\ HasContext(kind[h])
  <2>1. /\ pc[h] = "context" /\ pc'[h] = "reply" /\ turn' = turn /\ kind[h] # "Stop"
        /\ UNCHANGED <<env, since, edit, unnamed, debt>>
        /\ IF gives THEN file' = [turn[h] EXCEPT !.notice = None] ELSE file' = file
    BY <1>1, <1>5, <1>10 DEF GiveContext, Answer, Save, TypeOK, history, StartInv
  <2>2. ~Fresh(h) /\ ~Fresh(h)' /\ ~Closing(h)' BY <1>3, <2>1 DEF Fresh, Closing
  <2>3. CASE gives
    <3>1. turn[h] \in Turn BY <1>1, <2>3 DEF TypeOK
    <3> DEFINE w == [turn[h] EXCEPT !.notice = None]
    <3>2. /\ w # None /\ w.tree = turn[h].tree /\ w.unchecked = turn[h].unchecked
          /\ w.unseen = turn[h].unseen /\ w.notice = None
      BY <3>1, FieldsWritten
    <3>3. file' = w BY <2>1, <2>3
    <3> HIDE DEF w, gives
    <3>4. DebtGoesOn /\ pc[h] \in Holding BY <2>1 DEF Holding, DebtGoesOn
    <3>5. PromptsCarryContext => file'.notice # "unreadable"
      BY <3>2, <3>3, NoticeAssumption
    <3> QED BY <1>1, <1>2, <2>1, <2>2, <3>2, <3>3, <3>4, <3>5, CopyWritten DEF DebtGoesOn
  <2>4. CASE ~gives
    <3>1. CASE ~(kind[h] = "TurnStart")
      BY <1>1, <1>2, <2>1, <2>2, <2>4, <3>1, NothingWritten DEF DebtGoesOn
    <3>2. CASE kind[h] = "TurnStart"
      <4>1. turn[h] = file BY <2>1, <3>2 DEF KeptInv, CopyInv, Copy, Holding
      <4>2. PromptsCarryContext => HasContext(kind[h])
        BY <3>2 DEF HasContext, PromptsCarryContext
      <4>3. file # None BY <1>1, <1>3, <1>4, <2>2, Within
      <4>4. PromptsCarryContext => file.notice # "unreadable"
        BY <2>4, <4>1, <4>2, <4>3, NoticeAssumption
      <4>5. /\ file' # None /\ file'.tree = turn[h].tree /\ file'.unchecked = turn[h].unchecked
            /\ file'.unseen = turn[h].unseen /\ file'.notice = file.notice
        BY <2>1, <2>4, <4>1, <4>3
      <4> QED BY <1>1, <1>2, <2>1, <2>2, <4>4, <4>5, CopyWritten DEF Holding, DebtGoesOn
    <3> QED BY <3>1, <3>2
  <2> QED BY <2>3, <2>4
<1>11. ASSUME pc[h] \in {"loaded", "told"}, kind[h] = "AfterEdit",
              pc'[h] \in Holding, UNCHANGED <<env, since, edit, unnamed, debt>>,
              NEW new \in Turn, new.tree = turn[h].tree, new.unchecked = turn[h].unchecked,
              new.notice = turn[h].notice, turn[h].unseen \subseteq new.unseen,
              pc[h] = "loaded" => edit[h].nested \subseteq new.unseen,
              turn'[h] = new,
              file' = new \/ (file' = file /\ turn[h] = new)
       PROVE  KeptInv'
  <2>1. ~Fresh(h) /\ ~Fresh(h)' /\ ~Closing(h)' BY <1>3, <1>11 DEF Fresh, Closing, Holding
  <2>2. pc[h] \in Holding BY <1>11 DEF Holding
  <2>3. PromptsCarryContext => turn[h].notice # "unreadable"
    BY <1>11, <2>2 DEF KeptInv, CopyInv, Copy
  <2>4. new # None BY <1>11, NoneAssumption
  <2>5. CASE file' = new
    BY <1>1, <1>2, <1>11, <2>1, <2>2, <2>3, <2>4, <2>5, CopyWritten DEF DebtGoesOn
  <2>6. CASE file' = file /\ turn[h] = new
    <3>1. Copy(h)'
      BY <1>3, <1>11, <2>2, <2>6 DEF KeptInv, CopyInv, Copy, Pends, NoStart, PromptsCarryContext
    <3>2. /\ file # None /\ file.tree = since /\ ~Pends(file)
          /\ PromptsCarryContext => file.notice # "unreadable"
      BY <1>1, <1>3, <1>4, <1>11, <2>1, Within
    <3>3. InOrder => turn[h] = file BY <2>2 DEF KeptInv, CopyInv, Copy, InOrder
    <3>4. InOrder => Remembered(h)'
      <4>1. CASE pc[h] = "loaded" BY <1>3, <1>11, <2>6, <3>3, <4>1 DEF Remembered
      <4>2. CASE pc[h] = "told"
        <5>1. InOrder => Remembered(h) BY DEF KeptInv, UnseenInv
        <5> QED BY <1>3, <1>11, <2>6, <4>2, <5>1 DEF Remembered
      <4> QED BY <1>11, <4>1, <4>2
    <3> QED BY <1>1, <1>2, <1>11, <2>1, <2>6, <3>1, <3>2, <3>4, HandlerGoesOn DEF DebtGoesOn
  <2> QED BY <1>11, <2>5, <2>6
<1>12. ASSUME kind[h] = "AfterEdit", pc[h] \in Holding PROVE turn[h] \in Turn
  BY <1>1, <1>12 DEF KeptInv, CopyInv, Copy, TypeOK
<1>13. CASE SeenFiles(h)
  <2> DEFINE paths == edit[h].nested
             u     == RememberUnseen(turn[h], paths)
  <2>1. /\ pc[h] = "loaded" /\ kind[h] = "AfterEdit" /\ pc'[h] \in Holding
        /\ UNCHANGED <<env, since, edit, unnamed, debt>>
    BY <1>1, <1>13 DEF SeenFiles, At, Goto, TypeOK, Holding, history
  <2>2. turn[h] \in Turn BY <1>12, <2>1 DEF Holding
  <2>3. paths \in SUBSET Nested BY <1>1 DEF TypeOK, Edits
  <2>4. CASE paths \subseteq turn[h].unseen
    <3>1. turn' = turn /\ file' = file BY <1>13, <2>4 DEF SeenFiles
    <3> QED BY <1>11, <2>1, <2>2, <2>4, <3>1
  <2>5. CASE ~(paths \subseteq turn[h].unseen)
    <3>1. turn' = [turn EXCEPT ![h] = u] /\ file' = turn'[h]
      BY <1>5, <1>13, <2>2, <2>5, NoneAssumption DEF SeenFiles, Save
    <3>2. turn'[h] = u BY <1>1, <3>1 DEF TypeOK
    <3>3. u \in Turn BY <2>2, <2>3, TurnWritten
    <3>4. /\ u.tree = turn[h].tree /\ u.unchecked = turn[h].unchecked
          /\ u.notice = turn[h].notice /\ u.unseen = turn[h].unseen \cup paths
      BY <2>2, <2>3, EditsWritten
    <3> HIDE DEF u
    <3> QED BY <1>11, <2>1, <3>1, <3>2, <3>3, <3>4
  <2> QED BY <2>4, <2>5
<1>14. CASE Told(h)
  <2> DEFINE ids == found[h] \cup edit[h].nested
             u   == Report(turn[h], ids)
  <2>1. /\ pc[h] = "told" /\ kind[h] = "AfterEdit" /\ pc'[h] \in Holding
        /\ UNCHANGED <<env, since, edit, unnamed, debt>>
    BY <1>1, <1>14 DEF Told, At, Goto, TypeOK, Holding, history
  <2>2. turn[h] \in Turn BY <1>12, <2>1 DEF Holding
  <2>3. ids \in SUBSET Items BY <1>1 DEF TypeOK, Edits, Items
  <2>4. CASE ids \subseteq turn[h].reported
    <3>1. turn' = turn /\ file' = file BY <1>14, <2>4 DEF Told
    <3> QED BY <1>11, <2>1, <2>2, <3>1
  <2>5. CASE ~(ids \subseteq turn[h].reported)
    <3>1. turn' = [turn EXCEPT ![h] = u] /\ file' = turn'[h]
      BY <1>5, <1>14, <2>2, <2>5, NoneAssumption DEF Told, Save
    <3>2. turn'[h] = u BY <1>1, <3>1 DEF TypeOK
    <3>3. u \in Turn BY <2>2, <2>3, TurnWritten
    <3>4. /\ u.tree = turn[h].tree /\ u.unchecked = turn[h].unchecked
          /\ u.notice = turn[h].notice /\ u.unseen = turn[h].unseen
      BY <2>2, <2>3, EditsWritten
    <3> HIDE DEF u
    <3> QED BY <1>11, <2>1, <3>1, <3>2, <3>3, <3>4
  <2> QED BY <2>4, <2>5
<1>15. CASE Block(h)
  <2> DEFINE u == [turn[h] EXCEPT !.blocks = Blocks(h) + 1, !.blockedTree = now[h]]
  <2>1. pc[h] = "check" /\ kind[h] = "Stop" BY <1>15 DEF Block, Checked, At
  <2>2. turn[h] \in Turn /\ now[h] \in Trees BY <1>1, <2>1 DEF TypeInv, TypeOK
  <2>3. /\ file' = u /\ Answer(h, "block", None, turn[h].unseen) /\ DebtGoesOn
        /\ UNCHANGED <<env, since, edit, unnamed>>
    BY <1>5, <1>15 DEF Block, Save, Judged, DebtGoesOn, NoStart
  <2>4. pc'[h] = "reply" /\ reply'[h].verdict = "block" BY <1>1, <2>3 DEF Answer, TypeOK
  <2>5. ~Fresh(h) /\ ~Fresh(h)' /\ ~Closing(h)' BY <1>3, <2>1, <2>4 DEF Fresh, Closing
  <2>6. Blocks(h) + 1 \in Nat
    <3>1. turn[h].blocks \in Nat BY <2>2, TurnWritten
    <3> QED BY <3>1 DEF Blocks
  <2>7. /\ u # None /\ u.tree = turn[h].tree /\ u.unchecked = turn[h].unchecked
        /\ u.unseen = turn[h].unseen /\ u.notice = turn[h].notice
    <3>1. u \in Turn BY <2>2, <2>6, TurnWritten
    <3>2. /\ u.tree = turn[h].tree /\ u.unchecked = turn[h].unchecked
          /\ u.unseen = turn[h].unseen /\ u.notice = turn[h].notice
      BY <2>2 DEF Turn
    <3> QED BY <3>1, <3>2, NoneAssumption
  <2>8. turn[h] = file BY <2>1 DEF KeptInv, CopyInv, Copy, Holding
  <2>9. PromptsCarryContext => file.notice # "unreadable"
    BY <1>1, <1>3, <1>4, <2>1, <2>5, Within
  <2> HIDE DEF u
  <2> QED BY <1>1, <1>2, <2>1, <2>3, <2>4, <2>5, <2>7, <2>8, <2>9, CopyWritten DEF Holding, DebtGoesOn
<1> QED BY <1>6, <1>7, <1>8, <1>9, <1>10, <1>13, <1>14, <1>15

-----------------------------------------------------------------------------
(* The stop that ends the turn *)
LEMMA TurnEnds ==
  ASSUME TypeOK, PhaseInv, KeptInv, NEW h \in Hooks, Framed(h), kind[h] = "Stop",
         Closing(h)', UNCHANGED <<env, since, edit, unnamed, now>>, file' # None,
         \/ debt' = None /\ ~file'.unchecked /\ ~NoStart
         \/ file'.tree = debt' /\ debt' # None /\ (NoStart \/ (file'.unchecked /\ ~InOrder)),
         reply'[h].verdict = "passed" => now[h] = since \/ Found[now[h]] = {},
         InOrder /\ reply'[h].verdict \in {"passed", "letThrough"}
           => unnamed \subseteq reply'[h].named
  PROVE  KeptInv'
<1>1. /\ \A g \in Hooks \ {h} : pc'[g] = "off"
      /\ kind' = kind /\ pc'[h] = "reply"
  BY Alone DEF Framed, Holding, Closing
<1>2. Between' BY DEF Between
<1>3. \A g \in Hooks : ~Fresh(g)' BY <1>1 DEF Fresh
<1>4. DebtInv' BY DEF DebtInv, NoStart
<1>5. \A g \in Hooks : Closing(g)' => g = h BY <1>1 DEF Closing
<1>6. SinceInv' BY <1>2, <1>3, <1>5 DEF SinceInv
<1>7. CopyInv' BY <1>1 DEF CopyInv, Copy, Holding
<1>8. OwedInv' BY <1>2 DEF OwedInv
<1>9. \A g \in Hooks : Remembered(g)' BY <1>1 DEF Remembered
<1>10. UnseenInv' BY <1>2, <1>5, <1>9 DEF UnseenInv, InOrder, Pends, NoStart
<1> QED BY <1>4, <1>6, <1>7, <1>8, <1>10 DEF KeptInv

LEMMA StopAnswers ==
  ASSUME TypeInv, PhaseInv, Undisturbed, KeptInv, NEW h \in Hooks,
         Pass(h) \/ LetThrough(h) \/ UnreadableStart(h) \/ Unchecked(h)
  PROVE  KeptInv'
<1>1. TypeOK BY DEF TypeInv
<1>2. Framed(h) BY <1>1, HookFramed DEF Hook
<1>3. Outcomes = {TRUE} BY SavesSucceed
<1>4. pc[h] = "check" /\ kind[h] = "Stop" /\ turn[h] \in Turn /\ now[h] \in Trees
  BY <1>1, <1>3 DEF Pass, LetThrough, UnreadableStart, Unchecked, Checked, At, TypeInv, TypeOK
<1>5. turn[h] = file BY <1>4 DEF KeptInv, CopyInv, Copy, Holding
<1>6. ~Fresh(h) /\ ~Closing(h) BY <1>4 DEF Fresh, Closing
<1>7. file.tree = since /\ ~Pends(file) /\ (InOrder => unnamed \subseteq file.unseen)
  BY <1>1, <1>4, <1>6, Within
<1>8. None \in Notices /\ "unreadable" \in Notices BY DEF Notices
<1>9. UNCHANGED <<env, since, edit, unnamed, now, kind>>
  BY DEF Pass, LetThrough, UnreadableStart, Unchecked, EndTurn
<1>10. ASSUME NEW v \in Verdicts \ {"block"}, NEW n, Answer(h, v, None, n)
       PROVE  Closing(h)' /\ reply'[h].verdict = v /\ reply'[h].named = n
  BY <1>1, <1>4, <1>9, <1>10 DEF Answer, Closing, TypeOK
<1>11. Verdicts = {"context", "failed", "first", "block", "passed", "letThrough",
                   "unchecked", "unreadable"}
  BY DEF Verdicts
<1>12. ASSUME NEW v \in {"passed", "letThrough"}, EndTurn(h, v),
              v = "passed" => Open(h) = {}
       PROVE  KeptInv'
  <2>1. file' = BeginTurn(now[h], None) /\ Answer(h, v, None, turn[h].unseen) /\ Judged(now[h])
    BY <1>3, <1>12 DEF EndTurn, Save
  <2>2. file' # None /\ ~file'.unchecked /\ file'.tree = now[h]
    <3>1. file' \in Turn BY <1>4, <1>8, <2>1, TurnTyped
    <3> QED BY <2>1, <3>1, NoneAssumption DEF BeginTurn
  <2>3. Closing(h)' /\ reply'[h].verdict = v /\ reply'[h].named = turn[h].unseen
    BY <1>10, <1>11, <2>1
  <2>4. v = "passed" => now[h] = since \/ Found[now[h]] = {}
    BY <1>5, <1>7, <1>12 DEF Open
  <2>5. debt' = IF NoStart THEN now[h] ELSE None BY <2>1 DEF Judged, NoStart
  <2>6. now[h] # None BY <1>4, HookAssumption
  <2> QED BY <1>1, <1>2, <1>4, <1>5, <1>7, <1>9, <2>2, <2>3, <2>4, <2>5, <2>6, TurnEnds
<1>13. CASE Pass(h) \/ LetThrough(h) BY <1>12, <1>13 DEF Pass, LetThrough
<1>14. CASE UnreadableStart(h)
  <2>1. /\ file' = BeginTurn(now[h], "unreadable") /\ Answer(h, "unreadable", None, {})
        /\ Judged(now[h])
    BY <1>3, <1>14 DEF UnreadableStart, Save
  <2>2. file' # None /\ ~file'.unchecked /\ file'.tree = now[h]
    <3>1. file' \in Turn BY <1>4, <1>8, <2>1, TurnTyped
    <3> QED BY <2>1, <3>1, NoneAssumption DEF BeginTurn
  <2>3. Closing(h)' /\ reply'[h].verdict = "unreadable" BY <1>10, <1>11, <2>1
  <2>4. debt' = IF NoStart THEN now[h] ELSE None BY <2>1 DEF Judged, NoStart
  <2>5. now[h] # None BY <1>4, HookAssumption
  <2> QED BY <1>1, <1>2, <1>4, <1>9, <2>2, <2>3, <2>4, <2>5, TurnEnds
<1>15. CASE Unchecked(h)
  <2> DEFINE w == [turn[h] EXCEPT !.notice = "unchecked", !.unchecked = TRUE]
  <2>1. file' = w /\ Answer(h, "unchecked", None, {}) /\ "outage" \in env
    BY <1>3, <1>4, <1>15 DEF Unchecked, At, Save
  <2>2. w # None /\ w.tree = turn[h].tree /\ w.unchecked BY <1>4, FieldsWritten
  <2> HIDE DEF w
  <2>3. turn[h].tree \in Trees BY <1>4, TurnWritten
  <2>4. debt' = file.tree /\ debt' # None
    <3>1. debt' = IF debt = None THEN turn[h].tree ELSE debt BY <1>15 DEF Unchecked
    <3>2. debt # None => file.tree = debt BY DEF KeptInv, DebtInv
    <3>3. turn[h].tree # None BY <2>3, HookAssumption
    <3> QED BY <1>5, <3>1, <3>2, <3>3
  <2>5. ~InOrder BY <2>1 DEF InOrder
  <2>6. Closing(h)' /\ reply'[h].verdict = "unchecked" BY <1>10, <1>11, <2>1
  <2> QED BY <1>1, <1>2, <1>4, <1>5, <1>9, <2>1, <2>2, <2>4, <2>5, <2>6, TurnEnds
<1> QED BY <1>13, <1>14, <1>15

(* A stop in a turn finds the turn. *)
LEMMA NoFirstStop ==
  ASSUME TypeInv, PhaseInv, KeptInv, NEW h \in Hooks, FirstStop(h) PROVE FALSE
<1>1. pc[h] = "loaded" /\ kind[h] = "Stop" /\ turn[h] = None BY DEF FirstStop, At
<1>2. turn[h] = file BY <1>1 DEF KeptInv, CopyInv, Copy, Holding
<1>3. ~Between BY <1>1, Inside DEF TypeInv, Fresh, Closing
<1> QED BY <1>1, <1>2, <1>3 DEF KeptInv, SinceInv

LEMMA KeptHook ==
  ASSUME TypeInv, PhaseInv, Counted, TypeOK', PhaseInv', Undisturbed, StartInv, KeptInv,
         NEW h \in Hooks, Hook(h)
  PROVE  KeptInv'
<1>1. CASE LoadTurn(h) /\ Fresh(h) BY <1>1, StartLoaded DEF TypeInv
<1>2. CASE TurnStartCarry(h) \/ Begin(h) BY <1>2, TurnStarts
<1>3. CASE FirstStop(h) BY <1>3, NoFirstStop
<1>4. CASE Pass(h) \/ LetThrough(h) \/ UnreadableStart(h) \/ Unchecked(h) BY <1>4, StopAnswers
<1>5. CASE \/ LoadTurn(h) /\ ~Fresh(h)
           \/ KeepTurn(h) \/ GiveContext(h) \/ SeenFiles(h) \/ Snapshot(h) \/ CheckEdit(h)
           \/ Told(h) \/ Block(h)
  BY <1>5, Handles
<1> QED BY <1>1, <1>2, <1>3, <1>4, <1>5 DEF Hook

-----------------------------------------------------------------------------
(* The agent's steps *)
LEMMA KeptPrompted ==
  ASSUME TypeOK, KeptInv, NEW h \in Hooks, Prompt(h) PROVE KeptInv'
<1>1. /\ phase = "idle" /\ Quiet
      /\ event' = [prompt |-> "person", continued |-> FALSE]
      /\ since' = IF debt = None THEN tree ELSE debt
      /\ unnamed' = IF NoStart THEN {} ELSE unnamed
      /\ UNCHANGED <<env, tree, file, debt>>
  BY DEF Prompt, StartTurn, Launch, NoStart
<1>2. Between BY <1>1 DEF Between
<1>3. \A g \in Hooks : ~Closing(g)' /\ pc'[g] \in {"load", "off"}
  BY DEF Prompt, StartTurn, Launch, Quiet, hooks, Closing, TypeOK
<1>4. CopyInv' BY <1>3 DEF CopyInv, Copy, Holding
<1>5. \A g \in Hooks : Remembered(g)' BY <1>3 DEF Remembered
<1>6. CASE ~NoStart
  <2>1. pc'[h] = "load" /\ kind'[h] = "TurnStart"
    BY <1>6 DEF Prompt, StartTurn, Launch, TypeOK, NoStart
  <2>2. Between' BY <1>1, <2>1 DEF Between, Fresh
  <2>3. DebtInv' BY <1>1, <1>2, <1>6 DEF KeptInv, DebtInv, NoStart
  <2>4. SinceInv' BY <1>1, <1>3, <2>2 DEF SinceInv
  <2>5. OwedInv' BY <2>2 DEF OwedInv
  <2>6. UnseenInv' BY <1>1, <1>3, <1>5, <2>2 DEF KeptInv, UnseenInv, InOrder, Pends, NoStart
  <2> QED BY <1>4, <2>3, <2>4, <2>5, <2>6 DEF KeptInv
<1>7. CASE NoStart
  <2>1. (\A g \in Hooks : pc'[g] = "off") /\ phase' = "working"
    BY <1>1, <1>7 DEF Prompt, StartTurn, Quiet, hooks, NoStart
  <2>2. \A g \in Hooks : ~Fresh(g)' BY <2>1 DEF Fresh
  <2>3. debt # None /\ file # None /\ file.tree = debt BY <1>7 DEF KeptInv, DebtInv
  <2>4. DebtInv' BY <1>1, <1>7, <2>3 DEF DebtInv, NoStart
  <2>5. SinceInv' BY <1>1, <1>3, <1>7, <2>2, <2>3 DEF SinceInv, Pends, NoStart
  <2>6. OwedInv' BY <1>1, <1>7 DEF OwedInv, PromptsCarryContext, NoStart
  <2>7. UnseenInv' BY <1>1, <1>3, <1>5, <1>7, <2>3 DEF UnseenInv, Pends, NoStart
  <2> QED BY <1>4, <2>4, <2>5, <2>6, <2>7 DEF KeptInv
<1> QED BY <1>6, <1>7

(* While the agent works, no turn start owes it a notice. *)
LEMMA NothingOwed ==
  ASSUME PhaseInv, KeptInv, phase \notin {"idle", "starting"}, ~Between,
         PromptsCarryContext
  PROVE  file.notice # "unreadable"
<1>1. \A g \in Hooks : ~(pc[g] = "context" /\ kind[g] = "TurnStart")
  BY DEF PhaseInv, PhaseOf
<1>2. file # None BY DEF KeptInv, SinceInv
<1> QED BY <1>1, <1>2 DEF KeptInv, OwedInv

LEMMA KeptLaunched ==
  ASSUME TypeOK, PhaseInv, TypeOK', PhaseInv', KeptInv, NEW h \in Hooks, NEW k \in Kinds,
         NEW e, Launch(h, k, e), phase \in {"working", "resending"},
         UNCHANGED <<env, debt, since, unnamed>>,
         k = "TurnStart" => event'.prompt = "reason"
  PROVE  KeptInv'
<1>1. /\ pc'[h] = "load" /\ kind'[h] = k /\ UNCHANGED <<file, turn, reply>>
      /\ \A g \in Hooks \ {h} : pc'[g] = pc[g] /\ kind'[g] = kind[g] /\ edit'[g] = edit[g]
  BY DEF Launch, TypeOK
<1>2. ~Fresh(h)' /\ ~Closing(h)' BY <1>1 DEF Fresh, Closing
<1>3. ~Between BY InsidePhase
<1>4. ~Between' BY <1>1, <1>2, InsideNext
<1>5. file # None /\ file.tree = since /\ ~Pends(file) BY <1>3 DEF KeptInv, SinceInv
<1>6. PromptsCarryContext => file.notice # "unreadable" BY <1>3, NothingOwed
<1>7. \A g \in Hooks : Copy(g)'
  <2>1. \A g \in Hooks : Copy(g) BY DEF KeptInv, CopyInv
  <2> QED BY <1>1, <2>1 DEF Copy, Holding, Pends, NoStart, PromptsCarryContext
<1>8. InOrder => unnamed' \subseteq file'.unseen BY <1>1, <1>3 DEF KeptInv, UnseenInv
<1>9. ASSUME InOrder, NEW g \in Hooks PROVE Remembered(g)'
  <2>1. Remembered(g) BY <1>9 DEF KeptInv, UnseenInv
  <2> QED BY <1>1, <2>1 DEF Remembered
<1>10. Pends(file)' <=> Pends(file) BY <1>1 DEF Pends, NoStart
<1> QED BY <1>1, <1>3, <1>4, <1>5, <1>6, <1>7, <1>8, <1>9, <1>10, GoesOn DEF DebtGoesOn

(* A reason sent back where no hook starts a turn *)
LEMMA KeptResent ==
  ASSUME TypeOK, PhaseInv, PhaseInv', KeptInv, Quiet, phase = "resending", phase' = "working",
         UNCHANGED <<file, hooks, env, debt, since, unnamed>>
  PROVE  KeptInv'
<1>1. ~Between /\ ~Between' BY InsidePhase
<1>2. file # None /\ file.tree = since /\ ~Pends(file)
  BY <1>1 DEF KeptInv, SinceInv
<1>3. PromptsCarryContext => file.notice # "unreadable" BY <1>1, NothingOwed
<1>4. \A g \in Hooks : pc'[g] = "off" BY DEF Quiet, hooks
<1>5. \A g \in Hooks : Copy(g)' /\ Remembered(g)' BY <1>4 DEF Copy, Holding, Remembered
<1>6. InOrder => unnamed' \subseteq file'.unseen BY <1>1 DEF KeptInv, UnseenInv
<1>7. DebtGoesOn BY DEF DebtGoesOn
<1> QED BY <1>1, <1>2, <1>3, <1>5, <1>6, <1>7, GoesOn

(* A reply read within a turn *)
LEMMA KeptDelivered ==
  ASSUME TypeOK, PhaseInv, PhaseInv', Undisturbed, StartInv, KeptInv, NEW h \in Hooks, Deliver(h)
  PROVE  KeptInv'
<1>1. /\ pc[h] = "reply" /\ Exit({h}) /\ UNCHANGED <<env, tree, file, debt, since>>
      /\ unnamed' = IF kind[h] = "AfterEdit" /\ turn[h] # None
                      THEN unnamed \cup edit[h].nested
                      ELSE unnamed \ reply[h].named
  BY DEF Deliver
<1>2. /\ pc'[h] = "off"
      /\ \A g \in Hooks \ {h} :
           /\ pc'[g] = pc[g] /\ kind'[g] = kind[g] /\ edit'[g] = edit[g]
           /\ turn'[g] = turn[g] /\ reply'[g] = reply[g]
  BY <1>1 DEF Exit, TypeOK
<1>3. ~Fresh(h) BY <1>1 DEF Fresh
<1>4. CASE Closing(h)
  <2>1. \A g \in Hooks : pc'[g] = "off" BY <1>2, <1>4, Alone DEF Closing
  <2>2. phase' = "idle" BY <1>4 DEF Deliver, AfterHook, Closing
  <2>3. Between /\ Between' BY <1>4, <2>2 DEF Between
  <2>4. \A g \in Hooks : ~Fresh(g)' /\ ~Closing(g)' BY <2>1 DEF Fresh, Closing
  <2>5. DebtInv' BY <1>1, <2>3 DEF KeptInv, DebtInv, NoStart
  <2>6. SinceInv' BY <2>3, <2>4 DEF SinceInv
  <2>7. CopyInv' BY <2>1 DEF CopyInv, Copy, Holding
  <2>8. OwedInv' BY <2>3 DEF OwedInv
  <2>9. \A g \in Hooks : Remembered(g)' BY <2>1 DEF Remembered
  <2>10. UnseenInv' BY <1>1, <2>3, <2>4, <2>9 DEF KeptInv, UnseenInv, InOrder, Pends, NoStart
  <2> QED BY <2>5, <2>6, <2>7, <2>8, <2>10 DEF KeptInv
<1>5. CASE ~Closing(h)
  <2>1. phase' \in {"working", "resending"}
    BY <1>1, <1>5 DEF Deliver, AfterHook, Closing
  <2>2. ~Between BY <1>1, <1>3, <1>5, Inside
  <2>3. ~Between' BY <2>1, InsidePhase
  <2>4. /\ file # None /\ file.tree = since /\ ~Pends(file)
        /\ InOrder => unnamed \subseteq file.unseen
        /\ PromptsCarryContext => file.notice # "unreadable"
    BY <1>1, <1>3, <1>5, Within
  <2>5. InOrder => unnamed' \subseteq file'.unseen
    <3>1. CASE kind[h] = "AfterEdit" /\ turn[h] # None
      <4>1. InOrder => edit[h].nested \subseteq file.unseen
        BY <1>1, <3>1 DEF KeptInv, UnseenInv, Remembered
      <4> QED BY <1>1, <2>4, <3>1, <4>1
    <3>2. CASE ~(kind[h] = "AfterEdit" /\ turn[h] # None) BY <1>1, <2>4, <3>2
    <3> QED BY <3>1, <3>2
  <2>6. ASSUME InOrder, NEW g \in Hooks PROVE Remembered(g)'
    <3>1. Remembered(g) BY <2>6 DEF KeptInv, UnseenInv
    <3> QED BY <1>1, <1>2, <3>1 DEF Remembered
  <2>7. ASSUME NEW g \in Hooks PROVE Copy(g)'
    <3>1. Copy(g) BY DEF KeptInv, CopyInv
    <3> QED BY <1>1, <1>2, <3>1 DEF Copy, Holding, Pends, NoStart, PromptsCarryContext
  <2>8. DebtGoesOn BY <1>1 DEF DebtGoesOn
  <2> QED BY <1>1, <2>2, <2>3, <2>4, <2>5, <2>6, <2>7, <2>8, GoesOn
<1> QED BY <1>4, <1>5

LEMMA KeptChanged ==
  ASSUME PhaseInv, KeptInv, NEW t \in Trees, ChangeTree(t) PROVE KeptInv'
<1>1. UNCHANGED <<env, file, phase, event, pc, kind, edit, turn, now, reply, debt, since, unnamed>>
  BY DEF ChangeTree, hooks, history
<1>2. \A h \in Hooks : (Fresh(h)' <=> Fresh(h)) /\ (Closing(h)' <=> Closing(h))
                       /\ (Copy(h)' <=> Copy(h)) /\ (Remembered(h)' <=> Remembered(h))
  BY <1>1 DEF Fresh, Closing, Copy, Remembered, Pends, NoStart, PromptsCarryContext
<1>3. Between' <=> Between BY <1>1, <1>2 DEF Between
<1>4. Pends(file)' <=> Pends(file) BY <1>1 DEF Pends, NoStart
<1>5. DebtInv' BY <1>1, <1>3 DEF KeptInv, DebtInv, NoStart
<1>6. SinceInv' BY <1>1, <1>2, <1>3, <1>4 DEF KeptInv, SinceInv
<1>7. CopyInv' BY <1>2 DEF KeptInv, CopyInv
<1>8. OwedInv' BY <1>1, <1>3 DEF KeptInv, OwedInv, PromptsCarryContext
<1>9. UnseenInv' BY <1>1, <1>2, <1>3, <1>4 DEF KeptInv, UnseenInv, InOrder
<1> QED BY <1>5, <1>6, <1>7, <1>8, <1>9 DEF KeptInv

LEMMA KeptUnchanged ==
  ASSUME KeptInv, UNCHANGED vars PROVE KeptInv'
BY DEF vars, session, hooks, history, KeptInv, DebtInv, SinceInv, CopyInv, OwedInv, UnseenInv,
       InOrder, Between, Fresh, Closing, Copy, Remembered, Pends, NoStart, PromptsCarryContext

LEMMA KeptInit == Init => KeptInv
<1> SUFFICES ASSUME Init PROVE KeptInv
  OBVIOUS
<1>1. Between /\ \A h \in Hooks : pc[h] = "off" BY DEF Init, Between
<1>2. \A h \in Hooks : ~Fresh(h) /\ ~Closing(h) /\ Copy(h) /\ Remembered(h)
  BY <1>1 DEF Fresh, Closing, Copy, Remembered, Holding
<1>3. /\ ~NoStart => file = None /\ debt = None
      /\ NoStart => file = BeginTurn(tree, None) /\ debt = tree
  BY DEF Init, FirstTurn, NoStart
<1>4. tree \in Trees /\ None \in Notices BY DEF Init, Notices
<1>5. NoStart => file # None /\ file.tree = tree /\ ~file.unchecked
  <2>1. BeginTurn(tree, None) \in Turn BY <1>4, TurnTyped
  <2>2. BeginTurn(tree, None) # None BY <2>1, NoneAssumption
  <2>3. BeginTurn(tree, None).tree = tree /\ ~BeginTurn(tree, None).unchecked BY DEF BeginTurn
  <2> QED BY <1>3, <2>2, <2>3
<1>6. DebtInv BY <1>1, <1>3, <1>4, <1>5, HookAssumption DEF DebtInv
<1>7. UnseenInv BY <1>1, <1>2, <1>3 DEF UnseenInv, Pends
<1> QED BY <1>1, <1>2, <1>6, <1>7 DEF KeptInv, SinceInv, CopyInv, OwedInv

(* What is kept of the turn, in a session no one disturbs *)
AllKept ==
  TypeInv /\ PhaseInv /\ CapInv /\ StartInv /\ (Undisturbed => KeptInv)

LEMMA AllKeptStep == AllKept /\ [Next]_vars => AllKept'
<1> SUFFICES ASSUME AllKept, [Next]_vars PROVE AllKept'
  OBVIOUS
<1>1. TypeInv /\ PhaseInv /\ CapInv /\ StartInv BY DEF AllKept
<1>2. TypeInv' /\ PhaseInv' /\ CapInv' /\ StartInv'
  BY <1>1, TypeStep, PhaseStep, CapStep, StartStep
<1>3. TypeOK /\ TypeOK' BY <1>1, <1>2 DEF TypeInv
<1>4. Undisturbed' => Undisturbed BY EnvStays DEF Undisturbed
<1>6. Undisturbed => Counted BY <1>1 DEF Undisturbed, TypeInv, CapInv
<1>5. ASSUME Undisturbed PROVE KeptInv'
  <2>1. KeptInv BY <1>5 DEF AllKept
  <2>2. "interrupt" \notin env /\ "kill" \notin env BY <1>5, SavesSucceed
  <2>3. ASSUME NEW h \in Hooks, Hook(h) PROVE KeptInv'
    BY <1>1, <1>2, <1>3, <1>5, <1>6, <2>1, <2>3, KeptHook
  <2>4. ASSUME NEW h \in Hooks, Prompt(h) PROVE KeptInv' BY <1>3, <2>1, <2>4, KeptPrompted
  <2>5. ASSUME NEW h \in Hooks, Resend(h) \/ Compact(h) \/ StopTurn(h) PROVE KeptInv'
    <3>1. CASE Resend(h) /\ UNCHANGED hooks
      <4>1. Quiet /\ phase = "resending" /\ phase' = "working"
            /\ UNCHANGED <<file, hooks, env, debt, since, unnamed>>
        BY <1>3, <3>1 DEF Resend, StartTurn, Launch, Quiet, hooks, history, TypeOK
      <4> QED BY <1>1, <1>2, <1>3, <2>1, <4>1, KeptResent
    <3>2. CASE ~(Resend(h) /\ UNCHANGED hooks)
      <4>1. PICK k \in Kinds : /\ Launch(h, k, NoEdit) /\ phase \in {"working", "resending"}
                               /\ UNCHANGED <<env, debt, since, unnamed>>
                               /\ k = "TurnStart" => event'.prompt = "reason"
        BY <1>3, <2>5, <3>2 DEF Resend, StartTurn, Compact, StopTurn, Kinds, history, TypeOK
      <4> QED BY <1>1, <1>2, <1>3, <2>1, <4>1, KeptLaunched
    <3> QED BY <3>1, <3>2
  <2>6. ASSUME NEW h \in Hooks, NEW e \in Edits, NEW t \in Trees, EditFiles(h, e, t)
        PROVE  KeptInv'
    <3>1. /\ Launch(h, "AfterEdit", e) /\ phase = "working" /\ "AfterEdit" \in Kinds
          /\ UNCHANGED <<env, debt, since, unnamed>>
      BY <2>6 DEF EditFiles, Kinds, history
    <3> QED BY <1>1, <1>2, <1>3, <2>1, <3>1, KeptLaunched
  <2>7. ASSUME NEW h \in Hooks, Deliver(h) PROVE KeptInv'
    BY <1>1, <1>2, <1>3, <1>5, <2>1, <2>7, KeptDelivered
  <2>8. ASSUME NEW t \in Trees, ChangeTree(t) PROVE KeptInv' BY <1>1, <2>1, <2>8, KeptChanged
  <2>9. CASE UNCHANGED vars BY <2>1, <2>9, KeptUnchanged
  <2>10. ASSUME NEW h \in Hooks PROVE ~Kill(h) BY <2>2 DEF Kill
  <2>11. ~Interrupt BY <2>2 DEF Interrupt
  <2> QED BY <2>3, <2>4, <2>5, <2>6, <2>7, <2>8, <2>9, <2>10, <2>11 DEF Next, Agent
<1> QED BY <1>2, <1>4, <1>5 DEF AllKept

LEMMA AllKeptInit == Init => AllKept
BY TypeInit, PhaseInit, CapInit, StartInit, KeptInit DEF AllKept

(* In a session no one disturbs, the next turn begins where the turn began *)
(* whose stop was not checked.                                             *)
THEOREM UncheckedIsCovered == Spec => []UncheckedCovered
<1>1. AllKept => UncheckedCovered
  BY DEF AllKept, KeptInv, DebtInv, UncheckedCovered, UncheckedStaysCovered
<1> QED BY <1>1, AllKeptInit, AllKeptStep, PTL DEF Spec

(* A stop that passes leaves nothing flagged since the person's prompt.    *)
THEOREM SilentStopsAreClean == Spec => []SilentStopIsClean
<1>1. AllKept => SilentStopIsClean
  <2> SUFFICES ASSUME AllKept, Undisturbed, NEW h \in Hooks, At(h, {"Stop"}, "reply"),
                      reply[h].verdict = "passed"
               PROVE  now[h] = since \/ Found[now[h]] = {}
    BY DEF SilentStopIsClean
  <2>1. Closing(h) BY DEF Closing, At
  <2> QED BY <2>1 DEF AllKept, KeptInv, SinceInv
<1> QED BY <1>1, AllKeptInit, AllKeptStep, PTL DEF Spec

(* A stop that ends the turn names every nested file edited one at a time. *)
THEOREM UnseenAreNamed == Spec => []UnseenNamedInOrder
<1>1. AllKept => UnseenNamedInOrder
  <2> SUFFICES ASSUME AllKept, Undisturbed, InOrder, NEW h \in Hooks,
                      At(h, {"Stop"}, "reply"), reply[h].verdict \in {"passed", "letThrough"}
               PROVE  unnamed \subseteq reply[h].named
    BY DEF UnseenNamedInOrder, UnseenNamed, InOrder
  <2>1. Closing(h) BY DEF Closing, At
  <2> QED BY <2>1 DEF AllKept, KeptInv, UnseenInv
<1> QED BY <1>1, AllKeptInit, AllKeptStep, PTL DEF Spec

(* A notice leaves the turn file in a reply only. *)
LEMMA NoticeGiven ==
  ASSUME TypeInv, PhaseInv, Undisturbed, StartInv, KeptInv, NEW h \in Hooks, Hook(h),
         PromptsCarryContext, file # None, file.notice = "unreadable",
         file'.notice # "unreadable"
  PROVE  pc'[h] = "reply" /\ reply'[h].notice = "unreadable"
<1>1. TypeOK BY DEF TypeInv
<1>2. Framed(h) BY <1>1, HookFramed
<1>3. pc[h] # "off" /\ ~Closing(h) BY <1>2 DEF Framed, Holding, Closing
<1>4. kind[h] \in {"TurnStart", "SessionStart"} /\ (~Fresh(h) => pc[h] = "context")
  <2>1. ~Fresh(h) => pc[h] = "context" /\ kind[h] = "TurnStart" BY <1>1, <1>3, Within
  <2>2. Fresh(h) => kind[h] = "TurnStart" BY DEF Fresh
  <2> QED BY <2>1, <2>2
<1>5. pc[h] \in Holding => turn[h] = file BY <1>4 DEF KeptInv, CopyInv, Copy
<1>6. Outcomes = {TRUE} BY SavesSucceed
<1>7. file \in Turn BY <1>1 DEF TypeOK
<1>8. CASE TurnStartCarry(h)
  <2>1. file' = CarryTurn(file) BY <1>5, <1>6, <1>8 DEF TurnStartCarry, At, Save, Holding
  <2>2. CarryTurn(file).notice = file.notice BY DEF CarryTurn, BeginTurn
  <2> QED BY <2>1, <2>2
<1>9. CASE Begin(h)
  <2>1. turn[h] = file BY <1>5, <1>9 DEF Begin, At, Holding
  <2>2. file' = BeginTurn(tree, file.notice) BY <1>6, <1>9, <2>1 DEF Begin, Save
  <2>3. BeginTurn(tree, file.notice).notice = file.notice BY DEF BeginTurn
  <2> QED BY <2>2, <2>3
<1>10. CASE GiveContext(h)
  <2>1. turn[h] = file BY <1>5, <1>10 DEF GiveContext, Holding
  <2>2. file.notice # None /\ HasContext(kind[h])
    BY <1>10, <2>1 DEF GiveContext
  <2>3. Answer(h, "context", file.notice, {}) BY <1>10, <2>1, <2>2 DEF GiveContext
  <2> QED BY <1>1, <2>3 DEF Answer, TypeOK
<1>11. CASE LoadTurn(h) \/ KeepTurn(h) \/ Snapshot(h) \/ CheckEdit(h)
  BY <1>4, <1>11 DEF LoadTurn, KeepTurn, Snapshot, CheckEdit, At, session
<1>12. CASE SeenFiles(h) \/ Told(h) BY <1>4, <1>12 DEF SeenFiles, Told, At
<1>13. CASE \/ FirstStop(h) \/ Pass(h) \/ LetThrough(h) \/ Block(h)
            \/ UnreadableStart(h) \/ Unchecked(h)
  BY <1>4, <1>13
     DEF FirstStop, Pass, LetThrough, Block, UnreadableStart, Unchecked, Checked, At
<1> QED BY <1>8, <1>9, <1>10, <1>11, <1>12, <1>13 DEF Hook

(* The notice that a turn's changes stayed unchecked reaches the agent. *)
THEOREM NoticesReachAgent == Spec => NoticeReachesAgent
<1>1. AllKept /\ [Next]_vars =>
        [Undisturbed /\ PromptsCarryContext
         /\ file # None /\ file.notice = "unreadable" /\ file'.notice # "unreadable"
         => \E h \in Hooks : pc'[h] = "reply" /\ reply'[h].notice = "unreadable"]_vars
  <2> SUFFICES ASSUME AllKept, Next, Undisturbed, PromptsCarryContext, file # None,
                      file.notice = "unreadable", file'.notice # "unreadable"
               PROVE  \E h \in Hooks : pc'[h] = "reply" /\ reply'[h].notice = "unreadable"
    OBVIOUS
  <2>1. file' # file OBVIOUS
  <2>2. PICK h \in Hooks : Hook(h)
    <3>1. ASSUME NEW h \in Hooks, Agent(h) PROVE file' = file
      BY <3>1 DEF Agent, Prompt, Resend, StartTurn, Compact, StopTurn, EditFiles, Launch, Kill,
                  Deliver
    <3> QED BY <2>1, <3>1 DEF Next, ChangeTree, Interrupt
  <2> QED BY <2>1, <2>2, NoticeGiven DEF AllKept
<1> QED BY <1>1, AllKeptInit, AllKeptStep, PTL DEF Spec, NoticeReachesAgent

-----------------------------------------------------------------------------
(* Why no tree is blocked twice: the file keeps the tree of the last block *)
(* the agent read, until a stop ends the turn.                             *)
StopAnswered == \E h \in Hooks : pc[h] = "reply" /\ kind[h] = "Stop"
LastKept ==
  /\ ~event.continued => run.last = None
  /\ event.continued /\ phase # "idle" /\ ~StopAnswered => file.blockedTree = run.last
  /\ \A h \in Hooks : Pending(h) => now[h] # run.last /\ file.blockedTree = now[h]

LastInv == ~lost => LastKept

LEMMA LastInit == Init => LastInv
BY DEF Init, LastInv, LastKept, Pending

LEMMA BlocksStay ==
  ASSUME TypeInv, PhaseInv, Counted, NEW h \in Hooks, Hook(h), ~Block(h), event.continued
  PROVE  SameBlocks(file', file) \/ (pc'[h] = "reply" /\ kind[h] = "Stop")
<1>1. TypeOK BY DEF TypeInv
<1>2. turn[h] \in Turn \cup {None} /\ edit[h].nested \in SUBSET Nested
      /\ found[h] \in SUBSET Findings
  BY <1>1 DEF TypeOK, Edits
<1>3. pc[h] \in Holding => SameBlocks(turn[h], file) BY DEF Counted
<1>4. ASSUME NEW u, SameBlocks(u, turn[h]), pc[h] \in Holding, file' = u \/ file' = file
      PROVE  SameBlocks(file', file)
  BY <1>3, <1>4 DEF SameBlocks
<1>5. CASE LoadTurn(h) \/ KeepTurn(h) \/ Snapshot(h) \/ CheckEdit(h)
  BY <1>5, SameItself DEF LoadTurn, KeepTurn, Snapshot, CheckEdit, session
<1>6. ~(TurnStartCarry(h) \/ Begin(h)) BY BlockedTurnStays
<1>7. CASE GiveContext(h)
  <2>1. pc[h] \in Holding BY <1>7 DEF GiveContext, Holding
  <2>2. CASE UNCHANGED file BY <2>2, SameItself
  <2>3. CASE turn[h] # None /\ \E ok \in Outcomes : Save(ok, [turn[h] EXCEPT !.notice = None])
    <3>1. SameBlocks([turn[h] EXCEPT !.notice = None], turn[h]) BY <1>2, <2>3, BlocksWritten
    <3>2. file' = [turn[h] EXCEPT !.notice = None] \/ file' = file BY <2>3 DEF Save
    <3> QED BY <1>4, <2>1, <3>1, <3>2
  <2> QED BY <1>7, <2>2, <2>3 DEF GiveContext
<1>8. CASE SeenFiles(h)
  <2>1. pc[h] \in Holding BY <1>8 DEF SeenFiles, At, Holding
  <2>2. CASE UNCHANGED <<turn, file>> BY <2>2, SameItself
  <2>3. CASE /\ turn[h] # None /\ turn' = [turn EXCEPT ![h] = RememberUnseen(turn[h], edit[h].nested)]
             /\ \E ok \in Outcomes : Save(ok, turn'[h])
    <3>1. SameBlocks(turn'[h], turn[h]) BY <1>1, <1>2, <2>3, BlocksWritten DEF TypeOK
    <3>2. file' = turn'[h] \/ file' = file BY <2>3 DEF Save
    <3> QED BY <1>4, <2>1, <3>1, <3>2
  <2> QED BY <1>8, <2>2, <2>3 DEF SeenFiles
<1>9. CASE Told(h)
  <2>1. pc[h] \in Holding BY <1>9 DEF Told, At, Holding
  <2>2. CASE UNCHANGED <<turn, file>> BY <2>2, SameItself
  <2>3. CASE /\ turn[h] # None
             /\ turn' = [turn EXCEPT ![h] = Report(turn[h], found[h] \cup edit[h].nested)]
             /\ \E ok \in Outcomes : Save(ok, turn'[h])
    <3>1. found[h] \cup edit[h].nested \in SUBSET Items BY <1>2 DEF Items
    <3>2. SameBlocks(turn'[h], turn[h]) BY <1>1, <1>2, <2>3, <3>1, BlocksWritten DEF TypeOK
    <3>3. file' = turn'[h] \/ file' = file BY <2>3 DEF Save
    <3> QED BY <1>4, <2>1, <3>2, <3>3
  <2> QED BY <1>9, <2>2, <2>3 DEF Told
<1>10. CASE FirstStop(h) \/ Pass(h) \/ LetThrough(h) \/ UnreadableStart(h) \/ Unchecked(h)
  BY <1>1, <1>10 DEF FirstStop, Pass, LetThrough, UnreadableStart, Unchecked, EndTurn, Checked,
                     At, Answer, TypeOK
<1> QED BY <1>5, <1>6, <1>7, <1>8, <1>9, <1>10 DEF Hook

LEMMA LastHook ==
  ASSUME TypeInv, PhaseInv, Counted, LastKept, NEW h \in Hooks, Hook(h) PROVE LastKept'
<1>1. TypeOK BY DEF TypeInv
<1>2. Framed(h) BY <1>1, HookFramed
<1>3. /\ pc[h] # "off" /\ pc[h] # "reply" /\ UNCHANGED <<phase, event, kind, run>>
      /\ \A g \in Hooks \ {h} : pc'[g] = pc[g] /\ reply'[g] = reply[g]
  BY <1>2 DEF Framed, Holding
<1>4. \A g \in Hooks \ {h} : ~Pending(g)'
  <2>1. \A g \in Hooks \ {h} : ~Pending(g) BY <1>3 DEF PhaseInv, Pending
  <2> QED BY <1>3, <2>1 DEF Pending
<1>5. ~event'.continued => run'.last = None BY <1>3 DEF LastKept
<1>6. CASE Block(h)
  <2> DEFINE u == [turn[h] EXCEPT !.blocks = Blocks(h) + 1, !.blockedTree = now[h]]
  <2>1. pc[h] = "check" /\ kind[h] = "Stop" BY <1>6 DEF Block, Checked, At
  <2>2. turn[h] \in Turn /\ now[h] \in Trees BY <1>1, <2>1 DEF TypeInv, TypeOK
  <2>3. /\ pc'[h] = "reply" /\ now' = now
        /\ Pending(h)' => file' = u
    BY <1>1, <1>6 DEF Block, Answer, Save, Pending, TypeOK
  <2>4. u.blockedTree = now[h] BY <2>2 DEF Turn
  <2> HIDE DEF u
  <2>5. now[h] # run.last
    <3>1. turn[h].blockedTree # now[h] BY <1>6 DEF Block, MayBlock, Unchanged
    <3>2. CASE ~event.continued BY <2>2, <3>2, HookAssumption DEF LastKept
    <3>3. CASE event.continued
      <4>1. phase # "idle" /\ ~StopAnswered /\ (\A g \in Hooks : ~Closing(g))
        BY <1>3, <2>1 DEF PhaseInv, PhaseOf, StopAnswered, Closing
      <4>2. file.blockedTree = run.last /\ Capped(file, run.blocks)
        BY <3>3, <4>1 DEF LastKept, Counted
      <4>3. SameBlocks(turn[h], file) BY <2>1 DEF Counted, Holding
      <4> QED BY <2>2, <3>1, <4>2, <4>3 DEF Capped, SameBlocks
    <3> QED BY <3>2, <3>3
  <2>6. StopAnswered' BY <1>3, <2>1, <2>3 DEF StopAnswered
  <2> QED BY <1>3, <1>4, <1>5, <2>3, <2>4, <2>5, <2>6 DEF LastKept
<1>7. CASE ~Block(h)
  <2>1. ~Pending(h)' BY <1>1, <1>7, OnlyStopsBlock
  <2>2. ASSUME event.continued, phase # "idle", ~StopAnswered'
        PROVE  file'.blockedTree = run.last
    <3>1. ~StopAnswered BY <1>3, <2>2 DEF StopAnswered
    <3>2. ~(pc'[h] = "reply" /\ kind[h] = "Stop") BY <1>3, <2>2 DEF StopAnswered
    <3>3. SameBlocks(file', file) BY <1>7, <2>2, <3>2, BlocksStay
    <3>4. \A g \in Hooks : ~Closing(g) BY <3>1 DEF StopAnswered, Closing
    <3>5. Capped(file, run.blocks) BY <2>2, <3>4 DEF Counted
    <3> QED BY <2>2, <3>1, <3>3, <3>5 DEF LastKept, SameBlocks, Capped
  <2> QED BY <1>3, <1>4, <1>5, <2>1, <2>2 DEF LastKept
<1> QED BY <1>6, <1>7

LEMMA LastLaunched ==
  ASSUME TypeOK, PhaseInv, LastKept, NEW h \in Hooks, NEW k \in Kinds, NEW e, Launch(h, k, e),
         phase \in {"working", "resending"}, run' = run, event'.continued = event.continued
  PROVE  LastKept'
<1>1. /\ pc'[h] = "load" /\ UNCHANGED <<file, now, reply>>
      /\ \A g \in Hooks \ {h} : pc'[g] = pc[g]
  BY DEF Launch, TypeOK
<1>2. ~StopAnswered /\ \A g \in Hooks : ~Pending(g)
  BY DEF StopAnswered, Pending, PhaseInv, PhaseOf
<1>3. \A g \in Hooks : ~Pending(g)' BY <1>1, <1>2 DEF Pending
<1> QED BY <1>1, <1>2, <1>3 DEF LastKept

LEMMA LastEnded ==
  ASSUME TypeOK, PhaseInv, LastKept, NEW h \in Hooks, pc[h] # "off", Exit({h}),
         phase' = AfterHook(h), UNCHANGED <<file, event, run>>
  PROVE  LastKept'
<1>1. \A g \in Hooks : pc'[g] # "off" =>
        g # h /\ pc'[g] = pc[g] /\ now'[g] = now[g] /\ reply'[g] = reply[g]
  BY DEF Exit
<1>2. \A g \in Hooks : Pending(g)' => Pending(g) /\ now'[g] = now[g] BY <1>1 DEF Pending
<1>3. ASSUME phase' # "idle" PROVE phase # "idle" /\ ~StopAnswered
  BY <1>3 DEF AfterHook, PhaseInv, PhaseOf, StopAnswered
<1> QED BY <1>2, <1>3 DEF LastKept

LEMMA LastBlocked ==
  ASSUME TypeOK, PhaseInv, LastKept, NEW h \in Hooks, Deliver(h), reply[h].verdict = "block"
  PROVE  LastKept'
<1>1. Pending(h) BY DEF Deliver, Pending
<1>2. \A g \in Hooks : pc'[g] = "off" BY <1>1 DEF Deliver, Exit, PhaseInv, Pending
<1>3. event'.continued /\ run'.last = now[h] /\ file' = file BY DEF Deliver, TypeOK
<1>4. \A g \in Hooks : ~Pending(g)' BY <1>2 DEF Pending
<1> QED BY <1>1, <1>3, <1>4 DEF LastKept

LEMMA LastAnew ==
  ASSUME TypeInv, NEW h \in Hooks, Prompt(h) PROVE LastKept'
<1>1. ~event'.continued /\ run'.last = None BY DEF Prompt
<1>2. \A g \in Hooks : pc'[g] \in {"load", "off"}
  BY DEF Prompt, StartTurn, Launch, Quiet, hooks, TypeInv, TypeOK
<1> QED BY <1>1, <1>2 DEF LastKept, Pending

LEMMA LastStep == TypeInv /\ PhaseInv /\ CapInv /\ LastInv /\ [Next]_vars => LastInv'
<1> SUFFICES ASSUME TypeInv, PhaseInv, CapInv, LastInv, [Next]_vars, ~lost',
                    \A h \in Hooks : ~Prompt(h)
             PROVE  LastKept'
  BY LastAnew DEF LastInv
<1>1. TypeOK /\ Counted /\ LastKept BY LostStays DEF TypeInv, CapInv, LastInv
<1>3. ASSUME NEW h \in Hooks, Resend(h) \/ Compact(h) \/ StopTurn(h) PROVE LastKept'
  <2>1. CASE Resend(h) /\ UNCHANGED hooks
    BY <1>1, <2>1 DEF Resend, StartTurn, Launch, Quiet, hooks, history, TypeOK, LastKept, Pending,
                      StopAnswered
  <2>2. CASE ~(Resend(h) /\ UNCHANGED hooks)
    <3>1. PICK k \in Kinds : /\ Launch(h, k, NoEdit) /\ phase \in {"working", "resending"}
                             /\ run' = run /\ event'.continued = event.continued
      BY <1>1, <1>3, <2>2 DEF Resend, StartTurn, Compact, StopTurn, Kinds, history, TypeOK
    <3> QED BY <1>1, <3>1, LastLaunched
  <2> QED BY <2>1, <2>2
<1>4. ASSUME NEW h \in Hooks, NEW e \in Edits, NEW t \in Trees, EditFiles(h, e, t) PROVE LastKept'
  <2>1. /\ Launch(h, "AfterEdit", e) /\ phase = "working" /\ "AfterEdit" \in Kinds
        /\ run' = run /\ event' = event
    BY <1>4 DEF EditFiles, Kinds, history
  <2> QED BY <1>1, <2>1, LastLaunched
<1>5. ASSUME NEW h \in Hooks, Kill(h) PROVE LastKept' BY <1>1, <1>5, LastEnded DEF Kill, history
<1>6. ASSUME NEW h \in Hooks, Deliver(h) PROVE LastKept'
  <2>1. CASE reply[h].verdict = "block" BY <1>1, <1>6, <2>1, LastBlocked
  <2>2. CASE reply[h].verdict # "block" BY <1>1, <1>6, <2>2, LastEnded DEF Deliver
  <2> QED BY <2>1, <2>2
<1>7. CASE Interrupt
  <2>1. /\ \A g \in Hooks : pc'[g] = "off"
        /\ phase' = "idle" /\ UNCHANGED <<event, run>>
    BY <1>7 DEF Interrupt, Exit, history
  <2> QED BY <1>1, <2>1 DEF LastKept, Pending
<1>8. CASE UNCHANGED vars \/ \E t \in Trees : ChangeTree(t)
  BY <1>1, <1>8 DEF vars, ChangeTree, session, hooks, history, LastKept, Pending, StopAnswered
<1>9. ASSUME NEW h \in Hooks, Hook(h) PROVE LastKept' BY <1>1, <1>9, LastHook
<1> QED BY <1>3, <1>4, <1>5, <1>6, <1>7, <1>8, <1>9 DEF Next, Agent

(* The agent is not blocked twice in a row on the same working tree,       *)
(* whatever is killed, interrupted or not saved on the way.                *)
THEOREM BlocksNeverRepeat == Spec => NoRepeatedBlock
<1>1. TypeInv /\ PhaseInv /\ LastInv /\ [Next]_vars =>
        [~lost /\ run'.blocks > run.blocks => run'.last # run.last]_vars
  <2> SUFFICES ASSUME TypeInv, PhaseInv, LastInv, Next, ~lost, run'.blocks > run.blocks
               PROVE  run'.last # run.last
    OBVIOUS
  <2>1. TypeOK BY DEF TypeInv
  <2>2. run.blocks \in Nat BY <2>1 DEF TypeOK
  <2>3. ~(run' = run) BY <2>2
  <2>4. PICK h \in Hooks : Deliver(h) /\ reply[h].verdict = "block"
    <3>1. ASSUME NEW h \in Hooks, Hook(h) PROVE FALSE
      BY <2>1, <2>3, <3>1, HookFramed DEF Framed
    <3>2. ASSUME NEW h \in Hooks, Agent(h), ~(Deliver(h) /\ reply[h].verdict = "block")
          PROVE  FALSE
      <4>1. CASE Prompt(h)
        <5>1. run'.blocks = 0 BY <4>1 DEF Prompt
        <5> QED BY <2>2, <5>1
      <4>2. CASE Resend(h) \/ Compact(h) \/ StopTurn(h) \/ Kill(h)
        BY <2>3, <4>2 DEF Resend, Compact, StopTurn, Kill, history
      <4>3. CASE \E e \in Edits, t \in Trees : EditFiles(h, e, t)
        BY <2>3, <4>3 DEF EditFiles, history
      <4>4. CASE Deliver(h) BY <2>3, <3>2, <4>4 DEF Deliver
      <4> QED BY <3>2, <4>1, <4>2, <4>3, <4>4 DEF Agent
    <3> QED BY <2>3, <3>1, <3>2 DEF Next, ChangeTree, Interrupt, history
  <2>5. run'.last = now[h] /\ Pending(h) BY <2>4 DEF Deliver, Pending
  <2> QED BY <2>5 DEF LastInv, LastKept
<1>2. Init => TypeInv /\ PhaseInv /\ CapInv /\ LastInv
  BY TypeInit, PhaseInit, CapInit, LastInit
<1>3. TypeInv /\ PhaseInv /\ CapInv /\ LastInv /\ [Next]_vars
        => (TypeInv /\ PhaseInv /\ CapInv /\ LastInv)'
  BY TypeStep, PhaseStep, CapStep, LastStep
<1> QED BY <1>1, <1>2, <1>3, PTL DEF Spec, NoRepeatedBlock
=============================================================================
