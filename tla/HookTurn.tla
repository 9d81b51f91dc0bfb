------------------------------ MODULE HookTurn ------------------------------
(***************************************************************************)
(* One coding-agent session under `jevgate hook`: the turn file kept in     *)
(* .jevgate/turns/ (src/src/hook/turn.rs) and the handlers that load it,    *)
(* run a check and write it back (src/src/hook/events.rs).                  *)
(*                                                                         *)
(* Every hook is a process of its own: it loads the turn file once, works   *)
(* on its copy, and saves the whole copy.  The agent waits for a hook's     *)
(* reply, but runs the hooks of parallel edits side by side, so only        *)
(* after-edit hooks overlap.  The person may interrupt the agent, which     *)
(* stops its hooks and sends no (completed) stop event, and may edit the    *)
(* working tree at any moment, also while a hook runs.                      *)
(*                                                                         *)
(* A working tree is a model value; Found[t] is what a check of tree t      *)
(* flags in what a turn changed, and a turn that began with a tree in       *)
(* Broken cannot load its configuration.                                    *)
(***************************************************************************)
EXTENDS Naturals, FiniteSets

CONSTANTS
  Hooks,      \* hook processes that may run at once
  Trees,      \* contents of the working tree
  Findings,   \* findings a check may report
  Found,      \* Found[t]: the blocking findings of tree t in what changed
  Broken,     \* trees whose jevgate.toml or custom questions do not load
  Nested,     \* files inside a repository of their own below the root
  MaxBlocks,  \* text::MAX_BLOCKS
  Envs,       \* the setups considered: each a set of EnvChoices
  None        \* Option::None

EnvChoices == {"interrupt",   \* the person stops the agent in a turn
               "kill",        \* the agent stops a hook past its own timeout
               "outage",      \* a check may not finish
               "failing",     \* snapshots and saves may fail
               "resend",      \* a block reason comes back as a prompt
               "parallel",    \* edits run, and are checked, side by side
               "nested",      \* edits reach files in nested repositories
               "cursor",      \* the prompt hook carries no context
               "unreadable",  \* the turn file may not be read, or Git pruned
                              \* the tree it names (turn::load)
               "noTurnStart"} \* a setup without the turn-start hook (end_turn)

ASSUME HookAssumption ==
  /\ IsFiniteSet(Hooks)
  /\ Found \in [Trees -> SUBSET Findings]
  /\ Broken \subseteq Trees
  /\ None \notin Trees
  /\ MaxBlocks \in Nat
  /\ Envs \subseteq SUBSET EnvChoices

VARIABLES
  env,     \* the setup of this session; no step changes it
  tree,    \* the working tree now
  file,    \* the session's turn file: a Turn, or None
  phase,   \* what the agent is doing
  event,   \* the current event's `prompt` and `continued`
  pc, kind, edit, turn, now, found, reply,  \* the hook processes
  run,     \* history: the blocks the agent got since the person's prompt,
           \* counted to MaxBlocks + 1
  debt,    \* history: where the next check has to begin: the start of the
           \* turn whose stop was not checked or, where no hook starts a
           \* turn, what the last stop judged
  since,   \* history: the tree when the turn began, or `debt` before it
  unnamed, \* history: nested files edited, not yet named to the person
  lost     \* history: a hook did not read the turn since the prompt

session == <<env, tree, file, phase, event>>
hooks   == <<pc, kind, edit, turn, now, found, reply>>
history == <<run, debt, since, unnamed, lost>>
vars    == <<session, hooks, history>>

-----------------------------------------------------------------------------
Notices == {None, "unchecked", "unreadable"}
Items   == Findings \cup Nested

Turn == [tree: Trees, blocks: Nat, blockedTree: Trees \cup {None},
         notice: Notices, unchecked: BOOLEAN, carried: BOOLEAN,
         reported: SUBSET Items, unseen: SUBSET Nested]

ASSUME NoneAssumption == None \notin Turn
ASSUME NoticeAssumption == None \notin {"unchecked", "unreadable"}

Kinds    == {"SessionStart", "TurnStart", "AfterEdit", "Stop"}
Edits    == [own: BOOLEAN, nested: SUBSET Nested]
NoEdit   == [own |-> FALSE, nested |-> {}]
Verdicts == {"context", "failed", "first", "block", "passed", "letThrough",
             "unchecked", "unreadable"}
Replies  == [verdict: Verdicts, notice: Notices, named: SUBSET Nested]
NoReply  == [verdict |-> "context", notice |-> None, named |-> {}]

(* Turn::begin and Turn::carry *)
BeginTurn(t, notice) ==
  [tree |-> t, blocks |-> 0, blockedTree |-> None, notice |-> notice,
   unchecked |-> FALSE, carried |-> FALSE, reported |-> {}, unseen |-> {}]
(* Faults: a carried turn begins at the last blocked tree, or now. *)
CarryFromBlock(u) == [BeginTurn(u.blockedTree, u.notice) EXCEPT !.carried = TRUE]
CarryFromNow(u)   == [BeginTurn(tree, u.notice) EXCEPT !.carried = TRUE]
CarryTurn(u) == [BeginTurn(u.tree, u.notice) EXCEPT !.carried = TRUE]

(* Fault: the paths are not kept. *)
ForgetUnseen(t, paths) == t
RememberUnseen(t, paths) == [t EXCEPT !.unseen = @ \cup paths]
ContinuedBy(t) == event.prompt = "reason" /\ t.blockedTree # None
Report(t, ids) == [t EXCEPT !.reported = @ \cup ids]

(* Fault: only an edit carries context. *)
HasContextAtEdits(k) == k = "AfterEdit"
HasContext(k) ==
  \/ k \in {"SessionStart", "AfterEdit"}
  \/ k = "TurnStart" /\ "cursor" \notin env

(* Whether a snapshot or a save succeeds; a save replaces the whole file. *)
Outcomes == IF "failing" \in env THEN BOOLEAN ELSE {TRUE}
Save(ok, t) == file' = IF ok THEN t ELSE file

(* The step that answers: `verdict`, and what the reply tells. *)
Answer(h, verdict, notice, named) ==
  /\ reply' = [reply EXCEPT
                 ![h] = [verdict |-> verdict, notice |-> notice, named |-> named]]
  /\ pc' = [pc EXCEPT ![h] = "reply"]

At(h, k, label) == pc[h] = label /\ kind[h] \in k
Goto(h, label)  == pc' = [pc EXCEPT ![h] = label]
Quiet == \A h \in Hooks : pc[h] = "off"

-----------------------------------------------------------------------------
(* The agent and the person *)

(* A hook alone runs as FirstHook, so that equal states are not told apart. *)
FirstHook == CHOOSE h \in Hooks : TRUE

Launch(h, k, e) ==
  /\ pc[h] = "off" /\ (Quiet => h = FirstHook)
  /\ pc' = [pc EXCEPT ![h] = "load"]
  /\ kind' = [kind EXCEPT ![h] = k]
  /\ edit' = [edit EXCEPT ![h] = e]
  /\ UNCHANGED <<file, turn, now, found, reply>>

(* The processes of hs end, and what they held is gone. *)
Exit(hs) ==
  /\ pc'    = [h \in Hooks |-> IF h \in hs THEN "off" ELSE pc[h]]
  /\ kind'  = [h \in Hooks |-> IF h \in hs THEN "Stop" ELSE kind[h]]
  /\ edit'  = [h \in Hooks |-> IF h \in hs THEN NoEdit ELSE edit[h]]
  /\ turn'  = [h \in Hooks |-> IF h \in hs THEN None ELSE turn[h]]
  /\ now'   = [h \in Hooks |-> IF h \in hs THEN None ELSE now[h]]
  /\ found' = [h \in Hooks |-> IF h \in hs THEN {} ELSE found[h]]
  /\ reply' = [h \in Hooks |-> IF h \in hs THEN NoReply ELSE reply[h]]

(* A prompt runs the turn-start hook, where there is one. *)
StartTurn(h) ==
  \/ /\ "noTurnStart" \notin env
     /\ Launch(h, "TurnStart", NoEdit)
     /\ phase' = "starting"
  \/ /\ "noTurnStart" \in env
     /\ phase' = "working"
     /\ UNCHANGED <<file, hooks>>

Prompt(h) ==
  /\ phase = "idle" /\ Quiet
  /\ StartTurn(h)
  /\ event' = [prompt |-> "person", continued |-> FALSE]
  /\ run' = [blocks |-> 0, last |-> None]
  /\ since' = IF debt = None THEN tree ELSE debt
  /\ unnamed' = IF "noTurnStart" \in env THEN {} ELSE unnamed
  /\ lost' = FALSE
  /\ UNCHANGED <<env, tree, debt>>

(* Gemini CLI, Cursor and OpenCode send the block reason as a prompt. *)
Resend(h) ==
  /\ phase = "resending" /\ Quiet
  /\ StartTurn(h)
  /\ event' = [event EXCEPT !.prompt = "reason"]
  /\ UNCHANGED <<env, tree, history>>

(* Claude Code and Codex start a session again after compacting one. *)
Compact(h) ==
  /\ phase = "working" /\ Quiet
  /\ Launch(h, "SessionStart", NoEdit)
  /\ phase' = "starting"
  /\ UNCHANGED <<env, tree, event, history>>

EditFiles(h, e, t) ==
  /\ phase = "working"
  /\ Quiet \/ "parallel" \in env
  /\ e.own \/ e.nested # {}
  /\ e.own <=> t # tree
  /\ e.nested # {} => "nested" \in env
  /\ Launch(h, "AfterEdit", e)
  /\ tree' = t
  /\ UNCHANGED <<env, phase, event, history>>

(* A change no after-edit hook sees: the agent's shell, or at any moment   *)
(* the person or another program.                                          *)
ChangeTree(t) ==
  /\ t # tree
  /\ tree' = t
  /\ UNCHANGED <<env, file, phase, event, hooks, history>>

StopTurn(h) ==
  /\ phase = "working" /\ Quiet
  /\ Launch(h, "Stop", NoEdit)
  /\ phase' = "stopping"
  /\ UNCHANGED <<env, tree, event, history>>

(* Esc, or Cursor's abort, whose stop event is not `completed` and which  *)
(* `stop` answers with nothing.                                           *)
Interrupt ==
  /\ "interrupt" \in env
  /\ phase # "idle"
  /\ phase' = "idle"
  /\ Exit(Hooks)
  /\ UNCHANGED <<env, tree, file, event, history>>

AfterHook(h) == IF kind[h] = "Stop" THEN "idle" ELSE "working"

Kill(h) ==
  /\ "kill" \in env
  /\ pc[h] # "off"
  /\ Exit({h})
  /\ phase' = AfterHook(h)
  /\ UNCHANGED <<env, tree, file, event, history>>

Deliver(h) ==
  LET r == reply[h] IN
  /\ pc[h] = "reply"
  /\ Exit({h})
  /\ IF r.verdict = "block"
       THEN /\ phase' = IF "resend" \in env THEN "resending" ELSE "working"
            /\ event' = [event EXCEPT !.continued = TRUE]
            /\ run' = [blocks |-> IF run.blocks > MaxBlocks THEN run.blocks
                                                          ELSE run.blocks + 1,
                       last |-> now[h]]
       ELSE /\ phase' = AfterHook(h)
            /\ UNCHANGED <<event, run>>
  /\ unnamed' = IF kind[h] = "AfterEdit" /\ turn[h] # None
                  THEN unnamed \cup edit[h].nested
                  ELSE unnamed \ r.named
  /\ UNCHANGED <<env, tree, file, debt, since, lost>>

-----------------------------------------------------------------------------
(* The handlers *)

(* turn::load: a file that cannot be read or parsed, and a turn whose tree *)
(* Git pruned, count as none.                                              *)
LoadTurn(h) ==
  /\ pc[h] = "load"
  /\ \/ turn' = [turn EXCEPT ![h] = file] /\ UNCHANGED lost
     \/ /\ "unreadable" \in env /\ file # None
        /\ turn' = [turn EXCEPT ![h] = None]
        /\ lost' = TRUE
  /\ Goto(h, "loaded")
  /\ UNCHANGED <<session, kind, edit, now, found, reply, run, debt, since, unnamed>>

(* session_start with a turn, and turn_start for a block reason sent back *)
KeepTurn(h) ==
  /\ turn[h] # None
  /\ \/ At(h, {"SessionStart"}, "loaded")
     \/ At(h, {"TurnStart"}, "loaded") /\ ContinuedBy(turn[h])
  /\ Goto(h, "context")
  /\ UNCHANGED <<session, kind, edit, turn, now, found, reply, history>>

TurnStartCarry(h) ==
  /\ At(h, {"TurnStart"}, "loaded")
  /\ turn[h] # None
  /\ ~ContinuedBy(turn[h])
  /\ turn[h].unchecked
  /\ \E ok \in Outcomes :
       /\ Save(ok, CarryTurn(turn[h]))
       /\ IF ok THEN /\ turn' = [turn EXCEPT ![h] = CarryTurn(turn[h])]
                     /\ Goto(h, "context")
                     /\ UNCHANGED reply
                ELSE Answer(h, "failed", None, {}) /\ UNCHANGED turn
  /\ UNCHANGED <<env, tree, phase, event, kind, edit, now, found, history>>

(* begin: a turn that starts now, owing the agent the last one's notice *)
Begin(h) ==
  /\ \/ At(h, {"SessionStart"}, "loaded") /\ turn[h] = None
     \/ /\ At(h, {"TurnStart"}, "loaded")
        /\ turn[h] # None => ~ContinuedBy(turn[h]) /\ ~turn[h].unchecked
  /\ LET notice == IF turn[h] = None THEN None ELSE turn[h].notice
         new    == BeginTurn(tree, notice)
     IN \E ok \in Outcomes :
          /\ Save(ok, new)
          /\ IF ok THEN /\ turn' = [turn EXCEPT ![h] = new]
                        /\ Goto(h, "context")
                        /\ unnamed' = {}
                        /\ since' = IF debt = None THEN tree ELSE since
                        /\ UNCHANGED reply
                   ELSE Answer(h, "failed", None, {}) /\ UNCHANGED <<turn, unnamed, since>>
  /\ UNCHANGED <<env, tree, phase, event, kind, edit, now, found, run, debt, lost>>

(* context: the notice the turn owes the agent, when this event carries it *)
GiveContext(h) ==
  /\ pc[h] = "context"
  /\ LET gives == turn[h] # None /\ turn[h].notice # None /\ HasContext(kind[h])
     IN /\ IF gives THEN \E ok \in Outcomes : Save(ok, [turn[h] EXCEPT !.notice = None])
                    ELSE UNCHANGED file
        /\ Answer(h, "context", IF gives THEN turn[h].notice ELSE None, {})
  /\ UNCHANGED <<env, tree, phase, event, kind, edit, turn, now, found, history>>

(* seen: nested files are remembered for the person at the turn's end *)
SeenFiles(h) ==
  LET new == edit[h].nested IN
  /\ At(h, {"AfterEdit"}, "loaded")
  /\ IF turn[h] # None /\ ~(new \subseteq turn[h].unseen)
       THEN /\ turn' = [turn EXCEPT ![h] = RememberUnseen(turn[h], new)]
            /\ \E ok \in Outcomes : Save(ok, turn'[h])
       ELSE UNCHANGED <<turn, file>>
  /\ found' = [found EXCEPT ![h] = {}]
  /\ Goto(h, IF edit[h].own THEN "snapshot" ELSE "told")
  /\ UNCHANGED <<env, tree, phase, event, kind, edit, now, reply, history>>

Snapshot(h) ==
  /\ \/ At(h, {"AfterEdit"}, "snapshot")
     \/ At(h, {"Stop"}, "loaded") /\ turn[h] # None
  /\ \/ /\ now' = [now EXCEPT ![h] = tree]
        /\ Goto(h, "check")
        /\ UNCHANGED <<file, reply, debt>>
     \/ /\ kind[h] = "AfterEdit" /\ turn[h] # None /\ FALSE \in Outcomes
        /\ Answer(h, "failed", None, {})
        /\ UNCHANGED <<file, now, debt>>
  /\ UNCHANGED <<env, tree, phase, event, kind, edit, turn, found, run, since, unnamed, lost>>

(* What a check from the turn's start to `now` flags; turn_findings asks   *)
(* nothing when the tree is the turn's start.                              *)
Open(h) == IF turn[h] # None /\ now[h] = turn[h].tree THEN {} ELSE Found[now[h]]

CheckEdit(h) ==
  /\ At(h, {"AfterEdit"}, "check")
  /\ \/ \E ids \in SUBSET Open(h) :
          /\ turn[h] # None => turn[h].tree \notin Broken
          /\ found' = [found EXCEPT ![h] = ids]
          /\ Goto(h, "told")
          /\ UNCHANGED reply
     \/ /\ \/ "outage" \in env
           \/ turn[h] # None /\ turn[h].tree \in Broken
        /\ Answer(h, "failed", None, {})
        /\ UNCHANGED found
  /\ UNCHANGED <<session, kind, edit, turn, now, history>>

(* told: the findings not yet reported reach the agent and are remembered *)
Told(h) ==
  LET ids == found[h] \cup edit[h].nested IN
  /\ At(h, {"AfterEdit"}, "told")
  /\ IF turn[h] # None /\ ~(ids \subseteq turn[h].reported)
       THEN /\ turn' = [turn EXCEPT ![h] = Report(turn[h], ids)]
            /\ \E ok \in Outcomes : Save(ok, turn'[h])
       ELSE UNCHANGED <<turn, file>>
  /\ Goto(h, "context")
  /\ UNCHANGED <<env, tree, phase, event, kind, edit, now, found, reply, history>>

(* history: a finished check covers the changes up to `t`, where the next  *)
(* turn begins unless a turn-start hook moves it.                          *)
Judged(t) == debt' = IF "noTurnStart" \in env THEN t ELSE None

(* first_stop: no record of the start, so one is made and the person told *)
FirstStop(h) ==
  /\ At(h, {"Stop"}, "loaded") /\ turn[h] = None
  /\ \E ok \in Outcomes : Save(ok, BeginTurn(tree, None))
  /\ Answer(h, "first", None, {})
  /\ Judged(tree)
  /\ UNCHANGED <<env, tree, phase, event, kind, edit, turn, now, found, run, since, unnamed, lost>>

-----------------------------------------------------------------------------
(* decide, at a stop whose check finished *)

StartLoads(h) == now[h] = turn[h].tree \/ turn[h].tree \notin Broken
Checked(h)    == At(h, {"Stop"}, "check") /\ StartLoads(h)

(* Faults: every block counts as the first; a block on the same tree; one   *)
(* block too many.                                                         *)
BlocksForgotten(h) == 0
NeverUnchanged(h)  == FALSE
MayBlockAgain(h)   ==
  turn[h].blockedTree # now[h]
  /\ (IF event.continued THEN turn[h].blocks ELSE 0) <= MaxBlocks

Blocks(h)   == IF event.continued THEN turn[h].blocks ELSE 0
Unchanged(h) == turn[h].blockedTree = now[h]
MayBlock(h) == ~Unchanged(h) /\ Blocks(h) < MaxBlocks

(* Fault: the next turn begins at the tree of the save, not of the check. *)
EndTurnNow(h, verdict) ==
  /\ \E ok \in Outcomes : Save(ok, BeginTurn(tree, None))
  /\ Answer(h, verdict, None, turn[h].unseen)
  /\ Judged(now[h])
  /\ UNCHANGED <<env, tree, phase, event, kind, edit, turn, now, found, run, since, unnamed, lost>>

EndTurn(h, verdict) ==
  /\ \E ok \in Outcomes : Save(ok, BeginTurn(now[h], None))
  /\ Answer(h, verdict, None, turn[h].unseen)
  /\ Judged(now[h])
  /\ UNCHANGED <<env, tree, phase, event, kind, edit, turn, now, found, run, since, unnamed, lost>>

Pass(h)       == Checked(h) /\ Open(h) = {} /\ EndTurn(h, "passed")
LetThrough(h) == Checked(h) /\ Open(h) # {} /\ ~MayBlock(h) /\ EndTurn(h, "letThrough")

Block(h) ==
  /\ Checked(h) /\ Open(h) # {} /\ MayBlock(h)
  /\ LET blocked == [turn[h] EXCEPT !.blocks = Blocks(h) + 1, !.blockedTree = now[h]]
     IN \E ok \in Outcomes :
          /\ Save(ok, blocked)
          /\ IF ok THEN Answer(h, "block", None, turn[h].unseen)
                   ELSE Answer(h, "failed", None, {})
  /\ Judged(debt)
  /\ UNCHANGED <<env, tree, phase, event, kind, edit, turn, now, found, run, since, unnamed, lost>>

UnreadableStart(h) ==
  /\ At(h, {"Stop"}, "check") /\ ~StartLoads(h)
  /\ \E ok \in Outcomes : Save(ok, BeginTurn(now[h], "unreadable"))
  /\ Answer(h, "unreadable", None, {})
  /\ Judged(now[h])
  /\ UNCHANGED <<env, tree, phase, event, kind, edit, turn, now, found, run, since, unnamed, lost>>

(* unchecked: the check did not finish, or no snapshot could be taken *)
Unchecked(h) ==
  /\ \/ At(h, {"Stop"}, "check") /\ now[h] # turn[h].tree /\ "outage" \in env
     \/ At(h, {"Stop"}, "loaded") /\ turn[h] # None /\ FALSE \in Outcomes
  /\ \E ok \in Outcomes :
       Save(ok, [turn[h] EXCEPT !.notice = "unchecked", !.unchecked = TRUE])
  /\ Answer(h, "unchecked", None, {})
  /\ debt' = IF debt = None THEN turn[h].tree ELSE debt
  /\ UNCHANGED <<env, tree, phase, event, kind, edit, turn, now, found, run, since, unnamed, lost>>

-----------------------------------------------------------------------------
(* Where no hook starts a turn, the session's start began the first one.   *)
FirstTurn == IF "noTurnStart" \in env THEN BeginTurn(tree, None) ELSE None

Init ==
  /\ env \in Envs
  /\ tree \in Trees
  /\ file = FirstTurn
  /\ phase = "idle"
  /\ event = [prompt |-> "person", continued |-> FALSE]
  /\ pc = [h \in Hooks |-> "off"]
  /\ kind = [h \in Hooks |-> "Stop"]
  /\ edit = [h \in Hooks |-> NoEdit]
  /\ turn = [h \in Hooks |-> None]
  /\ now = [h \in Hooks |-> None]
  /\ found = [h \in Hooks |-> {}]
  /\ reply = [h \in Hooks |-> NoReply]
  /\ run = [blocks |-> 0, last |-> None]
  /\ debt = IF "noTurnStart" \in env THEN tree ELSE None
  /\ since = tree
  /\ unnamed = {}
  /\ lost = FALSE

Agent(h) ==
  \/ Prompt(h) \/ Resend(h) \/ Compact(h) \/ StopTurn(h)
  \/ \E e \in Edits, t \in Trees : EditFiles(h, e, t)
  \/ Kill(h) \/ Deliver(h)

Hook(h) ==
  \/ LoadTurn(h) \/ KeepTurn(h) \/ TurnStartCarry(h) \/ Begin(h) \/ GiveContext(h)
  \/ SeenFiles(h) \/ Snapshot(h) \/ CheckEdit(h) \/ Told(h)
  \/ FirstStop(h) \/ Pass(h) \/ LetThrough(h) \/ Block(h)
  \/ UnreadableStart(h) \/ Unchecked(h)

Next ==
  \/ \E h \in Hooks : Agent(h) \/ Hook(h)
  \/ \E t \in Trees : ChangeTree(t)
  \/ Interrupt

Spec == Init /\ [][Next]_vars

(* The hook answers by its deadline and the agent reads the answer.        *)
FairSpec == Spec /\ \A h \in Hooks : WF_vars(Hook(h)) /\ WF_vars(Deliver(h))

-----------------------------------------------------------------------------
Labels == {"off", "load", "loaded", "snapshot", "check", "told", "context", "reply"}
Phases == {"idle", "starting", "working", "stopping", "resending"}

(* Every variable keeps its type; the turn file is absent or a whole turn. *)
TypeOK ==
  /\ env \in SUBSET EnvChoices
  /\ tree \in Trees
  /\ file \in Turn \cup {None}
  /\ phase \in Phases
  /\ event \in [prompt: {"person", "reason"}, continued: BOOLEAN]
  /\ pc \in [Hooks -> Labels]
  /\ kind \in [Hooks -> Kinds]
  /\ edit \in [Hooks -> Edits]
  /\ turn \in [Hooks -> Turn \cup {None}]
  /\ now \in [Hooks -> Trees \cup {None}]
  /\ found \in [Hooks -> SUBSET Findings]
  /\ reply \in [Hooks -> Replies]
  /\ run \in [blocks: 0 .. MaxBlocks + 1, last: Trees \cup {None}]
  /\ debt \in Trees \cup {None}
  /\ since \in Trees
  /\ unnamed \subseteq Nested
  /\ lost \in BOOLEAN

(* The agent is blocked at most MaxBlocks times between two prompts of the *)
(* person, even when the turn file cannot be written, a hook is stopped    *)
(* half way, or parallel after-edit hooks write the file back (hook/mod.rs *)
(* and decide in events.rs: "at most three times a turn").  A hook that    *)
(* cannot read the turn begins it anew, and its count with it.             *)
BlockCap == ~lost => run.blocks <= MaxBlocks

(* A stop is not blocked twice on the same working tree: the agent that    *)
(* kept the code as it was is let through (let_through).                   *)
NoRepeatedBlock ==
  [][~lost /\ run'.blocks > run.blocks => run'.last # run.last]_vars

(* Until a stop is checked, the session's turn begins where the turn whose *)
(* stop could not be checked began (turn_start and unchecked: "the next    *)
(* check still covers these changes"); where no hook starts a turn, it     *)
(* begins at the tree the last stop judged, whatever was edited while that *)
(* stop was answered (end_turn).                                           *)
UncheckedStaysCovered == debt # None => file # None /\ file.tree = debt

(* No hook is stopped half way, and every load and save succeeds. *)
Undisturbed == env \cap {"interrupt", "kill", "failing", "unreadable"} = {}

(* ... which holds while the person interrupts no turn: the flag that      *)
(* carries the start to the next turn is good for one turn start.          *)
UncheckedCovered == Undisturbed => UncheckedStaysCovered

(* A stop that passes without a word leaves nothing flagged in what was    *)
(* changed since the turn began, or since the start of a turn that was not *)
(* checked before it (decide); where no hook starts a turn, since what the *)
(* last stop judged, also by edits made while it was answered (end_turn).  *)
SilentStopIsClean ==
  Undisturbed =>
    \A h \in Hooks : At(h, {"Stop"}, "reply") /\ reply[h].verdict = "passed"
                       => now[h] = since \/ Found[now[h]] = {}

PromptsCarryContext == env \cap {"cursor", "noTurnStart"} = {}

(* The notice that a turn's changes stayed unchecked leaves the turn file  *)
(* only in a reply to the agent, where its prompts carry context           *)
(* (unreadable_start: "the agent at its next event").                      *)
NoticeReachesAgent ==
  [][Undisturbed /\ PromptsCarryContext
     /\ file # None /\ file.notice = "unreadable" /\ file'.notice # "unreadable"
     => \E h \in Hooks : pc'[h] = "reply" /\ reply'[h].notice = "unreadable"]_vars

(* A stop that ends the turn names to the person every file the agent      *)
(* edited inside a repository of its own (turn.rs: "the person is told at  *)
(* its end").                                                              *)
UnseenNamed ==
  \A h \in Hooks :
    At(h, {"Stop"}, "reply") /\ reply[h].verdict \in {"passed", "letThrough"}
      => unnamed \subseteq reply[h].named

(* ... which holds for edits made one at a time, in a turn whose stop is   *)
(* checked and not stopped half way: a carried turn starts with no memory  *)
(* of these files.                                                         *)
UnseenNamedInOrder ==
  Undisturbed /\ env \cap {"parallel", "outage"} = {} => UnseenNamed

(* An agent that keeps stopping is not held for ever: the person gets the  *)
(* prompt back, unless a hook could not read the turn since they prompted. *)
AgentReleased == []<>(phase = "stopping") => []<>(phase = "idle" \/ lost)
=============================================================================
