---------------------------- MODULE HookProcess ----------------------------
(***************************************************************************)
(* The processes that answer hook events in one repository, and what they   *)
(* share under .jevgate/: the mark that decides which copy of an event's    *)
(* process answers it (turn::claim and Claim's Drop, src/src/hook/turn.rs), *)
(* the session lock (review::open_store, src/src/hook/review.rs), and the   *)
(* provider failure their checks wait out (outage.json,                     *)
(* src/src/hook/outage.rs).  A Git hook's `jevgate check` (run in           *)
(* src/src/check.rs) is a process without an event: it takes the lock or    *)
(* gives up at once, and shares the failure.                                *)
(*                                                                         *)
(* The session lock belongs to an open file, which a child forked for a Git *)
(* command shares until it execs: it is free when it is unlocked, or when   *)
(* neither the process nor such a child has the file open.                  *)
(*                                                                         *)
(* Every step touches one shared file, so the processes interleave between  *)
(* any two.  A tick of `clock` is long beside the steps that do not wait    *)
(* for the provider or the lock.                                            *)
(***************************************************************************)
EXTENDS Naturals, FiniteSets

CONSTANTS
  Procs,
  Events,
  Event,     \* Event[p]: what p answers, or None for a Git hook's check
  LockWait,  \* review::LOCK_WAIT, in ticks
  Wait,      \* outage::WAIT_SECS, in ticks
  MaxClock,  \* bound: the last tick
  None

Holds == [at: Nat, by: Procs, answered: BOOLEAN]

ASSUME ProcessAssumption ==
  /\ None \notin Procs /\ None \notin Events /\ None \notin Holds /\ None \notin Nat
  /\ Event \in [Procs -> Events \cup {None}]
  /\ \A e \in Events : \E p \in Procs : Event[p] = e
  /\ LockWait \in Nat /\ Wait \in Nat \ {0} /\ MaxClock \in Nat

VARIABLES
  overlap,  \* whether processes may overlap; no step changes it
  clock,
  mark,     \* mark[e]: who created the event's mark, None when it is gone
  stale,    \* stale[e]: the mark is TWIN_SECS old
  lock,     \* whose open file has the session lock, None when it is free
  outage,   \* outage.json's `at`, or None
  pc,
  owns,     \* owns[p]: p's Claim names the mark, which its Drop removes
  waiting,  \* waiting[p]: p waits a failure out and asks the provider nothing
  until,    \* until[p]: p's lock_until
  ending,   \* ending[p]: how p's check ended
  store,    \* store[p]: p's check has its Store open
  forked,   \* forked[p]: a child p forked meanwhile has not run exec
  replied,  \* history: processes that answered
  killed,   \* history: processes the agent stopped
  sending,  \* history: sending[e]: the copies of the latest sending of the
            \* event, which began when none ran and no fresh mark was left
  held      \* history: when the failing provider last held a check, whose,
            \* and whether it answered one since; None before

shared  == <<mark, stale, lock, outage>>
files   == <<store, forked>>
process == <<pc, owns, waiting, until, ending, files>>
world   == <<overlap, clock>>
history == <<replied, killed, sending, held>>
vars    == <<world, shared, process, history>>

-----------------------------------------------------------------------------
Labels == {"start", "age", "remove", "recreate",    \* the claim
           "read", "open", "probe", "probed",       \* outage.json and the lock
           "check", "settle", "answer", "exit",
           "silent", "done"}
Endings == {"ok", "outage", "unchecked", "lockedOut"}

Goto(p, label) == pc' = [pc EXCEPT ![p] = label]
Over(p) == pc[p] \in {"silent", "done"}
Alone == \A p \in Procs : pc[p] = "start" \/ Over(p)

-----------------------------------------------------------------------------
(* claim: create_new decides; a mark that is gone when its age is read has *)
(* none and is not respected; the second create may fail, and then the     *)
(* process answers without a mark.                                         *)

(* Fault: a process does not own the mark it created. *)
CreateUnowned(p) ==
  /\ mark[Event[p]] = None
  /\ mark' = [mark EXCEPT ![Event[p]] = p]
  /\ Goto(p, "read")
  /\ UNCHANGED <<stale, owns>>

Create(p) ==
  LET e == Event[p] IN
  /\ mark[e] = None
  /\ mark' = [mark EXCEPT ![e] = p]
  /\ stale' = [stale EXCEPT ![e] = FALSE]
  /\ owns' = [owns EXCEPT ![p] = TRUE]
  /\ Goto(p, "read")

Given(e) == {p \in Procs : Event[p] = e}
SentAnew(e) ==
  /\ mark[e] # None => stale[e]
  /\ \A p \in Given(e) : pc[p] = "start" \/ Over(p)

FirstCreate(p) ==
  /\ pc[p] = "start" /\ Event[p] # None
  /\ overlap \/ Alone
  /\ sending' = [sending EXCEPT
                   ![Event[p]] = IF SentAnew(Event[p]) THEN {p} ELSE @ \cup {p}]
  /\ \/ Create(p)
     \/ mark[Event[p]] # None /\ Goto(p, "age") /\ UNCHANGED <<mark, stale, owns>>
  /\ UNCHANGED <<world, lock, outage, waiting, until, ending, files, replied, killed, held>>

(* Fault: a mark silences the event whatever its age. *)
RespectLeftover(p) ==
  /\ pc[p] = "age"
  /\ Goto(p, IF mark[Event[p]] # None THEN "silent" ELSE "remove")
  /\ UNCHANGED <<world, shared, owns, waiting, until, ending, files, history>>

ReadAge(p) ==
  LET e == Event[p] IN
  /\ pc[p] = "age"
  /\ Goto(p, IF mark[e] # None /\ ~stale[e] THEN "silent" ELSE "remove")
  /\ UNCHANGED <<world, shared, owns, waiting, until, ending, files, history>>

RemoveMark(p) ==
  /\ pc[p] = "remove"
  /\ mark' = [mark EXCEPT ![Event[p]] = None]
  /\ stale' = [stale EXCEPT ![Event[p]] = FALSE]
  /\ Goto(p, "recreate")
  /\ UNCHANGED <<world, lock, outage, owns, waiting, until, ending, files, history>>

Recreate(p) ==
  /\ pc[p] = "recreate"
  /\ \/ Create(p)
     \/ mark[Event[p]] # None /\ Goto(p, "read") /\ UNCHANGED <<mark, stale, owns>>
  /\ UNCHANGED <<world, lock, outage, waiting, until, ending, files, history>>

-----------------------------------------------------------------------------
(* Fault: a failure is waited out once its time has passed. *)
CurrentTooLate == outage # None /\ clock >= outage + Wait

(* outage::current, read before the lock by a hook (Hook::check) and under *)
(* it by a Git hook's check                                                *)
Current == outage # None /\ clock < outage + Wait

ReadOutage(p) ==
  /\ pc[p] = "read"
  /\ waiting' = [waiting EXCEPT ![p] = Current]
  /\ until' = [until EXCEPT ![p] = clock + LockWait]
  /\ Goto(p, IF Event[p] = None THEN "check" ELSE "open")
  /\ UNCHANGED <<world, shared, owns, ending, files, history>>

(* Store::open's try_lock *)
Open(p) ==
  /\ lock = None
  /\ lock' = p
  /\ store' = [store EXCEPT ![p] = TRUE]

OpenStore(p) ==
  /\ pc[p] = "open"
  /\ \/ Open(p) /\ Goto(p, "check")
     \/ lock # None /\ Goto(p, "probe") /\ UNCHANGED <<lock, store>>
  /\ UNCHANGED <<world, mark, stale, outage, owns, waiting, until, ending, forked, history>>

(* A Git hook's check ends with an error when the lock is taken. *)
GitOpenStore(p) ==
  /\ pc[p] = "start" /\ Event[p] = None
  /\ overlap \/ Alone
  /\ \/ Open(p) /\ Goto(p, "read")
     \/ lock # None /\ Goto(p, "done") /\ UNCHANGED <<lock, store>>
  /\ UNCHANGED <<world, mark, stale, outage, owns, waiting, until, ending, forked, history>>

(* writer_active: it takes the lock to see whether it is free; a hook that *)
(* finds it held tries again until lock_until.                             *)
ProbeLock(p) ==
  /\ pc[p] = "probe"
  /\ \/ /\ lock = None
        /\ lock' = p
        /\ Goto(p, "probed")
        /\ UNCHANGED ending
     \/ /\ lock # None /\ clock < until[p]
        /\ Goto(p, "open")
        /\ UNCHANGED <<lock, ending>>
     \/ /\ lock # None /\ clock >= until[p]
        /\ ending' = [ending EXCEPT ![p] = "lockedOut"]
        /\ Goto(p, "settle")
        /\ UNCHANGED lock
  /\ UNCHANGED <<world, mark, stale, outage, owns, waiting, until, files, history>>

(* ... and one that finds it free gives up with the error of its own open. *)
Unprobe(p) ==
  /\ pc[p] = "probed"
  /\ lock' = None
  /\ ending' = [ending EXCEPT ![p] = "lockedOut"]
  /\ Goto(p, "settle")
  /\ UNCHANGED <<world, mark, stale, outage, owns, waiting, until, files, history>>

(* Fault: the file is closed without being unlocked. *)
CloseStore(p) ==
  /\ lock' = IF forked[p] THEN lock ELSE None
  /\ store' = [store EXCEPT ![p] = FALSE]

(* Store's Drop unlocks the file, whoever else has it open. *)
DropStore(p) ==
  /\ lock' = None
  /\ store' = [store EXCEPT ![p] = FALSE]

(* Another thread of p's starts a Git command while the Store is open. *)
Fork(p) ==
  /\ store[p] /\ ~forked[p]
  /\ forked' = [forked EXCEPT ![p] = TRUE]
  /\ UNCHANGED <<world, shared, pc, owns, waiting, until, ending, store, history>>

(* The child's exec closes the file, which frees a lock nobody unlocked. *)
Exec(p) ==
  /\ forked[p]
  /\ forked' = [forked EXCEPT ![p] = FALSE]
  /\ lock' = IF lock = p /\ ~store[p] THEN None ELSE lock
  /\ UNCHANGED <<world, mark, stale, outage, pc, owns, waiting, until, ending, store, history>>

-----------------------------------------------------------------------------
(* The check of a hook runs on a thread of its own, which drops the Store   *)
(* when it ends; one past the deadline is left behind with it.  A Git      *)
(* hook's check has its Store until it returns.                            *)
EndCheck(p, how, left) ==
  /\ pc[p] = "check"
  /\ ending' = [ending EXCEPT ![p] = how]
  /\ IF left \/ Event[p] = None THEN UNCHANGED <<lock, store>> ELSE DropStore(p)
  /\ Goto(p, "settle")
  /\ UNCHANGED <<world, mark, stale, outage, owns, waiting, until, forked, replied, killed, sending>>

(* Every answer was cached, or the provider gave it. *)
CheckFinishes(p) ==
  /\ EndCheck(p, "ok", FALSE)
  /\ \/ UNCHANGED held
     \/ ~waiting[p] /\ held # None /\ held' = [held EXCEPT !.answered = TRUE]

(* Watch saw a failure that passes with time, or silence. *)
CheckMeetsFailure(p) ==
  /\ \E left \in BOOLEAN : EndCheck(p, "outage", left)
  /\ ~waiting[p]
  /\ held' = [at |-> clock, by |-> p, answered |-> FALSE]

(* An answer that is not cached while a failure is waited out, a failure   *)
(* for good, or the deadline while other work runs                         *)
CheckFails(p) ==
  /\ \E left \in BOOLEAN : EndCheck(p, "unchecked", left)
  /\ UNCHANGED held

(* A check past its deadline that was asking only Waiting reads as silence. *)
WaitingTimesOut(p) ==
  /\ EndCheck(p, "outage", TRUE)
  /\ waiting[p]
  /\ UNCHANGED held

(* A check left behind ends before its process does. *)
LeftBehindEnds(p) ==
  /\ Event[p] # None /\ store[p] /\ pc[p] \in {"settle", "answer", "exit"}
  /\ DropStore(p)
  /\ UNCHANGED <<world, mark, stale, outage, pc, owns, waiting, until, ending, forked, history>>

(* Faults: the wait's start is kept; a check that waits records too. *)
SettledEarlier(p) == IF ending[p] = "outage" THEN clock - Wait ELSE outage
SettledAlways(p) ==
  CASE ending[p] = "ok" -> None
    [] ending[p] = "outage" -> clock
    [] OTHER -> outage

(* Hook::check and remember_outage: clear or record *)
Settled(p) ==
  CASE ~waiting[p] /\ ending[p] = "ok" -> None
    [] ~waiting[p] /\ ending[p] = "outage" -> clock
    [] OTHER -> outage

Settle(p) ==
  /\ pc[p] = "settle"
  /\ outage' = Settled(p)
  /\ Goto(p, "answer")
  /\ UNCHANGED <<world, mark, stale, lock, owns, waiting, until, ending, files, history>>

(* The reply is made and the claim dropped: whatever file has the mark's   *)
(* name is removed.  A Git hook's check reports, and its Store is dropped. *)
Answer(p) ==
  LET e == Event[p] IN
  /\ pc[p] = "answer"
  /\ replied' = replied \cup {p}
  /\ mark' = IF owns[p] THEN [mark EXCEPT ![e] = None] ELSE mark
  /\ stale' = IF owns[p] THEN [stale EXCEPT ![e] = FALSE] ELSE stale
  /\ IF e = None THEN DropStore(p) ELSE UNCHANGED <<lock, store>>
  /\ Goto(p, "exit")
  /\ UNCHANGED <<world, outage, owns, waiting, until, ending, forked, killed, sending, held>>

(* The process ends: its files close, and what it held in memory is gone. *)
End(p) ==
  /\ lock' = IF lock = p /\ ~forked[p] THEN None ELSE lock
  /\ store' = [store EXCEPT ![p] = FALSE]
  /\ owns' = [owns EXCEPT ![p] = FALSE]
  /\ waiting' = [waiting EXCEPT ![p] = FALSE]
  /\ until' = [until EXCEPT ![p] = 0]
  /\ ending' = [ending EXCEPT ![p] = "unchecked"]
  /\ Goto(p, "done")
  /\ UNCHANGED <<world, mark, stale, outage, forked>>

Exit(p) ==
  /\ pc[p] = "exit"
  /\ End(p)
  /\ UNCHANGED history

-----------------------------------------------------------------------------
(* The agent stops a process: its mark stays, and its files with a child. *)
Kill(p) ==
  /\ pc[p] # "start" /\ ~Over(p)
  /\ killed' = killed \cup {p}
  /\ End(p)
  /\ UNCHANGED <<replied, sending, held>>

(* An answer may take up to 50 s, so a mark may get TWIN_SECS old under it. *)
GetOld(e) ==
  /\ mark[e] # None /\ ~stale[e]
  /\ stale' = [stale EXCEPT ![e] = TRUE]
  /\ UNCHANGED <<world, mark, lock, outage, process, history>>

Tick ==
  /\ clock < MaxClock
  /\ \A p \in Procs : /\ Over(p) \/ pc[p] \in {"start", "open", "probe", "check"}
                      /\ ~forked[p]
  /\ clock' = clock + 1
  /\ UNCHANGED <<overlap, shared, process, history>>

Claims(p) == FirstCreate(p) \/ ReadAge(p) \/ RemoveMark(p) \/ Recreate(p)
Locks(p)  ==
  \/ ReadOutage(p) \/ OpenStore(p) \/ GitOpenStore(p) \/ ProbeLock(p) \/ Unprobe(p)
  \/ Fork(p) \/ Exec(p) \/ LeftBehindEnds(p)
Checks(p) ==
  \/ CheckFinishes(p) \/ CheckMeetsFailure(p) \/ CheckFails(p) \/ WaitingTimesOut(p)
  \/ Settle(p) \/ Answer(p) \/ Exit(p)

(* Once every process is over, nothing is left to do. *)
AllOver == (\A p \in Procs : Over(p)) /\ UNCHANGED vars

Next ==
  \/ \E p \in Procs : Claims(p) \/ Locks(p) \/ Checks(p) \/ Kill(p)
  \/ \E e \in Events : GetOld(e)
  \/ Tick \/ AllOver

Init ==
  /\ overlap \in BOOLEAN /\ clock = 0
  /\ mark = [e \in Events |-> None] /\ stale = [e \in Events |-> FALSE]
  /\ lock = None /\ outage = None
  /\ pc = [p \in Procs |-> "start"]
  /\ owns = [p \in Procs |-> FALSE] /\ waiting = [p \in Procs |-> FALSE]
  /\ until = [p \in Procs |-> 0] /\ ending = [p \in Procs |-> "unchecked"]
  /\ store = [p \in Procs |-> FALSE] /\ forked = [p \in Procs |-> FALSE]
  /\ replied = {} /\ killed = {} /\ sending = [e \in Events |-> {}] /\ held = None

Spec == Init /\ [][Next]_vars

-----------------------------------------------------------------------------
(* Every variable keeps its type. *)
TypeOK ==
  /\ overlap \in BOOLEAN /\ clock \in Nat
  /\ mark \in [Events -> Procs \cup {None}]
  /\ stale \in [Events -> BOOLEAN]
  /\ lock \in Procs \cup {None}
  /\ outage \in Nat \cup {None}
  /\ pc \in [Procs -> Labels]
  /\ owns \in [Procs -> BOOLEAN] /\ waiting \in [Procs -> BOOLEAN]
  /\ until \in [Procs -> Nat] /\ ending \in [Procs -> Endings]
  /\ store \in [Procs -> BOOLEAN] /\ forked \in [Procs -> BOOLEAN]
  /\ sending \in [Events -> SUBSET Procs]
  /\ replied \subseteq Procs /\ killed \subseteq Procs
  /\ held \in Holds \cup {None}

(* The processes of the event's latest sending are over, none was stopped. *)
Answered(e) == sending[e] # {} /\ \A p \in sending[e] : Over(p) /\ p \notin killed

(* Of the processes a sending of an event runs, when none of them was      *)
(* stopped, one answers: no two each keep silent for the other, however    *)
(* slow an answer is, and none for the mark a stopped process of an        *)
(* earlier sending left, once it is TWIN_SECS old (claim).                 *)
SomebodyAnswers == \A e \in Events : Answered(e) => replied \cap sending[e] # {}

(* ... and no mark is left to silence the same event sent again (claim:    *)
(* "so the same event sent again later is answered again").                *)
NoMarkLeft == \A e \in Events : Answered(e) => mark[e] = None

(* The session lock goes with an open Store: a check holds it as long as   *)
(* its Store is open, so no two write at once, and no longer, whatever a   *)
(* child shares.  Only a process that ends as it forks, stopped or with    *)
(* its check left behind, leaves it to the child until that runs exec      *)
(* (Store's Drop: "Releasing only the descriptor can leave a lock held by  *)
(* a forked child").                                                       *)
LockGoesWithStore ==
  /\ \A p \in Procs : store[p] => lock = p
  /\ lock # None => \/ store[lock]
                    \/ pc[lock] = "probed"
                    \/ Over(lock) /\ forked[lock]

(* What the checks wait out is a failure a check met, no later: a check    *)
(* that waits one out never extends it (Hook::check), so the provider is   *)
(* asked again Wait after it last failed (WAIT_SECS).                      *)
OutageWasMet == outage # None => held # None /\ outage <= held.at

(* When hooks run one after another and none is stopped, an outage holds   *)
(* at most one of them in each Wait until the provider answers             *)
(* (coding-agents.md: "so an outage holds the agent once").                *)
HeldOnce ==
  [][~overlap /\ killed = {} /\ held # None /\ held' # held /\ ~held'.answered
     => held.answered \/ clock >= held.at + Wait]_vars
=============================================================================
