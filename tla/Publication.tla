---------------------------- MODULE Publication ----------------------------
(***************************************************************************)
(* How reports are made, published and read in one repository:             *)
(*  - checks, Git hooks' checks, agent hooks' checks and watchers (judge    *)
(*    and run in src/src/check.rs, Session::evaluate in src/src/evaluate.rs,*)
(*    src/src/watch.rs), one at a time past the session lock, that publish  *)
(*    a report again and again as it fills (Store::publish);               *)
(*  - the server's `/changes` and a reader that follows it, without the     *)
(*    lock (src/src/server.rs, src/src/storage/reports.rs);                *)
(*  - `jevgate baseline` and `baseline mark`, without the lock too.         *)
(*                                                                         *)
(* Each step reads or writes one shared file, so everything interleaves    *)
(* between any two, and a session can be killed between any two.           *)
(***************************************************************************)
EXTENDS Reports, FiniteSets, Sequences

CONSTANTS
  Sessions,
  Commands,    \* processes that run `jevgate baseline` and `baseline mark`
  History,     \* storage::HISTORY
  MaxRounds,   \* bound: dispatches of a check before it composes
  Envs         \* what a behaviour may do: see EnvType

VARIABLES
  env,       \* the kinds of event this behaviour has; no step changes it
  left,      \* bounds: edits, session starts, stops and commands left
  disk,      \* the text of each file
  turn,      \* the agent's turn
  baseline,  \* jevgate-baseline.json
  lock,      \* who holds session.lock: a session, "probe" or "free"
  latest,    \* latest.json
  history,   \* history[g]: what was last written to history/<g>.json
  kept,      \* the generations whose history file is there
  ses,       \* the sessions
  reader,    \* the server's answer to a reader, and the reader's cursor
  cmd,       \* the baseline commands
  broken     \* history: generations a session ended without settling

store == <<latest, history, kept>>
vars == <<env, left, disk, turn, baseline, lock, store, ses, reader, cmd, broken>>

-----------------------------------------------------------------------------
Args == [kind: {"check", "git", "hook", "watch"}, lines: BOOLEAN,
         scope: SUBSET Files]
EnvType == [sessions: SUBSET Sessions, commands: SUBSET Commands,
            args: SUBSET Args, texts: SUBSET Texts, entries: SUBSET Entries,
            edits: Nat, runs: Nat, stops: Nat, writes: Nat,
            reads: BOOLEAN, turns: BOOLEAN, fails: BOOLEAN, invalid: BOOLEAN]

ASSUME PublicationAssumption ==
  /\ History \in Nat \ {0} /\ MaxRounds \in Nat \ {0}
  /\ Envs \subseteq EnvType
  /\ {"probe", "free"} \cap Sessions = {}

Covered == UNION {args.scope : args \in env.args}

Steps == {"idle", "lock", "first", "history", "latest", "prune", "round",
          "answered", "settle", "poll", "done"}
Codes == {"none", "pass", "fail", "incomplete", "let"}

Idle == [pc |-> "idle", next |-> "idle", report |-> NoReport, previous |-> NoReport,
         signal |-> FALSE, changed |-> FALSE, rounds |-> 0, edited |-> {},
         code |-> "none"]

Asleep == [pc |-> "idle", gen |-> 0, upto |-> 0, got |-> <<>>,
           since |-> 0, told |-> <<>>]

NoCommand == [pc |-> "idle", new |-> NoBaseline.entry, old |-> NoBaseline.entry,
              merge |-> FALSE, report |-> NoReport, mark |-> FALSE, overlapped |-> FALSE]

Init ==
  /\ env \in Envs
  /\ left = [edits |-> env.edits, runs |-> env.runs, stops |-> env.stops,
             writes |-> env.writes]
  /\ disk \in [Files -> env.texts] /\ \A f \in Files \ Covered : disk[f] = "clean"
  /\ turn = NoTurn
  /\ \E e \in env.entries : baseline = [valid |-> TRUE, entry |-> e]
  /\ lock = "free"
  /\ latest = NoReport /\ history = <<>> /\ kept = {}
  /\ ses = [s \in Sessions |-> Idle]
  /\ reader = Asleep
  /\ cmd = [c \in Commands |-> NoCommand]
  /\ broken = {}

Spend(what) == left[what] > 0 /\ left' = [left EXCEPT ![what] = @ - 1]

-----------------------------------------------------------------------------
(* The repository *)

Edit(f) ==
  /\ Spend("edits")
  /\ f \in Covered
  /\ \E t \in env.texts \ {disk[f]} : disk' = [disk EXCEPT ![f] = t]
  /\ ses' = [s \in Sessions |-> [ses[s] EXCEPT !.edited = @ \cup {f}]]
  /\ UNCHANGED <<env, turn, baseline, lock, store, reader, cmd, broken>>

\* A conflict marker or a typo in jevgate-baseline.json, and its repair, by
\* hand and so not while a command is at it.
BreakBaseline ==
  /\ env.invalid
  /\ Spend("edits")
  /\ baseline' = [baseline EXCEPT !.valid = ~@]
  /\ \A c \in Commands : cmd[c].pc = "idle"
  /\ UNCHANGED <<env, disk, turn, lock, store, ses, reader, cmd, broken>>

\* The agent's prompt: the working tree as it is, the baseline with it, which
\* a command may have truncated.
BeginTurn ==
  /\ env.turns /\ ~turn.on
  /\ turn' = [on |-> TRUE, baseline |-> baseline, text |-> disk]
  /\ UNCHANGED <<env, left, disk, baseline, lock, store, ses, reader, cmd, broken>>

-----------------------------------------------------------------------------
(* A session: `me` is its state after the step *)

Becomes(s, me) == ses' = [ses EXCEPT ![s] = me]

\* Inputs are read before the lock is asked for: an edit after them shows.
Collect(s) ==
  /\ s \in env.sessions /\ ses[s].pc \in {"idle", "done"}
  /\ Spend("runs")
  /\ \E args \in env.args :
       LET scope == IF args.kind = "hook"
                    THEN {f \in args.scope : disk[f] # turn.text[f]} ELSE args.scope IN
       /\ args.kind = "hook" => turn.on
       /\ scope # {}
       /\ Becomes(s, [Idle EXCEPT !.pc = "lock",
                                  !.report = Snapshot([args EXCEPT !.scope = scope], disk, 1)])
  /\ UNCHANGED <<env, disk, turn, baseline, lock, store, reader, cmd, broken>>

Lets(r, code, signalled) ==
  IF r.kind = "git" /\ code = "incomplete" /\ ~signalled THEN "let" ELSE code

\* The process ended, with its exit code and the generation it published.
Done(s, gen, code) == [Idle EXCEPT !.pc = "done", !.report.gen = gen, !.code = code]

\* A check is refused at once; a hook's waits, or gives up.
TakeLock(s) ==
  /\ ses[s].pc = "lock"
  /\ \/ /\ lock = "free"
        /\ lock' = s
        /\ Becomes(s, [ses[s] EXCEPT !.pc = "first"])
     \/ /\ lock # "free"
        /\ lock' = lock
        /\ Becomes(s, Done(s, 0, Lets(ses[s].report, "incomplete", FALSE)))
  /\ UNCHANGED <<env, left, disk, turn, baseline, store, reader, cmd, broken>>

FirstSnapshot(s) ==
  /\ ses[s].pc = "first"
  /\ Becomes(s, [ses[s] EXCEPT !.pc = "history", !.next = "round",
                               !.report.gen = latest.gen + 1, !.previous = latest])
  /\ UNCHANGED <<env, left, disk, turn, baseline, lock, store, reader, cmd, broken>>

\* Store::publish: the history file, latest, then the oldest history file.
PublishHistory(s) ==
  /\ ses[s].pc = "history"
  /\ LET r == ses[s].report IN
     /\ history' = [g \in DOMAIN history \cup {r.gen} |->
                      IF g = r.gen THEN r ELSE history[g]]
     /\ kept' = kept \cup {r.gen}
  /\ Becomes(s, [ses[s] EXCEPT !.pc = "latest"])
  /\ UNCHANGED <<env, left, disk, turn, baseline, lock, latest, reader, cmd, broken>>

\* What the session does once its report is published.
After(s) == IF ses[s].pc = "latest" /\ ses[s].report.gen > History
            THEN [ses[s] EXCEPT !.pc = "prune"]
            ELSE IF ses[s].next = "done" THEN Done(s, ses[s].report.gen, ses[s].code)
            ELSE [ses[s] EXCEPT !.pc = ses[s].next]

PublishLatest(s) ==
  /\ ses[s].pc = "latest"
  /\ latest' = ses[s].report
  /\ Becomes(s, After(s))
  /\ lock' = IF After(s).pc = "done" THEN "free" ELSE lock
  /\ UNCHANGED <<env, left, disk, turn, baseline, history, kept, reader, cmd, broken>>

OldestKept(s) == ses[s].report.gen - History + 1
Oldest(s) == ses[s].report.gen - History

Prune(s) ==
  /\ ses[s].pc = "prune"
  /\ kept' = kept \ {Oldest(s)}
  /\ Becomes(s, After(s))
  /\ lock' = IF After(s).pc = "done" THEN "free" ELSE lock
  /\ UNCHANGED <<env, left, disk, turn, baseline, latest, history, reader, cmd, broken>>

\* publish_failure and stop_watcher: the error is published, and the session ends.
StoppedUnsettled(s) ==
  [ses[s] EXCEPT !.pc = "history", !.next = "done",
                 !.report.errors = TRUE, !.report.watcher = FALSE,
                 !.report.settled = FALSE, !.code = "incomplete"]
Stopped(s) ==
  [ses[s] EXCEPT !.pc = "history", !.next = "done",
                 !.report.errors = TRUE, !.report.watcher = FALSE,
                 !.code = Lets(ses[s].report, "incomplete", ses[s].signal)]

Unsettled(s) == IF ses[s].report.settled THEN {} ELSE {ses[s].report.gen}

Stop(s) == Becomes(s, Stopped(s)) /\ broken' = broken \cup Unsettled(s)

\* One dispatch: a file whose text changed since it was read fails, and one
\* whose request does; the answers of the others are kept for later.
Round(s) ==
  /\ ses[s].pc \in {"round", "answered"}
  /\ IF ses[s].signal
     THEN Stop(s)
     ELSE /\ ses[s].rounds < MaxRounds
          /\ \E failed \in SUBSET Scope(ses[s].report) :
               /\ failed # {} => env.fails
               /\ Becomes(s, [ses[s] EXCEPT !.pc = "history", !.next = "answered",
                    !.rounds = @ + 1,
                    !.report.status = [f \in Files |->
                      IF @[f] = "pending" /\ (disk[f] # ses[s].report.text[f] \/ f \in failed)
                      THEN "error" ELSE @[f]]])
          /\ UNCHANGED broken
  /\ UNCHANGED <<env, left, disk, turn, baseline, lock, store, reader, cmd>>

\* Session::evaluate's end: findings, guards, and what is still current.
Compose(s) ==
  /\ ses[s].pc = "answered"
  /\ LET r == ses[s].report
         added == IF r.kind = "hook" THEN AddedAllows(disk, turn) ELSE {} IN
     Becomes(s, [ses[s] EXCEPT !.pc = "history", !.next = "settle", !.edited = {},
                   !.report = VerifiedCurrent(Composed([r EXCEPT !.added = added]), disk)])
  /\ UNCHANGED <<env, left, disk, turn, baseline, lock, store, reader, cmd, broken>>

TurnOf(r) == IF r.kind = "hook" THEN turn ELSE NoTurn

SettledReport(s) ==
  LET r == ses[s].report IN
  [Settled([r EXCEPT !.changes = Compared(ses[s].previous, r)], disk, baseline, TurnOf(r))
     EXCEPT !.settled = TRUE]

\* watch::run's `baseline`: what the next settled report is compared with.
NextPreviousFirst(s, r) == ses[s].previous
NextPrevious(s, r) == r

\* judge's end, or the watcher's settle.
Settle(s) ==
  /\ ses[s].pc = "settle"
  /\ Readable(baseline, TurnOf(ses[s].report))
  /\ LET r == SettledReport(s) IN
     Becomes(s, IF r.kind = "watch"
                THEN [ses[s] EXCEPT !.pc = "history", !.next = "poll", !.report = r,
                                    !.previous = NextPrevious(s, r), !.changed = FALSE]
                ELSE [ses[s] EXCEPT !.pc = "history", !.next = "done", !.report = r,
                                    !.code = Lets(r, ExitCode(r), ses[s].signal)])
  /\ UNCHANGED <<env, left, disk, turn, baseline, lock, store, reader, cmd, broken>>

\* gate::settle cannot read the baseline: judge returns the error as it is, so
\* the last progress stays published; the watcher's settle records it.
SettleFails(s) ==
  /\ ses[s].pc = "settle"
  /\ ~Readable(baseline, TurnOf(ses[s].report))
  /\ IF ses[s].changed
     THEN Becomes(s, Stopped(s)) /\ lock' = lock
     ELSE /\ Becomes(s, Done(s, ses[s].report.gen,
                           Lets(ses[s].report, "incomplete", ses[s].signal)))
          /\ lock' = "free"
  /\ broken' = broken \cup Unsettled(s)
  /\ UNCHANGED <<env, left, disk, turn, baseline, store, reader, cmd>>

\* inventory::fingerprint of the files now and of those last read.
DiffersWhereJudged(s) ==
  \E f \in Judged(ses[s].report) : disk[f] # ses[s].report.text[f]
Differs(s) == \E f \in Scope(ses[s].report) : disk[f] # ses[s].report.text[f]

\* A watcher's poll: it stops at a signal (or a changed policy); a change is
\* published at once, unsettled; one the debounce let rest is evaluated.
Poll(s) ==
  /\ ses[s].pc = "poll"
  /\ \/ ses[s].signal /\ Stop(s)
     \/ /\ ~ses[s].signal
        /\ Differs(s)
        /\ LET r == ses[s].report IN
           Becomes(s, [ses[s] EXCEPT !.pc = "history", !.next = "poll", !.changed = TRUE,
                         !.report = Snapshot([kind |-> "watch", lines |-> r.lines,
                                              scope |-> Scope(r)], disk, r.gen + 1)])
        /\ UNCHANGED broken
     \/ /\ ~ses[s].signal /\ ses[s].changed
        /\ ~Differs(s)
        /\ Becomes(s, [ses[s] EXCEPT !.pc = "history", !.next = "round", !.rounds = 0])
        /\ UNCHANGED broken
  /\ UNCHANGED <<env, left, disk, turn, baseline, lock, store, reader, cmd>>

Running(s) == ses[s].pc \notin {"idle", "done"}

Signal(s) ==
  /\ Running(s) /\ ~ses[s].signal
  /\ Spend("stops")
  /\ Becomes(s, [ses[s] EXCEPT !.signal = TRUE])
  /\ UNCHANGED <<env, disk, turn, baseline, lock, store, reader, cmd, broken>>

\* A crash, SIGKILL or a power loss: what it published stays.
Kill(s) ==
  /\ Running(s)
  /\ Spend("stops")
  /\ Becomes(s, Idle)
  /\ lock' = IF lock = s THEN "free" ELSE lock
  /\ broken' = IF lock = s /\ latest.gen # 0 /\ ~latest.settled
               THEN broken \cup {latest.gen} ELSE broken
  /\ UNCHANGED <<env, disk, turn, baseline, store, reader, cmd>>

SessionStep(s) ==
  TakeLock(s) \/ FirstSnapshot(s) \/ PublishHistory(s) \/ PublishLatest(s) \/ Prune(s)
  \/ Round(s) \/ Compose(s) \/ Settle(s) \/ SettleFails(s) \/ Poll(s)

-----------------------------------------------------------------------------
(* The server's answers to a reader that asks for what changed since its    *)
(* cursor.  The lock is tried when a report names a watcher.               *)

SettledGenAtOnce(r) == r.gen
SettledGen(r) == IF r.settled \/ r.gen = 0 THEN r.gen ELSE r.gen - 1

Cursor == reader.since + Len(reader.told)

Ask ==
  /\ env.reads /\ reader.pc = "idle"
  /\ latest.gen # 0 /\ SettledGen(latest) # Cursor
  /\ reader' = [reader EXCEPT !.gen = latest.gen, !.upto = SettledGen(latest),
                  !.got = <<>>, !.pc = IF latest.watcher THEN "probe" ELSE "read"]
  /\ UNCHANGED <<env, left, disk, turn, baseline, lock, store, ses, cmd, broken>>

\* writer_active: a lock that can be taken is held until it is given back.
Probe ==
  /\ reader.pc = "probe"
  /\ lock' = IF lock = "free" THEN "probe" ELSE lock
  /\ reader' = [reader EXCEPT !.pc = IF lock = "free" THEN "probed" ELSE "read"]
  /\ UNCHANGED <<env, left, disk, turn, baseline, store, ses, cmd, broken>>

Probed ==
  /\ reader.pc = "probed"
  /\ lock' = "free"
  /\ reader' = [reader EXCEPT !.pc = "read"]
  /\ UNCHANGED <<env, left, disk, turn, baseline, store, ses, cmd, broken>>

\* storage::history reads one file at a time.
At == Cursor + Len(reader.got) + 1

Expired == reader.upto > Cursor + History

ReadHistory ==
  /\ reader.pc = "read" /\ ~Expired
  /\ At <= reader.upto /\ At \in kept
  /\ reader' = [reader EXCEPT !.got = Append(@, history[At].changes)]
  /\ UNCHANGED <<env, left, disk, turn, baseline, lock, store, ses, cmd, broken>>

Reply ==
  /\ reader.pc = "read" /\ ~Expired /\ At > reader.upto
  /\ reader' = [Asleep EXCEPT !.since = reader.since, !.told = reader.told \o reader.got]
  /\ UNCHANGED <<env, left, disk, turn, baseline, lock, store, ses, cmd, broken>>

\* 409: the reader fetches /snapshot and resets its cursor.
ResetToCursor == Cursor
ResetTo == SettledGen(latest)

Gap ==
  /\ reader.pc = "read"
  /\ Expired \/ (At <= reader.upto /\ At \notin kept)
  /\ reader' = [Asleep EXCEPT !.since = ResetTo]
  /\ UNCHANGED <<env, left, disk, turn, baseline, lock, store, ses, cmd, broken>>

ReaderStep == Ask \/ Probe \/ Probed \/ ReadHistory \/ Reply \/ Gap

-----------------------------------------------------------------------------
(* `jevgate baseline` and `jevgate baseline mark`: each reads the last      *)
(* report and the baseline, then writes the file in place, no lock taken.  *)

Begins(c, command) ==
  /\ c \in env.commands /\ cmd[c].pc = "idle"
  /\ baseline.valid
  /\ Spend("writes")
  /\ cmd' = [cmd EXCEPT ![c] = command]
  /\ UNCHANGED <<env, disk, turn, baseline, lock, store, ses, reader, broken>>

\* Another command is between its truncation and its write.
Writing == \E d \in Commands : cmd[d].pc = "write"

WriteBaseline(c) ==
  \E merge \in BOOLEAN, mark \in {"plain", "reason"} :
    /\ CanWrite(latest, merge)
    /\ Begins(c, [pc |-> "truncate", old |-> baseline.entry, merge |-> merge,
                  new |-> Written(latest, merge, mark, baseline.entry),
                  report |-> latest, mark |-> FALSE, overlapped |-> Writing])

MarkBaseline(c) ==
  \E targets \in SUBSET Files, exact \in BOOLEAN :
    /\ targets \cap (Held(baseline.entry) \cup (IF exact THEN ToAccept(latest) ELSE {})) # {}
    /\ Begins(c, [pc |-> "truncate", old |-> baseline.entry, merge |-> FALSE,
                  new |-> Marked(latest, targets, exact, baseline.entry),
                  report |-> latest, mark |-> TRUE, overlapped |-> Writing])

\* fs::write truncates the file, then writes it: its entries are what Git
\* has of it meanwhile.
Truncate(c) ==
  /\ cmd[c].pc = "truncate"
  /\ baseline' = [baseline EXCEPT !.valid = FALSE]
  /\ cmd' = [d \in Commands |->
               IF d = c THEN [cmd[d] EXCEPT !.pc = "write"]
               ELSE [cmd[d] EXCEPT !.overlapped = cmd[d].pc # "idle"]]
  /\ UNCHANGED <<env, left, disk, turn, lock, store, ses, reader, broken>>

Save(c) ==
  /\ cmd[c].pc = "write"
  /\ baseline' = [valid |-> TRUE, entry |-> cmd[c].new]
  /\ cmd' = [cmd EXCEPT ![c] = NoCommand]
  /\ UNCHANGED <<env, left, disk, turn, lock, store, ses, reader, broken>>

KillCommand(c) ==
  /\ cmd[c].pc # "idle"
  /\ Spend("stops")
  /\ cmd' = [cmd EXCEPT ![c] = NoCommand]
  /\ UNCHANGED <<env, disk, turn, baseline, lock, store, ses, reader, broken>>

CommandStep(c) ==
  WriteBaseline(c) \/ MarkBaseline(c) \/ Truncate(c) \/ Save(c) \/ KillCommand(c)

-----------------------------------------------------------------------------
Next ==
  \/ \E f \in Files : Edit(f)
  \/ BreakBaseline
  \/ BeginTurn
  \/ \E s \in Sessions : Collect(s) \/ SessionStep(s) \/ Signal(s) \/ Kill(s)
  \/ ReaderStep
  \/ \E c \in Commands : CommandStep(c)

Spec == Init /\ [][Next]_vars

\* A running process gets its turn, and so does the server; edits, starts,
\* signals and kills are owed to nobody.
FairSpec ==
  /\ Spec
  /\ \A s \in Sessions : WF_vars(SessionStep(s))
  /\ WF_vars(ReaderStep)

-----------------------------------------------------------------------------
(* Properties *)

\* However a session ends, even between the renames of one publication
\* (Store::publish): the history file of the latest generation is there, and
\* is settled when latest is; the generations since History ago are there.
LatestInHistory ==
  latest.gen # 0 =>
    /\ {g \in 1..latest.gen : g > latest.gen - History} \subseteq kept
    /\ latest.settled => history[latest.gen].settled
    /\ \A g \in DOMAIN history : g <= latest.gen + 1

\* Unless a session ended without settling in between, a settled report
\* accounts for each finding of the settled report before it, and calls new
\* only what that one did not have, however many unsettled generations a
\* watcher published between them (watch::run's `baseline`).
LineageUnbroken ==
  \A m, n \in DOMAIN history :
    (/\ m < n /\ history[m].settled /\ history[n].settled
     /\ \A g \in m+1..n-1 : ~history[g].settled /\ g \notin broken) =>
      \A f \in Files :
        /\ f \in history[m].found \ history[n].found =>
             history[n].changes[f] \in {"resolved", "non-comparable"}
        /\ f \in history[n].found =>
             (history[n].changes[f] = "persistent") = (f \in history[m].found)

\* What a settled generation says changed is final, and a settled latest
\* report only gives way to a later generation: at most its watcher's end is
\* added to it (stop_watcher).
SettledStays ==
  [][/\ latest.settled /\ latest' # latest =>
          \/ latest'.gen > latest.gen
          \/ latest'.gen = latest.gen /\ latest'.settled
             /\ latest'.changes = latest.changes /\ latest'.errors
     /\ \A g \in DOMAIN history :
          history[g].settled /\ g <= SettledGen(latest) =>
            history'[g].changes = history[g].changes]_vars

\* Who vouches for a finding a check lets pass: the baseline or a comment,
\* as the agent's turn began when the check is part of one, but for what
\* the agent dismissed with a reason.
Vouched(r, f) ==
  IF r.kind = "hook"
  THEN \/ turn.baseline.entry[f] # "out" \/ turn.text[f] = "allowed"
       \/ baseline.valid /\ baseline.entry[f] = "reason"
  ELSE disk[f] = "allowed" \/ (baseline.valid /\ baseline.entry[f] # "out")

\* A check passes (gate::settle, gate::exit_code) only when it judged each
\* file it covers as the file is, and somebody who may vouches for each
\* finding; but for a file edited since the check last read it, in the
\* moment between its last verification and its end.
PassIsSound ==
  [][\A s \in Sessions :
       ses[s].pc = "settle" /\ ses'[s].code = "pass" =>
         LET r == ses'[s].report IN
         \A f \in Scope(r) \ ses[s].edited :
           /\ r.status[f] = "judged" /\ r.text[f] = disk[f]
           /\ disk[f] \in Flawed => Vouched(r, f)]_vars

\* A baseline command that overlaps no other drops an entry only when it
\* rewrites the baseline from a check that judged the file whole and did not
\* find it (any check, without --merge), and no reason given is lost.
EntriesKept ==
  [][\A c \in Commands :
       LET old == cmd[c].old  now == baseline'.entry  r == cmd[c].report IN
       cmd[c].pc = "write" /\ baseline' # baseline /\ ~cmd[c].overlapped =>
         \A f \in Held(old) :
           /\ now[f] = "out" =>
                /\ ~cmd[c].mark /\ f \notin r.found \ r.suppressed
                /\ cmd[c].merge => f \in Judged(r) /\ ~r.lines
           /\ old[f] = "reason" => now[f] \in {"reason", "out"}]_vars

Watching(s) == Running(s) /\ ses[s].report.kind = "watch"

\* Once the edits end, a watcher that still runs has published a settled
\* report of the files as they are (watch::run), or that one failed.
WatcherCatchesUp ==
  \A s \in Sessions :
    <>[](Watching(s) => /\ latest.settled
                        /\ \A f \in Scope(latest) :
                             /\ latest.text[f] = disk[f]
                             /\ latest.status[f] \in {"judged", "error"})

\* A reader that follows `/changes` is never left behind by gaps for good.
ReaderCatchesUp == env.reads => <>[](Cursor = SettledGen(latest))

\* What the MCP server's jevgate_findings gives as a report's exit code is
\* what `jevgate check` gave it (exit_code in src/src/mcp/results.rs).
FindingsGiveTheChecksCode ==
  \A s \in Sessions :
    ses[s].pc = "done" /\ ses[s].code # "let" /\ ses[s].report.gen \in {latest.gen} \ {0} =>
      ExitCode(latest) = ses[s].code

Log == INSTANCE ChangeLog WITH
  Changes <- [Files -> ChangeStates],
  log <- [g \in 1..SettledGen(latest) |-> history[g].changes],
  since <- reader.since,
  told <- reader.told

\* The history files, as far as latest says they are settled, are a log that
\* only grows, and the reader is told each of its entries once, in order.
LogRefined == Log!Spec
=============================================================================
