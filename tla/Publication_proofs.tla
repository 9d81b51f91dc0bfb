------------------------ MODULE Publication_proofs ------------------------
(* What the published reports keep for any sessions, files, readers and     *)
(* commands, and for any length of the history: what each session's report  *)
(* holds by its step, what a settled report owes the one before it, and the *)
(* log a reader follows.                                                    *)
EXTENDS Publication, TLAPS

(* A report of any generation *)
AnyReport ==
  [gen: Nat, settled: BOOLEAN, errors: BOOLEAN, watcher: BOOLEAN,
   kind: {"check", "git", "hook", "watch"}, lines: BOOLEAN,
   status: [Files -> Outcomes], text: [Files -> Texts], found: SUBSET Files,
   added: SUBSET Files, baselined: SUBSET Files, suppressed: SUBSET Files,
   changes: [Files -> ChangeStates], gate: {"none", "passed", "failed"}]

Session ==
  [pc: Steps, next: Steps, report: AnyReport, previous: AnyReport,
   signal: BOOLEAN, changed: BOOLEAN, rounds: Nat, edited: SUBSET Files,
   code: Codes]

(* A report that no answer has been composed into *)
Unjudged(r) == \A f \in Files : r.status[f] # "judged"

-----------------------------------------------------------------------------
(* The operations on reports *)

(* A snapshot is an unsettled report that judged nothing yet. *)
LEMMA SnapshotReport ==
  ASSUME NEW args, args.kind \in {"check", "git", "hook", "watch"},
         args.lines \in BOOLEAN,
         NEW inputs \in [Files -> Texts], NEW gen \in Nat
  PROVE  LET r == Snapshot(args, inputs, gen) IN
         /\ r \in AnyReport /\ Unjudged(r)
         /\ r.gen = gen /\ r.kind = args.kind /\ ~r.settled
<1> DEFINE r == Snapshot(args, inputs, gen)
<1>1. r.status \in [Files -> Outcomes] /\ Unjudged(r) BY DEF Snapshot, Outcomes, Unjudged
<1>2. r.changes \in [Files -> ChangeStates] BY DEF Snapshot, Unchanged, ChangeStates
<1>3. r \in AnyReport
  BY <1>1, <1>2 DEF Snapshot, AnyReport
<1> QED BY <1>1, <1>3 DEF Snapshot

(* What is read before the first report is one. *)
LEMMA NoReportReport == NoReport \in AnyReport /\ Unjudged(NoReport) /\ NoReport.gen = 0
<1> DEFINE a == [kind |-> "check", lines |-> FALSE, scope |-> {}]
           i == [f \in Files |-> "clean"]
<1>1. a.kind \in {"check", "git", "hook", "watch"} /\ a.lines \in BOOLEAN OBVIOUS
<1>2. i \in [Files -> Texts] BY DEF Texts
<1>3. NoReport = Snapshot(a, i, 0) BY DEF NoReport
<1> HIDE DEF a, i
<1> QED BY <1>1, <1>2, <1>3, SnapshotReport

(* Composing judges what was pending, and names the findings there. *)
LEMMA ComposedReport ==
  ASSUME NEW r \in AnyReport, NEW disk0 \in [Files -> Texts], NEW added \in SUBSET Files,
         Unjudged(r)
  PROVE  LET q == VerifiedCurrent(Composed([r EXCEPT !.added = added]), disk0) IN
         /\ q \in AnyReport
         /\ q.gen = r.gen /\ q.settled = r.settled /\ q.changes = r.changes
         /\ q.kind = r.kind /\ q.added = added
         /\ \A f \in Files : q.status[f] = "judged" =>
              q.text[f] = disk0[f] /\ (q.text[f] \in Flawed => f \in q.found)
<1> DEFINE p == [r EXCEPT !.added = added]
           c == Composed(p)
           q == VerifiedCurrent(c, disk0)
<1>1. p \in AnyReport /\ p.gen = r.gen /\ p.settled = r.settled /\ p.changes = r.changes
      /\ p.kind = r.kind /\ p.added = added /\ p.status = r.status /\ p.text = r.text
  BY DEF AnyReport
<1> HIDE DEF p
<1>2. /\ c \in AnyReport /\ c.gen = p.gen /\ c.settled = p.settled /\ c.changes = p.changes
      /\ c.kind = p.kind /\ c.added = p.added /\ c.text = p.text
      /\ \A f \in Files : c.status[f] = "judged" /\ c.text[f] \in Flawed =>
           f \in c.found
  <2>1. [f \in Files |-> IF p.status[f] = "pending" THEN "judged" ELSE p.status[f]]
           \in [Files -> Outcomes]
    BY <1>1 DEF AnyReport, Outcomes
  <2>2. c \in AnyReport BY <1>1, <2>1 DEF AnyReport, Composed
  <2>3. /\ c.gen = p.gen /\ c.settled = p.settled /\ c.changes = p.changes
        /\ c.kind = p.kind /\ c.added = p.added /\ c.text = p.text
    BY <1>1 DEF AnyReport, Composed
  <2>4. ASSUME NEW f \in Files, c.status[f] = "judged", c.text[f] \in Flawed
        PROVE  f \in c.found
    BY <1>1, <2>4 DEF AnyReport, Composed, Unjudged
  <2> QED BY <2>2, <2>3, <2>4
<1> HIDE DEF c
<1>3. [f \in Files |-> IF c.status[f] = "judged" /\ disk0[f] # c.text[f]
                       THEN "error" ELSE c.status[f]] \in [Files -> Outcomes]
  BY <1>2 DEF AnyReport, Outcomes
<1>4. q \in AnyReport BY <1>2, <1>3 DEF AnyReport, VerifiedCurrent
<1>5. /\ q.gen = c.gen /\ q.settled = c.settled /\ q.changes = c.changes /\ q.found = c.found
      /\ q.kind = c.kind /\ q.added = c.added /\ q.text = c.text
  BY <1>2 DEF AnyReport, VerifiedCurrent
<1>6. ASSUME NEW f \in Files, q.status[f] = "judged"
      PROVE  c.status[f] = "judged" /\ q.text[f] = disk0[f]
  BY <1>2, <1>6 DEF AnyReport, VerifiedCurrent
<1>7. q.gen = r.gen /\ q.settled = r.settled /\ q.changes = r.changes
      /\ q.kind = r.kind /\ q.added = added
  BY <1>1, <1>2, <1>5
<1>8. \A f \in Files : q.status[f] = "judged" =>
        q.text[f] = disk0[f] /\ (q.text[f] \in Flawed => f \in q.found)
  BY <1>2, <1>5, <1>6
<1> HIDE DEF q
<1> QED BY <1>4, <1>7, <1>8 DEF q, c, p

(* Settling keeps what was judged; a pass is of a complete report whose     *)
(* findings are all accepted or suppressed (gate::settle, gate::exit_code). *)
LEMMA SettledIs ==
  ASSUME NEW s \in Sessions, ses[s].report \in AnyReport, ses[s].previous \in AnyReport
  PROVE  LET r == ses[s].report  q == SettledReport(s) IN
         /\ q \in AnyReport
         /\ q.settled /\ q.gen = r.gen /\ q.kind = r.kind
         /\ q.status = r.status /\ q.text = r.text
         /\ q.found = r.found /\ q.changes = Compared(ses[s].previous, r)
         /\ ExitCode(q) = "pass" =>
              /\ Scope(q) = Judged(q)
              /\ \A f \in r.found :
                   \/ f \in Accepted(baseline, TurnOf(r))
                   \/ disk[f] = "allowed" /\ ~(TurnOf(r).on /\ f \in r.added)
<1> DEFINE r == ses[s].report
           p == [r EXCEPT !.changes = Compared(ses[s].previous, r)]
           t == TurnOf(r)
           c == [p EXCEPT !.suppressed = Suppressed(p, disk, t),
                          !.baselined = p.found \cap Accepted(baseline, t)]
           g == Gated(c)
           q == [g EXCEPT !.settled = TRUE]
<1>1. Compared(ses[s].previous, r) \in [Files -> ChangeStates]
  BY DEF Compared, ChangeStates
<1>2. /\ p \in AnyReport /\ p.gen = r.gen /\ p.kind = r.kind /\ p.status = r.status
      /\ p.text = r.text /\ p.found = r.found /\ p.added = r.added
      /\ p.changes = Compared(ses[s].previous, r)
  BY <1>1 DEF AnyReport
<1>3. t = TurnOf(p) BY <1>2 DEF TurnOf
<1> HIDE DEF p, t
<1>4. /\ Suppressed(p, disk, t) \subseteq p.found
      /\ \A f \in Suppressed(p, disk, t) :
           disk[f] = "allowed" /\ ~(t.on /\ f \in p.added)
  BY DEF Suppressed
<1>5. /\ c \in AnyReport /\ c.gen = p.gen /\ c.kind = p.kind /\ c.status = p.status
      /\ c.text = p.text /\ c.found = p.found /\ c.changes = p.changes
      /\ c.suppressed = Suppressed(p, disk, t)
      /\ c.baselined \subseteq Accepted(baseline, t)
  BY <1>2, <1>4 DEF AnyReport
<1> HIDE DEF c
<1>6. /\ g \in AnyReport /\ g.gen = c.gen /\ g.kind = c.kind /\ g.status = c.status
      /\ g.text = c.text /\ g.errors = c.errors /\ g.found = c.found /\ g.changes = c.changes
      /\ g.gate = IF ~Complete(c) THEN "none"
                  ELSE IF c.found \subseteq c.baselined \cup c.suppressed
                  THEN "passed" ELSE "failed"
  BY <1>5 DEF AnyReport, Gated
<1> HIDE DEF g
<1>7. /\ q \in AnyReport /\ q.settled /\ q.gen = g.gen /\ q.kind = g.kind
      /\ q.status = g.status /\ q.text = g.text /\ q.errors = g.errors /\ q.gate = g.gate
      /\ q.found = g.found /\ q.changes = g.changes
  BY <1>6 DEF AnyReport
<1>8. q = SettledReport(s)
  BY <1>3 DEF SettledReport, Settled, p, t, c, g
<1> HIDE DEF q
<1>9. ASSUME ExitCode(q) = "pass"
      PROVE  /\ Scope(q) = Judged(q)
             /\ c.found \subseteq c.baselined \cup c.suppressed
  <2>1. Complete(q) /\ q.gate # "failed" BY <1>9 DEF ExitCode
  <2>2. Complete(c) BY <2>1, <1>6, <1>7 DEF Complete, Scope, Judged
  <2> QED BY <2>1, <2>2, <1>6, <1>7 DEF Complete
<1>10. ASSUME ExitCode(q) = "pass", NEW f \in r.found
       PROVE  \/ f \in Accepted(baseline, TurnOf(r))
              \/ disk[f] = "allowed" /\ ~(TurnOf(r).on /\ f \in r.added)
  <2>1. f \in c.baselined \/ f \in c.suppressed BY <1>2, <1>5, <1>9, <1>10
  <2> QED BY <2>1, <1>2, <1>4, <1>5 DEF t
<1>11. /\ q.settled /\ q.gen = r.gen /\ q.kind = r.kind
       /\ q.status = r.status /\ q.text = r.text
       /\ q.found = r.found /\ q.changes = Compared(ses[s].previous, r)
  BY <1>2, <1>5, <1>6, <1>7
<1> QED BY <1>7, <1>8, <1>9, <1>10, <1>11

-----------------------------------------------------------------------------
(* The invariant *)

Inside == {"first", "history", "latest", "prune", "round", "answered", "settle", "poll"}
Publishing == {"history", "latest", "prune"}

(* Where a session stands once what it publishes is published *)
Stage(me) == IF me.pc \in Publishing THEN me.next ELSE me.pc

(* A session's own state: what was judged, and what it will exit with *)
Progress(me) ==
  /\ me.pc \in Publishing => me.next \in {"round", "answered", "settle", "poll", "done"}
  /\ Stage(me) \in {"lock", "first", "round", "answered"} => Unjudged(me.report)
  /\ Stage(me) = "poll" /\ me.changed => Unjudged(me.report) /\ ~me.report.settled
  /\ Stage(me) \in {"lock", "first", "round", "answered", "settle"} => ~me.report.settled
  /\ Stage(me) # "done" => me.code = "none"

(* A report about to be published adds nothing to a settled one but an end. *)
Follows(r, lat) ==
  \/ r.gen = lat.gen + 1
  \/ r.gen = lat.gen /\ r.gen # 0
     /\ (lat.settled => r.settled /\ r.errors /\ r.changes = lat.changes)

(* A session's report and the store's *)
Stored(me, lat, hist, kep) ==
  /\ me.pc \in {"prune", "round", "answered", "settle", "poll"} =>
       me.report = lat /\ lat.gen # 0
  /\ me.pc \in {"history", "latest"} => Follows(me.report, lat)
  /\ me.pc = "latest" => me.report.gen \in kep /\ hist[me.report.gen] = me.report

(* A session's report and the repository *)
Abreast(me, dsk, trn) ==
  /\ Stage(me) \notin {"idle", "done"} /\ me.report.kind = "hook" => trn.on
  /\ Stage(me) = "settle" =>
       \A f \in Files \ me.edited :
         /\ me.report.status[f] = "judged" =>
              me.report.text[f] = dsk[f] /\ (dsk[f] \in Flawed => f \in me.report.found)
         /\ me.report.kind = "hook" /\ dsk[f] = "allowed" /\ f \notin me.report.added =>
              trn.text[f] = "allowed"

TypeInv ==
  /\ env \in Envs
  /\ disk \in [Files -> Texts]
  /\ latest \in AnyReport
  /\ ses \in [Sessions -> Session]
  /\ "pc" \in DOMAIN reader

LockInv ==
  /\ \A s \in Sessions : ses[s].pc \in Inside => lock = s
  /\ reader.pc = "probed" => lock = "probe"

Window == {g \in 1 .. latest.gen : g > latest.gen - History}

HistoryInv ==
  /\ kept \subseteq DOMAIN history
  /\ \A g \in DOMAIN history : g \in Nat /\ g <= latest.gen + 1
  /\ latest.gen # 0 =>
       /\ Window \subseteq kept
       /\ latest.settled => history[latest.gen].settled
                            /\ history[latest.gen].changes = latest.changes

SessionsInv ==
  \A s \in Sessions : /\ Progress(ses[s])
                      /\ Stored(ses[s], latest, history, kept)
                      /\ Abreast(ses[s], disk, turn)

IInv == TypeInv /\ LockInv /\ HistoryInv /\ SessionsInv

(* What every step of one session does, as far as the invariant reads it. *)
LEMMA SessionMoves ==
  ASSUME IInv, NEW s \in Sessions, NEW me \in Session,
         ses' = [ses EXCEPT ![s] = me],
         UNCHANGED <<env, disk, turn, reader>>,
         latest' \in AnyReport,
         Progress(me), Stored(me, latest', history', kept'), Abreast(me, disk, turn),
         UNCHANGED store \/ lock = s,
         me.pc \in Inside => lock' = s,
         lock' = lock \/ (lock = s /\ lock' = "free") \/ (lock = "free" /\ lock' = s)
  PROVE  TypeInv' /\ LockInv' /\ SessionsInv'
<1> {"probe", "free"} \cap Sessions = {} BY PublicationAssumption
<1>1. TypeInv' BY DEF IInv, TypeInv
<1>2. \A v \in Sessions : ses'[v] = IF v = s THEN me ELSE ses[v]
  BY DEF IInv, TypeInv
<1>3. LockInv' BY <1>2 DEF IInv, LockInv
<1>4. ASSUME NEW v \in Sessions
      PROVE  /\ Progress(ses'[v]) /\ Stored(ses'[v], latest', history', kept')
             /\ Abreast(ses'[v], disk', turn')
  <2>1. CASE v = s BY <2>1, <1>2
  <2>2. CASE v # s
    <3>1. ses'[v] = ses[v] BY <2>2, <1>2
    <3>2. Progress(ses[v]) /\ Stored(ses[v], latest, history, kept)
          /\ Abreast(ses[v], disk, turn)
      BY DEF IInv, SessionsInv
    <3>3. CASE UNCHANGED store BY <3>1, <3>2, <3>3 DEF store
    <3>4. CASE lock = s
      <4>1. ses[v].pc \notin Inside BY <2>2, <3>4 DEF IInv, LockInv
      <4>2. Stored(ses[v], latest', history', kept') BY <4>1 DEF Stored, Inside
      <4> QED BY <3>1, <3>2, <4>2
    <3> QED BY <3>3, <3>4
  <2> QED BY <2>1, <2>2
<1> QED BY <1>1, <1>3, <1>4 DEF SessionsInv

(* The first states satisfy the invariant. *)
LEMMA InvInit == Init => IInv
<1> SUFFICES ASSUME Init PROVE IInv OBVIOUS
<1> USE DEF Init
<1>1. env \in EnvType BY PublicationAssumption
<1>2. TypeInv
  <2>1. disk \in [Files -> Texts] BY <1>1 DEF EnvType
  <2>2. Idle \in Session
    BY NoReportReport DEF Idle, Session, Steps, Codes
  <2>3. "pc" \in DOMAIN reader BY DEF Asleep
  <2> QED BY <2>1, <2>2, <2>3, NoReportReport DEF TypeInv
<1>3. LockInv BY DEF LockInv, Idle, Inside, Asleep
<1>4. HistoryInv BY NoReportReport DEF HistoryInv
<1>5. SessionsInv
  <2>1. Stage(Idle) = "idle" /\ Idle.pc = "idle" /\ Idle.code = "none"
    BY DEF Stage, Idle, Publishing
  <2>2. Progress(Idle) BY <2>1 DEF Progress, Publishing
  <2>3. Stored(Idle, latest, history, kept) /\ Abreast(Idle, disk, turn)
    BY <2>1 DEF Stored, Abreast
  <2> QED BY <2>2, <2>3 DEF SessionsInv
<1> QED BY <1>2, <1>3, <1>4, <1>5 DEF IInv

-----------------------------------------------------------------------------
(* A session's steps *)

(* Inputs are read before the lock. *)
LEMMA CollectKeeps == ASSUME IInv, NEW s \in Sessions, Collect(s) PROVE IInv'
<1>1. PICK args \in env.args :
        LET scope == IF args.kind = "hook"
                     THEN {f \in args.scope : disk[f] # turn.text[f]} ELSE args.scope IN
        /\ args.kind = "hook" => turn.on
        /\ Becomes(s, [Idle EXCEPT !.pc = "lock",
                         !.report = Snapshot([args EXCEPT !.scope = scope], disk, 1)])
  BY DEF Collect
<1> DEFINE scope == IF args.kind = "hook"
                    THEN {f \in args.scope : disk[f] # turn.text[f]} ELSE args.scope
           a == [args EXCEPT !.scope = scope]
           r == Snapshot(a, disk, 1)
           me == [Idle EXCEPT !.pc = "lock", !.report = r]
<1>2. args \in Args
  BY PublicationAssumption DEF IInv, TypeInv, EnvType
<1>3. a.kind = args.kind /\ a.kind \in {"check", "git", "hook", "watch"} /\ a.lines \in BOOLEAN
  BY <1>2 DEF Args
<1> HIDE DEF a
<1>4. r \in AnyReport /\ Unjudged(r) /\ r.kind = args.kind /\ ~r.settled
  BY <1>3, SnapshotReport DEF IInv, TypeInv
<1> HIDE DEF r
<1>5. me \in Session /\ me.pc = "lock" /\ me.report = r /\ me.code = "none"
  BY <1>4, NoReportReport DEF Idle, Session, Steps, Codes
<1>6. ses' = [ses EXCEPT ![s] = me] /\ (args.kind = "hook" => turn.on)
  BY <1>1 DEF Becomes, a, r
<1> HIDE DEF me
<1>7. Progress(me) /\ Stored(me, latest', history', kept') /\ Abreast(me, disk, turn)
  BY <1>4, <1>5, <1>6 DEF Progress, Stored, Abreast, Stage, Publishing
<1>8. UNCHANGED <<env, disk, turn, reader, lock, store>> BY DEF Collect
<1>9. TypeInv' /\ LockInv' /\ SessionsInv'
  BY <1>5, <1>6, <1>7, <1>8, SessionMoves DEF Inside, IInv, TypeInv, store
<1>10. HistoryInv' BY <1>8 DEF IInv, HistoryInv, Window, store
<1> QED BY <1>9, <1>10 DEF IInv

(* A session that ended holds nothing back. *)
LEMMA DoneIs ==
  ASSUME NEW s \in Sessions, NEW gen \in Nat, NEW code \in Codes
  PROVE  LET me == Done(s, gen, code) IN
         /\ me \in Session /\ me.pc = "done"
         /\ Progress(me) /\ Abreast(me, disk, turn)
         /\ Stored(me, latest', history', kept')
<1> DEFINE me == Done(s, gen, code)
<1>1. me \in Session /\ me.pc = "done"
  <2>1. [NoReport EXCEPT !.gen = gen] \in AnyReport
    BY NoReportReport DEF AnyReport
  <2> QED BY <2>1, NoReportReport DEF Done, Idle, Session, Steps, Codes
<1> HIDE DEF me
<1>2. Progress(me) /\ Abreast(me, disk, turn) /\ Stored(me, latest', history', kept')
  BY <1>1 DEF Progress, Abreast, Stored, Stage, Publishing
<1> QED BY <1>1, <1>2 DEF me

(* The code a report lets a check end with (gate::exit_code). *)
LEMMA LetsCode == ASSUME NEW r, NEW code \in Codes, NEW signalled
                  PROVE  Lets(r, code, signalled) \in Codes
BY DEF Lets, Codes

(* The lock is taken by one session, and refuses the others. *)
LEMMA TakeLockKeeps == ASSUME IInv, NEW s \in Sessions, TakeLock(s) PROVE IInv'
<1>1. UNCHANGED <<env, disk, turn, reader, store>> /\ ses[s].pc = "lock" BY DEF TakeLock
<1>2. HistoryInv' /\ latest' \in AnyReport
  BY <1>1 DEF IInv, TypeInv, HistoryInv, Window, store
<1>3. ses[s] \in Session BY DEF IInv, TypeInv
<1>4. CASE lock = "free" /\ lock' = s /\ Becomes(s, [ses[s] EXCEPT !.pc = "first"])
  <2> DEFINE me == [ses[s] EXCEPT !.pc = "first"]
  <2>1. me \in Session /\ me.pc = "first" /\ me.report = ses[s].report /\ me.code = ses[s].code
    BY <1>3 DEF Session, Steps
  <2>2. ses' = [ses EXCEPT ![s] = me] BY <1>4 DEF Becomes
  <2> HIDE DEF me
  <2>3. Progress(ses[s]) /\ Abreast(ses[s], disk, turn) BY DEF IInv, SessionsInv
  <2>4. Progress(me) /\ Stored(me, latest', history', kept') /\ Abreast(me, disk, turn)
    BY <1>1, <2>1, <2>3 DEF Progress, Stored, Abreast, Stage, Publishing
  <2> QED BY <1>1, <1>2, <1>4, <2>1, <2>2, <2>4, SessionMoves DEF IInv
<1>5. CASE lock' = lock /\ Becomes(s, Done(s, 0, Lets(ses[s].report, "incomplete", FALSE)))
  <2> DEFINE me == Done(s, 0, Lets(ses[s].report, "incomplete", FALSE))
  <2>1. ses' = [ses EXCEPT ![s] = me] BY <1>5 DEF Becomes
  <2>2. /\ me \in Session /\ me.pc = "done" /\ Progress(me) /\ Abreast(me, disk, turn)
        /\ Stored(me, latest', history', kept')
    BY DoneIs, LetsCode DEF Codes
  <2> HIDE DEF me
  <2> QED BY <1>1, <1>2, <1>5, <2>1, <2>2, SessionMoves DEF IInv, Inside
<1> QED BY <1>4, <1>5 DEF TakeLock

(* A new session begins the generation after latest, whatever is in history. *)
LEMMA FirstSnapshotKeeps ==
  ASSUME IInv, NEW s \in Sessions, FirstSnapshot(s) PROVE IInv'
<1>1. UNCHANGED <<env, disk, turn, reader, store, lock>> /\ ses[s].pc = "first"
  BY DEF FirstSnapshot
<1>2. HistoryInv' /\ latest' \in AnyReport
  <2>1. latest' = latest /\ history' = history /\ kept' = kept BY <1>1 DEF store
  <2>2. Window' = Window BY <2>1 DEF Window
  <2>3. HistoryInv /\ latest \in AnyReport BY DEF IInv, TypeInv
  <2> QED BY <2>1, <2>2, <2>3 DEF HistoryInv
<1>3. ses[s] \in Session /\ latest \in AnyReport BY DEF IInv, TypeInv
<1> DEFINE r == [ses[s].report EXCEPT !.gen = latest.gen + 1]
           me == [ses[s] EXCEPT !.pc = "history", !.next = "round",
                                !.report.gen = latest.gen + 1, !.previous = latest]
<1>4. /\ r \in AnyReport /\ r.gen = latest.gen + 1 /\ r.kind = ses[s].report.kind
      /\ r.status = ses[s].report.status /\ r.settled = ses[s].report.settled
  <2>1. ses[s].report \in AnyReport /\ latest.gen + 1 \in Nat BY <1>3 DEF Session, AnyReport
  <2> QED BY <2>1 DEF AnyReport
<1>5. me = [ses[s] EXCEPT !.pc = "history", !.next = "round", !.report = r, !.previous = latest]
  BY <1>3 DEF Session
<1> HIDE DEF r
<1>6. /\ me \in Session /\ me.pc = "history" /\ me.next = "round" /\ me.report = r
      /\ me.code = ses[s].code
  BY <1>3, <1>4, <1>5 DEF Session, Steps
<1>7. ses' = [ses EXCEPT ![s] = me] BY DEF Becomes, FirstSnapshot
<1> HIDE DEF me
<1>8. Progress(ses[s]) /\ Abreast(ses[s], disk, turn) BY DEF IInv, SessionsInv
<1>9. Progress(me) /\ Stored(me, latest', history', kept') /\ Abreast(me, disk, turn)
  BY <1>1, <1>4, <1>6, <1>8
     DEF Progress, Stored, Abreast, Stage, Publishing, Unjudged, Follows, store
<1>10. lock = s BY <1>1 DEF IInv, LockInv, Inside
<1> QED BY <1>1, <1>2, <1>6, <1>7, <1>9, <1>10, SessionMoves DEF IInv

(* The history file comes first: latest stays as it is. *)
LEMMA PublishHistoryKeeps ==
  ASSUME IInv, NEW s \in Sessions, PublishHistory(s) PROVE IInv'
<1> DEFINE r == ses[s].report
           me == [ses[s] EXCEPT !.pc = "latest"]
<1>1. /\ UNCHANGED <<env, disk, turn, reader, latest, lock>> /\ ses[s].pc = "history"
      /\ history' = [g \in DOMAIN history \cup {r.gen} |->
                       IF g = r.gen THEN r ELSE history[g]]
      /\ kept' = kept \cup {r.gen}
      /\ ses' = [ses EXCEPT ![s] = me]
  BY DEF PublishHistory, Becomes
<1>2. ses[s] \in Session /\ latest \in AnyReport BY DEF IInv, TypeInv
<1>3. Progress(ses[s]) /\ Abreast(ses[s], disk, turn) /\ Follows(r, latest)
  BY <1>1 DEF IInv, SessionsInv, Stored
<1>4. r \in AnyReport /\ r.gen \in Nat /\ latest.gen \in Nat
  BY <1>2 DEF Session, AnyReport
<1>5. /\ me \in Session /\ me.pc = "latest" /\ me.report = r
      /\ me.next = ses[s].next /\ me.code = ses[s].code /\ me.changed = ses[s].changed
      /\ me.edited = ses[s].edited
  BY <1>2 DEF Session, Steps
<1>6. r.gen \in kept' /\ history'[r.gen] = r BY <1>1
<1> HIDE DEF me
<1>7. Progress(me) /\ Stored(me, latest', history', kept') /\ Abreast(me, disk, turn)
  BY <1>1, <1>3, <1>5, <1>6 DEF Progress, Stored, Abreast, Stage, Publishing
<1>8. lock = s BY <1>1 DEF IInv, LockInv, Inside
<1>9. TypeInv' /\ LockInv' /\ SessionsInv'
  BY <1>1, <1>2, <1>3, <1>5, <1>7, <1>8, SessionMoves
<1>10. HistoryInv'
  <2>1. kept' \subseteq DOMAIN history' BY <1>1 DEF IInv, HistoryInv
  <2>2. \A g \in DOMAIN history' : g \in Nat /\ g <= latest'.gen + 1
    BY <1>1, <1>3, <1>4 DEF IInv, HistoryInv, Follows
  <2>3. Window' = Window BY <1>1 DEF Window
  <2>4. ASSUME latest.gen # 0
        PROVE  /\ Window \subseteq kept'
               /\ latest.settled => history'[latest.gen].settled
                                    /\ history'[latest.gen].changes = latest.changes
    <3>1. Window \subseteq kept' BY <1>1, <2>4 DEF IInv, HistoryInv
    <3>2. latest.gen \in Window BY <1>4, <2>4, PublicationAssumption DEF Window
    <3>3. latest.gen \in DOMAIN history BY <2>4, <3>2 DEF IInv, HistoryInv
    <3>4. CASE r.gen = latest.gen BY <1>1, <1>3, <1>4, <3>1, <3>4 DEF Follows
    <3>5. CASE r.gen # latest.gen
      BY <1>1, <2>4, <3>1, <3>3, <3>5 DEF IInv, HistoryInv
    <3> QED BY <3>4, <3>5
  <2> QED BY <1>1, <2>1, <2>2, <2>3, <2>4 DEF HistoryInv
<1> QED BY <1>9, <1>10 DEF IInv

(* What follows a publication keeps the session's report. *)
LEMMA AfterIs ==
  ASSUME IInv, NEW s \in Sessions, ses[s].pc \in {"latest", "prune"},
         latest' = ses[s].report, ses[s].report.gen # 0
  PROVE  LET me == After(s) IN
         /\ me \in Session /\ me.pc \notin {"history", "latest"}
         /\ me.pc \in Inside \/ me.pc = "done"
         /\ Progress(me) /\ Stored(me, latest', history', kept') /\ Abreast(me, disk, turn)
<1> DEFINE r == ses[s].report
           p == [ses[s] EXCEPT !.pc = "prune"]
           n == [ses[s] EXCEPT !.pc = ses[s].next]
           d == Done(s, r.gen, ses[s].code)
<1>1. ses[s] \in Session BY DEF IInv, TypeInv
<1>2. r \in AnyReport /\ r.gen \in Nat /\ ses[s].code \in Codes BY <1>1 DEF Session, AnyReport
<1>3. Progress(ses[s]) /\ Abreast(ses[s], disk, turn) BY DEF IInv, SessionsInv
<1>4. ses[s].next \in {"round", "answered", "settle", "poll", "done"}
  BY <1>3 DEF Progress, Publishing
<1>5. CASE After(s) = p
  <2>1. /\ p \in Session /\ p.pc = "prune" /\ p.next = ses[s].next /\ p.report = r
        /\ p.code = ses[s].code /\ p.changed = ses[s].changed /\ p.edited = ses[s].edited
    BY <1>1 DEF Session, Steps
  <2> HIDE DEF p
  <2>2. Progress(p) /\ Stored(p, latest', history', kept') /\ Abreast(p, disk, turn)
    BY <1>3, <2>1 DEF Progress, Stored, Abreast, Stage, Publishing
  <2> QED BY <1>5, <2>1, <2>2 DEF Inside
<1>6. CASE After(s) = d /\ ses[s].next = "done"
  BY <1>2, <1>6, DoneIs
<1>7. CASE After(s) = n /\ ses[s].next # "done"
  <2>1. /\ n \in Session /\ n.pc = ses[s].next /\ n.report = r
        /\ n.code = ses[s].code /\ n.changed = ses[s].changed /\ n.edited = ses[s].edited
    BY <1>1 DEF Session
  <2> HIDE DEF n
  <2>2. Progress(n) /\ Stored(n, latest', history', kept') /\ Abreast(n, disk, turn)
    BY <1>3, <1>4, <1>7, <2>1 DEF Progress, Stored, Abreast, Stage, Publishing
  <2> QED BY <1>4, <1>7, <2>1, <2>2 DEF Inside
<1> QED BY <1>5, <1>6, <1>7 DEF After

(* Then latest, whose history file is there. *)
LEMMA PublishLatestKeeps ==
  ASSUME IInv, NEW s \in Sessions, PublishLatest(s) PROVE IInv'
<1> DEFINE r == ses[s].report
<1>1. /\ UNCHANGED <<env, disk, turn, reader, history, kept>> /\ ses[s].pc = "latest"
      /\ latest' = r /\ ses' = [ses EXCEPT ![s] = After(s)]
      /\ lock' = IF After(s).pc = "done" THEN "free" ELSE lock
  BY DEF PublishLatest, Becomes
<1>2. ses[s] \in Session /\ latest \in AnyReport BY DEF IInv, TypeInv
<1>3. r \in AnyReport /\ r.gen \in Nat /\ latest.gen \in Nat
  BY <1>2 DEF Session, AnyReport
<1>4. Follows(r, latest) /\ r.gen \in kept /\ history[r.gen] = r
  BY <1>1 DEF IInv, SessionsInv, Stored
<1>5. r.gen # 0 BY <1>3, <1>4 DEF Follows
<1>6. lock = s BY <1>1 DEF IInv, LockInv, Inside
<1>7. TypeInv' /\ LockInv' /\ SessionsInv'
  BY <1>1, <1>3, <1>5, <1>6, AfterIs, SessionMoves DEF Inside
<1>8. HistoryInv'
  <2>1. \A g \in DOMAIN history : g \in Nat /\ g <= r.gen + 1
    BY <1>3, <1>4 DEF IInv, HistoryInv, Follows
  <2>2. Window' \subseteq kept
    <3>1. latest.gen # 0 => Window \subseteq kept BY DEF IInv, HistoryInv
    <3> SUFFICES ASSUME NEW g \in Window' PROVE g \in kept OBVIOUS
    <3>2. g \in 1 .. r.gen /\ g > r.gen - History BY <1>1 DEF Window
    <3>3. CASE g = r.gen BY <1>4, <3>3
    <3>4. CASE g # r.gen
      <4>1. g \in Window /\ latest.gen # 0
        BY <1>3, <1>4, <3>2, <3>4, PublicationAssumption DEF Window, Follows
      <4> QED BY <4>1, <3>1
    <3> QED BY <3>3, <3>4
  <2> QED BY <1>1, <1>4, <2>1, <2>2 DEF IInv, HistoryInv
<1> QED BY <1>7, <1>8 DEF IInv

(* Only a file older than the history keeps is removed. *)
LEMMA PruneKeeps == ASSUME IInv, NEW s \in Sessions, Prune(s) PROVE IInv'
<1> DEFINE r == ses[s].report
<1>1. /\ UNCHANGED <<env, disk, turn, reader, latest, history>> /\ ses[s].pc = "prune"
      /\ kept' = kept \ {Oldest(s)} /\ ses' = [ses EXCEPT ![s] = After(s)]
      /\ lock' = IF After(s).pc = "done" THEN "free" ELSE lock
  BY DEF Prune, Becomes
<1>2. ses[s] \in Session /\ latest \in AnyReport BY DEF IInv, TypeInv
<1>3. r = latest /\ latest.gen # 0 BY <1>1 DEF IInv, SessionsInv, Stored
<1>4. lock = s BY <1>1 DEF IInv, LockInv, Inside
<1>5. TypeInv' /\ LockInv' /\ SessionsInv'
  BY <1>1, <1>2, <1>3, <1>4, AfterIs, SessionMoves DEF Inside
<1>6. Window' = Window /\ Oldest(s) \notin Window
  BY <1>1, <1>2, <1>3, PublicationAssumption DEF Window, Oldest, AnyReport
<1>7. HistoryInv' BY <1>1, <1>6 DEF IInv, HistoryInv
<1> QED BY <1>5, <1>7 DEF IInv

(* What the store keeps when a session only changes itself. *)
LEMMA StoreStays ==
  ASSUME IInv, NEW s \in Sessions, ses[s].pc \in Inside,
         NEW me \in Session, ses' = [ses EXCEPT ![s] = me],
         UNCHANGED <<env, disk, turn, reader, lock, store>> ,
         Progress(me), Stored(me, latest, history, kept), Abreast(me, disk, turn)
  PROVE  IInv'
<1>1. lock = s BY DEF IInv, LockInv
<1>2. UNCHANGED <<latest, history, kept>> BY DEF store
<1>3. latest' \in AnyReport BY <1>2 DEF IInv, TypeInv
<1>4. TypeInv' /\ LockInv' /\ SessionsInv' BY <1>1, <1>2, <1>3, SessionMoves
<1>5. HistoryInv' BY <1>2 DEF IInv, HistoryInv, Window
<1> QED BY <1>4, <1>5 DEF IInv

(* An end publishes what was there, with an error. *)
LEMMA StoppedIs ==
  ASSUME IInv, NEW s \in Sessions,
         ses[s].pc \in {"round", "answered", "settle", "poll"}
  PROVE  LET me == Stopped(s) IN
         me \in Session /\ Progress(me) /\ Stored(me, latest, history, kept)
         /\ Abreast(me, disk, turn)
<1> DEFINE r == [ses[s].report EXCEPT !.errors = TRUE, !.watcher = FALSE]
           code == Lets(ses[s].report, "incomplete", ses[s].signal)
           me == [ses[s] EXCEPT !.pc = "history", !.next = "done", !.report = r, !.code = code]
<1>1. ses[s] \in Session BY DEF IInv, TypeInv
<1>2. /\ r \in AnyReport /\ r.errors /\ r.gen = ses[s].report.gen
      /\ r.settled = ses[s].report.settled /\ r.changes = ses[s].report.changes
  BY <1>1 DEF Session, AnyReport
<1>3. Stopped(s) = me BY <1>1 DEF Stopped, Session, AnyReport
<1>4. code \in Codes BY LetsCode DEF Codes
<1> HIDE DEF r, code
<1>5. me \in Session /\ me.pc = "history" /\ me.next = "done" /\ me.report = r
  BY <1>1, <1>2, <1>4 DEF Session, Steps
<1> HIDE DEF me
<1>6. ses[s].report = latest /\ latest.gen # 0 BY DEF IInv, SessionsInv, Stored
<1>7. Progress(me) /\ Stored(me, latest, history, kept) /\ Abreast(me, disk, turn)
  BY <1>2, <1>5, <1>6 DEF Progress, Stored, Abreast, Stage, Publishing, Follows
<1> QED BY <1>3, <1>5, <1>7

(* A dispatch only turns pending files into errors. *)
LEMMA RoundKeeps == ASSUME IInv, NEW s \in Sessions, Round(s) PROVE IInv'
<1>1. /\ UNCHANGED <<env, disk, turn, reader, lock, store>>
      /\ ses[s].pc \in {"round", "answered"}
  BY DEF Round
<1>2. ses[s] \in Session BY DEF IInv, TypeInv
<1>3. CASE Stop(s)
  BY <1>1, <1>3, StoppedIs, StoreStays DEF Stop, Becomes, Inside
<1>4. CASE ~ses[s].signal
  <2>1. PICK failed \in SUBSET Scope(ses[s].report) :
          Becomes(s, [ses[s] EXCEPT !.pc = "history", !.next = "answered",
            !.rounds = @ + 1,
            !.report.status = [f \in Files |->
              IF @[f] = "pending" /\ (disk[f] # ses[s].report.text[f] \/ f \in failed)
              THEN "error" ELSE @[f]]])
    BY <1>4 DEF Round
  <2> DEFINE status == [f \in Files |->
               IF ses[s].report.status[f] = "pending"
                  /\ (disk[f] # ses[s].report.text[f] \/ f \in failed)
               THEN "error" ELSE ses[s].report.status[f]]
             r == [ses[s].report EXCEPT !.status = status]
             rounds == ses[s].rounds + 1
             me == [ses[s] EXCEPT !.pc = "history", !.next = "answered",
                                  !.rounds = rounds, !.report = r]
  <2>2. Progress(ses[s]) /\ Stored(ses[s], latest, history, kept)
        /\ Abreast(ses[s], disk, turn)
    BY DEF IInv, SessionsInv
  <2>3. Unjudged(ses[s].report) /\ ~ses[s].report.settled /\ ses[s].report = latest
        /\ latest.gen # 0
    BY <1>1, <2>2 DEF Progress, Stored, Stage, Publishing
  <2>4. status \in [Files -> Outcomes] /\ \A f \in Files : status[f] # "judged"
    BY <1>2, <2>3 DEF Session, AnyReport, Outcomes, Unjudged
  <2>5. ses' = [ses EXCEPT ![s] = me]
    BY <2>1, <1>2 DEF Becomes, Session, AnyReport
  <2> HIDE DEF status
  <2>6. /\ r \in AnyReport /\ r.status = status /\ r.gen = latest.gen /\ ~r.settled
        /\ r.kind = ses[s].report.kind
    BY <1>2, <2>3, <2>4 DEF Session, AnyReport
  <2>9. rounds \in Nat BY <1>2 DEF Session
  <2> HIDE DEF r, rounds
  <2>7. /\ me \in Session /\ me.pc = "history" /\ me.next = "answered" /\ me.report = r
        /\ me.code = ses[s].code
    BY <1>2, <2>6, <2>9 DEF Session, Steps
  <2> HIDE DEF me
  <2>8. Progress(me) /\ Stored(me, latest, history, kept) /\ Abreast(me, disk, turn)
    BY <1>1, <2>2, <2>3, <2>4, <2>6, <2>7
       DEF Progress, Stored, Abreast, Stage, Publishing, Unjudged, Follows
  <2> QED BY <1>1, <2>5, <2>7, <2>8, StoreStays DEF Inside
<1> QED BY <1>3, <1>4 DEF Round

(* Composing ends with a verification: what is judged is as the file is. *)
LEMMA ComposeKeeps == ASSUME IInv, NEW s \in Sessions, Compose(s) PROVE IInv'
<1> DEFINE added == IF ses[s].report.kind = "hook" THEN AddedAllows(disk, turn) ELSE {}
           r == VerifiedCurrent(Composed([ses[s].report EXCEPT !.added = added]), disk)
           me == [ses[s] EXCEPT !.pc = "history", !.next = "settle", !.edited = {},
                                !.report = r]
<1>1. /\ UNCHANGED <<env, disk, turn, reader, lock, store>> /\ ses[s].pc = "answered"
      /\ ses' = [ses EXCEPT ![s] = me]
  BY DEF Compose, Becomes
<1>2. ses[s] \in Session /\ disk \in [Files -> Texts] BY DEF IInv, TypeInv
<1>3. Progress(ses[s]) /\ Stored(ses[s], latest, history, kept) /\ Abreast(ses[s], disk, turn)
  BY DEF IInv, SessionsInv
<1>4. /\ Unjudged(ses[s].report) /\ ~ses[s].report.settled /\ ses[s].report = latest
      /\ latest.gen # 0
  BY <1>1, <1>3 DEF Progress, Stored, Stage, Publishing
<1>5. /\ added \in SUBSET Files
      /\ ses[s].report.kind = "hook" =>
           \A f \in Files : disk[f] = "allowed" /\ f \notin added => turn.text[f] = "allowed"
  BY DEF AddedAllows
<1> HIDE DEF added
<1>6. /\ r \in AnyReport /\ r.gen = latest.gen /\ ~r.settled
      /\ r.kind = ses[s].report.kind /\ r.added = added
      /\ \A f \in Files : r.status[f] = "judged" =>
           r.text[f] = disk[f] /\ (r.text[f] \in Flawed => f \in r.found)
  BY <1>2, <1>4, <1>5, ComposedReport DEF Session
<1> HIDE DEF r
<1>7. /\ me \in Session /\ me.pc = "history" /\ me.next = "settle" /\ me.report = r
      /\ me.code = ses[s].code
  BY <1>2, <1>6 DEF Session, Steps
<1> HIDE DEF me
<1>8. Progress(me) /\ Stored(me, latest, history, kept)
  BY <1>1, <1>3, <1>4, <1>6, <1>7 DEF Progress, Stored, Stage, Publishing, Follows
<1>9. Abreast(me, disk, turn)
  BY <1>1, <1>3, <1>5, <1>6, <1>7 DEF Abreast, Stage, Publishing
<1> QED BY <1>1, <1>7, <1>8, <1>9, StoreStays DEF Inside

(* A settled report is published as such; a watcher goes on from it. *)
LEMMA SettleIs ==
  ASSUME IInv, NEW s \in Sessions, Settle(s)
  PROVE  LET r == SettledReport(s)
             me == ses'[s] IN
         /\ me \in Session /\ ses' = [ses EXCEPT ![s] = me]
         /\ r \in AnyReport /\ r.settled /\ r.gen = latest.gen /\ latest.gen # 0
         /\ ~latest.settled /\ ses[s].report = latest
         /\ me.pc = "history" /\ me.report = r
         /\ r.found = latest.found /\ r.changes = Compared(ses[s].previous, latest)
         /\ \/ me.next = "poll" /\ ~me.changed /\ me.code = ses[s].code /\ r.kind = "watch"
               /\ me.previous = r
            \/ me.next = "done" /\ me.code = Lets(r, ExitCode(r), ses[s].signal)
<1> DEFINE r == SettledReport(s)
           code == Lets(r, ExitCode(r), ses[s].signal)
           w == [ses[s] EXCEPT !.pc = "history", !.next = "poll", !.report = r,
                               !.previous = r, !.changed = FALSE]
           d == [ses[s] EXCEPT !.pc = "history", !.next = "done", !.report = r, !.code = code]
<1>1. ses[s].pc = "settle" /\ ses' = [ses EXCEPT ![s] = IF r.kind = "watch" THEN w ELSE d]
  BY DEF Settle, Becomes, NextPrevious
<1>2. ses[s] \in Session /\ ses \in [Sessions -> Session] BY DEF IInv, TypeInv
<1>3. ses[s].report = latest /\ latest.gen # 0 /\ ~latest.settled
  BY <1>1 DEF IInv, SessionsInv, Progress, Stored, Stage, Publishing
<1>4. /\ r \in AnyReport /\ r.settled /\ r.gen = latest.gen
      /\ r.found = latest.found /\ r.changes = Compared(ses[s].previous, latest)
  BY <1>2, <1>3, SettledIs DEF Session
<1> HIDE DEF r
<1>5. code \in Codes BY LetsCode DEF ExitCode, Codes
<1> HIDE DEF code
<1>6. w \in Session /\ w.pc = "history" /\ w.next = "poll" /\ w.report = r /\ ~w.changed
      /\ w.code = ses[s].code /\ w.previous = r
  BY <1>2, <1>4 DEF Session, Steps
<1>7. d \in Session /\ d.pc = "history" /\ d.next = "done" /\ d.report = r /\ d.code = code
  BY <1>2, <1>4, <1>5 DEF Session, Steps
<1> HIDE DEF w, d
<1>8. ses'[s] = IF r.kind = "watch" THEN w ELSE d BY <1>1, <1>2
<1> QED BY <1>1, <1>3, <1>4, <1>6, <1>7, <1>8 DEF r, code

(* Settling a report or failing to keeps the invariant (gate::settle). *)
LEMMA SettleKeeps == ASSUME IInv, NEW s \in Sessions, Settle(s) PROVE IInv'
<1> DEFINE r == SettledReport(s)
           me == ses'[s]
<1>1. UNCHANGED <<env, disk, turn, reader, lock, store>> /\ ses[s].pc = "settle"
  BY DEF Settle
<1>2. /\ me \in Session /\ ses' = [ses EXCEPT ![s] = me]
      /\ r.settled /\ r.gen = latest.gen /\ latest.gen # 0
      /\ ~latest.settled /\ me.pc = "history" /\ me.report = r
      /\ \/ me.next = "poll" /\ ~me.changed /\ me.code = ses[s].code /\ r.kind = "watch"
         \/ me.next = "done"
  BY SettleIs
<1> HIDE DEF r, me
<1>3. Progress(ses[s]) BY DEF IInv, SessionsInv
<1>4. Progress(me) /\ Stored(me, latest, history, kept) /\ Abreast(me, disk, turn)
  BY <1>1, <1>2, <1>3 DEF Progress, Stored, Abreast, Stage, Publishing, Follows
<1> QED BY <1>1, <1>2, <1>4, StoreStays DEF Inside

(* A baseline that cannot be read ends a check, and stops a watcher. *)
LEMMA SettleFailsKeeps == ASSUME IInv, NEW s \in Sessions, SettleFails(s) PROVE IInv'
<1>1. UNCHANGED <<env, disk, turn, reader, store>> /\ ses[s].pc = "settle"
  BY DEF SettleFails
<1>2. ses[s] \in Session /\ latest \in AnyReport BY DEF IInv, TypeInv
<1>3. CASE Becomes(s, Stopped(s)) /\ lock' = lock
  BY <1>1, <1>3, StoppedIs, StoreStays DEF Becomes, Inside
<1>4. CASE /\ Becomes(s, Done(s, ses[s].report.gen,
                         Lets(ses[s].report, "incomplete", ses[s].signal)))
           /\ lock' = "free"
  <2> DEFINE code == Lets(ses[s].report, "incomplete", ses[s].signal)
             me == Done(s, ses[s].report.gen, code)
  <2>1. code \in Codes /\ ses[s].report.gen \in Nat
    BY <1>2, LetsCode DEF Codes, Session, AnyReport
  <2>2. ses' = [ses EXCEPT ![s] = me] BY <1>4 DEF Becomes
  <2> HIDE DEF code
  <2>3. /\ me \in Session /\ me.pc = "done" /\ Progress(me) /\ Abreast(me, disk, turn)
        /\ Stored(me, latest', history', kept')
    BY <2>1, DoneIs
  <2> HIDE DEF me
  <2>4. lock = s BY <1>1 DEF IInv, LockInv, Inside
  <2>5. latest' \in AnyReport BY <1>1, <1>2 DEF store
  <2>6. TypeInv' /\ LockInv' /\ SessionsInv'
    BY <1>1, <1>4, <2>2, <2>3, <2>4, <2>5, SessionMoves DEF Inside
  <2>7. HistoryInv' BY <1>1 DEF IInv, HistoryInv, Window, store
  <2> QED BY <2>6, <2>7 DEF IInv
<1> QED BY <1>3, <1>4 DEF SettleFails

(* A watcher's change begins a generation; what rested is evaluated. *)
LEMMA PollKeeps == ASSUME IInv, NEW s \in Sessions, Poll(s) PROVE IInv'
<1>1. UNCHANGED <<env, disk, turn, reader, lock, store>> /\ ses[s].pc = "poll"
  BY DEF Poll
<1>2. ses[s] \in Session /\ disk \in [Files -> Texts] BY DEF IInv, TypeInv
<1>3. Progress(ses[s]) /\ Stored(ses[s], latest, history, kept) /\ Abreast(ses[s], disk, turn)
  BY DEF IInv, SessionsInv
<1>4. ses[s].report = latest /\ latest.gen # 0 BY <1>1, <1>3 DEF Stored
<1>5. CASE Stop(s)
  BY <1>1, <1>5, StoppedIs, StoreStays DEF Stop, Becomes, Inside
<1>6. CASE Becomes(s, [ses[s] EXCEPT !.pc = "history", !.next = "poll", !.changed = TRUE,
             !.report = Snapshot([kind |-> "watch", lines |-> ses[s].report.lines,
                                  scope |-> Scope(ses[s].report)], disk,
                                 ses[s].report.gen + 1)])
  <2> DEFINE a == [kind |-> "watch", lines |-> ses[s].report.lines,
                   scope |-> Scope(ses[s].report)]
             gen == ses[s].report.gen + 1
             r == Snapshot(a, disk, gen)
             me == [ses[s] EXCEPT !.pc = "history", !.next = "poll", !.changed = TRUE,
                                  !.report = r]
  <2>1. ses' = [ses EXCEPT ![s] = me] BY <1>6 DEF Becomes
  <2>2. gen \in Nat /\ gen = latest.gen + 1
        /\ a.kind \in {"check", "git", "hook", "watch"} /\ a.lines \in BOOLEAN
    BY <1>2, <1>4 DEF Session, AnyReport
  <2>3. a.kind = "watch" OBVIOUS
  <2> HIDE DEF a, gen
  <2>4. r \in AnyReport /\ Unjudged(r) /\ r.gen = gen /\ r.kind = "watch" /\ ~r.settled
    BY <1>2, <2>2, <2>3, SnapshotReport
  <2> HIDE DEF r
  <2>5. /\ me \in Session /\ me.pc = "history" /\ me.next = "poll" /\ me.report = r
        /\ me.code = ses[s].code
    BY <1>2, <2>4 DEF Session, Steps
  <2> HIDE DEF me
  <2>6. Progress(me) /\ Stored(me, latest, history, kept) /\ Abreast(me, disk, turn)
    BY <1>1, <1>3, <2>2, <2>4, <2>5 DEF Progress, Stored, Abreast, Stage, Publishing, Follows
  <2> QED BY <1>1, <2>1, <2>5, <2>6, StoreStays DEF Inside
<1>7. CASE ses[s].changed
           /\ Becomes(s, [ses[s] EXCEPT !.pc = "history", !.next = "round", !.rounds = 0])
  <2> DEFINE me == [ses[s] EXCEPT !.pc = "history", !.next = "round", !.rounds = 0]
  <2>1. ses' = [ses EXCEPT ![s] = me] BY <1>7 DEF Becomes
  <2>2. /\ me \in Session /\ me.pc = "history" /\ me.next = "round"
        /\ me.report = ses[s].report /\ me.code = ses[s].code
    BY <1>2 DEF Session, Steps
  <2> HIDE DEF me
  <2>3. Unjudged(ses[s].report) /\ ~ses[s].report.settled
    BY <1>1, <1>3, <1>7 DEF Progress, Stage, Publishing
  <2>4. Progress(me) /\ Stored(me, latest, history, kept) /\ Abreast(me, disk, turn)
    BY <1>1, <1>3, <1>4, <2>2, <2>3 DEF Progress, Stored, Abreast, Stage, Publishing, Follows
  <2> QED BY <1>1, <2>1, <2>2, <2>4, StoreStays DEF Inside
<1> QED BY <1>5, <1>6, <1>7 DEF Poll

(* A signal is only remembered. *)
LEMMA SignalKeeps == ASSUME IInv, NEW s \in Sessions, Signal(s) PROVE IInv'
<1> DEFINE me == [ses[s] EXCEPT !.signal = TRUE]
<1>1. UNCHANGED <<env, disk, turn, reader, lock, store>> /\ ses' = [ses EXCEPT ![s] = me]
  BY DEF Signal, Becomes
<1>2. ses[s] \in Session BY DEF IInv, TypeInv
<1>3. /\ me \in Session /\ me.pc = ses[s].pc /\ me.next = ses[s].next
      /\ me.report = ses[s].report /\ me.changed = ses[s].changed
      /\ me.code = ses[s].code /\ me.edited = ses[s].edited
  BY <1>2 DEF Session
<1> HIDE DEF me
<1>4. Progress(ses[s]) /\ Stored(ses[s], latest, history, kept) /\ Abreast(ses[s], disk, turn)
  BY DEF IInv, SessionsInv
<1>5. Stage(me) = Stage(ses[s]) BY <1>3 DEF Stage
<1>6. Progress(me) /\ Stored(me, latest, history, kept) /\ Abreast(me, disk, turn)
  BY <1>3, <1>4, <1>5 DEF Progress, Stored, Abreast
<1>7. UNCHANGED <<latest, history, kept>> BY <1>1 DEF store
<1>8. latest' \in AnyReport BY <1>7 DEF IInv, TypeInv
<1>9. me.pc \in Inside => lock' = s BY <1>1, <1>3 DEF IInv, LockInv
<1>10. TypeInv' /\ LockInv' /\ SessionsInv'
  BY <1>1, <1>3, <1>6, <1>7, <1>8, <1>9, SessionMoves
<1>11. HistoryInv' BY <1>7 DEF IInv, HistoryInv, Window
<1> QED BY <1>10, <1>11 DEF IInv

(* A killed session leaves the store as it is, and frees its lock. *)
LEMMA KillKeeps == ASSUME IInv, NEW s \in Sessions, Kill(s) PROVE IInv'
<1>1. /\ UNCHANGED <<env, disk, turn, reader, store>> /\ ses' = [ses EXCEPT ![s] = Idle]
      /\ lock' = IF lock = s THEN "free" ELSE lock
  BY DEF Kill, Becomes
<1>2. Idle \in Session BY NoReportReport DEF Idle, Session, Steps, Codes
<1>3. Idle.pc = "idle" /\ Stage(Idle) = "idle" /\ Idle.code = "none"
  BY DEF Idle, Stage, Publishing
<1>4. /\ Progress(Idle) /\ Abreast(Idle, disk, turn)
      /\ Stored(Idle, latest', history', kept')
  BY <1>3 DEF Progress, Abreast, Stored, Publishing
<1>5. UNCHANGED <<latest, history, kept>> BY <1>1 DEF store
<1>6. latest' \in AnyReport BY <1>5 DEF IInv, TypeInv
<1>7. TypeInv' /\ LockInv' /\ SessionsInv'
  BY <1>1, <1>2, <1>3, <1>4, <1>5, <1>6, SessionMoves DEF Inside
<1>8. HistoryInv' BY <1>5 DEF IInv, HistoryInv, Window
<1> QED BY <1>7, <1>8 DEF IInv

(* An edit is remembered by every session it may take by surprise. *)
LEMMA EditKeeps == ASSUME IInv, NEW f \in Files, Edit(f) PROVE IInv'
<1>1. /\ UNCHANGED <<env, turn, reader, lock, store>>
      /\ \E t \in env.texts \ {disk[f]} : disk' = [disk EXCEPT ![f] = t]
      /\ ses' = [s \in Sessions |-> [ses[s] EXCEPT !.edited = @ \cup {f}]]
  BY DEF Edit
<1>2. disk \in [Files -> Texts] /\ ses \in [Sessions -> Session] /\ env \in EnvType
  BY PublicationAssumption DEF IInv, TypeInv
<1>3. disk' \in [Files -> Texts] /\ \A g \in Files \ {f} : disk'[g] = disk[g]
  BY <1>1, <1>2 DEF EnvType
<1>4. ASSUME NEW s \in Sessions
      PROVE  /\ ses'[s] \in Session /\ ses'[s].pc = ses[s].pc /\ ses'[s].next = ses[s].next
             /\ ses'[s].report = ses[s].report /\ ses'[s].changed = ses[s].changed
             /\ ses'[s].code = ses[s].code /\ ses'[s].edited = ses[s].edited \cup {f}
  BY <1>1, <1>2 DEF Session
<1>5. ses' \in [Sessions -> Session] BY <1>1, <1>4
<1>6. UNCHANGED <<latest, history, kept>> BY <1>1 DEF store
<1>7. TypeInv' BY <1>1, <1>3, <1>5, <1>6 DEF IInv, TypeInv
<1>8. LockInv' BY <1>1, <1>4 DEF IInv, LockInv
<1>9. HistoryInv' BY <1>6 DEF IInv, HistoryInv, Window
<1>10. ASSUME NEW s \in Sessions
       PROVE  /\ Progress(ses'[s]) /\ Stored(ses'[s], latest', history', kept')
              /\ Abreast(ses'[s], disk', turn')
  <2>1. Progress(ses[s]) /\ Stored(ses[s], latest, history, kept)
        /\ Abreast(ses[s], disk, turn)
    BY DEF IInv, SessionsInv
  <2>2. Stage(ses'[s]) = Stage(ses[s]) BY <1>4 DEF Stage
  <2>3. Progress(ses'[s]) BY <1>4, <2>1, <2>2 DEF Progress
  <2>4. Stored(ses'[s], latest', history', kept') BY <1>4, <1>6, <2>1 DEF Stored
  <2>5. Abreast(ses'[s], disk', turn')
    BY <1>1, <1>3, <1>4, <2>1, <2>2 DEF Abreast
  <2> QED BY <2>3, <2>4, <2>5
<1> QED BY <1>7, <1>8, <1>9, <1>10 DEF IInv, SessionsInv

(* The reader only probes a free lock; no command touches a report. *)
LEMMA OthersKeep ==
  ASSUME IInv, \/ BreakBaseline \/ BeginTurn \/ ReaderStep
               \/ \E c \in Commands : CommandStep(c)
               \/ UNCHANGED vars
  PROVE  IInv'
<1>1. UNCHANGED <<env, disk, store, ses>> /\ (turn' = turn \/ (turn'.on /\ ~turn.on))
  <2>1. CASE BreakBaseline BY <2>1 DEF BreakBaseline
  <2>2. CASE BeginTurn BY <2>2 DEF BeginTurn
  <2>3. CASE ReaderStep
    BY <2>3 DEF ReaderStep, Ask, Probe, Probed, ReadHistory, Reply, Gap
  <2>4. ASSUME NEW c \in Commands, CommandStep(c)
        PROVE  UNCHANGED <<env, disk, store, ses, turn>>
    BY <2>4 DEF CommandStep, WriteBaseline, MarkBaseline, Begins, Truncate, Save,
                KillCommand
  <2>5. CASE UNCHANGED vars BY <2>5 DEF vars
  <2> QED BY <2>1, <2>2, <2>3, <2>4, <2>5
<1>2. "pc" \in DOMAIN reader' /\ LockInv'
  <2>1. "pc" \in DOMAIN reader /\ ({"probe", "free"} \cap Sessions = {}) /\ LockInv
    BY PublicationAssumption DEF IInv, TypeInv
  <2>2. CASE UNCHANGED <<reader, lock>> BY <1>1, <2>1, <2>2 DEF LockInv
  <2>3. CASE Ask BY <1>1, <2>1, <2>3 DEF Ask, LockInv
  <2>4. CASE Probe BY <1>1, <2>1, <2>4 DEF Probe, LockInv, Inside
  <2>5. CASE Probed BY <1>1, <2>1, <2>5 DEF Probed, LockInv, Inside
  <2>6. CASE ReadHistory BY <1>1, <2>1, <2>6 DEF ReadHistory, LockInv
  <2>7. CASE Reply BY <1>1, <2>1, <2>7 DEF Reply, LockInv, Asleep
  <2>8. CASE Gap BY <1>1, <2>1, <2>8 DEF Gap, LockInv, Asleep
  <2> QED BY <2>2, <2>3, <2>4, <2>5, <2>6, <2>7, <2>8
          DEF BreakBaseline, BeginTurn, ReaderStep, CommandStep, WriteBaseline,
              MarkBaseline, Begins, Truncate, Save, KillCommand, vars
<1>3. UNCHANGED <<latest, history, kept>> BY <1>1 DEF store
<1>4. TypeInv' BY <1>1, <1>2, <1>3 DEF IInv, TypeInv
<1>5. HistoryInv' BY <1>3 DEF IInv, HistoryInv, Window
<1>6. SessionsInv'
  <2> SUFFICES ASSUME NEW s \in Sessions
               PROVE  /\ Progress(ses[s]) /\ Stored(ses[s], latest, history, kept)
                      /\ Abreast(ses[s], disk, turn')
    BY <1>1, <1>3 DEF SessionsInv
  <2>1. /\ Progress(ses[s]) /\ Stored(ses[s], latest, history, kept)
        /\ Abreast(ses[s], disk, turn)
    BY DEF IInv, SessionsInv
  <2>2. CASE turn' = turn BY <2>1, <2>2
  <2>3. CASE turn'.on /\ ~turn.on
    <3>1. Stage(ses[s]) \in {"idle", "done"} \/ ses[s].report.kind # "hook"
      BY <2>1, <2>3 DEF Abreast
    <3>2. Abreast(ses[s], disk, turn') BY <2>1, <2>3, <3>1 DEF Abreast
    <3> QED BY <2>1, <3>2
  <2> QED BY <1>1, <2>2, <2>3
<1> QED BY <1>2, <1>4, <1>5, <1>6 DEF IInv

(* Every step of every process keeps the invariant. *)
LEMMA InvStep == IInv /\ [Next]_vars => IInv'
<1> SUFFICES ASSUME IInv, [Next]_vars PROVE IInv' OBVIOUS
<1>1. ASSUME NEW s \in Sessions, Collect(s) \/ SessionStep(s) \/ Signal(s) \/ Kill(s)
      PROVE  IInv'
  BY <1>1, CollectKeeps, TakeLockKeeps, FirstSnapshotKeeps, PublishHistoryKeeps,
     PublishLatestKeeps, PruneKeeps, RoundKeeps, ComposeKeeps, SettleKeeps,
     SettleFailsKeeps, PollKeeps, SignalKeeps, KillKeeps DEF SessionStep
<1>2. ASSUME NEW f \in Files, Edit(f) PROVE IInv' BY <1>2, EditKeeps
<1>3. CASE \/ BreakBaseline \/ BeginTurn \/ ReaderStep
           \/ \E c \in Commands : CommandStep(c) \/ UNCHANGED vars
  BY <1>3, OthersKeep
<1> QED BY <1>1, <1>2, <1>3, OthersKeep DEF Next

-----------------------------------------------------------------------------
(* Whatever processes do, and whenever they end, the invariant holds (the   *)
(* session lock, Store::publish, watch::run).                               *)
THEOREM Invariant == Spec => []IInv
BY InvInit, InvStep, PTL DEF Spec

(* LatestInHistory: no interleaving, kill or number of sessions leaves the  *)
(* latest report without its history, whatever the length History keeps     *)
(* (Store::publish).                                                        *)
THEOREM HistoryBehindLatest == Spec => []LatestInHistory
<1>1. IInv => LatestInHistory
  <2> SUFFICES ASSUME IInv, latest.gen # 0
               PROVE  /\ Window \subseteq kept
                      /\ latest.settled => history[latest.gen].settled
                      /\ \A g \in DOMAIN history : g <= latest.gen + 1
    BY DEF LatestInHistory, Window
  <2> QED BY DEF IInv, HistoryInv
<1> QED BY Invariant, <1>1, PTL

(* What a step may do to the store. *)
LEMMA StoreChanges ==
  ASSUME IInv, [Next]_vars
  PROVE  \/ UNCHANGED <<latest, history>>
         \/ \E s \in Sessions : PublishHistory(s) \/ PublishLatest(s)
<1>1. ASSUME NEW s \in Sessions, Collect(s) \/ SessionStep(s) \/ Signal(s) \/ Kill(s),
             ~PublishHistory(s), ~PublishLatest(s)
      PROVE  UNCHANGED <<latest, history>>
  BY <1>1 DEF Collect, SessionStep, TakeLock, FirstSnapshot, Prune, Round, Compose,
              Settle, SettleFails, Poll, Signal, Kill, store
<1>2. ASSUME NEW f \in Files, Edit(f) PROVE UNCHANGED <<latest, history>>
  BY <1>2 DEF Edit, store
<1>3. CASE BreakBaseline \/ BeginTurn BY <1>3 DEF BreakBaseline, BeginTurn, store
<1>4. CASE ReaderStep
  BY <1>4 DEF ReaderStep, Ask, Probe, Probed, ReadHistory, Reply, Gap, store
<1>5. ASSUME NEW c \in Commands, CommandStep(c) PROVE UNCHANGED <<latest, history>>
  BY <1>5 DEF CommandStep, WriteBaseline, MarkBaseline, Begins, Truncate, Save,
              KillCommand, store
<1>6. CASE UNCHANGED vars BY <1>6 DEF vars, store
<1> QED BY <1>1, <1>2, <1>3, <1>4, <1>5, <1>6 DEF Next

(* A settled generation's changes are final (body of SettledStays). *)
SettledStay ==
  /\ latest.settled /\ latest' # latest =>
       \/ latest'.gen > latest.gen
       \/ latest'.gen = latest.gen /\ latest'.settled
          /\ latest'.changes = latest.changes /\ latest'.errors
  /\ \A g \in DOMAIN history :
       history[g].settled /\ g <= SettledGen(latest) =>
         history'[g].changes = history[g].changes

(* A publication adds at most an end to what is settled. *)
LEMMA SettledStep == IInv /\ [Next]_vars => SettledStay
<1> SUFFICES ASSUME IInv, [Next]_vars PROVE SettledStay OBVIOUS
<1>1. latest \in AnyReport /\ ses \in [Sessions -> Session] BY DEF IInv, TypeInv
<1>2. latest.gen \in Nat BY <1>1 DEF AnyReport
<1>3. CASE UNCHANGED <<latest, history>> BY <1>3 DEF SettledStay
<1>4. ASSUME NEW s \in Sessions, PublishLatest(s) PROVE SettledStay
  <2>1. /\ ses[s].pc = "latest" /\ latest' = ses[s].report /\ history' = history
        /\ Follows(ses[s].report, latest)
    BY <1>4 DEF PublishLatest, IInv, SessionsInv, Stored
  <2> QED BY <1>2, <2>1 DEF SettledStay, Follows
<1>5. ASSUME NEW s \in Sessions, PublishHistory(s) PROVE SettledStay
  <2> DEFINE r == ses[s].report
  <2>1. /\ ses[s].pc = "history" /\ latest' = latest
        /\ history' = [g \in DOMAIN history \cup {r.gen} |->
                         IF g = r.gen THEN r ELSE history[g]]
        /\ Follows(r, latest)
    BY <1>5 DEF PublishHistory, IInv, SessionsInv, Stored
  <2>2. ASSUME NEW g \in DOMAIN history, history[g].settled, g <= SettledGen(latest)
        PROVE  history'[g].changes = history[g].changes
    <3>1. CASE g # r.gen BY <2>1, <3>1
    <3>2. CASE g = r.gen
      <4>1. g \in Nat BY DEF IInv, HistoryInv
      <4>2. r.gen = latest.gen /\ r.gen # 0 /\ latest.settled
        BY <1>2, <2>1, <2>2, <3>2, <4>1 DEF Follows, SettledGen
      <4>3. history[latest.gen].changes = latest.changes
        BY <4>2 DEF IInv, HistoryInv
      <4> QED BY <1>2, <2>1, <3>2, <4>2, <4>3 DEF Follows
    <3> QED BY <3>1, <3>2
  <2> QED BY <2>1, <2>2 DEF SettledStay
<1> QED BY <1>3, <1>4, <1>5, StoreChanges

(* SettledStays: what a reader was told of a settled generation stays true, *)
(* for any number of sessions, watchers and kills (stop_watcher,            *)
(* Store::publish).                                                         *)
THEOREM SettledIsFinal == Spec => SettledStays
<1>1. IInv /\ [Next]_vars =>
        [/\ latest.settled /\ latest' # latest =>
              \/ latest'.gen > latest.gen
              \/ latest'.gen = latest.gen /\ latest'.settled
                 /\ latest'.changes = latest.changes /\ latest'.errors
         /\ \A g \in DOMAIN history :
              history[g].settled /\ g <= SettledGen(latest) =>
                history'[g].changes = history[g].changes]_vars
  BY SettledStep DEF SettledStay
<1> QED BY Invariant, <1>1, PTL DEF Spec, SettledStays

-----------------------------------------------------------------------------
(* The end of a check (body of PassIsSound) *)
PassSound(s) ==
  ses[s].pc = "settle" /\ ses'[s].code = "pass" =>
    LET r == ses'[s].report IN
    \A f \in Scope(r) \ ses[s].edited :
      /\ r.status[f] = "judged" /\ r.text[f] = disk[f]
      /\ disk[f] \in Flawed => Vouched(r, f)

(* A check that passes settles a report composed from the files as they     *)
(* are, and each of its findings has who vouches for it.                    *)
LEMMA SettlePasses ==
  ASSUME IInv, NEW s \in Sessions, Settle(s), ses'[s].code = "pass"
  PROVE  PassSound(s)
<1> DEFINE r == ses[s].report
           q == SettledReport(s)
<1>1. ses[s].pc = "settle" /\ Readable(baseline, TurnOf(r)) BY DEF Settle
<1>2. ses[s] \in Session BY DEF IInv, TypeInv
<1>3. Progress(ses[s]) /\ Abreast(ses[s], disk, turn) BY DEF IInv, SessionsInv
<1>4. /\ ses'[s].report = q /\ q.kind = r.kind /\ q.status = r.status /\ q.text = r.text
      /\ ExitCode(q) = "pass" =>
           /\ Scope(q) = Judged(q)
           /\ \A f \in r.found :
                \/ f \in Accepted(baseline, TurnOf(r))
                \/ disk[f] = "allowed" /\ ~(TurnOf(r).on /\ f \in r.added)
  BY <1>2, SettleIs, SettledIs DEF Session
<1>5. ExitCode(q) = "pass"
  <2>1. \/ ses'[s].code = ses[s].code
        \/ ses'[s].code = Lets(q, ExitCode(q), ses[s].signal)
    BY SettleIs
  <2>2. ses[s].code = "none" BY <1>1, <1>3 DEF Progress, Stage, Publishing
  <2> QED BY <2>1, <2>2 DEF Lets
<1> SUFFICES ASSUME NEW f \in Scope(q) \ ses[s].edited
             PROVE  /\ q.status[f] = "judged" /\ q.text[f] = disk[f]
                    /\ disk[f] \in Flawed => Vouched(q, f)
  BY <1>4 DEF PassSound
<1>6. f \in Files /\ q.status[f] = "judged" BY <1>4, <1>5 DEF Scope, Judged
<1>7. /\ r.text[f] = disk[f] /\ (disk[f] \in Flawed => f \in r.found)
      /\ r.kind = "hook" => turn.on
      /\ r.kind = "hook" /\ disk[f] = "allowed" /\ f \notin r.added =>
           turn.text[f] = "allowed"
  BY <1>1, <1>3, <1>4, <1>6 DEF Abreast, Stage, Publishing
<1>8. ASSUME disk[f] \in Flawed PROVE Vouched(q, f)
  <2>1. \/ f \in Accepted(baseline, TurnOf(r))
        \/ disk[f] = "allowed" /\ ~(TurnOf(r).on /\ f \in r.added)
    BY <1>4, <1>5, <1>7, <1>8
  <2>2. CASE r.kind = "hook"
    <3>1. TurnOf(r) = turn /\ turn.on BY <1>7, <2>2 DEF TurnOf
    <3>2. CASE f \in Accepted(baseline, turn)
      BY <1>4, <2>2, <3>1, <3>2 DEF Accepted, Held, DismissedSince, Vouched
    <3>3. CASE disk[f] = "allowed" /\ f \notin r.added
      BY <1>4, <1>7, <2>2, <3>3 DEF Vouched
    <3> QED BY <2>1, <3>1, <3>2, <3>3
  <2>3. CASE r.kind # "hook"
    <3>1. TurnOf(r) = NoTurn /\ ~NoTurn.on BY <2>3 DEF TurnOf, NoTurn
    <3>2. baseline.valid BY <1>1, <3>1 DEF Readable
    <3>3. CASE f \in Accepted(baseline, NoTurn)
      BY <1>4, <2>3, <3>1, <3>2, <3>3 DEF Accepted, Held, Vouched
    <3>4. CASE disk[f] = "allowed" BY <1>4, <2>3, <3>4 DEF Vouched
    <3> QED BY <2>1, <3>1, <3>3, <3>4
  <2> QED BY <2>2, <2>3
<1> QED BY <1>4, <1>6, <1>7, <1>8

(* Only settling ends a check with a pass. *)
LEMMA PassStep == IInv /\ [Next]_vars => \A s \in Sessions : PassSound(s)
<1> SUFFICES ASSUME IInv, [Next]_vars, NEW s \in Sessions,
                    ses[s].pc = "settle", ses'[s].code = "pass"
             PROVE  PassSound(s)
  BY DEF PassSound
<1>1. ses \in [Sessions -> Session] /\ ses[s].code = "none"
  BY DEF IInv, TypeInv, SessionsInv, Progress, Stage, Publishing
<1>2. ses'[s].code # ses[s].code BY <1>1
<1>3. ASSUME NEW v \in Sessions, Collect(v) \/ SessionStep(v) \/ Signal(v) \/ Kill(v)
      PROVE  PassSound(s)
  <2>1. CASE v # s
    <3>1. \E me : ses' = [ses EXCEPT ![v] = me]
      BY <1>3 DEF Collect, SessionStep, TakeLock, FirstSnapshot, PublishHistory,
                  PublishLatest, Prune, Round, Compose, Settle, SettleFails, Poll, Signal,
                  Kill, Becomes, Stop
    <3> QED BY <1>1, <1>2, <2>1, <3>1
  <2>2. CASE v = s
    <3>1. Settle(s) \/ SettleFails(s) \/ Signal(s) \/ Kill(s)
      BY <1>3, <2>2 DEF Collect, SessionStep, TakeLock, FirstSnapshot, PublishHistory,
                  PublishLatest, Prune, Round, Compose, Poll
    <3>2. CASE Settle(s) BY <3>2, SettlePasses
    <3>3. CASE SettleFails(s)
      <4>1. \/ ses' = [ses EXCEPT ![s] = Stopped(s)]
            \/ ses' = [ses EXCEPT ![s] = Done(s, ses[s].report.gen,
                         Lets(ses[s].report, "incomplete", ses[s].signal))]
        BY <3>3 DEF SettleFails, Becomes
      <4>2. Lets(ses[s].report, "incomplete", ses[s].signal) # "pass" BY DEF Lets
      <4>3. Stopped(s).code # "pass"
        BY <1>1, <4>2 DEF Stopped, Session, AnyReport
      <4>4. Done(s, ses[s].report.gen, Lets(ses[s].report, "incomplete", ses[s].signal)).code
              # "pass"
        BY <4>2 DEF Done, Idle
      <4> QED BY <1>1, <4>1, <4>3, <4>4
    <3>4. CASE Signal(s)
      <4>1. ses' = [ses EXCEPT ![s] = [ses[s] EXCEPT !.signal = TRUE]]
        BY <3>4 DEF Signal, Becomes
      <4> QED BY <1>1, <1>2, <4>1 DEF Session
    <3>5. CASE Kill(s)
      <4>1. ses' = [ses EXCEPT ![s] = Idle] BY <3>5 DEF Kill, Becomes
      <4> QED BY <1>1, <4>1 DEF Idle
    <3> QED BY <3>1, <3>2, <3>3, <3>4, <3>5
  <2> QED BY <2>1, <2>2
<1>4. ASSUME NEW f \in Files, Edit(f) PROVE FALSE
  <2>1. ses' = [v \in Sessions |-> [ses[v] EXCEPT !.edited = @ \cup {f}]]
    BY <1>4 DEF Edit
  <2> QED BY <1>1, <1>2, <2>1 DEF Session
<1>5. CASE BreakBaseline \/ BeginTurn BY <1>2, <1>5 DEF BreakBaseline, BeginTurn
<1>6. CASE ReaderStep
  BY <1>2, <1>6 DEF ReaderStep, Ask, Probe, Probed, ReadHistory, Reply, Gap
<1>7. ASSUME NEW c \in Commands, CommandStep(c) PROVE FALSE
  BY <1>2, <1>7 DEF CommandStep, WriteBaseline, MarkBaseline, Begins, Truncate, Save,
                    KillCommand
<1>8. CASE UNCHANGED vars BY <1>2, <1>8 DEF vars
<1> QED BY <1>3, <1>4, <1>5, <1>6, <1>7, <1>8 DEF Next

(* PassIsSound: for any sessions, edits and agents' turns, a check passes   *)
(* only what it judged as it is and what somebody vouches for               *)
(* (gate::settle, gate::exit_code, verify_current).                         *)
THEOREM PassesAreSound == Spec => PassIsSound
<1>1. IInv /\ [Next]_vars =>
        [\A s \in Sessions :
           ses[s].pc = "settle" /\ ses'[s].code = "pass" =>
             LET r == ses'[s].report IN
             \A f \in Scope(r) \ ses[s].edited :
               /\ r.status[f] = "judged" /\ r.text[f] = disk[f]
               /\ disk[f] \in Flawed => Vouched(r, f)]_vars
  BY PassStep DEF PassSound
<1> QED BY Invariant, <1>1, PTL DEF Spec, PassIsSound

-----------------------------------------------------------------------------
(* The baseline commands *)
Command ==
  [pc: {"idle", "truncate", "write"}, new: Entries, old: Entries, merge: BOOLEAN,
   report: AnyReport, mark: BOOLEAN, overlapped: BOOLEAN]

(* What a command is about to write, from what it read *)
Writes(c) ==
  \/ /\ ~cmd[c].mark /\ CanWrite(cmd[c].report, cmd[c].merge)
     /\ \E mark \in {"plain", "reason"} :
          cmd[c].new = Written(cmd[c].report, cmd[c].merge, mark, cmd[c].old)
  \/ /\ cmd[c].mark
     /\ \E targets \in SUBSET Files, exact \in BOOLEAN :
          cmd[c].new = Marked(cmd[c].report, targets, exact, cmd[c].old)

CommandsInv ==
  /\ baseline \in Baselines
  /\ cmd \in [Commands -> Command]
  /\ \A c \in Commands :
       /\ cmd[c].pc # "idle" => Writes(c)
       /\ cmd[c].pc # "idle" /\ ~cmd[c].overlapped =>
            \A d \in Commands \ {c} : cmd[d].pc # "write"
       /\ cmd[c].pc = "write" /\ ~cmd[c].overlapped => ~baseline.valid

(* The commands' operations give a baseline's entries. *)
LEMMA EntriesWritten ==
  ASSUME NEW r \in AnyReport, NEW merge \in BOOLEAN, NEW mark \in {"plain", "reason"},
         NEW previous \in Entries, NEW targets \in SUBSET Files, NEW exact \in BOOLEAN
  PROVE  /\ Written(r, merge, mark, previous) \in Entries
         /\ Marked(r, targets, exact, previous) \in Entries
<1>1. Written(r, merge, mark, previous) \in Entries
  BY DEF Written, Entries, Marks
<1>2. Marked(r, targets, exact, previous) \in Entries
  BY DEF Marked, Entries, Marks
<1> QED BY <1>1, <1>2

(* What a rewritten baseline no longer holds, its check did not find. *)
LEMMA WrittenKeeps ==
  ASSUME NEW r \in AnyReport, NEW merge \in BOOLEAN, NEW mark \in {"plain", "reason"},
         NEW previous \in Entries, CanWrite(r, merge), NEW f \in Held(previous)
  PROVE  LET now == Written(r, merge, mark, previous) IN
         /\ now[f] = "out" =>
              /\ f \notin r.found \ r.suppressed
              /\ merge => f \in Judged(r) /\ ~r.lines
         /\ previous[f] = "reason" => now[f] \in {"reason", "out"}
<1> DEFINE now == Written(r, merge, mark, previous)
<1>1. f \in Files /\ previous[f] # "out" BY DEF Held
<1>2. now[f] = IF f \in ToAccept(r) THEN IF previous[f] = "reason" THEN "reason" ELSE mark
               ELSE IF merge /\ f \in Uncovered(r, previous) THEN previous[f] ELSE "out"
  BY <1>1 DEF Written
<1> HIDE DEF now
<1>3. ASSUME now[f] = "out" PROVE f \notin r.found \ r.suppressed
  BY <1>2, <1>3 DEF ToAccept
<1>4. ASSUME now[f] = "out", merge PROVE f \in Judged(r) /\ ~r.lines
  <2>1. f \notin Uncovered(r, previous) BY <1>1, <1>2, <1>4
  <2>2. ~r.lines /\ f \in Scope(r) BY <2>1 DEF Uncovered
  <2> QED BY <2>2 DEF CanWrite, Complete
<1>5. ASSUME previous[f] = "reason" PROVE now[f] \in {"reason", "out"}
  BY <1>2, <1>5
<1> QED BY <1>3, <1>4, <1>5 DEF now

(* Marking drops nothing, and turns no reason into less. *)
LEMMA MarkedKeeps ==
  ASSUME NEW r, NEW previous \in Entries, NEW targets, NEW exact, NEW f \in Held(previous)
  PROVE  LET now == Marked(r, targets, exact, previous) IN
         now[f] # "out" /\ (previous[f] = "reason" => now[f] = "reason")
BY DEF Held, Marked

(* No command runs at first. *)
LEMMA CommandsInit == Init => CommandsInv
<1> SUFFICES ASSUME Init PROVE CommandsInv OBVIOUS
<1>1. env \in EnvType BY PublicationAssumption DEF Init
<1>2. baseline \in Baselines BY <1>1 DEF Init, EnvType, Baselines
<1>3. NoBaseline.entry \in Entries BY DEF NoBaseline, Entries, Marks
<1>4. NoCommand \in Command /\ NoCommand.pc = "idle"
  BY <1>3, NoReportReport DEF NoCommand, Command
<1> QED BY <1>2, <1>4 DEF Init, CommandsInv

(* A command that begins reads a baseline that is whole. *)
LEMMA BeginsKeeps ==
  ASSUME IInv, CommandsInv, NEW c \in Commands, NEW command \in Command,
         command.pc = "truncate", command.overlapped = Writing, Begins(c, command),
         \/ /\ ~command.mark /\ CanWrite(command.report, command.merge)
            /\ \E mark \in {"plain", "reason"} :
                 command.new = Written(command.report, command.merge, mark, command.old)
         \/ /\ command.mark
            /\ \E targets \in SUBSET Files, exact \in BOOLEAN :
                 command.new = Marked(command.report, targets, exact, command.old)
  PROVE  CommandsInv'
<1>1. cmd' = [cmd EXCEPT ![c] = command] /\ baseline' = baseline BY DEF Begins
<1>2. cmd \in [Commands -> Command] /\ baseline \in Baselines BY DEF CommandsInv
<1>3. \A d \in Commands : cmd'[d] = IF d = c THEN command ELSE cmd[d] BY <1>1, <1>2
<1>4. Writes(c)' BY <1>3 DEF Writes
<1>5. ASSUME NEW d \in Commands, d # c, cmd'[d].pc # "idle" PROVE Writes(d)'
  BY <1>3, <1>5 DEF CommandsInv, Writes
<1>6. ASSUME NEW d \in Commands, cmd'[d].pc # "idle", ~cmd'[d].overlapped,
             NEW e \in Commands \ {d}
      PROVE  cmd'[e].pc # "write"
  BY <1>3, <1>6 DEF CommandsInv, Writing
<1>7. ASSUME NEW d \in Commands, cmd'[d].pc = "write", ~cmd'[d].overlapped
      PROVE  ~baseline'.valid
  BY <1>1, <1>3, <1>7 DEF CommandsInv
<1>8. cmd' \in [Commands -> Command] BY <1>1, <1>2
<1> QED BY <1>1, <1>2, <1>4, <1>5, <1>6, <1>7, <1>8 DEF CommandsInv

(* Each step of a command keeps what the others are about to write. *)
LEMMA CommandKeeps ==
  ASSUME IInv, CommandsInv, NEW c \in Commands, CommandStep(c) PROVE CommandsInv'
<1>1. cmd \in [Commands -> Command] /\ baseline \in Baselines BY DEF CommandsInv
<1>2. latest \in AnyReport /\ baseline.entry \in Entries
  BY <1>1 DEF IInv, TypeInv, Baselines
<1>3. Writing \in BOOLEAN BY DEF Writing
<1>4. CASE WriteBaseline(c)
  <2>1. PICK merge \in BOOLEAN, mark \in {"plain", "reason"} :
          /\ CanWrite(latest, merge)
          /\ Begins(c, [pc |-> "truncate", old |-> baseline.entry, merge |-> merge,
                        new |-> Written(latest, merge, mark, baseline.entry),
                        report |-> latest, mark |-> FALSE, overlapped |-> Writing])
    BY <1>4 DEF WriteBaseline
  <2> DEFINE new == Written(latest, merge, mark, baseline.entry)
             command == [pc |-> "truncate", old |-> baseline.entry, merge |-> merge,
                         new |-> new, report |-> latest, mark |-> FALSE,
                         overlapped |-> Writing]
  <2>2. new \in Entries BY <1>2, EntriesWritten
  <2> HIDE DEF new
  <2>3. /\ command \in Command /\ command.pc = "truncate" /\ command.overlapped = Writing
        /\ ~command.mark /\ command.report = latest /\ command.merge = merge
        /\ command.new = new /\ command.old = baseline.entry
    BY <1>2, <1>3, <2>2 DEF Command
  <2>4. Begins(c, command) BY <2>1 DEF new
  <2> HIDE DEF command
  <2>5. command.new = Written(command.report, command.merge, mark, command.old)
    BY <2>3 DEF new
  <2>6. CanWrite(command.report, command.merge) BY <2>1, <2>3
  <2> QED BY <2>3, <2>4, <2>5, <2>6, BeginsKeeps
<1>5. CASE MarkBaseline(c)
  <2>1. PICK targets \in SUBSET Files, exact \in BOOLEAN :
          Begins(c, [pc |-> "truncate", old |-> baseline.entry, merge |-> FALSE,
                     new |-> Marked(latest, targets, exact, baseline.entry),
                     report |-> latest, mark |-> TRUE, overlapped |-> Writing])
    BY <1>5 DEF MarkBaseline
  <2> DEFINE new == Marked(latest, targets, exact, baseline.entry)
             command == [pc |-> "truncate", old |-> baseline.entry, merge |-> FALSE,
                         new |-> new, report |-> latest, mark |-> TRUE,
                         overlapped |-> Writing]
  <2>2. new \in Entries BY <1>2, EntriesWritten
  <2> HIDE DEF new
  <2>3. /\ command \in Command /\ command.pc = "truncate" /\ command.overlapped = Writing
        /\ command.mark /\ command.report = latest
        /\ command.new = new /\ command.old = baseline.entry
    BY <1>2, <1>3, <2>2 DEF Command
  <2>4. Begins(c, command) BY <2>1 DEF new
  <2> HIDE DEF command
  <2>5. command.new = Marked(command.report, targets, exact, command.old)
    BY <2>3 DEF new
  <2> QED BY <2>3, <2>4, <2>5, BeginsKeeps
<1>6. CASE Truncate(c)
  <2>1. /\ cmd[c].pc = "truncate" /\ baseline' = [baseline EXCEPT !.valid = FALSE]
        /\ cmd' = [d \in Commands |->
                     IF d = c THEN [cmd[d] EXCEPT !.pc = "write"]
                     ELSE [cmd[d] EXCEPT !.overlapped = cmd[d].pc # "idle"]]
    BY <1>6 DEF Truncate
  <2>2. baseline' \in Baselines /\ ~baseline'.valid
    <3>1. baseline \in Baselines BY DEF CommandsInv
    <3> QED BY <2>1, <3>1 DEF Baselines
  <2>3. ASSUME NEW d \in Commands
        PROVE  /\ cmd'[d] \in Command /\ cmd'[d].new = cmd[d].new /\ cmd'[d].old = cmd[d].old
               /\ cmd'[d].merge = cmd[d].merge /\ cmd'[d].report = cmd[d].report
               /\ cmd'[d].mark = cmd[d].mark
               /\ cmd'[d].pc = IF d = c THEN "write" ELSE cmd[d].pc
               /\ cmd'[d].overlapped =
                    IF d = c THEN cmd[d].overlapped ELSE cmd[d].pc # "idle"
    <3>1. cmd[d] \in Command BY <1>1
    <3>2. CASE d = c BY <2>1, <3>1, <3>2 DEF Command
    <3>3. CASE d # c
      <4>1. cmd'[d] = [cmd[d] EXCEPT !.overlapped = cmd[d].pc # "idle"] BY <2>1, <3>3
      <4>2. (cmd[d].pc # "idle") \in BOOLEAN OBVIOUS
      <4> QED BY <3>1, <3>3, <4>1, <4>2 DEF Command
    <3> QED BY <3>2, <3>3
  <2>4. cmd' \in [Commands -> Command] BY <2>1, <2>3
  <2>5. ASSUME NEW d \in Commands, cmd'[d].pc # "idle" PROVE Writes(d)'
    BY <2>1, <2>3, <2>5 DEF CommandsInv, Writes
  <2>6. ASSUME NEW d \in Commands, cmd'[d].pc # "idle", ~cmd'[d].overlapped,
               NEW e \in Commands \ {d}
        PROVE  cmd'[e].pc # "write"
    <3>1. cmd'[d].pc = (IF d = c THEN "write" ELSE cmd[d].pc)
      BY <2>3
    <3>2. cmd'[d].overlapped = (IF d = c THEN cmd[d].overlapped ELSE cmd[d].pc # "idle")
      BY <2>3
    <3>3. d = c BY <2>6, <3>1, <3>2
    <3>4. cmd'[e].pc = cmd[e].pc BY <2>3, <3>3
    <3>5. cmd[c].pc # "idle" /\ ~cmd[c].overlapped BY <2>1, <2>6, <3>2, <3>3
    <3> QED BY <1>1, <3>3, <3>4, <3>5 DEF CommandsInv
  <2> QED BY <2>2, <2>4, <2>5, <2>6 DEF CommandsInv
<1>7. CASE Save(c) \/ KillCommand(c)
  <2>1. /\ cmd' = [cmd EXCEPT ![c] = NoCommand] /\ cmd[c].pc # "idle"
        /\ \/ baseline' = baseline
           \/ cmd[c].pc = "write" /\ baseline' = [valid |-> TRUE, entry |-> cmd[c].new]
    BY <1>7 DEF Save, KillCommand
  <2>2. NoBaseline.entry \in Entries BY DEF NoBaseline, Entries, Marks
  <2>3. NoCommand \in Command /\ NoCommand.pc = "idle"
    BY <2>2, NoReportReport DEF NoCommand, Command
  <2>4. \A d \in Commands : cmd'[d] = IF d = c THEN NoCommand ELSE cmd[d]
    BY <1>1, <2>1
  <2>5. cmd' \in [Commands -> Command] BY <1>1, <2>1, <2>3
  <2>6. cmd[c].new \in Entries BY <1>1 DEF Command
  <2>7. baseline' \in Baselines
    <3>1. baseline \in Baselines BY DEF CommandsInv
    <3>2. [valid |-> TRUE, entry |-> cmd[c].new] \in Baselines BY <2>6 DEF Baselines
    <3>3. baseline' = baseline \/ baseline' = [valid |-> TRUE, entry |-> cmd[c].new]
      BY <2>1
    <3> QED BY <3>1, <3>2, <3>3
  <2>8. ASSUME NEW d \in Commands, cmd'[d].pc # "idle" PROVE Writes(d)'
    BY <2>3, <2>4, <2>8 DEF CommandsInv, Writes
  <2>9. ASSUME NEW d \in Commands, cmd'[d].pc # "idle", ~cmd'[d].overlapped,
               NEW e \in Commands \ {d}
        PROVE  cmd'[e].pc # "write"
    BY <2>3, <2>4, <2>9 DEF CommandsInv
  <2>10. ASSUME NEW d \in Commands, cmd'[d].pc = "write", ~cmd'[d].overlapped
         PROVE  ~baseline'.valid
    BY <2>1, <2>3, <2>4, <2>10 DEF CommandsInv
  <2> QED BY <2>5, <2>7, <2>8, <2>9, <2>10 DEF CommandsInv
<1> QED BY <1>4, <1>5, <1>6, <1>7 DEF CommandStep

(* No step of a command, a session, a reader or a user breaks it. *)
LEMMA CommandsStep == IInv /\ CommandsInv /\ [Next]_vars => CommandsInv'
<1> SUFFICES ASSUME IInv, CommandsInv, [Next]_vars PROVE CommandsInv' OBVIOUS
<1>1. ASSUME NEW c \in Commands, CommandStep(c) PROVE CommandsInv'
  BY <1>1, CommandKeeps
<1>2. CASE BreakBaseline
  <2>1. /\ cmd' = cmd /\ baseline' = [baseline EXCEPT !.valid = ~@]
        /\ \A c \in Commands : cmd[c].pc = "idle"
    BY <1>2 DEF BreakBaseline
  <2>2. baseline' \in Baselines BY <2>1 DEF CommandsInv, Baselines
  <2> QED BY <2>1, <2>2 DEF CommandsInv
<1>3. CASE UNCHANGED <<cmd, baseline>> BY <1>3 DEF CommandsInv, Writes
<1>4. ASSUME NEW s \in Sessions, Collect(s) \/ SessionStep(s) \/ Signal(s) \/ Kill(s)
      PROVE  UNCHANGED <<cmd, baseline>>
  BY <1>4 DEF Collect, SessionStep, TakeLock, FirstSnapshot, PublishHistory,
              PublishLatest, Prune, Round, Compose, Settle, SettleFails, Poll, Signal, Kill
<1>5. ASSUME NEW f \in Files, Edit(f) PROVE UNCHANGED <<cmd, baseline>> BY <1>5 DEF Edit
<1>6. CASE BeginTurn \/ ReaderStep \/ UNCHANGED vars
  BY <1>3, <1>6 DEF BeginTurn, ReaderStep, Ask, Probe, Probed, ReadHistory, Reply, Gap, vars
<1> QED BY <1>1, <1>2, <1>3, <1>4, <1>5, <1>6 DEF Next

(* One command's write (body of EntriesKept) *)
EntriesSafe(c) ==
  LET old == cmd[c].old  now == baseline'.entry  r == cmd[c].report IN
  cmd[c].pc = "write" /\ baseline' # baseline /\ ~cmd[c].overlapped =>
    \A f \in Held(old) :
      /\ now[f] = "out" =>
           /\ ~cmd[c].mark /\ f \notin r.found \ r.suppressed
           /\ cmd[c].merge => f \in Judged(r) /\ ~r.lines
      /\ old[f] = "reason" => now[f] \in {"reason", "out"}

(* A write that no other command overlaps is what the command read.  *)
LEMMA EntriesStep ==
  IInv /\ CommandsInv /\ [Next]_vars => \A c \in Commands : EntriesSafe(c)
<1> SUFFICES ASSUME IInv, CommandsInv, [Next]_vars, NEW c \in Commands,
                    cmd[c].pc = "write", baseline' # baseline, ~cmd[c].overlapped
             PROVE  EntriesSafe(c)
  BY DEF EntriesSafe
<1>1. /\ cmd[c] \in Command /\ baseline \in Baselines /\ ~baseline.valid /\ Writes(c)
      /\ \A d \in Commands \ {c} : cmd[d].pc # "write"
  BY DEF CommandsInv
<1>2. CASE Save(c)
  <2> DEFINE old == cmd[c].old
             r == cmd[c].report
  <2>1. baseline'.entry = cmd[c].new BY <1>2 DEF Save
  <2>2. old \in Entries /\ r \in AnyReport /\ cmd[c].merge \in BOOLEAN
    BY <1>1 DEF Command
  <2> SUFFICES ASSUME NEW f \in Held(old)
               PROVE  /\ cmd[c].new[f] = "out" =>
                           /\ ~cmd[c].mark /\ f \notin r.found \ r.suppressed
                           /\ cmd[c].merge => f \in Judged(r) /\ ~r.lines
                      /\ old[f] = "reason" => cmd[c].new[f] \in {"reason", "out"}
    BY <2>1 DEF EntriesSafe
  <2>3. CASE cmd[c].mark
    <3>1. PICK targets \in SUBSET Files, exact \in BOOLEAN :
            cmd[c].new = Marked(r, targets, exact, old)
      BY <1>1, <2>3 DEF Writes
    <3> QED BY <2>2, <3>1, MarkedKeeps
  <2>4. CASE ~cmd[c].mark
    <3>1. CanWrite(r, cmd[c].merge) BY <1>1, <2>4 DEF Writes
    <3>2. PICK mark \in {"plain", "reason"} :
            cmd[c].new = Written(r, cmd[c].merge, mark, old)
      BY <1>1, <2>4 DEF Writes
    <3> QED BY <2>2, <2>4, <3>1, <3>2, WrittenKeeps
  <2> QED BY <2>3, <2>4
<1>3. ASSUME NEW d \in Commands, CommandStep(d), ~Save(c) PROVE FALSE
  <2>1. CASE Save(d) BY <1>1, <1>3, <2>1 DEF Save
  <2>2. CASE Truncate(d)
    <3>1. baseline' = [baseline EXCEPT !.valid = FALSE] BY <2>2 DEF Truncate
    <3>2. baseline' = baseline BY <1>1, <3>1 DEF Baselines
    <3> QED BY <3>2
  <2>3. CASE WriteBaseline(d) \/ MarkBaseline(d) \/ KillCommand(d)
    BY <2>3 DEF WriteBaseline, MarkBaseline, Begins, KillCommand
  <2> QED BY <1>3, <2>1, <2>2, <2>3 DEF CommandStep
<1>4. CASE BreakBaseline BY <1>4 DEF BreakBaseline
<1>5. ASSUME NEW s \in Sessions, Collect(s) \/ SessionStep(s) \/ Signal(s) \/ Kill(s)
      PROVE  FALSE
  BY <1>5 DEF Collect, SessionStep, TakeLock, FirstSnapshot, PublishHistory,
              PublishLatest, Prune, Round, Compose, Settle, SettleFails, Poll, Signal, Kill
<1>6. ASSUME NEW f \in Files, Edit(f) PROVE FALSE BY <1>6 DEF Edit
<1>7. CASE BeginTurn \/ ReaderStep \/ UNCHANGED vars
  BY <1>7 DEF BeginTurn, ReaderStep, Ask, Probe, Probed, ReadHistory, Reply, Gap, vars
<1> QED BY <1>2, <1>3, <1>4, <1>5, <1>6, <1>7 DEF Next

(* EntriesKept: of any number of baseline commands, one that overlaps no    *)
(* other loses no entry but those its check covered and did not find, and   *)
(* no reason (baseline.rs).                                                 *)
THEOREM EntriesAreKept == Spec => EntriesKept
<1>1. Init => IInv /\ CommandsInv BY InvInit, CommandsInit
<1>2. IInv /\ CommandsInv /\ [Next]_vars => IInv' /\ CommandsInv'
  BY InvStep, CommandsStep
<1>3. IInv /\ CommandsInv /\ [Next]_vars =>
        [\A c \in Commands :
           LET old == cmd[c].old  now == baseline'.entry  r == cmd[c].report IN
           cmd[c].pc = "write" /\ baseline' # baseline /\ ~cmd[c].overlapped =>
             \A f \in Held(old) :
               /\ now[f] = "out" =>
                    /\ ~cmd[c].mark /\ f \notin r.found \ r.suppressed
                    /\ cmd[c].merge => f \in Judged(r) /\ ~r.lines
               /\ old[f] = "reason" => now[f] \in {"reason", "out"}]_vars
  BY EntriesStep DEF EntriesSafe
<1> QED BY <1>1, <1>2, <1>3, PTL DEF Spec, EntriesKept

-----------------------------------------------------------------------------
(* The lineage of the settled reports *)

(* Generation m is the last that settled before n, with no end between. *)
Precedes(m, n, hist, brk) ==
  /\ m \in DOMAIN hist /\ m < n /\ hist[m].settled
  /\ \A g \in m+1 .. n-1 : ~hist[g].settled /\ g \notin brk

(* A settled report accounts for the findings of an earlier one. *)
Accounts(old, r) ==
  \A f \in Files :
    /\ f \in old.found \ r.found => r.changes[f] \in {"resolved", "non-comparable"}
    /\ f \in r.found => (r.changes[f] = "persistent") = (f \in old.found)

(* The report a session compares with is the one its own follows, until it *)
(* settles; then it is its own.                                            *)
Follower == {"history", "latest", "prune", "round", "answered", "settle", "poll"}
Linked(me, lat, hist, brk) ==
  me.pc \in Follower =>
    /\ me.pc \notin {"history", "latest"} => hist[me.report.gen] = me.report
    /\ me.report.settled =>
         /\ \A m \in DOMAIN hist :
              Precedes(m, me.report.gen, hist, brk) => Accounts(hist[m], me.report)
         /\ Stage(me) = "poll" =>
              me.previous.gen = me.report.gen /\ me.previous.found = me.report.found
         /\ me.report.gen = lat.gen /\ me.report.found = lat.found
    /\ ~me.report.settled =>
         /\ \A m \in DOMAIN hist :
              Precedes(m, me.report.gen, hist, brk) =>
                me.previous.gen # 0 /\ me.previous.found = hist[m].found
         /\ Stage(me) = "done" => me.report.gen \in brk

LineageInv ==
  /\ 1 .. latest.gen \subseteq DOMAIN history /\ 0 \notin DOMAIN history
  /\ \A g \in DOMAIN history : history[g].settled => g <= latest.gen
  /\ latest.gen # 0 /\ history[latest.gen].settled => history[latest.gen].found = latest.found
  /\ latest.gen # 0 /\ ~latest.settled /\ (\A s \in Sessions : ses[s].pc \notin Follower) =>
       latest.gen \in broken
  /\ \A m, n \in DOMAIN history :
       history[n].settled /\ Precedes(m, n, history, broken) =>
         Accounts(history[m], history[n])
  /\ \A s \in Sessions : Linked(ses[s], latest, history, broken)

(* An end that is added only takes generations out of what precedes. *)
LEMMA PrecedesStays ==
  ASSUME NEW m, NEW n, NEW hist, NEW brk, NEW brk2, brk \subseteq brk2,
         Precedes(m, n, hist, brk2)
  PROVE  Precedes(m, n, hist, brk)
BY DEF Precedes

LEMMA LinkedStays ==
  ASSUME NEW me, NEW lat, NEW hist, NEW brk, NEW brk2, brk \subseteq brk2,
         Linked(me, lat, hist, brk)
  PROVE  Linked(me, lat, hist, brk2)
BY PrecedesStays DEF Linked

(* An unsettled report goes on from the one its session compares with. *)
LEMMA LinkedOpen ==
  ASSUME NEW me, NEW old, NEW lat, NEW hist, NEW brk, Linked(old, lat, hist, brk),
         old.pc \in Follower, ~old.report.settled, ~me.report.settled,
         me.report.gen = old.report.gen, me.previous = old.previous,
         me.pc = "history", me.next # "done"
  PROVE  Linked(me, lat, hist, brk)
BY DEF Linked, Stage, Publishing

(* A step of one session that leaves the store alone. *)
LEMMA LineageMoves ==
  ASSUME IInv, LineageInv, NEW s \in Sessions, NEW me,
         ses' = [ses EXCEPT ![s] = me], UNCHANGED <<latest, history>>,
         broken \subseteq broken', Linked(me, latest, history, broken'),
         \/ me.pc \in Follower \/ ses[s].pc \notin Follower
         \/ latest.gen # 0 /\ ~latest.settled => latest.gen \in broken'
  PROVE  LineageInv'
<1>1. \A v \in Sessions : ses'[v] = IF v = s THEN me ELSE ses[v]
  BY DEF IInv, TypeInv
<1>2. ASSUME NEW v \in Sessions PROVE Linked(ses'[v], latest', history', broken')
  <2>1. CASE v = s BY <1>1, <2>1
  <2>2. CASE v # s
    <3>1. Linked(ses[v], latest, history, broken) BY DEF LineageInv
    <3> QED BY <1>1, <2>2, <3>1, LinkedStays
  <2> QED BY <2>1, <2>2
<1>3. ASSUME latest.gen # 0, ~latest.settled, \A v \in Sessions : ses'[v].pc \notin Follower
      PROVE  latest.gen \in broken'
  <2>1. me.pc \notin Follower BY <1>1, <1>3
  <2>2. CASE ses[s].pc \notin Follower
    <3>1. \A v \in Sessions : ses[v].pc \notin Follower BY <1>1, <1>3, <2>2
    <3> QED BY <1>3, <3>1 DEF LineageInv
  <2> QED BY <1>3, <2>1, <2>2
<1>4. ASSUME NEW m \in DOMAIN history, NEW n \in DOMAIN history,
             history[n].settled, Precedes(m, n, history, broken')
      PROVE  Accounts(history[m], history[n])
  BY <1>4, PrecedesStays DEF LineageInv
<1>5. /\ 1 .. latest'.gen \subseteq DOMAIN history' /\ 0 \notin DOMAIN history'
      /\ \A g \in DOMAIN history' : history'[g].settled => g <= latest'.gen
      /\ latest'.gen # 0 /\ history'[latest'.gen].settled =>
           history'[latest'.gen].found = latest'.found
  BY DEF LineageInv
<1> QED BY <1>2, <1>3, <1>4, <1>5 DEF LineageInv

(* Nothing precedes at first. *)
LEMMA LineageInit == Init => LineageInv
<1> SUFFICES ASSUME Init PROVE LineageInv OBVIOUS
<1>1. latest.gen = 0 /\ DOMAIN history = {} /\ \A s \in Sessions : ses[s].pc = "idle"
  BY NoReportReport DEF Init, Idle
<1>2. \A s \in Sessions : Linked(ses[s], latest, history, broken)
  BY <1>1 DEF Linked, Follower
<1> QED BY <1>1, <1>2 DEF LineageInv

(* A session outside the lock or that ended follows no report. *)
LEMMA LineageOutside ==
  ASSUME IInv, LineageInv, NEW s \in Sessions, Collect(s) \/ TakeLock(s)
  PROVE  LineageInv'
<1>1. UNCHANGED <<latest, history, broken>> /\ ses[s].pc \notin Follower
  BY DEF Collect, TakeLock, store, Follower
<1>2. \E me : ses' = [ses EXCEPT ![s] = me] /\ me.pc \in {"lock", "first", "done"}
  <2>1. ASSUME NEW report
        PROVE  [Idle EXCEPT !.pc = "lock", !.report = report].pc = "lock"
    BY DEF Idle
  <2>2. [ses[s] EXCEPT !.pc = "first"].pc = "first" BY DEF IInv, TypeInv, Session
  <2>3. ASSUME NEW gen, NEW code PROVE Done(s, gen, code).pc = "done" BY DEF Done, Idle
  <2>4. CASE Collect(s) BY <2>1, <2>4 DEF Collect, Becomes
  <2>5. CASE TakeLock(s)
    <3>1. CASE Becomes(s, [ses[s] EXCEPT !.pc = "first"]) BY <2>2, <3>1 DEF Becomes
    <3>2. CASE Becomes(s, Done(s, 0, Lets(ses[s].report, "incomplete", FALSE)))
      <4> DEFINE code == Lets(ses[s].report, "incomplete", FALSE)
      <4> HIDE DEF code
      <4>1. Becomes(s, Done(s, 0, code)) BY <3>2 DEF code
      <4> QED BY <2>3, <4>1 DEF Becomes
    <3> QED BY <2>5, <3>1, <3>2 DEF TakeLock
  <2> QED BY <2>4, <2>5
<1>3. PICK me : ses' = [ses EXCEPT ![s] = me] /\ me.pc \in {"lock", "first", "done"} BY <1>2
<1>4. me.pc \notin Follower BY <1>3 DEF Follower
<1>5. Linked(me, latest, history, broken') BY <1>4 DEF Linked
<1> QED BY <1>1, <1>3, <1>5, LineageMoves

(* A new session compares with latest: it settled, or its end is known. *)
LEMMA LineageFirst ==
  ASSUME IInv, LineageInv, NEW s \in Sessions, FirstSnapshot(s) PROVE LineageInv'
<1>1. UNCHANGED <<latest, history, broken>> /\ ses[s].pc = "first"
  BY DEF FirstSnapshot, store
<1>2. ses[s] \in Session /\ latest \in AnyReport /\ latest.gen \in Nat
  BY DEF IInv, TypeInv, AnyReport
<1> DEFINE me == [ses[s] EXCEPT !.pc = "history", !.next = "round",
                                !.report.gen = latest.gen + 1, !.previous = latest]
<1>3. ses' = [ses EXCEPT ![s] = me] BY DEF FirstSnapshot, Becomes
<1>4. ~ses[s].report.settled
  BY <1>1 DEF IInv, SessionsInv, Progress, Stage, Publishing
<1>5. /\ me.pc = "history" /\ me.next = "round" /\ me.previous = latest
      /\ me.report.gen = latest.gen + 1 /\ ~me.report.settled
  BY <1>2, <1>4 DEF Session, AnyReport
<1> HIDE DEF me
<1>6. latest.gen # 0 /\ ~latest.settled => latest.gen \in broken
  <2>1. \A v \in Sessions : ses[v].pc \notin Follower
    BY <1>1 DEF IInv, LockInv, Inside, Follower
  <2> QED BY <2>1 DEF LineageInv
<1>7. ASSUME NEW m \in DOMAIN history, Precedes(m, latest.gen + 1, history, broken)
      PROVE  latest.gen # 0 /\ latest.found = history[m].found
  <2>1. m \in Nat /\ m # 0 /\ m <= latest.gen /\ history[m].settled
        /\ \A g \in m+1 .. latest.gen : ~history[g].settled /\ g \notin broken
    BY <1>2, <1>7 DEF IInv, HistoryInv, LineageInv, Precedes
  <2>2. latest.gen # 0 BY <1>2, <2>1
  <2>3. CASE m = latest.gen BY <2>1, <2>2, <2>3 DEF LineageInv
  <2>4. CASE m # latest.gen
    <3>1. latest.gen \in m+1 .. latest.gen BY <1>2, <2>1, <2>4
    <3>2. ~history[latest.gen].settled /\ latest.gen \notin broken BY <2>1, <3>1
    <3> QED BY <1>6, <2>2, <3>2 DEF IInv, HistoryInv
  <2> QED BY <2>2, <2>3, <2>4
<1>8. Linked(me, latest, history, broken')
  BY <1>1, <1>5, <1>7 DEF Linked, Stage, Publishing
<1>9. me.pc \in Follower BY <1>5 DEF Follower
<1> QED BY <1>1, <1>3, <1>8, <1>9, LineageMoves

(* An end is remembered unless the report settled. *)
LEMMA LinkedStopped ==
  ASSUME IInv, LineageInv, NEW s \in Sessions,
         ses[s].pc \in {"round", "answered", "settle", "poll"},
         broken' = broken \cup Unsettled(s)
  PROVE  Linked(Stopped(s), latest, history, broken') /\ Stopped(s).pc = "history"
<1> DEFINE r == [ses[s].report EXCEPT !.errors = TRUE, !.watcher = FALSE]
           me == Stopped(s)
<1>1. ses[s] \in Session BY DEF IInv, TypeInv
<1>2. /\ r.gen = ses[s].report.gen /\ r.settled = ses[s].report.settled
      /\ r.changes = ses[s].report.changes /\ r.found = ses[s].report.found
  BY <1>1 DEF Session, AnyReport
<1>3. me.pc = "history" /\ me.next = "done" /\ me.report = r /\ me.previous = ses[s].previous
  BY <1>1 DEF Stopped, Session, AnyReport
<1> HIDE DEF r, me
<1>4. ses[s].report = latest BY DEF IInv, SessionsInv, Stored
<1>5. Linked(ses[s], latest, history, broken') /\ ses[s].pc \in Follower
  BY LinkedStays DEF LineageInv, Follower
<1>6. ~r.settled => r.gen \in broken' BY <1>2 DEF Unsettled
<1>7. ASSUME r.settled, NEW m \in DOMAIN history, Precedes(m, r.gen, history, broken')
      PROVE  Accounts(history[m], r)
  <2>1. Accounts(history[m], ses[s].report) BY <1>2, <1>5, <1>7 DEF Linked
  <2> QED BY <1>2, <2>1 DEF Accounts
<1>8. ASSUME ~r.settled, NEW m \in DOMAIN history, Precedes(m, r.gen, history, broken')
      PROVE  me.previous.gen # 0 /\ me.previous.found = history[m].found
  BY <1>2, <1>3, <1>5, <1>8 DEF Linked
<1>9. Stage(me) = "done" BY <1>3 DEF Stage, Publishing
<1>10. r.gen = latest.gen /\ r.found = latest.found BY <1>2, <1>4
<1>11. Linked(me, latest, history, broken')
  BY <1>3, <1>6, <1>7, <1>8, <1>9, <1>10 DEF Linked
<1> QED BY <1>3, <1>11 DEF me

(* Rounds and their composition only fill the report. *)
LEMMA LineageRound ==
  ASSUME IInv, LineageInv, NEW s \in Sessions, Round(s) PROVE LineageInv'
<1>1. UNCHANGED <<latest, history>> /\ ses[s].pc \in {"round", "answered"}
      /\ ses[s].pc \in Follower
  BY DEF Round, store, Follower
<1>2. ses[s] \in Session BY DEF IInv, TypeInv
<1>3. CASE Stop(s)
  <2>1. Linked(Stopped(s), latest, history, broken') /\ Stopped(s).pc = "history"
    BY <1>1, <1>3, LinkedStopped DEF Stop
  <2> QED BY <1>1, <1>3, <2>1, LineageMoves DEF Stop, Becomes, Follower
<1>4. CASE ~ses[s].signal
  <2>1. PICK status :
          Becomes(s, [ses[s] EXCEPT !.pc = "history", !.next = "answered",
                        !.rounds = @ + 1, !.report.status = status])
        /\ broken' = broken
    BY <1>4 DEF Round
  <2> DEFINE me == [ses[s] EXCEPT !.pc = "history", !.next = "answered",
                                  !.rounds = @ + 1, !.report.status = status]
  <2>2. /\ me.pc = "history" /\ me.next = "answered" /\ me.previous = ses[s].previous
        /\ me.report.gen = ses[s].report.gen /\ me.report.settled = ses[s].report.settled
    BY <1>2 DEF Session, AnyReport
  <2>3. ~ses[s].report.settled
    BY <1>1 DEF IInv, SessionsInv, Progress, Stage, Publishing
  <2>4. ses' = [ses EXCEPT ![s] = me] BY <2>1 DEF Becomes
  <2> HIDE DEF me
  <2>5. Linked(me, latest, history, broken')
    BY <1>1, <2>1, <2>2, <2>3, LinkedOpen DEF LineageInv
  <2>6. me.pc \in Follower BY <2>2 DEF Follower
  <2> QED BY <1>1, <2>1, <2>4, <2>5, <2>6, LineageMoves
<1> QED BY <1>3, <1>4 DEF Round

LEMMA LineageCompose ==
  ASSUME IInv, LineageInv, NEW s \in Sessions, Compose(s) PROVE LineageInv'
<1> DEFINE added == IF ses[s].report.kind = "hook" THEN AddedAllows(disk, turn) ELSE {}
           r == VerifiedCurrent(Composed([ses[s].report EXCEPT !.added = added]), disk)
           me == [ses[s] EXCEPT !.pc = "history", !.next = "settle", !.edited = {},
                                !.report = r]
<1>1. /\ UNCHANGED <<latest, history, broken>> /\ ses[s].pc = "answered"
      /\ ses' = [ses EXCEPT ![s] = me]
  BY DEF Compose, Becomes, store
<1>2. ses[s] \in Session /\ disk \in [Files -> Texts] BY DEF IInv, TypeInv
<1>3. Unjudged(ses[s].report) /\ ~ses[s].report.settled
  BY <1>1 DEF IInv, SessionsInv, Progress, Stage, Publishing
<1>4. added \in SUBSET Files BY DEF AddedAllows
<1> HIDE DEF added
<1>5. r.gen = ses[s].report.gen /\ r.settled = ses[s].report.settled
  <2>1. ses[s].report \in AnyReport BY <1>2 DEF Session
  <2> QED BY <1>2, <1>3, <1>4, <2>1, ComposedReport
<1> HIDE DEF r
<1>6. me.pc = "history" /\ me.next = "settle" /\ me.report = r /\ me.previous = ses[s].previous
  BY <1>2 DEF Session
<1> HIDE DEF me
<1>7. ses[s].pc \in Follower BY <1>1 DEF Follower
<1>8. Linked(me, latest, history, broken')
  BY <1>1, <1>3, <1>5, <1>6, <1>7, LinkedOpen DEF LineageInv
<1>9. me.pc \in Follower BY <1>6 DEF Follower
<1> QED BY <1>1, <1>8, <1>9, LineageMoves

(* What settling compares with is what the generation follows. *)
LEMMA ComparedAccounts ==
  ASSUME NEW p, NEW r, NEW q, NEW old, q.changes = Compared(p, r), q.found = r.found,
         p.gen # 0, p.found = old.found
  PROVE  Accounts(old, q)
<1> SUFFICES ASSUME NEW f \in Files
             PROVE  /\ f \in old.found \ q.found =>
                         q.changes[f] \in {"resolved", "non-comparable"}
                    /\ f \in q.found =>
                         (q.changes[f] = "persistent") = (f \in old.found)
  BY DEF Accounts
<1>1. CASE f \in r.found
  <2>1. q.changes[f] = IF f \in p.found THEN "persistent" ELSE "introduced"
    BY <1>1 DEF Compared
  <2> QED BY <1>1, <2>1
<1>2. CASE f \in p.found \ r.found
  <2>1. q.changes[f] = IF f \in Judged(r) /\ ~r.lines THEN "resolved"
                       ELSE "non-comparable"
    BY <1>2 DEF Compared
  <2> QED BY <1>2, <2>1
<1> QED BY <1>1, <1>2

LEMMA LineageSettle ==
  ASSUME IInv, LineageInv, NEW s \in Sessions, Settle(s) PROVE LineageInv'
<1> DEFINE r == SettledReport(s)
           me == ses'[s]
<1>1. UNCHANGED <<latest, history, broken>> /\ ses[s].pc = "settle" /\ ses[s].pc \in Follower
  BY DEF Settle, store, Follower
<1>2. /\ ses' = [ses EXCEPT ![s] = me]
      /\ r.settled /\ r.gen = latest.gen /\ ~latest.settled /\ ses[s].report = latest
      /\ me.pc = "history" /\ me.report = r
      /\ r.found = latest.found /\ r.changes = Compared(ses[s].previous, latest)
      /\ me.next = "poll" => me.previous = r
  BY SettleIs
<1> HIDE DEF r, me
<1>3. Linked(ses[s], latest, history, broken) BY DEF LineageInv
<1>4. ASSUME NEW m \in DOMAIN history, Precedes(m, r.gen, history, broken)
      PROVE  Accounts(history[m], r)
  <2>1. ses[s].previous.gen # 0 /\ ses[s].previous.found = history[m].found
    BY <1>1, <1>2, <1>3, <1>4 DEF Linked
  <2> QED BY <1>2, <2>1, ComparedAccounts
<1>5. Linked(me, latest, history, broken')
  BY <1>1, <1>2, <1>4 DEF Linked, Stage, Publishing
<1>6. me.pc \in Follower BY <1>2 DEF Follower
<1> QED BY <1>1, <1>2, <1>5, <1>6, LineageMoves

LEMMA LineageSettleFails ==
  ASSUME IInv, LineageInv, NEW s \in Sessions, SettleFails(s) PROVE LineageInv'
<1>1. /\ UNCHANGED <<latest, history>> /\ ses[s].pc = "settle"
      /\ broken' = broken \cup Unsettled(s)
  BY DEF SettleFails, store
<1>2. ses[s].report = latest /\ ~latest.settled
  BY <1>1 DEF IInv, SessionsInv, Progress, Stored, Stage, Publishing
<1>3. CASE Becomes(s, Stopped(s))
  <2>1. Linked(Stopped(s), latest, history, broken') /\ Stopped(s).pc \in Follower
    BY <1>1, LinkedStopped DEF Follower
  <2> QED BY <1>1, <1>3, <2>1, LineageMoves DEF Becomes
<1>4. ASSUME NEW gen, NEW code, Becomes(s, Done(s, gen, code)) PROVE LineageInv'
  <2> DEFINE me == Done(s, gen, code)
  <2>1. me.pc \notin Follower BY DEF Done, Idle, Follower
  <2>2. Linked(me, latest, history, broken') BY <2>1 DEF Linked
  <2>3. latest.gen \in broken' BY <1>1, <1>2 DEF Unsettled
  <2> HIDE DEF me
  <2>4. ses' = [ses EXCEPT ![s] = me] BY <1>4 DEF Becomes, me
  <2> QED BY <1>1, <2>2, <2>3, <2>4, LineageMoves
<1> QED BY <1>3, <1>4 DEF SettleFails

(* A watcher's next generation follows the report it settled last. *)
LEMMA LineagePoll ==
  ASSUME IInv, LineageInv, NEW s \in Sessions, Poll(s) PROVE LineageInv'
<1>1. UNCHANGED <<latest, history>> /\ ses[s].pc = "poll" /\ ses[s].pc \in Follower
      /\ Stage(ses[s]) = "poll"
  BY DEF Poll, store, Follower, Stage, Publishing
<1>2. ses[s] \in Session /\ disk \in [Files -> Texts] /\ latest.gen \in Nat
  BY DEF IInv, TypeInv, AnyReport
<1>3. ses[s].report = latest /\ latest.gen # 0
  BY <1>1 DEF IInv, SessionsInv, Stored
<1>4. Linked(ses[s], latest, history, broken) BY DEF LineageInv
<1>5. CASE Stop(s)
  <2>1. Linked(Stopped(s), latest, history, broken') /\ Stopped(s).pc \in Follower
    BY <1>1, <1>5, LinkedStopped DEF Stop, Follower
  <2> QED BY <1>1, <1>5, <2>1, LineageMoves DEF Stop, Becomes
<1>6. CASE /\ Becomes(s, [ses[s] EXCEPT !.pc = "history", !.next = "poll", !.changed = TRUE,
             !.report = Snapshot([kind |-> "watch", lines |-> ses[s].report.lines,
                                  scope |-> Scope(ses[s].report)], disk,
                                 ses[s].report.gen + 1)])
           /\ broken' = broken
  <2> DEFINE r == Snapshot([kind |-> "watch", lines |-> ses[s].report.lines,
                            scope |-> Scope(ses[s].report)], disk, ses[s].report.gen + 1)
             me == [ses[s] EXCEPT !.pc = "history", !.next = "poll", !.changed = TRUE,
                                  !.report = r]
  <2>1. ses' = [ses EXCEPT ![s] = me] BY <1>6 DEF Becomes
  <2>2. r.gen = latest.gen + 1 /\ ~r.settled BY <1>3 DEF Snapshot
  <2> HIDE DEF r
  <2>3. me.pc = "history" /\ me.next = "poll" /\ me.report = r /\ me.previous = ses[s].previous
    BY <1>2 DEF Session
  <2> HIDE DEF me
  <2>4. ASSUME NEW m \in DOMAIN history, Precedes(m, r.gen, history, broken)
        PROVE  me.previous.gen # 0 /\ me.previous.found = history[m].found
    <3>1. history[latest.gen] = latest BY <1>1, <1>3, <1>4 DEF Linked
    <3>2. m \in Nat /\ m <= latest.gen /\ history[m].settled
          /\ \A g \in m+1 .. latest.gen : ~history[g].settled /\ g \notin broken
      BY <1>2, <2>2, <2>4 DEF IInv, HistoryInv, Precedes
    <3>3. CASE m = latest.gen
      BY <1>1, <1>3, <1>4, <2>3, <3>1, <3>2, <3>3 DEF Linked
    <3>4. CASE m # latest.gen
      <4>1. latest.gen \in m+1 .. latest.gen BY <1>2, <3>2, <3>4
      <4>2. ~latest.settled BY <3>1, <3>2, <4>1
      <4>3. Precedes(m, latest.gen, history, broken)
        BY <1>2, <3>2, <3>4 DEF Precedes
      <4> QED BY <1>1, <1>3, <1>4, <2>3, <4>2, <4>3 DEF Linked
    <3> QED BY <3>3, <3>4
  <2>5. Linked(me, latest, history, broken')
    BY <1>6, <2>2, <2>3, <2>4 DEF Linked, Stage, Publishing
  <2>6. me.pc \in Follower BY <2>3 DEF Follower
  <2> QED BY <1>1, <1>6, <2>1, <2>5, <2>6, LineageMoves
<1>7. CASE /\ ses[s].changed /\ broken' = broken
           /\ Becomes(s, [ses[s] EXCEPT !.pc = "history", !.next = "round", !.rounds = 0])
  <2> DEFINE me == [ses[s] EXCEPT !.pc = "history", !.next = "round", !.rounds = 0]
  <2>1. ses' = [ses EXCEPT ![s] = me] BY <1>7 DEF Becomes
  <2>2. /\ me.pc = "history" /\ me.next = "round" /\ me.report = ses[s].report
        /\ me.previous = ses[s].previous
    BY <1>2 DEF Session
  <2> HIDE DEF me
  <2>3. ~ses[s].report.settled
    BY <1>1, <1>7 DEF IInv, SessionsInv, Progress
  <2>4. Linked(me, latest, history, broken')
    BY <1>1, <1>4, <1>7, <2>2, <2>3, LinkedOpen
  <2>5. me.pc \in Follower BY <2>2 DEF Follower
  <2> QED BY <1>1, <1>7, <2>1, <2>4, <2>5, LineageMoves
<1> QED BY <1>5, <1>6, <1>7 DEF Poll

(* A signal, an edit: neither is part of what a report follows. *)
LEMMA LinkedSame ==
  ASSUME NEW me, NEW old, NEW lat, NEW hist, NEW brk, Linked(old, lat, hist, brk),
         me.pc = old.pc, me.next = old.next, me.report = old.report,
         me.previous = old.previous
  PROVE  Linked(me, lat, hist, brk)
BY DEF Linked, Stage

LEMMA LineageSignal ==
  ASSUME IInv, LineageInv, NEW s \in Sessions, Signal(s) PROVE LineageInv'
<1> DEFINE me == [ses[s] EXCEPT !.signal = TRUE]
<1>1. UNCHANGED <<latest, history, broken>> /\ ses' = [ses EXCEPT ![s] = me]
  BY DEF Signal, Becomes, store
<1>2. /\ me.pc = ses[s].pc /\ me.next = ses[s].next /\ me.report = ses[s].report
      /\ me.previous = ses[s].previous
  BY DEF IInv, TypeInv, Session
<1> HIDE DEF me
<1>3. Linked(me, latest, history, broken') BY <1>1, <1>2, LinkedSame DEF LineageInv
<1> QED BY <1>1, <1>2, <1>3, LineageMoves

(* A kill that leaves latest unsettled is remembered. *)
LEMMA LineageKill ==
  ASSUME IInv, LineageInv, NEW s \in Sessions, Kill(s) PROVE LineageInv'
<1>1. /\ UNCHANGED <<latest, history>> /\ ses' = [ses EXCEPT ![s] = Idle]
      /\ broken' = IF lock = s /\ latest.gen # 0 /\ ~latest.settled
                   THEN broken \cup {latest.gen} ELSE broken
  BY DEF Kill, Becomes, store
<1>2. Idle.pc \notin Follower BY DEF Idle, Follower
<1>3. Linked(Idle, latest, history, broken') BY <1>2 DEF Linked
<1>4. CASE lock = s
  BY <1>1, <1>3, <1>4, LineageMoves
<1>5. CASE lock # s
  <2>1. ses[s].pc \notin Follower BY <1>5 DEF IInv, LockInv, Inside, Follower
  <2> QED BY <1>1, <1>3, <2>1, LineageMoves
<1> QED BY <1>4, <1>5

(* An edit shows in no report that was made. *)
LEMMA LineageEdit ==
  ASSUME IInv, LineageInv, NEW f \in Files, Edit(f) PROVE LineageInv'
<1>1. /\ UNCHANGED <<latest, history, broken>>
      /\ ses' = [s \in Sessions |-> [ses[s] EXCEPT !.edited = @ \cup {f}]]
  BY DEF Edit, store
<1>2. ASSUME NEW s \in Sessions
      PROVE  /\ ses'[s].pc = ses[s].pc /\ ses'[s].next = ses[s].next
             /\ ses'[s].report = ses[s].report /\ ses'[s].previous = ses[s].previous
  BY <1>1 DEF IInv, TypeInv, Session
<1>3. ASSUME NEW s \in Sessions PROVE Linked(ses'[s], latest', history', broken')
  <2>1. Linked(ses[s], latest, history, broken) BY DEF LineageInv
  <2> QED BY <1>1, <1>2, <2>1, LinkedSame
<1>4. (\A s \in Sessions : ses'[s].pc \notin Follower) =>
        \A s \in Sessions : ses[s].pc \notin Follower
  BY <1>2
<1> QED BY <1>1, <1>3, <1>4 DEF LineageInv

(* What others do changes no report. *)
LEMMA LineageOthers ==
  ASSUME LineageInv, UNCHANGED <<latest, history, broken, ses>> PROVE LineageInv'
BY DEF LineageInv

(* What follows a publication goes on from the same report. *)
LEMMA LinkedAfter ==
  ASSUME IInv, LineageInv, NEW s \in Sessions, ses[s].pc \in {"latest", "prune"},
         history[ses[s].report.gen] = ses[s].report, NEW lat, lat = ses[s].report
  PROVE  /\ Linked(After(s), lat, history, broken)
         /\ After(s).pc \in Follower \/ (~lat.settled => lat.gen \in broken)
<1> DEFINE r == ses[s].report
           p == [ses[s] EXCEPT !.pc = "prune"]
           n == [ses[s] EXCEPT !.pc = ses[s].next]
           d == Done(s, r.gen, ses[s].code)
<1>1. ses[s] \in Session BY DEF IInv, TypeInv
<1>2. Linked(ses[s], latest, history, broken) /\ ses[s].pc \in Follower
  BY DEF LineageInv, Follower
<1>3. ses[s].next \in {"round", "answered", "settle", "poll", "done"}
      /\ Stage(ses[s]) = ses[s].next
  BY DEF IInv, SessionsInv, Progress, Publishing, Stage
<1>4. CASE After(s) = p
  <2>1. /\ p.pc = "prune" /\ p.next = ses[s].next /\ p.report = r
        /\ p.previous = ses[s].previous
    BY <1>1 DEF Session
  <2> HIDE DEF p
  <2>2. Stage(p) = Stage(ses[s]) BY <1>3, <2>1 DEF Stage, Publishing
  <2>3. Linked(p, lat, history, broken) /\ p.pc \in Follower
    BY <1>2, <2>1, <2>2 DEF Linked, Follower
  <2> QED BY <1>4, <2>3
<1>5. CASE After(s) = d /\ ses[s].next = "done"
  <2>1. d.pc = "done" BY DEF Done, Idle
  <2>2. Linked(d, lat, history, broken) BY <2>1 DEF Linked, Follower
  <2>3. ~lat.settled => lat.gen \in broken BY <1>2, <1>3, <1>5 DEF Linked
  <2> QED BY <1>5, <2>2, <2>3
<1>6. CASE After(s) = n /\ ses[s].next # "done"
  <2>1. n.pc = ses[s].next /\ n.report = r /\ n.previous = ses[s].previous
    BY <1>1 DEF Session
  <2> HIDE DEF n
  <2>2. Stage(n) = Stage(ses[s]) BY <1>3, <2>1 DEF Stage, Publishing
  <2>3. n.pc \in Follower BY <1>3, <1>6, <2>1 DEF Follower
  <2>4. Linked(n, lat, history, broken) BY <1>2, <2>1, <2>2 DEF Linked
  <2> QED BY <1>6, <2>3, <2>4
<1> QED BY <1>4, <1>5, <1>6 DEF After

LEMMA LineagePrune ==
  ASSUME IInv, LineageInv, NEW s \in Sessions, Prune(s) PROVE LineageInv'
<1>1. /\ UNCHANGED <<latest, history, broken>> /\ ses[s].pc = "prune"
      /\ ses' = [ses EXCEPT ![s] = After(s)]
  BY DEF Prune, Becomes
<1>2. ses[s].report = latest BY <1>1 DEF IInv, SessionsInv, Stored
<1>3. history[ses[s].report.gen] = ses[s].report
  BY <1>1 DEF LineageInv, Linked, Follower
<1>4. /\ Linked(After(s), latest, history, broken)
      /\ After(s).pc \in Follower \/ (~latest.settled => latest.gen \in broken)
  BY <1>1, <1>2, <1>3, LinkedAfter
<1> HIDE DEF After
<1> QED BY <1>1, <1>4, LineageMoves

(* Publishing: the history file, which is the last settled one's follower, *)
(* then latest.                                                            *)
LEMMA LineageHistory ==
  ASSUME IInv, LineageInv, NEW s \in Sessions, PublishHistory(s) PROVE LineageInv'
<1> DEFINE r == ses[s].report
           me == [ses[s] EXCEPT !.pc = "latest"]
<1>1. /\ UNCHANGED <<latest, lock, broken>> /\ ses[s].pc = "history"
      /\ history' = [g \in DOMAIN history \cup {r.gen} |->
                       IF g = r.gen THEN r ELSE history[g]]
      /\ ses' = [ses EXCEPT ![s] = me]
  BY DEF PublishHistory, Becomes
<1>2. ses[s] \in Session /\ latest \in AnyReport /\ ses \in [Sessions -> Session]
  BY DEF IInv, TypeInv
<1>3. /\ me.pc = "latest" /\ me.next = ses[s].next /\ me.report = r
      /\ me.previous = ses[s].previous
  BY <1>2 DEF Session
<1> HIDE DEF me
<1>4. /\ r.gen \in Nat /\ latest.gen \in Nat /\ r.gen # 0
      /\ latest.gen <= r.gen /\ r.gen <= latest.gen + 1
  <2>1. r \in AnyReport BY <1>2 DEF Session
  <2>2. r.gen \in Nat /\ latest.gen \in Nat BY <1>2, <2>1 DEF AnyReport
  <2>3. Stored(ses[s], latest, history, kept) BY DEF IInv, SessionsInv
  <2>4. Follows(r, latest) BY <1>1, <2>3 DEF Stored
  <2> HIDE DEF r
  <2>5. r.gen = latest.gen + 1 \/ (r.gen = latest.gen /\ r.gen # 0)
    BY <2>4 DEF Follows
  <2> QED BY <2>2, <2>5
<1>5. Linked(ses[s], latest, history, broken) /\ ses[s].pc \in Follower
  BY <1>1 DEF LineageInv, Follower
<1>6. ASSUME NEW m
      PROVE  (m \in DOMAIN history' /\ Precedes(m, r.gen, history', broken))
               => m \in DOMAIN history /\ Precedes(m, r.gen, history, broken)
                  /\ history'[m] = history[m]
  <2> SUFFICES ASSUME m \in DOMAIN history', Precedes(m, r.gen, history', broken)
               PROVE  m \in DOMAIN history /\ Precedes(m, r.gen, history, broken)
                      /\ history'[m] = history[m]
    OBVIOUS
  <2>1. m \in DOMAIN history /\ history'[m] = history[m] /\ m < r.gen /\ m \in Nat /\ m # 0
    BY <1>1, <1>4 DEF Precedes, IInv, HistoryInv, LineageInv
  <2>2. ASSUME NEW g \in m+1 .. r.gen-1 PROVE ~history[g].settled /\ g \notin broken
    <3>1. g \in 1 .. latest.gen \/ g > latest.gen BY <1>4, <2>1
    <3>2. CASE g \in DOMAIN history
      <4>1. history'[g] = history[g] BY <1>1, <1>4, <2>1, <3>2
      <4> QED BY <4>1 DEF Precedes
    <3>3. CASE g \notin DOMAIN history
      <4>1. g \in 1 .. latest.gen
        <5> HIDE DEF r
        <5> QED BY <1>4, <2>1
      <4> QED BY <3>3, <4>1 DEF LineageInv
    <3> QED BY <3>2, <3>3
  <2> QED BY <2>1, <2>2 DEF Precedes
<1>7. Linked(me, latest, history', broken)
  <2>1. Stage(me) = Stage(ses[s]) BY <1>1, <1>3 DEF Stage, Publishing
  <2>2. /\ \A m \in DOMAIN history' : Precedes(m, r.gen, history', broken) =>
             /\ m \in DOMAIN history /\ Precedes(m, r.gen, history, broken)
             /\ history'[m] = history[m]
        /\ me.pc \in {"history", "latest"} /\ me.report = ses[s].report
    BY <1>3, <1>6
  <2> HIDE DEF r
  <2> QED BY <1>3, <1>5, <2>1, <2>2 DEF Linked, r
<1>8. ASSUME NEW v \in Sessions PROVE Linked(ses'[v], latest', history', broken')
  <2>1. CASE v = s BY <1>1, <1>2, <1>7, <2>1
  <2>2. CASE v # s
    <3>1. ses'[v] = ses[v] /\ ses[v].pc \notin Follower
      BY <1>1, <1>2, <2>2 DEF IInv, LockInv, Inside, Follower
    <3> QED BY <3>1 DEF Linked
  <2> QED BY <2>1, <2>2
<1>9. r.settled => r.gen = latest.gen /\ r.found = latest.found BY <1>5 DEF Linked
<1>10. ASSUME NEW g \in DOMAIN history', history'[g].settled PROVE g <= latest.gen
  BY <1>1, <1>4, <1>9, <1>10 DEF LineageInv
<1>11. ASSUME latest.gen # 0, history'[latest.gen].settled
       PROVE  history'[latest.gen].found = latest.found
  <2>1. latest.gen \in DOMAIN history BY <1>4, <1>11 DEF LineageInv
  <2> QED BY <1>1, <1>9, <1>11, <2>1 DEF LineageInv
<1>12. ASSUME NEW m \in DOMAIN history', NEW n \in DOMAIN history',
              history'[n].settled, Precedes(m, n, history', broken)
       PROVE  Accounts(history'[m], history'[n])
  <2>1. n \in Nat /\ n <= latest.gen /\ m < n /\ m \in Nat
    BY <1>1, <1>4, <1>10, <1>12 DEF Precedes, IInv, HistoryInv
  <2>2. CASE n = r.gen
    BY <1>1, <1>5, <1>6, <1>12, <2>2 DEF Linked
  <2>3. CASE n # r.gen
    <3>1. n < r.gen /\ m # r.gen BY <1>4, <2>1, <2>3
    <3>2. history'[m] = history[m] /\ history'[n] = history[n]
          /\ m \in DOMAIN history /\ n \in DOMAIN history
      BY <1>1, <2>3, <3>1
    <3>3. ASSUME NEW g \in m+1 .. n-1 PROVE ~history[g].settled /\ g \notin broken
      <4>1. g \in 1 .. latest.gen /\ g # r.gen BY <1>4, <2>1, <3>1
      <4>2. g \in DOMAIN history BY <4>1 DEF LineageInv
      <4>3. history'[g] = history[g] BY <1>1, <4>1, <4>2
      <4> QED BY <1>12, <4>3 DEF Precedes
    <3>4. Precedes(m, n, history, broken) BY <1>12, <3>2, <3>3 DEF Precedes
    <3> QED BY <1>12, <3>2, <3>4 DEF LineageInv
  <2> QED BY <2>2, <2>3
<1>13. me.pc \in Follower BY <1>3 DEF Follower
<1>14. ASSUME \A v \in Sessions : ses'[v].pc \notin Follower PROVE FALSE
  <2>1. ses'[s] = me BY <1>1, <1>2
  <2>2. ses'[s].pc \notin Follower BY <1>14
  <2> QED BY <1>13, <2>1, <2>2
<1>15. 1 .. latest'.gen \subseteq DOMAIN history' /\ 0 \notin DOMAIN history'
  BY <1>1, <1>4 DEF LineageInv
<1>16. latest'.gen # 0 /\ ~latest'.settled /\ (\A v \in Sessions : ses'[v].pc \notin Follower)
         => latest'.gen \in broken'
  BY <1>14
<1>17. \A m, n \in DOMAIN history' :
         history'[n].settled /\ Precedes(m, n, history', broken') =>
           Accounts(history'[m], history'[n])
  BY <1>1, <1>12
<1>18. /\ \A g \in DOMAIN history' : history'[g].settled => g <= latest'.gen
       /\ latest'.gen # 0 /\ history'[latest'.gen].settled =>
            history'[latest'.gen].found = latest'.found
  BY <1>1, <1>10, <1>11
<1> HIDE DEF r
<1> QED BY <1>8, <1>15, <1>16, <1>17, <1>18 DEF LineageInv

LEMMA LineageLatest ==
  ASSUME IInv, LineageInv, NEW s \in Sessions, PublishLatest(s) PROVE LineageInv'
<1> DEFINE r == ses[s].report
<1>1. /\ UNCHANGED <<history, broken>> /\ ses[s].pc = "latest" /\ latest' = r
      /\ ses' = [ses EXCEPT ![s] = After(s)]
  BY DEF PublishLatest, Becomes
<1>2. ses[s] \in Session /\ latest \in AnyReport /\ ses \in [Sessions -> Session]
  BY DEF IInv, TypeInv
<1>3. Follows(r, latest) /\ r.gen \in DOMAIN history /\ history[r.gen] = r
  BY <1>1 DEF IInv, SessionsInv, Stored, HistoryInv
<1>4. r.gen \in Nat /\ latest.gen \in Nat /\ latest.gen <= r.gen /\ r.gen <= latest.gen + 1
  BY <1>2, <1>3 DEF Session, AnyReport, Follows
<1>5. /\ Linked(After(s), r, history, broken)
      /\ After(s).pc \in Follower \/ (~r.settled => r.gen \in broken)
  BY <1>1, <1>3, LinkedAfter
<1> HIDE DEF After
<1>6. ASSUME NEW v \in Sessions PROVE Linked(ses'[v], latest', history', broken')
  <2>1. CASE v = s BY <1>1, <1>2, <1>5, <2>1
  <2>2. CASE v # s
    <3>1. ses'[v] = ses[v] /\ ses[v].pc \notin Follower
      BY <1>1, <1>2, <2>2 DEF IInv, LockInv, Inside, Follower
    <3> QED BY <3>1 DEF Linked
  <2> QED BY <2>1, <2>2
<1>7. 1 .. r.gen \subseteq DOMAIN history /\ 0 \notin DOMAIN history
  BY <1>3, <1>4 DEF LineageInv
<1>8. ASSUME NEW g \in DOMAIN history, history[g].settled PROVE g <= r.gen
  <2>1. g <= latest.gen /\ g \in Nat BY <1>8 DEF LineageInv, IInv, HistoryInv
  <2> QED BY <1>4, <2>1
<1>9. ASSUME r.gen # 0, ~r.settled, \A v \in Sessions : ses'[v].pc \notin Follower
      PROVE  r.gen \in broken
  <2>1. ses'[s] = After(s) BY <1>1, <1>2
  <2> QED BY <1>5, <1>9, <2>1
<1>10. \A m, n \in DOMAIN history :
         history[n].settled /\ Precedes(m, n, history, broken) =>
           Accounts(history[m], history[n])
  BY DEF LineageInv
<1> HIDE DEF r
<1> QED BY <1>1, <1>3, <1>6, <1>7, <1>8, <1>9, <1>10 DEF LineageInv

(* Every step keeps the lineage. *)
LEMMA LineageStep == IInv /\ LineageInv /\ [Next]_vars => LineageInv'
<1> SUFFICES ASSUME IInv, LineageInv, [Next]_vars PROVE LineageInv' OBVIOUS
<1>1. ASSUME NEW s \in Sessions, Collect(s) \/ SessionStep(s) \/ Signal(s) \/ Kill(s)
      PROVE  LineageInv'
  BY <1>1, LineageOutside, LineageFirst, LineageHistory, LineageLatest, LineagePrune,
     LineageRound, LineageCompose, LineageSettle, LineageSettleFails, LineagePoll,
     LineageSignal, LineageKill DEF SessionStep
<1>2. ASSUME NEW f \in Files, Edit(f) PROVE LineageInv' BY <1>2, LineageEdit
<1>3. CASE BreakBaseline \/ BeginTurn \/ ReaderStep
  BY <1>3, LineageOthers DEF BreakBaseline, BeginTurn, ReaderStep, Ask, Probe, Probed,
     ReadHistory, Reply, Gap, store
<1>4. ASSUME NEW c \in Commands, CommandStep(c) PROVE LineageInv'
  BY <1>4, LineageOthers DEF CommandStep, WriteBaseline, MarkBaseline, Begins, Truncate,
     Save, KillCommand, store
<1>5. CASE UNCHANGED vars BY <1>5, LineageOthers DEF vars, store
<1> QED BY <1>1, <1>2, <1>3, <1>4, <1>5 DEF Next

THEOREM LineageInvariant == Spec => []LineageInv
BY Invariant, LineageInit, LineageStep, PTL DEF Spec

(* LineageUnbroken: however many unsettled generations, sessions and kills *)
(* lie between two settled reports, the later accounts for the findings of *)
(* the earlier unless a session ended unsettled in between (watch::run).   *)
THEOREM LineageIsUnbroken == Spec => []LineageUnbroken
<1>1. LineageInv => LineageUnbroken
  BY DEF LineageInv, LineageUnbroken, Precedes, Accounts
<1> QED BY LineageInvariant, <1>1, PTL

-----------------------------------------------------------------------------
(* The log of the settled generations, and the reader that follows it *)
AnyChanges == [Files -> ChangeStates]

Reader ==
  [pc: {"idle", "probe", "probed", "read"}, gen: Nat, upto: Nat, got: Seq(AnyChanges),
   since: Nat, told: Seq(AnyChanges)]

(* What the reader was told, and what it has read since, is as the log is. *)
LogInv ==
  /\ \A g \in DOMAIN history : history[g].changes \in AnyChanges
  /\ reader \in Reader
  /\ Cursor <= SettledGen(latest)
  /\ \A i \in 1 .. Len(reader.told) :
       reader.told[i] = history[reader.since + i].changes
  /\ reader.pc # "idle" =>
       /\ reader.upto <= SettledGen(latest)
       /\ Cursor + Len(reader.got) <= reader.upto
       /\ \A i \in 1 .. Len(reader.got) :
            reader.got[i] = history[Cursor + i].changes

(* The last settled generation, by what latest is. *)
LEMMA SettledGenIs ==
  ASSUME IInv
  PROVE  /\ latest.gen \in Nat /\ SettledGen(latest) \in Nat
         /\ SettledGen(latest) <= latest.gen
         /\ latest.settled => SettledGen(latest) = latest.gen
         /\ ~latest.settled /\ latest.gen # 0 => SettledGen(latest) = latest.gen - 1
BY DEF IInv, TypeInv, AnyReport, SettledGen

(* A publication changes no entry of the log, and adds at most one. *)
LEMMA LogGrows ==
  ASSUME IInv, LineageInv, NEW s \in Sessions, PublishHistory(s) \/ PublishLatest(s)
  PROVE  LET n == SettledGen(latest) IN
         /\ \/ SettledGen(latest') = n
            \/ /\ SettledGen(latest') = n + 1
               /\ history' = history
               /\ n + 1 \in DOMAIN history
         /\ \A g \in 1 .. n : g \in DOMAIN history
                              /\ history'[g].changes = history[g].changes
         /\ UNCHANGED reader
         /\ \A g \in DOMAIN history' :
              \/ g \in DOMAIN history /\ history'[g] = history[g]
              \/ history'[g] \in AnyReport
<1> DEFINE r == ses[s].report
           n == SettledGen(latest)
<1>1. ses[s] \in Session /\ r \in AnyReport /\ r.gen \in Nat
  BY DEF IInv, TypeInv, Session, AnyReport
<1>2. /\ latest.gen \in Nat /\ n \in Nat /\ n <= latest.gen
      /\ latest.settled => n = latest.gen
      /\ ~latest.settled /\ latest.gen # 0 => n = latest.gen - 1
  BY SettledGenIs
<1>3. /\ ses[s].pc \in {"history", "latest"} /\ Follows(r, latest)
      /\ Linked(ses[s], latest, history, broken)
  BY DEF PublishHistory, PublishLatest, IInv, SessionsInv, Stored, LineageInv
<1>4. r.settled => r.gen = latest.gen BY <1>3 DEF Linked, Follower
<1>5. \A g \in 1 .. n : g \in DOMAIN history BY <1>2 DEF LineageInv
<1>6. CASE PublishHistory(s)
  <2>1. /\ latest' = latest /\ reader' = reader
        /\ history' = [g \in DOMAIN history \cup {r.gen} |->
                         IF g = r.gen THEN r ELSE history[g]]
    BY <1>6 DEF PublishHistory
  <2>2. ASSUME NEW g \in 1 .. n PROVE history'[g].changes = history[g].changes
    <3>1. CASE g # r.gen BY <1>5, <2>1, <3>1
    <3>2. CASE g = r.gen
      <4>1. r.gen = latest.gen /\ latest.settled /\ latest.gen # 0
        BY <1>2, <1>3, <3>2 DEF Follows
      <4>2. history[g].changes = latest.changes BY <3>2, <4>1 DEF IInv, HistoryInv
      <4>3. r.changes = latest.changes BY <1>2, <1>3, <4>1 DEF Follows
      <4> QED BY <1>5, <2>1, <3>2, <4>2, <4>3
    <3> QED BY <3>1, <3>2
  <2>3. SettledGen(latest') = n BY <2>1
  <2> QED BY <1>1, <1>5, <2>1, <2>2, <2>3
<1>7. CASE PublishLatest(s)
  <2>1. latest' = r /\ UNCHANGED <<reader, history>> BY <1>7 DEF PublishLatest
  <2>2. r.gen \in DOMAIN history
    BY <1>7 DEF PublishLatest, IInv, SessionsInv, Stored, HistoryInv
  <2>3. SettledGen(r) = n \/ SettledGen(r) = n + 1
    BY <1>1, <1>2, <1>3, <1>4 DEF Follows, SettledGen
  <2>4. SettledGen(r) = n + 1 => n + 1 \in DOMAIN history
    <3> SUFFICES ASSUME SettledGen(r) = n + 1 PROVE n + 1 \in DOMAIN history OBVIOUS
    <3>1. CASE r.settled \/ r.gen = 0 BY <2>2, <3>1 DEF SettledGen
    <3>2. CASE ~r.settled /\ r.gen # 0
      <4>1. n + 1 \in 1 .. latest.gen
        BY <1>1, <1>2, <1>3, <3>2 DEF SettledGen, Follows
      <4> QED BY <4>1 DEF LineageInv
    <3> QED BY <3>1, <3>2
  <2> QED BY <1>5, <2>1, <2>3, <2>4
<1> HIDE DEF r, n
<1> QED BY <1>6, <1>7

(* The log as a sequence of changes *)
LogTo(n) == [g \in 1 .. n |-> history[g].changes]

LEMMA LogIs ==
  ASSUME LineageInv, LogInv, NEW n \in Nat, n <= latest.gen, latest.gen \in Nat
  PROVE  LogTo(n) \in Seq(AnyChanges) /\ Len(LogTo(n)) = n
<1>1. \A g \in 1 .. n : history[g].changes \in AnyChanges BY DEF LineageInv, LogInv
<1> QED BY <1>1 DEF LogTo

(* A part of the log is what its entries are. *)
LEMMA PartIs ==
  ASSUME NEW S, NEW q \in Seq(S), NEW part \in Seq(S), NEW from \in Nat,
         from + Len(part) <= Len(q),
         \A i \in 1 .. Len(part) : part[i] = q[from + i]
  PROVE  part = SubSeq(q, from + 1, from + Len(part))
<1> DEFINE sub == SubSeq(q, from + 1, from + Len(part))
<1>1. sub \in Seq(S) /\ Len(sub) = Len(part)
  OBVIOUS
<1>2. \A i \in 1 .. Len(part) : sub[i] = q[from + i] OBVIOUS
<1> HIDE DEF sub
<1>3. sub = part BY <1>1, <1>2
<1> QED BY <1>3 DEF sub

(* What a concatenation holds. *)
LEMMA ConcatIs ==
  ASSUME NEW S, NEW p \in Seq(S), NEW q \in Seq(S)
  PROVE  /\ p \o q \in Seq(S) /\ Len(p \o q) = Len(p) + Len(q)
         /\ Len(p) \in Nat /\ Len(q) \in Nat
         /\ \A i \in 1 .. Len(p) : (p \o q)[i] = p[i]
         /\ \A i \in Len(p) + 1 .. Len(p) + Len(q) : (p \o q)[i] = q[i - Len(p)]
OBVIOUS

(* The reader between two requests *)
LEMMA AsleepType ==
  /\ Asleep \in Reader /\ Asleep.pc = "idle"
  /\ Asleep.since = 0 /\ Asleep.told = <<>>
<1> DEFINE none == <<>>
<1>1. none \in Seq(AnyChanges) OBVIOUS
<1>2. Asleep = [pc |-> "idle", gen |-> 0, upto |-> 0, got |-> none, since |-> 0, told |-> none]
  BY DEF Asleep
<1> HIDE DEF none
<1>3. Asleep \in Reader /\ Asleep.pc = "idle" /\ Asleep.since = 0 /\ Asleep.told = none
  BY <1>1, <1>2 DEF Reader
<1> QED BY <1>3 DEF none

LEMMA AsleepIs ==
  ASSUME NEW from \in Nat, NEW has \in Seq(AnyChanges)
  PROVE  LET r == [Asleep EXCEPT !.since = from, !.told = has] IN
         r \in Reader /\ r.since = from /\ r.told = has /\ r.pc = "idle"
BY AsleepType DEF Reader

LEMMA AsleepFrom ==
  ASSUME NEW from
  PROVE  [Asleep EXCEPT !.since = from] = [Asleep EXCEPT !.since = from, !.told = <<>>]
<1> DEFINE none == <<>>
<1>1. Asleep \in Reader /\ Asleep.told = none BY AsleepType
<1> HIDE DEF none
<1>2. [Asleep EXCEPT !.since = from] = [Asleep EXCEPT !.since = from, !.told = none]
  BY <1>1 DEF Reader
<1> QED BY <1>2 DEF none

LEMMA LogInit == Init => LogInv
<1> SUFFICES ASSUME Init PROVE LogInv OBVIOUS
<1>1. history = <<>> /\ reader = Asleep /\ latest.gen = 0
  BY NoReportReport DEF Init
<1>2. reader \in Reader /\ Len(reader.told) = 0 /\ reader.since = 0 /\ reader.pc = "idle"
  BY <1>1 DEF Asleep, Reader
<1>3. Cursor = 0 /\ SettledGen(latest) = 0 BY <1>1, <1>2 DEF Cursor, SettledGen
<1>4. DOMAIN history = {} BY <1>1
<1> QED BY <1>2, <1>3, <1>4 DEF LogInv

(* Publications leave what the reader has as the log's. *)
LEMMA LogPublish ==
  ASSUME IInv, LineageInv, LogInv, NEW s \in Sessions,
         PublishHistory(s) \/ PublishLatest(s)
  PROVE  LogInv'
<1> DEFINE n == SettledGen(latest)
<1>1. /\ n \in Nat /\ SettledGen(latest') \in Nat /\ n <= SettledGen(latest')
      /\ \A g \in 1 .. n : history'[g].changes = history[g].changes
      /\ reader' = reader
      /\ \A g \in DOMAIN history' :
           \/ g \in DOMAIN history /\ history'[g] = history[g]
           \/ history'[g] \in AnyReport
  BY LogGrows, SettledGenIs
<1>2. ASSUME NEW g \in DOMAIN history' PROVE history'[g].changes \in AnyChanges
  BY <1>1, <1>2 DEF LogInv, AnyReport, AnyChanges
<1>3. /\ reader \in Reader /\ Cursor <= n
      /\ reader.since \in Nat /\ Len(reader.told) \in Nat /\ Len(reader.got) \in Nat
      /\ reader.upto \in Nat
  BY DEF LogInv, Reader
<1>4. Cursor' = Cursor /\ Cursor = reader.since + Len(reader.told)
  BY <1>1 DEF Cursor
<1>5. ASSUME NEW i \in 1 .. Len(reader.told)
      PROVE  reader.told[i] = history'[reader.since + i].changes
  <2>1. reader.since + i \in 1 .. n BY <1>1, <1>3, <1>4
  <2> QED BY <1>1, <2>1 DEF LogInv
<1>6. ASSUME reader.pc # "idle"
      PROVE  /\ reader.upto <= n /\ Cursor + Len(reader.got) <= reader.upto
             /\ \A i \in 1 .. Len(reader.got) :
                  reader.got[i] = history'[Cursor + i].changes
  <2>1. /\ reader.upto <= n /\ Cursor + Len(reader.got) <= reader.upto
        /\ \A i \in 1 .. Len(reader.got) :
             reader.got[i] = history[Cursor + i].changes
    BY <1>6 DEF LogInv
  <2>2. ASSUME NEW i \in 1 .. Len(reader.got)
        PROVE  reader.got[i] = history'[Cursor + i].changes
    <3>1. Cursor + i \in 1 .. n
      <4> DEFINE b == Len(reader.got)
      <4>1. n \in Nat BY <1>1
      <4>2. Cursor \in Nat /\ b \in Nat /\ reader.upto \in Nat BY <1>3, <1>4
      <4>3. i \in 1 .. b /\ reader.upto <= n /\ Cursor + b <= reader.upto BY <2>1
      <4> HIDE DEF b, n
      <4> QED BY <4>1, <4>2, <4>3
    <3> QED BY <1>1, <2>1, <3>1
  <2> QED BY <2>1, <2>2
<1> HIDE DEF n
<1>7. Cursor <= SettledGen(latest') BY <1>1, <1>3, <1>4 DEF n
<1>8. reader.pc # "idle" => reader.upto <= SettledGen(latest')
  BY <1>1, <1>3, <1>6 DEF n
<1> QED BY <1>1, <1>2, <1>3, <1>4, <1>5, <1>6, <1>7, <1>8 DEF LogInv

(* The reader reads an entry of the log at a time. *)
LEMMA LogReads ==
  ASSUME IInv, LineageInv, LogInv, ReaderStep PROVE LogInv'
<1> DEFINE n == SettledGen(latest)
<1>1. /\ n \in Nat /\ n <= latest.gen /\ latest.gen \in Nat /\ latest' = latest
      /\ history' = history
  BY SettledGenIs DEF ReaderStep, Ask, Probe, Probed, ReadHistory, Reply, Gap, store
<1>2. /\ reader \in Reader /\ Cursor <= n /\ Cursor \in Nat
      /\ Cursor = reader.since + Len(reader.told)
      /\ reader.since \in Nat /\ Len(reader.told) \in Nat /\ Len(reader.got) \in Nat
      /\ reader.upto \in Nat /\ reader.got \in Seq(AnyChanges)
      /\ reader.told \in Seq(AnyChanges)
  BY DEF LogInv, Reader, Cursor
<1>3. ASSUME reader' \in Reader, reader'.since = reader.since, reader'.told = reader.told,
             reader'.pc # "idle",
             \/ reader'.upto = n /\ reader'.got = <<>>
             \/ /\ reader.pc # "idle"
                /\ reader'.upto = reader.upto /\ reader'.got = reader.got
      PROVE  LogInv'
  <2>1. Cursor' = Cursor BY <1>3 DEF Cursor
  <2>2. CASE reader'.upto = n /\ reader'.got = <<>>
    <3>1. Len(reader'.got) = 0 BY <2>2
    <3> QED BY <1>1, <1>2, <1>3, <2>1, <2>2, <3>1 DEF LogInv
  <2>3. CASE reader.pc # "idle" /\ reader'.upto = reader.upto /\ reader'.got = reader.got
    BY <1>1, <1>2, <1>3, <2>1, <2>3 DEF LogInv
  <2> QED BY <1>3, <2>2, <2>3
<1>4. CASE Ask
  <2>1. reader' = [reader EXCEPT !.gen = latest.gen, !.upto = n, !.got = <<>>,
                     !.pc = IF latest.watcher THEN "probe" ELSE "read"]
    BY <1>4 DEF Ask
  <2> DEFINE pc == IF latest.watcher THEN "probe" ELSE "read"
             none == <<>>
  <2>2. none \in Seq(AnyChanges) /\ pc \in {"probe", "read"} OBVIOUS
  <2>3. reader' = [reader EXCEPT !.gen = latest.gen, !.upto = n, !.got = none, !.pc = pc]
    BY <2>1
  <2> HIDE DEF pc, none, n
  <2>4. /\ reader' \in Reader /\ reader'.since = reader.since /\ reader'.told = reader.told
        /\ reader'.pc # "idle" /\ reader'.upto = n /\ reader'.got = none
    BY <1>1, <1>2, <2>2, <2>3 DEF Reader
  <2> QED BY <1>3, <2>4 DEF none
<1>5. CASE Probe \/ Probed
  <2>1. reader.pc # "idle" /\ \E pc \in {"probed", "read"} : reader' = [reader EXCEPT !.pc = pc]
    BY <1>5 DEF Probe, Probed
  <2>2. /\ reader' \in Reader /\ reader'.since = reader.since /\ reader'.told = reader.told
        /\ reader'.pc # "idle" /\ reader'.upto = reader.upto /\ reader'.got = reader.got
    BY <1>2, <2>1 DEF Reader
  <2> QED BY <1>3, <2>1, <2>2
<1>6. CASE ReadHistory
  <2> DEFINE next == history[At].changes
             got == Append(reader.got, next)
  <2>1. /\ reader.pc = "read" /\ At <= reader.upto /\ At \in kept
        /\ reader' = [reader EXCEPT !.got = got]
        /\ At = Cursor + Len(reader.got) + 1
    BY <1>6 DEF ReadHistory, At
  <2>2. /\ reader.upto <= n
        /\ \A i \in 1 .. Len(reader.got) : reader.got[i] = history[Cursor + i].changes
    BY <2>1 DEF LogInv
  <2>3. next \in AnyChanges BY <2>1 DEF IInv, HistoryInv, LogInv
  <2> HIDE DEF next
  <2>4. got \in Seq(AnyChanges) /\ Len(got) = Len(reader.got) + 1
        /\ \A i \in 1 .. Len(got) :
             got[i] = IF i = Len(reader.got) + 1 THEN next ELSE reader.got[i]
    BY <1>2, <2>3
  <2> HIDE DEF got
  <2>5. /\ reader' \in Reader /\ reader'.since = reader.since /\ reader'.told = reader.told
        /\ reader'.pc = "read" /\ reader'.upto = reader.upto /\ reader'.got = got
    BY <1>2, <2>1, <2>4 DEF Reader
  <2>6. Cursor' = Cursor BY <2>5 DEF Cursor
  <2>7. ASSUME NEW i \in 1 .. Len(got) PROVE got[i] = history[Cursor + i].changes
    <3>1. CASE i = Len(reader.got) + 1
      <4>1. Cursor + i = At BY <1>2, <2>1, <3>1
      <4> QED BY <2>4, <3>1, <4>1 DEF next
    <3>2. CASE i # Len(reader.got) + 1
      <4>1. i \in 1 .. Len(reader.got) BY <1>2, <2>4, <3>2
      <4> QED BY <2>2, <2>4, <3>2, <4>1
    <3> QED BY <3>1, <3>2
  <2>8. Cursor + Len(got) <= reader.upto BY <1>2, <2>1, <2>4
  <2> QED BY <1>1, <2>2, <2>5, <2>6, <2>7, <2>8 DEF LogInv
<1>7. CASE Reply
  <2> DEFINE told == reader.told \o reader.got
  <2>1. reader.pc = "read" /\ reader' = [Asleep EXCEPT !.since = reader.since, !.told = told]
    BY <1>7 DEF Reply
  <2>2. /\ reader.upto <= n /\ Cursor + Len(reader.got) <= reader.upto
        /\ \A i \in 1 .. Len(reader.got) : reader.got[i] = history[Cursor + i].changes
        /\ \A i \in 1 .. Len(reader.told) :
             reader.told[i] = history[reader.since + i].changes
    BY <2>1 DEF LogInv
  <2>3. /\ told \in Seq(AnyChanges) /\ Len(told) = Len(reader.told) + Len(reader.got)
        /\ \A i \in 1 .. Len(reader.told) : told[i] = reader.told[i]
        /\ \A i \in Len(reader.told) + 1 .. Len(reader.told) + Len(reader.got) :
             told[i] = reader.got[i - Len(reader.told)]
    <3> DEFINE p == reader.told
               q == reader.got
    <3>1. p \in Seq(AnyChanges) /\ q \in Seq(AnyChanges) BY <1>2
    <3> HIDE DEF p, q
    <3>2. /\ p \o q \in Seq(AnyChanges) /\ Len(p \o q) = Len(p) + Len(q)
          /\ \A i \in 1 .. Len(p) : (p \o q)[i] = p[i]
          /\ \A i \in Len(p) + 1 .. Len(p) + Len(q) : (p \o q)[i] = q[i - Len(p)]
      BY <3>1, ConcatIs
    <3> QED BY <3>2 DEF p, q
  <2>4. reader' \in Reader /\ reader'.since = reader.since /\ reader'.told = told
        /\ reader'.pc = "idle"
    <3> HIDE DEF told
    <3>1. reader.since \in Nat /\ told \in Seq(AnyChanges) BY <1>2, <2>3
    <3>2. reader' = [Asleep EXCEPT !.since = reader.since, !.told = told] BY <2>1
    <3> QED BY <3>1, <3>2, AsleepIs, Zenon
  <2> HIDE DEF told
  <2>5. ASSUME NEW i \in 1 .. Len(told)
        PROVE  told[i] = history[reader.since + i].changes
    <3> DEFINE a == Len(reader.told)
               b == Len(reader.got)
    <3>1. a \in Nat /\ b \in Nat /\ Cursor = reader.since + a /\ i \in 1 .. a + b
      BY <1>2, <2>3
    <3>2. CASE i \in 1 .. a BY <2>2, <2>3, <3>2
    <3>3. CASE i \in a + 1 .. a + b
      <4> DEFINE j == i - a
      <4>1. told[i] = reader.got[j] BY <2>3, <3>3
      <4> HIDE DEF a, b
      <4>2. j \in 1 .. b /\ Cursor + j = reader.since + i BY <1>2, <3>1, <3>3
      <4> HIDE DEF j
      <4>3. reader.got[j] = history[Cursor + j].changes BY <2>2, <4>2 DEF b
      <4> QED BY <4>1, <4>2, <4>3
    <3> HIDE DEF a, b
    <3> QED BY <3>1, <3>2, <3>3
  <2>6. Cursor' = reader.since + Len(told) BY <2>4 DEF Cursor
  <2>7. Cursor' <= n
    <3> DEFINE a == Len(reader.told)
               b == Len(reader.got)
    <3>1. a \in Nat /\ b \in Nat /\ Cursor = reader.since + a /\ Cursor' = reader.since + (a + b)
          /\ Cursor + b <= reader.upto /\ reader.upto <= n
          /\ reader.since \in Nat /\ reader.upto \in Nat
      BY <1>2, <2>2, <2>3, <2>6
    <3> HIDE DEF a, b, n
    <3> QED BY <1>1, <3>1
  <2> QED BY <1>1, <2>4, <2>5, <2>7 DEF LogInv
<1>8. CASE Gap
  <2>1. reader' = [Asleep EXCEPT !.since = n] BY <1>8 DEF Gap, ResetTo
  <2>2. /\ reader' \in Reader /\ reader'.since = n /\ reader'.told = <<>>
        /\ reader'.pc = "idle"
    <3>1. n \in Nat /\ <<>> \in Seq(AnyChanges) BY <1>1
    <3>2. reader' = [Asleep EXCEPT !.since = n, !.told = <<>>]
      BY <2>1, AsleepFrom, Zenon
    <3> HIDE DEF n
    <3> QED BY <3>1, <3>2, AsleepIs, Zenon
  <2>3. Len(reader'.told) = 0 BY <2>2
  <2>4. Cursor' = n BY <1>1, <2>2, <2>3 DEF Cursor
  <2> HIDE DEF n
  <2>5. Cursor' <= SettledGen(latest') BY <1>1, <2>4 DEF n
  <2> QED BY <1>1, <2>2, <2>3, <2>5 DEF LogInv
<1> QED BY <1>4, <1>5, <1>6, <1>7, <1>8 DEF ReaderStep

(* What else changes neither the store nor the reader. *)
LEMMA LogOthers ==
  ASSUME IInv, [Next]_vars, ~ReaderStep,
         \A s \in Sessions : ~PublishHistory(s) /\ ~PublishLatest(s)
  PROVE  UNCHANGED <<latest, history, reader>>
<1>1. UNCHANGED <<latest, history>> BY StoreChanges
<1>2. ASSUME NEW s \in Sessions, Collect(s) \/ SessionStep(s) \/ Signal(s) \/ Kill(s)
      PROVE  UNCHANGED reader
  BY <1>2 DEF Collect, SessionStep, TakeLock, FirstSnapshot, PublishHistory, PublishLatest,
              Prune, Round, Compose, Settle, SettleFails, Poll, Signal, Kill
<1>3. ASSUME NEW f \in Files, Edit(f) PROVE UNCHANGED reader BY <1>3 DEF Edit
<1>4. CASE BreakBaseline \/ BeginTurn BY <1>4 DEF BreakBaseline, BeginTurn, store
<1>5. ASSUME NEW c \in Commands, CommandStep(c) PROVE UNCHANGED reader
  BY <1>5 DEF CommandStep, WriteBaseline, MarkBaseline, Begins, Truncate, Save, KillCommand
<1>6. CASE UNCHANGED vars BY <1>6 DEF vars, store
<1> QED BY <1>1, <1>2, <1>3, <1>4, <1>5, <1>6 DEF Next

LEMMA LogStep == IInv /\ LineageInv /\ LogInv /\ [Next]_vars => LogInv'
<1> SUFFICES ASSUME IInv, LineageInv, LogInv, [Next]_vars PROVE LogInv' OBVIOUS
<1>1. CASE ReaderStep BY <1>1, LogReads
<1>2. ASSUME NEW s \in Sessions, PublishHistory(s) \/ PublishLatest(s) PROVE LogInv'
  BY <1>2, LogPublish
<1>3. CASE UNCHANGED <<latest, history, reader>>
  BY <1>3 DEF LogInv, Cursor
<1> QED BY <1>1, <1>2, <1>3, LogOthers

THEOREM LogInvariant == Spec => []LogInv
BY Invariant, LineageInvariant, LogInit, LogStep, PTL DEF Spec

(* Each step as the log sees it: no entry, or one more at its end. *)
LEMMA LogAppends ==
  ASSUME IInv, LineageInv, LogInv, NEW s \in Sessions,
         PublishHistory(s) \/ PublishLatest(s)
  PROVE  [Log!Next]_(Log!lvars)
<1> DEFINE n == SettledGen(latest)
           log == [g \in 1 .. n |-> history[g].changes]
           next == [g \in 1 .. SettledGen(latest') |-> history'[g].changes]
<1>1. /\ n \in Nat /\ n <= latest.gen /\ latest.gen \in Nat
      /\ \A g \in 1 .. n : g \in DOMAIN history /\ history'[g].changes = history[g].changes
      /\ reader' = reader
      /\ \/ SettledGen(latest') = n
         \/ SettledGen(latest') = n + 1 /\ history' = history /\ n + 1 \in DOMAIN history
  BY LogGrows, SettledGenIs
<1>2. CASE SettledGen(latest') = n
  <2>1. next = log BY <1>1, <1>2
  <2> QED BY <1>1, <2>1 DEF Log!lvars
<1>3. CASE SettledGen(latest') = n + 1 /\ history' = history /\ n + 1 \in DOMAIN history
  <2> DEFINE c == history[n + 1].changes
  <2>1. c \in AnyChanges /\ \A g \in 1 .. n : history[g].changes \in AnyChanges
    BY <1>1, <1>3 DEF LogInv
  <2>2. next = Append(log, c)
    <3> DEFINE h == [g \in Nat |-> history[g].changes]
    <3>1. \A g \in 1 .. n : h[g] \in AnyChanges BY <1>1, <2>1
    <3>2. c = h[n + 1] /\ log = [g \in 1 .. n |-> h[g]] /\ next = [g \in 1 .. n + 1 |-> h[g]]
      BY <1>1, <1>3
    <3> HIDE DEF h, c, log, next, n
    <3>3. log \in Seq(AnyChanges) /\ Len(log) = n BY <1>1, <3>1, <3>2
    <3> QED BY <1>1, <2>1, <3>1, <3>2, <3>3
  <2>3. Log!Close BY <1>1, <2>1, <2>2 DEF Log!Close, AnyChanges
  <2> QED BY <2>3 DEF Log!Next
<1> QED BY <1>1, <1>2, <1>3

(* An answer tells what the log has; a gap begins after it. *)
LEMMA LogTells ==
  ASSUME IInv, LineageInv, LogInv, ReaderStep PROVE [Log!Next]_(Log!lvars)
<1> DEFINE n == SettledGen(latest)
           log == [g \in 1 .. n |-> history[g].changes]
           next == [g \in 1 .. SettledGen(latest') |-> history'[g].changes]
<1>1. /\ n \in Nat /\ n <= latest.gen /\ latest.gen \in Nat
      /\ latest' = latest /\ history' = history
  BY SettledGenIs DEF ReaderStep, Ask, Probe, Probed, ReadHistory, Reply, Gap, store
<1>2. next = log BY <1>1
<1>3. reader \in Reader /\ Cursor <= n /\ Cursor = reader.since + Len(reader.told)
      /\ reader.since \in Nat /\ Len(reader.told) \in Nat
  BY DEF LogInv, Reader, Cursor
<1>4. log \in Seq(AnyChanges) /\ Len(log) = n
  BY <1>1, LogIs DEF LogTo
<1>5. CASE Ask \/ Probe \/ Probed \/ ReadHistory
  <2>1. reader'.since = reader.since /\ reader'.told = reader.told
    BY <1>3, <1>5 DEF Ask, Probe, Probed, ReadHistory, Reader
  <2> QED BY <1>2, <2>1 DEF Log!lvars
<1>6. CASE Reply
  <2> DEFINE told == reader'.told
             upto == reader.since + Len(told)
  <2>1. LogInv' BY LogReads
  <2>2. reader'.since = reader.since BY <1>3, <1>6, AsleepType DEF Reply, Reader
  <2>3. told \in Seq(AnyChanges) BY <2>1 DEF LogInv, Reader
  <2>4. Cursor' = upto BY <2>2 DEF Cursor
  <2>5. upto <= n BY <1>1, <2>1, <2>4 DEF LogInv
  <2>6. \A i \in 1 .. Len(told) : told[i] = history[reader.since + i].changes
    BY <1>1, <2>1, <2>2 DEF LogInv
  <2>7. ASSUME NEW i \in 1 .. Len(told) PROVE told[i] = log[reader.since + i]
    <3>1. reader.since + i \in 1 .. n
      <4> DEFINE a == Len(told)
                 b == reader.since
      <4>1. a \in Nat /\ b \in Nat /\ n \in Nat /\ i \in 1 .. a /\ b + a <= n
        BY <1>1, <1>3, <2>3, <2>5
      <4> HIDE DEF a, b, n
      <4>2. b + i \in 1 .. n BY <4>1
      <4> QED BY <4>2 DEF b
    <3> QED BY <2>6, <3>1
  <2>8. Len(told) >= Len(reader.told)
    <3>1. told = reader.told \o reader.got
      BY <1>6, AsleepType DEF Reply, Reader
    <3>2. reader.told \in Seq(AnyChanges) /\ reader.got \in Seq(AnyChanges)
      BY <1>3 DEF Reader
    <3>3. /\ Len(told) = Len(reader.told) + Len(reader.got)
          /\ Len(reader.told) \in Nat /\ Len(reader.got) \in Nat
      BY <3>1, <3>2
    <3> DEFINE a == Len(told)
               b == Len(reader.told)
               c == Len(reader.got)
    <3>4. a = b + c /\ b \in Nat /\ c \in Nat BY <3>3
    <3> HIDE DEF a, b, c
    <3>5. a >= b BY <3>4
    <3> QED BY <3>5 DEF a, b
  <2> HIDE DEF log, next, n, told
  <2>9. told = SubSeq(log, reader.since + 1, reader.since + Len(told))
    BY <1>3, <1>4, <2>3, <2>5, <2>7, PartIs
  <2>10. /\ upto \in reader.since .. Len(log) /\ upto >= reader.since + Len(reader.told)
    BY <1>1, <1>3, <1>4, <2>3, <2>5, <2>8
  <2>11. Log!Tell BY <1>2, <2>2, <2>9, <2>10 DEF Log!Tell, log, next, n, told
  <2> QED BY <2>11 DEF Log!Next
<1>7. CASE Gap
  <2>1. reader'.since = n /\ reader'.told = <<>>
    BY <1>1, <1>7, AsleepType DEF Gap, ResetTo, Reader
  <2>2. n \in reader.since .. Len(log) BY <1>1, <1>3, <1>4
  <2>3. Log!Reset BY <1>2, <2>1, <2>2 DEF Log!Reset
  <2> QED BY <2>3 DEF Log!Next
<1> QED BY <1>5, <1>6, <1>7 DEF ReaderStep

LEMMA LogRefinesStep ==
  IInv /\ LineageInv /\ LogInv /\ [Next]_vars => [Log!Next]_(Log!lvars)
<1> SUFFICES ASSUME IInv, LineageInv, LogInv, [Next]_vars
             PROVE  [Log!Next]_(Log!lvars)
  OBVIOUS
<1>1. CASE ReaderStep BY <1>1, LogTells
<1>2. ASSUME NEW s \in Sessions, PublishHistory(s) \/ PublishLatest(s)
      PROVE  [Log!Next]_(Log!lvars)
  BY <1>2, LogAppends
<1>3. CASE UNCHANGED <<latest, history, reader>>
  BY <1>3 DEF Log!lvars
<1> QED BY <1>1, <1>2, <1>3, LogOthers

LEMMA LogRefinesInit == Init => Log!Init
<1> SUFFICES ASSUME Init PROVE Log!Init OBVIOUS
<1>1. reader = Asleep /\ latest = NoReport BY DEF Init
<1>2. SettledGen(latest) = 0 BY <1>1, NoReportReport DEF SettledGen
<1>3. [g \in 1 .. SettledGen(latest) |-> history[g].changes] = <<>> BY <1>2
<1> QED BY <1>1, <1>3, AsleepType DEF Log!Init

(* LogRefined: what `/changes` reads of the history files is a log that    *)
(* only grows, and a reader that follows it is told each entry once and in *)
(* order, whatever sessions, kills and prunings lie between two reads      *)
(* (Store::publish, storage::history, src/src/server.rs).                  *)
THEOREM LogImplemented == Spec => LogRefined
BY Invariant, LineageInvariant, LogInvariant, LogRefinesInit, LogRefinesStep, PTL
   DEF Spec, LogRefined, Log!Spec
=============================================================================
