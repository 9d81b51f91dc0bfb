------------------------------ MODULE Reports ------------------------------
(***************************************************************************)
(* What a published report holds and what is computed from it: its status  *)
(* (update_status, src/src/schema/report.rs), what changed since an earlier *)
(* one (src/src/changes.rs), which findings the baseline and the allow      *)
(* comments accept (src/src/baseline.rs, src/src/suppress.rs), the gate and *)
(* the exit code (src/src/gate.rs).                                        *)
(*                                                                         *)
(* A file's text is one of Texts: without a finding, with one, and with one *)
(* under a `jevgate: allow` comment that gives a reason.  A file has at     *)
(* most one finding, whose fingerprint is the file: an edit that keeps the  *)
(* finding keeps its fingerprint.                                          *)
(***************************************************************************)
EXTENDS Naturals

CONSTANT Files

Texts == {"clean", "flawed", "allowed"}
Flawed == {"flawed", "allowed"}

Outcomes == {"none", "pending", "judged", "error"}
ChangeStates == {"none", "baseline", "introduced", "persistent", "resolved",
                 "non-comparable"}
Marks == {"out", "plain", "reason"}   \* a baseline's entry for a finding

Entries == [Files -> Marks]
Baselines == [valid: BOOLEAN, entry: Entries]
NoBaseline == [valid |-> TRUE, entry |-> [f \in Files |-> "out"]]
Torn == [valid |-> FALSE, entry |-> [f \in Files |-> "out"]]

\* In a report status[f] is "none" for a file the check does not cover; text[f]
\* is what source_hash stands for; found is what the files' findings name.
Unchanged == [f \in Files |-> "none"]

Scope(r) == {f \in Files : r.status[f] # "none"}
Judged(r) == {f \in Files : r.status[f] = "judged"}

Snapshot(args, inputs, gen) ==
  [gen |-> gen, settled |-> FALSE, errors |-> FALSE,
   watcher |-> args.kind = "watch", kind |-> args.kind, lines |-> args.lines,
   status |-> [f \in Files |-> IF f \in args.scope THEN "pending" ELSE "none"],
   text |-> inputs, found |-> {}, added |-> {}, baselined |-> {},
   suppressed |-> {}, changes |-> Unchanged, gate |-> "none"]

\* What read_latest gives before the first report.
NoReport == Snapshot([kind |-> "check", lines |-> FALSE, scope |-> {}],
                     [f \in Files |-> "clean"], 0)

Complete(r) ==
  /\ ~r.errors
  /\ Scope(r) # {}
  /\ Scope(r) = Judged(r)

\* A file that is not Error takes its composed findings and status.
Composed(r) ==
  [r EXCEPT !.status = [f \in Files |-> IF @[f] = "pending" THEN "judged" ELSE @[f]],
            !.found = {f \in Files : r.status[f] = "pending" /\ r.text[f] \in Flawed}]

\* A judged file that is not what was judged is an error; its findings stay.
VerifiedNever(r, disk) == r
VerifiedCurrent(r, disk) ==
  [r EXCEPT !.status = [f \in Files |-> IF @[f] = "judged" /\ disk[f] # r.text[f]
                                        THEN "error" ELSE @[f]]]

-----------------------------------------------------------------------------
(* Changes since an earlier report *)

Compared(previous, r) ==
  [f \in Files |->
     CASE f \in r.found /\ previous.gen = 0 -> "baseline"
       [] f \in r.found /\ previous.gen # 0 ->
            IF f \in previous.found THEN "persistent" ELSE "introduced"
       [] f \in previous.found \ r.found ->
            IF f \in Judged(r) /\ ~r.lines THEN "resolved" ELSE "non-comparable"
       [] OTHER -> "none"]

-----------------------------------------------------------------------------
(* Acceptance and the gate.  `turn` is the agent's turn a hook's check is  *)
(* part of: the tree it began at, whose baseline and texts count.          *)

NoTurn == [on |-> FALSE, baseline |-> NoBaseline, text |-> [f \in Files |-> "clean"]]

AddedAllows(disk, turn) ==
  {f \in Files : disk[f] = "allowed" /\ turn.text[f] # "allowed"}

Suppressed(r, disk, turn) ==
  {f \in r.found : disk[f] = "allowed" /\ ~(turn.on /\ f \in r.added)}

Held(entry) == {f \in Files : entry[f] # "out"}

DismissedSince(turn, baseline) ==
  IF ~baseline.valid THEN {}
  ELSE {f \in Files \ Held(turn.baseline.entry) : baseline.entry[f] = "reason"}

Readable(baseline, turn) == IF turn.on THEN turn.baseline.valid ELSE baseline.valid

Accepted(baseline, turn) ==
  IF turn.on THEN Held(turn.baseline.entry) \cup DismissedSince(turn, baseline)
             ELSE Held(baseline.entry)

Gated(r) ==
  [r EXCEPT !.gate = IF ~Complete(r) THEN "none"
                     ELSE IF r.found \subseteq r.baselined \cup r.suppressed
                     THEN "passed" ELSE "failed"]

\* gate::settle, when the baseline can be read.
Settled(r, disk, baseline, turn) ==
  Gated([r EXCEPT !.suppressed = Suppressed(r, disk, turn),
                  !.baselined = r.found \cap Accepted(baseline, turn)])

ExitCode(r) ==
  IF ~Complete(r) THEN "incomplete"
  ELSE IF r.gate = "failed" THEN "fail" ELSE "pass"

-----------------------------------------------------------------------------
(* `jevgate baseline` and `jevgate baseline mark` *)

\* last_check
CanWrite(r, merge) == r.gen # 0 /\ Complete(r) /\ (merge \/ r.kind # "hook")

ToAccept(r) == r.found \ r.suppressed

Uncovered(r, previous) == Held(previous) \ (IF r.lines THEN {} ELSE Scope(r))

WrittenAnew(r, merge, mark, previous) ==
  [f \in Files |->
     IF f \in ToAccept(r) THEN mark
     ELSE IF merge /\ f \in Uncovered(r, previous) THEN previous[f] ELSE "out"]
Written(r, merge, mark, previous) ==
  [f \in Files |->
     IF f \in ToAccept(r) THEN IF previous[f] = "reason" THEN "reason" ELSE mark
     ELSE IF merge /\ f \in Uncovered(r, previous) THEN previous[f] ELSE "out"]

\* A target that is a path or a directory marks accepted findings only; an
\* exact one (PATH:LINE or a fingerprint) also takes the last check's.
Marked(r, targets, exact, previous) ==
  [f \in Files |->
     IF f \in targets /\ (f \in Held(previous) \/ (exact /\ f \in ToAccept(r)))
     THEN "reason" ELSE previous[f]]
=============================================================================
