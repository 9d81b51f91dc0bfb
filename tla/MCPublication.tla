--------------------------- MODULE MCPublication ---------------------------
(* Publication for TLC: what may happen is cut into a few environments.    *)
EXTENDS Publication

CONSTANTS f1, f2, s1, s2, c1, c2

Check(scope) == [kind |-> "check", lines |-> FALSE, scope |-> scope]
Watch == [kind |-> "watch", lines |-> FALSE, scope |-> {f1}]
Hook == [kind |-> "hook", lines |-> TRUE, scope |-> {f1}]
Git == [kind |-> "git", lines |-> TRUE, scope |-> {f1}]

None == [f \in Files |-> "out"]

Quiet == [sessions |-> {s1}, commands |-> {}, args |-> {Check({f1})},
          texts |-> {"clean", "flawed"}, entries |-> {None},
          edits |-> 0, runs |-> 1, stops |-> 0, writes |-> 0,
          reads |-> FALSE, turns |-> FALSE, fails |-> FALSE, invalid |-> FALSE]

\* A watcher whose files are edited twice, and a reader.
Followed == [Quiet EXCEPT !.args = {Watch}, !.edits = 2, !.reads = TRUE]
\* A watcher that is killed or stopped, a check or another after it, a reader.
Restarted == [Quiet EXCEPT !.args = {Watch, Check({f1})}, !.edits = 1, !.runs = 2,
                           !.stops = 1, !.reads = TRUE]
\* Checks of a file and of both, by two processes at once.
Crowded == [Quiet EXCEPT !.sessions = {s1, s2}, !.args = {Check({f1}), Check({f1, f2})},
                         !.edits = 1, !.runs = 2]
\* Git hooks' checks whose requests fail and whose baseline breaks.
Failing == [Quiet EXCEPT !.args = {Git, Watch}, !.edits = 2, !.stops = 1,
                         !.fails = TRUE, !.invalid = TRUE]
\* An agent's turn in which the baseline and the allow comments change.
Turns == [Quiet EXCEPT !.commands = {c1}, !.args = {Hook, Check({f1})}, !.texts = Texts,
                       !.edits = 1, !.runs = 2, !.writes = 1, !.turns = TRUE]
\* Baseline commands that overlap, from a baseline that holds a finding.
Commanded == [Quiet EXCEPT !.commands = {c1, c2}, !.args = {Check({f1})},
                           !.entries = {None, [None EXCEPT ![f1] = "plain", ![f2] = "reason"]},
                           !.writes = 2, !.stops = 1]

MCEnvs == {Followed, Restarted, Crowded, Failing, Turns, Commanded}
MCFailing == {Failing}
=============================================================================
