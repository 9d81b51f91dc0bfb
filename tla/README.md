# JevGate in TLA+

JevGate (`src/`, a Rust program, about 75,000 lines without its tests) judges the code of a repository: it plans questions about units of code, asks a provider's model, applies a gate to the answers, and publishes a report. It runs as a command (`jevgate check`, `--watch`), from Git hooks, and inside coding agents (`jevgate hook`). This directory holds the TLA+ model of the parts of it whose correctness depends on order: processes that share files, threads that share counters, events that come in any order, runs that are stopped half way, and of the rules by which many answers become one judgment.

    tlc -workers 2 -config MCHookTurn_session.cfg MCHookTurn.tla     # a run
    tlapm HookTurn_proofs.tla                                        # a proof

`PROJECT.json` lists the components, the runs with their properties, a fault for each property (the mutants), the source lines of every definition (`map`), the hazards, the findings and the theorems.

## 1. Inventory

Paths are below `src/src/`.

| component | files | state it keeps | operations | talks to |
|---|---|---|---|---|
| Agent hook: turns | `hook/turn.rs`, `hook/events.rs` | one turn file per agent session in `.jevgate/turns/` | session start, turn start, after edit, stop | the agent (events, replies), a check, the working tree |
| Agent hook: processes | `hook/review.rs`, `hook/outage.rs`, `storage/reports.rs` | marks of answered events, `outage.json`, the session lock | claim, open_store, check with a deadline, record and clear | other hooks, Git hooks, watchers in the same repository |
| Agent formats | `hook/agents.rs`, `hook/text.rs` | none | parse events, render replies | the agent |
| Transport | `transport/mod.rs`, `provider_error.rs` | atomics and mutexes of one process: next item, rejection, edge blocks, cooldown, pacing | evaluate_queue with worker threads, retries | the provider, Requests |
| Requests | `requests.rs`, `requests/*`, `storage/cache.rs` | the answer cache `.jevgate/cache/`, two budgets, answers given this run | queries: look up, hold to the budget, send, record, keep | Transport, Evaluation |
| Storage | `storage/mod.rs`, `storage/reports.rs` | session lock, `latest.json`, history of generations | open, publish, cache, read latest | everything that writes `.jevgate/` |
| Watcher, server | `watch.rs`, `server.rs`, `changes.rs` | generations, debounce; readers' cursors | poll, publish, settle, serve snapshots and changes | Storage, Evaluation |
| Evaluation | `check.rs`, `evaluate.rs`, `context.rs` | a Session: report, waves of tasks, recorded judgments | plan, dispatch, apply receipts, compose, progress, verify_current | Units, Requests, Storage |
| Acceptance | `gate.rs`, `baseline.rs`, `suppress.rs`, `guards/*` | `jevgate-baseline.json`, allow comments, dismissals | settle a gate, write and mark a baseline | Evaluation, hooks, Storage |
| Units: judging | `units/outcome/*`, `units/compose/*`, `units/follow_ups.rs`, `units/grouping.rs` | a file's judgments, per unit and pass | outcomes, follow-ups due, composition, grouping | Evaluation |
| Units: planning | `units/plan/*`, `units/questions/*`, the rest of `units/` (20,000 lines) | none | plan units, gather evidence, word questions | Evaluation |
| Static analysis | `analysis/*`, `syntax.rs`, `test_locations/*` | none | parse and query source | Units |
| Docs checks | `docs/*` | none | load and match documents | Evaluation |
| Git | `revision.rs`, `revision/*`, `line_ranges.rs` | none (Git's objects) | snapshot, changed ranges, what a push sends | hooks, Evaluation |
| Credentials | `auth/*`, `provider.rs` | OS key stores | read, store | Transport |
| Custom questions | `custom/*` | question files | parse, propose | Units |
| Git hooks, setup | `git_hooks/*`, `setup/*`, `init.rs` | hook scripts, agent settings | pre-commit and pre-push checks, the offer to skip them, install | Git, the person |
| MCP server | `mcp/*` | one child at a time | check, report | the agent |
| Configuration | `config.rs`, `options/*`, `policy.rs`, `discovery/*`, `inventory/*` | none | parse, select files | everything |
| Output | `output/*`, `sarif.rs`, `github.rs`, `gitlab.rs`, `html_report.rs`, `view.rs` | none | format | the person |
| Token budget, catalog | `token_budget.rs`, `model.rs`, `catalog.rs` | measured bytes per token | estimate | Requests |
| Rule tests, maturity | `rules_test/*`, `maturity.rs` | none | commands over examples | Units |
| Cancellation, children | `cancellation.rs`, `child.rs`, `command.rs` | one flag | stop | Transport |
| npm package, plugin | `npm/`, `plugin/` | none | launch | the person |

### Behaviours that are hard to get right

- **Processes that share a file without a lock.** Agents run the hooks of parallel edits side by side. Each loads the turn file once, works on its copy and saves the whole copy. Two installed copies of the hooks answer one event; a mark created with `create_new` decides which.
- **Stops half way.** The agent kills a hook past its timeout, the person interrupts a turn, a check is left behind at the deadline while it still holds the session lock, a check is killed between two recorded answers.
- **A provider that fails.** Retries, shared pauses, rejections, a deadline, a failure that later checks wait out.
- **Threads that share a budget.** Workers price, send and fail in any order.
- **Answers that must be one.** A question asked by several requests, batches and checks has one answer, and is bought once.
- **Files read and written one by one.** A report is published in history, then as latest, then the oldest one is removed, while readers without the lock follow, other checks wait, and the sources and the baseline change.
- **A cascade of questions.** Seven stages ask what the answers so far call for, each stage once; answers of five passes are merged by rules of their own per kind of unit, then capped, grouped and counted, within a file and across files. Any request may fail on the way.
- **Commits in any shape.** A push is compared with what its commits grow from on the remotes, as remembered by refs that may be behind, after any merges, rebases and force pushes; its refs are checked one by one, and a check may fail.
- **Liveness.** An agent that cannot satisfy the gate must get its turn back; a queue must end.

What makes each component correct is the list of properties in section 3; PROJECT.json's `hazards` gives the line at which each could go wrong.

## 2. Modules

| module | models | composes / refines |
|---|---|---|
| `HookTurn` | the turn file, every hook handler, the agent and the person | |
| `HookProcess` | claim, session lock, outage, deadline of the processes of one repository | |
| `RequestQueue` | what `evaluate_queue` promises | |
| `Transport` | `evaluate_queue` by atomic steps, with `Spend` | implements `RequestQueue` |
| `Requests` | `Session::queries` over batches and checks: cache, budgets, record and keep | takes the queue as `RequestQueue` promises it |
| `Reports` | pure: a report's status, changes, acceptance, gate, exit code; what baseline commands write | |
| `ChangeLog` | what `/changes` promises a reader | |
| `Publication` | sessions (checks, Git and agent hooks, watchers), `Store::publish`, the server's reader, baseline commands | uses `Reports`, implements `ChangeLog` |
| `Outcomes`, `SecurityOutcomes`, `UnitOutcomes` | pure: what one answer says, and each rule's outcome of a unit's answers | each extends the one before |
| `UnitAnswers` | pure: merging the answers of a unit's passes, the follow-ups due, the caps | extends `UnitOutcomes` |
| `Judging` | one evaluation: dispatch of every stage, receipts, composition, grouping | uses `UnitAnswers` |
| `Pushes` | commits, refs, and the pre-push hook from Git's list of refs to its exit code | |
| `*_proofs` | theorems | extend the module of that name; `Composition_proofs` extends `Judging_proofs` |
| `MC*` | values of the constants for TLC | extend the module of that name |

The models meet at these seams. `Requests` is what `Judging`'s `Answered`, `Failed` and `Refused` stand for: a receipt with an answer, an error, or a refusal. `Judging` decides what `Publication` takes as a choice: which files of a report are judged, failed and flagged. `Publication`'s sessions of kind `hook` are the checks whose result `HookTurn` takes as `Found`; `HookProcess` is how such a session comes by the lock that `Publication` has it take in one step. What one ref's check says (`Checked` with 0, 1, or an incomplete check, or an error) is a choice in `Pushes`; `Publication`'s session of kind `git` is such a check.

## 3. The models

### HookTurn

One agent session. A tree of the working directory is a model value, `Found[t]` what a check of it flags. `file` is the turn file (`Turn`, or `None`), with `begin`, `carry`, `remember_unseen`, `report` as operators on it. A hook is a process with its own copy `turn[h]`: `LoadTurn`, then the handler's steps (`KeepTurn`, `TurnStartCarry`, `Begin`, `GiveContext`, `SeenFiles`, `Snapshot`, `CheckEdit`, `Told`, `FirstStop`, `Pass`, `LetThrough`, `Block`, `UnreadableStart`, `Unchecked`), each of them one action from one access to the file to the next, then the reply. A stop loads, takes its snapshot and waits for its check, and the steps are apart, since the tree may change and the hook may be killed between any two. The agent and the person are the environment: `Prompt`, `Resend` (Gemini CLI, Cursor and OpenCode send a block's reason back as a prompt), `Compact`, `EditFiles`, `StopTurn`, `Interrupt`, `Kill`, `Deliver`, and `ChangeTree` for everything that changes files without an event: the person or another process may do so at any moment, also between a running stop's snapshot and its save.

`Envs` selects setups, each a set of what may go wrong; without it, every property would only be as strong as what holds when everything goes wrong at once. Two of them change what a turn is. Under "unreadable" `LoadTurn` may find no turn where there is one, as `turn::load` does for a file that cannot be read or parsed and for a tree Git pruned; the hook then begins the turn anew, and the history variable `lost` says so until the next prompt. Under "noTurnStart" no hook starts a turn (the setup `end_turn` keeps "checking one turn at a time"): `StartTurn` needs no hook, the first stop takes the snapshot a turn starts from (`FirstStop`), and a stop that ends a turn makes the tree it judged the next one's start (`Judged`), so that what was edited while it was answered is judged by the next stop.

| property | says |
|---|---|
| `BlockCap` | at most `MaxBlocks` (3 in the code) blocks between two prompts, also when saves fail, hooks are killed, files change under a stop, and parallel hooks write the file back; unless a hook could not read the turn |
| `NoRepeatedBlock` | no two blocks running on one tree, unless a hook could not read the turn between them |
| `UncheckedCovered` | until a stop is checked, the turn begins where the unchecked one did; without a turn-start hook, at the tree the last stop judged |
| `SilentStopIsClean` | a stop that passes without a word leaves nothing flagged since the turn's true start, also of what was edited while the stop before it was answered |
| `UnseenNamedInOrder` | a turn's end names the nested files edited |
| `NoticeReachesAgent` | a notice leaves the file only in a reply (where prompts carry context) |
| `AgentReleased` | if the agent stops again and again, the person gets the prompt back again and again, or hooks do not read the turn again and again |

Runs: `hook_session` (seven setups; two hooks, which only parallel edits run at once; three trees of which one has a configuration that does not load; `MaxBlocks` 2), and `hook_carry_interrupted` and `hook_nested_parallel` for section 4. 306,288 distinct states. Two blocks are enough for a block, a repeat and the cap; three trees for a clean, a flagged and an unreadable one, and for a tree that is neither the turn's start nor the last blocked. Two hooks are enough for a lost update.

Fairness (`FairSpec`): each started hook takes its steps, since `respond` answers by a deadline whatever the check does (`hook/mod.rs:170`), and the agent reads the reply. Nothing is assumed of the agent or the person.

### HookProcess

The processes of one repository, step by step at each shared file: `FirstCreate`, `ReadAge`, `RemoveMark`, `Recreate` are `turn::claim`; `ReadOutage`, `OpenStore`, `ProbeLock`, `Unprobe` are the read of `outage.json`, `open_store` and `writer_active` (which takes the lock itself for a moment); `CheckFinishes`, `CheckMeetsFailure`, `CheckFails`, `WaitingTimesOut` how a check ends against its deadline; `Settle` records or clears the failure; `Answer` drops the claim; `Exit` and `Kill` close what the process holds.

The session lock belongs to an open file. `store[p]` says that `p`'s check has its Store open, `forked[p]` that a child `p` forked for a Git command shares the file until it runs `exec`. `DropStore` is Store's `Drop`, which unlocks the file whoever shares it; it is a step of the check (`EndCheck`), of the check left behind at the deadline that ends before its process (`LeftBehindEnds`), or of a Git hook's check that returns (`Answer`). `End` only closes: the lock is free when no child has the file, and else when the child runs `exec` (`Exec`), also after a kill. Git commands are short, so no tick passes while a child has the file.

`sending[e]` are the copies of an event's latest sending, which began when none of an earlier one ran and no fresh mark was left: so the mark a stopped process left is followed to the next answer. A process with `Event[p] = None` is a Git hook's check. `clock` counts ticks of about the waits' length, bounded by `MaxClock`; `GetOld` makes a mark older than `TWIN_SECS` at any time, since five seconds are far less than a check.

| property | says |
|---|---|
| `SomebodyAnswers` | of the copies a sending of an event runs, when none of them was killed one answers, in every interleaving of create, age, remove and create, and also when a process of an earlier sending was killed and left its mark |
| `NoMarkLeft` | and no mark is left to silence the event when it comes again |
| `LockGoesWithStore` | the session lock is held by a check as long as its Store is open, and no longer, although a child may share the file; a process that ends as it forks leaves it to the child until `exec`, and to nobody after |
| `OutageWasMet` | what checks wait out was met by one: waiting does not extend the wait |
| `HeldOnce` | hooks that run one after another are held by an outage once per wait |

Run: `hook_process` (two copies of an event, which are symmetric, and one Git check; two ticks; 3,245,272 distinct states). Three processes are the smallest number in which a third takes over what two contend for. A process runs once, so the two copies are also two sendings one after another. No fairness: only safety is stated.

### Transport and RequestQueue

`Transport` splits a worker of `evaluate_queue` at every atomic or mutex: `Claim`, `Check`, `Before` (cancellation, source, `Spend::charge`), `Recheck`, `Wait`, `WakeUp`, `Pace`, `Send`, the responses, `MarkEdge`, `Reject`, `Retry`. `Tick` lets time pass only while a worker sleeps, so that a deadline can fall anywhere a sleep is.

| property | says |
|---|---|
| `BillableBound` | sends the provider may have run: at most `InterruptedAttempts`, whatever other failures lie between |
| `BudgetHolds` | nothing unpriced is sent and the priced sum stays in the budget |
| `LateSendBound` | after a rejection each worker begins at most one send |
| `RetriesCoverSends` | the retries reported are at least the repeats sent |
| `QueueRefined` | `Transport` implements `RequestQueue`: bounded sends, one outcome each, none forgotten (with its fairness) |

Run: `transport`, two workers and two requests under four setups (`MCSetups`: with and without a deadline, a budget for one or both requests, which failures come), three answered attempts, two of the other kinds, two edge blocks. The third attempt is what tells the kinds' limits apart; larger attempt limits only repeat it.

Fairness: a worker thread takes its steps (threads run, and an attempt ends by `ATTEMPT_TIMEOUT` or the deadline), and `Tick` happens (time passes).

### Requests

`Session::queries` for one state and question at a time: `cache[s]` is the file of a state's answers, a question has one wording, an answer is a value. `StartRun` begins a check with its options and the batches it will ask (what the batches are is the units' business; `Plans` fixes them). `LookUp` reads one request's answers and copies what `carry_earlier` finds; `LookAgain` is the second pass; `Hold` the rest of `answer_from_cache`, `cannot_send` and `hold_to_budget`; `Before` what a worker does before a send; `RecordSkipped`, `RecordFailed`, `RecordAnswered` what the main thread does as outcomes come; `NextBatch` plans the next batch and drops this one; `EndRun` ends or kills the check anywhere. The provider may answer a question differently each time. `Spend` knows requests by address: `Address(i)` is a place in `buffer`, the memory the batch was built in.

| property | says |
|---|---|
| `OneAnswer` | requests of one batch, of later ones and of later checks that ask the same question of the same state give one answer |
| `BoughtOnce` | what a receipt answered is not sent again, also after a kill |
| `RefreshedAnew` | with `--refresh` a receipt gives only what this check was told |
| `RequestsHeld` | the request budget holds over all batches |
| `SpendHoldsApart` | the dollar budget holds when no request lies where an earlier one lay |

Run: `requests`, two checks over three plans (the same question twice in a batch, with another question, and over a state an earlier version left an entry for), three options (plain, refresh, cache only), and five setups: sources that change and an evaluator without a key; files that cannot be written; files at their size bound; answers that expire; cache files that Git tracks, which the cache never reads (`read_json`). `OneAnswer` and `BoughtOnce` are claimed only where answers last (`Lasting`), and the run has setups on both sides; `RefreshedAnew` and the budgets hold in all of them. Two checks are enough for a rerun, since a third reads what the second left like the second did. 378,545 distinct states.

### Reports, ChangeLog and Publication

Every step of a session reads or writes one shared file: `Collect` reads the sources, `TakeLock`, `FirstSnapshot` (the generation after latest's), then `PublishHistory`, `PublishLatest`, `Prune` for each report it publishes, `Round` (one dispatch), `Compose` (the end of `Session::evaluate`, with `verify_current`), `Settle` or `SettleFails` (changes since the previous report, suppression, baseline, gate, exit code). A watcher goes on with `Poll`: it publishes a changed snapshot at once, unsettled, and evaluates it once the debounce let it rest. `Signal` ends a session at its next poll or dispatch, with its failure published; `Kill` ends it anywhere. The server's reader is `Ask`, `Probe`/`Probed` (`writer_active`), `ReadHistory` of one history file at a time and `Reply` or `Gap`; a baseline command (`WriteBaseline`, `MarkBaseline`) reads the last report and the baseline, then `Truncate`s the file and `Save`s it, without a lock. `Edit`, `BreakBaseline` and `BeginTurn` are the person and the agent; a turn may begin while a command has the baseline truncated, and then begins with a baseline that cannot be read.

Texts are three (no finding, one, one under an allow comment), so that a file has at most one finding and its fingerprint is the file. `MCEnvs` cuts what may happen into six environments: a watcher followed by a reader; one killed or stopped and started again; two processes and two scopes; failing requests with a breaking baseline; an agent's turn in which the baseline and the comments change; overlapping baseline commands.

| property | says |
|---|---|
| `LatestInHistory` | latest and the generations before it, as many as are kept, are in history, and history is at most one ahead, at every crash |
| `LineageUnbroken` | a settled report accounts for each finding of the settled report before it, over any number of unsettled generations between |
| `SettledStays` | a settled generation's changes are final |
| `PassIsSound` | a check passes only if it judged each file as it is and somebody who may vouches for each finding |
| `EntriesKept` | a baseline command drops an entry only when a whole check no longer finds it, and never a reason |
| `WatcherCatchesUp` | once edits end, a running watcher has settled a report of the files as they are |
| `ReaderCatchesUp` | a reader of `/changes` reaches the last settled generation |
| `LogRefined` | the history files are `ChangeLog`: a log that only grows, of which the reader is told each entry once and in order |

Run: `publication`. `History` is 2 for the code's 64, so that pruning overtakes a reader within a few generations; `MaxRounds` is 1, since a second dispatch repeats the first; edits, starts, signals and writes are bounded in `left`, and the generations with them. Fairness (`FairSpec`): a session that runs takes its steps (a process is scheduled, and a watcher polls for ever), and the server answers a reader that asks; nothing is owed by edits, signals, kills or commands. `CHECK_DEADLOCK` is off because a repository may come to rest.

Exemptions, each of which the code needs: `broken` generations (a session ended before it settled: the next check compares with the partial report); a file `edited` between the check's last `verify_current` and its end, a gap the code has; commands that overlap (either may lose an entry). Deleted files, more than one finding per file, and the rubric's version (a constant of a run) are not modelled; `verify_current` is one step per publication; a Git hook's check reads `disk` where the code reads the revision's text.

### Outcomes, SecurityOutcomes, UnitOutcomes, UnitAnswers and Judging

An answer is a percentage (a Noul), three percentages (a Score) or percentages of options (a Choice); an outcome is a level and a percentage. `UnitOutcomes` has one operator per rule, which `RuleOutcome` dispatches as `rule_outcome` does; options of a Choice that a rule treats alike are one option ("fine", "outside", "opt_in"). `UnitAnswers` has the merge of each kind of unit (`MergedBy`: a recheck replaces, a settle clears, a locate stands beside) and the conditions under which `compose/due.rs` calls for each follow-up.

`Judging` is one evaluation. A plan (a constant: planning is analysis of text) has units, the first requests, and texts that may steer a reviewer; a request carries the answers that may be given to each unit it asks. `Advance` begins a stage with the follow-ups due (`FollowUps`), `Answered`, `Failed` and `Refused` apply the next receipt, and `Compose` does `compose_files`: a file's `Composed` report, `GroupPlans` and `GroupSections` across files, and `OneLevel`. The code merges group after group; the groups share no finding, so `Merge` does them at once: in each the head's finding names the others' units, the others become notes (`AfterMerge`), and each file counts what it lost (`Recounted`).

| property | says |
|---|---|
| `NoneLeftDue` | at the end no judged unit has a follow-up its answers call for unasked: the order of the stages is right |
| `NothingLost` | each unit that reached a review or consider is reported in some finding; no count goes below zero (`CountsAreNatural`: the pairs a group takes were counted as notes, where `compose/mod.rs:77` subtracts unsigned, and the findings a merge lowers as reviews, where `grouping.rs:315` stops at zero) and they add up to the units; a file with a built-in finding is a review, and one with custom questions' findings alone is too, unless a unit undecided or unsent holds its status (`HeldOpen`); a clear file has nothing undecided, unanswered or unsent |
| `LateAsksOnlyLower` | settle and confirm answers never raise a unit |
| `DecidedStays` | outside the security rules no follow-up makes a decided unit undecided, but for a document whose kind rules its split out |

Run: `judging`, 35 plans: each rule with answers on both sides of every threshold it has and between them, several units in one request, groups of tests, comments of one function, plans and sections repeated in three files, a steered unit, a custom question beside an undecided law. Up to two receipts are failures or refusals: the first shows that a file in error takes no more answers, the second that it may meet a refusal too. Receipts are applied in one fixed order, since the code zips them in the order of its tasks and a file's judgments are kept by unit and pass. No fairness: only safety is stated, and an evaluation ends once composed (`CHECK_DEADLOCK FALSE`). The finished plans of one plan lie in two directories, so that one merges and the other does not. 128,903 distinct states.

### Pushes

`commits` is the graph Git has: a commit's parents, the changes it introduces, its ancestors (`above`) and its first-parent line, all fixed once `Records` made it. `heads` are the clone's branches, `remote` the refs of the remotes, `tracking` the remote-tracking refs, which follow `remote` only at a fetch or a push, and `have` the commits whose objects the clone has. A change is named by the commit that introduced it, a rebase or a squash carries it to a new commit, and a tree is the set of changes above its commit.

`Sent` is `push::sent`: `OnRemotes` and `Listed` are its `rev-list --not --remotes`, `Boundary` the lines of `--boundary`, `Independent` its `merge-base`, `FirstParent` its walk, `Base` the choice among them. `BeginPush` is Git starting the hook with the refs it will update, `CheckRef` one turn of `pre_push`'s loop (`SkipRef`, `UnrootedRef`, `JudgeRef`, whose check passes, fails the gate or ends incomplete), `HookFails` an error that `command::check` turns into 0 or 2, `SkipHook` the offer to press Enter, `HookEnds` the exit code, and `Send` Git's update of the refs that are still where they were. `Commit`, `Merge`, `Rebase`, `Reset`, `Fetch` and `Colleague` are Git's and may come between any two steps of the hook.

| property | says |
|---|---|
| `NothingUnjudged` | each change a remote holds passed a check of the push that brought it, or the hook said that it was not checked, or a colleague made it |
| `OwnWorkOnly` | what a push is judged for are changes of its own commits, never what it merged from a remote |
| `FailedGateStops` | a push of which a check failed the gate does not go on: violated, see section 4 |

Run: `pushes`, a clone with two branches and a remote with two refs, from an empty repository or one with a commit, with a Git that merges trees and one that does not, and `on_incomplete` both ways. `MCBudgets` gives the person, the pushes, the fetches and the colleagues steps of four mixes, up to five in all: to merge a remote's ref and push it takes a colleague's commit, a fetch, a commit, a merge and a push. No fairness: only safety is stated, and a repository may rest (`CHECK_DEADLOCK FALSE`).

`OwnWorkOnly` is claimed where `sent` claims it, for one base commit or two that Git merges (`Comparable`); with three or more, or an older Git, the push is compared with the first-parent one and may be judged for what it merged. A change is never taken back: reverts and deletions are changes like others. pre-commit and prek name one ref of a push, and only that is checked; the pre-commit hook (`--staged`) compares the index with HEAD, which needs no history.

## 4. What the code does otherwise than it says

Each is a run that TLC ends with a counterexample (PROJECT.json `findings` quotes the lines).

- `hook_carry_interrupted`: an unchecked turn is carried for one turn start only. If the person interrupts the carried turn, the next turn begins now, and nothing checks what lies before (`coding-agents.md:95`).
- `hook_nested_parallel`: of two nested files edited in parallel, one is lost from the turn file and is not named at the end (`coding-agents.md:89`).
- `requests_spend`: `Spend` takes a request at an earlier request's address for a retry, and does not price it (`billing.rs:8`).
- `report_unsettled`: a check whose baseline cannot be read fails with its last progress left published, complete and without a gate, for which `jevgate_findings` gives exit code 0 (`mcp/results.rs:81`).
- `push_forgotten`: of a push of two refs, the first fails the gate and the check of the second ends with an error: `pre_push` returns the error, drops the code it had, and `command::check` lets the push go ahead (`check.rs:193`, `command.rs:59`).

Smaller observations, without a run: `max_requests` counts requests, where `ci.md:61` says it caps API attempts, of which a request may make six; `open_store` (`review.rs:443`, "once no other JevGate process holds its lock") tries the lock and then asks `writer_active` whether it is held; released in between, it is free, and the hook gives up with the error of its try, having waited none of `LOCK_WAIT` (`ProbeLock`, `Unprobe`); Cursor's prompt hook carries no context, so the notice of an unreadable start waits for an edit and is dropped by the next begin; `Turn::carry` and a stop killed after its save lose the list of nested files; two copies of an event may both answer when the second starts more than five seconds after the first; `clear` after a check that met only the cache removes another process's outage; a 402 after a retried 503 is recorded as an outage; a source edited during a retry's pause is sent as it was read before (a first send has the same gap, only shorter); a worker asleep in a pause does not see it extended; `edge` is set although another status won `rejected`.

Of reports: the report a killed check leaves is what the next check compares with, so findings of the last settled one may be called new; `jevgate baseline` on a report that never settled accepts findings an allow comment suppresses; a source edited and restored while it is asked about leaves its file an error until the next edit; an agent hook's report is what the next full check compares with; a reader exactly `HISTORY` behind an unsettled latest is told of a gap, though its files were there a moment before; generations begin again at 1 when latest cannot be read.

Of pushes: `sent` looks for a remote's commit on the first-parent line alone, so after merging an unrelated history that a remote has, a repository's own first commits count as `Unrooted` ("none of which a remote has", `push.rs:47`) and the push is said not to be checked; a push of one unrooted ref is told also that it sends "no commit a remote lacks" (`check.rs:226`), since nothing was judged.

Of judging: `one_level` (`units/compose/mod.rs:490`) makes every finding a review but recomputes a file's status only when it was a finding's, so a custom question's note beside an undecided unit of another rule, now a review, leaves the file and the report `uncertain`, where `schema/report.rs:480` and `mcp/tools.rs:81` promise the most severe outcome (`NothingLost` leaves this case out as `HeldOpen`). `pair_recheck` asks only `overlap`, and `rechecked` replaces every first answer, so a rechecked pair has lost `same_input` and `same_outcome`, which `outcome/test_rules.rs:97` says a review needs. `settings_module_outcome` says one level lower and is two, as `exposure_outcome` lowers already (its test expects two). A settle asked only of undecided units is never asked when another settle of the same stage leaves the unit undecided (`LateSettle`). A test pair whose text was steered, at a consider, counts as clear: `steered` looks at clear and note, before the pair becomes a note. `markup_parts` can raise (`OutsideMarkup`), though `due.rs` says a settle only clears. A refused recheck leaves a comment's kind unasked. A document with a decided split and an undecided history becomes undecided when its kind, asked of the split, rules the split out (`document_outcome`, `weighed_by_kind`): the history answer is all that is left, and nothing asks it again. The proof of `DecidedStays` found this case, and the run's plans now have it.

## 5. Proofs

`tlapm` proves, for every value of the constants:

| module | theorem | assumptions |
|---|---|---|
| `HookTurn_proofs` | `TypeCorrect`, `BlocksAreCapped`, `UncheckedIsCovered`, `SilentStopsAreClean`, `UnseenAreNamed`, `NoticesReachAgent`, `BlocksNeverRepeat` | `HookAssumption`, `NoneAssumption`, `NoticeAssumption` |
| `HookProcess_proofs` | `TypeCorrect`, `SomebodyAlwaysAnswers`, `NoMarkEverLeft`, `LockAlwaysGoesWithStore`, `OutageAlwaysMet`, `HeldAtMostOnce` | `ProcessAssumption` |
| `Requests_proofs` | `TypeCorrect`, `RequestBudgetHeld`, `SpendHeldApart`, `AnsweredAnew`, `OneAnswerGiven`, `NothingBoughtTwice` | `RequestsAssumption` |
| `Transport_proofs` | `TypeCorrect`, `BillableBounded`, `BudgetKept`, `LateSendsBounded`, `RetriesTold`, `QueueImplemented` | `TransportAssumption`, `BackoffAssumption` |
| `Pushes_proofs` | `NothingGoesUnjudged`, `OwnWorkAlone` | `PushesAssumption` |
| `Publication_proofs` | `HistoryBehindLatest`, `SettledIsFinal`, `PassesAreSound`, `EntriesAreKept`, `LineageIsUnbroken`, `LogImplemented` | `PublicationAssumption` |
| `Judging_proofs` | `StagesInOrder`, `EveryFollowUpAsked`, `LateAsksLower`, `DecidedIsKept` | `PlansAssumption` |
| `Composition_proofs` | `NothingIsLost` | `PlansAssumption` |

The assumptions are those the modules declare of their constants; TLC evaluates them in every run. Two say more than the kind of a constant. `ProcessAssumption` has `None` apart from the numbers, since a time that is absent is an `Option` in the code. `PlansAssumption` (`WellPlanned`) is what the planners give every plan: each unit an id of its own ("Unique within the file; judgments refer to it"), a file, one of the catalogue's rules and what that rule needs (a custom question its strength, a pair of documents its two sections), finitely many of them, follow-ups that ask something, staleness checks and pair checks only as follow-ups, finished plans as staleness units, and questions of the settle, kind and confirm requests that no other request asks of the unit: `settle.rs`, `security/mod.rs` and the kind requests of `comments.rs`, `drift.rs` and `documents.rs` each put a question of its own name (`LateAsks`). Answers are not restricted: any percentages, in any combination.

- **HookTurn.** `BlockCap` is not inductive: the cap is the file's count, and hooks that loaded the file earlier may save it back. The invariant has three parts. `TypeInv` adds to the type that a hook waiting for its check has a snapshot and, at a stop, a turn. `PhaseInv` says which hooks can be active in which phase of the agent: after-edit hooks side by side, any other hook alone, and that only stops block. `CapInv` relates the counts: the file, and every copy an active hook may save back, counts at least the blocks the agent got since the prompt (or the session is about to begin anew), and a block still undelivered is counted already. What a turn keeps in a session no one disturbs (`KeptInv`) is stated against the time between two turns (`Between`: the agent is idle, a stop that ended the turn is answered, or the person's turn start has not begun the turn). Outside it the file is there, starts where the turn truly started and is not marked unchecked (`SinceInv`); inside it the file alone carries an unchecked start, which is why the mark must survive until a turn start (`DebtInv`). Every copy that may be saved back is the file or, with parallel edits, of the same turn with the same start (`CopyInv`), so a save never moves the start; that is also why only the named files and not the start are lost to parallel edits. `OwedInv` and `UnseenInv` say the same of the notice and the nested files. `NoRepeatedBlock` needs none of this: until a stop ends the turn the file keeps the tree of the last block delivered (`LastInv`), by `CapInv` in every copy too. A hook that could not read the turn has lost the count, so these two say what they say unless `lost`, and the properties of the turn's start are claimed where the file is read. Where no hook starts a turn, no hook runs between two turns (`StartInv`), and the file itself, not its mark, is what the next turn begins with: `DebtInv` then has `debt` the file's tree from the first stop on.
- **HookProcess.** `ClaimInv` has four parts. `Marks`: a mark is one of a process that owns it and works, or of one that was killed; a fresh one is of the latest sending, and an older sending's stays only while a process of this one is on its way to remove it, or was killed. `Silents`: in a sending with a silent process there is one that works, answered or was killed (`Working`, `Trusted`), since whoever goes silent has read a fresh mark. `Ends` and `Members` say how a process ends and that one at work is of the latest sending. `LockInv` adds to `LockGoesWithStore` the program points at which a Store can be open or its file be with a child, and that a check about to end has its Store, so that a `Drop` never unlocks another's file. `OutageInv` bounds the recorded failure by the last one met. `HeldOnce` speaks of hooks that run one after another, which first has to be said of processes (`OneAtATime`: at most one is between its start and its end). Then, until `Wait` after a failure that no answer followed, the failure is recorded, or the hook that met it is still about to record it (`Recorded`), and every hook at work either waits the failure out or is that one (`Excused`); so none can meet another (`WaitedOut`).
- **Requests.** The request budget: the requests counted plus those queued or sent never exceed the ceiling, which `Hold` establishes (a lemma shows that of a set of numbers at most n have fewer than n before them) and each later step keeps. The dollar budget: without reuse, a batch's buffer is newer than every address priced before, and an address of this batch is priced only when its request was sent; so what was sent is what was priced. The answers: with `--refresh` what an open request holds was answered by this check (`RefreshInv`), as it carries nothing and reads only what was. Where answers last, `LastingInv` adds that what receipts gave is what the cache keeps (`KeptInv`), that an open request agrees with the cache (`Agrees`), and what its look-up left it lacking: nothing that is owned (`LacksNoneOwned`), and in the last look-up nothing kept but what the check answered since (`LacksNoneKept`). The last rests on the second look-up copying nothing, since the first carried all there was (`NoneToCarry`): one copy after another request was looked up would leave that one to ask, and to overwrite, what the cache holds. So an answer saved is new to the cache, or to the check when it refreshes, and no receipt's answer is ever replaced.
- **Transport.** `IInv` joins the parts each bound needs: a claimed item is one worker's and unfinished until it has its outcome (`Apart`, `Unfinished`), an unclaimed one is untouched (`Fresh`), and a worker's retries count the sends of its item (`SendsCounted`). `Billed` leaves room for one more billed send wherever a send may follow; `Priced` says that whatever passed `before` is priced; `Stopping` that a worker which sent late stands past the checks. The refinement's steps follow: a send finds its item unfinished and below the limit, an outcome is given once.
- **Publication.** `IInv` has four parts. `TypeInv` types sessions, reports and readers. `LockInv`: of the sessions between taking the lock and ending there is one, so that no other publishes. `HistoryInv`: what `LatestInHistory` and `SettledStays` need of the files after every crash. `SessionsInv` says of each session what its report holds by its step: `Progress` (what is judged, composed and settled, and what its code follows from), `Stored` (its report follows latest, and what history has of it) and `Abreast` (a file that was not edited since the last `verify_current` has the text it was judged by, and only a turn in progress has a hook's check). `SettledStays` and `PassIsSound` are read off the steps that publish and settle from there. `EntriesKept` needs `CommandsInv` beside: a command in flight writes what its operation made of the entries it read, and as long as nobody overlapped it, nobody else is between truncation and write, so that the file it truncated stays unreadable until it writes. `LineageUnbroken` compares two settled reports with any number of unsettled ones between them: `Precedes` says which generation is the last settled one before another without a broken end between, `Accounts` what the later owes the earlier, and `Linked` what each session's report owes by its step, a watcher's through the report it keeps as its baseline. `LogRefined` needs that a generation below the latest settled one never alters (`LogGrows`), also when its file is pruned: `LogInv` says that what the reader was told, and what it has read of a reply in progress, are those changes from its cursor on, and each step is then an append, a read, or a stutter of `ChangeLog`.
- **Judging.** `StagesInOrder` is the invariant `Inv`: `Typed`; `Dispatched` (a pending request is a follow-up of one unit, whose answers still call for it: `Fresh`); `Timely` (a pass holds answers only from its stage on and of the rules that have it); `Unasked` (what a late follow-up asks is answered nowhere before its receipt). The last is why the late answers can only add questions: merged, they extend what the unit had (`SecurityExtends`, `ConfirmExtends`). What a rule makes of extended answers is then a comparison per rule: settled checks are the same or clear (`SettledChecksKept`), so an injection's and an exposure's rank do not rise (`InjectionSettled`, `ExposureSettled`), and a confirm leaves the level or makes it a note (`SecurityConfirmed`, `ConfirmLowers`). `DecidedStays` adds a case for each earlier stage: a check of a document not yet asked (`DocCheckUndecided`), a recheck that replaces answers of an open unit only when it decides (`RecheckDecides`), a kind (`KindDecides`). `NoneLeftDue` is `OwedIsHeld`: what the answers now call for of a stage already asked (`Owes`) is pending or was refused. `OwedBefore` has the argument, a case for each stage: an answer of a later stage never makes a follow-up of an earlier one due, and an answer of its own stage ends it. A settle asked only of undecided units is owed only until the first settle is answered, which is the exception the property makes (`LateSettle`). Files depend on one another only by their finished plans, which the first pass settles (`FinishedKept`).
- **Pushes.** The set `OnRemotes` of what the remotes are known to have is closed under ancestors, and whatever base `sent` picks is in it (`BaseOnRemotes`); trees of its members may be on a remote (`RemotesSafe`), so what a commit adds beyond its base is what is judged. `RefsInv` and `PushInv` carry that through fetches, pushes and the hook's loop: what may be on a remote stays so, as commits never change. `OwnWorkOnly` rests on the shape of the graph (`Crossed`: between a commit and an ancestor a remote has lies a boundary commit) and on each boundary commit having an independent one above it (`UnderIndependent`). Both are facts about paths and maxima that the prover cannot get by induction over data; they are kept as invariants of a graph that grows one commit at a time (`Crossed`, `LastOnes`).
- **Composition.** `NothingLost` is about what `Compose` computes, so the invariant itself is small: `ComposedInv` adds to `Inv` the presence of units and that the report of an evaluation that is done is the one composed of its judgments (`ReportComposed`); it holds because no receipt comes after. The work is in the operators. Every unit resolves to an outcome of some level, also limited (`LimitedLevels`). The counts of a rule are cardinalities of sets of its units that share no member (`CountsShape`) and so add up (`CountsAddUp`), also at one level. A file as composed is then sound (`SoundFile`): its counts add up to its units, its status is that of its findings and counts (`StatusStands`, `FindingsStand`), and what it holds are findings of judged units; each unit that shows is named by one (`UnitsStand`). A merge whose members are findings of the files, each of one unit, keeps files sound and keeps the units that findings still reported name (`MergeSound`, `KeptIds`), and the merges of plans and of repetitions are such merges (`PlansMerge`, `SectionsMerge`, each with the head one of the members); the one level reports what is left. That no count goes below zero (`ComposedCounts`) compares what is subtracted with what was counted: a group's pairs are units counted as notes, and the findings two merges lower in a file are at most those that its rule shows as reviews, since no finding is both a plan and a repetition (`LoweredKinds`, `MergedCounts`). Of the groups of linked findings (`Components`) the argument needs only that each is a set of the findings given, so no induction over them.

Only model-checked: all liveness (`AgentReleased`, `WatcherCatchesUp`, `ReaderCatchesUp`, the fairness of `QueueRefined`). Temporal formulas under fairness and `ENABLED` are beyond the proof system. Every safety invariant and action property a passing run checks is stated by a theorem.

## 6. Not modelled

Within the modelled components: the wording of replies, pruning of week-old turn files and their size caps (`MAX_BYTES`, `MAX_REPORTED`), `ProviderAccess::reset` between two reviews of one process, jitter of the backoff, the credential dialog, token calibration and usage shares, what test files hold (`resolve_purposes`, one more dispatch before planning), the guards on weakened tests and ignore rules, quotes, fingerprints and ranks of findings, the copies a changed-lines report points at (`units/untouched.rs`), the server's `/snapshot` and `/evidence`.

Planning of units, static analysis, documents, test locations and file kinds are functions of source text over syntax trees: their state is a parse, which TLC can only be given, not derive; they are constants of the models (`Plans`, `Found`, `Broken`). They are most of the code's lines, and the reason the map's share of it is small. Configuration and options parse files and flags; output formats; the rest of Git revisions, and credentials, wrap other programs; rule tests and proposals are commands over labelled examples that call the components above; npm and the plugin launch the binary.
