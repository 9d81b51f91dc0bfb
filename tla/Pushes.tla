------------------------------- MODULE Pushes -------------------------------
(* What a push sends and what its hook judges (`check --pre-push`): the     *)
(* commits of a clone and of its remotes, Git's refs, and a pre-push hook   *)
(* that checks each pushed ref against what the remotes have                *)
(* (src/src/revision/push.rs, src/src/check.rs, src/src/command.rs), while  *)
(* the person, a fetch and colleagues go on.                                *)
(*                                                                          *)
(* A change is named by the number of the commit that introduced it; a      *)
(* commit's tree is the set of changes in it and in its ancestors.  Git     *)
(* itself is external: commits, merges, rebases and the update of refs.     *)
EXTENDS Naturals, FiniteSets

CONSTANTS
  Heads,       \* local branches
  RemoteRefs,  \* the refs of the remotes, each with a remote-tracking ref
  Budgets      \* bounds: how often each actor steps in a run

Actors == {"person", "push", "fetch", "colleague"}

ASSUME PushesAssumption == Budgets \subseteq [Actors -> Nat]

VARIABLES
  commits,   \* commit number -> parents, changes, ancestors, first-parent line
  heads,     \* local branch -> commit, 0 before it is born
  tracking,  \* remote ref -> commit the clone last saw there, 0 for none
  remote,    \* remote ref -> commit, 0 for none
  have,      \* the commits whose objects the clone has
  setup,     \* whether Git can merge trees, and on_incomplete passes
  push,      \* the push under way and its hook
  passed,    \* changes that passed a check of a push
  excused,   \* changes of pushes that were said not to be checked
  left       \* bound: what is left of the run's budget

clone == <<heads, have>>
vars == <<commits, heads, tracking, remote, have, setup, push, passed, excused, left>>

-----------------------------------------------------------------------------
(* Commits *)

Ids == DOMAIN commits
Spend(actor) == left[actor] > 0 /\ left' = [left EXCEPT ![actor] = @ - 1]

Known(c) == c # 0 /\ c \in have
Tree(c) == UNION {commits[d].adds : d \in commits[c].above}
Parents(c) == {commits[c].first, commits[c].second} \ {0}

New == Cardinality(Ids) + 1
Theirs == {n \in Ids : ~commits[n].ours}

\* The commit `New`, with parents `first` and `second` (0 for none).
Records(first, second, adds, ours) ==
  LET from == {first, second} \ {0}
      line == IF first = 0 THEN {} ELSE commits[first].line
      commit == [first |-> first, second |-> second, adds |-> adds, ours |-> ours,
                 above |-> {New} \cup UNION {commits[p].above : p \in from},
                 line |-> {New} \cup line]
  IN commits' = [c \in Ids \cup {New} |-> IF c = New THEN commit ELSE commits[c]]

-----------------------------------------------------------------------------
(* What pushing a commit sends (push::sent) *)

\* What a remote has, as far as the clone can tell: what its remote-tracking
\* refs reach, and the pushed ref's own commit when the clone has it.
OnRemotes(theirs) ==
  LET tips == {tracking[r] : r \in RemoteRefs} \cup {theirs} IN
  UNION {commits[c].above : c \in {t \in tips : Known(t)}}

\* Commits no remote has, and the commits a remote has that they grow from.
Listed(c, theirs) == commits[c].above \ OnRemotes(theirs)
Boundary(c, theirs) ==
  OnRemotes(theirs) \cap UNION {Parents(d) : d \in Listed(c, theirs)}

\* Of some commits, those no other one descends from.
Independent(cs) == {c \in cs : \A d \in cs \ {c} : c \notin commits[d].above}

\* Git merges two trees in a repository when it is new enough, and only of
\* histories that share a commit (push::merged).
Merges(one, other) ==
  setup.merges /\ commits[one].above \cap commits[other].above # {}

\* The first commit on the first-parent line that a remote has.
OnLine(c, theirs) == commits[c].line \cap OnRemotes(theirs)
FirstParent(c, theirs) ==
  CHOOSE d \in OnLine(c, theirs) :
    \A e \in OnLine(c, theirs) : e \in commits[d].above

\* One commit, or two that Git merges.
Comparable(cs) ==
  \E one, other \in cs : cs = {one, other} /\ (one = other \/ Merges(one, other))

\* Mutant: the first-parent line alone.
BaseOnLine(c, theirs) == {FirstParent(c, theirs)}

\* What the push is compared with: of the commits it grows from the last
\* ones, merged if they are two, else the one on its first-parent line.
Base(c, theirs) ==
  LET grown == Independent(Boundary(c, theirs)) IN
  IF Comparable(grown) THEN grown ELSE {FirstParent(c, theirs)}

Sent(update) ==
  LET c == update.local  theirs == update.remote
      sends == [kind |-> "nothing", base |-> {}, commit |-> c] IN
  IF c = 0 \/ Listed(c, theirs) = {} THEN sends
  ELSE IF OnLine(c, theirs) = {} THEN [sends EXCEPT !.kind = "unrooted"]
  ELSE [sends EXCEPT !.kind = "commits", !.base = Base(c, theirs)]

\* What a check of that judges: the changes of the commit its base lacks.
Judged(sent) == Tree(sent.commit) \ UNION {Tree(b) : b \in sent.base}

-----------------------------------------------------------------------------
(* The hook (check::pre_push, command::check) *)

NoPush == [pc |-> "idle", refs |-> {}, todo |-> {}, judged |-> {}, code |-> 0,
           failed |-> FALSE]

First == [first |-> 0, second |-> 0, adds |-> {1}, ours |-> FALSE,
          above |-> {1}, line |-> {1}]

\* An empty repository with empty remotes, or a clone of one that has a commit.
Init ==
  /\ \/ /\ commits = <<>> /\ have = {} /\ remote = [r \in RemoteRefs |-> 0]
        /\ heads = [h \in Heads |-> 0]
     \/ /\ commits = <<First>> /\ have = {1} /\ heads = [h \in Heads |-> 1]
        /\ \E r \in RemoteRefs : remote = [q \in RemoteRefs |-> IF q = r THEN 1 ELSE 0]
  /\ tracking = remote
  /\ setup \in [merges: BOOLEAN, passes: BOOLEAN]
  /\ push = NoPush /\ passed = {} /\ excused = {} /\ left \in Budgets

\* Git reads the remote's refs and starts the hook with those it will push:
\* it leaves out what is there already, and without --force what would not
\* be a fast-forward.  A local commit 0 deletes the ref.
BeginPush ==
  \E targets \in SUBSET RemoteRefs, force \in BOOLEAN :
    \E source \in [targets -> {heads[h] : h \in Heads} \cup {0}] :
      LET refs == {[ref |-> r, local |-> source[r], remote |-> remote[r]] : r \in targets} IN
      /\ push.pc = "idle" /\ Spend("push") /\ targets # {}
      /\ \A u \in refs :
           /\ u.local # u.remote
           /\ ~force /\ u.remote # 0 /\ u.local # 0 => u.remote \in commits[u.local].above
      /\ push' = [NoPush EXCEPT !.pc = "hook", !.refs = refs, !.todo = refs]
      /\ UNCHANGED <<commits, clone, tracking, remote, setup, passed, excused>>

\* The changes of every ref of the push.
Pushed == UNION {Tree(u.local) : u \in {v \in push.refs : v.local # 0}}

\* The hook goes on with the next ref; `code` is the exit code of this one.
Checked(u, judged, code) ==
  push' = [push EXCEPT !.todo = @ \ {u}, !.judged = @ \cup judged,
                       !.code = IF code > @ THEN code ELSE @,
                       !.failed = @ \/ code = 1]

\* An incomplete check lets through what `on_incomplete` lets it, saying so.
Incomplete(u, judged, changes) ==
  /\ Checked(u, judged, IF setup.passes THEN 0 ELSE 2)
  /\ excused' = IF setup.passes THEN excused \cup changes ELSE excused
  /\ UNCHANGED passed

\* Mutant: refs that grow from the same commits are taken for the same.
SkipRefOfBase(u) ==
  LET sent == Sent(u) IN
  /\ \/ sent.kind = "nothing"
     \/ sent.kind = "commits" /\ sent.base \in {change[1] : change \in push.judged}
  /\ Checked(u, {}, 0)
  /\ UNCHANGED <<passed, excused>>

\* A ref that sends nothing, or what an earlier ref of this push sent.
SkipRef(u) ==
  LET sent == Sent(u) IN
  /\ \/ sent.kind = "nothing"
     \/ sent.kind = "commits" /\ <<sent.base, sent.commit>> \in push.judged
  /\ Checked(u, {}, 0)
  /\ UNCHANGED <<passed, excused>>

\* Nothing on a remote to compare with.
UnrootedRef(u) ==
  /\ Sent(u).kind = "unrooted"
  /\ Incomplete(u, {}, Tree(u.local))

\* check::run judges the change and exits with its gate's code.
JudgeRef(u) ==
  LET sent == Sent(u)  change == <<sent.base, sent.commit>> IN
  /\ sent.kind = "commits" /\ change \notin push.judged
  /\ \/ Checked(u, {change}, 0) /\ passed' = passed \cup Judged(sent) /\ UNCHANGED excused
     \/ Checked(u, {change}, 1) /\ UNCHANGED <<passed, excused>>
     \/ Incomplete(u, {change}, Judged(sent))

CheckRef ==
  /\ push.pc = "hook"
  /\ \E u \in push.todo : SkipRef(u) \/ UnrootedRef(u) \/ JudgeRef(u)
  /\ UNCHANGED <<commits, clone, tracking, remote, setup, left>>

\* The hook exits 0, having said that the push was not checked.
LetsThrough(failed) ==
  /\ push' = [push EXCEPT !.pc = "send", !.failed = failed]
  /\ excused' = excused \cup Pushed

\* Git or a check fails with an error: every ref's change goes through, or
\* none does.
HookFails ==
  /\ push.pc = "hook" /\ push.todo # {}
  /\ \/ setup.passes /\ LetsThrough(push.failed)
     \/ ~setup.passes /\ push' = NoPush /\ UNCHANGED excused
  /\ UNCHANGED <<commits, clone, tracking, remote, setup, passed, left>>

\* The person presses Enter, or ends the hook by a signal.
SkipHook ==
  /\ push.pc = "hook"
  /\ LetsThrough(FALSE) \/ (push' = NoPush /\ UNCHANGED excused)
  /\ UNCHANGED <<commits, clone, tracking, remote, setup, passed, left>>

HookEnds ==
  /\ push.pc = "hook" /\ push.todo = {}
  /\ push' = IF push.code = 0 THEN [push EXCEPT !.pc = "send"] ELSE NoPush
  /\ UNCHANGED <<commits, clone, tracking, remote, setup, passed, excused, left>>

\* Git updates each remote ref that is still what it was when the push began,
\* and its remote-tracking ref.
Send ==
  LET taken == {u \in push.refs : remote[u.ref] = u.remote}
      Updated(refs) == [r \in RemoteRefs |->
        IF \E u \in taken : u.ref = r THEN (CHOOSE u \in taken : u.ref = r).local
        ELSE refs[r]] IN
  /\ push.pc = "send"
  /\ remote' = Updated(remote) /\ tracking' = Updated(tracking)
  /\ push' = NoPush
  /\ UNCHANGED <<commits, clone, setup, passed, excused, left>>

-----------------------------------------------------------------------------
(* The person's Git, in any terminal and at any time *)

Local == Spend("person") /\ UNCHANGED <<tracking, remote, setup, push, passed, excused>>

\* The person's new commit becomes the head of a branch.
Commits(h, first, second, adds) ==
  /\ Records(first, second, adds, TRUE)
  /\ heads' = [heads EXCEPT ![h] = New] /\ have' = have \cup {New}

Commit(h) == Commits(h, heads[h], 0, {New}) /\ Local

\* A merge, of unrelated histories too; how it was resolved is its change.
Merge(h, c) ==
  /\ heads[h] # 0 /\ c \notin commits[heads[h]].above
  /\ IF heads[h] \in commits[c].above
     THEN heads' = [heads EXCEPT ![h] = c] /\ UNCHANGED <<commits, have>>
     ELSE Commits(h, heads[h], c, {New})
  /\ Local

\* A rebase onto `c`, its commits made one.
Rebase(h, c) ==
  LET adds == Tree(heads[h]) \ Tree(c) IN
  /\ heads[h] # 0 /\ adds # {} /\ c \notin commits[heads[h]].above
  /\ Commits(h, c, 0, adds) /\ Local

\* A branch begins at, or is reset to, a commit.
Reset(h, c) ==
  /\ heads[h] # c /\ heads' = [heads EXCEPT ![h] = c]
  /\ UNCHANGED <<commits, have>> /\ Local

\* A fetch, with --prune or without.
Fetch ==
  /\ \E prune \in BOOLEAN :
       tracking' = [r \in RemoteRefs |->
                      IF remote[r] = 0 /\ ~prune THEN tracking[r] ELSE remote[r]]
  /\ have' = have \cup UNION {commits[remote[r]].above :
                                r \in {q \in RemoteRefs : remote[q] # 0}}
  /\ Spend("fetch")
  /\ UNCHANGED <<commits, heads, remote, setup, push, passed, excused>>

\* Colleagues commit to a remote's ref, merge or squash another ref into it,
\* or make it another's commit or delete it.
Colleague(r) ==
  /\ \/ /\ \/ Records(remote[r], 0, {New}, FALSE)
          \/ \E q \in RemoteRefs \ {r} :
               /\ remote[r] # 0 /\ remote[q] # 0
               /\ \/ Records(remote[r], remote[q], {}, FALSE)
                  \/ Records(remote[r], 0, Tree(remote[q]) \ Tree(remote[r]), FALSE)
       /\ remote' = [remote EXCEPT ![r] = New]
     \/ /\ \E c \in {remote[q] : q \in RemoteRefs} \cup {0} :
            remote[r] # c /\ remote' = [remote EXCEPT ![r] = c]
        /\ UNCHANGED commits
  /\ Spend("colleague")
  /\ UNCHANGED <<clone, tracking, setup, push, passed, excused>>

\* What the person names: a branch or a remote-tracking ref.
Tips == ({heads[h] : h \in Heads} \cup {tracking[r] : r \in RemoteRefs}) \ {0}

PersonStep ==
  \E h \in Heads :
    \/ Commit(h)
    \/ \E c \in Tips : Merge(h, c) \/ Rebase(h, c) \/ Reset(h, c)

HookStep == CheckRef \/ HookFails \/ SkipHook \/ HookEnds

Next ==
  \/ BeginPush \/ HookStep \/ Send
  \/ PersonStep \/ Fetch \/ \E r \in RemoteRefs : Colleague(r)

Spec == Init /\ [][Next]_vars

-----------------------------------------------------------------------------
(* Properties *)

\* Each change a remote holds passed a check of the push that brought it, or
\* the hook said that it was not checked, or a colleague made it: whatever
\* was merged, rebased, fetched, force-pushed or deleted before, and
\* whatever happened while the hook ran (push::sent, check::pre_push).
NothingUnjudged ==
  \A r \in RemoteRefs :
    remote[r] # 0 => Tree(remote[r]) \subseteq passed \cup excused \cup Theirs

\* A push is judged for the changes of its own commits alone, never for what
\* it merged from a remote, unless it grows from more than two commits of
\* the remotes, or Git cannot merge them (push::sent).
OwnWorkOnly ==
  \A c \in {heads[h] : h \in Heads}, theirs \in {remote[r] : r \in RemoteRefs} \cup {0} :
    LET sent == Sent([local |-> c, remote |-> theirs]) IN
    sent.kind = "commits" /\ Comparable(Independent(Boundary(c, theirs))) =>
      Judged(sent) \subseteq UNION {commits[d].adds : d \in Listed(c, theirs)}

\* A push goes on only when none of its checks failed the gate, for the
\* exit code is the highest of them (check::pre_push), unless the person
\* skips the hook.
FailedGateStops == push.pc = "send" => ~push.failed
=============================================================================
