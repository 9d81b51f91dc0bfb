--------------------------- MODULE Pushes_proofs ---------------------------
(* Theorems about Pushes.                                                  *)
EXTENDS Pushes, FiniteSetTheorems, TLAPS

-----------------------------------------------------------------------------
(* The graph of commits *)

\* A set of commits that holds the ancestors of its members.
Closed(K) == \A d \in K : commits[d].above \subseteq K

\* Commits are numbered as they come, after their ancestors; those of a
\* first-parent line descend from one another.
Numbered ==
  /\ \E n \in Nat : Ids = 1..n
  /\ \A c \in Ids :
       /\ Parents(c) \subseteq commits[c].above
       /\ c \in commits[c].above /\ commits[c].above \subseteq 1..c
       /\ \A d \in commits[c].above : commits[d].above \subseteq commits[c].above
       /\ commits[c].line \subseteq commits[c].above
       /\ \A d, e \in commits[c].line : e <= d => e \in commits[d].above

\* Every set of commits has a last one.
LastOnes == \A S \in SUBSET Ids : S # {} => \E m \in S : \A d \in S : d <= m

\* Between a commit and an ancestor in a closed set lies one of that set
\* which a commit outside of it has as a parent.
Crossing(c, K, d) ==
  \E e \in commits[c].above \ K : \E b \in Parents(e) \cap K : d \in commits[b].above
Crossed ==
  \A c \in Ids, K \in SUBSET Ids :
    Closed(K) /\ c \notin K => \A d \in commits[c].above \cap K : Crossing(c, K, d)

Graph == Numbered /\ LastOnes /\ Crossed

LEMMA NewNumber == Numbered => New \in Nat \ {0} /\ New \notin Ids /\ Ids = 1..(New - 1)
<1> SUFFICES ASSUME Numbered PROVE New \in Nat \ {0} /\ New \notin Ids /\ Ids = 1..(New - 1)
  OBVIOUS
<1>1. PICK n \in Nat : Ids = 1..n
  BY DEF Numbered
<1>2. Cardinality(1..n) = n
  BY FS_Interval
<1> QED
  BY <1>1, <1>2 DEF New

\* What Records does to the commits.
LEMMA Recorded ==
  ASSUME NEW first, NEW second, NEW adds, NEW ours, Records(first, second, adds, ours),
         Numbered
  PROVE  LET from == {first, second} \ {0} IN
         \E n \in Nat \ {0} :
           /\ n = New /\ n \notin Ids /\ Ids = 1..(n - 1) /\ Ids' = 1..n
           /\ Ids' = Ids \cup {n} /\ \A c \in Ids : commits'[c] = commits[c]
           /\ commits'[n].first = first /\ commits'[n].second = second
           /\ commits'[n].adds = adds /\ commits'[n].ours = ours
           /\ commits'[n].above = {n} \cup UNION {commits[p].above : p \in from}
           /\ commits'[n].line = {n} \cup (IF first = 0 THEN {} ELSE commits[first].line)
<1>1. PICK n : n = New
  OBVIOUS
<1>2. n \in Nat \ {0} /\ n \notin Ids /\ Ids = 1..(n - 1)
  BY <1>1, NewNumber
<1>3. /\ Ids' = Ids \cup {n} /\ \A c \in Ids : commits'[c] = commits[c]
      /\ commits'[n].first = first /\ commits'[n].second = second
      /\ commits'[n].adds = adds /\ commits'[n].ours = ours
      /\ commits'[n].above = {n} \cup UNION {commits[p].above : p \in {first, second} \ {0}}
      /\ commits'[n].line = {n} \cup (IF first = 0 THEN {} ELSE commits[first].line)
  BY <1>1, <1>2 DEF Records, Ids
<1>4. Ids' = 1..n
  BY <1>2, <1>3
<1> QED
  BY <1>1, <1>2, <1>3, <1>4

\* The graph stays one when a commit is recorded whose parents it has.
LEMMA GraphGrows ==
  ASSUME Graph, NEW first \in Ids \cup {0}, NEW second \in Ids \cup {0},
         NEW adds, NEW ours, Records(first, second, adds, ours)
  PROVE  Graph'
<1> DEFINE from == {first, second} \ {0}
<1>1. PICK n \in Nat \ {0} :
           /\ n \notin Ids /\ Ids = 1..(n - 1) /\ Ids' = 1..n
           /\ Ids' = Ids \cup {n} /\ \A c \in Ids : commits'[c] = commits[c]
           /\ commits'[n].first = first /\ commits'[n].second = second
           /\ commits'[n].above = {n} \cup UNION {commits[p].above : p \in from}
           /\ commits'[n].line = {n} \cup (IF first = 0 THEN {} ELSE commits[first].line)
  BY Recorded DEF Graph
<1>2. from \subseteq Ids /\ \A p \in Ids : p < n
  BY <1>1
<1> HIDE DEF from
<1>3. \A c \in Ids : /\ c \in commits[c].above /\ commits[c].above \subseteq 1..c
                     /\ \A d \in commits[c].above : commits[d].above \subseteq commits[c].above
                     /\ commits[c].line \subseteq commits[c].above
                     /\ \A d, e \in commits[c].line : e <= d => e \in commits[d].above
                     /\ {commits[c].first, commits[c].second} \ {0} \subseteq commits[c].above
  BY DEF Graph, Numbered, Parents
<1>4. \A c \in Ids : commits[c].above \subseteq Ids
  BY <1>1, <1>3
<1>5. {commits'[n].first, commits'[n].second} \ {0} = from
  BY <1>1 DEF from
<1>6. Numbered'
  <2>1. ASSUME NEW c \in Ids
        PROVE /\ {commits'[c].first, commits'[c].second} \ {0} \subseteq commits'[c].above
              /\ c \in commits'[c].above /\ commits'[c].above \subseteq 1..c
              /\ \A d \in commits'[c].above : commits'[d].above \subseteq commits'[c].above
              /\ commits'[c].line \subseteq commits'[c].above
              /\ \A d, e \in commits'[c].line : e <= d => e \in commits'[d].above
    <3>1. commits'[c] = commits[c] /\ \A d \in commits[c].above : commits'[d] = commits[d]
      BY <1>1, <1>4
    <3>2. commits[c].line \subseteq commits[c].above
      BY <1>3
    <3> QED
      BY <3>1, <3>2, <1>3
  <2>2. /\ {commits'[n].first, commits'[n].second} \ {0} \subseteq commits'[n].above
        /\ n \in commits'[n].above /\ commits'[n].above \subseteq 1..n
    BY <1>1, <1>2, <1>3, <1>4, <1>5
  <2>3. ASSUME NEW d \in commits'[n].above
        PROVE  commits'[d].above \subseteq commits'[n].above
    <3>1. CASE d = n
      BY <3>1
    <3>2. CASE d # n
      <4>1. PICK p \in from : d \in commits[p].above
        BY <1>1, <3>2
      <4>2. commits'[d] = commits[d] /\ commits[d].above \subseteq commits[p].above
        BY <4>1, <1>1, <1>2, <1>3, <1>4
      <4> QED
        BY <4>1, <4>2, <1>1
    <3> QED
      BY <3>1, <3>2
  <2>4. /\ commits'[n].line \subseteq commits'[n].above
        /\ \A d, e \in commits'[n].line : e <= d => e \in commits'[d].above
    <3>1. CASE first = 0
      BY <3>1, <1>1
    <3>2. CASE first # 0
      <4>1. first \in from /\ first \in Ids
        BY <3>2 DEF from
      <4>2. /\ commits[first].line \subseteq commits[first].above
            /\ commits[first].above \subseteq Ids
            /\ \A d, e \in commits[first].line : e <= d => e \in commits[d].above
        BY <4>1, <1>3, <1>4
      <4>3. commits'[n].line = {n} \cup commits[first].line
        BY <1>1, <3>2
      <4>4. commits'[n].line \subseteq commits'[n].above
        BY <4>1, <4>2, <4>3, <1>1
      <4>5. ASSUME NEW d \in commits'[n].line, NEW e \in commits'[n].line, e <= d
            PROVE  e \in commits'[d].above
        <5>1. CASE d = n
          BY <5>1, <4>4
        <5>2. CASE d # n
          <6>1. d \in commits[first].line /\ d \in Ids
            BY <5>2, <4>2, <4>3
          <6>2. e # n /\ e \in commits[first].line
            BY <6>1, <1>2, <4>2, <4>3, <4>5, <1>1
          <6> QED
            BY <6>1, <6>2, <4>2, <4>5, <1>1
        <5> QED
          BY <5>1, <5>2
      <4> QED
        BY <4>4, <4>5
    <3> QED
      BY <3>1, <3>2
  <2>5. \E k \in Nat : Ids' = 1..k
    BY <1>1
  <2> QED
    BY <2>1, <2>2, <2>3, <2>4, <2>5, <1>1 DEF Numbered, Parents
<1>7. LastOnes'
  <2> SUFFICES ASSUME NEW S \in SUBSET (Ids'), S # {}
               PROVE  \E m \in S : \A d \in S : d <= m
    BY DEF LastOnes
  <2>1. CASE n \in S
    <3>1. \A d \in S : d <= n
      BY <1>1
    <3> QED
      BY <2>1, <3>1
  <2>2. CASE n \notin S
    <3>1. S \in SUBSET Ids
      BY <2>2, <1>1
    <3> QED
      BY <3>1 DEF Graph, LastOnes
  <2> QED
    BY <2>1, <2>2
<1>8. Crossed'
  <2> SUFFICES ASSUME NEW c \in Ids', NEW K \in SUBSET (Ids'), Closed(K)', c \notin K,
                      NEW d \in commits'[c].above \cap K
               PROVE  \E e \in commits'[c].above \ K :
                        \E b \in ({commits'[e].first, commits'[e].second} \ {0}) \cap K :
                          d \in commits'[b].above
    BY DEF Crossed, Crossing, Parents
  <2> DEFINE K0 == K \ {n}
  <2>1. K0 \in SUBSET Ids /\ Closed(K0)
    <3>1. K0 \in SUBSET Ids
      BY <1>1
    <3>2. ASSUME NEW k \in K0 PROVE commits[k].above \subseteq K0
      <4>1. commits[k].above \subseteq K
        BY <3>1, <1>1 DEF Closed
      <4>2. n \notin commits[k].above
        BY <3>1, <1>1, <1>4
      <4> QED
        BY <4>1, <4>2
    <3> QED
      BY <3>1, <3>2 DEF Closed
  <2> HIDE DEF K0
  <2>2. ASSUME NEW p \in Ids, p \notin K, d \in commits[p].above
        PROVE  \E e \in commits[p].above \ K :
                 \E b \in ({commits'[e].first, commits'[e].second} \ {0}) \cap K :
                   d \in commits'[b].above
    <3>1. d \in K0 /\ p \notin K0
      BY <2>2, <1>1, <1>4 DEF K0
    <3>2. PICK e \in commits[p].above \ K0 :
            \E b \in ({commits[e].first, commits[e].second} \ {0}) \cap K0 :
              d \in commits[b].above
      BY <2>1, <2>2, <3>1 DEF Graph, Crossed, Crossing, Parents
    <3>3. e \in Ids /\ e \notin K
      BY <3>2, <1>1, <1>4 DEF K0
    <3>4. PICK b \in ({commits[e].first, commits[e].second} \ {0}) \cap K0 :
              d \in commits[b].above
      BY <3>2
    <3>5. b \in Ids /\ b \in K /\ commits'[b] = commits[b] /\ commits'[e] = commits[e]
      BY <3>3, <3>4, <2>1, <1>1 DEF K0
    <3> QED
      BY <3>2, <3>3, <3>4, <3>5
  <2>3. CASE c \in Ids
    BY <2>2, <2>3, <1>1
  <2>4. CASE c = n
    <3>1. PICK p \in from : d \in commits[p].above
      BY <2>4, <1>1
    <3>2. p \in Ids /\ commits'[p] = commits[p] /\ commits[p].above \subseteq commits'[n].above
      BY <3>1, <1>1, <1>2
    <3>3. CASE p \in K
      BY <3>1, <3>2, <3>3, <2>4, <1>1, <1>5
    <3>4. CASE p \notin K
      BY <3>1, <3>2, <3>4, <2>2, <2>4
    <3> QED
      BY <3>3, <3>4
  <2> QED
    BY <2>3, <2>4, <1>1
<1> QED
  BY <1>6, <1>7, <1>8 DEF Graph

-----------------------------------------------------------------------------
(* What a push is compared with *)

\* Changes that may be on a remote.
Cleared == passed \cup excused \cup Theirs
Safe(c) == c \in Ids \cup {0} /\ (c # 0 => Tree(c) \subseteq Cleared)

\* The refs hold commits there are; what is on a remote may be there.
RefsInv ==
  /\ heads \in [Heads -> Ids \cup {0}]
  /\ tracking \in [RemoteRefs -> Ids \cup {0}] /\ remote \in [RemoteRefs -> Ids \cup {0}]
  /\ \A r \in RemoteRefs : Safe(tracking[r]) /\ Safe(remote[r])

\* What the remotes have, as far as the clone can tell, is closed.
LEMMA RemotesClosed ==
  ASSUME Graph, RefsInv, NEW theirs \in Ids \cup {0}
  PROVE  OnRemotes(theirs) \in SUBSET Ids /\ Closed(OnRemotes(theirs))
<1>1. \A c \in Ids : /\ commits[c].above \subseteq Ids
                     /\ \A d \in commits[c].above : commits[d].above \subseteq commits[c].above
  BY NewNumber DEF Graph, Numbered
<1>2. \A c \in {tracking[r] : r \in RemoteRefs} \cup {theirs} : Known(c) => c \in Ids
  BY DEF RefsInv, Known
<1> QED
  BY <1>1, <1>2 DEF OnRemotes, Closed

\* ... and may be there.
LEMMA RemotesSafe ==
  ASSUME Graph, RefsInv, NEW theirs, Safe(theirs), NEW c \in OnRemotes(theirs)
  PROVE  c \in Ids /\ Tree(c) \subseteq Cleared
<1>1. PICK t \in {tracking[r] : r \in RemoteRefs} \cup {theirs} :
        Known(t) /\ c \in commits[t].above
  BY DEF OnRemotes
<1>2. t \in Ids /\ Tree(t) \subseteq Cleared
  BY <1>1 DEF RefsInv, Safe, Known
<1>3. c \in Ids /\ commits[c].above \subseteq commits[t].above
  BY <1>1, <1>2, NewNumber DEF Graph, Numbered
<1> QED
  BY <1>2, <1>3 DEF Tree

\* The first commit on the first-parent line that a remote has.
LEMMA FirstParentOnLine ==
  ASSUME Graph, RefsInv, NEW theirs \in Ids \cup {0}, NEW c \in Ids, OnLine(c, theirs) # {}
  PROVE  FirstParent(c, theirs) \in OnLine(c, theirs)
<1>1. OnLine(c, theirs) \in SUBSET Ids
  BY RemotesClosed DEF OnLine
<1>2. PICK d \in OnLine(c, theirs) : \A e \in OnLine(c, theirs) : e <= d
  BY <1>1 DEF Graph, LastOnes
<1>3. \A e \in OnLine(c, theirs) : e \in commits[d].above
  BY <1>2 DEF OnLine, Graph, Numbered
<1> QED
  BY <1>2, <1>3 DEF FirstParent

\* A push is compared with commits a remote has.
LEMMA BaseOnRemotes ==
  ASSUME Graph, RefsInv, NEW theirs \in Ids \cup {0}, NEW c \in Ids, OnLine(c, theirs) # {}
  PROVE  Base(c, theirs) \subseteq OnRemotes(theirs)
<1>1. FirstParent(c, theirs) \in OnRemotes(theirs)
  BY FirstParentOnLine DEF OnLine
<1> QED
  BY <1>1 DEF Base, Independent, Boundary

\* What pushing a ref says of its commit: it may be on a remote, but for
\* what is judged.
LEMMA SentIsSafe ==
  ASSUME Graph, RefsInv, NEW u, u.local \in Ids, Safe(u.remote)
  PROVE  /\ Sent(u).commit = u.local
         /\ Sent(u).kind = "nothing" => Tree(u.local) \subseteq Cleared
         /\ Sent(u).kind = "commits" => Tree(u.local) \subseteq Judged(Sent(u)) \cup Cleared
<1> DEFINE c == u.local  theirs == u.remote
<1>1. c # 0 /\ theirs \in Ids \cup {0} /\ c \in commits[c].above
  BY NewNumber DEF Graph, Numbered, Safe
<1>2. CASE Listed(c, theirs) = {}
  <2>1. c \in OnRemotes(theirs)
    BY <1>1, <1>2 DEF Listed
  <2>2. Tree(c) \subseteq Cleared
    BY <2>1, RemotesSafe
  <2> QED
    BY <1>1, <1>2, <2>2 DEF Sent
<1>3. CASE Listed(c, theirs) # {} /\ OnLine(c, theirs) = {}
  BY <1>1, <1>3 DEF Sent
<1>4. CASE Listed(c, theirs) # {} /\ OnLine(c, theirs) # {}
  <2>1. /\ Sent(u).kind = "commits" /\ Sent(u).commit = c /\ Sent(u).base = Base(c, theirs)
    BY <1>1, <1>4 DEF Sent
  <2>2. \A b \in Base(c, theirs) : Tree(b) \subseteq Cleared
    BY <1>1, <1>4, BaseOnRemotes, RemotesSafe
  <2>3. Tree(c) \subseteq Judged(Sent(u)) \cup Cleared
    BY <2>1, <2>2 DEF Judged
  <2> QED
    BY <2>1, <2>3
<1> QED
  BY <1>2, <1>3, <1>4

\* Each commit a push grows from is above the last ones of them.
LEMMA UnderIndependent ==
  ASSUME Graph, NEW cs \in SUBSET Ids, NEW b \in cs
  PROVE  \E g \in Independent(cs) : b \in commits[g].above
<1> DEFINE S == {g \in cs : b \in commits[g].above}
<1>1. S \in SUBSET Ids /\ b \in S
  BY DEF Graph, Numbered
<1>2. PICK m \in S : \A d \in S : d <= m
  BY <1>1 DEF Graph, LastOnes
<1>3. ASSUME NEW d \in cs \ {m}, m \in commits[d].above
      PROVE  FALSE
  <2>1. d \in S
    BY <1>2, <1>3 DEF Graph, Numbered
  <2>2. d <= m /\ m <= d /\ d \in Nat /\ m \in Nat
    <3>1. m \in 1..d /\ d \in Nat /\ m \in Nat
      BY <1>1, <1>2, <1>3, NewNumber DEF Graph, Numbered
    <3> QED
      BY <2>1, <1>2, <3>1
  <2> QED
    BY <2>2, <1>3
<1> QED
  BY <1>2, <1>3 DEF Independent

\* What is judged of a push, when what it grows from can be compared with,
\* are changes of its own commits.
LEMMA JudgedIsListed ==
  ASSUME Graph, RefsInv, NEW theirs \in Ids \cup {0}, NEW c \in Ids,
         Listed(c, theirs) # {}, Comparable(Independent(Boundary(c, theirs)))
  PROVE  Tree(c) \ UNION {Tree(b) : b \in Independent(Boundary(c, theirs))}
           \subseteq UNION {commits[d].adds : d \in Listed(c, theirs)}
<1> DEFINE K == OnRemotes(theirs)
           grown == Independent(Boundary(c, theirs))
<1>1. K \in SUBSET Ids /\ Closed(K)
  BY RemotesClosed
<1>2. c \notin K
  BY <1>1 DEF Listed, Closed
<1>3. ASSUME NEW d \in commits[c].above \cap K
      PROVE  \E g \in grown : d \in commits[g].above
  <2>1. PICK e \in commits[c].above \ K :
               \E b \in Parents(e) \cap K : d \in commits[b].above
    BY <1>1, <1>2, <1>3 DEF Graph, Crossed, Crossing
  <2>2. PICK b \in Parents(e) \cap K : d \in commits[b].above
    BY <2>1
  <2>3. b \in Boundary(c, theirs) /\ Boundary(c, theirs) \in SUBSET Ids
    BY <1>1, <2>1, <2>2 DEF Boundary, Listed
  <2>4. PICK g \in grown : b \in commits[g].above
    BY <2>3, UnderIndependent
  <2>5. g \in Ids
    BY <2>3 DEF Independent
  <2> QED
    BY <2>2, <2>4, <2>5 DEF Graph, Numbered
<1> QED
  BY <1>3 DEF Tree, Listed

-----------------------------------------------------------------------------
(* The inductive invariant *)

Updates == [ref: RemoteRefs, local: Ids \cup {0}, remote: Ids \cup {0}]

\* What a push under way may rely on: where its refs were on the remote may
\* be there; as long as no check failed, so may what was checked; and so may
\* all of it once the hook let it through.
PushInv ==
  /\ push \in [pc: {"idle", "hook", "send"}, refs: SUBSET Updates, todo: SUBSET Updates,
               judged: SUBSET ((SUBSET Ids) \X Ids), code: 0..2, failed: BOOLEAN]
  /\ \A u \in push.refs : Safe(u.remote)
  /\ push.todo \subseteq push.refs
  /\ push.pc = "hook" /\ push.code = 0 =>
       /\ \A u \in push.refs \ push.todo : Safe(u.local)
       /\ \A change \in push.judged : Safe(change[2])
  /\ push.pc = "send" => \A u \in push.refs : Safe(u.local)

IInv == Graph /\ RefsInv /\ PushInv

\* Commits are never changed, and what may be on a remote stays so.
Grows ==
  /\ Ids \subseteq Ids' /\ \A c \in Ids : commits'[c] = commits[c]
  /\ passed \subseteq passed' /\ excused \subseteq excused'

LEMMA SameGraph == Graph /\ UNCHANGED commits => Graph'
<1> SUFFICES ASSUME Graph, commits' = commits PROVE Graph'
  OBVIOUS
<1>1. Ids' = Ids /\ \A c : Parents(c)' = Parents(c)
  BY DEF Ids, Parents
<1>2. /\ \A K : Closed(K)' <=> Closed(K)
      /\ \A c, K, d : Crossing(c, K, d)' <=> Crossing(c, K, d)
  BY <1>1 DEF Closed, Crossing
<1>3. Numbered' BY <1>1 DEF Graph, Numbered
<1>4. LastOnes' BY <1>1 DEF Graph, LastOnes
<1>5. Crossed' BY <1>1, <1>2 DEF Graph, Crossed
<1> QED BY <1>3, <1>4, <1>5 DEF Graph

LEMMA SafeStays == Graph /\ Grows => \A c : Safe(c) => Safe(c)'
<1> SUFFICES ASSUME Graph, Grows, NEW c, Safe(c) PROVE Safe(c)'
  OBVIOUS
<1>1. Theirs \subseteq Theirs'
  BY DEF Grows, Theirs
<1>2. ASSUME c # 0 PROVE Tree(c)' = Tree(c)
  <2>1. c \in Ids /\ commits[c].above \subseteq Ids
    BY <1>2, NewNumber DEF Safe, Graph, Numbered
  <2> QED
    BY <2>1 DEF Tree, Grows
<1> QED
  BY <1>1, <1>2 DEF Safe, Cleared, Grows

LEMMA RefsStay ==
  IInv /\ Grows =>
    /\ heads' = heads /\ tracking' = tracking /\ remote' = remote => RefsInv'
    /\ push' = push => PushInv'
<1> SUFFICES ASSUME IInv, Grows
             PROVE  /\ heads' = heads /\ tracking' = tracking /\ remote' = remote => RefsInv'
                    /\ push' = push => PushInv'
  OBVIOUS
<1>1. \A c : Safe(c) => Safe(c)'
  BY SafeStays DEF IInv
<1>2. Updates \subseteq Updates' /\ Ids \subseteq Ids'
  BY DEF Updates, Grows
<1>3. ASSUME heads' = heads, tracking' = tracking, remote' = remote PROVE RefsInv'
  BY <1>1, <1>2, <1>3 DEF IInv, RefsInv
<1>4. ASSUME push' = push PROVE PushInv'
  <2>1. push' \in [pc: {"idle", "hook", "send"}, refs: SUBSET Updates', todo: SUBSET Updates',
                   judged: SUBSET ((SUBSET Ids') \X Ids'), code: 0..2, failed: BOOLEAN]
    <3>1. (SUBSET Ids) \X Ids \subseteq (SUBSET Ids') \X Ids'
      BY <1>2
    <3> QED
      BY <3>1, <1>2, <1>4 DEF IInv, PushInv
  <2> QED
    BY <2>1, <1>1, <1>4 DEF IInv, PushInv
<1> QED
  BY <1>3, <1>4

LEMMA InitInv == Init => IInv
<1> SUFFICES ASSUME Init PROVE IInv
  OBVIOUS
<1>1. \/ /\ Ids = {} /\ heads = [h \in Heads |-> 0] /\ remote = [r \in RemoteRefs |-> 0]
      \/ /\ Ids = {1} /\ commits[1] = First /\ heads = [h \in Heads |-> 1]
         /\ remote \in [RemoteRefs -> {0, 1}]
  BY DEF Init, Ids
<1>2. Graph
  <2>1. CASE Ids = {}
    <3>1. Ids = 1..0
      BY <2>1
    <3> QED
      BY <2>1, <3>1 DEF Graph, Numbered, LastOnes, Crossed
  <2>2. CASE Ids = {1} /\ commits[1] = First
    <3>1. Ids = 1..1
      BY <2>2
    <3>2. Numbered
      BY <2>2, <3>1 DEF Numbered, Parents, First
    <3>3. ASSUME NEW S \in SUBSET Ids, S # {} PROVE \E m \in S : \A d \in S : d <= m
      <4>1. S = {1}
        BY <2>2, <3>3
      <4> QED
        BY <4>1
    <3>4. Crossed
      BY <2>2 DEF Crossed, First
    <3> QED
      BY <3>2, <3>3, <3>4 DEF Graph, LastOnes
  <2> QED
    BY <1>1, <2>1, <2>2
<1>3. RefsInv
  <2>1. \A c \in Ids \cup {0} : Safe(c)
    <3>1. CASE Ids = {}
      BY <3>1 DEF Safe
    <3>2. CASE Ids = {1} /\ commits[1] = First
      BY <3>2 DEF Safe, Tree, First, Cleared, Theirs
    <3> QED
      BY <1>1, <3>1, <3>2
  <2>2. tracking = remote
    BY DEF Init
  <2> QED
    BY <1>1, <2>1, <2>2 DEF RefsInv
<1>4. PushInv
  BY DEF Init, PushInv, NoPush
<1> QED
  BY <1>2, <1>3, <1>4 DEF IInv

-----------------------------------------------------------------------------
(* The hook *)

\* Nothing of the hook's changes the commits or the refs.
LEMMA HookKeeps ==
  ASSUME IInv, UNCHANGED <<commits, clone, tracking, remote>>,
         passed \subseteq passed', excused \subseteq excused', PushInv'
  PROVE  IInv'
<1>1. Grows
  BY DEF Grows, Ids
<1>2. Graph'
  BY SameGraph DEF IInv
<1> QED
  BY <1>1, <1>2, RefsStay DEF IInv, clone

LEMMA BeginPushInv == IInv /\ BeginPush => IInv'
<1> SUFFICES ASSUME IInv, BeginPush PROVE IInv'
  OBVIOUS
<1>1. UNCHANGED <<commits, clone, tracking, remote, passed, excused>>
  BY DEF BeginPush
<1>2. PICK targets \in SUBSET RemoteRefs :
        \E source \in [targets -> {heads[h] : h \in Heads} \cup {0}] :
          LET refs == {[ref |-> r, local |-> source[r], remote |-> remote[r]] : r \in targets} IN
          push' = [NoPush EXCEPT !.pc = "hook", !.refs = refs, !.todo = refs]
  BY DEF BeginPush
<1>3. PICK source \in [targets -> {heads[h] : h \in Heads} \cup {0}] :
          LET refs == {[ref |-> r, local |-> source[r], remote |-> remote[r]] : r \in targets} IN
          push' = [NoPush EXCEPT !.pc = "hook", !.refs = refs, !.todo = refs]
  BY <1>2
<1> DEFINE refs == {[ref |-> r, local |-> source[r], remote |-> remote[r]] : r \in targets}
<1>4. \A r \in targets : source[r] \in Ids \cup {0} /\ remote[r] \in Ids \cup {0}
                         /\ Safe(remote[r])
  BY DEF IInv, RefsInv
<1>5. refs \subseteq Updates /\ \A u \in refs : Safe(u.remote)
  BY <1>4 DEF Updates
<1> HIDE DEF refs
<1>6. push' = [pc |-> "hook", refs |-> refs, todo |-> refs, judged |-> {}, code |-> 0,
               failed |-> FALSE]
  BY <1>3 DEF NoPush, refs
<1>7. Updates' = Updates /\ \A c : Safe(c) => Safe(c)'
  <2>1. Grows
    BY <1>1 DEF Grows, Ids
  <2> QED
    BY <1>1, <2>1, SafeStays DEF IInv, Updates, Ids
<1>8. PushInv'
  BY <1>5, <1>6, <1>7 DEF PushInv
<1> QED
  BY <1>1, <1>8, HookKeeps

\* The check of a ref leaves it safe, unless the push is stopped.
LEMMA CheckedInv ==
  ASSUME IInv, push.pc = "hook", NEW u \in push.todo,
         UNCHANGED <<commits, clone, tracking, remote>>,
         passed \subseteq passed', excused \subseteq excused',
         NEW judged \in SUBSET ((SUBSET Ids) \X Ids), NEW code \in 0..2,
         Checked(u, judged, code),
         push.code = 0 /\ code = 0 =>
           Safe(u.local)' /\ \A change \in judged : Safe(change[2])'
  PROVE  IInv'
<1>1. \A c : Safe(c) => Safe(c)'
  <2>1. Grows
    BY DEF Grows, Ids
  <2> QED
    BY <2>1, SafeStays DEF IInv
<1>2. Updates' = Updates /\ Ids' = Ids
  BY DEF Updates, Ids
<1>3. /\ push'.pc = "hook" /\ push'.refs = push.refs /\ push'.todo = push.todo \ {u}
      /\ push'.judged = push.judged \cup judged
      /\ push'.code = IF code > push.code THEN code ELSE push.code
  BY DEF Checked, IInv, PushInv
<1>4. push' \in [pc: {"idle", "hook", "send"}, refs: SUBSET Updates, todo: SUBSET Updates,
                 judged: SUBSET ((SUBSET Ids) \X Ids), code: 0..2, failed: BOOLEAN]
  BY DEF Checked, IInv, PushInv
<1>5. push'.code = 0 => push.code = 0 /\ code = 0
  BY <1>3 DEF IInv, PushInv
<1>6. PushInv'
  BY <1>1, <1>2, <1>3, <1>4, <1>5 DEF IInv, PushInv
<1> QED
  BY <1>6, HookKeeps

LEMMA CheckRefInv == IInv /\ CheckRef => IInv'
<1> SUFFICES ASSUME IInv, CheckRef PROVE IInv'
  OBVIOUS
<1>1. /\ push.pc = "hook" /\ UNCHANGED <<commits, clone, tracking, remote>>
  BY DEF CheckRef
<1>2. PICK u \in push.todo : SkipRef(u) \/ UnrootedRef(u) \/ JudgeRef(u)
  BY DEF CheckRef
<1>3. /\ u \in Updates /\ Safe(u.remote) /\ u.local \in Ids \cup {0}
      /\ \A change \in push.judged : change[2] \in Ids
      /\ push.code = 0 => \A change \in push.judged : Safe(change[2])
  BY <1>1, <1>2 DEF IInv, PushInv, Updates
<1>4. u.local # 0 =>
         /\ Sent(u).commit = u.local
         /\ Sent(u).kind = "nothing" => Tree(u.local) \subseteq Cleared
         /\ Sent(u).kind = "commits" => Tree(u.local) \subseteq Judged(Sent(u)) \cup Cleared
  BY <1>3, SentIsSafe DEF IInv
<1>5. /\ u.local = 0 => Sent(u).kind = "nothing" /\ Safe(u.local)
      /\ Sent(u).commit = u.local
  BY <1>3, <1>4 DEF Sent, Safe
<1>6. Sent(u).kind = "commits" => u.local \in Ids /\ Sent(u).base \subseteq Ids
  <2> SUFFICES ASSUME Sent(u).kind = "commits"
               PROVE  u.local \in Ids /\ Sent(u).base \subseteq Ids
    OBVIOUS
  <2>1. u.local \in Ids /\ u.remote \in Ids \cup {0}
    BY <1>3, <1>5 DEF Safe
  <2>2. OnLine(u.local, u.remote) # {} /\ Sent(u).base = Base(u.local, u.remote)
    BY DEF Sent
  <2>3. OnRemotes(u.remote) \subseteq Ids
    BY <2>1, RemotesClosed DEF IInv
  <2>4. Base(u.local, u.remote) \subseteq OnRemotes(u.remote)
    BY <2>1, <2>2, BaseOnRemotes DEF IInv
  <2> QED
    BY <2>1, <2>2, <2>3, <2>4
<1> DEFINE change == <<Sent(u).base, Sent(u).commit>>
<1>7. /\ Ids' = Ids /\ Tree(u.local)' = Tree(u.local)
      /\ passed \cup excused \subseteq passed' \cup excused' => Cleared \subseteq Cleared'
  BY <1>1 DEF Tree, Ids, Cleared, Theirs
<1>8. /\ Cleared' = passed' \cup excused' \cup Theirs
  BY <1>1 DEF Cleared, Theirs, Ids
<1>9. CASE SkipRef(u)
  <2>1. Checked(u, {}, 0) /\ UNCHANGED <<passed, excused>>
    BY <1>9 DEF SkipRef
  <2>2. push.code = 0 => Safe(u.local)
    <3>1. CASE Sent(u).kind = "nothing"
      BY <3>1, <1>3, <1>4, <1>5 DEF Safe
    <3>2. CASE Sent(u).kind # "nothing"
      <4>1. change \in push.judged
        BY <1>9, <3>2 DEF SkipRef
      <4> QED
        BY <4>1, <1>3, <1>5
    <3> QED
      BY <3>1, <3>2
  <2>3. push.code = 0 => Safe(u.local)'
    BY <2>1, <2>2, <1>7 DEF Safe
  <2> QED
    BY <2>1, <2>3, <1>1, CheckedInv
<1>10. ASSUME NEW judged \in {{}, {change}}, Sent(u).kind = "commits" \/ judged = {},
              NEW code \in 0..2, Checked(u, judged, code),
              passed \subseteq passed', excused \subseteq excused',
              code = 0 => Tree(u.local) \subseteq Cleared'
       PROVE  IInv'
  <2>1. judged \in SUBSET ((SUBSET Ids) \X Ids)
    BY <1>5, <1>6, <1>10
  <2>2. code = 0 => Safe(u.local)'
    BY <1>3, <1>7, <1>10 DEF Safe
  <2>3. \A d \in judged : d[2] = u.local
    BY <1>5, <1>10
  <2>4. code = 0 => \A d \in judged : Safe(d[2])'
    BY <1>1, <2>2, <2>3 DEF Safe, Tree, Ids
  <2> QED
    BY <2>1, <2>2, <2>4, <1>1, <1>10, CheckedInv
<1>11. CASE UnrootedRef(u)
  <2>1. /\ Checked(u, {}, IF setup.passes THEN 0 ELSE 2) /\ UNCHANGED passed
        /\ excused' = IF setup.passes THEN excused \cup Tree(u.local) ELSE excused
    BY <1>11 DEF UnrootedRef, Incomplete
  <2>2. setup.passes => Tree(u.local) \subseteq Cleared'
    BY <2>1, <1>8
  <2>3. \E code \in 0..2 : Checked(u, {}, code) /\ (code = 0 => setup.passes)
    BY <2>1
  <2> QED
    BY <2>1, <2>2, <2>3, <1>10
<1>12. CASE JudgeRef(u)
  <2>1. Sent(u).kind = "commits" /\ Tree(u.local) \subseteq Judged(Sent(u)) \cup Cleared
    BY <1>12, <1>4, <1>5 DEF JudgeRef
  <2>2. CASE /\ Checked(u, {change}, 0) /\ passed' = passed \cup Judged(Sent(u))
             /\ UNCHANGED excused
    <3>1. Tree(u.local) \subseteq Cleared'
      BY <2>1, <2>2, <1>8 DEF Cleared
    <3> QED
      BY <2>1, <2>2, <3>1, <1>10
  <2>3. CASE Checked(u, {change}, 1) /\ UNCHANGED <<passed, excused>>
    BY <2>1, <2>3, <1>10
  <2>4. CASE Incomplete(u, {change}, Judged(Sent(u)))
    <3>1. /\ Checked(u, {change}, IF setup.passes THEN 0 ELSE 2) /\ UNCHANGED passed
          /\ excused' = IF setup.passes THEN excused \cup Judged(Sent(u)) ELSE excused
      BY <2>4 DEF Incomplete
    <3>2. setup.passes => Tree(u.local) \subseteq Cleared'
      BY <2>1, <3>1, <1>8 DEF Cleared
    <3>3. \E code \in 0..2 : Checked(u, {change}, code) /\ (code = 0 => setup.passes)
      BY <3>1
    <3> QED
      BY <2>1, <3>1, <3>2, <3>3, <1>10
  <2> QED
    BY <1>12, <2>2, <2>3, <2>4 DEF JudgeRef
<1> QED
  BY <1>2, <1>9, <1>11, <1>12

\* A push that is let through, or stopped.
LEMMA EndsInv ==
  ASSUME IInv, push.pc = "hook", UNCHANGED <<commits, clone, tracking, remote, passed>>,
         \/ \E failed \in BOOLEAN : LetsThrough(failed)
         \/ push' = NoPush /\ UNCHANGED excused
  PROVE  IInv'
<1>1. excused \subseteq excused'
  BY DEF LetsThrough
<1>2. \A c : Safe(c) => Safe(c)'
  <2>1. Grows
    BY <1>1 DEF Grows, Ids
  <2> QED
    BY <2>1, SafeStays DEF IInv
<1>3. Updates' = Updates /\ Ids' = Ids
  BY DEF Updates, Ids
<1>4. CASE \E failed \in BOOLEAN : LetsThrough(failed)
  <2>1. PICK failed \in BOOLEAN : LetsThrough(failed)
    BY <1>4
  <2>2. /\ push' \in [pc: {"idle", "hook", "send"}, refs: SUBSET Updates,
                      todo: SUBSET Updates, judged: SUBSET ((SUBSET Ids) \X Ids),
                      code: 0..2, failed: BOOLEAN]
        /\ push'.pc = "send" /\ push'.refs = push.refs /\ push'.todo = push.todo
    BY <2>1 DEF LetsThrough, IInv, PushInv
  <2>3. \A u \in push.refs : Safe(u.local)'
    <3> SUFFICES ASSUME NEW u \in push.refs PROVE Safe(u.local)'
      OBVIOUS
    <3>1. u.local \in Ids \cup {0}
      BY DEF IInv, PushInv, Updates
    <3>2. u.local # 0 => Tree(u.local) \subseteq excused'
      BY <2>1 DEF LetsThrough, Pushed
    <3> QED
      BY <3>1, <3>2 DEF Safe, Tree, Cleared, Ids
  <2>4. PushInv'
    BY <1>2, <1>3, <2>2, <2>3 DEF IInv, PushInv
  <2> QED
    BY <1>1, <2>4, HookKeeps
<1>5. CASE push' = NoPush /\ UNCHANGED excused
  <2>1. PushInv'
    BY <1>5 DEF PushInv, NoPush
  <2> QED
    BY <1>1, <2>1, HookKeeps
<1> QED
  BY <1>4, <1>5

LEMMA HookStepInv == IInv /\ HookStep => IInv'
<1> SUFFICES ASSUME IInv, HookStep PROVE IInv'
  OBVIOUS
<1>1. CASE CheckRef
  BY <1>1, CheckRefInv
<1>2. CASE HookFails
  <2>1. push.failed \in BOOLEAN
    BY DEF IInv, PushInv
  <2> QED
    BY <1>2, <2>1, EndsInv DEF HookFails
<1>3. CASE SkipHook
  BY <1>3, EndsInv DEF SkipHook
<1>4. CASE HookEnds /\ push.code # 0
  BY <1>4, EndsInv DEF HookEnds
<1>5. CASE HookEnds /\ push.code = 0
  <2>1. /\ push' = [push EXCEPT !.pc = "send"] /\ push.pc = "hook" /\ push.todo = {}
        /\ UNCHANGED <<commits, clone, tracking, remote, passed, excused>>
    BY <1>5 DEF HookEnds
  <2>2. \A c : Safe(c)' <=> Safe(c)
    BY <2>1 DEF Safe, Tree, Cleared, Theirs, Ids
  <2>3. Updates' = Updates /\ Ids' = Ids
    BY <2>1 DEF Updates, Ids
  <2>4. PushInv'
    BY <1>5, <2>1, <2>2, <2>3 DEF IInv, PushInv
  <2> QED
    BY <2>1, <2>4, HookKeeps
<1> QED
  BY <1>1, <1>2, <1>3, <1>4, <1>5 DEF HookStep

-----------------------------------------------------------------------------
(* Git's commands *)

LEMMA SendInv == IInv /\ Send => IInv'
<1> SUFFICES ASSUME IInv, Send PROVE IInv'
  OBVIOUS
<1> DEFINE taken == {u \in push.refs : remote[u.ref] = u.remote}
           Sender(r) == CHOOSE u \in taken : u.ref = r
           Updated(refs) == [r \in RemoteRefs |->
             IF \E u \in taken : u.ref = r THEN Sender(r).local ELSE refs[r]]
<1>1. /\ push.pc = "send" /\ push' = NoPush
      /\ UNCHANGED <<commits, clone, setup, passed, excused>>
  BY DEF Send
<1>2. remote' = Updated(remote) /\ tracking' = Updated(tracking)
  BY DEF Send
<1>3. \A u \in taken : u.local \in Ids \cup {0} /\ Safe(u.local)
  BY <1>1 DEF IInv, PushInv, Updates
<1>4. \A r \in RemoteRefs : (\E u \in taken : u.ref = r) => Sender(r) \in taken
  OBVIOUS
<1> HIDE DEF taken, Sender
<1>5. ASSUME NEW refs \in [RemoteRefs -> Ids \cup {0}], \A r \in RemoteRefs : Safe(refs[r])
      PROVE  /\ Updated(refs) \in [RemoteRefs -> Ids \cup {0}]
             /\ \A r \in RemoteRefs : Safe(Updated(refs)[r])
  BY <1>3, <1>4, <1>5
<1>6. /\ remote' \in [RemoteRefs -> Ids \cup {0}] /\ tracking' \in [RemoteRefs -> Ids \cup {0}]
      /\ \A r \in RemoteRefs : Safe(remote'[r]) /\ Safe(tracking'[r])
  <2> HIDE DEF Updated
  <2> QED
    BY <1>2, <1>5 DEF IInv, RefsInv
<1>7. Ids' = Ids /\ \A c : Safe(c) => Safe(c)'
  BY <1>1 DEF Safe, Tree, Cleared, Theirs, Ids
<1>8. RefsInv'
  BY <1>1, <1>6, <1>7 DEF RefsInv, IInv, clone
<1>9. Graph'
  BY <1>1, SameGraph DEF IInv
<1>10. PushInv'
  BY <1>1 DEF PushInv, NoPush
<1> QED
  BY <1>8, <1>9, <1>10 DEF IInv

\* What a commit records on commits there are is safe when its own changes
\* are.
LEMMA RecordedInv ==
  ASSUME IInv, NEW first \in Ids \cup {0}, NEW second \in Ids \cup {0},
         NEW adds, NEW ours, Records(first, second, adds, ours),
         UNCHANGED <<passed, excused>>
  PROVE  /\ Graph' /\ Grows /\ New \in Ids' /\ New \notin Ids
         /\ ~ours => New \in Theirs'
         /\ Safe(first) /\ Safe(second) /\ adds \subseteq Cleared' =>
              \E n : n = New /\ Safe(n)'
<1>1. PICK n \in Nat \ {0} :
           /\ n = New /\ n \notin Ids /\ Ids = 1..(n - 1)
           /\ Ids' = Ids \cup {n} /\ \A c \in Ids : commits'[c] = commits[c]
           /\ commits'[n].adds = adds /\ commits'[n].ours = ours
           /\ commits'[n].above
                = {n} \cup UNION {commits[p].above : p \in {first, second} \ {0}}
  BY Recorded DEF IInv, Graph
<1>2. Graph' /\ Grows
  BY <1>1, GraphGrows DEF IInv, Grows
<1>3. ~ours => n \in Theirs'
  BY <1>1 DEF Theirs
<1>4. ASSUME Safe(first), Safe(second), adds \subseteq Cleared' PROVE Safe(n)'
  <2>1. Cleared \subseteq Cleared'
    BY <1>2 DEF Cleared, Grows, Theirs
  <2>2. ASSUME NEW p \in {first, second} \ {0}, NEW d \in commits[p].above
        PROVE  commits'[d].adds \subseteq Cleared'
    <3>1. d \in Ids /\ commits[d].adds \subseteq Tree(p)
      BY <1>1, <2>2 DEF IInv, Graph, Numbered, Tree
    <3>2. Tree(p) \subseteq Cleared
      BY <1>4, <2>2 DEF Safe
    <3> QED
      BY <1>1, <2>1, <3>1, <3>2
  <2>3. \A d \in commits'[n].above : commits'[d].adds \subseteq Cleared'
    BY <1>1, <1>4, <2>2
  <2>4. (Tree(n) \subseteq Cleared)'
    BY <2>3 DEF Tree
  <2> QED
    BY <1>1, <2>4 DEF Safe
<1> QED
  BY <1>1, <1>2, <1>3, <1>4

\* A person's command leaves the remote-tracking refs and the push alone.
LEMMA LocalInv ==
  ASSUME IInv, UNCHANGED <<tracking, remote, push, passed, excused>>,
         Grows, Graph', heads' \in [Heads -> Ids' \cup {0}]
  PROVE  IInv'
<1>1. \A c : Safe(c) => Safe(c)'
  BY SafeStays DEF IInv
<1>2. RefsInv'
  BY <1>1 DEF IInv, RefsInv, Grows
<1> QED
  BY <1>2, RefsStay DEF IInv

LEMMA TipsThere == IInv => Tips \subseteq Ids /\ \A h \in Heads : heads[h] \in Ids \cup {0}
  BY DEF Tips, IInv, RefsInv

LEMMA CommitsInv ==
  ASSUME IInv, NEW h \in Heads, NEW first \in Ids \cup {0}, NEW second \in Ids \cup {0},
         NEW adds, Commits(h, first, second, adds), Local
  PROVE  IInv'
<1>1. UNCHANGED <<tracking, remote, push, passed, excused>>
  BY DEF Local
<1>2. Graph' /\ Grows /\ New \in Ids'
  BY <1>1, RecordedInv DEF Commits
<1>3. heads' \in [Heads -> Ids' \cup {0}]
  BY <1>2 DEF Commits, Grows, IInv, RefsInv
<1> QED
  BY <1>1, <1>2, <1>3, LocalInv

LEMMA PersonStepInv == IInv /\ PersonStep => IInv'
<1> SUFFICES ASSUME IInv, PersonStep PROVE IInv'
  OBVIOUS
<1>1. PICK h \in Heads :
        Commit(h) \/ \E c \in Tips : Merge(h, c) \/ Rebase(h, c) \/ Reset(h, c)
  BY DEF PersonStep
<1>2. heads[h] \in Ids \cup {0} /\ Tips \subseteq Ids
  BY TipsThere
<1>3. ASSUME NEW c \in Tips, heads' = [heads EXCEPT ![h] = c], UNCHANGED commits, Local
      PROVE  IInv'
  <2>1. Grows
    BY <1>3 DEF Grows, Ids, Local
  <2>2. Graph'
    BY <1>3, SameGraph DEF IInv
  <2>3. heads' \in [Heads -> Ids' \cup {0}]
    BY <1>2, <1>3 DEF IInv, RefsInv, Ids
  <2> QED
    BY <1>3, <2>1, <2>2, <2>3, LocalInv DEF Local
<1>4. CASE Commit(h)
  BY <1>2, <1>4, CommitsInv DEF Commit
<1>5. ASSUME NEW c \in Tips, Merge(h, c) PROVE IInv'
  BY <1>2, <1>3, <1>5, CommitsInv DEF Merge
<1>6. ASSUME NEW c \in Tips, Rebase(h, c) PROVE IInv'
  BY <1>2, <1>6, CommitsInv DEF Rebase
<1>7. ASSUME NEW c \in Tips, Reset(h, c) PROVE IInv'
  BY <1>3, <1>7 DEF Reset
<1> QED
  BY <1>1, <1>4, <1>5, <1>6, <1>7

LEMMA FetchInv == IInv /\ Fetch => IInv'
<1> SUFFICES ASSUME IInv, Fetch PROVE IInv'
  OBVIOUS
<1>1. UNCHANGED <<commits, heads, remote, push, passed, excused>>
  BY DEF Fetch
<1>2. PICK prune \in BOOLEAN :
        tracking' = [r \in RemoteRefs |->
                       IF remote[r] = 0 /\ ~prune THEN tracking[r] ELSE remote[r]]
  BY DEF Fetch
<1>3. Grows /\ \A c : Safe(c) => Safe(c)'
  BY <1>1, SafeStays DEF IInv, Grows, Ids
<1>4. Graph'
  BY <1>1, SameGraph DEF IInv
<1>5. /\ tracking' \in [RemoteRefs -> Ids \cup {0}]
      /\ \A r \in RemoteRefs : Safe(tracking'[r])
  BY <1>2 DEF IInv, RefsInv
<1>6. RefsInv'
  BY <1>1, <1>3, <1>5 DEF IInv, RefsInv, Ids
<1> QED
  BY <1>1, <1>3, <1>4, <1>6, RefsStay DEF IInv

LEMMA ColleagueInv == \A r \in RemoteRefs : IInv /\ Colleague(r) => IInv'
<1> SUFFICES ASSUME IInv, NEW r \in RemoteRefs, Colleague(r) PROVE IInv'
  OBVIOUS
<1>1. UNCHANGED <<heads, tracking, push, passed, excused>>
  BY DEF Colleague, clone
<1>2. \A q \in RemoteRefs : remote[q] \in Ids \cup {0} /\ Safe(remote[q])
  BY DEF IInv, RefsInv
<1>3. ASSUME NEW n, remote' = [remote EXCEPT ![r] = n], Safe(n)', Grows, Graph'
      PROVE  IInv'
  <2>1. \A c : Safe(c) => Safe(c)'
    BY <1>3, SafeStays DEF IInv
  <2>2. remote' \in [RemoteRefs -> Ids' \cup {0}]
    BY <1>3 DEF IInv, RefsInv, Grows, Safe
  <2>3. \A q \in RemoteRefs : Safe(remote[q])'
    <3> SUFFICES ASSUME NEW q \in RemoteRefs PROVE Safe(remote[q])'
      OBVIOUS
    <3>1. remote'[q] = n \/ remote'[q] = remote[q]
      BY <1>3 DEF IInv, RefsInv
    <3> QED
      BY <1>2, <1>3, <2>1, <3>1
  <2>4. RefsInv'
    BY <1>1, <1>3, <2>1, <2>2, <2>3 DEF IInv, RefsInv, Grows
  <2> QED
    BY <1>1, <1>3, <2>4, RefsStay DEF IInv
<1>4. ASSUME NEW first \in Ids \cup {0}, NEW second \in Ids \cup {0}, NEW adds,
             Safe(first), Safe(second), Records(first, second, adds, FALSE),
             adds \subseteq {New} \cup Cleared, remote' = [remote EXCEPT ![r] = New]
      PROVE  IInv'
  <2>1. Graph' /\ Grows /\ New \in Theirs'
    BY <1>1, <1>4, RecordedInv
  <2>2. adds \subseteq Cleared'
    BY <1>1, <1>4, <2>1 DEF Cleared, Grows, Theirs
  <2>3. \E n : n = New /\ Safe(n)'
    BY <1>1, <1>4, <2>2, RecordedInv
  <2> QED
    BY <1>3, <1>4, <2>1, <2>3
<1>5. CASE Records(remote[r], 0, {New}, FALSE) /\ remote' = [remote EXCEPT ![r] = New]
  BY <1>2, <1>4, <1>5 DEF Safe
<1>6. ASSUME NEW q \in RemoteRefs, remote[r] # 0, remote[q] # 0,
             remote' = [remote EXCEPT ![r] = New],
             \/ Records(remote[r], remote[q], {}, FALSE)
             \/ Records(remote[r], 0, Tree(remote[q]) \ Tree(remote[r]), FALSE)
      PROVE  IInv'
  <2>1. /\ remote[r] \in Ids \cup {0} /\ remote[q] \in Ids \cup {0}
        /\ Safe(remote[r]) /\ Safe(remote[q]) /\ Safe(0)
    BY <1>2 DEF Safe
  <2>2. Tree(remote[q]) \subseteq Cleared
    BY <1>6, <2>1 DEF Safe
  <2>3. CASE Records(remote[r], remote[q], {}, FALSE)
    <3>1. PICK none : none = {} /\ Records(remote[r], remote[q], none, FALSE)
      BY <2>3
    <3>2. none \subseteq {New} \cup Cleared
      BY <3>1
    <3> QED
      BY <1>4, <1>6, <2>1, <3>1, <3>2
  <2>4. CASE Records(remote[r], 0, Tree(remote[q]) \ Tree(remote[r]), FALSE)
    BY <1>4, <1>6, <2>1, <2>2, <2>4
  <2> QED
    BY <1>6, <2>3, <2>4
<1>7. ASSUME NEW c \in {remote[q] : q \in RemoteRefs} \cup {0},
             remote' = [remote EXCEPT ![r] = c], UNCHANGED commits
      PROVE  IInv'
  <2>1. Grows
    BY <1>1, <1>7 DEF Grows, Ids
  <2>2. Graph'
    BY <1>7, SameGraph DEF IInv
  <2>3. Safe(c)'
    <3>1. Safe(c)
      BY <1>2, <1>7 DEF Safe
    <3> QED
      BY <2>1, <3>1, SafeStays DEF IInv
  <2> QED
    BY <1>3, <1>7, <2>1, <2>2, <2>3
<1> QED
  BY <1>5, <1>6, <1>7 DEF Colleague

-----------------------------------------------------------------------------
(* Theorems *)

LEMMA NextInv == IInv /\ [Next]_vars => IInv'
<1> SUFFICES ASSUME IInv, [Next]_vars PROVE IInv'
  OBVIOUS
<1>1. CASE UNCHANGED vars
  <2>1. UNCHANGED <<commits, clone, tracking, remote, passed, excused, push>>
    BY <1>1 DEF vars, clone
  <2>2. Grows
    BY <2>1 DEF Grows, Ids
  <2>3. PushInv'
    BY <2>1, <2>2, RefsStay
  <2> QED
    BY <2>1, <2>3, HookKeeps
<1> QED
  BY <1>1, BeginPushInv, HookStepInv, SendInv, PersonStepInv, FetchInv, ColleagueInv DEF Next

LEMMA Invariant == Spec => []IInv
  BY InitInv, NextInv, PTL DEF Spec

(* For any clones, remotes, merges, rebases and fetches, and any pushes     *)
(* with or without force, what a remote holds passed a check of the push    *)
(* that brought it, was said not to be checked, or is a colleague's.        *)
THEOREM NothingGoesUnjudged == Spec => []NothingUnjudged
<1>1. IInv => NothingUnjudged
  BY DEF IInv, RefsInv, Safe, Cleared, NothingUnjudged
<1> QED
  BY <1>1, Invariant, PTL

(* In any history of commits, a push is judged for changes of its own       *)
(* commits alone when what it grows from is one commit of the remotes or    *)
(* two that Git merges.                                                     *)
THEOREM OwnWorkAlone == Spec => []OwnWorkOnly
<1>1. IInv => OwnWorkOnly
  <2> SUFFICES ASSUME IInv, NEW c \in {heads[h] : h \in Heads},
                      NEW theirs \in {remote[r] : r \in RemoteRefs} \cup {0},
                      Sent([local |-> c, remote |-> theirs]).kind = "commits",
                      Comparable(Independent(Boundary(c, theirs)))
               PROVE  Judged(Sent([local |-> c, remote |-> theirs]))
                        \subseteq UNION {commits[d].adds : d \in Listed(c, theirs)}
    BY DEF OwnWorkOnly
  <2>1. c \in Ids \cup {0} /\ theirs \in Ids \cup {0}
    BY DEF IInv, RefsInv
  <2>2. /\ c # 0 /\ Listed(c, theirs) # {}
        /\ Sent([local |-> c, remote |-> theirs]).commit = c
        /\ Sent([local |-> c, remote |-> theirs]).base = Independent(Boundary(c, theirs))
    BY DEF Sent, Base
  <2>3. Judged(Sent([local |-> c, remote |-> theirs]))
          = Tree(c) \ UNION {Tree(b) : b \in Independent(Boundary(c, theirs))}
    BY <2>2 DEF Judged
  <2> QED
    BY <2>1, <2>2, <2>3, JudgedIsListed DEF IInv
<1> QED
  BY <1>1, Invariant, PTL
=============================================================================
