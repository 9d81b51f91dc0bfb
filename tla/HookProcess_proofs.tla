------------------------- MODULE HookProcess_proofs -------------------------
(* What HookProcess keeps for any number of processes, events and ticks.   *)
EXTENDS HookProcess, TLAPS

USE ProcessAssumption DEF ProcessAssumption, Holds

(* Every variable keeps its type, and only a process with an event claims  *)
(* one.                                                                    *)
Claiming == {"age", "remove", "recreate"}
TypeInv ==
  /\ TypeOK
  /\ \A p \in Procs : pc[p] \in Claiming \/ owns[p] => Event[p] \in Events

LEMMA TypeInit == Init => TypeInv
BY DEF Init, TypeInv, TypeOK, Labels, Endings, Claiming

LEMMA TypeStep == TypeInv /\ [Next]_vars => TypeInv'
<1> SUFFICES ASSUME TypeInv, [Next]_vars PROVE TypeInv'
  OBVIOUS
<1> USE DEF TypeInv, TypeOK, Labels, Endings, Claiming, Goto, world, shared, files, history
<1>1. ASSUME NEW p \in Procs, Claims(p) PROVE TypeInv'
  <2>1. CASE FirstCreate(p)
    <3>1. Event[p] \in Events BY <2>1 DEF FirstCreate
    <3>2. CASE Create(p) BY <2>1, <3>1, <3>2 DEF FirstCreate, Create
    <3> QED BY <2>1, <3>1, <3>2 DEF FirstCreate
  <2>2. CASE ReadAge(p) BY <2>2 DEF ReadAge
  <2>3. CASE RemoveMark(p) BY <2>3 DEF RemoveMark
  <2>4. CASE Recreate(p)
    <3>1. Event[p] \in Events BY <2>4 DEF Recreate
    <3>2. CASE Create(p) BY <2>4, <3>1, <3>2 DEF Recreate, Create
    <3> QED BY <2>4, <3>1, <3>2 DEF Recreate
  <2> QED BY <1>1, <2>1, <2>2, <2>3, <2>4 DEF Claims
<1>2. ASSUME NEW p \in Procs, Locks(p) PROVE TypeInv'
  <2>1. CASE ReadOutage(p) BY <2>1 DEF ReadOutage, Current
  <2>2. CASE OpenStore(p)
    <3>1. CASE Open(p) BY <2>2, <3>1 DEF OpenStore, Open
    <3>2. CASE UNCHANGED <<lock, store>> BY <2>2, <3>2 DEF OpenStore, Open
    <3> QED BY <2>2, <3>1, <3>2 DEF OpenStore
  <2>3. CASE GitOpenStore(p)
    <3>0. pc' \in [Procs -> Labels]
      <4>1. pc' = [pc EXCEPT ![p] = "read"] \/ pc' = [pc EXCEPT ![p] = "done"]
        BY <2>3 DEF GitOpenStore
      <4> QED BY <4>1
    <3>1. CASE Open(p) BY <2>3, <3>0, <3>1 DEF GitOpenStore, Open
    <3>2. CASE UNCHANGED <<lock, store>> BY <2>3, <3>0, <3>2 DEF GitOpenStore
    <3> QED BY <2>3, <3>1, <3>2 DEF GitOpenStore
  <2>4. CASE ProbeLock(p) BY <2>4 DEF ProbeLock
  <2>5. CASE Unprobe(p) BY <2>5 DEF Unprobe
  <2>6. CASE Fork(p) BY <2>6 DEF Fork
  <2>7. CASE Exec(p)
    <3>1. lock' \in Procs \cup {None} BY <2>7 DEF Exec
    <3> QED BY <2>7, <3>1 DEF Exec
  <2>8. CASE LeftBehindEnds(p) BY <2>8 DEF LeftBehindEnds, DropStore
  <2> QED BY <1>2, <2>1, <2>2, <2>3, <2>4, <2>5, <2>6, <2>7, <2>8 DEF Locks
<1>3. ASSUME NEW p \in Procs, Checks(p) PROVE TypeInv'
  <2>0. ASSUME NEW how \in Endings, NEW left, EndCheck(p, how, left), held' \in Holds \cup {None}
        PROVE  TypeInv'
    <3>1. store' \in [Procs -> BOOLEAN] /\ lock' \in Procs \cup {None}
      <4>1. CASE DropStore(p) BY <4>1 DEF DropStore
      <4>2. CASE UNCHANGED <<lock, store>> BY <4>2
      <4> QED BY <2>0, <4>1, <4>2 DEF EndCheck
    <3> QED BY <2>0, <3>1 DEF EndCheck
  <2>1. CASE CheckFinishes(p)
    <3>1. held' \in Holds \cup {None}
      <4>1. CASE UNCHANGED held BY <4>1
      <4>2. CASE held # None /\ held' = [held EXCEPT !.answered = TRUE] BY <4>2
      <4> QED BY <2>1, <4>1, <4>2 DEF CheckFinishes
    <3>2. EndCheck(p, "ok", FALSE) BY <2>1 DEF CheckFinishes
    <3> QED BY <2>0, <3>1, <3>2
  <2>2. CASE CheckMeetsFailure(p)
    <3>1. held' \in Holds \cup {None} BY <2>2 DEF CheckMeetsFailure
    <3> QED BY <2>0, <2>2, <3>1 DEF CheckMeetsFailure
  <2>3. CASE CheckFails(p) BY <2>0, <2>3 DEF CheckFails
  <2>4. CASE WaitingTimesOut(p) BY <2>0, <2>4 DEF WaitingTimesOut
  <2>5. CASE Settle(p) BY <2>5 DEF Settle, Settled
  <2>6. CASE Answer(p) BY <2>6 DEF Answer, DropStore
  <2>7. CASE Exit(p) BY <2>7 DEF Exit, End
  <2> QED BY <1>3, <2>1, <2>2, <2>3, <2>4, <2>5, <2>6, <2>7 DEF Checks
<1>4. ASSUME NEW p \in Procs, Kill(p) PROVE TypeInv'
  BY <1>4 DEF Kill, End
<1>5. ASSUME NEW e \in Events, GetOld(e) PROVE TypeInv'
  BY <1>5 DEF GetOld, process, files
<1>6. CASE Tick BY <1>6 DEF Tick, process, files
<1>7. CASE AllOver \/ UNCHANGED vars BY <1>7 DEF AllOver, vars, process, files
<1> QED BY <1>1, <1>2, <1>3, <1>4, <1>5, <1>6, <1>7 DEF Next

(* HookProcess is type correct. *)
THEOREM TypeCorrect == Spec => []TypeOK
<1>1. TypeInv => TypeOK BY DEF TypeInv
<1> QED BY <1>1, TypeInit, TypeStep, PTL DEF Spec

-----------------------------------------------------------------------------
(* A fresh mark names a process of the event's latest sending, and an older *)
(* one is about to be removed by one; who is named is still answering, or  *)
(* was stopped.  A process is silent only for one of its own sending that  *)
(* answered, will, or was stopped; one that is done has replied or was     *)
(* stopped.                                                                *)
Active(p) == pc[p] # "start" /\ ~Over(p)
Working == {"read", "open", "probe", "probed", "check", "settle", "answer"}
Trusted(q) == q \in killed \/ q \in replied \/ pc[q] \in Working
Marks ==
  \A e \in Events : mark[e] # None =>
    /\ Event[mark[e]] = e
    /\ mark[e] \in killed \/ (owns[mark[e]] /\ pc[mark[e]] \in Working)
    /\ ~stale[e] => mark[e] \in sending[e]
    /\ \/ mark[e] \in sending[e]
       \/ \E p \in sending[e] : pc[p] \in {"age", "remove"} \/ p \in killed
Ends ==
  /\ \A p \in Procs : pc[p] = "silent" => Event[p] # None
  /\ \A p \in Procs : Event[p] # None /\ pc[p] = "exit" => p \in replied
  /\ \A p \in Procs : Event[p] # None /\ pc[p] = "done" => p \in replied \cup killed
Members ==
  /\ \A e \in Events : sending[e] \subseteq Given(e)
  /\ \A p \in Procs : Event[p] # None /\ Active(p) => p \in sending[Event[p]]
Silents ==
  \A e \in Events : \A p \in sending[e] :
    pc[p] = "silent" => \E q \in sending[e] : Trusted(q)
ClaimInv == Marks /\ Ends /\ Members /\ Silents

LEMMA ClaimInit == Init => ClaimInv
BY DEF Init, ClaimInv, Marks, Ends, Members, Silents, Active, Over

(* No step takes back what a process is trusted for. *)
LEMMA TrustKept ==
  ASSUME TypeInv, ClaimInv, [Next]_vars, NEW q \in Procs, Trusted(q),
         Event[q] # None
  PROVE  Trusted(q)'
<1>0. pc[q] = "exit" => q \in replied BY DEF ClaimInv, Ends
<1> USE <1>0 DEF Trusted, Working, TypeInv, TypeOK, Labels, Goto, world, shared, files, history
<1>1. ASSUME NEW p \in Procs, Claims(p) PROVE Trusted(q)'
  BY <1>1 DEF Claims, FirstCreate, ReadAge, RemoveMark, Recreate, Create
<1>2. ASSUME NEW p \in Procs, Locks(p) PROVE Trusted(q)'
  BY <1>2 DEF Locks, ReadOutage, OpenStore, GitOpenStore, ProbeLock, Unprobe,
     Open, Fork, Exec, LeftBehindEnds, DropStore
<1>3. ASSUME NEW p \in Procs, Checks(p) PROVE Trusted(q)'
  BY <1>3 DEF Checks, CheckFinishes, CheckMeetsFailure, CheckFails, WaitingTimesOut,
              EndCheck, DropStore, Settle, Answer, Exit, End
<1>4. ASSUME NEW p \in Procs, Kill(p) PROVE Trusted(q)'
  BY <1>4 DEF Kill, End
<1>5. ASSUME NEW e \in Events, GetOld(e) PROVE Trusted(q)'
  BY <1>5 DEF GetOld, process, files
<1>6. CASE Tick \/ AllOver \/ UNCHANGED vars
  BY <1>6 DEF Tick, AllOver, vars, process, files
<1> QED BY <1>1, <1>2, <1>3, <1>4, <1>5, <1>6 DEF Next

LEMMA EndsStep == TypeInv /\ Ends /\ [Next]_vars => Ends'
<1> SUFFICES ASSUME TypeInv, Ends, [Next]_vars PROVE Ends'
  OBVIOUS
<1> USE DEF Ends, TypeInv, TypeOK, Labels, Claiming, Goto, world, shared, files, history
<1>1. ASSUME NEW p \in Procs, Claims(p) PROVE Ends'
  BY <1>1 DEF Claims, FirstCreate, ReadAge, RemoveMark, Recreate, Create
<1>2. ASSUME NEW p \in Procs, Locks(p) PROVE Ends'
  BY <1>2 DEF Locks, ReadOutage, OpenStore, GitOpenStore, ProbeLock, Unprobe,
              Open, Fork, Exec, LeftBehindEnds, DropStore
<1>3. ASSUME NEW p \in Procs, Checks(p) PROVE Ends'
  <2>1. CASE Answer(p) BY <2>1 DEF Answer
  <2>2. CASE Exit(p) BY <2>2 DEF Exit, End
  <2>3. CASE Settle(p) BY <2>3 DEF Settle
  <2>4. CASE CheckFinishes(p) \/ CheckMeetsFailure(p) \/ CheckFails(p) \/ WaitingTimesOut(p)
    BY <2>4 DEF CheckFinishes, CheckMeetsFailure, CheckFails, WaitingTimesOut, EndCheck
  <2> QED BY <1>3, <2>1, <2>2, <2>3, <2>4 DEF Checks
<1>4. ASSUME NEW p \in Procs, Kill(p) PROVE Ends' BY <1>4 DEF Kill, End, Over
<1>5. ASSUME NEW e \in Events, GetOld(e) PROVE Ends' BY <1>5 DEF GetOld, process
<1>6. CASE Tick \/ AllOver \/ UNCHANGED vars BY <1>6 DEF Tick, AllOver, vars, process
<1> QED BY <1>1, <1>2, <1>3, <1>4, <1>5, <1>6 DEF Next

(* Only a process that starts changes a sending: it begins one when none of *)
(* the event's processes runs, or joins it.                                *)
LEMMA SendingStep ==
  ASSUME TypeInv, [Next]_vars
  PROVE  \/ sending' = sending
         \/ \E p \in Procs : FirstCreate(p)
<1> USE DEF files, history
<1>1. ASSUME NEW p \in Procs, Claims(p), ~FirstCreate(p) PROVE sending' = sending
  BY <1>1 DEF Claims, ReadAge, RemoveMark, Recreate
<1>2. ASSUME NEW p \in Procs, Locks(p) PROVE sending' = sending
  BY <1>2 DEF Locks, ReadOutage, OpenStore, GitOpenStore, ProbeLock, Unprobe,
              Fork, Exec, LeftBehindEnds
<1>3. ASSUME NEW p \in Procs, Checks(p) PROVE sending' = sending
  BY <1>3 DEF Checks, CheckFinishes, CheckMeetsFailure, CheckFails, WaitingTimesOut,
              EndCheck, Settle, Answer, Exit
<1>4. ASSUME NEW p \in Procs, Kill(p) PROVE sending' = sending BY <1>4 DEF Kill
<1>5. ASSUME NEW e \in Events, GetOld(e) PROVE sending' = sending BY <1>5 DEF GetOld
<1>6. CASE Tick \/ AllOver \/ UNCHANGED vars BY <1>6 DEF Tick, AllOver, vars
<1> QED BY <1>1, <1>2, <1>3, <1>4, <1>5, <1>6 DEF Next

LEMMA StartStep ==
  ASSUME TypeInv, NEW p \in Procs, FirstCreate(p)
  PROVE  /\ Event[p] \in Events /\ pc[p] = "start" /\ pc'[p] \in {"read", "age"}
         /\ \A q \in Procs \ {p} : pc'[q] = pc[q]
         /\ \A e \in Events \ {Event[p]} : sending'[e] = sending[e]
         /\ p \in sending'[Event[p]]
         /\ \/ SentAnew(Event[p]) /\ sending'[Event[p]] = {p}
            \/ sending'[Event[p]] = sending[Event[p]] \cup {p}
BY DEF FirstCreate, Create, Goto, TypeInv, TypeOK

LEMMA MembersStep == TypeInv /\ Members /\ [Next]_vars => Members'
<1> SUFFICES ASSUME TypeInv, Members, [Next]_vars PROVE Members'
  OBVIOUS
<1>1. ASSUME NEW p \in Procs, FirstCreate(p) PROVE Members'
  <2> USE <1>1, StartStep
  <2>1. ASSUME NEW e \in Events PROVE sending'[e] \subseteq Given(e)
    BY DEF Members, Given
  <2>2. ASSUME NEW q \in Procs, Event[q] # None, Active(q)' PROVE q \in sending'[Event[q]]
    <3>1. CASE q = p BY <3>1
    <3>2. CASE q # p
      <4>1. Active(q) BY <2>2, <3>2 DEF Active, Over
      <4>2. q \in sending[Event[q]] BY <2>2, <4>1 DEF Members
      <4>3. CASE Event[q] = Event[p]
        <5>1. ~SentAnew(Event[p]) BY <4>1, <4>3 DEF SentAnew, Given, Active
        <5> QED BY <4>2, <4>3, <5>1
      <4>4. CASE Event[q] # Event[p] BY <2>2, <4>2, <4>4
      <4> QED BY <4>3, <4>4
    <3> QED BY <3>1, <3>2
  <2> QED BY <2>1, <2>2 DEF Members, Given
<1>2. CASE sending' = sending /\ \A p \in Procs : ~FirstCreate(p)
  <2>1. ASSUME NEW q \in Procs, Event[q] # None, Active(q)' PROVE Active(q)
    <3> USE <2>1 DEF Active, Over, TypeInv, TypeOK, Labels, Goto, world, shared, files, history
    <3>1. ASSUME NEW p \in Procs, Claims(p) PROVE Active(q)
      BY <1>2, <3>1 DEF Claims, ReadAge, RemoveMark, Recreate, Create
    <3>2. ASSUME NEW p \in Procs, Locks(p) PROVE Active(q)
      BY <3>2 DEF Locks, ReadOutage, OpenStore, GitOpenStore, ProbeLock, Unprobe,
                  Open, Fork, Exec, LeftBehindEnds
    <3>3. ASSUME NEW p \in Procs, Checks(p) PROVE Active(q)
      BY <3>3 DEF Checks, CheckFinishes, CheckMeetsFailure, CheckFails, WaitingTimesOut,
                  EndCheck, Settle, Answer, Exit, End
    <3>4. ASSUME NEW p \in Procs, Kill(p) PROVE Active(q) BY <3>4 DEF Kill, End
    <3>5. ASSUME NEW e \in Events, GetOld(e) PROVE Active(q) BY <3>5 DEF GetOld, process
    <3>6. CASE Tick \/ AllOver \/ UNCHANGED vars
      BY <3>6 DEF Tick, AllOver, vars, process
    <3> QED BY <3>1, <3>2, <3>3, <3>4, <3>5, <3>6 DEF Next
  <2> QED BY <1>2, <2>1 DEF Members, Given
<1> QED BY <1>1, <1>2, SendingStep

LEMMA MarksStep == TypeInv /\ ClaimInv /\ [Next]_vars => Marks'
<1> SUFFICES ASSUME TypeInv, ClaimInv, [Next]_vars PROVE Marks'
  OBVIOUS
<1> USE DEF Working, TypeInv, TypeOK, Labels, Claiming, Goto, world, shared, files, history
<1>1. Marks /\ Members BY DEF ClaimInv
<1>2. ASSUME NEW p \in Procs, Claims(p) PROVE Marks'
  <2>1. Event[p] \in Events
    BY <1>2 DEF Claims, FirstCreate, ReadAge, RemoveMark, Recreate
  <2>2. CASE FirstCreate(p)
    <3>1. CASE Create(p) BY <1>1, <2>1, <2>2, <3>1 DEF FirstCreate, Create, Marks
    <3>2. CASE ~Create(p)
      <4>1. /\ mark[Event[p]] # None /\ pc' = [pc EXCEPT ![p] = "age"]
            /\ UNCHANGED <<mark, stale, owns, killed>> /\ pc[p] = "start"
        BY <2>2, <3>2 DEF FirstCreate
      <4>2. ASSUME NEW e \in Events, mark[e] # None
            PROVE  /\ ~stale[e] => mark[e] \in sending'[e]
                   /\ \/ mark[e] \in sending'[e]
                      \/ \E q \in sending'[e] : pc'[q] \in {"age", "remove"} \/ q \in killed
        <5>1. CASE e = Event[p] /\ SentAnew(e)
          <6>1. p \in sending'[e] /\ pc'[p] = "age" BY <2>2, <4>1, <5>1, StartStep
          <6>2. stale[e] BY <4>2, <5>1 DEF SentAnew
          <6> QED BY <6>1, <6>2
        <5>2. CASE ~(e = Event[p] /\ SentAnew(e))
          <6>1. sending[e] \subseteq sending'[e] BY <2>2, <5>2, StartStep
          <6>2. \A q \in sending[e] : pc[q] \in {"age", "remove"} => pc'[q] = pc[q]
            BY <1>1, <4>1 DEF Members, Given
          <6> QED BY <1>1, <4>2, <6>1, <6>2 DEF Marks
        <5> QED BY <5>1, <5>2
      <4> QED BY <1>1, <4>1, <4>2 DEF Marks
    <3> QED BY <3>1, <3>2
  <2>3. CASE Recreate(p)
    <3>1. p \in sending[Event[p]] BY <1>1, <2>1, <2>3 DEF Recreate, Members, Active, Over
    <3>2. CASE Create(p) BY <1>1, <2>1, <2>3, <3>1, <3>2 DEF Recreate, Create, Marks
    <3>3. CASE ~Create(p) BY <1>1, <2>1, <2>3, <3>3 DEF Recreate, Marks
    <3> QED BY <3>2, <3>3
  <2>4. CASE ReadAge(p)
    <3>1. /\ pc[p] = "age" /\ UNCHANGED <<mark, stale, owns, killed, sending>>
          /\ pc' = [pc EXCEPT ![p] = IF mark[Event[p]] # None /\ ~stale[Event[p]]
                                       THEN "silent" ELSE "remove"]
      BY <2>4 DEF ReadAge
    <3>2. ASSUME NEW e \in Events, mark[e] # None, mark[e] \notin sending[e]
          PROVE  \E q \in sending[e] : pc'[q] \in {"age", "remove"} \/ q \in killed
      <4>1. stale[e] BY <1>1, <3>2 DEF Marks
      <4>2. PICK q \in sending[e] : pc[q] \in {"age", "remove"} \/ q \in killed
        BY <1>1, <3>2 DEF Marks
      <4>3. Event[q] = e BY <1>1, <4>2 DEF Members, Given
      <4>4. pc[q] \in {"age", "remove"} => pc'[q] \in {"age", "remove"}
        BY <3>1, <4>1, <4>2, <4>3
      <4> QED BY <4>2, <4>4
    <3> QED BY <1>1, <3>1, <3>2 DEF Marks
  <2>5. CASE RemoveMark(p)
    <3>1. /\ pc[p] = "remove" /\ UNCHANGED <<owns, killed, sending>>
          /\ pc' = [pc EXCEPT ![p] = "recreate"]
          /\ mark' = [mark EXCEPT ![Event[p]] = None]
          /\ stale' = [stale EXCEPT ![Event[p]] = FALSE]
      BY <2>5 DEF RemoveMark
    <3>2. ASSUME NEW e \in Events, mark'[e] # None
          PROVE  /\ e # Event[p] /\ mark'[e] = mark[e] /\ stale'[e] = stale[e]
                 /\ \A q \in sending[e] : pc'[q] = pc[q]
      <4>1. e # Event[p] BY <2>1, <3>1, <3>2
      <4>2. \A q \in sending[e] : q \in Procs /\ Event[q] = e
        BY <1>1 DEF Members, Given
      <4> QED BY <3>1, <4>1, <4>2
    <3>3. ASSUME NEW q \in Procs, mark'[Event[q]] # None
          PROVE  mark'[Event[q]] = mark[Event[q]] /\ pc'[q] = pc[q]
      <4>1. Event[q] # Event[p] BY <2>1, <3>1, <3>3
      <4>2. q # p BY <4>1
      <4> QED BY <3>1, <4>1, <4>2
    <3>4. ASSUME NEW e \in Events, mark'[e] # None
          PROVE  /\ Event[mark'[e]] = e
                 /\ mark'[e] \in killed' \/ (owns'[mark'[e]] /\ pc'[mark'[e]] \in Working)
      <4>1. mark'[e] \in Procs /\ mark'[e] = mark[e] /\ Event[mark'[e]] = e
        BY <1>1, <3>2, <3>4 DEF Marks
      <4>2. pc'[mark'[e]] = pc[mark'[e]] BY <3>3, <3>4, <4>1
      <4>3. mark[e] \in killed \/ (owns[mark[e]] /\ pc[mark[e]] \in Working)
        BY <1>1, <3>2, <3>4 DEF Marks
      <4> QED BY <3>1, <4>1, <4>2, <4>3
    <3>5. ASSUME NEW e \in Events, mark'[e] # None
          PROVE  /\ ~stale'[e] => mark'[e] \in sending'[e]
                 /\ \/ mark'[e] \in sending'[e]
                    \/ \E q \in sending'[e] : pc'[q] \in {"age", "remove"} \/ q \in killed'
      <4>1. /\ ~stale[e] => mark[e] \in sending[e]
            /\ \/ mark[e] \in sending[e]
               \/ \E q \in sending[e] : pc[q] \in {"age", "remove"} \/ q \in killed
        BY <1>1, <3>2, <3>5 DEF Marks
      <4>2. /\ mark'[e] = mark[e] /\ stale'[e] = stale[e]
            /\ \A q \in sending[e] : pc'[q] = pc[q]
        BY <3>2, <3>5
      <4>3. sending' = sending /\ killed' = killed BY <3>1
      <4> QED BY <4>1, <4>2, <4>3
    <3> QED BY <3>4, <3>5 DEF Marks
  <2> QED BY <1>2, <2>2, <2>3, <2>4, <2>5 DEF Claims
<1>3. ASSUME UNCHANGED <<mark, stale, sending>>, killed \subseteq killed',
             \A q \in Procs : owns[q] /\ pc[q] \in Working
                               => q \in killed' \/ (owns'[q] /\ pc'[q] \in Working),
             \A q \in Procs : pc[q] \in {"age", "remove"} => pc'[q] = pc[q] \/ q \in killed'
      PROVE  Marks'
  BY <1>1, <1>3 DEF Marks, Members, Given
<1>4. ASSUME NEW p \in Procs, Locks(p) PROVE Marks'
  <2>1. /\ UNCHANGED <<mark, stale, sending, killed, owns>>
        /\ \A q \in Procs \ {p} : pc'[q] = pc[q]
        /\ \/ pc'[p] = pc[p]
           \/ pc[p] \notin {"age", "remove"} /\ (pc[p] \in Working => pc'[p] \in Working)
    BY <1>4 DEF Locks, ReadOutage, OpenStore, GitOpenStore, ProbeLock, Unprobe,
                Open, Fork, Exec, LeftBehindEnds
  <2> QED BY <1>3, <2>1
<1>5. ASSUME NEW p \in Procs, Checks(p) PROVE Marks'
  <2>1. CASE Answer(p)
    <3>1. /\ pc[p] = "answer" /\ UNCHANGED <<owns, killed, sending>>
          /\ pc' = [pc EXCEPT ![p] = "exit"]
          /\ mark' = IF owns[p] THEN [mark EXCEPT ![Event[p]] = None] ELSE mark
          /\ stale' = IF owns[p] THEN [stale EXCEPT ![Event[p]] = FALSE] ELSE stale
      BY <2>1 DEF Answer
    <3>2. ASSUME NEW e \in Events, mark'[e] # None
          PROVE  /\ mark'[e] = mark[e] /\ stale'[e] = stale[e]
                 /\ mark[e] \in killed \/ mark[e] # p
      <4>1. CASE owns[p]
        <5>1. Event[p] \in Events BY <4>1
        <5>2. e # Event[p] /\ mark'[e] = mark[e] /\ stale'[e] = stale[e] BY <3>1, <3>2, <4>1, <5>1
        <5> QED BY <1>1, <3>2, <5>2 DEF Marks
      <4>2. CASE ~owns[p] BY <1>1, <3>1, <3>2, <4>2 DEF Marks
      <4> QED BY <4>1, <4>2
    <3>3. \A q \in Procs : pc[q] \in {"age", "remove"} => pc'[q] = pc[q] BY <3>1
    <3>4. \A q \in Procs \ {p} : pc'[q] = pc[q] BY <3>1
    <3> QED BY <1>1, <3>1, <3>2, <3>3, <3>4 DEF Marks, Members, Given
  <2>2. CASE Exit(p)
    <3>1. /\ pc[p] = "exit" /\ UNCHANGED <<mark, stale, killed, sending>>
          /\ pc' = [pc EXCEPT ![p] = "done"] /\ owns' = [owns EXCEPT ![p] = FALSE]
      BY <2>2 DEF Exit, End
    <3> QED BY <1>3, <3>1
  <2>3. CASE Settle(p)
    <3>1. /\ pc[p] = "settle" /\ UNCHANGED <<mark, stale, owns, killed, sending>>
          /\ pc' = [pc EXCEPT ![p] = "answer"]
      BY <2>3 DEF Settle
    <3> QED BY <1>3, <3>1
  <2>4. CASE CheckFinishes(p) \/ CheckMeetsFailure(p) \/ CheckFails(p) \/ WaitingTimesOut(p)
    <3>1. /\ pc[p] = "check" /\ UNCHANGED <<mark, stale, owns, killed, sending>>
          /\ pc' = [pc EXCEPT ![p] = "settle"]
      BY <2>4 DEF CheckFinishes, CheckMeetsFailure, CheckFails, WaitingTimesOut, EndCheck
    <3> QED BY <1>3, <3>1
  <2> QED BY <1>5, <2>1, <2>2, <2>3, <2>4 DEF Checks
<1>6. ASSUME NEW p \in Procs, Kill(p) PROVE Marks'
  <2>1. /\ UNCHANGED <<mark, stale, sending>> /\ killed' = killed \cup {p}
        /\ \A q \in Procs \ {p} : pc'[q] = pc[q] /\ owns'[q] = owns[q]
    BY <1>6 DEF Kill, End
  <2> QED BY <1>3, <2>1
<1>7. ASSUME NEW e \in Events, GetOld(e) PROVE Marks'
  <2>1. /\ UNCHANGED <<mark, sending, killed, owns, pc>> /\ mark[e] # None
        /\ \A f \in Events : stale[f] => stale'[f]
    BY <1>7 DEF GetOld, process
  <2> QED BY <1>1, <2>1 DEF Marks
<1>8. CASE Tick \/ AllOver \/ UNCHANGED vars
  <2>1. UNCHANGED <<mark, stale, sending, killed, owns, pc>>
    BY <1>8 DEF Tick, AllOver, vars, process
  <2> QED BY <1>3, <2>1
<1> QED BY <1>2, <1>4, <1>5, <1>6, <1>7, <1>8 DEF Next

(* Who becomes silent found a fresh mark. *)
LEMMA SilentStep ==
  ASSUME TypeInv, [Next]_vars, NEW p \in Procs, pc[p] # "silent", pc'[p] = "silent"
  PROVE  ReadAge(p) /\ mark[Event[p]] # None /\ ~stale[Event[p]]
<1> USE DEF TypeInv, TypeOK, Labels, Goto, world, shared, files, history
<1>1. ASSUME NEW r \in Procs, Claims(r)
      PROVE  ReadAge(p) /\ mark[Event[p]] # None /\ ~stale[Event[p]]
  BY <1>1 DEF Claims, FirstCreate, ReadAge, RemoveMark, Recreate, Create
<1>2. ASSUME NEW r \in Procs, Locks(r) PROVE FALSE
  BY <1>2 DEF Locks, ReadOutage, OpenStore, GitOpenStore, ProbeLock, Unprobe,
              Open, Fork, Exec, LeftBehindEnds
<1>3. ASSUME NEW r \in Procs, Checks(r) PROVE FALSE
  BY <1>3 DEF Checks, CheckFinishes, CheckMeetsFailure, CheckFails, WaitingTimesOut, EndCheck,
              Settle, Answer, Exit, End
<1>4. ASSUME NEW r \in Procs, Kill(r) PROVE FALSE BY <1>4 DEF Kill, End
<1>5. ASSUME NEW e \in Events, GetOld(e) PROVE FALSE BY <1>5 DEF GetOld, process
<1>6. CASE Tick \/ AllOver \/ UNCHANGED vars BY <1>6 DEF Tick, AllOver, vars, process
<1> QED BY <1>1, <1>2, <1>3, <1>4, <1>5, <1>6 DEF Next

LEMMA SilentsStep == TypeInv /\ ClaimInv /\ [Next]_vars => Silents'
<1> SUFFICES ASSUME TypeInv, ClaimInv, [Next]_vars, NEW e \in Events, NEW p \in sending'[e],
                    pc'[p] = "silent"
             PROVE  \E q \in sending'[e] : Trusted(q)'
  BY DEF Silents
<1>1. \A f \in Events : sending[f] \subseteq Given(f) BY DEF ClaimInv, Members
<1>2. \A f \in Events : sending'[f] \subseteq Given(f)
  BY MembersStep DEF ClaimInv, Members, Given
<1>3. p \in Procs /\ Event[p] = e /\ e # None BY <1>2 DEF Given
<1>4. p \in sending[e] /\ sending[e] \subseteq sending'[e]
  <2>1. CASE sending' = sending BY <2>1
  <2>2. ASSUME NEW r \in Procs, FirstCreate(r) PROVE p \in sending[e] /\ sending[e] \subseteq sending'[e]
    <3>1. r # p BY <2>2, StartStep
    <3> QED BY <2>2, <3>1, StartStep
  <2> QED BY <2>1, <2>2, SendingStep
<1>5. PICK q \in sending[e] : Trusted(q)
  <2>1. CASE pc[p] = "silent" BY <1>4, <2>1 DEF ClaimInv, Silents
  <2>2. CASE pc[p] # "silent"
    <3>1. mark[e] # None /\ ~stale[e] BY <1>3, <2>2, SilentStep
    <3> QED BY <3>1 DEF ClaimInv, Marks, Trusted
  <2> QED BY <2>1, <2>2
<1>6. q \in Procs /\ Event[q] # None BY <1>1, <1>3, <1>5 DEF Given
<1>7. Trusted(q)' BY <1>5, <1>6, TrustKept
<1> QED BY <1>4, <1>5, <1>7

LEMMA ClaimStep == TypeInv /\ ClaimInv /\ [Next]_vars => ClaimInv'
BY EndsStep, MembersStep, MarksStep, SilentsStep DEF ClaimInv

LEMMA ClaimInvariant == Spec => [](TypeInv /\ ClaimInv)
BY TypeInit, TypeStep, ClaimInit, ClaimStep, PTL DEF Spec

(* Of the processes a sending of an event runs, when none of them was      *)
(* stopped, one answers, whatever earlier sendings left.                   *)
THEOREM SomebodyAlwaysAnswers == Spec => []SomebodyAnswers
<1>1. TypeInv /\ ClaimInv => SomebodyAnswers
  <2> SUFFICES ASSUME TypeInv, ClaimInv, NEW e \in Events, Answered(e)
               PROVE  replied \cap sending[e] # {}
    BY DEF SomebodyAnswers
  <2>1. PICK p \in sending[e] : Over(p) /\ p \notin killed BY DEF Answered
  <2>2. ASSUME NEW q \in sending[e], pc[q] = "done" PROVE q \in replied
    BY <2>2 DEF ClaimInv, Ends, Members, Answered, Given
  <2>3. CASE pc[p] = "done" BY <2>1, <2>2, <2>3
  <2>4. CASE pc[p] = "silent"
    <3>1. PICK q \in sending[e] : Trusted(q) BY <2>1, <2>4 DEF ClaimInv, Silents
    <3> QED BY <3>1, <2>2 DEF Trusted, Working, Answered, Over
  <2> QED BY <2>1, <2>3, <2>4 DEF Over
<1> QED BY <1>1, ClaimInvariant, PTL

(* ... and no mark is left to silence the event sent again.                *)
THEOREM NoMarkEverLeft == Spec => []NoMarkLeft
<1>1. TypeInv /\ ClaimInv => NoMarkLeft
  BY DEF ClaimInv, Marks, NoMarkLeft, Answered, Over, Working
<1> QED BY <1>1, ClaimInvariant, PTL

-----------------------------------------------------------------------------
(* A Store is open from its check's start until the check ends, is dropped  *)
(* or dies with its process, and a child can share its file only; a check   *)
(* that is about to end has it, and a probe has the lock.                   *)
Opened(p) == store[p] \/ forked[p]
LockInv ==
  /\ LockGoesWithStore
  /\ \A p \in Procs :
       /\ Opened(p) => pc[p] \in {"read", "check", "settle", "answer", "exit", "done"}
       /\ Opened(p) /\ pc[p] = "read" => Event[p] = None
       /\ store[p] => pc[p] # "done"
       /\ pc[p] = "check" => store[p]
       /\ Event[p] = None /\ pc[p] \in {"read", "settle", "answer"} => store[p]
       /\ pc[p] = "probed" => lock = p
       /\ pc[p] \in {"open", "probe", "probed"} => Event[p] # None

LEMMA LockStep == TypeInv /\ LockInv /\ [Next]_vars => LockInv'
<1> SUFFICES ASSUME TypeInv, LockInv, [Next]_vars PROVE LockInv'
  OBVIOUS
<1> USE DEF LockInv, LockGoesWithStore, Opened, Over, TypeInv, TypeOK, Labels, Goto, world, shared,
            files, history
<1>1. ASSUME NEW p \in Procs, Claims(p) PROVE LockInv'
  <2>1. CASE FirstCreate(p)
    <3>1. CASE Create(p) BY <2>1, <3>1 DEF FirstCreate, Create
    <3>2. CASE ~Create(p) BY <2>1, <3>2 DEF FirstCreate
    <3> QED BY <3>1, <3>2
  <2>2. CASE ReadAge(p) BY <2>2 DEF ReadAge
  <2>3. CASE RemoveMark(p) BY <2>3 DEF RemoveMark
  <2>4. CASE Recreate(p)
    <3>0. Event[p] # None BY <2>4 DEF Recreate, Claiming
    <3>1. CASE Create(p) BY <2>4, <3>0, <3>1 DEF Recreate, Create
    <3>2. CASE ~Create(p) BY <2>4, <3>0, <3>2 DEF Recreate
    <3> QED BY <3>1, <3>2
  <2> QED BY <1>1, <2>1, <2>2, <2>3, <2>4 DEF Claims
<1>2. ASSUME NEW p \in Procs, Locks(p) PROVE LockInv'
  <2>1. CASE ReadOutage(p) BY <2>1 DEF ReadOutage
  <2>2. CASE OpenStore(p)
    <3>1. CASE Open(p) BY <2>2, <3>1 DEF OpenStore, Open
    <3>2. CASE UNCHANGED <<lock, store>> BY <2>2, <3>2 DEF OpenStore, Open
    <3> QED BY <2>2, <3>1, <3>2 DEF OpenStore
  <2>3. CASE GitOpenStore(p)
    <3>1. CASE Open(p) BY <2>3, <3>1 DEF GitOpenStore, Open
    <3>2. CASE UNCHANGED <<lock, store>> BY <2>3, <3>2 DEF GitOpenStore, Open
    <3> QED BY <2>3, <3>1, <3>2 DEF GitOpenStore
  <2>4. CASE ProbeLock(p) BY <2>4 DEF ProbeLock
  <2>5. CASE Unprobe(p) BY <2>5 DEF Unprobe
  <2>6. CASE Fork(p) BY <2>6 DEF Fork
  <2>7. CASE Exec(p) BY <2>7 DEF Exec
  <2>8. CASE LeftBehindEnds(p) BY <2>8 DEF LeftBehindEnds, DropStore
  <2> QED BY <1>2, <2>1, <2>2, <2>3, <2>4, <2>5, <2>6, <2>7, <2>8 DEF Locks
<1>3. ASSUME NEW p \in Procs, Checks(p) PROVE LockInv'
  <2>1. ASSUME NEW how, NEW left, EndCheck(p, how, left) PROVE LockInv'
    BY <2>1 DEF EndCheck, DropStore
  <2>2. CASE Settle(p) BY <2>2 DEF Settle
  <2>3. CASE Answer(p) BY <2>3 DEF Answer, DropStore
  <2>4. CASE Exit(p) BY <2>4 DEF Exit, End
  <2> QED BY <1>3, <2>1, <2>2, <2>3, <2>4
          DEF Checks, CheckFinishes, CheckMeetsFailure, CheckFails, WaitingTimesOut
<1>4. ASSUME NEW p \in Procs, Kill(p) PROVE LockInv'
  BY <1>4 DEF Kill, End
<1>5. ASSUME NEW e \in Events, GetOld(e) PROVE LockInv'
  BY <1>5 DEF GetOld, process
<1>6. CASE Tick \/ AllOver \/ UNCHANGED vars
  BY <1>6 DEF Tick, AllOver, vars, process
<1> QED BY <1>1, <1>2, <1>3, <1>4, <1>5, <1>6 DEF Next

(* The session lock goes with an open Store, whatever a child shares and    *)
(* whoever is stopped or left behind.                                      *)
THEOREM LockAlwaysGoesWithStore == Spec => []LockGoesWithStore
<1>1. Init => LockInv BY DEF Init, LockInv, LockGoesWithStore, Opened
<1>2. LockInv => LockGoesWithStore BY DEF LockInv
<1> QED BY <1>1, <1>2, TypeInit, TypeStep, LockStep, PTL DEF Spec

-----------------------------------------------------------------------------
(* A failure was met at the tick at which it is recorded: time does not    *)
(* pass between the two.                                                   *)
Recording(p) == pc[p] = "settle" /\ ending[p] = "outage" /\ ~waiting[p]
OutageInv ==
  /\ OutageWasMet
  /\ held # None => held.at <= clock
  /\ \A p \in Procs : Recording(p) => held # None /\ held.at = clock

LEMMA OutageStep == TypeInv /\ OutageInv /\ [Next]_vars => OutageInv'
<1> SUFFICES ASSUME TypeInv, OutageInv, [Next]_vars PROVE OutageInv'
  OBVIOUS
<1> USE DEF OutageInv, OutageWasMet, Recording, TypeInv, TypeOK, Labels, Endings, Goto,
            world, shared, files, history
<1>1. ASSUME NEW p \in Procs, Claims(p) PROVE OutageInv'
  BY <1>1 DEF Claims, FirstCreate, ReadAge, RemoveMark, Recreate, Create
<1>2. ASSUME NEW p \in Procs, Locks(p) PROVE OutageInv'
  BY <1>2 DEF Locks, ReadOutage, OpenStore, GitOpenStore, ProbeLock, Unprobe,
     Open, Fork, Exec, LeftBehindEnds, DropStore
<1>3. ASSUME NEW p \in Procs, Checks(p) PROVE OutageInv'
  <2>1. CASE CheckFinishes(p)
    <3>1. held' = held \/ (held # None /\ held' # None /\ held'.at = held.at)
      <4>1. CASE held # None /\ held' = [held EXCEPT !.answered = TRUE]
        <5>1. held \in Holds BY <4>1
        <5>2. held' \in Holds /\ held'.at = held.at BY <4>1, <5>1
        <5> QED BY <4>1, <5>2
      <4> QED BY <2>1, <4>1 DEF CheckFinishes
    <3>2. \A q \in Procs : Recording(q)' => Recording(q)
      BY <2>1 DEF CheckFinishes, EndCheck, DropStore
    <3>3. clock' = clock /\ outage' = outage BY <2>1 DEF CheckFinishes, EndCheck, DropStore
    <3> HIDE DEF Recording
    <3> QED BY <3>1, <3>2, <3>3
  <2>2. CASE CheckMeetsFailure(p)
    <3>1. held' # None /\ held'.at = clock
      <4>1. held' = [at |-> clock, by |-> p, answered |-> FALSE]
        BY <2>2 DEF CheckMeetsFailure
      <4>2. held' \in Holds BY <4>1
      <4> QED BY <4>1, <4>2
    <3>2. clock' = clock /\ outage' = outage
      BY <2>2 DEF CheckMeetsFailure, EndCheck, DropStore
    <3> HIDE DEF Recording
    <3> QED BY <3>1, <3>2
  <2>3. CASE CheckFails(p) BY <2>3 DEF CheckFails, EndCheck, DropStore
  <2>4. CASE WaitingTimesOut(p) BY <2>4 DEF WaitingTimesOut, EndCheck, DropStore
  <2>5. CASE Settle(p) BY <2>5 DEF Settle, Settled
  <2>6. CASE Answer(p) BY <2>6 DEF Answer, DropStore
  <2>7. CASE Exit(p) BY <2>7 DEF Exit, End
  <2> QED BY <1>3, <2>1, <2>2, <2>3, <2>4, <2>5, <2>6, <2>7 DEF Checks
<1>4. ASSUME NEW p \in Procs, Kill(p) PROVE OutageInv'
  BY <1>4 DEF Kill, End
<1>5. ASSUME NEW e \in Events, GetOld(e) PROVE OutageInv'
  BY <1>5 DEF GetOld, process, files
<1>6. CASE Tick BY <1>6 DEF Tick, process, files, Over
<1>7. CASE AllOver \/ UNCHANGED vars BY <1>7 DEF AllOver, vars, process, files
<1> QED BY <1>1, <1>2, <1>3, <1>4, <1>5, <1>6, <1>7 DEF Next

(* What the checks wait out is a failure a check met, and no later.        *)
THEOREM OutageAlwaysMet == Spec => []OutageWasMet
<1>1. Init => OutageInv BY DEF Init, OutageInv, OutageWasMet, Recording
<1>2. OutageInv => OutageWasMet BY DEF OutageInv
<1> QED BY <1>1, <1>2, TypeInit, TypeStep, OutageStep, PTL DEF Spec

-----------------------------------------------------------------------------
(* Hooks that run one after another: at most one is between its start and   *)
(* its end, and until Wait after a failure that no answer followed, each    *)
(* waits it out, but the one that met it, until it has recorded it.         *)
OneAtATime ==
  ~overlap => \A p, q \in Procs : Active(p) /\ Active(q) => p = q

Asking == {"open", "probe", "probed", "check", "settle"}
Standing == held # None /\ ~held.answered /\ clock < held.at + Wait
Recorded == outage = held.at \/ Recording(held.by)
Excused(p) == pc[p] \in Asking => waiting[p] \/ (p = held.by /\ Recording(p))
WaitedOut ==
  ~overlap /\ killed = {} /\ Standing => Recorded /\ \A p \in Procs : Excused(p)

(* Whether hooks overlap is decided once, and no killed hook comes back.   *)
LEMMA FlagsStep == [Next]_vars => overlap' = overlap /\ killed \subseteq killed'
<1> SUFFICES ASSUME [Next]_vars PROVE overlap' = overlap /\ killed \subseteq killed'
  OBVIOUS
<1> USE DEF world, history
<1>1. ASSUME NEW p \in Procs, Claims(p)
      PROVE  overlap' = overlap /\ killed \subseteq killed'
  BY <1>1 DEF Claims, FirstCreate, ReadAge, RemoveMark, Recreate
<1>2. ASSUME NEW p \in Procs, Locks(p)
      PROVE  overlap' = overlap /\ killed \subseteq killed'
  BY <1>2 DEF Locks, ReadOutage, OpenStore, GitOpenStore, ProbeLock, Unprobe,
     Open, Fork, Exec, LeftBehindEnds, DropStore
<1>3. ASSUME NEW p \in Procs, Checks(p)
      PROVE  overlap' = overlap /\ killed \subseteq killed'
  BY <1>3 DEF Checks, CheckFinishes, CheckMeetsFailure, CheckFails, WaitingTimesOut,
              EndCheck, DropStore, Settle, Answer, Exit, End
<1>4. ASSUME NEW p \in Procs, Kill(p)
      PROVE  overlap' = overlap /\ killed \subseteq killed'
  BY <1>4 DEF Kill, End
<1>5. ASSUME NEW e \in Events, GetOld(e)
      PROVE  overlap' = overlap /\ killed \subseteq killed'
  BY <1>5 DEF GetOld
<1>6. CASE Tick \/ AllOver \/ UNCHANGED vars
  BY <1>6 DEF Tick, AllOver, vars
<1> QED BY <1>1, <1>2, <1>3, <1>4, <1>5, <1>6 DEF Next

LEMMA ActiveStep == TypeInv /\ OneAtATime /\ [Next]_vars => OneAtATime'
<1> SUFFICES ASSUME TypeInv, OneAtATime, [Next]_vars, ~overlap PROVE OneAtATime'
  BY FlagsStep DEF OneAtATime
<1> USE DEF Active, Over, TypeInv, TypeOK, Labels, Goto
<1>1. ASSUME NEW p \in Procs,
             \A q \in Procs \ {p} : pc'[q] = pc[q],
             Active(p) \/ Alone
      PROVE  OneAtATime'
  BY <1>1 DEF OneAtATime, Alone
<1>2. CASE pc' = pc BY <1>2 DEF OneAtATime
<1> HIDE DEF Active
<1>3. ASSUME NEW p \in Procs, Claims(p) PROVE OneAtATime'
  <2>1. \A q \in Procs \ {p} : pc'[q] = pc[q]
    BY <1>3 DEF Claims, FirstCreate, ReadAge, RemoveMark, Recreate, Create
  <2>2. Active(p) \/ Alone
    BY <1>3 DEF Claims, FirstCreate, ReadAge, RemoveMark, Recreate, Active
  <2> QED BY <1>1, <2>1, <2>2
<1>4. ASSUME NEW p \in Procs, Locks(p) PROVE OneAtATime'
  <2> SUFFICES ASSUME ~(pc' = pc) PROVE OneAtATime'
    BY <1>2
  <2>1. \A q \in Procs \ {p} : pc'[q] = pc[q]
    BY <1>4 DEF Locks, ReadOutage, OpenStore, GitOpenStore, ProbeLock, Unprobe,
     Open, Fork, Exec, LeftBehindEnds, DropStore
  <2>2. Active(p) \/ Alone
    BY <1>4 DEF Locks, ReadOutage, OpenStore, GitOpenStore, ProbeLock, Unprobe,
     Open, Fork, Exec, LeftBehindEnds, DropStore, Active
  <2> QED BY <1>1, <2>1, <2>2
<1>5. ASSUME NEW p \in Procs, Checks(p) \/ Kill(p) PROVE OneAtATime'
  <2>1. \A q \in Procs \ {p} : pc'[q] = pc[q]
    BY <1>5 DEF Checks, CheckFinishes, CheckMeetsFailure, CheckFails, WaitingTimesOut,
                EndCheck, DropStore, Settle, Answer, Exit, End, Kill
  <2>2. Active(p)
    BY <1>5 DEF Checks, CheckFinishes, CheckMeetsFailure, CheckFails, WaitingTimesOut,
                EndCheck, DropStore, Settle, Answer, Exit, Kill, Active
  <2> QED BY <1>1, <2>1, <2>2
<1>6. ASSUME NEW e \in Events, GetOld(e) PROVE OneAtATime'
  BY <1>2, <1>6 DEF GetOld, process, files
<1>7. CASE Tick \/ AllOver \/ UNCHANGED vars
  BY <1>2, <1>7 DEF Tick, AllOver, vars, process, files
<1> QED BY <1>3, <1>4, <1>5, <1>6, <1>7 DEF Next

(* Who is not waiting a failure out asks the provider once it may. *)
LEMMA WaitedOutStep ==
  TypeInv /\ OutageInv /\ OneAtATime /\ WaitedOut /\ [Next]_vars => WaitedOut'
<1> DEFINE Goal == Recorded' /\ \A p \in Procs : Excused(p)'
<1> SUFFICES ASSUME TypeInv, OutageInv, OneAtATime, WaitedOut, [Next]_vars,
                    ~overlap, killed = {}, killed' = {}, Standing'
             PROVE  Goal
  BY FlagsStep DEF WaitedOut
<1>0. clock \in Nat /\ Wait \in Nat /\ (held # None => held.at \in Nat /\ held.by \in Procs)
  BY DEF TypeInv, TypeOK
<1>1. ASSUME Standing PROVE Recorded /\ \A p \in Procs : Excused(p)
  BY <1>1 DEF WaitedOut
<1>2. ASSUME held' = held, clock' = clock PROVE Standing /\ held # None /\ held.by \in Procs
  BY <1>0, <1>2 DEF Standing
<1> DEFINE Same(q) == pc'[q] = pc[q] /\ waiting'[q] = waiting[q] /\ ending'[q] = ending[q]
(* A step that leaves the failure and who asks alone leaves the goal alone. *)
<1>3. ASSUME UNCHANGED <<held, clock, outage>>,
             \A q \in Procs : (pc'[q] \in Asking => Same(q)) /\ (Recording(q) => Same(q))
      PROVE  Goal
  <2>1. Standing /\ held # None /\ held.by \in Procs BY <1>2, <1>3
  <2>2. \A q \in Procs : Recording(q) => Recording(q)' BY <1>3 DEF Recording
  <2>3. Recorded' BY <1>1, <1>3, <2>1, <2>2 DEF Recorded
  <2>4. ASSUME NEW q \in Procs PROVE Excused(q)'
    <3>1. Excused(q) BY <1>1, <2>1
    <3> QED BY <1>3, <2>2, <3>1 DEF Excused
  <2> QED BY <2>3, <2>4
(* A step after which nobody asks needs the failure on record only. *)
<1>4. ASSUME UNCHANGED <<held, clock>>, \A q \in Procs : pc'[q] \notin Asking,
             outage' = held.at
      PROVE  Goal
  BY <1>4 DEF Recorded, Excused
<1>5. ASSUME NEW p \in Procs, Claims(p) PROVE Goal
  <2>1. /\ UNCHANGED <<held, clock, outage, waiting, ending>>
        /\ \A q \in Procs : (pc'[q] \in Asking => pc'[q] = pc[q])
                            /\ (pc[q] = "settle" => pc'[q] = pc[q])
    BY <1>5 DEF Claims, FirstCreate, ReadAge, RemoveMark, Recreate, Create, Asking,
                TypeInv, TypeOK, Labels, Goto, world, history, shared
  <2> QED BY <1>3, <2>1 DEF Recording
<1>6. ASSUME NEW p \in Procs, Locks(p) PROVE Goal
  <2>1. UNCHANGED <<held, clock, outage>>
    BY <1>6 DEF Locks, ReadOutage, OpenStore, GitOpenStore, ProbeLock, Unprobe,
     Open, Fork, Exec, LeftBehindEnds, DropStore, world,
                history, shared
  <2>2. Standing /\ held # None /\ held.by \in Procs BY <1>2, <2>1
  <2>3. CASE ReadOutage(p)
    <3>1. /\ pc[p] = "read" /\ waiting' = [waiting EXCEPT ![p] = Current]
          /\ pc' = [pc EXCEPT ![p] = IF Event[p] = None THEN "check" ELSE "open"]
      BY <2>3 DEF ReadOutage, Goto
    <3>2. ASSUME NEW q \in Procs, q # p PROVE pc[q] \notin Asking
      BY <3>1, <3>2 DEF OneAtATime, Active, Over, Asking
    <3>3. ~Recording(held.by) BY <2>2, <3>1, <3>2 DEF Recording, Asking
    <3>4. outage = held.at BY <1>1, <2>2, <3>3 DEF Recorded
    <3>5. Current BY <1>0, <2>2, <3>4 DEF Current, Standing
    <3>6. ASSUME NEW q \in Procs, pc'[q] \in Asking PROVE waiting'[q]
      <4>1. q = p BY <3>1, <3>2, <3>6 DEF TypeInv, TypeOK
      <4> HIDE DEF Current
      <4> QED BY <3>1, <3>5, <4>1 DEF TypeInv, TypeOK
    <3> QED BY <2>1, <3>4, <3>6 DEF Recorded, Excused
  <2>4. CASE Fork(p) \/ Exec(p) \/ LeftBehindEnds(p)
    <3>1. UNCHANGED <<pc, waiting, ending>> BY <2>4 DEF Fork, Exec, LeftBehindEnds
    <3> QED BY <1>3, <2>1, <3>1
  <2>5. CASE ~ReadOutage(p) /\ ~Fork(p) /\ ~Exec(p) /\ ~LeftBehindEnds(p)
    <3>1. /\ UNCHANGED waiting
          /\ pc[p] \in Asking \/ pc'[p] \notin Asking
          /\ pc[p] # "settle"
          /\ \A q \in Procs \ {p} : pc'[q] = pc[q] /\ ending'[q] = ending[q]
      BY <1>6, <2>5 DEF Locks, OpenStore, GitOpenStore, ProbeLock, Unprobe, Asking, Goto,
                        TypeInv, TypeOK, Labels
    <3>2. ASSUME NEW q \in Procs, Recording(q) PROVE Recording(q)'
      BY <3>1, <3>2 DEF Recording
    <3>3. ASSUME NEW q \in Procs PROVE Excused(q)'
      <4>1. Excused(q) BY <1>1, <2>2
      <4>2. pc'[q] \in Asking => pc[q] \in Asking BY <3>1
      <4> QED BY <2>1, <3>1, <3>2, <4>1, <4>2 DEF Excused
    <3>4. Recorded' BY <1>1, <2>1, <2>2, <3>2 DEF Recorded
    <3> QED BY <3>3, <3>4
  <2> QED BY <2>3, <2>4, <2>5
<1>7. ASSUME NEW p \in Procs, Checks(p) PROVE Goal
  <2>1. Active(p)
    BY <1>7 DEF Checks, CheckFinishes, CheckMeetsFailure, CheckFails, WaitingTimesOut,
                EndCheck, DropStore, Settle, Answer, Exit, Active, Over
  <2>2. ASSUME NEW q \in Procs, q # p PROVE pc[q] \notin Asking /\ pc'[q] = pc[q]
    <3>1. ~Active(q) BY <2>1, <2>2 DEF OneAtATime
    <3>2. pc'[q] = pc[q]
      BY <1>7, <2>2 DEF Checks, CheckFinishes, CheckMeetsFailure, CheckFails,
         WaitingTimesOut, EndCheck, DropStore, Settle, Answer, Exit, End, Goto, TypeInv, TypeOK
    <3> QED BY <3>1, <3>2 DEF Active, Over, Asking
  (* Who ends a check that waited the failure out leaves it on record.     *)
  <2>3. ASSUME UNCHANGED <<held, clock, outage, waiting>>, pc[p] = "check" PROVE Goal
    <3>1. Standing /\ held # None /\ held.by \in Procs BY <1>2, <2>3
    <3>2. waiting[p]
      <4>1. Excused(p) BY <1>1, <3>1
      <4> QED BY <2>3, <4>1 DEF Excused, Asking, Recording
    <3>3. ~Recording(held.by) BY <2>2, <2>3, <3>1 DEF Recording, Asking
    <3>4. outage = held.at BY <1>1, <3>1, <3>3 DEF Recorded
    <3>5. ASSUME NEW q \in Procs, pc'[q] \in Asking PROVE waiting'[q]
      <4>1. q = p BY <2>2, <3>5
      <4> QED BY <2>3, <3>2, <4>1
    <3> QED BY <2>3, <3>4, <3>5 DEF Recorded, Excused
  <2>4. CASE CheckFinishes(p)
    <3>1. UNCHANGED <<clock, outage, waiting>> /\ pc[p] = "check"
      BY <2>4 DEF CheckFinishes, EndCheck, DropStore, world
    <3>2. UNCHANGED held
      <4>1. held' = held \/ (held # None /\ held' = [held EXCEPT !.answered = TRUE])
        BY <2>4 DEF CheckFinishes
      <4>2. held # None /\ held' = [held EXCEPT !.answered = TRUE] => held'.answered
        BY DEF TypeInv, TypeOK
      <4> QED BY <4>1, <4>2 DEF Standing
    <3> QED BY <2>3, <3>1, <3>2
  <2>5. CASE CheckMeetsFailure(p)
    <3>1. held' = [at |-> clock, by |-> p, answered |-> FALSE]
      BY <2>5 DEF CheckMeetsFailure
    <3>2. Recording(p)'
      BY <2>5 DEF CheckMeetsFailure, EndCheck, DropStore, Recording, Goto, TypeInv, TypeOK
    <3>3. ASSUME NEW q \in Procs, pc'[q] \in Asking PROVE q = p BY <2>2, <3>3
    <3>4. held'.by = p BY <3>1
    <3> HIDE DEF Recording
    <3>5. Recorded' BY <3>2, <3>4 DEF Recorded
    <3>6. ASSUME NEW q \in Procs PROVE Excused(q)' BY <3>2, <3>3, <3>4 DEF Excused
    <3> QED BY <3>5, <3>6
  <2>6. CASE CheckFails(p) \/ WaitingTimesOut(p)
    <3>1. UNCHANGED <<held, clock, outage, waiting>> /\ pc[p] = "check"
      BY <2>6 DEF CheckFails, WaitingTimesOut, EndCheck, DropStore, world
    <3> QED BY <2>3, <3>1
  <2>7. CASE Settle(p)
    <3>1. /\ UNCHANGED <<held, clock, waiting, ending>> /\ pc[p] = "settle"
          /\ pc'[p] = "answer" /\ outage' = Settled(p)
      BY <2>7 DEF Settle, Goto, TypeInv, TypeOK, world, history
    <3>2. Standing /\ held # None /\ held.by \in Procs BY <1>2, <3>1
    <3>3. \A q \in Procs : pc'[q] \notin Asking BY <2>2, <3>1 DEF Asking
    <3>4. outage' = held.at
      <4>1. CASE waiting[p]
        <5>1. outage' = outage
          <6>1. ~(~waiting[p] /\ ending[p] = "ok") /\ ~(~waiting[p] /\ ending[p] = "outage")
            BY <4>1
          <6> QED BY <3>1, <6>1 DEF Settled
        <5>2. ~Recording(held.by) BY <2>2, <3>2, <4>1 DEF Recording, Asking
        <5> QED BY <1>1, <3>2, <5>1, <5>2 DEF Recorded
      <4>2. CASE ~waiting[p]
        <5>1. Recording(p)
          <6>1. Excused(p) BY <1>1, <3>2
          <6> QED BY <3>1, <4>2, <6>1 DEF Excused, Asking
        <5>2. held.at = clock BY <5>1 DEF OutageInv
        <5>3. outage' = clock BY <3>1, <4>2, <5>1 DEF Settled, Recording
        <5> QED BY <5>2, <5>3
      <4> QED BY <4>1, <4>2
    <3> QED BY <1>4, <3>1, <3>3, <3>4
  <2>8. CASE Answer(p) \/ Exit(p)
    <3>1. /\ UNCHANGED <<held, clock, outage>> /\ pc[p] \in {"answer", "exit"}
          /\ pc'[p] \in {"exit", "done"}
      BY <2>8 DEF Answer, DropStore, Exit, End, Goto, TypeInv, TypeOK, world, history
    <3>2. Standing /\ held # None /\ held.by \in Procs BY <1>2, <3>1
    <3>3. \A q \in Procs : pc'[q] \notin Asking BY <2>2, <3>1 DEF Asking
    <3>4. ~Recording(held.by) BY <2>2, <3>1, <3>2 DEF Recording, Asking
    <3> QED BY <1>1, <1>4, <3>1, <3>2, <3>3, <3>4 DEF Recorded
  <2> QED BY <1>7, <2>4, <2>5, <2>6, <2>7, <2>8 DEF Checks
<1>8. ASSUME NEW p \in Procs, Kill(p) PROVE FALSE
  BY <1>8 DEF Kill
<1>9. ASSUME NEW e \in Events, GetOld(e) PROVE Goal
  <2>1. UNCHANGED <<held, clock, outage, pc, waiting, ending>>
    BY <1>9 DEF GetOld, process, files, world, history
  <2> QED BY <1>3, <2>1
<1>10. CASE Tick
  <2>1. UNCHANGED <<held, outage, waiting, ending, pc>> /\ clock' = clock + 1
    BY <1>10 DEF Tick, process, files, shared, history
  <2>2. Standing BY <1>0, <2>1 DEF Standing
  <2> QED BY <1>1, <2>1, <2>2 DEF Recorded, Excused, Recording
<1>11. CASE AllOver \/ UNCHANGED vars
  <2>1. UNCHANGED <<held, clock, outage, pc, waiting, ending>>
    BY <1>11 DEF AllOver, vars, process, files, world, shared, history
  <2> QED BY <1>3, <2>1
<1> HIDE DEF Goal
<1> QED BY <1>5, <1>6, <1>7, <1>8, <1>9, <1>10, <1>11 DEF Next

(* Only a check that waits nothing out is held by a failure. *)
LEMMA OnlyAsking ==
  ASSUME TypeInv, [Next]_vars, held' # held
  PROVE  \E p \in Procs : CheckFinishes(p) \/ CheckMeetsFailure(p)
<1> USE DEF history
<1>1. ASSUME NEW p \in Procs, Claims(p) PROVE FALSE
  BY <1>1 DEF Claims, FirstCreate, ReadAge, RemoveMark, Recreate
<1>2. ASSUME NEW p \in Procs, Locks(p) PROVE FALSE
  BY <1>2 DEF Locks, ReadOutage, OpenStore, GitOpenStore, ProbeLock, Unprobe,
     Open, Fork, Exec, LeftBehindEnds, DropStore
<1>3. ASSUME NEW p \in Procs, Checks(p) PROVE CheckFinishes(p) \/ CheckMeetsFailure(p)
  BY <1>3 DEF Checks, CheckFails, WaitingTimesOut, Settle, Answer, Exit
<1>4. ASSUME NEW p \in Procs, Kill(p) PROVE FALSE BY <1>4 DEF Kill
<1>5. ASSUME NEW e \in Events, GetOld(e) PROVE FALSE BY <1>5 DEF GetOld
<1>6. CASE Tick \/ AllOver \/ UNCHANGED vars BY <1>6 DEF Tick, AllOver, vars
<1> QED BY <1>1, <1>2, <1>3, <1>4, <1>5, <1>6 DEF Next

LEMMA HeldStep ==
  ASSUME TypeInv, OneAtATime, WaitedOut, [Next]_vars,
         ~overlap, killed = {}, held # None, held' # held, ~held'.answered
  PROVE  held.answered \/ clock >= held.at + Wait
<1>1. PICK p \in Procs : CheckFinishes(p) \/ CheckMeetsFailure(p) BY OnlyAsking
<1>2. held \in Holds BY DEF TypeInv, TypeOK
<1>3. CASE CheckFinishes(p)
  <2>1. held' = [held EXCEPT !.answered = TRUE] BY <1>3 DEF CheckFinishes
  <2>2. held'.answered BY <1>2, <2>1
  <2> QED BY <2>2
<1>4. CASE CheckMeetsFailure(p)
  <2>1. pc[p] = "check" /\ ~waiting[p] BY <1>4 DEF CheckMeetsFailure, EndCheck, DropStore
  <2>2. ~Excused(p) BY <2>1 DEF Excused, Asking, Recording
  <2>3. ~Standing BY <2>2 DEF WaitedOut
  <2>4. clock \in Nat /\ Wait \in Nat /\ held.at \in Nat BY <1>2 DEF TypeInv, TypeOK
  <2> QED BY <2>3, <2>4 DEF Standing
<1> QED BY <1>1, <1>3, <1>4

(* HeldOnce: for any number of hooks, one after another, and any wait, an  *)
(* outage holds at most one of them in each Wait (coding-agents.md,         *)
(* outage::current, Hook::check).                                           *)
THEOREM HeldAtMostOnce == Spec => HeldOnce
<1>1. Init => OneAtATime /\ WaitedOut /\ OutageInv
  BY DEF Init, OneAtATime, Active, Over, WaitedOut, Standing, OutageInv, OutageWasMet, Recording
<1>2. TypeInv /\ OneAtATime /\ WaitedOut /\ [Next]_vars =>
        [~overlap /\ killed = {} /\ held # None /\ held' # held /\ ~held'.answered
           => held.answered \/ clock >= held.at + Wait]_vars
  BY HeldStep
<1> QED BY <1>1, <1>2, TypeInit, TypeStep, OutageStep, ActiveStep, WaitedOutStep, PTL
        DEF Spec, HeldOnce
=============================================================================
