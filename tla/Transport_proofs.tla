-------------------------- MODULE Transport_proofs --------------------------
(* What Transport keeps for any number of workers and requests, any        *)
(* attempt limits, prices and setups.                                      *)
EXTENDS Transport, TLAPS

(* The type invariant in parts; no request is retried as often as the      *)
(* largest limit allows sends.                                             *)
TypeShared ==
  /\ setup \in Setups
  /\ clock \in Nat /\ next \in 1 .. Count + 1
  /\ rejected \in {0, 402, 403} /\ edge \in BOOLEAN /\ edgeBlocks \in Nat
  /\ cooldown \in Nat \cup {None} /\ nextStart \in Nat
TypeMoney ==
  /\ spent \in Nat /\ priced \subseteq Requests
  /\ cancelled \in BOOLEAN /\ edited \subseteq Requests
TypeWorkers ==
  /\ pc \in [Workers -> Labels] /\ req \in [Workers -> 0 .. Count]
  /\ until \in [Workers -> Nat] /\ result \in [Workers -> Kinds]
TypeRetry ==
  /\ retry \in [Workers -> Nat]
  /\ \A w \in Workers : retry[w] < AnsweredAttempts
TypeGiven ==
  /\ outcome \in [Requests -> {"answered", "failed", "skipped", None}]
  /\ retries \in [Requests -> Nat]
TypeHistory ==
  /\ sends \in [Requests -> Nat] /\ billable \in [Requests -> Nat]
  /\ late \in [Workers -> Nat]

(* Every request has a price. *)
LEMMA Prices == Cost \in [Requests -> Nat]
BY TransportAssumption DEF TransportAssumption

(* What the steps count with are natural numbers. *)
LEMMA Counted ==
  Count \in Nat /\ AnsweredAttempts \in Nat \ {0} /\ Interval \in Nat
BY TransportAssumption DEF TransportAssumption

TypeInv ==
  TypeShared /\ TypeMoney /\ TypeWorkers /\ TypeRetry /\ TypeGiven
  /\ TypeHistory

(* The parts are TypeOK. *)
LEMMA TypeInvType == TypeInv => TypeOK
BY DEF TypeInv, TypeOK, TypeShared, TypeMoney, TypeWorkers, TypeRetry,
     TypeGiven, TypeHistory

(* The first state has the types. *)
LEMMA TypeInit == Init => TypeInv
<1> SUFFICES ASSUME Init PROVE TypeInv OBVIOUS
<1> USE Counted DEF Init
<1>1. TypeShared
  <2>1. setup \in Setups OBVIOUS
  <2>2. clock \in Nat OBVIOUS
  <2>3. next \in 1 .. Count + 1 OBVIOUS
  <2>4. rejected \in {0, 402, 403} OBVIOUS
  <2>5. edge \in BOOLEAN OBVIOUS
  <2>6. edgeBlocks \in Nat OBVIOUS
  <2>7. cooldown \in Nat \cup {None} OBVIOUS
  <2>8. nextStart \in Nat OBVIOUS
  <2> QED BY <2>1, <2>2, <2>3, <2>4, <2>5, <2>6, <2>7, <2>8 DEF TypeShared
<1>2. TypeMoney BY DEF TypeMoney
<1>3. TypeWorkers BY DEF TypeWorkers, Labels, Kinds
<1>4. TypeRetry BY DEF TypeRetry
<1>5. TypeGiven BY DEF TypeGiven
<1>6. TypeHistory BY DEF TypeHistory
<1> QED BY <1>1, <1>2, <1>3, <1>4, <1>5, <1>6 DEF TypeInv

(* The item a worker holds is one of the queue's. *)
Held   == {"check", "before", "recheck", "wait", "pause", "pace", "paced",
           "inflight", "markEdge", "reject", "retry"}
Sent   == {"inflight", "markEdge", "reject", "retry"}
Holding ==
  \A w \in Workers : pc[w] \in Held => req[w] \in Requests /\ req[w] < next

(* No worker holds an item at first. *)
LEMMA HoldingInit == Init => Holding
BY DEF Init, Holding, Held

(* A retry that goes on waits a natural time and stays below the limit. *)
LEMMA Delaying ==
  ASSUME TypeShared, TypeRetry, TypeWorkers, NEW w \in Workers, ~GivesUp(w),
         NEW delay \in Delays(result[w])
  PROVE  Larger(delay, Backoff(retry[w] + 1)) \in Nat /\ retry[w] + 1 \in Nat
         /\ retry[w] + 1 < AnsweredAttempts
<1>1. Attempts(result[w]) \in Nat /\ Attempts(result[w]) <= AnsweredAttempts
  BY TransportAssumption DEF TransportAssumption, Attempts
<1>2. retry[w] \in Nat BY DEF TypeRetry
<1>3. AnsweredAttempts \in Nat BY TransportAssumption DEF TransportAssumption
<1>4. retry[w] + 1 \in Nat /\ retry[w] + 1 < AnsweredAttempts
  BY <1>1, <1>2, <1>3 DEF GivesUp
<1>5. Backoff(retry[w] + 1) \in Nat BY <1>2, <1>3, <1>4, BackoffAssumption
<1>6. delay \in Nat BY TransportAssumption DEF TransportAssumption, Delays
<1> QED BY <1>4, <1>5, <1>6 DEF Larger

(* A retry gives up, or goes on at a pause's end. *)
RetryAt(w, end) ==
  /\ retry[w] + 1 \in Nat /\ retry[w] + 1 < AnsweredAttempts
  /\ retry' = [retry EXCEPT ![w] = @ + 1]
  /\ cooldown' = IF cooldown = None THEN end ELSE Larger(cooldown, end)
  /\ Goto(w, "check")
  /\ UNCHANGED given

(* Retry is one of the two. *)
LEMMA Retrying ==
  ASSUME TypeShared, TypeRetry, TypeWorkers, NEW w \in Workers, Retry(w)
  PROVE  \/ Finish(w, "failed") /\ UNCHANGED <<retry, cooldown>>
         \/ \E end \in Nat : RetryAt(w, end)
<1>1. PICK delay \in Delays(result[w]) :
        LET end == clock + Larger(delay, Backoff(retry[w] + 1)) IN
        IF GivesUp(w) \/ Past(end)
          THEN Finish(w, "failed") /\ UNCHANGED <<retry, cooldown>>
          ELSE /\ retry' = [retry EXCEPT ![w] = @ + 1]
               /\ cooldown' =
                    IF cooldown = None THEN end ELSE Larger(cooldown, end)
               /\ Goto(w, "check")
               /\ UNCHANGED given
  BY DEF Retry
<1> DEFINE end == clock + Larger(delay, Backoff(retry[w] + 1))
<1>2. CASE GivesUp(w) \/ Past(end) BY <1>1, <1>2
<1>3. CASE ~(GivesUp(w) \/ Past(end))
  <2>1. /\ Larger(delay, Backoff(retry[w] + 1)) \in Nat
        /\ retry[w] + 1 \in Nat /\ retry[w] + 1 < AnsweredAttempts
    BY <1>3, Delaying
  <2>2. end \in Nat BY <2>1 DEF TypeShared
  <2> HIDE DEF end
  <2>3. RetryAt(w, end) BY <1>1, <1>3, <2>1 DEF RetryAt, end
  <2> QED BY <2>2, <2>3
<1> QED BY <1>2, <1>3

(* A worker's item stays one of the queue's. *)
LEMMA HoldingStep == TypeInv /\ Holding /\ [Next]_vars => Holding'
<1> SUFFICES ASSUME TypeInv, Holding, [Next]_vars PROVE Holding'
  OBVIOUS
<1> TypeWorkers /\ TypeShared BY DEF TypeInv
<1> USE DEF Holding, TypeShared, TypeWorkers, Requests, Labels, Kinds, Holding,
            Held, Goto, Finish, Refuse, Respond, shared, money, inputs,
            workers, given, history
<1>1. ASSUME NEW w \in Workers, Work(w) PROVE Holding'
  <2>1. CASE Claim(w) BY <2>1, Counted DEF Claim, HasItem
  <2>2. CASE Check(w) BY <2>2, Counted DEF Check
  <2>3. CASE Before(w) BY <2>3, Counted DEF Before
  <2>4. CASE Recheck(w) BY <2>4, Counted DEF Recheck
  <2>5. CASE Wait(w) BY <2>5, Counted DEF Wait
  <2>6. CASE WakeUp(w) BY <2>6, Counted DEF WakeUp
  <2>7. CASE Pace(w) BY <2>7, Counted DEF Pace, Larger
  <2>8. CASE Send(w) BY <2>8, Counted DEF Send
  <2>9. CASE Succeed(w) BY <2>9, Counted DEF Succeed
  <2>10. CASE FailForGood(w) BY <2>10, Counted DEF FailForGood
  <2>11. CASE FailForNow(w) BY <2>11, Counted DEF FailForNow, Retryable
  <2>12. CASE FailAccount(w) BY <2>12, Counted DEF FailAccount
  <2>13. CASE FailEdge(w) BY <2>13, Counted DEF FailEdge
  <2>14. CASE MarkEdge(w) BY <2>14, Counted DEF MarkEdge
  <2>15. CASE Reject(w) BY <2>15, Counted DEF Reject, StatusOf
  <2>16. CASE Retry(w)
    BY <2>16, Counted DEF Retry
  <2> QED BY <1>1, <2>1, <2>2, <2>3, <2>4, <2>5, <2>6, <2>7, <2>8, <2>9,
       <2>10, <2>11, <2>12, <2>13, <2>14, <2>15, <2>16 DEF Work
<1>2. CASE QueueEnds \/ UNCHANGED vars BY <1>2 DEF QueueEnds, vars
<1>3. CASE Tick BY <1>3 DEF Tick
<1>4. CASE Cancel BY <1>4 DEF Cancel
<1>5. ASSUME NEW r \in Requests, EditSource(r) PROVE Holding'
  BY <1>5 DEF EditSource
<1> QED BY <1>1, <1>2, <1>3, <1>4, <1>5 DEF Next

(* What the workers share keeps its type. *)
LEMMA TypeSharedStep == TypeInv /\ Holding /\ [Next]_vars => TypeShared'
<1> SUFFICES ASSUME TypeInv, Holding, [Next]_vars PROVE TypeShared'
  OBVIOUS
<1> TypeShared /\ TypeRetry /\ TypeWorkers BY DEF TypeInv
<1> USE DEF TypeRetry, TypeShared, TypeWorkers, Labels, Kinds, Holding, Held,
            Goto, Finish, Refuse, Respond, shared, money, inputs, workers,
            given, history
<1>1. ASSUME NEW w \in Workers, Work(w) PROVE TypeShared'
  <2>1. CASE Claim(w) BY <2>1, Counted DEF Claim, HasItem
  <2>2. CASE Check(w) BY <2>2, Counted DEF Check
  <2>3. CASE Before(w) BY <2>3, Counted DEF Before
  <2>4. CASE Recheck(w) BY <2>4, Counted DEF Recheck
  <2>5. CASE Wait(w) BY <2>5, Counted DEF Wait
  <2>6. CASE WakeUp(w) BY <2>6, Counted DEF WakeUp
  <2>7. CASE Pace(w) BY <2>7, Counted DEF Pace, Larger
  <2>8. CASE Send(w) BY <2>8, Counted DEF Send
  <2>9. CASE Succeed(w) BY <2>9, Counted DEF Succeed
  <2>10. CASE FailForGood(w) BY <2>10, Counted DEF FailForGood
  <2>11. CASE FailForNow(w) BY <2>11, Counted DEF FailForNow, Retryable
  <2>12. CASE FailAccount(w) BY <2>12, Counted DEF FailAccount
  <2>13. CASE FailEdge(w) BY <2>13, Counted DEF FailEdge
  <2>14. CASE MarkEdge(w) BY <2>14, Counted DEF MarkEdge
  <2>15. CASE Reject(w) BY <2>15, Counted DEF Reject, StatusOf
  <2>16. CASE Retry(w)
    <3>1. CASE Finish(w, "failed") /\ UNCHANGED <<retry, cooldown>>
      BY <2>16, <3>1 DEF Retry
    <3>2. CASE \E end \in Nat : RetryAt(w, end)
      BY <2>16, <3>2 DEF Retry, RetryAt, Larger
    <3> QED BY <2>16, <3>1, <3>2, Retrying DEF TypeInv
  <2> QED BY <1>1, <2>1, <2>2, <2>3, <2>4, <2>5, <2>6, <2>7, <2>8, <2>9,
       <2>10, <2>11, <2>12, <2>13, <2>14, <2>15, <2>16 DEF Work
<1>2. CASE QueueEnds \/ UNCHANGED vars BY <1>2 DEF QueueEnds, vars
<1>3. CASE Tick BY <1>3 DEF Tick
<1>4. CASE Cancel BY <1>4 DEF Cancel
<1>5. ASSUME NEW r \in Requests, EditSource(r) PROVE TypeShared'
  BY <1>5 DEF EditSource
<1> QED BY <1>1, <1>2, <1>3, <1>4, <1>5 DEF Next

(* The budget's spending and the inputs keep their types. *)
LEMMA TypeMoneyStep == TypeInv /\ Holding /\ [Next]_vars => TypeMoney'
<1> SUFFICES ASSUME TypeInv, Holding, [Next]_vars PROVE TypeMoney'
  OBVIOUS
<1> TypeMoney BY DEF TypeInv
<1> USE DEF TypeMoney, Labels, Kinds, Holding, Held, Goto, Finish, Refuse,
            Respond, shared, money, inputs, workers, given, history
<1>1. ASSUME NEW w \in Workers, Work(w) PROVE TypeMoney'
  <2>1. CASE Claim(w) BY <2>1, Prices DEF Claim, HasItem
  <2>2. CASE Check(w) BY <2>2, Prices DEF Check
  <2>3. CASE Before(w) BY <2>3, Prices DEF Before
  <2>4. CASE Recheck(w) BY <2>4, Prices DEF Recheck
  <2>5. CASE Wait(w) BY <2>5, Prices DEF Wait
  <2>6. CASE WakeUp(w) BY <2>6, Prices DEF WakeUp
  <2>7. CASE Pace(w) BY <2>7, Prices DEF Pace, Larger
  <2>8. CASE Send(w) BY <2>8, Prices DEF Send
  <2>9. CASE Succeed(w) BY <2>9, Prices DEF Succeed
  <2>10. CASE FailForGood(w) BY <2>10, Prices DEF FailForGood
  <2>11. CASE FailForNow(w) BY <2>11, Prices DEF FailForNow, Retryable
  <2>12. CASE FailAccount(w) BY <2>12, Prices DEF FailAccount
  <2>13. CASE FailEdge(w) BY <2>13, Prices DEF FailEdge
  <2>14. CASE MarkEdge(w) BY <2>14, Prices DEF MarkEdge
  <2>15. CASE Reject(w) BY <2>15, Prices DEF Reject, StatusOf
  <2>16. CASE Retry(w)
    BY <2>16, Prices DEF Retry
  <2> QED BY <1>1, <2>1, <2>2, <2>3, <2>4, <2>5, <2>6, <2>7, <2>8, <2>9,
       <2>10, <2>11, <2>12, <2>13, <2>14, <2>15, <2>16 DEF Work
<1>2. CASE QueueEnds \/ UNCHANGED vars BY <1>2 DEF QueueEnds, vars
<1>3. CASE Tick BY <1>3 DEF Tick
<1>4. CASE Cancel BY <1>4 DEF Cancel
<1>5. ASSUME NEW r \in Requests, EditSource(r) PROVE TypeMoney'
  BY <1>5 DEF EditSource
<1> QED BY <1>1, <1>2, <1>3, <1>4, <1>5 DEF Next

(* The workers' own state keeps its type. *)
LEMMA TypeWorkersStep == TypeInv /\ Holding /\ [Next]_vars => TypeWorkers'
<1> SUFFICES ASSUME TypeInv, Holding, [Next]_vars PROVE TypeWorkers'
  OBVIOUS
<1> TypeWorkers /\ TypeShared BY DEF TypeInv
<1> USE DEF TypeShared, TypeWorkers, Labels, Kinds, Holding, Held, Goto,
            Finish, Refuse, Respond, shared, money, inputs, workers, given,
            history
<1>1. ASSUME NEW w \in Workers, Work(w) PROVE TypeWorkers'
  <2>1. CASE Claim(w) BY <2>1, Counted DEF Claim, HasItem
  <2>2. CASE Check(w) BY <2>2, Counted DEF Check
  <2>3. CASE Before(w) BY <2>3, Counted DEF Before
  <2>4. CASE Recheck(w) BY <2>4, Counted DEF Recheck
  <2>5. CASE Wait(w) BY <2>5, Counted DEF Wait
  <2>6. CASE WakeUp(w) BY <2>6, Counted DEF WakeUp
  <2>7. CASE Pace(w) BY <2>7, Counted DEF Pace, Larger
  <2>8. CASE Send(w) BY <2>8, Counted DEF Send
  <2>9. CASE Succeed(w) BY <2>9, Counted DEF Succeed
  <2>10. CASE FailForGood(w) BY <2>10, Counted DEF FailForGood
  <2>11. CASE FailForNow(w) BY <2>11, Counted DEF FailForNow, Retryable
  <2>12. CASE FailAccount(w) BY <2>12, Counted DEF FailAccount
  <2>13. CASE FailEdge(w) BY <2>13, Counted DEF FailEdge
  <2>14. CASE MarkEdge(w) BY <2>14, Counted DEF MarkEdge
  <2>15. CASE Reject(w) BY <2>15, Counted DEF Reject, StatusOf
  <2>16. CASE Retry(w)
    BY <2>16, Counted DEF Retry
  <2> QED BY <1>1, <2>1, <2>2, <2>3, <2>4, <2>5, <2>6, <2>7, <2>8, <2>9,
       <2>10, <2>11, <2>12, <2>13, <2>14, <2>15, <2>16 DEF Work
<1>2. CASE QueueEnds \/ UNCHANGED vars BY <1>2 DEF QueueEnds, vars
<1>3. CASE Tick BY <1>3 DEF Tick
<1>4. CASE Cancel BY <1>4 DEF Cancel
<1>5. ASSUME NEW r \in Requests, EditSource(r) PROVE TypeWorkers'
  BY <1>5 DEF EditSource
<1> QED BY <1>1, <1>2, <1>3, <1>4, <1>5 DEF Next

(* Retries stay below the largest limit. *)
LEMMA TypeRetryStep == TypeInv /\ Holding /\ [Next]_vars => TypeRetry'
<1> SUFFICES ASSUME TypeInv, Holding, [Next]_vars PROVE TypeRetry'
  OBVIOUS
<1> TypeRetry BY DEF TypeInv
<1> USE DEF TypeRetry, Labels, Kinds, Holding, Held, Goto, Finish, Refuse,
            Respond, shared, money, inputs, workers, given, history
<1>1. ASSUME NEW w \in Workers, Work(w) PROVE TypeRetry'
  <2>1. CASE Claim(w) BY <2>1, Counted DEF Claim, HasItem
  <2>2. CASE Check(w) BY <2>2, Counted DEF Check
  <2>3. CASE Before(w) BY <2>3, Counted DEF Before
  <2>4. CASE Recheck(w) BY <2>4, Counted DEF Recheck
  <2>5. CASE Wait(w) BY <2>5, Counted DEF Wait
  <2>6. CASE WakeUp(w) BY <2>6, Counted DEF WakeUp
  <2>7. CASE Pace(w) BY <2>7, Counted DEF Pace, Larger
  <2>8. CASE Send(w) BY <2>8, Counted DEF Send
  <2>9. CASE Succeed(w) BY <2>9, Counted DEF Succeed
  <2>10. CASE FailForGood(w) BY <2>10, Counted DEF FailForGood
  <2>11. CASE FailForNow(w) BY <2>11, Counted DEF FailForNow, Retryable
  <2>12. CASE FailAccount(w) BY <2>12, Counted DEF FailAccount
  <2>13. CASE FailEdge(w) BY <2>13, Counted DEF FailEdge
  <2>14. CASE MarkEdge(w) BY <2>14, Counted DEF MarkEdge
  <2>15. CASE Reject(w) BY <2>15, Counted DEF Reject, StatusOf
  <2>16. CASE Retry(w)
    <3>1. CASE Finish(w, "failed") /\ UNCHANGED <<retry, cooldown>>
      BY <2>16, <3>1 DEF Retry
    <3>2. CASE \E end \in Nat : RetryAt(w, end)
      BY <2>16, <3>2 DEF Retry, RetryAt, Larger
    <3> QED BY <2>16, <3>1, <3>2, Retrying DEF TypeInv
  <2> QED BY <1>1, <2>1, <2>2, <2>3, <2>4, <2>5, <2>6, <2>7, <2>8, <2>9,
       <2>10, <2>11, <2>12, <2>13, <2>14, <2>15, <2>16 DEF Work
<1>2. CASE QueueEnds \/ UNCHANGED vars BY <1>2 DEF QueueEnds, vars
<1>3. CASE Tick BY <1>3 DEF Tick
<1>4. CASE Cancel BY <1>4 DEF Cancel
<1>5. ASSUME NEW r \in Requests, EditSource(r) PROVE TypeRetry'
  BY <1>5 DEF EditSource
<1> QED BY <1>1, <1>2, <1>3, <1>4, <1>5 DEF Next

(* What `completed` is given keeps its type. *)
LEMMA TypeGivenStep == TypeInv /\ Holding /\ [Next]_vars => TypeGiven'
<1> SUFFICES ASSUME TypeInv, Holding, [Next]_vars PROVE TypeGiven'
  OBVIOUS
<1> TypeGiven /\ TypeRetry BY DEF TypeInv
<1> USE DEF TypeGiven, TypeRetry, Labels, Kinds, Holding, Held, Goto, Finish,
            Refuse, Respond, shared, money, inputs, workers, given, history
<1>1. ASSUME NEW w \in Workers, Work(w) PROVE TypeGiven'
  <2>1. CASE Claim(w) BY <2>1 DEF Claim, HasItem
  <2>2. CASE Check(w) BY <2>2 DEF Check
  <2>3. CASE Before(w) BY <2>3 DEF Before
  <2>4. CASE Recheck(w) BY <2>4 DEF Recheck
  <2>5. CASE Wait(w) BY <2>5 DEF Wait
  <2>6. CASE WakeUp(w) BY <2>6 DEF WakeUp
  <2>7. CASE Pace(w) BY <2>7 DEF Pace, Larger
  <2>8. CASE Send(w) BY <2>8 DEF Send
  <2>9. CASE Succeed(w) BY <2>9 DEF Succeed
  <2>10. CASE FailForGood(w) BY <2>10 DEF FailForGood
  <2>11. CASE FailForNow(w) BY <2>11 DEF FailForNow, Retryable
  <2>12. CASE FailAccount(w) BY <2>12 DEF FailAccount
  <2>13. CASE FailEdge(w) BY <2>13 DEF FailEdge
  <2>14. CASE MarkEdge(w) BY <2>14 DEF MarkEdge
  <2>15. CASE Reject(w) BY <2>15 DEF Reject, StatusOf
  <2>16. CASE Retry(w)
    BY <2>16 DEF Retry
  <2> QED BY <1>1, <2>1, <2>2, <2>3, <2>4, <2>5, <2>6, <2>7, <2>8, <2>9,
       <2>10, <2>11, <2>12, <2>13, <2>14, <2>15, <2>16 DEF Work
<1>2. CASE QueueEnds \/ UNCHANGED vars BY <1>2 DEF QueueEnds, vars
<1>3. CASE Tick BY <1>3 DEF Tick
<1>4. CASE Cancel BY <1>4 DEF Cancel
<1>5. ASSUME NEW r \in Requests, EditSource(r) PROVE TypeGiven'
  BY <1>5 DEF EditSource
<1> QED BY <1>1, <1>2, <1>3, <1>4, <1>5 DEF Next

(* The histories keep their types. *)
LEMMA TypeHistoryStep == TypeInv /\ Holding /\ [Next]_vars => TypeHistory'
<1> SUFFICES ASSUME TypeInv, Holding, [Next]_vars PROVE TypeHistory'
  OBVIOUS
<1> TypeHistory BY DEF TypeInv
<1> USE DEF TypeHistory, Labels, Kinds, Holding, Held, Goto, Finish, Refuse,
            Respond, shared, money, inputs, workers, given, history
<1>1. ASSUME NEW w \in Workers, Work(w) PROVE TypeHistory'
  <2>1. CASE Claim(w) BY <2>1 DEF Claim, HasItem
  <2>2. CASE Check(w) BY <2>2 DEF Check
  <2>3. CASE Before(w) BY <2>3 DEF Before
  <2>4. CASE Recheck(w) BY <2>4 DEF Recheck
  <2>5. CASE Wait(w) BY <2>5 DEF Wait
  <2>6. CASE WakeUp(w) BY <2>6 DEF WakeUp
  <2>7. CASE Pace(w) BY <2>7 DEF Pace, Larger
  <2>8. CASE Send(w) BY <2>8 DEF Send
  <2>9. CASE Succeed(w) BY <2>9 DEF Succeed
  <2>10. CASE FailForGood(w) BY <2>10 DEF FailForGood
  <2>11. CASE FailForNow(w) BY <2>11 DEF FailForNow, Retryable
  <2>12. CASE FailAccount(w) BY <2>12 DEF FailAccount
  <2>13. CASE FailEdge(w) BY <2>13 DEF FailEdge
  <2>14. CASE MarkEdge(w) BY <2>14 DEF MarkEdge
  <2>15. CASE Reject(w) BY <2>15 DEF Reject, StatusOf
  <2>16. CASE Retry(w)
    BY <2>16 DEF Retry
  <2> QED BY <1>1, <2>1, <2>2, <2>3, <2>4, <2>5, <2>6, <2>7, <2>8, <2>9,
       <2>10, <2>11, <2>12, <2>13, <2>14, <2>15, <2>16 DEF Work
<1>2. CASE QueueEnds \/ UNCHANGED vars BY <1>2 DEF QueueEnds, vars
<1>3. CASE Tick BY <1>3 DEF Tick
<1>4. CASE Cancel BY <1>4 DEF Cancel
<1>5. ASSUME NEW r \in Requests, EditSource(r) PROVE TypeHistory'
  BY <1>5 DEF EditSource
<1> QED BY <1>1, <1>2, <1>3, <1>4, <1>5 DEF Next

-----------------------------------------------------------------------------
(* Each request is one worker's until it has its outcome, and one not yet  *)
(* claimed is untouched.                                                   *)
Unfinished == \A w \in Workers : pc[w] \in Held => outcome[req[w]] = None
Apart ==
  \A v, w \in Workers :
    v # w /\ pc[v] \in Held /\ pc[w] \in Held => req[v] # req[w]
Fresh ==
  \A r \in Requests :
    r >= next => outcome[r] = None /\ sends[r] = 0 /\ billable[r] = 0

(* What was sent is what the worker counts. *)
SendsCounted ==
  \A w \in Workers :
    pc[w] \in Held => sends[req[w]] = retry[w] + (IF pc[w] \in Sent THEN 1
         ELSE 0)

(* What an outcome says was sent. *)
OutcomesTrue ==
  \A r \in Requests :
    outcome[r] # None =>
      /\ sends[r] <= retries[r] + 1
      /\ outcome[r] = "skipped" => sends[r] = 0
      /\ outcome[r] = "answered" => sends[r] > 0

(* What may have been billed so far leaves room for the send that follows. *)
Billed ==
  /\ BillableBound
  /\ \A w \in Workers :
       /\ pc[w] \in Held \ {"markEdge", "reject", "retry"} =>
            billable[req[w]] <= retry[w] /\ billable[req[w]] <
                 InterruptedAttempts
       /\ pc[w] = "retry" =>
            /\ result[w] \in Retryable
            /\ IF result[w] = "interrupted"
                 THEN billable[req[w]] <= retry[w] + 1
                 ELSE billable[req[w]] <= retry[w]
                      /\ billable[req[w]] < InterruptedAttempts

(* A request cleared to be sent has its price. *)
Cleared == {"recheck", "wait", "pause", "pace", "paced"} \cup Sent
Priced ==
  /\ BudgetHolds
  /\ \A w \in Workers : pc[w] \in Cleared => req[w] \in priced

(* A worker that sent late is past the checks and meets the next one. *)
Stopping ==
  \A w \in Workers :
    /\ late[w] <= 1
    /\ late[w] > 0 => /\ rejected # 0
                      /\ pc[w] \in Sent \cup {"check", "claim", "ended"}

IInv ==
  /\ TypeInv /\ Holding /\ Apart /\ Fresh /\ Unfinished /\ SendsCounted
  /\ OutcomesTrue /\ Billed /\ Priced /\ Stopping

(* No step gives two workers one item: fetch_add hands out each once. *)
LEMMA ApartStep == IInv /\ [Next]_vars => Apart'
<1> SUFFICES ASSUME IInv, [Next]_vars PROVE Apart' OBVIOUS
<1> TypeWorkers /\ TypeShared /\ Holding /\ Apart BY DEF IInv, TypeInv
<1> USE DEF TypeWorkers, TypeShared, Labels, Held, Holding, Apart, Goto,
            Finish, Refuse, Respond, shared, money, inputs, workers, given,
            history
<1>1. ASSUME NEW w \in Workers, Work(w) PROVE Apart'
  <2>1. CASE Claim(w) BY <2>1 DEF Claim, HasItem
  <2>2. CASE Check(w) BY <2>2 DEF Check
  <2>3. CASE Before(w) BY <2>3 DEF Before
  <2>4. CASE Recheck(w) BY <2>4 DEF Recheck
  <2>5. CASE Wait(w) BY <2>5 DEF Wait
  <2>6. CASE WakeUp(w) BY <2>6 DEF WakeUp
  <2>7. CASE Pace(w) BY <2>7 DEF Pace
  <2>8. CASE Send(w) BY <2>8 DEF Send
  <2>9. CASE Succeed(w) BY <2>9 DEF Succeed
  <2>10. CASE FailForGood(w) BY <2>10 DEF FailForGood
  <2>11. CASE FailForNow(w) BY <2>11 DEF FailForNow
  <2>12. CASE FailAccount(w) BY <2>12 DEF FailAccount
  <2>13. CASE FailEdge(w) BY <2>13 DEF FailEdge
  <2>14. CASE MarkEdge(w) BY <2>14 DEF MarkEdge
  <2>15. CASE Reject(w) BY <2>15 DEF Reject
  <2>16. CASE Retry(w)
    <3>1. CASE Finish(w, "failed") /\ UNCHANGED <<retry, cooldown>>
      BY <2>16, <3>1 DEF Retry
    <3>2. CASE \E end \in Nat : RetryAt(w, end)
      BY <2>16, <3>2 DEF Retry, RetryAt
    <3> QED BY <2>16, <3>1, <3>2, Retrying DEF IInv, TypeInv
  <2> QED BY <1>1, <2>1, <2>2, <2>3, <2>4, <2>5, <2>6, <2>7, <2>8, <2>9, <2>10,
             <2>11, <2>12, <2>13, <2>14, <2>15, <2>16 DEF Work
<1>2. CASE QueueEnds \/ UNCHANGED vars BY <1>2 DEF QueueEnds, vars
<1>3. CASE Tick BY <1>3 DEF Tick
<1>4. CASE Cancel BY <1>4 DEF Cancel
<1>5. ASSUME NEW r \in Requests, EditSource(r) PROVE Apart'
  BY <1>5 DEF EditSource
<1> QED BY <1>1, <1>2, <1>3, <1>4, <1>5 DEF Next

(* No step touches an item before it is claimed. *)
LEMMA FreshStep == IInv /\ [Next]_vars => Fresh'
<1> SUFFICES ASSUME IInv, [Next]_vars PROVE Fresh' OBVIOUS
<1> TypeWorkers /\ TypeShared /\ TypeGiven /\ TypeHistory /\ Holding /\ Fresh
  BY DEF IInv, TypeInv
<1> next \in Nat /\ Requests \subseteq Nat BY Counted DEF TypeShared, Requests
<1> USE DEF TypeWorkers, TypeGiven, TypeHistory, Labels, Held, Holding, Fresh,
            Goto, Finish, Refuse, Respond, shared, money, inputs, workers,
            given, history
<1>1. ASSUME NEW w \in Workers, Work(w) PROVE Fresh'
  <2>1. CASE Claim(w) BY <2>1 DEF Claim, HasItem
  <2>2. CASE Check(w) BY <2>2 DEF Check
  <2>3. CASE Before(w) BY <2>3 DEF Before
  <2>4. CASE Recheck(w) BY <2>4 DEF Recheck
  <2>5. CASE Wait(w) BY <2>5 DEF Wait
  <2>6. CASE WakeUp(w) BY <2>6 DEF WakeUp
  <2>7. CASE Pace(w) BY <2>7 DEF Pace
  <2>8. CASE Send(w) BY <2>8 DEF Send
  <2>9. CASE Succeed(w) BY <2>9 DEF Succeed
  <2>10. CASE FailForGood(w) BY <2>10 DEF FailForGood
  <2>11. CASE FailForNow(w) BY <2>11 DEF FailForNow
  <2>12. CASE FailAccount(w) BY <2>12 DEF FailAccount
  <2>13. CASE FailEdge(w) BY <2>13 DEF FailEdge
  <2>14. CASE MarkEdge(w) BY <2>14 DEF MarkEdge
  <2>15. CASE Reject(w) BY <2>15 DEF Reject
  <2>16. CASE Retry(w)
    <3>1. CASE Finish(w, "failed") /\ UNCHANGED <<retry, cooldown>>
      BY <2>16, <3>1 DEF Retry
    <3>2. CASE \E end \in Nat : RetryAt(w, end)
      BY <2>16, <3>2 DEF Retry, RetryAt
    <3> QED BY <2>16, <3>1, <3>2, Retrying DEF IInv, TypeInv
  <2> QED BY <1>1, <2>1, <2>2, <2>3, <2>4, <2>5, <2>6, <2>7, <2>8, <2>9, <2>10,
             <2>11, <2>12, <2>13, <2>14, <2>15, <2>16 DEF Work
<1>2. CASE QueueEnds \/ UNCHANGED vars BY <1>2 DEF QueueEnds, vars
<1>3. CASE Tick BY <1>3 DEF Tick
<1>4. CASE Cancel BY <1>4 DEF Cancel
<1>5. ASSUME NEW r \in Requests, EditSource(r) PROVE Fresh'
  BY <1>5 DEF EditSource
<1> QED BY <1>1, <1>2, <1>3, <1>4, <1>5 DEF Next

(* No worker finishes the item of another. *)
LEMMA UnfinishedStep == IInv /\ [Next]_vars => Unfinished'
<1> SUFFICES ASSUME IInv, [Next]_vars PROVE Unfinished' OBVIOUS
<1> TypeWorkers /\ TypeShared /\ TypeGiven /\ Holding /\ Apart /\ Fresh /\
  Unfinished BY DEF IInv, TypeInv
<1> USE DEF TypeWorkers, TypeGiven, Labels, Held, Holding, Apart, Unfinished,
            Goto, Finish, Refuse, Respond, shared, money, inputs, workers,
            given, history
<1>1. ASSUME NEW w \in Workers, Work(w) PROVE Unfinished'
  <2>1. CASE Claim(w)
    BY <2>1, Counted, SMTT(30) DEF Claim, HasItem, TypeShared, Requests, Fresh
  <2>2. CASE Check(w) BY <2>2, Counted DEF Check
  <2>3. CASE Before(w) BY <2>3, Counted DEF Before
  <2>4. CASE Recheck(w) BY <2>4, Counted DEF Recheck
  <2>5. CASE Wait(w) BY <2>5, Counted DEF Wait
  <2>6. CASE WakeUp(w) BY <2>6, Counted DEF WakeUp
  <2>7. CASE Pace(w) BY <2>7, Counted DEF Pace
  <2>8. CASE Send(w) BY <2>8, Counted DEF Send
  <2>9. CASE Succeed(w) BY <2>9, Counted DEF Succeed
  <2>10. CASE FailForGood(w) BY <2>10, Counted DEF FailForGood
  <2>11. CASE FailForNow(w) BY <2>11, Counted DEF FailForNow
  <2>12. CASE FailAccount(w) BY <2>12, Counted DEF FailAccount
  <2>13. CASE FailEdge(w) BY <2>13, Counted DEF FailEdge
  <2>14. CASE MarkEdge(w) BY <2>14, Counted DEF MarkEdge
  <2>15. CASE Reject(w) BY <2>15, Counted DEF Reject
  <2>16. CASE Retry(w)
    <3>1. CASE Finish(w, "failed") /\ UNCHANGED <<retry, cooldown>>
      BY <2>16, <3>1, Counted DEF Retry
    <3>2. CASE \E end \in Nat : RetryAt(w, end)
      BY <2>16, <3>2, Counted DEF Retry, RetryAt
    <3> QED BY <2>16, <3>1, <3>2, Retrying DEF IInv, TypeInv
  <2> QED BY <1>1, <2>1, <2>2, <2>3, <2>4, <2>5, <2>6, <2>7, <2>8, <2>9, <2>10,
             <2>11, <2>12, <2>13, <2>14, <2>15, <2>16 DEF Work
<1>2. CASE QueueEnds \/ UNCHANGED vars BY <1>2 DEF QueueEnds, vars
<1>3. CASE Tick BY <1>3 DEF Tick
<1>4. CASE Cancel BY <1>4 DEF Cancel
<1>5. ASSUME NEW r \in Requests, EditSource(r) PROVE Unfinished'
  BY <1>5 DEF EditSource
<1> QED BY <1>1, <1>2, <1>3, <1>4, <1>5 DEF Next

(* Each send is counted by its worker's retries. *)
LEMMA SendsCountedStep == IInv /\ [Next]_vars => SendsCounted'
<1> SUFFICES ASSUME IInv, [Next]_vars PROVE SendsCounted' OBVIOUS
<1> TypeWorkers /\ TypeShared /\ TypeRetry /\ TypeHistory /\ Holding /\ Apart
  /\ Fresh /\ SendsCounted BY DEF IInv, TypeInv
<1> USE DEF TypeWorkers, TypeRetry, TypeHistory, Labels, Held, Sent, Holding,
            Apart, SendsCounted, Goto, Finish, Refuse, Respond, shared, money,
            inputs, workers, given, history
<1>1. ASSUME NEW w \in Workers, Work(w) PROVE SendsCounted'
  <2>1. CASE Claim(w)
    <3>1. HasItem => next \in Requests /\ sends[next] = 0
      BY Counted DEF HasItem, TypeShared, Requests, Fresh
    <3> QED BY <2>1, <3>1 DEF Claim
  <2>2. CASE Check(w) BY <2>2 DEF Check
  <2>3. CASE Before(w) BY <2>3 DEF Before
  <2>4. CASE Recheck(w) BY <2>4 DEF Recheck
  <2>5. CASE Wait(w) BY <2>5 DEF Wait
  <2>6. CASE WakeUp(w) BY <2>6 DEF WakeUp
  <2>7. CASE Pace(w) BY <2>7 DEF Pace
  <2>8. CASE Send(w) BY <2>8 DEF Send
  <2>9. CASE Succeed(w) BY <2>9 DEF Succeed
  <2>10. CASE FailForGood(w) BY <2>10 DEF FailForGood
  <2>11. CASE FailForNow(w) BY <2>11 DEF FailForNow
  <2>12. CASE FailAccount(w) BY <2>12 DEF FailAccount
  <2>13. CASE FailEdge(w) BY <2>13 DEF FailEdge
  <2>14. CASE MarkEdge(w) BY <2>14 DEF MarkEdge
  <2>15. CASE Reject(w) BY <2>15 DEF Reject
  <2>16. CASE Retry(w)
    <3>1. CASE Finish(w, "failed") /\ UNCHANGED <<retry, cooldown>>
      BY <2>16, <3>1 DEF Retry
    <3>2. CASE \E end \in Nat : RetryAt(w, end)
      BY <2>16, <3>2 DEF Retry, RetryAt
    <3> QED BY <2>16, <3>1, <3>2, Retrying DEF IInv, TypeInv
  <2> QED BY <1>1, <2>1, <2>2, <2>3, <2>4, <2>5, <2>6, <2>7, <2>8, <2>9, <2>10,
             <2>11, <2>12, <2>13, <2>14, <2>15, <2>16 DEF Work
<1>2. CASE QueueEnds \/ UNCHANGED vars BY <1>2 DEF QueueEnds, vars
<1>3. CASE Tick BY <1>3 DEF Tick
<1>4. CASE Cancel BY <1>4 DEF Cancel
<1>5. ASSUME NEW r \in Requests, EditSource(r) PROVE SendsCounted'
  BY <1>5 DEF EditSource
<1> QED BY <1>1, <1>2, <1>3, <1>4, <1>5 DEF Next

(* Each outcome is given with the retries that were sent. *)
LEMMA OutcomesTrueStep == IInv /\ [Next]_vars => OutcomesTrue'
<1> SUFFICES ASSUME IInv, [Next]_vars PROVE OutcomesTrue' OBVIOUS
<1> TypeWorkers /\ TypeGiven /\ TypeRetry /\ TypeHistory /\ Holding /\
  Unfinished /\ SendsCounted /\ OutcomesTrue BY DEF IInv, TypeInv
<1> USE DEF TypeWorkers, TypeGiven, TypeRetry, TypeHistory, Labels, Held, Sent,
            Holding, Unfinished, SendsCounted, OutcomesTrue, Goto, Finish,
            Refuse, Respond, shared, money, inputs, workers, given, history
<1>1. ASSUME NEW w \in Workers, Work(w) PROVE OutcomesTrue'
  <2>1. CASE Claim(w) BY <2>1 DEF Claim, HasItem
  <2>2. CASE Check(w) BY <2>2 DEF Check
  <2>3. CASE Before(w) BY <2>3 DEF Before
  <2>4. CASE Recheck(w) BY <2>4 DEF Recheck
  <2>5. CASE Wait(w) BY <2>5 DEF Wait
  <2>6. CASE WakeUp(w) BY <2>6 DEF WakeUp
  <2>7. CASE Pace(w) BY <2>7 DEF Pace
  <2>8. CASE Send(w) BY <2>8 DEF Send
  <2>9. CASE Succeed(w) BY <2>9 DEF Succeed
  <2>10. CASE FailForGood(w) BY <2>10 DEF FailForGood
  <2>11. CASE FailForNow(w) BY <2>11 DEF FailForNow
  <2>12. CASE FailAccount(w) BY <2>12 DEF FailAccount
  <2>13. CASE FailEdge(w) BY <2>13 DEF FailEdge
  <2>14. CASE MarkEdge(w) BY <2>14 DEF MarkEdge
  <2>15. CASE Reject(w) BY <2>15 DEF Reject
  <2>16. CASE Retry(w)
    <3>1. CASE Finish(w, "failed") /\ UNCHANGED <<retry, cooldown>>
      BY <2>16, <3>1 DEF Retry
    <3>2. CASE \E end \in Nat : RetryAt(w, end)
      BY <2>16, <3>2 DEF Retry, RetryAt
    <3> QED BY <2>16, <3>1, <3>2, Retrying DEF IInv, TypeInv
  <2> QED BY <1>1, <2>1, <2>2, <2>3, <2>4, <2>5, <2>6, <2>7, <2>8, <2>9, <2>10,
             <2>11, <2>12, <2>13, <2>14, <2>15, <2>16 DEF Work
<1>2. CASE QueueEnds \/ UNCHANGED vars BY <1>2 DEF QueueEnds, vars
<1>3. CASE Tick BY <1>3 DEF Tick
<1>4. CASE Cancel BY <1>4 DEF Cancel
<1>5. ASSUME NEW r \in Requests, EditSource(r) PROVE OutcomesTrue'
  BY <1>5 DEF EditSource
<1> QED BY <1>1, <1>2, <1>3, <1>4, <1>5 DEF Next

(* The attempt limits allow a send. *)
LEMMA Limits ==
  /\ InterruptedAttempts \in Nat \ {0} /\ UnsentAttempts \in Nat \ {0}
  /\ AnsweredAttempts \in Nat \ {0}
BY TransportAssumption DEF TransportAssumption

(* An interruption uses up one of the sends that may be billed. *)
LEMMA BilledStep == IInv /\ [Next]_vars => Billed'
<1> SUFFICES ASSUME IInv, [Next]_vars PROVE Billed' OBVIOUS
<1> TypeWorkers /\ TypeShared /\ TypeRetry /\ TypeHistory /\ Holding /\ Apart
  /\ Fresh /\ Billed BY DEF IInv, TypeInv
<1> USE DEF TypeWorkers, TypeRetry, TypeHistory, Labels, Kinds, Retryable,
            Held, Holding, Apart, Billed, BillableBound, Goto, Finish, Refuse,
            Respond, shared, money, inputs, workers, given, history
<1>1. ASSUME NEW w \in Workers, Work(w) PROVE Billed'
  <2>1. CASE Claim(w)
    <3>1. HasItem => next \in Requests /\ billable[next] = 0
      BY Counted DEF HasItem, TypeShared, Requests, Fresh
    <3> QED BY <2>1, <3>1, Limits DEF Claim
  <2>2. CASE Check(w) BY <2>2, Limits DEF Check
  <2>3. CASE Before(w) BY <2>3, Limits DEF Before
  <2>4. CASE Recheck(w) BY <2>4, Limits DEF Recheck
  <2>5. CASE Wait(w) BY <2>5, Limits DEF Wait
  <2>6. CASE WakeUp(w) BY <2>6, Limits DEF WakeUp
  <2>7. CASE Pace(w) BY <2>7, Limits DEF Pace
  <2>8. CASE Send(w) BY <2>8, Limits DEF Send
  <2>9. CASE Succeed(w) BY <2>9, Limits DEF Succeed
  <2>10. CASE FailForGood(w) BY <2>10, Limits DEF FailForGood
  <2>11. CASE FailForNow(w) BY <2>11, Limits DEF FailForNow
  <2>12. CASE FailAccount(w) BY <2>12, Limits DEF FailAccount
  <2>13. CASE FailEdge(w) BY <2>13, Limits DEF FailEdge
  <2>14. CASE MarkEdge(w) BY <2>14, Limits DEF MarkEdge
  <2>15. CASE Reject(w) BY <2>15, Limits DEF Reject
  <2>16. CASE Retry(w) BY <2>16, Limits DEF Retry, GivesUp, Attempts, Larger
  <2> QED BY <1>1, <2>1, <2>2, <2>3, <2>4, <2>5, <2>6, <2>7, <2>8, <2>9, <2>10,
             <2>11, <2>12, <2>13, <2>14, <2>15, <2>16 DEF Work
<1>2. CASE QueueEnds \/ UNCHANGED vars BY <1>2 DEF QueueEnds, vars
<1>3. CASE Tick BY <1>3 DEF Tick
<1>4. CASE Cancel BY <1>4 DEF Cancel
<1>5. ASSUME NEW r \in Requests, EditSource(r) PROVE Billed'
  BY <1>5 DEF EditSource
<1> QED BY <1>1, <1>2, <1>3, <1>4, <1>5 DEF Next

(* The budget is a natural number. *)
LEMMA Budget == TypeShared => setup.budget \in Nat
BY TransportAssumption DEF TransportAssumption, TypeShared

(* The price is charged before the send, and once. *)
LEMMA PricedStep == IInv /\ [Next]_vars => Priced'
<1> SUFFICES ASSUME IInv, [Next]_vars PROVE Priced' OBVIOUS
<1> TypeWorkers /\ TypeShared /\ TypeMoney /\ TypeHistory /\ Holding /\ Priced
  BY DEF IInv, TypeInv
<1> USE DEF TypeWorkers, TypeMoney, TypeHistory, Labels, Held, Sent, Cleared,
            Holding, Priced, BudgetHolds, Goto, Finish, Refuse, Respond,
            shared, money, inputs, workers, given, history
<1>1. ASSUME NEW w \in Workers, Work(w) PROVE Priced'
  <2>1. CASE Claim(w) BY <2>1, Prices, Budget DEF Claim, HasItem
  <2>2. CASE Check(w) BY <2>2, Prices, Budget DEF Check
  <2>3. CASE Before(w) BY <2>3, Prices, Budget DEF Before, Affordable
  <2>4. CASE Recheck(w) BY <2>4, Prices, Budget DEF Recheck
  <2>5. CASE Wait(w) BY <2>5, Prices, Budget DEF Wait
  <2>6. CASE WakeUp(w) BY <2>6, Prices, Budget DEF WakeUp
  <2>7. CASE Pace(w) BY <2>7, Prices, Budget DEF Pace
  <2>8. CASE Send(w) BY <2>8, Prices, Budget DEF Send
  <2>9. CASE Succeed(w) BY <2>9, Prices, Budget DEF Succeed
  <2>10. CASE FailForGood(w) BY <2>10, Prices, Budget DEF FailForGood
  <2>11. CASE FailForNow(w) BY <2>11, Prices, Budget DEF FailForNow
  <2>12. CASE FailAccount(w) BY <2>12, Prices, Budget DEF FailAccount
  <2>13. CASE FailEdge(w) BY <2>13, Prices, Budget DEF FailEdge
  <2>14. CASE MarkEdge(w) BY <2>14, Prices, Budget DEF MarkEdge
  <2>15. CASE Reject(w) BY <2>15, Prices, Budget DEF Reject
  <2>16. CASE Retry(w)
    <3>1. CASE Finish(w, "failed") /\ UNCHANGED <<retry, cooldown>>
      BY <2>16, <3>1, Prices, Budget DEF Retry
    <3>2. CASE \E end \in Nat : RetryAt(w, end)
      BY <2>16, <3>2, Prices, Budget DEF Retry, RetryAt
    <3> QED BY <2>16, <3>1, <3>2, Retrying DEF IInv, TypeInv
  <2> QED BY <1>1, <2>1, <2>2, <2>3, <2>4, <2>5, <2>6, <2>7, <2>8, <2>9, <2>10,
             <2>11, <2>12, <2>13, <2>14, <2>15, <2>16 DEF Work
<1>2. CASE QueueEnds \/ UNCHANGED vars BY <1>2 DEF QueueEnds, vars
<1>3. CASE Tick BY <1>3 DEF Tick
<1>4. CASE Cancel BY <1>4 DEF Cancel
<1>5. ASSUME NEW r \in Requests, EditSource(r) PROVE Priced'
  BY <1>5 DEF EditSource
<1> QED BY <1>1, <1>2, <1>3, <1>4, <1>5 DEF Next

(* After the rejection a worker passes no check. *)
LEMMA StoppingStep == IInv /\ [Next]_vars => Stopping'
<1> SUFFICES ASSUME IInv, [Next]_vars PROVE Stopping' OBVIOUS
<1> TypeWorkers /\ TypeShared /\ TypeHistory /\ Stopping BY DEF IInv, TypeInv
<1> USE DEF TypeWorkers, TypeHistory, Labels, Sent, Stopping, Goto, Finish,
            Refuse, Respond, shared, money, inputs, workers, given, history
<1>1. ASSUME NEW w \in Workers, Work(w) PROVE Stopping'
  <2>1. CASE Claim(w) BY <2>1 DEF Claim, HasItem
  <2>2. CASE Check(w) BY <2>2 DEF Check, Rejected
  <2>3. CASE Before(w) BY <2>3 DEF Before
  <2>4. CASE Recheck(w) BY <2>4 DEF Recheck
  <2>5. CASE Wait(w) BY <2>5 DEF Wait
  <2>6. CASE WakeUp(w) BY <2>6 DEF WakeUp
  <2>7. CASE Pace(w) BY <2>7 DEF Pace
  <2>8. CASE Send(w) BY <2>8 DEF Send
  <2>9. CASE Succeed(w) BY <2>9 DEF Succeed
  <2>10. CASE FailForGood(w) BY <2>10 DEF FailForGood
  <2>11. CASE FailForNow(w) BY <2>11 DEF FailForNow
  <2>12. CASE FailAccount(w) BY <2>12 DEF FailAccount
  <2>13. CASE FailEdge(w) BY <2>13 DEF FailEdge
  <2>14. CASE MarkEdge(w) BY <2>14 DEF MarkEdge
  <2>15. CASE Reject(w) BY <2>15 DEF Reject, StatusOf
  <2>16. CASE Retry(w)
    <3>1. CASE Finish(w, "failed") /\ UNCHANGED <<retry, cooldown>>
      BY <2>16, <3>1 DEF Retry
    <3>2. CASE \E end \in Nat : RetryAt(w, end)
      BY <2>16, <3>2 DEF Retry, RetryAt
    <3> QED BY <2>16, <3>1, <3>2, Retrying DEF IInv, TypeInv
  <2> QED BY <1>1, <2>1, <2>2, <2>3, <2>4, <2>5, <2>6, <2>7, <2>8, <2>9, <2>10,
             <2>11, <2>12, <2>13, <2>14, <2>15, <2>16 DEF Work
<1>2. CASE QueueEnds \/ UNCHANGED vars BY <1>2 DEF QueueEnds, vars
<1>3. CASE Tick BY <1>3 DEF Tick
<1>4. CASE Cancel BY <1>4 DEF Cancel
<1>5. ASSUME NEW r \in Requests, EditSource(r) PROVE Stopping'
  BY <1>5 DEF EditSource
<1> QED BY <1>1, <1>2, <1>3, <1>4, <1>5 DEF Next

-----------------------------------------------------------------------------
(* The first state satisfies the invariant. *)
LEMMA InvInit == Init => IInv
<1> SUFFICES ASSUME Init PROVE IInv OBVIOUS
<1>1. TypeInv /\ Holding BY TypeInit, HoldingInit
<1> USE DEF Init
<1>2. Apart /\ Fresh /\ Unfinished /\ SendsCounted BY DEF Apart, Fresh,
  Unfinished, SendsCounted, Held
<1>3. OutcomesTrue BY DEF OutcomesTrue
<1>4. Billed BY Limits DEF Billed, BillableBound, Held
<1>5. Priced BY <1>1, Budget DEF Priced, BudgetHolds, Cleared, Sent, TypeInv
<1>6. Stopping BY DEF Stopping
<1> QED BY <1>1, <1>2, <1>3, <1>4, <1>5, <1>6 DEF IInv

(* Every step keeps the invariant. *)
LEMMA InvStep == IInv /\ [Next]_vars => IInv'
<1> SUFFICES ASSUME IInv, [Next]_vars PROVE IInv' OBVIOUS
<1>1. TypeInv'
  BY TypeSharedStep, TypeMoneyStep, TypeWorkersStep, TypeRetryStep,
       TypeGivenStep,
     TypeHistoryStep DEF IInv, TypeInv
<1>2. Holding' /\ Apart' /\ Fresh' /\ Unfinished' /\ SendsCounted'
  BY HoldingStep, ApartStep, FreshStep, UnfinishedStep, SendsCountedStep DEF
       IInv
<1>3. OutcomesTrue' /\ Billed' /\ Priced' /\ Stopping'
  BY OutcomesTrueStep, BilledStep, PricedStep, StoppingStep
<1> QED BY <1>1, <1>2, <1>3 DEF IInv

(* Whatever the workers do, the invariant holds (evaluate_queue). *)
THEOREM Invariant == Spec => []IInv
BY InvInit, InvStep, PTL DEF Spec

(* TypeOK: every variable keeps its type, for any number of workers. *)
THEOREM TypeCorrect == Spec => []TypeOK
<1>1. IInv => TypeOK BY TypeInvType DEF IInv
<1> QED BY Invariant, <1>1, PTL

(* BillableBound: however interruptions and other failures alternate, and  *)
(* however the workers interleave, a request that may have been billed is   *)
(* sent again only within INTERRUPTED_ATTEMPTS (retry_delay).               *)
THEOREM BillableBounded == Spec => []BillableBound
<1>1. IInv => BillableBound BY DEF IInv, Billed
<1> QED BY Invariant, <1>1, PTL

(* BudgetHolds: Spend::charge is asked before each send and counts each     *)
(* request once, so that no interleaving of workers sends more than the     *)
(* budget buys.                                                             *)
THEOREM BudgetKept == Spec => []BudgetHolds
<1>1. IInv => BudgetHolds BY DEF IInv, Priced
<1> QED BY Invariant, <1>1, PTL

(* LateSendBound: a worker sends at most once after the queue is rejected,  *)
(* for the checks before each send read the status set before it.           *)
THEOREM LateSendsBounded == Spec => []LateSendBound
<1>1. IInv => LateSendBound BY DEF IInv, Stopping, LateSendBound
<1> QED BY Invariant, <1>1, PTL

(* RetriesCoverSends: the retries of an outcome tell every send of it.      *)
THEOREM RetriesTold == Spec => []RetriesCoverSends
<1>1. IInv => RetriesCoverSends BY DEF IInv, OutcomesTrue, RetriesCoverSends
<1> QED BY Invariant, <1>1, PTL

-----------------------------------------------------------------------------
(* What the refinement asks of a step of one worker. *)
LEMMA QueueInit == Init => Queue!Init
BY DEF Init, Queue!Init

(* An outcome given to a held item completes it in the abstract queue. *)
LEMMA Completing ==
  ASSUME IInv, NEW w \in Workers, NEW res \in {"answered", "failed",
       "skipped"},
         pc[w] \in Held, Finish(w, res), UNCHANGED sends,
         res = "skipped" => sends[req[w]] = 0, res = "answered" =>
              sends[req[w]] > 0
  PROVE  Queue!Next
<1>1. req[w] \in Requests /\ outcome[req[w]] = None
  BY DEF IInv, Holding, Unfinished
<1>2. Queue!Complete(req[w]) BY <1>1 DEF Queue!Complete, Queue!Results, Finish
<1> QED BY <1>1, <1>2 DEF Queue!Next

(* A refusal before a send completes it as skipped or failed. *)
LEMMA Refusing ==
  ASSUME IInv, NEW w \in Workers, pc[w] \in Held \ Sent, Refuse(w), UNCHANGED
       sends
  PROVE  Queue!Next
<1>1. sends[req[w]] = retry[w] BY DEF IInv, TypeInv, TypeRetry, SendsCounted
<1> QED BY <1>1, Completing DEF Refuse

(* Every step is one of the abstract queue's, or none of it. *)
LEMMA QueueStep == IInv /\ [Next]_vars => [Queue!Next]_(Queue!vars)
<1> SUFFICES ASSUME IInv, [Next]_vars PROVE [Queue!Next]_(Queue!vars) OBVIOUS
<1> USE DEF given, history, Queue!vars, Held, Sent
<1>1. ASSUME NEW w \in Workers, Work(w) PROVE [Queue!Next]_(Queue!vars)
  <2>1. CASE Claim(w) \/ WakeUp(w) \/ Pace(w) BY <2>1 DEF Claim, WakeUp, Pace
  <2>2. CASE Check(w) BY <2>2, Refusing DEF Check
  <2>3. CASE Before(w) BY <2>3, Refusing DEF Before
  <2>4. CASE Recheck(w) BY <2>4, Refusing DEF Recheck
  <2>5. CASE Wait(w) BY <2>5, Completing DEF Wait
  <2>6. CASE Send(w)
    <3>1. req[w] \in Requests /\ outcome[req[w]] = None /\ sends[req[w]] <
         AnsweredAttempts
      BY <2>6 DEF Send, IInv, Holding, Unfinished, SendsCounted, TypeInv,
           TypeRetry
    <3>2. CASE Past(clock) BY <2>6, <3>2, Completing DEF Send
    <3>3. CASE ~Past(clock)
      <4>1. Queue!Send(req[w]) BY <2>6, <3>1, <3>3 DEF Send, Queue!Send
      <4> QED BY <3>1, <4>1 DEF Queue!Next
    <3> QED BY <3>2, <3>3
  <2>7. CASE Succeed(w)
    <3>1. sends[req[w]] > 0
      BY <2>7 DEF Succeed, Respond, IInv, SendsCounted, TypeInv, TypeRetry
    <3> QED BY <2>7, <3>1, Completing DEF Succeed, Respond
  <2>8. CASE FailForGood(w) BY <2>8, Completing DEF FailForGood, Respond
  <2>9. CASE FailForNow(w) \/ FailAccount(w) \/ MarkEdge(w)
    BY <2>9 DEF FailForNow, FailAccount, MarkEdge, Respond
  <2>10. CASE FailEdge(w) BY <2>10, Completing DEF FailEdge, Respond
  <2>11. CASE Reject(w) BY <2>11, Completing DEF Reject
  <2>12. CASE Retry(w)
    <3>1. CASE Finish(w, "failed") BY <2>12, <3>1, Completing DEF Retry
    <3>2. CASE \E end \in Nat : RetryAt(w, end) BY <2>12, <3>2 DEF Retry,
         RetryAt
    <3> QED BY <2>12, <3>1, <3>2, Retrying DEF IInv, TypeInv
  <2> QED BY <1>1, <2>1, <2>2, <2>3, <2>4, <2>5, <2>6, <2>7, <2>8, <2>9, <2>10,
             <2>11, <2>12 DEF Work
<1>2. CASE QueueEnds \/ UNCHANGED vars BY <1>2 DEF QueueEnds, vars
<1>3. CASE Tick BY <1>3 DEF Tick
<1>4. CASE Cancel BY <1>4 DEF Cancel
<1>5. ASSUME NEW r \in Requests, EditSource(r) PROVE [Queue!Next]_(Queue!vars)
  BY <1>5 DEF EditSource
<1> QED BY <1>1, <1>2, <1>3, <1>4, <1>5 DEF Next

(* The safety of QueueRefined: for any workers, requests and limits, each   *)
(* step of the threads is a step of the queue its caller relies on, or      *)
(* leaves it as it was.                                                     *)
THEOREM QueueImplemented == Spec => Queue!Init /\ [][Queue!Next]_(Queue!vars)
BY Invariant, QueueInit, QueueStep, PTL DEF Spec
=============================================================================
