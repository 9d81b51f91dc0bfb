------------------------------ MODULE Transport ------------------------------
(***************************************************************************)
(* ProviderAccess::evaluate_queue (src/src/transport/mod.rs): the worker    *)
(* threads that claim the requests of one queue, send each with retries,    *)
(* and share one cooldown, one pacing slot, one rejection and one budget    *)
(* (Spend, src/src/requests/billing.rs).                                    *)
(*                                                                         *)
(* Every step of a worker touches one shared variable (an atomic or a       *)
(* mutex), as the code does, so that the workers interleave between any     *)
(* two of them.  `clock` counts ticks; a worker that sleeps until a tick    *)
(* goes on at any time from then on.                                        *)
(***************************************************************************)
EXTENDS Naturals, FiniteSets

CONSTANTS
  Workers,              \* worker threads: concurrency.min(items.len())
  Count,                \* requests in the queue, claimed in order
  AnsweredAttempts, UnsentAttempts, InterruptedAttempts,
  EdgeBlocks,
  FirstBackoff, LongestBackoff, Interval,
  RetryAfters,          \* pauses a retryable status may ask for, 0 for none
  Cost,                 \* dollars: Cost[r] of each request
  Setups,               \* the queues considered
  None

Requests == 1 .. Count

Kinds == {"ok", "status", "interrupted", "unsent", "invalid", "account", "edge"}

ASSUME TransportAssumption ==
  /\ IsFiniteSet(Workers)
  /\ None \notin Workers
  /\ Count \in Nat
  /\ AnsweredAttempts \in Nat \ {0} /\ UnsentAttempts \in Nat \ {0}
  /\ InterruptedAttempts \in Nat \ {0}
  /\ InterruptedAttempts <= AnsweredAttempts /\ UnsentAttempts <= AnsweredAttempts
  /\ EdgeBlocks \in Nat \ {0}
  /\ FirstBackoff \in Nat /\ LongestBackoff \in Nat /\ Interval \in Nat
  /\ RetryAfters \subseteq Nat
  /\ Cost \in [Requests -> Nat]
  /\ Setups \subseteq [deadline: Nat \cup {None}, budget: Nat, responses: SUBSET Kinds]

VARIABLES
  setup,       \* `until`'s deadline or None, the budget in dollars, and what
               \* a send may come to; no step changes it
  clock,
  next,        \* work_queue's AtomicUsize
  rejected,    \* 0, or the status that stops further uploads
  edge, edgeBlocks,
  cooldown,    \* the shared pause's end, or None
  nextStart,   \* the earliest start of the next request
  spent, priced,        \* Spent: dollars, and the requests priced
  cancelled, edited,    \* what `before` reads: Ctrl-C, and the requests whose
                        \* source was edited since they were built
  pc, req, retry, until, result,  \* the workers
  outcome, retries,     \* what `completed` was given
  sends,       \* history: sends of each request
  billable,    \* history: sends the provider may have run and billed
  late         \* history: sends each worker began after the rejection

shared  == <<clock, next, rejected, edge, edgeBlocks, cooldown, nextStart>>
money   == <<spent, priced>>
inputs  == <<cancelled, edited>>
workers == <<pc, req, retry, until, result>>
given   == <<outcome, retries>>
history == <<sends, billable, late>>
vars    == <<setup, shared, money, inputs, workers, given, history>>

-----------------------------------------------------------------------------
Labels == {"claim", "check", "before", "recheck", "wait", "pause", "pace",
           "paced", "inflight", "markEdge", "reject", "retry", "ended"}
Retryable == {"status", "interrupted", "unsent"}

Past(t) == setup.deadline # None /\ t >= setup.deadline

(* Fault: a send that may have run is repeated like an answered one. *)
AttemptsAlike(kind) == AnsweredAttempts

(* retry_delay: the attempt limit of a failure worth retrying *)
Attempts(kind) ==
  CASE kind = "status" -> AnsweredAttempts
    [] kind = "interrupted" -> InterruptedAttempts
    [] OTHER -> UnsentAttempts

(* backoff, less the jitter of up to a quarter *)
Larger(a, b)  == IF a > b THEN a ELSE b
Smaller(a, b) == IF a < b THEN a ELSE b
Backoff(n)    == Smaller(FirstBackoff * 2 ^ (n - 1), LongestBackoff)

(* Powers of two are natural numbers, which the provers do not know. *)
ASSUME BackoffAssumption == \A n \in 1 .. AnsweredAttempts : Backoff(n) \in Nat

Delays(kind) == IF kind = "status" THEN RetryAfters \cup {0} ELSE {0}

Goto(w, label) == pc' = [pc EXCEPT ![w] = label]

(* Fault: the outcome of a retried request is as of one sent once. *)
FinishUncounted(w, res) ==
  /\ outcome' = [outcome EXCEPT ![req[w]] = res]
  /\ Goto(w, "claim")
  /\ UNCHANGED retries

(* The worker's item is done: `completed` gets its outcome. *)
Finish(w, res) ==
  /\ outcome' = [outcome EXCEPT ![req[w]] = res]
  /\ retries' = [retries EXCEPT ![req[w]] = retry[w]]
  /\ Goto(w, "claim")

(* An error before the first send skips the request; one before a retry is *)
(* its result.                                                             *)
Refuse(w) == Finish(w, IF retry[w] = 0 THEN "skipped" ELSE "failed")

-----------------------------------------------------------------------------
(* Fault: the queue is one item longer than it is. *)
HasItemPastEnd == next <= Count + 1
HasItem == next <= Count

(* next.fetch_add(1) and the item, or the end of the queue *)
Claim(w) ==
  /\ pc[w] = "claim"
  /\ IF HasItem
       THEN /\ req' = [req EXCEPT ![w] = next]
            /\ next' = next + 1
            /\ retry' = [retry EXCEPT ![w] = 0]
            /\ Goto(w, "check")
       ELSE Goto(w, "ended") /\ UNCHANGED <<req, next, retry>>
  /\ UNCHANGED <<setup, clock, rejected, edge, edgeBlocks, cooldown, nextStart,
                 money, inputs, until, result, given, history>>

(* Fault: only an edge block stops further uploads. *)
RejectedByEdge == rejected = 403
Rejected == rejected # 0

Check(w) ==
  /\ pc[w] = "check"
  /\ IF Rejected THEN Refuse(w) ELSE Goto(w, "before") /\ UNCHANGED given
  /\ UNCHANGED <<setup, shared, money, inputs, req, retry, until, result, history>>

(* Fault: the budget is asked before the request's price is added. *)
AffordableBefore(r) == r \in priced \/ spent <= setup.budget

(* requests.rs `send`: cancellation, freshness of the source, Spend::charge *)
Current(r)    == ~cancelled /\ r \notin edited
Affordable(r) == r \in priced \/ spent + Cost[r] <= setup.budget

Before(w) ==
  LET r == req[w] IN
  /\ pc[w] = "before"
  /\ IF Current(r) /\ Affordable(r)
       THEN /\ priced' = priced \cup {r}
            /\ spent' = IF r \in priced THEN spent ELSE spent + Cost[r]
            /\ Goto(w, "recheck")
            /\ UNCHANGED given
       ELSE Refuse(w) /\ UNCHANGED money
  /\ UNCHANGED <<setup, shared, inputs, req, retry, until, result, history>>

(* The second check, and past_deadline before the first send *)
Recheck(w) ==
  /\ pc[w] = "recheck"
  /\ IF Rejected \/ (retry[w] = 0 /\ Past(clock))
       THEN Refuse(w)
       ELSE Goto(w, "wait") /\ UNCHANGED given
  /\ UNCHANGED <<setup, shared, money, inputs, req, retry, until, result, history>>

(* wait: the shared pause, read once *)
Wait(w) ==
  /\ pc[w] = "wait"
  /\ \/ cooldown = None /\ Goto(w, "pace") /\ UNCHANGED <<until, given>>
     \/ /\ cooldown # None
        /\ IF Past(cooldown)
             THEN Finish(w, "failed") /\ UNCHANGED until
             ELSE /\ until' = [until EXCEPT ![w] = cooldown]
                  /\ Goto(w, "pause")
                  /\ UNCHANGED given
  /\ UNCHANGED <<setup, shared, money, inputs, req, retry, result, history>>

WakeUp(w) ==
  /\ pc[w] = "pause" /\ clock >= until[w]
  /\ Goto(w, "pace")
  /\ UNCHANGED <<setup, shared, money, inputs, req, retry, until, result, given, history>>

Pace(w) ==
  LET start == Larger(nextStart, clock) IN
  /\ pc[w] = "pace"
  /\ nextStart' = start + Interval
  /\ until' = [until EXCEPT ![w] = start]
  /\ Goto(w, "paced")
  /\ UNCHANGED <<setup, clock, next, rejected, edge, edgeBlocks, cooldown,
                 money, inputs, req, retry, result, given, history>>

(* attempt_timeout refuses a send past the deadline. *)
Send(w) ==
  /\ pc[w] = "paced" /\ clock >= until[w]
  /\ IF Past(clock)
       THEN Finish(w, "failed") /\ UNCHANGED history
       ELSE /\ sends' = [sends EXCEPT ![req[w]] = @ + 1]
            /\ late' = IF rejected = 0 THEN late ELSE [late EXCEPT ![w] = @ + 1]
            /\ Goto(w, "inflight")
            /\ UNCHANGED <<billable, given>>
  /\ UNCHANGED <<setup, shared, money, inputs, req, retry, until, result>>

-----------------------------------------------------------------------------
(* The send's result, and what `observe` does with it at once *)

Respond(w, kind) ==
  /\ pc[w] = "inflight" /\ kind \in setup.responses
  /\ result' = [result EXCEPT ![w] = kind]
  /\ billable' = IF kind \in {"ok", "interrupted"}
                   THEN [billable EXCEPT ![req[w]] = @ + 1] ELSE billable
  /\ UNCHANGED <<setup, clock, next, rejected, edge, cooldown, nextStart,
                 money, inputs, req, retry, until, sends, late>>

Succeed(w) ==
  /\ Respond(w, "ok")
  /\ edgeBlocks' = 0
  /\ Finish(w, "answered")

FailForGood(w) ==
  /\ Respond(w, "invalid")
  /\ Finish(w, "failed")
  /\ UNCHANGED edgeBlocks

FailForNow(w) ==
  /\ \E kind \in Retryable : Respond(w, kind)
  /\ Goto(w, "retry")
  /\ UNCHANGED <<edgeBlocks, given>>

FailAccount(w) ==
  /\ Respond(w, "account")
  /\ Goto(w, "reject")
  /\ UNCHANGED <<edgeBlocks, given>>

FailEdge(w) ==
  /\ Respond(w, "edge")
  /\ edgeBlocks' = edgeBlocks + 1
  /\ IF edgeBlocks + 1 < EdgeBlocks
       THEN Finish(w, "failed")
       ELSE Goto(w, "markEdge") /\ UNCHANGED given

MarkEdge(w) ==
  /\ pc[w] = "markEdge"
  /\ edge' = TRUE
  /\ Goto(w, "reject")
  /\ UNCHANGED <<setup, clock, next, rejected, edgeBlocks, cooldown, nextStart,
                 money, inputs, req, retry, until, result, given, history>>

(* compare_exchange(0, status): 403 for an edge block, 402 for an account  *)
(* without credit (401 and an account's own 403 take the same path).       *)
StatusOf(kind) == IF kind = "edge" THEN 403 ELSE 402

Reject(w) ==
  /\ pc[w] = "reject"
  /\ rejected' = IF rejected = 0 THEN StatusOf(result[w]) ELSE rejected
  /\ Finish(w, "failed")
  /\ UNCHANGED <<setup, clock, next, edge, edgeBlocks, cooldown, nextStart,
                 money, inputs, req, retry, until, result, history>>

(* Fault: one attempt too many. *)
GivesUpLate(w) == retry[w] >= Attempts(result[w])

(* The attempt limit, the deadline, and `pause`, which never shortens the  *)
(* pause another worker asked for                                          *)
GivesUp(w) == retry[w] + 1 >= Attempts(result[w])

Retry(w) ==
  /\ pc[w] = "retry"
  /\ \E delay \in Delays(result[w]) :
       LET end == clock + Larger(delay, Backoff(retry[w] + 1)) IN
       IF GivesUp(w) \/ Past(end)
         THEN Finish(w, "failed") /\ UNCHANGED <<retry, cooldown>>
         ELSE /\ retry' = [retry EXCEPT ![w] = @ + 1]
              /\ cooldown' = IF cooldown = None THEN end ELSE Larger(cooldown, end)
              /\ Goto(w, "check")
              /\ UNCHANGED given
  /\ UNCHANGED <<setup, clock, next, rejected, edge, edgeBlocks, nextStart,
                 money, inputs, req, until, result, sends, billable, late>>

-----------------------------------------------------------------------------
(* The world: time passes while a worker sleeps or waits for an answer, an *)
(* attempt under way ends by the deadline, and sources change at any time. *)

Sleeping(w) == pc[w] \in {"pause", "paced"} /\ clock < until[w]
Tick ==
  /\ \E w \in Workers : Sleeping(w)
  /\ Past(clock + 1) => \A w \in Workers : pc[w] # "inflight"
  /\ clock' = clock + 1
  /\ UNCHANGED <<setup, next, rejected, edge, edgeBlocks, cooldown, nextStart,
                 money, inputs, workers, given, history>>

EditSource(r) ==
  /\ r \notin edited
  /\ edited' = edited \cup {r}
  /\ UNCHANGED <<setup, shared, money, cancelled, workers, given, history>>

Cancel ==
  /\ ~cancelled
  /\ cancelled' = TRUE
  /\ UNCHANGED <<setup, shared, money, edited, workers, given, history>>

-----------------------------------------------------------------------------
Init ==
  /\ setup \in Setups
  /\ clock = 0 /\ next = 1
  /\ rejected = 0 /\ edge = FALSE /\ edgeBlocks = 0
  /\ cooldown = None /\ nextStart = 0
  /\ spent = 0 /\ priced = {}
  /\ cancelled = FALSE /\ edited = {}
  /\ pc = [w \in Workers |-> "claim"]
  /\ req = [w \in Workers |-> 0]
  /\ retry = [w \in Workers |-> 0]
  /\ until = [w \in Workers |-> 0]
  /\ result = [w \in Workers |-> "ok"]
  /\ outcome = [r \in Requests |-> None]
  /\ retries = [r \in Requests |-> 0]
  /\ sends = [r \in Requests |-> 0]
  /\ billable = [r \in Requests |-> 0]
  /\ late = [w \in Workers |-> 0]

Work(w) ==
  \/ Claim(w) \/ Check(w) \/ Before(w) \/ Recheck(w) \/ Wait(w) \/ WakeUp(w)
  \/ Pace(w) \/ Send(w)
  \/ Succeed(w) \/ FailForGood(w) \/ FailForNow(w) \/ FailAccount(w) \/ FailEdge(w)
  \/ MarkEdge(w) \/ Reject(w) \/ Retry(w)

(* The queue is done when every worker is. *)
QueueEnds == (\A w \in Workers : pc[w] = "ended") /\ UNCHANGED vars

Next ==
  \/ \E w \in Workers : Work(w)
  \/ QueueEnds
  \/ Tick
  \/ Cancel
  \/ \E r \in Requests : EditSource(r)

Spec == Init /\ [][Next]_vars

(* Threads run, time passes, and every attempt ends (ATTEMPT_TIMEOUT).     *)
FairSpec == Spec /\ WF_vars(Tick) /\ \A w \in Workers : WF_vars(Work(w))

-----------------------------------------------------------------------------
(* Every variable keeps its type. *)
TypeOK ==
  /\ setup \in Setups
  /\ clock \in Nat /\ next \in 1 .. Count + 1
  /\ rejected \in {0, 402, 403} /\ edge \in BOOLEAN /\ edgeBlocks \in Nat
  /\ cooldown \in Nat \cup {None} /\ nextStart \in Nat
  /\ spent \in Nat /\ priced \subseteq Requests
  /\ cancelled \in BOOLEAN /\ edited \subseteq Requests
  /\ pc \in [Workers -> Labels]
  /\ req \in [Workers -> 0 .. Count]
  /\ retry \in [Workers -> Nat] /\ until \in [Workers -> Nat]
  /\ result \in [Workers -> Kinds]
  /\ outcome \in [Requests -> {"answered", "failed", "skipped", None}]
  /\ retries \in [Requests -> Nat]
  /\ sends \in [Requests -> Nat] /\ billable \in [Requests -> Nat]
  /\ late \in [Workers -> Nat]

(* The queue keeps what its caller relies on: bounded sends, one outcome   *)
(* for each request, and none forgotten whatever the workers meet          *)
(* (Evaluator::evaluate_queue).                                            *)
Queue == INSTANCE RequestQueue WITH MaxSends <- AnsweredAttempts
QueueRefined == Queue!Spec

(* The provider may have run and billed a request at most                  *)
(* InterruptedAttempts times, whatever other failures come between its     *)
(* interruptions (INTERRUPTED_ATTEMPTS).                                   *)
BillableBound == \A r \in Requests : billable[r] <= InterruptedAttempts

(* Nothing is sent that was not priced, and the requests priced stay       *)
(* within the budget, however the workers interleave (Spend::charge).      *)
BudgetHolds == spent <= setup.budget /\ \A r \in Requests : sends[r] > 0 => r \in priced

(* After an account failure each worker begins at most the one send it had *)
(* already been cleared for; a retry does not slip through (check, and the *)
(* checks before a retry).                                                 *)
LateSendBound == \A w \in Workers : late[w] <= 1

(* An outcome never reports fewer retries than were sent, which the        *)
(* receipts and the outage watch read (Outcome::retries).                  *)
RetriesCoverSends ==
  \A r \in Requests : outcome[r] # None => sends[r] <= retries[r] + 1
=============================================================================
