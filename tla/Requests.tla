------------------------------ MODULE Requests ------------------------------
(***************************************************************************)
(* Session::queries (src/src/requests.rs): the batches of requests one      *)
(* check sends, the answers it reads from and keeps in .jevgate/cache/      *)
(* (requests/lookup.rs, storage/cache.rs), its two budgets                  *)
(* (requests/billing.rs), and the checks that run after it.                 *)
(*                                                                         *)
(* A question has one wording, so that a state and a question name an       *)
(* answer.  The queue that sends a batch (module Transport) is taken as     *)
(* what it promises (module RequestQueue): workers clear requests to send   *)
(* while the main thread records those that came back, in any order.  The   *)
(* session lock keeps other writers out, and a check may be killed between  *)
(* any two steps.                                                          *)
(***************************************************************************)
EXTENDS Naturals, FiniteSets, Sequences

CONSTANTS
  States,      \* what questions are about, as uploaded
  Questions,
  Custom,      \* the custom ones among them
  Values,      \* answers the provider may give
  Plans,       \* what checks ask: sequences of batches of requests
  Options,     \* what checks run with: their options, and the cache files
               \* Git tracks as their store opens, of CacheFiles
  Whole,       \* the whole-request entries earlier versions left
  FileCap,     \* CACHE_ENTRY_BYTES, in answers
  MaxRuns,     \* bound: the checks that run
  Envs,        \* the setups considered: each a set of EnvChoices
  None, Error

EnvChoices == {"stale",       \* a source may change before it is sent
               "keyless",     \* the evaluator may be unavailable
               "unwritable",  \* a cache file may not be written
               "full",        \* a state's file holds FileCap answers
               "expiry",      \* the model is an alias, whose answers expire
               "tracked",     \* Git may track a cache file, which is not read
               "reuse"}       \* a batch may be built where an earlier one was

Answers == [Questions -> Values \cup {None}]
Nothing == [q \in Questions |-> None]
Held(f) == {q \in Questions : f[q] # None}
Join(f, g) == [q \in Questions |-> IF g[q] # None THEN g[q] ELSE f[q]]

\* A state's file, and a whole-request entry
CacheFiles == States \cup Whole

ASSUME RequestsAssumption ==
  /\ IsFiniteSet(Questions) /\ Custom \subseteq Questions
  /\ None \notin Values /\ None # Error
  /\ None \notin Answers /\ Error \notin Answers
  /\ Plans \subseteq Seq(Seq([state: States, asks: SUBSET Questions]) \ {<<>>}) \ {<<>>}
  /\ Options \subseteq [refresh: BOOLEAN, cacheOnly: BOOLEAN,
                        maxRequests: Nat, budget: Nat, tracked: SUBSET CacheFiles]
  /\ Whole \subseteq [state: States, answers: Answers]
  /\ FileCap \in Nat /\ MaxRuns \in Nat
  /\ Envs \subseteq SUBSET EnvChoices

VARIABLES
  env,       \* the setup; no step changes it
  runs,      \* checks started
  cache,     \* cache[s]: the file of answers about s
  expired,   \* expired[s]: those past their time
  opt, plan, \* the running check's options and requests
  phase, batch, pass, at, copied,  \* where it is
  buffer,    \* the memory its batch was built in
  found, stage, receipt,           \* of each request of the batch
  answered, requests, halted,      \* Session's fields of these names
  spent, priced,                   \* Spend's
  given,     \* history: what receipts gave since the last --refresh
  bought,    \* history: every question a receipt answered
  owned,     \* history: those whose answers this batch need not ask for
  cost       \* history: the price of what this check sent

files   == <<cache, expired>>
where   == <<phase, batch, pass, at, copied, buffer>>
slots   == <<found, stage, receipt>>
session == <<answered, requests, halted>>
money   == <<spent, priced>>
history == <<given, bought, owned, cost>>
vars    == <<env, runs, files, opt, plan, where, slots, session, money, history>>

-----------------------------------------------------------------------------
Batch == plan[batch]
Slots == DOMAIN Batch
Keys(s, qs) == {<<s, q>> : q \in qs}
KeysGiven(g) == {<<x[1], x[2]>> : x \in g}
Gives(s, f)  == {<<s, q, f[q]>> : q \in Held(f)}

(* Store.tracked, which a check asks for once *)
Tracked == IF "tracked" \in env THEN opt.tracked ELSE {}

(* read_json: a file Git tracks, or over its bound, reads as none. *)
FileOf(s) ==
  IF \/ s \in Tracked
     \/ "full" \in env /\ Cardinality(Held(cache[s])) > FileCap
  THEN Nothing ELSE cache[s]

(* CacheReader::answers *)
Current(s) == [q \in Questions |-> IF q \in expired[s] THEN None ELSE FileOf(s)[q]]

(* Fault: the file is replaced. *)
MergedAnew(s, new) == new

(* merge_answers, without the bound *)
Merged(s, new) == Join(FileOf(s), new)

SaveAnswers(s, new) ==
  LET kept == IF "full" \in env /\ Cardinality(Held(Merged(s, new))) > FileCap
                THEN new ELSE Merged(s, new)
  IN /\ cache' = [cache EXCEPT ![s] = kept]
     /\ expired' = [expired EXCEPT ![s] = (@ \ Held(new)) \cap Held(kept)]

-----------------------------------------------------------------------------
(* Lookup *)

(* Fault: --refresh reads what earlier checks were told. *)
ReadableEver(s, q) == TRUE
Readable(s, q) == opt.refresh => <<s, q>> \in answered

Found(r) ==
  [q \in Questions |->
     IF q \in r.asks /\ Readable(r.state, q) THEN Current(r.state)[q] ELSE None]

(* carry_earlier: the whole entry of the request, then that of the request *)
(* without its custom questions                                            *)
Carried(r, f) ==
  LET entry(qs) == {w \in Whole \ Tracked : w.state = r.state /\ Held(w.answers) = qs}
      first(ws) == IF ws = {} THEN Nothing ELSE (CHOOSE w \in ws : TRUE).answers
      all == Join(first(entry(r.asks \ Custom)), first(entry(r.asks)))
  IN IF opt.refresh THEN Nothing
     ELSE [q \in Questions |-> IF q \in r.asks /\ f[q] = None THEN all[q] ELSE None]

Missing(i) == Batch[i].asks \ Held(found[i])

(* What a new batch starts with *)
NewBatch(p, b) ==
  /\ batch' = b
  /\ phase' = "look" /\ pass' = 1 /\ at' = 1 /\ copied' = FALSE
  /\ found' = [i \in DOMAIN p[b] |-> Nothing]
  /\ stage' = [i \in DOMAIN p[b] |-> "planned"]
  /\ receipt' = [i \in DOMAIN p[b] |-> None]

StartRun(o, p) ==
  /\ phase = "off" /\ runs < MaxRuns
  /\ runs' = runs + 1
  /\ opt' = o /\ plan' = p
  /\ NewBatch(p, 1) /\ buffer' = 1
  /\ answered' = {} /\ requests' = 0 /\ halted' = FALSE
  /\ spent' = 0 /\ priced' = {}
  /\ given' = IF o.refresh THEN {} ELSE given
  /\ owned' = IF o.refresh THEN {} ELSE bought
  /\ cost' = 0
  /\ UNCHANGED <<env, files, bought>>

(* look_up of one request: a first time, and again after one of the batch  *)
(* copied an earlier version's answers                                     *)
LookUp ==
  LET r == Batch[at]
      f == Found(r)
      c == Carried(r, f)
  IN /\ phase = "look" /\ at \in Slots
     /\ at' = at + 1
     /\ IF pass = 2 /\ Missing(at) = {}
          THEN UNCHANGED <<found, copied, files>>
          ELSE /\ found' = [found EXCEPT ![at] = Join(f, c)]
               /\ \/ c # Nothing /\ SaveAnswers(r.state, c) /\ copied' = TRUE
                  \/ /\ c = Nothing \/ "unwritable" \in env
                     /\ UNCHANGED <<files, copied>>
     /\ UNCHANGED <<env, runs, opt, plan, phase, batch, pass, buffer, stage, receipt,
                    session, money, history>>

(* Faults: the batch is looked up once; it is as long as answers are copied. *)
LooksAgainNever == FALSE
LooksAgainAlways == copied
LooksAgain == pass = 1 /\ copied

LookAgain ==
  /\ phase = "look" /\ at \notin Slots /\ LooksAgain
  /\ pass' = pass + 1 /\ at' = 1
  /\ UNCHANGED <<env, runs, files, opt, plan, phase, batch, copied, buffer, slots,
                 session, money, history>>

(* Fault: the budget is that of one batch. *)
RoomOfBatch == opt.maxRequests
Room == IF requests < opt.maxRequests THEN opt.maxRequests - requests ELSE 0

(* The rest of answer_from_cache, cannot_send and hold_to_budget: the first *)
(* of the requests that lack answers are sent.                             *)
Hold ==
  /\ phase = "look" /\ at \notin Slots /\ ~LooksAgain
  /\ LET lacking == {i \in Slots : Missing(i) # {}}
         allowed == {i \in lacking : Cardinality({j \in lacking : j < i}) < Room}
     IN \E unavailable \in {halted} \cup (IF "keyless" \in env THEN {TRUE} ELSE {}) :
          LET sent == IF opt.cacheOnly \/ unavailable THEN {} ELSE allowed
          IN /\ halted' = IF opt.cacheOnly \/ lacking = {} THEN halted ELSE unavailable
             /\ stage' = [i \in Slots |-> IF i \in sent THEN "queued" ELSE "done"]
             /\ receipt' = [i \in Slots |-> IF i \notin lacking THEN found[i]
                                            ELSE IF i \in sent THEN None ELSE Error]
             /\ given' = given \cup UNION {Gives(Batch[i].state, found[i]) :
                                             i \in Slots \ lacking}
             /\ bought' = bought \cup UNION {Keys(Batch[i].state, Batch[i].asks) :
                                               i \in Slots \ lacking}
  /\ phase' = "send"
  /\ UNCHANGED <<env, runs, files, opt, plan, batch, pass, at, copied, buffer, found,
                 answered, requests, money, owned, cost>>

-----------------------------------------------------------------------------
(* Sending *)

Price(i)   == Cardinality(Missing(i))
Address(i) == <<buffer, i>>

(* Fault: a request of the price of the one before is not priced. *)
PricedBefore(i) == Address(i) \in priced \/ spent >= Price(i)
Priced(i) == Address(i) \in priced

(* Session::send's `before` *)
Before(i) ==
  /\ phase = "send" /\ stage[i] = "queued"
  /\ \/ /\ Priced(i) \/ spent + Price(i) <= opt.budget
        /\ stage' = [stage EXCEPT ![i] = "sent"]
        /\ spent' = IF Priced(i) THEN spent ELSE spent + Price(i)
        /\ priced' = priced \cup {Address(i)}
        /\ cost' = cost + Price(i)
     \/ /\ "stale" \in env \/ ~(Priced(i) \/ spent + Price(i) <= opt.budget)
        /\ stage' = [stage EXCEPT ![i] = "refused"]
        /\ UNCHANGED <<money, cost>>
  /\ UNCHANGED <<env, runs, files, opt, plan, where, found, receipt, session,
                 given, bought, owned>>

Close(i, r) ==
  /\ stage' = [stage EXCEPT ![i] = "done"]
  /\ receipt' = [receipt EXCEPT ![i] = r]

(* Outcome::skipped *)
RecordSkipped(i) ==
  /\ phase = "send" /\ stage[i] = "refused"
  /\ Close(i, Error)
  /\ UNCHANGED <<env, runs, files, opt, plan, where, found, session, money, history>>

Attempted(i, r) ==
  /\ phase = "send" /\ stage[i] = "sent"
  /\ requests' = requests + 1
  /\ Close(i, r)

(* A failure, or a body that does not validate *)
RecordFailed(i) ==
  /\ Attempted(i, Error)
  /\ UNCHANGED <<env, runs, files, opt, plan, where, found, answered, halted, money,
                 given, bought, owned, cost>>

(* keep: what this check already answered about the state *)
EarlierAnswers(i) ==
  LET s == Batch[i].state
  IN [q \in Questions |-> IF <<s, q>> \in answered /\ q \in Missing(i)
                            THEN Current(s)[q] ELSE None]

RecordAnswered(i) ==
  \E v \in [Missing(i) -> Values] :
    LET s       == Batch[i].state
        earlier == EarlierAnswers(i)
        fresh   == [q \in Questions |-> IF q \in Missing(i) /\ earlier[q] = None
                                          THEN v[q] ELSE None]
        joined  == Join(found[i], Join(earlier, fresh))
    IN /\ \/ /\ SaveAnswers(s, fresh)
             /\ answered' = answered \cup Keys(s, Held(fresh))
             /\ Attempted(i, joined)
             /\ given' = given \cup Gives(s, joined)
             /\ bought' = bought \cup Keys(s, Held(joined))
          \/ /\ "unwritable" \in env
             /\ Attempted(i, Error)
             /\ UNCHANGED <<files, answered, given, bought>>
       /\ found' = [found EXCEPT ![i] = joined]
       /\ UNCHANGED <<env, runs, opt, plan, where, halted, money, owned, cost>>

(* The batch is dropped, and the next is planned from its answers: its     *)
(* requests may lie where earlier ones did.                                *)
NextBatch ==
  /\ phase = "send" /\ \A i \in Slots : stage[i] = "done"
  /\ batch < Len(plan)
  /\ NewBatch(plan, batch + 1)
  /\ buffer' \in IF "reuse" \in env THEN 1 .. batch + 1 ELSE {batch + 1}
  /\ owned' = IF opt.refresh THEN KeysGiven(given) ELSE bought
  /\ UNCHANGED <<env, runs, files, opt, plan, session, money, given, bought, cost>>

(* The check ends, or is killed. *)
EndRun ==
  /\ phase # "off"
  /\ phase' = "off"
  /\ UNCHANGED <<env, runs, files, opt, plan, batch, pass, at, copied, buffer, slots,
                 session, money, history>>

Expire(s, q) ==
  /\ "expiry" \in env
  /\ cache[s][q] # None /\ q \notin expired[s]
  /\ expired' = [expired EXCEPT ![s] = @ \cup {q}]
  /\ UNCHANGED <<env, runs, cache, opt, plan, where, slots, session, money, history>>

AllOver == phase = "off" /\ runs = MaxRuns /\ UNCHANGED vars

-----------------------------------------------------------------------------
Init ==
  /\ env \in Envs
  /\ runs = 0
  /\ cache = [s \in States |-> Nothing] /\ expired = [s \in States |-> {}]
  /\ opt \in Options /\ plan \in Plans
  /\ phase = "off" /\ batch = 1 /\ pass = 1 /\ at = 1 /\ copied = FALSE /\ buffer = 1
  /\ found = [i \in Slots |-> Nothing]
  /\ stage = [i \in Slots |-> "planned"] /\ receipt = [i \in Slots |-> None]
  /\ answered = {} /\ requests = 0 /\ halted = FALSE
  /\ spent = 0 /\ priced = {}
  /\ given = {} /\ bought = {} /\ owned = {} /\ cost = 0

Next ==
  \/ \E o \in Options, p \in Plans : StartRun(o, p)
  \/ LookUp \/ LookAgain \/ Hold
  \/ \E i \in Slots : \/ Before(i) \/ RecordSkipped(i) \/ RecordFailed(i)
                      \/ RecordAnswered(i)
  \/ NextBatch \/ EndRun
  \/ \E s \in States, q \in Questions : Expire(s, q)
  \/ AllOver

Spec == Init /\ [][Next]_vars

-----------------------------------------------------------------------------
(* Every variable keeps its type. *)
TypeOK ==
  /\ env \in SUBSET EnvChoices /\ runs \in 0 .. MaxRuns
  /\ cache \in [States -> Answers] /\ expired \in [States -> SUBSET Questions]
  /\ opt \in Options /\ plan \in Plans
  /\ phase \in {"off", "look", "send"}
  /\ batch \in DOMAIN plan /\ pass \in {1, 2} /\ at \in 1 .. Len(Batch) + 1
  /\ copied \in BOOLEAN /\ buffer \in 1 .. batch
  /\ found \in [Slots -> Answers]
  /\ stage \in [Slots -> {"planned", "queued", "sent", "refused", "done"}]
  /\ receipt \in [Slots -> Answers \cup {None, Error}]
  /\ answered \subseteq States \X Questions
  /\ requests \in Nat /\ halted \in BOOLEAN
  /\ spent \in Nat /\ priced \subseteq Nat \X Nat
  /\ given \subseteq States \X Questions \X Values
  /\ bought \subseteq States \X Questions /\ owned \subseteq States \X Questions
  /\ cost \in Nat

(* Answers last: none expires, is dropped from a full file, is given       *)
(* without being kept, or is kept in a file that is not read.              *)
Lasting == env \cap {"expiry", "full", "unwritable", "tracked"} = {}

(* Requests that ask the same question of the same state, of one batch, of *)
(* later batches and of later checks, give one answer, although the        *)
(* provider may answer each differently (Answered in lookup.rs: "a         *)
(* question two of its requests ask has one answer, the one the cache      *)
(* keeps"; answer_from_cache: "which a rerun reads").                      *)
OneAnswer ==
  Lasting => \A x, y \in given : x[1] = y[1] /\ x[2] = y[2] => x[3] = y[3]

(* What a receipt answered is not sent again by a later batch, nor, unless *)
(* it refreshes, by a later check, also when a check was killed (config    *)
(* docs: "a rerun asks only for the rest"; Answered: "with --refresh it    *)
(* asks each of them once").                                               *)
BoughtOnce ==
  Lasting /\ phase = "send" =>
    \A i \in Slots : stage[i] \in {"queued", "sent"} =>
      Keys(Batch[i].state, Missing(i)) \cap owned = {}

(* With --refresh a receipt gives only what the provider told this check:  *)
(* neither an answer of an earlier check nor one of an earlier version's   *)
(* entry reaches it, whatever the cache held (Lookup::new: "only the       *)
(* answers this invocation gave").                                         *)
RefreshedAnew ==
  opt.refresh /\ phase # "off" =>
    \A i \in Slots : receipt[i] \notin {None, Error} =>
      Keys(Batch[i].state, Held(receipt[i])) \subseteq answered

(* No more requests are sent than the check allows, over all its batches   *)
(* (hold_to_budget).                                                       *)
RequestsHeld == requests <= opt.maxRequests

(* The price of what a check sends stays within its budget (Spend: "none   *)
(* is sent that would pass it").                                           *)
SpendHolds == cost <= opt.budget

(* ... which holds as long as no request lies at the address of an earlier *)
(* one, by which Spend knows what it priced.                               *)
SpendHoldsApart == "reuse" \notin env => SpendHolds
=============================================================================
