--------------------------- MODULE Requests_proofs ---------------------------
(* Theorems of Requests: its types; that both budgets hold for any states, *)
(* questions, plans, options and setups; and of its answers, that a check  *)
(* that refreshes gives only what it was told, and that as long as answers *)
(* last a question about a state has one answer and is not bought twice.   *)
EXTENDS Requests, FiniteSetTheorems, TLAPS

Request == [state: States, asks: SUBSET Questions]
Stages  == {"planned", "queued", "sent", "refused", "done"}

-----------------------------------------------------------------------------
(* What the operators return *)

LEMMA NothingType == Nothing \in Answers
  BY DEF Nothing, Answers

LEMMA JoinType ==
  ASSUME NEW f \in Answers, NEW g \in Answers
  PROVE  Join(f, g) \in Answers
  BY DEF Join, Answers

LEMMA GivesType ==
  ASSUME NEW s \in States, NEW f \in Answers
  PROVE  Gives(s, f) \subseteq States \X Questions \X Values
  BY DEF Gives, Held, Answers

LEMMA KeysType ==
  ASSUME NEW s \in States, NEW qs \in SUBSET Questions
  PROVE  Keys(s, qs) \subseteq States \X Questions
  BY DEF Keys

(* Every plan has a first batch, and every batch is a sequence of requests. *)
LEMMA PlanType ==
  ASSUME NEW p \in Plans
  PROVE  /\ 1 \in DOMAIN p
         /\ DOMAIN p = 1 .. Len(p) /\ Len(p) \in Nat
         /\ \A b \in DOMAIN p : /\ p[b] \in Seq(Request)
                                /\ Len(p[b]) \in Nat
                                /\ DOMAIN p[b] = 1 .. Len(p[b])
                                /\ \A i \in DOMAIN p[b] : p[b][i] \in Request
<1>1. p \in Seq(Seq(Request) \ {<<>>}) /\ p # <<>>
  BY RequestsAssumption DEF Request
<1>2. Len(p) \in Nat /\ DOMAIN p = 1 .. Len(p) /\ Len(p) # 0
  BY <1>1
<1>3. \A b \in DOMAIN p : p[b] \in Seq(Request)
  BY <1>1, <1>2
<1> QED
  BY <1>2, <1>3

(* The batch at work *)
LEMMA BatchType ==
  ASSUME TypeOK
  PROVE  /\ Slots = 1 .. Len(Batch) /\ Len(Batch) \in Nat
         /\ \A i \in Slots : /\ Batch[i] \in Request
                             /\ Batch[i].state \in States
                             /\ Batch[i].asks \subseteq Questions
<1>1. plan \in Plans /\ batch \in DOMAIN plan
  BY DEF TypeOK
<1>2. /\ Slots = 1 .. Len(Batch) /\ Len(Batch) \in Nat
      /\ \A i \in Slots : Batch[i] \in Request
  BY <1>1, PlanType DEF Batch, Slots
<1> QED
  BY <1>2 DEF Request

LEMMA FileType ==
  ASSUME TypeOK, NEW s \in States
  PROVE  FileOf(s) \in Answers /\ Current(s) \in Answers
<1>1. FileOf(s) \in Answers
  BY NothingType DEF FileOf, TypeOK
<1> QED
  BY <1>1 DEF Current, Answers

LEMMA FoundType ==
  ASSUME TypeOK, NEW r \in Request
  PROVE  Found(r) \in Answers
<1>1. Current(r.state) \in Answers
  BY FileType DEF Request
<1> QED
  BY <1>1 DEF Found, Answers

LEMMA CarriedType ==
  ASSUME TypeOK, NEW r \in Request, NEW f \in Answers
  PROVE  Carried(r, f) \in Answers
<1> DEFINE entry(qs) == {w \in Whole \ Tracked : w.state = r.state /\ Held(w.answers) = qs}
           first(ws) == IF ws = {} THEN Nothing ELSE (CHOOSE w \in ws : TRUE).answers
           all == Join(first(entry(r.asks \ Custom)), first(entry(r.asks)))
<1>1. \A ws \in SUBSET Whole : first(ws) \in Answers
  BY NothingType, RequestsAssumption
<1>2. first(entry(r.asks \ Custom)) \in Answers /\ first(entry(r.asks)) \in Answers
  <2>1. entry(r.asks \ Custom) \in SUBSET Whole /\ entry(r.asks) \in SUBSET Whole
    OBVIOUS
  <2> QED
    BY <1>1, <2>1
<1>3. all \in Answers
  BY <1>2, JoinType
<1> HIDE DEF all
<1>4. [q \in Questions |-> IF q \in r.asks /\ f[q] = None THEN all[q] ELSE None] \in Answers
  BY <1>3 DEF Answers
<1> QED
  BY <1>4, NothingType DEF Carried, all

(* A save keeps the files' types. *)
LEMMA SaveType ==
  ASSUME TypeOK, NEW s \in States, NEW new \in Answers, SaveAnswers(s, new)
  PROVE  cache' \in [States -> Answers] /\ expired' \in [States -> SUBSET Questions]
<1>1. Merged(s, new) \in Answers
  BY FileType, JoinType DEF Merged
<1>2. PICK kept \in Answers :
        /\ cache' = [cache EXCEPT ![s] = kept]
        /\ expired' = [expired EXCEPT ![s] = (@ \ Held(new)) \cap Held(kept)]
  BY <1>1 DEF SaveAnswers
<1> QED
  BY <1>2 DEF TypeOK

LEMMA PriceType ==
  ASSUME TypeOK, NEW i \in Slots
  PROVE  Price(i) \in Nat
<1>1. Missing(i) \in SUBSET Questions
  BY BatchType DEF Missing
<1>2. IsFiniteSet(Missing(i))
  BY <1>1, FS_Subset, RequestsAssumption
<1> QED
  BY <1>2, FS_CardinalityType DEF Price

-----------------------------------------------------------------------------
(* Types *)

(* A step within a batch leaves the batch as it is. *)
LEMMA SameBatch ==
  ASSUME plan' = plan, batch' = batch
  PROVE  Batch' = Batch /\ Slots' = Slots
  BY DEF Batch, Slots

LEMMA NewBatchType ==
  ASSUME NEW p \in Plans, NEW b \in DOMAIN p, plan' = p, NewBatch(p, b)
  PROVE  /\ batch' \in DOMAIN plan' /\ phase' = "look" /\ pass' \in {1, 2}
         /\ at' \in 1 .. Len(Batch') + 1 /\ copied' \in BOOLEAN
         /\ found' \in [Slots' -> Answers] /\ stage' \in [Slots' -> Stages]
         /\ receipt' \in [Slots' -> Answers \cup {None, Error}]
<1>1. Batch' = p[b] /\ Slots' = DOMAIN p[b] /\ Len(p[b]) \in Nat
  BY PlanType DEF NewBatch, Batch, Slots
<1>2. batch' \in DOMAIN plan'
  BY DEF NewBatch
<1>3. /\ phase' = "look" /\ pass' \in {1, 2} /\ copied' \in BOOLEAN
      /\ at' \in 1 .. Len(Batch') + 1
  <2>1. Len(Batch') \in Nat
    BY <1>1
  <2>2. phase' = "look" /\ pass' = 1 /\ copied' = FALSE /\ at' = 1
    BY DEF NewBatch
  <2>3. 1 \in 1 .. Len(Batch') + 1
    BY <2>1
  <2> QED
    BY <2>2, <2>3
<1>4. /\ found' = [i \in Slots' |-> Nothing] /\ stage' = [i \in Slots' |-> "planned"]
      /\ receipt' = [i \in Slots' |-> None]
  BY <1>1 DEF NewBatch
<1>5. /\ found' \in [Slots' -> Answers] /\ stage' \in [Slots' -> Stages]
      /\ receipt' \in [Slots' -> Answers \cup {None, Error}]
  BY <1>4, NothingType DEF Stages
<1> QED
  BY <1>2, <1>3, <1>5

LEMMA InitType == Init => TypeOK
<1> SUFFICES ASSUME Init PROVE TypeOK
  OBVIOUS
<1>1. plan \in Plans /\ batch = 1 /\ 1 \in DOMAIN plan /\ env \in SUBSET EnvChoices
  BY PlanType, RequestsAssumption DEF Init
<1>2. Len(Batch) \in Nat
  BY <1>1, PlanType DEF Batch
<1>3. /\ cache \in [States -> Answers] /\ expired \in [States -> SUBSET Questions]
      /\ found \in [Slots -> Answers]
      /\ stage \in [Slots -> {"planned", "queued", "sent", "refused", "done"}]
      /\ receipt \in [Slots -> Answers \cup {None, Error}]
  BY NothingType DEF Init
<1>4. /\ runs \in 0 .. MaxRuns /\ batch \in DOMAIN plan
      /\ at \in 1 .. Len(Batch) + 1 /\ buffer \in 1 .. batch
  BY <1>1, <1>2, RequestsAssumption DEF Init
<1> QED
  BY <1>1, <1>3, <1>4 DEF Init, TypeOK

LEMMA StepType == TypeOK /\ [Next]_vars => TypeOK'
<1> SUFFICES ASSUME TypeOK, [Next]_vars PROVE TypeOK'
  OBVIOUS
<1> USE DEF Stages
<1>1. ASSUME NEW o \in Options, NEW p \in Plans, StartRun(o, p) PROVE TypeOK'
  <2>1. 1 \in DOMAIN p /\ plan' = p
    BY <1>1, PlanType DEF StartRun
  <2>2. NewBatch(p, 1)
    BY <1>1 DEF StartRun
  <2> QED
    <3>1. /\ batch' \in DOMAIN plan' /\ phase' = "look" /\ pass' \in {1, 2}
          /\ at' \in 1 .. Len(Batch') + 1 /\ copied' \in BOOLEAN
          /\ found' \in [Slots' -> Answers] /\ stage' \in [Slots' -> Stages]
          /\ receipt' \in [Slots' -> Answers \cup {None, Error}]
      BY <2>1, <2>2, NewBatchType
    <3>2. batch' = 1 /\ buffer' \in 1 .. batch' /\ runs' \in 0 .. MaxRuns
      BY <1>1, <2>2, RequestsAssumption DEF StartRun, NewBatch, TypeOK
    <3>3. /\ opt' \in Options /\ plan' \in Plans
          /\ answered' = {} /\ requests' = 0 /\ halted' = FALSE
          /\ spent' = 0 /\ priced' = {} /\ cost' = 0
          /\ given' \subseteq given /\ owned' \subseteq bought
          /\ UNCHANGED <<env, files, bought>>
      BY <1>1 DEF StartRun
    <3> QED
      BY <3>1, <3>2, <3>3 DEF TypeOK, files
<1>2. ASSUME LookUp PROVE TypeOK'
  <2> DEFINE r == Batch[at]
             f == Found(r)
             c == Carried(r, f)
  <2>1. r \in Request /\ r.state \in States /\ at \in Slots
    BY <1>2, BatchType DEF LookUp
  <2>2. f \in Answers /\ c \in Answers /\ Join(f, c) \in Answers
    BY <2>1, FoundType, CarriedType, JoinType
  <2>3. at' \in 1 .. Len(Batch) + 1
    BY <1>2, <2>1, BatchType DEF LookUp
  <2>4. /\ found' \in [Slots -> Answers] /\ copied' \in BOOLEAN
        /\ cache' \in [States -> Answers] /\ expired' \in [States -> SUBSET Questions]
    <3>1. CASE UNCHANGED <<found, copied, files>>
      BY <3>1 DEF TypeOK, files
    <3>2. CASE /\ found' = [found EXCEPT ![at] = Join(f, c)]
               /\ SaveAnswers(r.state, c) /\ copied' = TRUE
      BY <3>2, <2>1, <2>2, SaveType DEF TypeOK
    <3>3. CASE found' = [found EXCEPT ![at] = Join(f, c)] /\ UNCHANGED <<files, copied>>
      BY <3>3, <2>1, <2>2 DEF TypeOK, files
    <3> QED
      BY <1>2, <3>1, <3>2, <3>3 DEF LookUp
  <2>5. UNCHANGED <<env, runs, opt, plan, phase, batch, pass, buffer, stage, receipt,
                    session, money, history>>
    BY <1>2 DEF LookUp
  <2> QED
    BY <2>3, <2>4, <2>5, SameBatch DEF TypeOK, session, money, history
<1>3. ASSUME LookAgain PROVE TypeOK'
  <2>1. /\ pass' = 2 /\ at' = 1
        /\ UNCHANGED <<env, runs, files, opt, plan, phase, batch, copied, buffer, slots,
                       session, money, history>>
    BY <1>3 DEF LookAgain, LooksAgain
  <2> QED
    BY <2>1, SameBatch, BatchType DEF TypeOK, files, slots, session, money, history
<1>4. ASSUME Hold PROVE TypeOK'
  <2>1. /\ halted' \in BOOLEAN
        /\ stage' \in [Slots -> Stages]
        /\ receipt' \in [Slots -> Answers \cup {None, Error}]
    <3> DEFINE lacking == {i \in Slots : Missing(i) # {}}
               allowed == {i \in lacking : Cardinality({j \in lacking : j < i}) < Room}
    <3> HIDE DEF lacking, allowed
    <3>0. \A b \in {halted} \cup (IF "keyless" \in env THEN {TRUE} ELSE {}) : b \in BOOLEAN
      BY DEF TypeOK
    <3>1. PICK unavailable \in {halted} \cup (IF "keyless" \in env THEN {TRUE} ELSE {}),
               sent \in {{}, allowed} :
            /\ halted' = IF opt.cacheOnly \/ lacking = {} THEN halted ELSE unavailable
            /\ stage' = [i \in Slots |-> IF i \in sent THEN "queued" ELSE "done"]
            /\ receipt' = [i \in Slots |-> IF i \notin lacking THEN found[i]
                                           ELSE IF i \in sent THEN None ELSE Error]
      BY <1>4 DEF Hold, lacking, allowed
    <3>2. unavailable \in BOOLEAN
      BY <3>0, <3>1
    <3>3. halted' \in BOOLEAN
      BY <3>1, <3>2 DEF TypeOK
    <3>4. stage' \in [Slots -> Stages]
      BY <3>1
    <3>5. receipt' \in [Slots -> Answers \cup {None, Error}]
      BY <3>1 DEF TypeOK
    <3> QED
      BY <3>3, <3>4, <3>5
  <2>2. /\ given' \subseteq States \X Questions \X Values
        /\ bought' \subseteq States \X Questions
    <3>1. \A i \in Slots : /\ Gives(Batch[i].state, found[i])
                                \subseteq States \X Questions \X Values
                           /\ Keys(Batch[i].state, Batch[i].asks) \subseteq States \X Questions
      BY BatchType, GivesType, KeysType DEF TypeOK
    <3> QED
      BY <1>4, <3>1 DEF Hold, TypeOK
  <2>3. /\ phase' = "send"
        /\ UNCHANGED <<env, runs, files, opt, plan, batch, pass, at, copied, buffer, found,
                       answered, requests, money, owned, cost>>
    BY <1>4 DEF Hold
  <2> QED
    BY <2>1, <2>2, <2>3, SameBatch DEF TypeOK, files, money
<1>5. ASSUME NEW i \in Slots, Before(i) PROVE TypeOK'
  <2>1. Price(i) \in Nat
    BY PriceType
  <2>2. Address(i) \in Nat \X Nat
    <3>1. buffer \in 1 .. batch /\ batch \in 1 .. Len(plan) /\ Len(plan) \in Nat
      BY PlanType DEF TypeOK
    <3>2. i \in 1 .. Len(Batch) /\ Len(Batch) \in Nat
      BY BatchType
    <3> QED
      BY <3>1, <3>2 DEF Address
  <2>3. /\ stage' \in [Slots -> Stages]
        /\ spent' \in Nat /\ cost' \in Nat /\ priced' \subseteq Nat \X Nat
    <3>1. CASE /\ stage' = [stage EXCEPT ![i] = "sent"]
               /\ spent' = IF Priced(i) THEN spent ELSE spent + Price(i)
               /\ priced' = priced \cup {Address(i)}
               /\ cost' = cost + Price(i)
      <4>1. stage \in [Slots -> Stages] /\ spent \in Nat /\ cost \in Nat
            /\ priced \subseteq Nat \X Nat
        BY DEF TypeOK
      <4>2. stage' \in [Slots -> Stages]
        BY <3>1, <4>1
      <4>3. spent' \in Nat /\ cost' \in Nat
        BY <2>1, <3>1, <4>1
      <4>4. priced' \subseteq Nat \X Nat
        BY <2>2, <3>1, <4>1
      <4> QED
        BY <4>2, <4>3, <4>4
    <3>2. CASE stage' = [stage EXCEPT ![i] = "refused"] /\ UNCHANGED <<money, cost>>
      BY <3>2 DEF TypeOK, money
    <3> QED
      BY <1>5, <3>1, <3>2 DEF Before
  <2>4. UNCHANGED <<env, runs, files, opt, plan, where, found, receipt, session,
                    given, bought, owned>>
    BY <1>5 DEF Before
  <2> QED
    BY <2>3, <2>4, SameBatch DEF TypeOK, files, where, session
<1>6. ASSUME NEW i \in Slots, RecordSkipped(i) PROVE TypeOK'
  BY <1>6, SameBatch
     DEF RecordSkipped, Close, TypeOK, files, where, session, money, history
<1>7. ASSUME NEW i \in Slots, RecordFailed(i) PROVE TypeOK'
  <2>1. /\ requests' \in Nat
        /\ stage' \in [Slots -> Stages]
        /\ receipt' \in [Slots -> Answers \cup {None, Error}]
    BY <1>7, RequestsAssumption DEF RecordFailed, Attempted, Close, TypeOK
  <2> QED
    BY <1>7, <2>1, SameBatch DEF RecordFailed, TypeOK, files, where, money
<1>8. ASSUME NEW i \in Slots, RecordAnswered(i) PROVE TypeOK'
  <2> DEFINE s == Batch[i].state
             earlier == EarlierAnswers(i)
  <2>1. s \in States /\ Missing(i) \subseteq Questions
    BY BatchType DEF Missing
  <2>2. earlier \in Answers
    BY <2>1, FileType DEF EarlierAnswers, Answers
  <2> HIDE DEF earlier
  <2>3. PICK v \in [Missing(i) -> Values] :
          LET fresh  == [q \in Questions |-> IF q \in Missing(i) /\ earlier[q] = None
                                               THEN v[q] ELSE None]
              joined == Join(found[i], Join(earlier, fresh))
          IN /\ \/ /\ SaveAnswers(s, fresh)
                   /\ answered' = answered \cup Keys(s, Held(fresh))
                   /\ Attempted(i, joined)
                   /\ given' = given \cup Gives(s, joined)
                   /\ bought' = bought \cup Keys(s, Held(joined))
                \/ /\ "unwritable" \in env
                   /\ Attempted(i, Error)
                   /\ UNCHANGED <<files, answered, given, bought>>
             /\ found' = [found EXCEPT ![i] = joined]
             /\ UNCHANGED <<env, runs, opt, plan, where, halted, money, owned, cost>>
    BY <1>8 DEF RecordAnswered, earlier
  <2> DEFINE fresh  == [q \in Questions |-> IF q \in Missing(i) /\ earlier[q] = None
                                              THEN v[q] ELSE None]
             joined == Join(found[i], Join(earlier, fresh))
  <2>4. fresh \in Answers
    BY DEF Answers
  <2>5. joined \in Answers
    BY <2>2, <2>4, JoinType DEF TypeOK
  <2>6. Held(fresh) \subseteq Questions /\ Held(joined) \subseteq Questions
    BY DEF Held
  <2>7. \A r \in Answers \cup {Error} : Attempted(i, r) =>
          /\ requests' \in Nat
          /\ stage' \in [Slots -> Stages]
          /\ receipt' \in [Slots -> Answers \cup {None, Error}]
    BY RequestsAssumption DEF Attempted, Close, TypeOK
  <2> HIDE DEF fresh, joined, s
  <2>8. /\ cache' \in [States -> Answers] /\ expired' \in [States -> SUBSET Questions]
        /\ answered' \subseteq States \X Questions
        /\ given' \subseteq States \X Questions \X Values
        /\ bought' \subseteq States \X Questions
        /\ requests' \in Nat
        /\ stage' \in [Slots -> Stages]
        /\ receipt' \in [Slots -> Answers \cup {None, Error}]
    <3>1. CASE /\ SaveAnswers(s, fresh)
               /\ answered' = answered \cup Keys(s, Held(fresh))
               /\ Attempted(i, joined)
               /\ given' = given \cup Gives(s, joined)
               /\ bought' = bought \cup Keys(s, Held(joined))
      <4>1. cache' \in [States -> Answers] /\ expired' \in [States -> SUBSET Questions]
        BY <3>1, <2>1, <2>4, SaveType
      <4>2. /\ Keys(s, Held(fresh)) \subseteq States \X Questions
            /\ Keys(s, Held(joined)) \subseteq States \X Questions
            /\ Gives(s, joined) \subseteq States \X Questions \X Values
        BY <2>1, <2>5, <2>6, KeysType, GivesType
      <4> QED
        BY <3>1, <4>1, <4>2, <2>5, <2>7 DEF TypeOK
    <3>2. CASE Attempted(i, Error) /\ UNCHANGED <<files, answered, given, bought>>
      BY <3>2, <2>7 DEF TypeOK, files
    <3> QED
      BY <2>3, <3>1, <3>2 DEF fresh, joined
  <2>9. /\ found' = [found EXCEPT ![i] = joined]
        /\ UNCHANGED <<env, runs, opt, plan, where, halted, money, owned, cost>>
    BY <2>3 DEF joined, fresh
  <2> QED
    BY <2>5, <2>8, <2>9, SameBatch DEF TypeOK, where, money
<1>9. ASSUME NextBatch PROVE TypeOK'
  <2>1. plan \in Plans /\ batch + 1 \in DOMAIN plan /\ plan' = plan /\ NewBatch(plan, batch + 1)
    BY <1>9, PlanType DEF NextBatch, TypeOK
  <2>2. buffer' \in 1 .. batch'
    BY <1>9, PlanType DEF NextBatch, NewBatch, TypeOK
  <2>3. KeysGiven(given) \subseteq States \X Questions
    BY DEF KeysGiven, TypeOK
  <2> QED
    BY <1>9, <2>1, <2>2, <2>3, NewBatchType DEF NextBatch, TypeOK, files, session, money
<1>10. ASSUME EndRun PROVE TypeOK'
  BY <1>10, SameBatch DEF EndRun, TypeOK, files, slots, session, money, history
<1>11. ASSUME NEW s \in States, NEW q \in Questions, Expire(s, q) PROVE TypeOK'
  BY <1>11, SameBatch DEF Expire, TypeOK, where, slots, session, money, history
<1>12. ASSUME UNCHANGED vars PROVE TypeOK'
  BY <1>12, SameBatch
     DEF TypeOK, vars, files, where, slots, session, money, history
<1> QED
  BY <1>1, <1>2, <1>3, <1>4, <1>5, <1>6, <1>7, <1>8, <1>9, <1>10, <1>11, <1>12
     DEF Next, AllOver

(* Every variable keeps its type, whatever is asked, answered and kept. *)
THEOREM TypeCorrect == Spec => []TypeOK
  BY InitType, StepType, PTL DEF Spec

-----------------------------------------------------------------------------
(* The budget of requests *)

(* Of a set of numbers, fewer than n come before at most n of them.        *)
LEMMA FirstsBounded ==
  ASSUME NEW S \in SUBSET Nat, IsFiniteSet(S), NEW n \in Nat
  PROVE  Cardinality({i \in S : Cardinality({j \in S : j < i}) < n}) <= n
<1> DEFINE Below(i) == {j \in S : j < i}
           T == {i \in S : Cardinality(Below(i)) < n}
           rank == [i \in T |-> Cardinality(Below(i))]
           Ranks == 0 .. (n - 1)
<1>1. \A i \in S : IsFiniteSet(Below(i)) /\ Cardinality(Below(i)) \in Nat
  BY FS_Subset, FS_CardinalityType
<1>2. \A i, k \in S : i < k => Cardinality(Below(i)) # Cardinality(Below(k))
  <2> SUFFICES ASSUME NEW i \in S, NEW k \in S, i < k
               PROVE  Cardinality(Below(i)) # Cardinality(Below(k))
    OBVIOUS
  <2>1. Below(i) \in SUBSET Below(k) /\ i \in Below(k) /\ i \notin Below(i)
    <3>1. i \in Nat /\ k \in Nat /\ ~(i < i)
      OBVIOUS
    <3>2. \A j \in S : j < i => j < k
      <4> TAKE j \in S
      <4> QED
        BY <3>1
    <3> QED
      BY <3>1, <3>2
  <2>2. Below(i) # Below(k)
    BY <2>1
  <2> HIDE DEF Below
  <2> QED
    BY <1>1, <2>1, <2>2, FS_Subset
<1>3. rank \in [T -> Ranks]
  <2>1. \A i \in T : Cardinality(Below(i)) \in Nat /\ Cardinality(Below(i)) < n
    BY <1>1
  <2> HIDE DEF Below
  <2>2. \A i \in T : Cardinality(Below(i)) \in Ranks
    BY <2>1
  <2> HIDE DEF T
  <2> QED
    BY <2>2
<1>4. \A i, k \in T : rank[i] = rank[k] => i = k
  <2> SUFFICES ASSUME NEW i \in T, NEW k \in T, rank[i] = rank[k] PROVE i = k
    OBVIOUS
  <2>1. Cardinality(Below(i)) = Cardinality(Below(k))
    OBVIOUS
  <2>2. i \in S /\ k \in S /\ i \in Nat /\ k \in Nat
    OBVIOUS
  <2>3. ~(i < k) /\ ~(k < i)
    BY <1>2, <2>1, <2>2
  <2> QED
    BY <2>2, <2>3
<1>5. IsFiniteSet(Ranks) /\ Cardinality(Ranks) = n
  <2>1. IsFiniteSet(Ranks) /\ Cardinality(Ranks) = IF 0 > n - 1 THEN 0 ELSE (n - 1) - 0 + 1
    BY FS_Interval
  <2> QED
    BY <2>1
<1> HIDE DEF rank, T, Ranks
<1>6. rank \in Injection(T, Ranks)
  BY <1>3, <1>4 DEF Injection, IsInjective
<1> QED
  BY <1>5, <1>6, FS_Injection DEF T

Underway == {i \in Slots : stage[i] \in {"queued", "sent"}}

(* What was counted and what may still be stays within the ceiling.        *)
RequestInv ==
  /\ requests <= opt.maxRequests
  /\ phase = "send" => requests + Cardinality(Underway) <= opt.maxRequests

LEMMA UnderwayType ==
  ASSUME TypeOK
  PROVE  IsFiniteSet(Slots) /\ IsFiniteSet(Underway) /\ Cardinality(Underway) \in Nat
<1>1. IsFiniteSet(Slots)
  BY BatchType, FS_Interval
<1>2. Underway \in SUBSET Slots
  BY DEF Underway
<1> QED
  BY <1>1, <1>2, FS_Subset, FS_CardinalityType

LEMMA OptionType ==
  ASSUME NEW o \in Options
  PROVE  o.maxRequests \in Nat /\ o.budget \in Nat
  BY RequestsAssumption

(* Closing a request that is under way takes it out; others change nothing. *)
LEMMA UnderwayCloses ==
  ASSUME TypeOK, NEW i \in Slots, NEW st \in Stages \ {"queued", "sent"},
         Slots' = Slots, stage' = [stage EXCEPT ![i] = st]
  PROVE  Underway' = Underway \ {i}
  BY DEF Underway, TypeOK

LEMMA InitRequests == Init => RequestInv
  BY OptionType DEF Init, RequestInv

LEMMA StepRequests == TypeOK /\ RequestInv /\ [Next]_vars => RequestInv'
<1> SUFFICES ASSUME TypeOK, RequestInv, [Next]_vars PROVE RequestInv'
  OBVIOUS
<1> USE DEF Stages
<1>0. /\ opt.maxRequests \in Nat /\ requests \in Nat
      /\ IsFiniteSet(Underway) /\ Cardinality(Underway) \in Nat
  BY OptionType, UnderwayType DEF TypeOK
<1>1. ASSUME NEW o \in Options, NEW p \in Plans, StartRun(o, p) PROVE RequestInv'
  BY <1>1, OptionType DEF StartRun, NewBatch, RequestInv
<1>2. ASSUME LookUp PROVE RequestInv'
  BY <1>2 DEF LookUp, RequestInv, session
<1>3. ASSUME LookAgain PROVE RequestInv'
  BY <1>3 DEF LookAgain, RequestInv, session
<1>4. ASSUME Hold PROVE RequestInv'
  <2> DEFINE lacking == {i \in Slots : Missing(i) # {}}
             allowed == {i \in lacking : Cardinality({j \in lacking : j < i}) < Room}
  <2>1. Room \in Nat /\ requests + Room <= opt.maxRequests
    BY <1>0 DEF Room, RequestInv
  <2>2. lacking \in SUBSET Nat /\ IsFiniteSet(lacking)
    <3>1. Slots \in SUBSET Nat /\ lacking \in SUBSET Slots
      BY BatchType
    <3> QED
      BY <3>1, UnderwayType, FS_Subset
  <2> HIDE DEF lacking
  <2>3. Cardinality(allowed) <= Room /\ IsFiniteSet(allowed)
    BY <2>1, <2>2, FirstsBounded, FS_Subset
  <2> HIDE DEF allowed
  <2>4. PICK sent \in {{}, allowed} :
          stage' = [i \in Slots |-> IF i \in sent THEN "queued" ELSE "done"]
    BY <1>4 DEF Hold, lacking, allowed
  <2>5. Underway' \in SUBSET sent
    BY <1>4, <2>4, SameBatch DEF Hold, Underway
  <2>6. IsFiniteSet(sent) /\ Cardinality(sent) \in Nat /\ Cardinality(sent) <= Room
    <3>1. CASE sent = {}
      BY <2>1, <3>1, FS_EmptySet
    <3>2. CASE sent = allowed
      BY <2>3, <3>2, FS_CardinalityType
    <3> QED
      BY <3>1, <3>2
  <2>7. Cardinality(Underway') \in Nat /\ Cardinality(Underway') <= Room
    BY <2>1, <2>5, <2>6, FS_Subset, FS_CardinalityType
  <2>8. opt' = opt /\ requests' = requests
    BY <1>4 DEF Hold
  <2> QED
    BY <1>0, <2>1, <2>7, <2>8 DEF RequestInv
<1>5. ASSUME NEW i \in Slots, Before(i) PROVE RequestInv'
  <2>1. Slots' = Slots /\ opt' = opt /\ requests' = requests /\ phase = "send"
    BY <1>5, SameBatch DEF Before, where, session
  <2>2. CASE stage' = [stage EXCEPT ![i] = "sent"]
    <3>1. Underway' = Underway
      BY <1>5, <2>1, <2>2 DEF Before, Underway, TypeOK
    <3> QED
      BY <2>1, <3>1 DEF RequestInv
  <2>3. CASE stage' = [stage EXCEPT ![i] = "refused"]
    <3>1. Underway' = Underway \ {i}
      BY <2>1, <2>3, UnderwayCloses
    <3>2. Cardinality(Underway') \in Nat /\ Cardinality(Underway') <= Cardinality(Underway)
      BY <1>0, <3>1, FS_Subset, FS_CardinalityType
    <3> QED
      BY <1>0, <2>1, <3>2 DEF RequestInv
  <2> QED
    BY <1>5, <2>2, <2>3 DEF Before
<1>6. ASSUME NEW i \in Slots, RecordSkipped(i) PROVE RequestInv'
  <2>1. Slots' = Slots /\ opt' = opt /\ requests' = requests /\ phase = "send"
    BY <1>6, SameBatch DEF RecordSkipped, where, session
  <2>2. Underway' = Underway \ {i}
    BY <1>6, <2>1, UnderwayCloses DEF RecordSkipped, Close
  <2>3. Cardinality(Underway') \in Nat /\ Cardinality(Underway') <= Cardinality(Underway)
    BY <1>0, <2>2, FS_Subset, FS_CardinalityType
  <2> QED
    BY <1>0, <2>1, <2>3 DEF RequestInv
<1>7. ASSUME NEW i \in Slots, NEW r, Attempted(i, r), UNCHANGED <<opt, plan, where>>
      PROVE  RequestInv'
  <2>1. /\ Slots' = Slots /\ opt' = opt /\ requests' = requests + 1
        /\ phase = "send" /\ phase' = "send"
    BY <1>7, SameBatch DEF Attempted, where
  <2>2. Underway' = Underway \ {i} /\ i \in Underway
    BY <1>7, <2>1, UnderwayCloses DEF Attempted, Close, Underway
  <2>3. Cardinality(Underway') = Cardinality(Underway) - 1 /\ Cardinality(Underway') \in Nat
    BY <1>0, <2>2, FS_RemoveElement, FS_CardinalityType
  <2> QED
    BY <1>0, <2>1, <2>3 DEF RequestInv
<1>8. ASSUME NEW i \in Slots, RecordFailed(i) PROVE RequestInv'
  BY <1>7, <1>8 DEF RecordFailed
<1>9. ASSUME NEW i \in Slots, RecordAnswered(i) PROVE RequestInv'
  <2>1. (\E r : Attempted(i, r)) /\ UNCHANGED <<opt, plan, where>>
    BY <1>9 DEF RecordAnswered
  <2> QED
    BY <1>7, <2>1
<1>10. ASSUME NextBatch PROVE RequestInv'
  BY <1>10 DEF NextBatch, NewBatch, RequestInv, session
<1>11. ASSUME EndRun PROVE RequestInv'
  BY <1>11 DEF EndRun, RequestInv, session
<1>12. ASSUME NEW s \in States, NEW q \in Questions, Expire(s, q) PROVE RequestInv'
  BY <1>12, SameBatch DEF Expire, RequestInv, Underway, where, slots, session
<1>13. ASSUME UNCHANGED vars PROVE RequestInv'
  BY <1>13, SameBatch DEF RequestInv, Underway, vars, where, slots, session
<1> QED
  BY <1>1, <1>2, <1>3, <1>4, <1>5, <1>6, <1>8, <1>9, <1>10, <1>11, <1>12, <1>13
     DEF Next, AllOver

(* No more requests are sent than the check allows, whatever its batches   *)
(* ask and however their outcomes are ordered (hold_to_budget).            *)
THEOREM RequestBudgetHeld == Spec => []RequestsHeld
<1>1. TypeOK /\ RequestInv => RequestsHeld
  BY DEF RequestInv, RequestsHeld
<1> QED
  BY <1>1, InitType, StepType, InitRequests, StepRequests, PTL DEF Spec

-----------------------------------------------------------------------------
(* The budget in dollars *)

(* Without reuse, what was sent is what was priced, and a request of this  *)
(* batch is priced only once it is no longer queued.                       *)
SpendInv ==
  /\ buffer = batch
  /\ cost = spent /\ spent <= opt.budget
  /\ \A a \in priced : a[1] <= batch
  /\ \A i \in Slots : Priced(i) => phase # "look" /\ (phase = "send" => stage[i] # "queued")

SpendApart == "reuse" \notin env => SpendInv

LEMMA InitSpend == Init => SpendApart
  BY OptionType DEF Init, SpendApart, SpendInv, Priced

LEMMA StepSpend == TypeOK /\ SpendApart /\ [Next]_vars => SpendApart'
<1> SUFFICES ASSUME TypeOK, SpendApart, [Next]_vars, "reuse" \notin env', env' = env
             PROVE  SpendInv'
  <2>1. [Next]_vars => env' = env
    BY DEF Next, vars, StartRun, LookUp, LookAgain, Hold, Before, RecordSkipped,
           RecordFailed, RecordAnswered, NextBatch, EndRun, Expire, AllOver
  <2> QED
    BY <2>1 DEF SpendApart
<1>0. SpendInv /\ spent \in Nat /\ cost \in Nat /\ opt.budget \in Nat
  BY OptionType DEF TypeOK, SpendApart
<1>1. ASSUME NEW o \in Options, NEW p \in Plans, StartRun(o, p) PROVE SpendInv'
  BY <1>1, OptionType DEF StartRun, NewBatch, SpendInv, Priced
<1>2. ASSUME UNCHANGED <<opt, plan, batch, buffer, money, cost>>,
             \A i \in Slots : Priced(i) => \/ phase' = "off"
                                           \/ phase' = "send" /\ stage'[i] # "queued"
      PROVE  SpendInv'
  BY <1>0, <1>2, SameBatch DEF SpendInv, Priced, Address, money
<1>3. ASSUME LookUp \/ LookAgain PROVE SpendInv'
  BY <1>0, <1>2, <1>3
     DEF LookUp, LookAgain, SpendInv, slots, session, money, history
<1>4. ASSUME Hold PROVE SpendInv'
  <2>1. phase = "look" /\ UNCHANGED <<opt, plan, batch, buffer, money, cost>>
    BY <1>4 DEF Hold
  <2>2. \A i \in Slots : ~Priced(i)
    BY <1>0, <2>1 DEF SpendInv
  <2> QED
    BY <1>2, <2>1, <2>2
<1>5. ASSUME NEW i \in Slots, Before(i) PROVE SpendInv'
  <2>1. /\ phase = "send" /\ phase' = "send" /\ stage[i] = "queued"
        /\ UNCHANGED <<opt, plan, batch, buffer>>
    BY <1>5 DEF Before, where
  <2>2. ~Priced(i)
    BY <1>0, <2>1 DEF SpendInv
  <2>3. CASE /\ spent + Price(i) <= opt.budget
             /\ stage' = [stage EXCEPT ![i] = "sent"]
             /\ spent' = spent + Price(i) /\ cost' = cost + Price(i)
             /\ priced' = priced \cup {Address(i)}
    <3>1. cost' = spent' /\ spent' <= opt'.budget /\ buffer' = batch'
      BY <1>0, <2>1, <2>3 DEF SpendInv
    <3>2. \A a \in priced' : a[1] <= batch'
      <4>1. Address(i)[1] = batch /\ batch \in Nat
        BY <1>0, PlanType DEF Address, SpendInv, TypeOK
      <4> QED
        BY <1>0, <2>1, <2>3, <4>1 DEF SpendInv
    <3>3. \A j \in Slots' : Priced(j)' => stage'[j] # "queued"
      <4>1. Slots' = Slots /\ \A j \in Slots : Address(j)' = Address(j)
        BY <2>1, SameBatch DEF Address
      <4>2. \A j \in Slots : Priced(j)' => Priced(j) \/ j = i
        BY <2>3, <4>1 DEF Priced, Address
      <4> QED
        BY <1>0, <2>1, <2>3, <4>1, <4>2 DEF SpendInv, TypeOK
    <3> QED
      BY <2>1, <3>1, <3>2, <3>3 DEF SpendInv
  <2>4. CASE stage' = [stage EXCEPT ![i] = "refused"] /\ UNCHANGED <<money, cost>>
    <3>1. \A j \in Slots : Priced(j) => stage'[j] # "queued"
      BY <1>0, <2>1, <2>4 DEF SpendInv, TypeOK
    <3> QED
      BY <1>2, <2>1, <2>4, <3>1
  <2> QED
    BY <1>5, <2>2, <2>3, <2>4 DEF Before
<1>6. ASSUME NEW i \in Slots, NEW r, Close(i, r), phase = "send",
             UNCHANGED <<opt, plan, where, money, cost>>
      PROVE  SpendInv'
  <2>1. \A j \in Slots : Priced(j) => phase' = "send" /\ stage'[j] # "queued"
    BY <1>0, <1>6 DEF Close, SpendInv, TypeOK, where
  <2> QED
    BY <1>2, <1>6, <2>1 DEF where
<1>7. ASSUME NEW i \in Slots, RecordSkipped(i) PROVE SpendInv'
  BY <1>6, <1>7 DEF RecordSkipped, history
<1>8. ASSUME NEW i \in Slots, RecordFailed(i) PROVE SpendInv'
  BY <1>6, <1>8 DEF RecordFailed, Attempted
<1>9. ASSUME NEW i \in Slots, RecordAnswered(i) PROVE SpendInv'
  <2>1. (\E r : Attempted(i, r)) /\ UNCHANGED <<opt, plan, where, money, cost>>
    BY <1>9 DEF RecordAnswered
  <2> QED
    BY <1>6, <2>1 DEF Attempted
<1>10. ASSUME NextBatch PROVE SpendInv'
  <2>1. /\ batch' = batch + 1 /\ buffer' = batch + 1 /\ batch \in Nat
        /\ phase' = "look" /\ UNCHANGED <<opt, money, cost>>
    BY <1>10, PlanType DEF NextBatch, NewBatch, TypeOK
  <2>2. \A a \in priced : a[1] <= batch /\ a[1] \in Nat
    BY <1>0 DEF SpendInv, TypeOK
  <2>3. \A i \in Slots' : ~Priced(i)'
    <3> SUFFICES ASSUME NEW i \in Slots', Priced(i)' PROVE FALSE
      OBVIOUS
    <3>1. <<batch + 1, i>> \in priced
      BY <2>1 DEF Priced, Address, money
    <3> QED
      BY <2>1, <2>2, <3>1
  <2>4. \A a \in priced' : a[1] <= batch'
    BY <2>1, <2>2 DEF money
  <2> QED
    BY <1>0, <2>1, <2>3, <2>4 DEF SpendInv, money
<1>11. ASSUME EndRun PROVE SpendInv'
  BY <1>2, <1>11 DEF EndRun, money, history
<1>12. ASSUME UNCHANGED <<opt, plan, phase, batch, buffer, stage, money, cost>>
       PROVE  SpendInv'
  BY <1>0, <1>12, SameBatch DEF SpendInv, Priced, Address, money
<1>13. ASSUME NEW s \in States, NEW q \in Questions, Expire(s, q) PROVE SpendInv'
  BY <1>12, <1>13 DEF Expire, where, slots, history
<1>14. ASSUME UNCHANGED vars PROVE SpendInv'
  BY <1>12, <1>14 DEF vars, where, slots, history
<1> QED
  BY <1>1, <1>3, <1>4, <1>5, <1>7, <1>8, <1>9, <1>10, <1>11, <1>13, <1>14
     DEF Next, AllOver

(* The price of what a check sends stays within its budget for any prices  *)
(* and orders of sends, as long as no request lies at the address of an    *)
(* earlier one (Spend::charge).                                            *)
THEOREM SpendHeldApart == Spec => []SpendHoldsApart
<1>1. TypeOK /\ SpendApart => SpendHoldsApart
  BY DEF SpendApart, SpendInv, SpendHoldsApart, SpendHolds
<1> QED
  BY <1>1, InitType, StepType, InitSpend, StepSpend, PTL DEF Spec
-----------------------------------------------------------------------------
(* A check that refreshes *)

(* What answers hold of a request was answered by this check. *)
Anew(i, f) == Keys(Batch[i].state, Held(f)) \subseteq answered

RefreshInv ==
  opt.refresh /\ phase # "off" =>
    \A i \in Slots : /\ phase = "look" => stage[i] # "done"
                     /\ stage[i] # "done" => Anew(i, found[i])
                     /\ receipt[i] \notin {None, Error} => Anew(i, receipt[i])

LEMMA HeldJoin ==
  ASSUME NEW f, NEW g
  PROVE  Held(Join(f, g)) \subseteq Held(f) \cup Held(g)
  BY DEF Held, Join

LEMMA NothingHeld == Held(Nothing) = {}
  BY DEF Held, Nothing

(* Keys of more answers are the keys of each. *)
LEMMA AnewJoin ==
  ASSUME NEW i, NEW f, NEW g, Anew(i, f), Anew(i, g)
  PROVE  Anew(i, Join(f, g))
  BY HeldJoin DEF Anew, Keys

LEMMA AnewNothing == \A i : Anew(i, Nothing)
  BY NothingHeld DEF Anew, Keys

(* A new batch starts with nothing. *)
LEMMA NewBatchAnew ==
  ASSUME NEW p \in Plans, NEW b \in DOMAIN p, plan' = p, NewBatch(p, b)
  PROVE  RefreshInv'
<1>1. Batch' = p[b] /\ Slots' = DOMAIN p[b]
  BY DEF NewBatch, Batch, Slots
<1>2. \A i \in Slots' : found'[i] = Nothing /\ stage'[i] = "planned" /\ receipt'[i] = None
  BY <1>1 DEF NewBatch
<1>3. \A i \in Slots' : Anew(i, found[i])'
  BY <1>2, NothingHeld DEF Anew, Keys
<1> QED
  BY <1>2, <1>3 DEF RefreshInv

(* A step that leaves the requests as they are, and only adds to what was  *)
(* answered.                                                               *)
LEMMA AnewKept ==
  ASSUME RefreshInv, UNCHANGED <<opt, plan, batch, slots>>, answered \subseteq answered',
         phase' = phase \/ phase' = "off"
  PROVE  RefreshInv'
  BY SameBatch DEF RefreshInv, Anew, slots

LEMMA InitRefresh == Init => RefreshInv
  BY DEF Init, RefreshInv

LEMMA StepRefresh == TypeOK /\ RefreshInv /\ [Next]_vars => RefreshInv'
<1> SUFFICES ASSUME TypeOK, RefreshInv, [Next]_vars PROVE RefreshInv'
  OBVIOUS
<1>1. ASSUME NEW o \in Options, NEW p \in Plans, StartRun(o, p) PROVE RefreshInv'
  <2>1. 1 \in DOMAIN p /\ plan' = p /\ NewBatch(p, 1)
    BY <1>1, PlanType DEF StartRun
  <2> QED
    BY <2>1, NewBatchAnew
<1>2. ASSUME LookUp PROVE RefreshInv'
  <2> DEFINE r == Batch[at]
             f == Found(r)
             c == Carried(r, f)
  <2>1. /\ at \in Slots /\ phase = "look" /\ r \in Request
        /\ UNCHANGED <<opt, plan, phase, batch, stage, receipt, answered>>
    BY <1>2, BatchType DEF LookUp, session
  <2>2. ASSUME opt.refresh PROVE Anew(at, Join(f, c))
    <3>1. c = Nothing
      BY <2>2 DEF Carried
    <3>2. \A q \in Held(f) : <<r.state, q>> \in answered
      BY <2>2 DEF Held, Found, Readable
    <3>3. Anew(at, f)
      BY <3>2 DEF Anew, Keys
    <3> QED
      BY <3>1, <3>3, AnewNothing, AnewJoin
  <2>3. found' = found \/ found' = [found EXCEPT ![at] = Join(f, c)]
    BY <1>2 DEF LookUp
  <2> HIDE DEF r, f, c
  <2>4. ASSUME opt.refresh, NEW i \in Slots PROVE Anew(i, found'[i])
    <3>1. Anew(i, found[i])
      BY <2>1, <2>4 DEF RefreshInv
    <3> QED
      BY <2>2, <2>3, <2>4, <3>1 DEF TypeOK
  <2> QED
    BY <2>1, <2>4, SameBatch DEF RefreshInv, Anew
<1>3. ASSUME LookAgain PROVE RefreshInv'
  BY <1>3, AnewKept DEF LookAgain, session
<1>4. ASSUME Hold PROVE RefreshInv'
  <2>1. /\ phase = "look" /\ phase' = "send"
        /\ UNCHANGED <<opt, plan, batch, found, answered>>
    BY <1>4 DEF Hold
  <2>2. \A i \in Slots : receipt'[i] \in {None, Error, found[i]}
    BY <1>4 DEF Hold
  <2>3. opt.refresh => \A i \in Slots : Anew(i, found[i])
    BY <2>1 DEF RefreshInv
  <2> QED
    BY <2>1, <2>2, <2>3, SameBatch DEF RefreshInv, Anew
(* A request of the batch goes on or is closed; the answers to it may grow *)
(* with what is answered.                                                  *)
<1>5. ASSUME NEW i \in Slots, NEW st \in Stages, NEW r, NEW f, phase = "send",
             UNCHANGED <<opt, plan, phase, batch>>,
             stage' = [stage EXCEPT ![i] = st],
             found' = [found EXCEPT ![i] = f],
             receipt' = [receipt EXCEPT ![i] = r],
             answered \subseteq answered',
             opt.refresh => (st # "done" => Keys(Batch[i].state, Held(f)) \subseteq answered'),
             opt.refresh => (r \notin {None, Error} =>
                               Keys(Batch[i].state, Held(r)) \subseteq answered')
      PROVE  RefreshInv'
  <2>1. Batch' = Batch /\ Slots' = Slots
    BY <1>5, SameBatch
  <2>2. ASSUME opt.refresh, NEW j \in Slots, j # i
        PROVE  /\ stage'[j] # "done" => Anew(j, found[j])'
               /\ receipt'[j] \notin {None, Error} => Anew(j, receipt[j])'
    <3>1. stage'[j] = stage[j] /\ found'[j] = found[j] /\ receipt'[j] = receipt[j]
      BY <1>5, <2>2 DEF TypeOK
    <3> QED
      BY <1>5, <2>1, <2>2, <3>1 DEF RefreshInv, Anew
  <2>3. stage'[i] = st /\ found'[i] = f /\ receipt'[i] = r
    BY <1>5 DEF TypeOK
  <2> QED
    BY <1>5, <2>1, <2>2, <2>3 DEF RefreshInv, Anew
<1>6. ASSUME NEW i \in Slots, Before(i) PROVE RefreshInv'
  <2>1. /\ phase = "send" /\ stage[i] = "queued"
        /\ UNCHANGED <<opt, plan, phase, batch, found, receipt, answered>>
    BY <1>6 DEF Before, where, session
  <2>2. PICK st \in Stages : stage' = [stage EXCEPT ![i] = st]
    BY <1>6 DEF Before, Stages
  <2>3. /\ found' = [found EXCEPT ![i] = found[i]]
        /\ receipt' = [receipt EXCEPT ![i] = receipt[i]]
    BY <2>1 DEF TypeOK
  <2>4. opt.refresh => /\ Anew(i, found[i])
                       /\ receipt[i] \notin {None, Error} => Anew(i, receipt[i])
    BY <2>1 DEF RefreshInv
  <2> QED
    BY <1>5, <2>1, <2>2, <2>3, <2>4, SameBatch DEF Anew
<1>7. ASSUME NEW i \in Slots, RecordSkipped(i) \/ RecordFailed(i) PROVE RefreshInv'
  <2>1. /\ phase = "send" /\ Close(i, Error)
        /\ UNCHANGED <<opt, plan, phase, batch, found, answered>>
    BY <1>7 DEF RecordSkipped, RecordFailed, Attempted, where, session
  <2>2. found' = [found EXCEPT ![i] = found[i]] /\ "done" \in Stages
    BY <2>1 DEF TypeOK, Stages
  <2> QED
    BY <1>5, <2>1, <2>2 DEF Close
<1>8. ASSUME NEW i \in Slots, RecordAnswered(i) PROVE RefreshInv'
  <2> DEFINE s == Batch[i].state
             earlier == EarlierAnswers(i)
  <2> HIDE DEF earlier
  <2>1. PICK v \in [Missing(i) -> Values] :
          LET fresh  == [q \in Questions |-> IF q \in Missing(i) /\ earlier[q] = None
                                               THEN v[q] ELSE None]
              joined == Join(found[i], Join(earlier, fresh))
          IN /\ \/ /\ answered' = answered \cup Keys(s, Held(fresh))
                   /\ Attempted(i, joined)
                \/ /\ Attempted(i, Error)
                   /\ UNCHANGED answered
             /\ found' = [found EXCEPT ![i] = joined]
             /\ UNCHANGED <<opt, plan, where>>
    BY <1>8 DEF RecordAnswered, earlier
  <2> DEFINE fresh  == [q \in Questions |-> IF q \in Missing(i) /\ earlier[q] = None
                                              THEN v[q] ELSE None]
             joined == Join(found[i], Join(earlier, fresh))
  <2> HIDE DEF fresh, joined
  <2>2. /\ phase = "send" /\ stage[i] = "sent" /\ "done" \in Stages
        /\ UNCHANGED <<opt, plan, phase, batch>>
    BY <2>1 DEF Attempted, where, Stages
  <2>3. opt.refresh => Anew(i, found[i])
    BY <2>2 DEF RefreshInv
  <2>4. Anew(i, earlier)
    BY DEF earlier, EarlierAnswers, Anew, Keys, Held
  <2>5. CASE /\ answered' = answered \cup Keys(s, Held(fresh))
             /\ Attempted(i, joined)
    <3>1. Keys(s, Held(joined))
            \subseteq Keys(s, Held(found[i])) \cup Keys(s, Held(earlier)) \cup Keys(s, Held(fresh))
      BY HeldJoin DEF joined, Keys
    <3>2. opt.refresh => Keys(s, Held(joined)) \subseteq answered'
      BY <2>3, <2>4, <2>5, <3>1 DEF Anew
    <3>3. found' = [found EXCEPT ![i] = joined]
      BY <2>1 DEF fresh, joined
    <3>4. /\ stage' = [stage EXCEPT ![i] = "done"]
          /\ receipt' = [receipt EXCEPT ![i] = joined]
          /\ answered \subseteq answered'
      BY <2>5 DEF Attempted, Close
    <3> QED
      BY <1>5, <2>2, <3>2, <3>3, <3>4
  <2>6. CASE Attempted(i, Error) /\ UNCHANGED answered
    <3>1. found' = [found EXCEPT ![i] = joined]
      BY <2>1 DEF fresh, joined
    <3> QED
      BY <1>5, <2>2, <2>6, <3>1 DEF Attempted, Close
  <2> QED
    BY <2>1, <2>5, <2>6 DEF fresh, joined
<1>9. ASSUME NextBatch PROVE RefreshInv'
  <2>1. batch + 1 \in DOMAIN plan /\ plan' = plan /\ plan \in Plans
    BY <1>9, PlanType DEF NextBatch, TypeOK
  <2> QED
    BY <1>9, <2>1, NewBatchAnew DEF NextBatch
<1>10. ASSUME EndRun PROVE RefreshInv'
  BY <1>10 DEF EndRun, RefreshInv
<1>11. ASSUME NEW s \in States, NEW q \in Questions, Expire(s, q) PROVE RefreshInv'
  BY <1>11, AnewKept DEF Expire, where, session
<1>12. ASSUME UNCHANGED vars PROVE RefreshInv'
  BY <1>12, AnewKept DEF vars, where, session
<1> QED
  BY <1>1, <1>2, <1>3, <1>4, <1>6, <1>7, <1>8, <1>9, <1>10, <1>11, <1>12 DEF Next, AllOver

(* With --refresh, whatever the cache held and however a check's batches   *)
(* overlap, a receipt gives only what the provider told this check         *)
(* (Lookup::new: "only the answers this invocation gave").                 *)
THEOREM AnsweredAnew == Spec => []RefreshedAnew
<1>1. RefreshInv => RefreshedAnew
  BY DEF RefreshInv, RefreshedAnew, Anew
<1> QED
  BY <1>1, InitType, StepType, InitRefresh, StepRefresh, PTL DEF Spec

-----------------------------------------------------------------------------
(* Answers that last *)

(* What earlier versions' entries say of a request: all that is carried. *)
Entered(r) ==
  LET entry(qs) == {w \in Whole : w.state = r.state /\ Held(w.answers) = qs}
      first(ws) == IF ws = {} THEN Nothing ELSE (CHOOSE w \in ws : TRUE).answers
  IN Join(first(entry(r.asks \ Custom)), first(entry(r.asks)))

Kept(s, q) == cache[s][q] # None

(* Every key this check answered, a receipt answered or a batch need not   *)
(* ask for is kept, and what receipts gave is what is kept.                *)
KeptInv ==
  /\ \A s \in States : expired[s] = {}
  /\ \A s \in States, q \in Questions :
       <<s, q>> \in answered \cup bought \cup owned => Kept(s, q)
  /\ \A s \in States, q \in Questions, v \in Values :
       <<s, q, v>> \in given => cache[s][q] = v

(* With --refresh only this check's answers count as given. *)
OwnInv ==
  opt.refresh /\ phase # "off" =>
    \A s \in States, q \in Questions :
      <<s, q>> \in owned \cup KeysGiven(given) => <<s, q>> \in answered

LookedUp(i) == \/ phase = "look" /\ i < at
               \/ phase = "send" /\ stage[i] \in {"queued", "sent"}

(* An open request agrees with the cache. *)
Agrees(i) ==
  stage[i] # "done" =>
    \A q \in Questions : found[i][q] # None => found[i][q] = cache[Batch[i].state][q]

(* Once looked up it lacks nothing that is owned, *)
LacksNoneOwned(i) ==
  LookedUp(i) =>
    \A q \in Batch[i].asks : <<Batch[i].state, q>> \in owned => found[i][q] # None

(* nor, in the last look-up, anything kept but what this check answered    *)
(* since.                                                                  *)
LacksNoneKept(i) ==
  ~opt.refresh /\ LookedUp(i) /\ ~(phase = "look" /\ pass = 1 /\ copied) =>
    \A q \in Batch[i].asks :
      Kept(Batch[i].state, q) =>
        \/ found[i][q] # None
        \/ phase = "send" /\ <<Batch[i].state, q>> \in answered

(* After the first look-up nothing is left to carry. *)
NoneToCarry(i) ==
  ~opt.refresh /\ phase = "look" /\ (i < at \/ pass = 2) =>
    \A q \in Batch[i].asks : Entered(Batch[i])[q] # None => Kept(Batch[i].state, q)

BatchInv ==
  \A i \in Slots : /\ phase = "look" => stage[i] # "done"
                   /\ Agrees(i) /\ LacksNoneOwned(i) /\ LacksNoneKept(i) /\ NoneToCarry(i)

LastingInv == Lasting => KeptInv /\ OwnInv /\ BatchInv

-----------------------------------------------------------------------------
(* Nothing is read but what the file holds. *)
LEMMA CurrentKept ==
  ASSUME Lasting, KeptInv, TypeOK, NEW s \in States
  PROVE  FileOf(s) = cache[s] /\ Current(s) = cache[s]
<1>1. FileOf(s) = cache[s]
  BY DEF FileOf, Tracked, Lasting
<1>2. cache[s] \in Answers /\ expired[s] = {}
  BY DEF TypeOK, KeptInv
<1>3. Current(s) = [q \in Questions |-> cache[s][q]]
  BY <1>1, <1>2 DEF Current
<1> QED
  BY <1>1, <1>2, <1>3 DEF Answers

(* A save adds to what is kept. *)
LEMMA SaveKept ==
  ASSUME Lasting, KeptInv, TypeOK, NEW s \in States, NEW new \in Answers,
         SaveAnswers(s, new)
  PROVE  /\ \A t \in States : expired'[t] = {}
         /\ \A t \in States, q \in Questions :
              cache'[t][q] = IF t = s /\ new[q] # None THEN new[q] ELSE cache[t][q]
<1>1. PICK kept \in {Join(cache[s], new)} :
        /\ cache' = [cache EXCEPT ![s] = kept]
        /\ expired' = [expired EXCEPT ![s] = (@ \ Held(new)) \cap Held(kept)]
  BY CurrentKept DEF SaveAnswers, Merged, Lasting
<1>2. \A q \in Questions : kept[q] = IF new[q] # None THEN new[q] ELSE cache[s][q]
  BY <1>1 DEF Join
<1> QED
  BY <1>1, <1>2 DEF TypeOK, KeptInv

LEMMA CarriedIs ==
  ASSUME Lasting, NEW r, NEW f
  PROVE  Carried(r, f) = IF opt.refresh THEN Nothing
                         ELSE [q \in Questions |-> IF q \in r.asks /\ f[q] = None
                                                     THEN Entered(r)[q] ELSE None]
<1>1. Whole \ Tracked = Whole
  BY DEF Tracked, Lasting
<1> QED
  BY <1>1 DEF Carried, Entered

LEMMA AnswersEqual ==
  ASSUME NEW f \in Answers, \A q \in Questions : f[q] = None
  PROVE  f = Nothing
  BY DEF Answers, Nothing

LEMMA InitLasting == Init => LastingInv
<1> SUFFICES ASSUME Init PROVE KeptInv /\ OwnInv /\ BatchInv
  BY DEF LastingInv
<1>1. KeptInv /\ OwnInv
  BY DEF Init, KeptInv, OwnInv
<1>2. \A i \in Slots : found[i] = Nothing /\ phase = "off"
  BY DEF Init
<1> QED
  BY <1>1, <1>2
     DEF BatchInv, Agrees, LacksNoneOwned, LacksNoneKept, NoneToCarry, LookedUp, Nothing

(* A new batch starts with nothing looked up. *)
LEMMA NewBatchLasting ==
  ASSUME NEW p \in Plans, NEW b \in DOMAIN p, plan' = p, NewBatch(p, b)
  PROVE  BatchInv'
<1>1. Batch' = p[b] /\ Slots' = DOMAIN p[b] /\ Slots' \subseteq Nat \ {0}
  BY PlanType DEF NewBatch, Batch, Slots
<1>2. \A i \in Slots' : found'[i] = Nothing /\ stage'[i] = "planned" /\ ~(i < 1)
  BY <1>1 DEF NewBatch
<1>3. phase' = "look" /\ at' = 1 /\ pass' = 1
  BY DEF NewBatch
<1> QED
  BY <1>2, <1>3
     DEF BatchInv, Agrees, LacksNoneOwned, LacksNoneKept, NoneToCarry, LookedUp, Nothing

(* A step that leaves the files and the requests as they are. *)
LEMMA LastingKept ==
  ASSUME LastingInv,
         UNCHANGED <<env, files, opt, plan, batch, pass, at, copied, slots, answered,
                     given, bought, owned>>,
         phase' = phase \/ phase' = "off"
  PROVE  LastingInv'
<1> SUFFICES ASSUME Lasting PROVE KeptInv' /\ OwnInv' /\ BatchInv'
  BY DEF LastingInv, Lasting
<1>1. Batch' = Batch /\ Slots' = Slots
  BY SameBatch
<1>2. KeptInv'
  BY DEF LastingInv, KeptInv, Kept, files
<1>3. OwnInv'
  BY DEF LastingInv, OwnInv, KeysGiven
<1>4. ASSUME NEW i \in Slots
      PROVE  /\ phase' = "look" => stage'[i] # "done"
             /\ Agrees(i)' /\ LacksNoneOwned(i)' /\ LacksNoneKept(i)' /\ NoneToCarry(i)'
  <2>1. /\ phase = "look" => stage[i] # "done"
        /\ Agrees(i) /\ LacksNoneOwned(i) /\ LacksNoneKept(i) /\ NoneToCarry(i)
    BY DEF LastingInv, BatchInv
  <2>2. CASE phase' = phase
    <3>1. Agrees(i)'
      BY <1>1, <2>1, <2>2 DEF Agrees, files, slots
    <3>2. LacksNoneOwned(i)' /\ LacksNoneKept(i)'
      BY <1>1, <2>1, <2>2 DEF LacksNoneOwned, LacksNoneKept, LookedUp, Kept, files, slots
    <3>3. NoneToCarry(i)'
      BY <1>1, <2>1, <2>2 DEF NoneToCarry, Kept, Entered, files
    <3> QED
      BY <2>1, <2>2, <3>1, <3>2, <3>3 DEF slots
  <2>3. CASE phase' = "off"
    BY <1>1, <2>1, <2>3 DEF Agrees, LacksNoneOwned, LacksNoneKept, NoneToCarry, LookedUp,
                            files, slots
  <2> QED
    BY <2>2, <2>3
<1> QED
  BY <1>1, <1>2, <1>3, <1>4 DEF BatchInv

(* One look-up: what it reads and carries agrees with what is kept.        *)
LEMMA LookUpLasting ==
  ASSUME TypeOK, Lasting, KeptInv, OwnInv, BatchInv, LookUp
  PROVE  KeptInv' /\ OwnInv' /\ BatchInv'
<1> DEFINE r == Batch[at]
           s == r.state
           f == Found(r)
           c == Carried(r, f)
<1>1. /\ at \in Slots /\ phase = "look" /\ at' = at + 1 /\ at \in Nat
      /\ r \in Request /\ s \in States /\ r.asks \subseteq Questions
      /\ UNCHANGED <<env, opt, plan, phase, batch, pass, stage, answered, given, bought,
                     owned>>
  BY BatchType DEF LookUp, session, history, Request
<1>2. f \in Answers /\ c \in Answers
  BY <1>1, FoundType, CarriedType
<1>3. \A q \in Questions :
        f[q] = IF q \in r.asks /\ Readable(s, q) THEN cache[s][q] ELSE None
  BY <1>1, CurrentKept DEF Found
<1>4. /\ opt.refresh => c = Nothing
      /\ ~opt.refresh => \A q \in Questions :
           c[q] = IF q \in r.asks /\ f[q] = None THEN Entered(r)[q] ELSE None
  BY CarriedIs
<1> HIDE DEF f, c
(* What is carried was not kept: a save changes nothing that was.          *)
<1>5. \A q \in Questions : c[q] # None => q \in r.asks /\ cache[s][q] = None
  <2>1. CASE opt.refresh
    BY <1>4, <2>1 DEF Nothing
  <2>2. CASE ~opt.refresh
    BY <1>3, <1>4, <2>2 DEF Readable
  <2> QED
    BY <2>1, <2>2
<1>6. CASE UNCHANGED <<found, copied, files>> /\ pass = 2 /\ Missing(at) = {}
  <2>1. KeptInv' /\ OwnInv'
    BY <1>1, <1>6 DEF KeptInv, OwnInv, Kept, KeysGiven, files
  <2>2. Batch' = Batch /\ Slots' = Slots /\ Slots \subseteq Nat
    BY <1>1, SameBatch, BatchType
  <2>3. \A q \in r.asks : found[at][q] # None
    BY <1>1, <1>6 DEF Missing, Held
  <2>4. ASSUME NEW i \in Slots
        PROVE  /\ stage'[i] # "done"
               /\ Agrees(i)' /\ LacksNoneOwned(i)' /\ LacksNoneKept(i)' /\ NoneToCarry(i)'
    <3>1. /\ stage[i] # "done"
          /\ Agrees(i) /\ LacksNoneOwned(i) /\ LacksNoneKept(i) /\ NoneToCarry(i)
      BY <1>1 DEF BatchInv
    <3>2. i < at' => i < at \/ i = at
      BY <1>1, <2>2
    <3>3. stage'[i] # "done" /\ Agrees(i)'
      BY <1>1, <1>6, <2>2, <3>1 DEF Agrees, files
    <3>4. NoneToCarry(i)'
      BY <1>1, <1>6, <2>2, <3>1 DEF NoneToCarry, Kept, Entered, files
    <3>5. LacksNoneOwned(i)'
      BY <1>1, <1>6, <2>2, <2>3, <3>1, <3>2 DEF LacksNoneOwned, LookedUp
    <3>6. LacksNoneKept(i)'
      BY <1>1, <1>6, <2>2, <2>3, <3>1, <3>2 DEF LacksNoneKept, LookedUp, Kept, files
    <3> QED
      BY <3>3, <3>4, <3>5, <3>6
  <2> QED
    BY <1>1, <2>1, <2>2, <2>4 DEF BatchInv
<1>7. CASE /\ found' = [found EXCEPT ![at] = Join(f, c)]
           /\ \/ c # Nothing /\ SaveAnswers(s, c) /\ copied' = TRUE
              \/ c = Nothing /\ UNCHANGED <<files, copied>>
  <2>1. /\ \A t \in States : expired'[t] = {}
        /\ \A t \in States, q \in Questions :
             cache'[t][q] = IF t = s /\ c[q] # None THEN c[q] ELSE cache[t][q]
    <3>1. CASE SaveAnswers(s, c)
      BY <1>1, <1>2, <3>1, SaveKept
    <3>2. CASE c = Nothing /\ UNCHANGED <<files, copied>>
      BY <3>2 DEF Nothing, files, KeptInv
    <3> QED
      BY <1>7, <3>1, <3>2
  <2>2. \A t \in States, q \in Questions : Kept(t, q) => cache'[t][q] = cache[t][q]
    BY <1>5, <2>1 DEF Kept
  <2>3. KeptInv'
    <3>1. \A t \in States, q \in Questions, v \in Values :
            <<t, q, v>> \in given => cache'[t][q] = v
      BY <2>2, RequestsAssumption DEF KeptInv, Kept
    <3>2. \A t \in States, q \in Questions :
            <<t, q>> \in answered \cup bought \cup owned => cache'[t][q] # None
      BY <2>2 DEF KeptInv, Kept
    <3> QED
      BY <1>1, <2>1, <3>1, <3>2 DEF KeptInv, Kept
  <2>4. OwnInv'
    BY <1>1 DEF OwnInv, KeysGiven
  <2>5. /\ Batch' = Batch /\ Slots' = Slots /\ Slots \subseteq Nat
        /\ \A i \in Slots : Batch[i].state \in States /\ Batch[i].asks \subseteq Questions
    BY <1>1, SameBatch, BatchType
  <2>6. /\ \A q \in Questions : found'[at][q] = IF c[q] # None THEN c[q] ELSE f[q]
        /\ \A i \in Slots : i # at => found'[i] = found[i]
    BY <1>1, <1>7 DEF TypeOK, Join
  (* The last look-up carries nothing: the first carried all there was.    *)
  <2>7. ~opt.refresh /\ pass = 2 => UNCHANGED <<files, copied>>
    <3> SUFFICES ASSUME ~opt.refresh, pass = 2 PROVE c = Nothing
      BY <1>7
    <3>1. \A q \in r.asks : Entered(r)[q] # None => Kept(s, q)
      BY <1>1 DEF BatchInv, NoneToCarry
    <3>2. \A q \in Questions : c[q] = None
      BY <1>3, <1>4, <3>1 DEF Readable, Kept
    <3> QED
      BY <1>2, <3>2, AnswersEqual
  <2>8. \A i \in Slots : stage'[i] # "done" /\ Agrees(i)'
    <3> SUFFICES ASSUME NEW i \in Slots
                 PROVE  stage'[i] # "done" /\ Agrees(i)'
      OBVIOUS
    <3>1. stage[i] # "done" /\ Agrees(i)
      BY <1>1 DEF BatchInv
    <3>2. CASE i = at
      <4>1. \A q \in Questions : found'[at][q] # None => found'[at][q] = cache'[s][q]
        BY <1>1, <1>3, <2>1, <2>6
      <4> QED
        BY <1>1, <2>5, <3>1, <3>2, <4>1 DEF Agrees
    <3>3. CASE i # at
      BY <1>1, <2>2, <2>5, <2>6, <3>1, <3>3 DEF Agrees, Kept
    <3> QED
      BY <3>2, <3>3
  <2>9. \A i \in Slots : LacksNoneOwned(i)'
    <3> SUFFICES ASSUME NEW i \in Slots PROVE LacksNoneOwned(i)'
      OBVIOUS
    <3>1. CASE i = at
      <4>1. \A q \in r.asks : <<s, q>> \in owned => f[q] # None
        BY <1>1, <1>3 DEF KeptInv, OwnInv, Kept, Readable
      <4> QED
        BY <1>1, <2>5, <2>6, <3>1, <4>1 DEF LacksNoneOwned
    <3>2. CASE i # at
      <4>1. LacksNoneOwned(i) /\ (i < at' => i < at)
        BY <1>1, <2>5, <3>2 DEF BatchInv
      <4> QED
        BY <1>1, <2>5, <2>6, <3>2, <4>1 DEF LacksNoneOwned, LookedUp
    <3> QED
      BY <3>1, <3>2
  <2>10. \A i \in Slots : LacksNoneKept(i)'
    <3> SUFFICES ASSUME NEW i \in Slots, ~opt.refresh, ~(pass = 1 /\ copied')
                 PROVE  LacksNoneKept(i)'
      BY <1>1, <2>5 DEF LacksNoneKept
    <3>1. UNCHANGED <<files, copied>>
      BY <1>7, <2>7 DEF TypeOK
    <3>2. CASE i = at
      <4>1. \A q \in r.asks : cache'[s][q] # None => found'[at][q] # None
        BY <1>1, <1>3, <2>6, <3>1 DEF Readable, files
      <4> QED
        BY <1>1, <2>5, <3>2, <4>1 DEF LacksNoneKept, Kept
    <3>3. CASE i # at
      <4>1. LacksNoneKept(i) /\ (i < at' => i < at)
        BY <1>1, <2>5, <3>3 DEF BatchInv
      <4> QED
        BY <1>1, <2>5, <2>6, <3>1, <3>3, <4>1 DEF LacksNoneKept, LookedUp, Kept, files
    <3> QED
      BY <3>2, <3>3
  <2>11. \A i \in Slots : NoneToCarry(i)'
    <3> SUFFICES ASSUME NEW i \in Slots, ~opt.refresh PROVE NoneToCarry(i)'
      BY <1>1, <2>5 DEF NoneToCarry
    <3>0. Entered(Batch[i])' = Entered(Batch[i])
      BY <2>5 DEF Entered
    <3>1. CASE i = at
      <4>1. \A q \in r.asks : Entered(r)[q] # None => cache'[s][q] # None
        BY <1>1, <1>3, <1>4, <2>1
      <4> QED
        BY <2>5, <3>0, <3>1, <4>1 DEF NoneToCarry, Kept
    <3>2. CASE i # at
      <4>1. NoneToCarry(i) /\ (i < at' => i < at)
        BY <1>1, <2>5, <3>2 DEF BatchInv
      <4> QED
        BY <1>1, <2>2, <2>5, <3>0, <4>1 DEF NoneToCarry, Kept
    <3> QED
      BY <3>1, <3>2
  <2> QED
    BY <2>3, <2>4, <2>5, <2>8, <2>9, <2>10, <2>11 DEF BatchInv
<1> QED
  BY <1>6, <1>7 DEF LookUp, Lasting, f, c

(* Held to the budget: what is given was found, and agrees with the cache. *)
LEMMA HoldLasting ==
  ASSUME TypeOK, RefreshInv, Lasting, KeptInv, OwnInv, BatchInv, Hold
  PROVE  KeptInv' /\ OwnInv' /\ BatchInv'
<1> DEFINE lacking == {i \in Slots : Missing(i) # {}}
<1>1. /\ phase = "look" /\ at \notin Slots /\ ~(pass = 1 /\ copied) /\ phase' = "send"
      /\ \A i \in Slots : stage'[i] \in {"queued", "done"}
      /\ given' = given \cup UNION {Gives(Batch[i].state, found[i]) : i \in Slots \ lacking}
      /\ bought' = bought \cup UNION {Keys(Batch[i].state, Batch[i].asks) :
                                        i \in Slots \ lacking}
      /\ UNCHANGED <<env, files, opt, plan, batch, pass, at, copied, found, answered, owned>>
  BY DEF Hold, LooksAgain
<1>2. /\ Batch' = Batch /\ Slots' = Slots
      /\ \A i \in Slots : /\ i < at
                          /\ Batch[i].state \in States /\ Batch[i].asks \subseteq Questions
  BY <1>1, SameBatch, BatchType DEF TypeOK
<1>3. \A i \in Slots : /\ stage[i] # "done"
                       /\ Agrees(i) /\ LacksNoneOwned(i) /\ LacksNoneKept(i)
  BY <1>1 DEF BatchInv
<1>4. \A i \in Slots, q \in Questions :
        found[i][q] # None => found[i][q] = cache[Batch[i].state][q]
  BY <1>3 DEF Agrees
<1>5. KeptInv'
  <2>1. ASSUME NEW s \in States, NEW q \in Questions, NEW v \in Values,
               <<s, q, v>> \in given'
        PROVE  cache[s][q] = v
    <3>1. CASE <<s, q, v>> \in given
      BY <3>1 DEF KeptInv
    <3>2. CASE \E i \in Slots : <<s, q, v>> \in Gives(Batch[i].state, found[i])
      BY <1>4, <3>2 DEF Gives, Held
    <3> QED
      BY <1>1, <2>1, <3>1, <3>2
  <2>2. ASSUME NEW s \in States, NEW q \in Questions, <<s, q>> \in bought'
        PROVE  Kept(s, q)
    <3>1. CASE <<s, q>> \in bought
      BY <3>1 DEF KeptInv
    <3>2. CASE \E i \in Slots \ lacking : <<s, q>> \in Keys(Batch[i].state, Batch[i].asks)
      <4>1. PICK i \in Slots \ lacking : q \in Batch[i].asks /\ s = Batch[i].state
        BY <3>2 DEF Keys
      <4>2. found[i][q] # None
        BY <4>1 DEF Missing, Held
      <4> QED
        BY <1>4, <4>1, <4>2 DEF Kept
    <3> QED
      BY <1>1, <2>2, <3>1, <3>2
  <2> QED
    BY <1>1, <2>1, <2>2 DEF KeptInv, Kept, files
<1>6. OwnInv'
  <2> SUFFICES ASSUME opt.refresh, NEW s \in States, NEW q \in Questions,
                      <<s, q>> \in owned \cup KeysGiven(given')
               PROVE  <<s, q>> \in answered
    BY <1>1 DEF OwnInv, KeysGiven
  <2>1. CASE <<s, q>> \in owned \cup KeysGiven(given)
    BY <1>1, <2>1 DEF OwnInv
  <2>2. CASE \E i \in Slots : \E x \in Gives(Batch[i].state, found[i]) :
               s = x[1] /\ q = x[2]
    <3>1. PICK i \in Slots : \E x \in Gives(Batch[i].state, found[i]) :
                               s = x[1] /\ q = x[2]
      BY <2>2
    <3>2. s = Batch[i].state /\ q \in Held(found[i])
      BY <3>1 DEF Gives
    <3>3. Anew(i, found[i])
      BY <1>1, <1>3 DEF RefreshInv
    <3> QED
      BY <3>2, <3>3 DEF Anew, Keys
  <2>3. \/ <<s, q>> \in owned
        \/ \E x \in given' : s = x[1] /\ q = x[2]
    BY DEF KeysGiven
  <2> QED
    BY <1>1, <2>1, <2>2, <2>3 DEF KeysGiven
<1>7. BatchInv'
  BY <1>1, <1>2, <1>3
     DEF BatchInv, Agrees, LacksNoneOwned, LacksNoneKept, NoneToCarry, LookedUp, Kept, files
<1> QED
  BY <1>5, <1>6, <1>7

(* A request goes on or is closed and no answer comes.                     *)
LEMMA StageLasting ==
  ASSUME TypeOK, KeptInv, OwnInv, BatchInv, phase = "send",
         NEW i \in Slots, NEW st, stage' = [stage EXCEPT ![i] = st],
         (st \in {"sent", "refused"} /\ stage[i] = "queued") \/ st = "done",
         UNCHANGED <<env, files, opt, plan, where, found, answered, given, bought, owned>>
  PROVE  KeptInv' /\ OwnInv' /\ BatchInv'
<1>1. KeptInv' /\ OwnInv'
  BY DEF KeptInv, OwnInv, Kept, KeysGiven, files, where
<1>2. Batch' = Batch /\ Slots' = Slots
  BY SameBatch DEF where
<1>3. ASSUME NEW j \in Slots
      PROVE  /\ phase' # "look"
             /\ Agrees(j)' /\ LacksNoneOwned(j)' /\ LacksNoneKept(j)' /\ NoneToCarry(j)'
  <2>1. Agrees(j) /\ LacksNoneOwned(j) /\ LacksNoneKept(j)
    BY DEF BatchInv
  <2>2. /\ stage'[j] # "done" => stage[j] # "done"
        /\ stage'[j] \in {"queued", "sent"} => stage[j] \in {"queued", "sent"}
    BY DEF TypeOK
  <2>3. UNCHANGED <<phase, at, pass, copied>>
    BY DEF where
  <2> QED
    BY <1>2, <2>1, <2>2, <2>3
       DEF Agrees, LacksNoneOwned, LacksNoneKept, NoneToCarry, LookedUp, Kept, files
<1> QED
  BY <1>1, <1>2, <1>3 DEF BatchInv

(* An answer: what is asked for was not answered by this check, and is new *)
(* to the cache unless the check refreshes.                                *)
LEMMA AnswerLasting ==
  ASSUME TypeOK, RefreshInv, Lasting, KeptInv, OwnInv, BatchInv,
         NEW i \in Slots, RecordAnswered(i)
  PROVE  KeptInv' /\ OwnInv' /\ BatchInv'
<1> DEFINE s == Batch[i].state
           earlier == EarlierAnswers(i)
<1>1. PICK v \in [Missing(i) -> Values] :
        LET fresh  == [q \in Questions |-> IF q \in Missing(i) /\ earlier[q] = None
                                             THEN v[q] ELSE None]
            joined == Join(found[i], Join(earlier, fresh))
        IN /\ SaveAnswers(s, fresh)
           /\ answered' = answered \cup Keys(s, Held(fresh))
           /\ Attempted(i, joined)
           /\ given' = given \cup Gives(s, joined)
           /\ bought' = bought \cup Keys(s, Held(joined))
           /\ found' = [found EXCEPT ![i] = joined]
           /\ UNCHANGED <<env, opt, plan, where, owned>>
  BY DEF RecordAnswered, Lasting
<1> DEFINE fresh  == [q \in Questions |-> IF q \in Missing(i) /\ earlier[q] = None
                                            THEN v[q] ELSE None]
           joined == Join(found[i], Join(earlier, fresh))
<1>2. /\ s \in States /\ fresh \in Answers
      /\ \A q \in Questions : fresh[q] # None => q \in Missing(i)
  BY BatchType DEF Answers
<1>3. \A q \in Questions :
        earlier[q] = IF <<s, q>> \in answered /\ q \in Missing(i) THEN cache[s][q] ELSE None
  BY <1>2, CurrentKept DEF EarlierAnswers
<1>4. \A q \in Questions :
        joined[q] = IF fresh[q] # None THEN fresh[q]
                    ELSE IF earlier[q] # None THEN earlier[q] ELSE found[i][q]
  BY DEF Join
<1>5. \A q \in Questions : fresh[q] # None => <<s, q>> \notin answered
  <2>1. \A q \in Questions : <<s, q>> \in answered => cache[s][q] # None
    BY <1>2 DEF KeptInv, Kept
  <2>2. \A q \in Questions : fresh[q] # None => q \in Missing(i) /\ earlier[q] = None
    OBVIOUS
  <2> HIDE DEF fresh, earlier
  <2> QED
    BY <1>3, <2>1, <2>2
<1>6. /\ SaveAnswers(s, fresh)
      /\ answered' = answered \cup Keys(s, Held(fresh))
      /\ phase = "send" /\ stage[i] = "sent"
      /\ stage' = [stage EXCEPT ![i] = "done"]
      /\ given' = given \cup Gives(s, joined)
      /\ bought' = bought \cup Keys(s, Held(joined))
      /\ found' = [found EXCEPT ![i] = joined]
      /\ UNCHANGED <<env, opt, plan, batch, pass, at, copied, phase, owned>>
  BY <1>1 DEF Attempted, Close, where
<1> HIDE DEF fresh, joined, earlier
<1>7. /\ \A t \in States : expired'[t] = {}
      /\ \A t \in States, q \in Questions :
           cache'[t][q] = IF t = s /\ fresh[q] # None THEN fresh[q] ELSE cache[t][q]
  BY <1>2, <1>6, SaveKept
<1>8. \A j \in Slots : /\ Agrees(j) /\ LacksNoneOwned(j) /\ LacksNoneKept(j)
                       /\ Batch[j].state \in States /\ Batch[j].asks \subseteq Questions
  BY BatchType DEF BatchInv
<1>9. ~opt.refresh => \A q \in Questions : fresh[q] # None => cache[s][q] = None
  <2> SUFFICES ASSUME ~opt.refresh, NEW q \in Questions, fresh[q] # None,
                      cache[s][q] # None
               PROVE  FALSE
    OBVIOUS
  <2>1. q \in Batch[i].asks /\ found[i][q] = None
    BY <1>2 DEF Missing, Held
  <2>2. LookedUp(i) /\ phase # "look"
    BY <1>6 DEF LookedUp
  <2> QED
    BY <1>5, <1>8, <2>1, <2>2 DEF LacksNoneKept, Kept
(* What was answered, or was kept before a check that does not refresh,    *)
(* stays as it was.                                                        *)
<1>10. \A t \in States, q \in Questions :
         /\ Kept(t, q) => cache'[t][q] # None
         /\ Kept(t, q) /\ (opt.refresh => <<t, q>> \in answered) =>
              cache'[t][q] = cache[t][q]
  BY <1>5, <1>7, <1>9 DEF Kept
<1>11. \A q \in Questions : joined[q] # None => joined[q] = cache'[s][q]
  <2>1. \A q \in Questions : found[i][q] # None => found[i][q] = cache[s][q]
    BY <1>6, <1>8 DEF Agrees
  <2> QED
    BY <1>2, <1>3, <1>4, <1>7, <2>1
<1>12. \A t \in States, q \in Questions :
         <<t, q>> \in answered' => cache'[t][q] # None
  <2>1. \A t \in States, q \in Questions : <<t, q>> \in answered => cache'[t][q] # None
    BY <1>10 DEF KeptInv
  <2>2. \A t \in States, q \in Questions :
          <<t, q>> \in Keys(s, Held(fresh)) => cache'[t][q] # None
    BY <1>7 DEF Keys, Held
  <2> QED
    BY <1>6, <2>1, <2>2
<1>13. \A q \in Questions : opt.refresh /\ joined[q] # None => <<s, q>> \in answered'
  <2>1. opt.refresh => \A q \in Questions : found[i][q] # None => <<s, q>> \in answered
    BY <1>6 DEF RefreshInv, Anew, Keys, Held
  <2>2. \A q \in Questions : fresh[q] # None => <<s, q>> \in answered'
    BY <1>6 DEF Keys, Held
  <2> QED
    BY <1>3, <1>4, <1>6, <2>1, <2>2
<1>14. KeptInv'
  <2>1. ASSUME NEW t \in States, NEW q \in Questions, NEW w \in Values,
               <<t, q, w>> \in given'
        PROVE  cache'[t][q] = w
    <3>1. CASE <<t, q, w>> \in given
      <4>1. cache[t][q] = w /\ w # None
        BY <3>1, RequestsAssumption DEF KeptInv
      <4>2. opt.refresh => <<t, q>> \in answered
        BY <1>6, <3>1 DEF OwnInv, KeysGiven
      <4> QED
        BY <1>10, <4>1, <4>2 DEF Kept
    <3>2. CASE <<t, q, w>> \in Gives(s, joined)
      BY <1>11, <3>2 DEF Gives, Held
    <3> QED
      BY <1>6, <2>1, <3>1, <3>2
  <2>2. ASSUME NEW t \in States, NEW q \in Questions, <<t, q>> \in bought' \cup owned'
        PROVE  cache'[t][q] # None
    <3>1. CASE <<t, q>> \in bought \cup owned
      BY <1>10, <3>1 DEF KeptInv
    <3>2. CASE <<t, q>> \in Keys(s, Held(joined))
      BY <1>11, <3>2 DEF Keys, Held
    <3> QED
      BY <1>6, <2>2, <3>1, <3>2
  <2> QED
    BY <1>7, <1>12, <2>1, <2>2 DEF KeptInv, Kept
<1>15. OwnInv'
  <2> SUFFICES ASSUME opt.refresh, NEW t \in States, NEW q \in Questions,
                      <<t, q>> \in owned \cup KeysGiven(given')
               PROVE  <<t, q>> \in answered'
    BY <1>6 DEF OwnInv, KeysGiven
  <2>1. CASE <<t, q>> \in owned \cup KeysGiven(given)
    BY <1>6, <2>1 DEF OwnInv
  <2>2. CASE \E x \in Gives(s, joined) : t = x[1] /\ q = x[2]
    BY <1>13, <2>2 DEF Gives, Held
  <2> QED
    BY <1>6, <2>1, <2>2 DEF KeysGiven
<1>16. BatchInv'
  <2>1. Batch' = Batch /\ Slots' = Slots
    BY <1>6, SameBatch
  <2>2. ASSUME NEW j \in Slots
        PROVE  Agrees(j)' /\ LacksNoneOwned(j)' /\ LacksNoneKept(j)' /\ NoneToCarry(j)'
    <3>1. CASE j = i
      <4>1. stage'[j] = "done" /\ phase' = "send"
        BY <1>6, <3>1 DEF TypeOK
      <4> QED
        BY <4>1 DEF Agrees, LacksNoneOwned, LacksNoneKept, NoneToCarry, LookedUp
    <3>2. CASE j # i
      <4>1. stage'[j] = stage[j] /\ found'[j] = found[j] /\ phase' = "send"
        BY <1>6, <3>2 DEF TypeOK
      <4>2. Agrees(j)'
        <5> SUFFICES ASSUME stage[j] # "done", NEW q \in Questions, found[j][q] # None
                     PROVE  found[j][q] = cache'[Batch[j].state][q]
          BY <2>1, <4>1 DEF Agrees
        <5>1. found[j][q] = cache[Batch[j].state][q]
          BY <1>8 DEF Agrees
        <5>2. opt.refresh => <<Batch[j].state, q>> \in answered
          BY <1>6 DEF RefreshInv, Anew, Keys, Held
        <5> QED
          BY <1>8, <1>10, <5>1, <5>2 DEF Kept
      <4>3. LacksNoneOwned(j)'
        BY <1>6, <1>8, <2>1, <4>1 DEF LacksNoneOwned, LookedUp
      <4>4. LacksNoneKept(j)'
        <5> SUFFICES ASSUME ~opt.refresh, stage[j] \in {"queued", "sent"},
                            NEW q \in Batch[j].asks, cache'[Batch[j].state][q] # None
                     PROVE  found[j][q] # None \/ <<Batch[j].state, q>> \in answered'
          BY <1>6, <2>1, <4>1 DEF LacksNoneKept, LookedUp, Kept
        <5>1. Kept(Batch[j].state, q) => \/ found[j][q] # None
                                         \/ <<Batch[j].state, q>> \in answered
          BY <1>6, <1>8 DEF LacksNoneKept, LookedUp
        <5>2. ~Kept(Batch[j].state, q) => Batch[j].state = s /\ fresh[q] # None
          BY <1>7, <1>8 DEF Kept
        <5>3. Batch[j].state = s /\ fresh[q] # None => <<Batch[j].state, q>> \in answered'
          BY <1>6, <1>8 DEF Keys, Held
        <5> QED
          BY <1>6, <5>1, <5>2, <5>3
      <4>5. NoneToCarry(j)'
        BY <4>1 DEF NoneToCarry
      <4> QED
        BY <4>2, <4>3, <4>4, <4>5
    <3> QED
      BY <3>1, <3>2
  <2> QED
    BY <1>6, <2>1, <2>2 DEF BatchInv
<1> QED
  BY <1>14, <1>15, <1>16

LEMMA StepLasting ==
  TypeOK /\ RefreshInv /\ LastingInv /\ [Next]_vars => LastingInv'
<1> SUFFICES ASSUME TypeOK, RefreshInv, LastingInv, [Next]_vars, Lasting
             PROVE  LastingInv'
  <2>1. [Next]_vars => env' = env
    BY DEF Next, vars, StartRun, LookUp, LookAgain, Hold, Before, RecordSkipped,
           RecordFailed, RecordAnswered, NextBatch, EndRun, Expire, AllOver
  <2>2. env' = env /\ ~Lasting => LastingInv'
    BY DEF LastingInv, Lasting
  <2> QED
    BY <2>1, <2>2
<1>0. KeptInv /\ OwnInv /\ BatchInv
  BY DEF LastingInv
<1>1. ASSUME NEW o \in Options, NEW p \in Plans, StartRun(o, p) PROVE LastingInv'
  <2>1. BatchInv'
    BY <1>1, NewBatchLasting, PlanType DEF StartRun
  <2>2. /\ answered' = {} /\ opt' = o /\ owned' \subseteq bought /\ given' \subseteq given
        /\ o.refresh => given' = {} /\ owned' = {}
        /\ UNCHANGED <<env, files, bought>>
    BY <1>1 DEF StartRun
  <2>3. KeptInv'
    <3>1. \A s \in States, q \in Questions :
            <<s, q>> \in answered' \cup bought' \cup owned' => <<s, q>> \in bought
      BY <2>2
    <3>2. \A s \in States, q \in Questions, v \in Values :
            <<s, q, v>> \in given' => <<s, q, v>> \in given
      BY <2>2
    <3> QED
      BY <1>0, <2>2, <3>1, <3>2 DEF KeptInv, Kept, files
  <2>4. OwnInv'
    BY <2>2 DEF OwnInv, KeysGiven
  <2> QED
    BY <2>1, <2>3, <2>4 DEF LastingInv
<1>2. ASSUME LookUp PROVE LastingInv'
  BY <1>0, <1>2, LookUpLasting DEF LastingInv
<1>3. ASSUME LookAgain PROVE LastingInv'
  <2>1. /\ phase = "look" /\ at \notin Slots /\ pass = 1 /\ at' = 1
        /\ UNCHANGED <<env, files, opt, plan, phase, batch, copied, slots, answered,
                       given, bought, owned>>
    BY <1>3 DEF LookAgain, LooksAgain, session, history
  <2>2. /\ Batch' = Batch /\ Slots' = Slots
        /\ \A i \in Slots : i < at /\ ~(i < 1)
    BY <2>1, SameBatch, BatchType DEF TypeOK
  <2>3. KeptInv' /\ OwnInv'
    BY <1>0, <2>1 DEF KeptInv, OwnInv, Kept, KeysGiven, files
  <2>4. ASSUME NEW i \in Slots
        PROVE  /\ stage'[i] # "done"
               /\ Agrees(i)' /\ LacksNoneOwned(i)' /\ LacksNoneKept(i)' /\ NoneToCarry(i)'
    <3>1. stage[i] # "done" /\ Agrees(i) /\ NoneToCarry(i)
      BY <1>0, <2>1 DEF BatchInv
    <3>2. stage'[i] # "done" /\ Agrees(i)'
      BY <2>1, <2>2, <3>1 DEF Agrees, files, slots
    <3>3. LacksNoneOwned(i)' /\ LacksNoneKept(i)'
      BY <2>1, <2>2 DEF LacksNoneOwned, LacksNoneKept, LookedUp
    <3>4. NoneToCarry(i)'
      BY <2>1, <2>2, <3>1 DEF NoneToCarry, Kept, Entered, files
    <3> QED
      BY <3>2, <3>3, <3>4
  <2> QED
    BY <2>2, <2>3, <2>4 DEF LastingInv, BatchInv
<1>4. ASSUME Hold PROVE LastingInv'
  BY <1>0, <1>4, HoldLasting DEF LastingInv
<1>5. ASSUME NEW i \in Slots, Before(i) PROVE LastingInv'
  <2>1. PICK st \in {"sent", "refused"} : stage' = [stage EXCEPT ![i] = st]
    BY <1>5 DEF Before
  <2>2. /\ phase = "send" /\ stage[i] = "queued"
        /\ UNCHANGED <<env, files, opt, plan, where, found, answered, given, bought, owned>>
    BY <1>5 DEF Before, session
  <2> QED
    BY <1>0, <2>1, <2>2, StageLasting DEF LastingInv
<1>6. ASSUME NEW i \in Slots, RecordSkipped(i) \/ RecordFailed(i) PROVE LastingInv'
  <2>1. /\ phase = "send" /\ stage' = [stage EXCEPT ![i] = "done"]
        /\ UNCHANGED <<env, files, opt, plan, where, found, answered, given, bought, owned>>
    BY <1>6 DEF RecordSkipped, RecordFailed, Attempted, Close, session, history
  <2> QED
    BY <1>0, <2>1, StageLasting DEF LastingInv
<1>7. ASSUME NEW i \in Slots, RecordAnswered(i) PROVE LastingInv'
  BY <1>0, <1>7, AnswerLasting DEF LastingInv
<1>8. ASSUME NextBatch PROVE LastingInv'
  <2>1. batch + 1 \in DOMAIN plan /\ plan' = plan /\ plan \in Plans
    BY <1>8, PlanType DEF NextBatch, TypeOK
  <2>2. BatchInv'
    BY <1>8, <2>1, NewBatchLasting DEF NextBatch
  <2>3. /\ phase = "send" /\ UNCHANGED <<files, opt, answered, given, bought>>
        /\ owned' = IF opt.refresh THEN KeysGiven(given) ELSE bought
    BY <1>8 DEF NextBatch, session
  <2>4. OwnInv'
    BY <1>0, <2>3 DEF OwnInv, KeysGiven
  <2>5. \A s \in States, q \in Questions : <<s, q>> \in owned' => Kept(s, q)
    BY <1>0, <2>3 DEF KeptInv, OwnInv
  <2>6. KeptInv'
    BY <1>0, <2>3, <2>5 DEF KeptInv, Kept, files
  <2> QED
    BY <2>2, <2>4, <2>6 DEF LastingInv
<1>9. ASSUME EndRun PROVE LastingInv'
  BY <1>9, LastingKept DEF EndRun, session, history
<1>10. ASSUME NEW s \in States, NEW q \in Questions, Expire(s, q) PROVE LastingInv'
  BY <1>10 DEF Expire, Lasting
<1>11. ASSUME UNCHANGED vars PROVE LastingInv'
  BY <1>11, LastingKept DEF vars, where, session, history
<1> QED
  BY <1>1, <1>2, <1>3, <1>4, <1>5, <1>6, <1>7, <1>8, <1>9, <1>10, <1>11 DEF Next, AllOver

LEMMA AlwaysLasting == Spec => [](TypeOK /\ RefreshInv /\ LastingInv)
  BY InitType, StepType, InitRefresh, StepRefresh, InitLasting, StepLasting, PTL DEF Spec

(* As long as answers last, requests that ask the same question of the     *)
(* same state give one answer, whatever the provider says and whichever    *)
(* checks were killed on the way (Answered in lookup.rs, answer_from_cache).*)
THEOREM OneAnswerGiven == Spec => []OneAnswer
<1>1. TypeOK /\ RefreshInv /\ LastingInv => OneAnswer
  <2> SUFFICES ASSUME TypeOK, LastingInv, Lasting, NEW x \in given, NEW y \in given,
                      x[1] = y[1], x[2] = y[2]
               PROVE  x[3] = y[3]
    BY DEF OneAnswer
  <2>1. \A z \in given : /\ z[1] \in States /\ z[2] \in Questions /\ z[3] \in Values
                         /\ z = <<z[1], z[2], z[3]>>
    BY DEF TypeOK
  <2>2. \A z \in given : cache[z[1]][z[2]] = z[3]
    BY <2>1 DEF LastingInv, KeptInv
  <2> QED
    BY <2>2
<1> QED
  BY <1>1, AlwaysLasting, PTL

(* ... and what a receipt answered is not asked again, by a later batch or *)
(* by a later check that does not refresh (Answered, config docs).         *)
THEOREM NothingBoughtTwice == Spec => []BoughtOnce
<1>1. TypeOK /\ RefreshInv /\ LastingInv => BoughtOnce
  <2> SUFFICES ASSUME TypeOK, LastingInv, Lasting, phase = "send",
                      NEW i \in Slots, stage[i] \in {"queued", "sent"}
               PROVE  Keys(Batch[i].state, Missing(i)) \cap owned = {}
    BY DEF BoughtOnce
  <2>1. \A q \in Batch[i].asks : <<Batch[i].state, q>> \in owned => found[i][q] # None
    BY DEF LastingInv, BatchInv, LacksNoneOwned, LookedUp
  <2>2. \A q \in Missing(i) : q \in Batch[i].asks /\ found[i][q] = None
    BY BatchType DEF Missing, Held
  <2> QED
    BY <2>1, <2>2 DEF Keys
<1> QED
  BY <1>1, AlwaysLasting, PTL
=============================================================================
