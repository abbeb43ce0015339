------------------------ MODULE WithdrawalSagaProofs ------------------------
(***************************************************************************)
(* Safety of the withdrawal saga for every set of accounts, keys, amounts, *)
(* concurrent requests and recovery runs, every batch limit and any number *)
(* of crashes.                                                             *)
(***************************************************************************)
EXTENDS WithdrawalSaga, FiniteSetTheorems, TLAPS

-----------------------------------------------------------------------------
(* The ledger operators *)

\* The legs of a pair are legs, and there are finitely many.
LEMMA LegPairTyped ==
    ASSUME NEW txn \in Nat, NEW type \in {"seed", "withdrawal", "withdrawal_reversal"},
           NEW ref \in Keys \cup Accounts, NEW d \in Accounts \cup {SYSTEM},
           NEW c \in Accounts \cup {SYSTEM}, NEW amount \in Nat,
           NEW idem \in {"null", "seed", "reversal"} \X (Keys \cup Accounts \cup {"null"})
    PROVE  /\ LegPair(txn, type, ref, d, c, amount, idem) \subseteq Legs
           /\ IsFiniteSet(LegPair(txn, type, ref, d, c, amount, idem))
<1>1. NullKey \in {"null", "seed", "reversal"} \X (Keys \cup Accounts \cup {"null"})
  BY DEF NullKey
<1>2. LegPair(txn, type, ref, d, c, amount, idem) \subseteq Legs
  BY <1>1 DEF LegPair, Legs
<1>3. ASSUME NEW x, NEW y PROVE IsFiniteSet({x, y})
  <2>1. IsFiniteSet({x}) /\ {x, y} = {x} \cup {y}
    BY FS_Singleton
  <2> QED
    BY <2>1, FS_AddElement
<1> QED
  BY <1>2, <1>3 DEF LegPair

\* A fresh transaction number is a number.
LEMMA FreshTxnTyped ==
    ASSUME NEW S, IsFiniteSet(S), NEW type, NEW ref
    PROVE  FreshTxn(S, type, ref) \in Nat
<1>1. LegsOf(S, type, ref) \in SUBSET S
  BY DEF LegsOf
<1> QED
  BY <1>1, FS_Subset, FS_CardinalityType DEF FreshTxn

\* The seeds of the accounts are finitely many legs.
LEMMA SeedLegsTyped ==
    LET seeds == UNION { LegPair(0, "seed", a, SYSTEM, a, Opening, <<"seed", a>>) : a \in Accounts }
    IN  seeds \subseteq Legs /\ IsFiniteSet(seeds)
<1> DEFINE pair(a) == LegPair(0, "seed", a, SYSTEM, a, Opening, <<"seed", a>>)
           debit(a) == [txn |-> 0, account |-> SYSTEM, direction |-> "debit", amount |-> Opening,
                        entry_type |-> "seed", reference_id |-> a, idempotency_key |-> NullKey]
           credit(a) == [txn |-> 0, account |-> a, direction |-> "credit", amount |-> Opening,
                         entry_type |-> "seed", reference_id |-> a,
                         idempotency_key |-> <<"seed", a>>]
           D == { debit(a) : a \in Accounts }
           C == { credit(a) : a \in Accounts }
<1>1. \A a \in Accounts : pair(a) \subseteq Legs
  <2> SUFFICES ASSUME NEW a \in Accounts PROVE pair(a) \subseteq Legs
    OBVIOUS
  <2>1. <<"seed", a>> \in {"null", "seed", "reversal"} \X (Keys \cup Accounts \cup {"null"})
    OBVIOUS
  <2> QED
    BY <2>1, LegPairTyped, OpeningAssumption
<1>2. IsFiniteSet(D)
  <2>1. [a \in Accounts |-> debit(a)] \in Surjection(Accounts, D)
    BY DEF Surjection
  <2> QED
    BY <2>1, FS_Surjection, AccountsFinite
<1>3. IsFiniteSet(C)
  <2>1. [a \in Accounts |-> credit(a)] \in Surjection(Accounts, C)
    BY DEF Surjection
  <2> QED
    BY <2>1, FS_Surjection, AccountsFinite
<1>4. \A a \in Accounts : pair(a) = {debit(a), credit(a)}
  BY DEF LegPair
<1>5. UNION { pair(a) : a \in Accounts } = D \cup C
  <2> HIDE DEF pair, debit, credit
  <2> QED
    BY <1>4
<1>6. IsFiniteSet(UNION { pair(a) : a \in Accounts })
  <2> HIDE DEF pair, D, C
  <2>1. IsFiniteSet(D \cup C)
    BY <1>2, <1>3, FS_Union
  <2> QED
    BY <1>5, <2>1
<1>7. UNION { pair(a) : a \in Accounts } \subseteq Legs
  BY <1>1
<1> QED
  BY <1>6, <1>7

-----------------------------------------------------------------------------
(* Type correctness *)

\* Posting the debit of TX 1 keeps the ledger typed.
LEMMA DebitLegsTyped ==
    ASSUME TypeOK, NEW k \in Keys, NEW p \in Params
    PROVE  ledger \cup DebitLegs(k, p) \subseteq Legs /\ IsFiniteSet(ledger \cup DebitLegs(k, p))
<1>1. FreshTxn(ledger, "withdrawal", k) \in Nat
  BY FreshTxnTyped DEF TypeOK, TablesTyped
<1>2. p.account \in Accounts /\ p.amount \in Nat
  BY AmountsAssumption DEF Params
<1>3. NullKey \in {"null", "seed", "reversal"} \X (Keys \cup Accounts \cup {"null"})
  BY DEF NullKey
<1>4. DebitLegs(k, p) \subseteq Legs /\ IsFiniteSet(DebitLegs(k, p))
  BY <1>1, <1>2, <1>3, LegPairTyped DEF DebitLegs
<1> QED
  BY <1>4, FS_Union DEF TypeOK, TablesTyped

\* So does posting a reversal.
LEMMA ReversalLegsTyped ==
    ASSUME TypeOK, NEW k \in Keys
    PROVE  ledger \cup ReversalLegs(k) \subseteq Legs /\ IsFiniteSet(ledger \cup ReversalLegs(k))
<1>1. FreshTxn(ledger, "withdrawal_reversal", k) \in Nat
  BY FreshTxnTyped DEF TypeOK, TablesTyped
<1>2. row[k].params.account \in Accounts \cup {SYSTEM} /\ row[k].params.amount \in Nat
  <2>1. row[k].params \in Params \cup {NoParams}
    BY DEF TypeOK, TablesTyped, Rows
  <2>2. CASE row[k].params \in Params
    BY <2>2, AmountsAssumption DEF Params
  <2>3. CASE row[k].params = NoParams
    BY <2>3 DEF NoParams
  <2> QED
    BY <2>1, <2>2, <2>3
<1>3. <<"reversal", k>> \in {"null", "seed", "reversal"} \X (Keys \cup Accounts \cup {"null"})
  OBVIOUS
<1>4. ReversalLegs(k) \subseteq Legs /\ IsFiniteSet(ReversalLegs(k))
  BY <1>1, <1>2, <1>3, LegPairTyped DEF ReversalLegs
<1> QED
  BY <1>4, FS_Union DEF TypeOK, TablesTyped

\* Publishing an event keeps the outbox counters typed.
LEMMA PublishTyped ==
    ASSUME TypeOK, NEW k \in Keys, NEW t \in EventTypes, Publish(k, t)
    PROVE  outbox' \in [Keys -> [EventTypes -> Nat]]
BY DEF TypeOK, TablesTyped, Publish

\* The rows that the sagas' updates produce are rows.
LEMMA RowsTyped ==
    ASSUME NEW x \in Rows
    PROVE  CompletedRow(x) \in Rows /\ FailedRow(x) \in Rows
BY DEF CompletedRow, FailedRow, Rows, Statuses, Ages

\* Compensation keeps the tables typed, whether it commits or aborts.
LEMMA WriteCompensationTyped ==
    ASSUME TypeOK, NEW k \in Keys, WriteCompensation(k), cache' = cache
    PROVE  TablesTyped'
<1>1. CASE UniqueViolation(ledger, ReversalLegs(k))
  BY <1>1 DEF WriteCompensation, TypeOK, TablesTyped, tables
<1>2. CASE ~UniqueViolation(ledger, ReversalLegs(k))
  <2>1. outbox' \in [Keys -> [EventTypes -> Nat]]
    BY <1>2, PublishTyped DEF WriteCompensation, EventTypes
  <2>2. row' \in [Keys -> Rows]
    BY <1>2, RowsTyped DEF WriteCompensation, TypeOK, TablesTyped
  <2>3. ledger' \subseteq Legs /\ IsFiniteSet(ledger')
    BY <1>2, ReversalLegsTyped DEF WriteCompensation
  <2> QED
    BY <2>1, <2>2, <2>3 DEF TypeOK, TablesTyped
<1> QED
  BY <1>1, <1>2

\* The end of a request keeps the handlers typed.
LEMMA FinishTyped ==
    ASSUME TypeOK, NEW r \in Reqs, Finish(r)
    PROVE  HandlersTyped'
BY DEF TypeOK, HandlersTyped, Finish, Points

\* So does a move to another program point of a request in progress.
LEMMA GotoTyped ==
    ASSUME TypeOK, NEW r \in Reqs, NEW point \in Points, Goto(r, point),
           req[r] \in Requests, req' = req, acctLock' \in [Accounts -> Reqs \cup {Nobody}]
    PROVE  HandlersTyped'
BY DEF TypeOK, HandlersTyped, Goto

\* The end of one resolution keeps the recovery runs typed.
LEMMA ReleaseTyped ==
    ASSUME TypeOK, NEW w \in Workers, NEW k \in Keys, Release(w, k)
    PROVE  WorkersTyped'
BY DEF TypeOK, WorkersTyped, Release, WGoto, WorkerPoints

\* The initial state is typed.
LEMMA InitTyped == Init => TypeOK
<1> SUFFICES ASSUME Init PROVE TypeOK
  OBVIOUS
<1>1. TablesTyped
  <2>1. NoRow \in Rows
    BY DEF NoRow, Rows, Ages
  <2>2. ledger \subseteq Legs /\ IsFiniteSet(ledger)
    BY SeedLegsTyped DEF Init
  <2> QED
    BY <2>1, <2>2 DEF Init, TablesTyped
<1>2. HandlersTyped
  BY DEF Init, HandlersTyped, Points
<1>3. WorkersTyped
  BY DEF Init, WorkersTyped, WorkerPoints
<1>4. HistoryTyped
  BY BoundAssumption DEF Init, HistoryTyped
<1> QED
  BY <1>1, <1>2, <1>3, <1>4 DEF TypeOK

\* Every step of a handler keeps the variables typed.
LEMMA RequestStepTyped ==
    ASSUME TypeOK, NEW r \in Reqs, RequestStep(r)
    PROVE  TypeOK'
<1>1. ASSUME CacheHit(r) \/ RefuseInsufficient(r) \/ ReturnExisting(r) PROVE TypeOK'
  <2>1. Finish(r) /\ UNCHANGED <<tables, workerVars, cache, payouts, lost, crashes>>
    BY <1>1 DEF CacheHit, RefuseInsufficient, ReturnExisting
  <2> QED
    BY <2>1, FinishTyped
    DEF TypeOK, TablesTyped, WorkersTyped, HistoryTyped, tables, workerVars
<1>2. ASSUME CacheMiss(r) \/ BalanceSuffices(r) \/ RailRejects(r) PROVE TypeOK'
  <2>1. req[r] \in Requests
    BY <1>2 DEF TypeOK, HandlersTyped, CacheMiss, BalanceSuffices, RailRejects
  <2>2. HandlersTyped'
    BY <1>2, <2>1, GotoTyped
    DEF TypeOK, HandlersTyped, CacheMiss, BalanceSuffices, RailRejects, Points, SagaPoints
  <2> QED
    BY <1>2, <2>2 DEF TypeOK, TablesTyped, WorkersTyped, HistoryTyped, tables, workerVars,
       CacheMiss, BalanceSuffices, RailRejects
<1>3. ASSUME LockAccount(r) PROVE TypeOK'
  <2>1. req[r] \in Requests
    BY <1>3 DEF TypeOK, HandlersTyped, LockAccount
  <2>2. HandlersTyped'
    BY <1>3, <2>1, GotoTyped DEF TypeOK, HandlersTyped, LockAccount, Points
  <2> QED
    BY <1>3, <2>2 DEF TypeOK, TablesTyped, WorkersTyped, HistoryTyped, tables, workerVars,
       LockAccount
<1>4. ASSUME ReserveFunds(r) PROVE TypeOK'
  <2>1. req[r] \in Requests /\ req[r].key \in Keys /\ req[r].params \in Params
    BY <1>4 DEF TypeOK, HandlersTyped, ReserveFunds, Requests
  <2>2. HandlersTyped'
    BY <1>4, <2>1, GotoTyped DEF TypeOK, HandlersTyped, ReserveFunds, Points, SagaPoints
  <2>3. [status |-> "pending", params |-> req[r].params, external_reference |-> FALSE,
         age |-> "fresh"] \in Rows
    BY <2>1 DEF Rows, Statuses, Ages
  <2>4. row' \in [Keys -> Rows]
    BY <1>4, <2>3 DEF ReserveFunds, TypeOK, TablesTyped
  <2>5. ledger' \subseteq Legs /\ IsFiniteSet(ledger')
    BY <1>4, <2>1, DebitLegsTyped DEF ReserveFunds
  <2>6. outbox' \in [Keys -> [EventTypes -> Nat]]
    BY <1>4, <2>1, PublishTyped DEF ReserveFunds, EventTypes
  <2> QED
    BY <1>4, <2>2, <2>4, <2>5, <2>6
    DEF TypeOK, TablesTyped, WorkersTyped, HistoryTyped, workerVars, ReserveFunds
<1>5. ASSUME CacheResponse(r) PROVE TypeOK'
  <2>1. req[r] \in Requests /\ req[r].params \in Params
    BY <1>5 DEF TypeOK, HandlersTyped, CacheResponse, Requests
  <2>2. HandlersTyped'
    BY <1>5, <2>1, GotoTyped DEF TypeOK, HandlersTyped, CacheResponse, Points, SagaPoints
  <2> QED
    BY <1>5, <2>1, <2>2 DEF TypeOK, TablesTyped, WorkersTyped, HistoryTyped, tables, workerVars,
       CacheResponse
<1>6. ASSUME MarkSubmitted(r) PROVE TypeOK'
  <2>1. req[r] \in Requests /\ req[r].key \in Keys
    BY <1>6 DEF TypeOK, HandlersTyped, MarkSubmitted, Requests
  <2>2. HandlersTyped'
    BY <1>6, <2>1, GotoTyped DEF TypeOK, HandlersTyped, MarkSubmitted, Points, SagaPoints
  <2>3. row' \in [Keys -> Rows]
    BY <1>6, <2>1 DEF TypeOK, TablesTyped, MarkSubmitted, Rows, Statuses, Ages
  <2> QED
    BY <1>6, <2>2, <2>3 DEF TypeOK, TablesTyped, WorkersTyped, HistoryTyped, workerVars,
       MarkSubmitted
<1>7. ASSUME RailAccepts(r) PROVE TypeOK'
  <2>1. req[r] \in Requests /\ req[r].key \in Keys
    BY <1>7 DEF TypeOK, HandlersTyped, RailAccepts, Requests
  <2>2. HandlersTyped'
    BY <1>7, <2>1, GotoTyped DEF TypeOK, HandlersTyped, RailAccepts, Points, SagaPoints
  <2> QED
    BY <1>7, <2>1, <2>2 DEF TypeOK, TablesTyped, WorkersTyped, HistoryTyped, tables, workerVars,
       RailAccepts
<1>8. ASSUME Complete(r) PROVE TypeOK'
  <2>1. req[r].key \in Keys
    BY <1>8 DEF TypeOK, HandlersTyped, Complete, Requests
  <2>2. HandlersTyped'
    BY <1>8, FinishTyped DEF Complete
  <2>3. row' \in [Keys -> Rows]
    BY <1>8, RowsTyped DEF TypeOK, TablesTyped, Complete
  <2>4. outbox' \in [Keys -> [EventTypes -> Nat]]
    BY <1>8, <2>1, PublishTyped DEF Complete, EventTypes
  <2> QED
    BY <1>8, <2>2, <2>3, <2>4 DEF TypeOK, TablesTyped, WorkersTyped, HistoryTyped, workerVars,
       Complete
<1>9. ASSUME Compensate(r) PROVE TypeOK'
  <2>1. req[r].key \in Keys
    BY <1>9 DEF TypeOK, HandlersTyped, Compensate, Requests
  <2>2. HandlersTyped'
    BY <1>9, FinishTyped DEF Compensate
  <2>3. TablesTyped'
    BY <1>9, <2>1, WriteCompensationTyped DEF Compensate
  <2> QED
    BY <1>9, <2>2, <2>3 DEF TypeOK, WorkersTyped, HistoryTyped, workerVars, Compensate
<1> QED
  BY <1>1, <1>2, <1>3, <1>4, <1>5, <1>6, <1>7, <1>8, <1>9 DEF RequestStep

\* The arrival and the crash of a request keep the variables typed.
LEMMA ArrivalTyped ==
    ASSUME TypeOK, NEW r \in Reqs,
           CrashRequest(r) \/ \E k \in Keys, p \in Params : Receive(r, k, p)
    PROVE  TypeOK'
<1>1. ASSUME CrashRequest(r) PROVE TypeOK'
  <2>1. HandlersTyped'
    BY <1>1, FinishTyped DEF CrashRequest
  <2>2. req[r].key \in Keys
    BY <1>1 DEF TypeOK, HandlersTyped, CrashRequest, Requests
  <2>3. HistoryTyped'
    BY <1>1, <2>2, BoundAssumption DEF TypeOK, HistoryTyped, CrashRequest
  <2> QED
    BY <1>1, <2>1, <2>3 DEF TypeOK, TablesTyped, WorkersTyped, tables, workerVars, CrashRequest
<1>2. ASSUME NEW k \in Keys, NEW p \in Params, Receive(r, k, p) PROVE TypeOK'
  <2>1. [key |-> k, params |-> p] \in Requests
    BY DEF Requests
  <2>2. HandlersTyped'
    BY <1>2, <2>1 DEF TypeOK, HandlersTyped, Receive, Goto, Points
  <2> QED
    BY <1>2, <2>2 DEF TypeOK, TablesTyped, WorkersTyped, HistoryTyped, tables, workerVars, Receive
<1> QED
  BY <1>1, <1>2

\* Every step by which a recovery run resolves a row keeps the variables typed.
LEMMA ResolveStepTyped ==
    ASSUME TypeOK, NEW w \in Workers, ResolveStep(w)
    PROVE  TypeOK'
<1> PICK k \in Keys :
        \/ SkipResolved(w, k)
        \/ RecoverPendingCircuitOpen(w, k) \/ RecoverPendingSend(w, k)
        \/ WorkerRailAccepts(w, k) \/ WorkerRailRejects(w, k)
        \/ WorkerComplete(w, k) \/ WorkerCompensate(w, k)
        \/ RecoverSubmittedNoReference(w, k)
        \/ \E state \in QueryStates : RecoverSubmittedByReference(w, k, state)
  BY DEF ResolveStep
<1>1. ASSUME Release(w, k), TablesTyped', UNCHANGED <<apiVars, payouts, lost, crashes>>
      PROVE  TypeOK'
  BY <1>1, ReleaseTyped DEF TypeOK, HandlersTyped, HistoryTyped, apiVars
<1>2. ASSUME SkipResolved(w, k) PROVE TypeOK'
  <2>1. TablesTyped'
    BY <1>2 DEF TypeOK, TablesTyped, SkipResolved, tables
  <2> QED
    BY <1>1, <1>2, <2>1 DEF SkipResolved
<1>3. ASSUME RecoverPendingCircuitOpen(w, k) \/ WorkerCompensate(w, k) PROVE TypeOK'
  <2>1. TablesTyped'
    BY <1>3, WriteCompensationTyped DEF RecoverPendingCircuitOpen, WorkerCompensate
  <2> QED
    BY <1>1, <1>3, <2>1 DEF RecoverPendingCircuitOpen, WorkerCompensate
<1>4. ASSUME RecoverPendingSend(w, k) \/ WorkerRailRejects(w, k) PROVE TypeOK'
  <2>1. WorkersTyped'
    BY <1>4 DEF TypeOK, WorkersTyped, WGoto, WorkerPoints, RecoverPendingSend, WorkerRailRejects
  <2> QED
    BY <1>4, <2>1 DEF TypeOK, TablesTyped, HandlersTyped, HistoryTyped, tables, apiVars,
       RecoverPendingSend, WorkerRailRejects
<1>5. ASSUME WorkerRailAccepts(w, k) PROVE TypeOK'
  <2>1. WorkersTyped'
    BY <1>5 DEF TypeOK, WorkersTyped, WGoto, WorkerPoints, WorkerRailAccepts
  <2> QED
    BY <1>5, <2>1 DEF TypeOK, TablesTyped, HandlersTyped, HistoryTyped, tables, apiVars,
       WorkerRailAccepts
<1>6. ASSUME WorkerComplete(w, k) PROVE TypeOK'
  <2>1. row' \in [Keys -> Rows]
    BY <1>6, RowsTyped DEF TypeOK, TablesTyped, WorkerComplete
  <2>2. outbox' \in [Keys -> [EventTypes -> Nat]]
    BY <1>6, PublishTyped DEF WorkerComplete, EventTypes
  <2>3. TablesTyped'
    BY <1>6, <2>1, <2>2 DEF TypeOK, TablesTyped, WorkerComplete
  <2> QED
    BY <1>1, <1>6, <2>3 DEF WorkerComplete
<1>7. ASSUME RecoverSubmittedNoReference(w, k) PROVE TypeOK'
  <2>1. CASE row[k].age = "expired"
    BY <1>7, <2>1, <1>1, WriteCompensationTyped DEF RecoverSubmittedNoReference
  <2>2. CASE row[k].age # "expired"
    <3>1. TablesTyped'
      BY <1>7, <2>2 DEF TypeOK, TablesTyped, RecoverSubmittedNoReference, tables
    <3> QED
      BY <1>1, <1>7, <3>1 DEF RecoverSubmittedNoReference
  <2> QED
    BY <2>1, <2>2
<1>8. ASSUME NEW state \in QueryStates, RecoverSubmittedByReference(w, k, state) PROVE TypeOK'
  <2>1. CASE state = "completed"
    <3>1. row' \in [Keys -> Rows]
      BY <1>8, <2>1, RowsTyped DEF TypeOK, TablesTyped, RecoverSubmittedByReference
    <3>2. outbox' \in [Keys -> [EventTypes -> Nat]]
      BY <1>8, <2>1, PublishTyped DEF RecoverSubmittedByReference, EventTypes
    <3>3. TablesTyped'
      BY <1>8, <2>1, <3>1, <3>2 DEF TypeOK, TablesTyped, RecoverSubmittedByReference
    <3> QED
      BY <1>1, <1>8, <3>3 DEF RecoverSubmittedByReference
  <2>2. CASE state = "failed" \/ (state = "error" /\ row[k].age = "expired")
    <3>1. WriteCompensation(k) /\ cache' = cache
      BY <1>8, <2>2 DEF RecoverSubmittedByReference
    <3> QED
      BY <1>1, <1>8, <3>1, WriteCompensationTyped DEF RecoverSubmittedByReference
  <2>3. CASE state # "completed" /\ state # "failed" /\ ~(state = "error" /\ row[k].age = "expired")
    <3>1. UNCHANGED tables /\ cache' = cache
      BY <1>8, <2>3 DEF RecoverSubmittedByReference
    <3>2. TablesTyped'
      BY <3>1 DEF TypeOK, TablesTyped, tables
    <3> QED
      BY <1>1, <1>8, <3>2 DEF RecoverSubmittedByReference
  <2> QED
    BY <2>1, <2>2, <2>3
<1> QED
  BY <1>2, <1>3, <1>4, <1>5, <1>6, <1>7, <1>8

\* So do the claim and the crash of a recovery run.
LEMMA WorkerTyped ==
    ASSUME TypeOK, NEW w \in Workers, Claim(w) \/ CrashWorker(w)
    PROVE  TypeOK'
<1>1. ASSUME Claim(w) PROVE TypeOK'
  <2>1. PICK ids \in SUBSET Keys : batch' = [batch EXCEPT ![w] = ids]
    BY <1>1 DEF Claim
  <2>2. WorkersTyped'
    BY <1>1, <2>1 DEF TypeOK, WorkersTyped, Claim, WGoto, WorkerPoints
  <2> QED
    BY <1>1, <2>2 DEF TypeOK, TablesTyped, HandlersTyped, HistoryTyped, tables, apiVars, Claim
<1>2. ASSUME CrashWorker(w) PROVE TypeOK'
  <2>1. WorkersTyped'
    BY <1>2 DEF TypeOK, WorkersTyped, CrashWorker, WGoto, WorkerPoints
  <2>2. HistoryTyped'
    BY <1>2, BoundAssumption DEF TypeOK, HistoryTyped, CrashWorker
  <2> QED
    BY <1>2, <2>1, <2>2 DEF TypeOK, TablesTyped, HandlersTyped, tables, apiVars, CrashWorker
<1> QED
  BY <1>1, <1>2

\* The passing of time keeps the variables typed.
LEMMA TimeTyped ==
    ASSUME TypeOK, NEW k \in Keys, Age(k) \/ CacheExpire(k)
    PROVE  TypeOK'
<1>1. ASSUME Age(k) PROVE TypeOK'
  <2>1. row' \in [Keys -> Rows]
    BY <1>1 DEF TypeOK, TablesTyped, Age, Rows, Ages
  <2> QED
    BY <1>1, <2>1 DEF TypeOK, TablesTyped, HandlersTyped, WorkersTyped, HistoryTyped,
       apiVars, workerVars, Age
<1>2. ASSUME CacheExpire(k) PROVE TypeOK'
  BY <1>2 DEF TypeOK, TablesTyped, HandlersTyped, WorkersTyped, HistoryTyped, tables,
     apiVars, workerVars, CacheExpire
<1> QED
  BY <1>1, <1>2

\* No step takes a variable out of its type.
LEMMA TypeStep == TypeOK /\ [Next]_vars => TypeOK'
<1> SUFFICES ASSUME TypeOK, [Next]_vars PROVE TypeOK'
  OBVIOUS
<1>1. CASE UNCHANGED vars
  BY <1>1 DEF vars, TypeOK, TablesTyped, HandlersTyped, WorkersTyped, HistoryTyped
<1>2. CASE Next
  BY <1>2, RequestStepTyped, ArrivalTyped, ResolveStepTyped, WorkerTyped, TimeTyped DEF Next
<1> QED
  BY <1>1, <1>2

\* Whatever handlers, recovery runs, crashes and the clock do, every variable keeps its
\* type and a request in progress keeps its body.
THEOREM SagaTypeOK == Spec => []TypeOK
BY InitTyped, TypeStep, PTL DEF Spec

-----------------------------------------------------------------------------
(* No double credit *)

\* What compensation does to the ledger and to the row it is about.
LEMMA CompensationEffect ==
    ASSUME TypeOK, NEW k \in Keys, WriteCompensation(k)
    PROVE  \/ UNCHANGED tables
           \/ /\ ~UniqueViolation(ledger, ReversalLegs(k))
              /\ ledger' = ledger \cup ReversalLegs(k)
              /\ row' = [row EXCEPT ![k] = FailedRow(@)]
BY DEF WriteCompensation

\* The ledger only ever grows, by the debit of one request or by the reversal of one
\* withdrawal whose key is not in it.
LEMMA LedgerStep ==
    ASSUME TypeOK, [Next]_vars
    PROVE  \/ ledger' = ledger
           \/ \E k \in Keys, p \in Params : ledger' = ledger \cup DebitLegs(k, p)
           \/ \E k \in Keys : /\ ~UniqueViolation(ledger, ReversalLegs(k))
                              /\ ledger' = ledger \cup ReversalLegs(k)
<1> DEFINE Goal == \/ ledger' = ledger
                   \/ \E k \in Keys, p \in Params : ledger' = ledger \cup DebitLegs(k, p)
                   \/ \E k \in Keys : /\ ~UniqueViolation(ledger, ReversalLegs(k))
                                      /\ ledger' = ledger \cup ReversalLegs(k)
<1>1. ASSUME NEW k \in Keys, WriteCompensation(k) PROVE Goal
  BY <1>1, CompensationEffect DEF tables
<1>2. CASE UNCHANGED vars
  BY <1>2 DEF vars
<1>3. ASSUME NEW r \in Reqs, RequestStep(r) PROVE Goal
  <2>1. ASSUME ReserveFunds(r) PROVE Goal
    <3>1. req[r].key \in Keys /\ req[r].params \in Params
      BY <2>1 DEF TypeOK, HandlersTyped, ReserveFunds, Requests
    <3> QED
      BY <2>1, <3>1 DEF ReserveFunds
  <2>2. ASSUME Compensate(r) PROVE Goal
    <3>1. req[r].key \in Keys
      BY <2>2 DEF TypeOK, HandlersTyped, Compensate, Requests
    <3> QED
      BY <1>1, <2>2, <3>1 DEF Compensate
  <2>3. ASSUME ~ReserveFunds(r), ~Compensate(r) PROVE ledger' = ledger
    BY <1>3, <2>3 DEF RequestStep, CacheHit, CacheMiss, LockAccount, RefuseInsufficient,
       BalanceSuffices, ReturnExisting, CacheResponse, MarkSubmitted, RailAccepts, RailRejects,
       Complete, tables
  <2> QED
    BY <2>1, <2>2, <2>3
<1>4. ASSUME NEW w \in Workers, ResolveStep(w) PROVE Goal
  <2> PICK k \in Keys :
        \/ SkipResolved(w, k)
        \/ RecoverPendingCircuitOpen(w, k) \/ RecoverPendingSend(w, k)
        \/ WorkerRailAccepts(w, k) \/ WorkerRailRejects(w, k)
        \/ WorkerComplete(w, k) \/ WorkerCompensate(w, k)
        \/ RecoverSubmittedNoReference(w, k)
        \/ \E state \in QueryStates : RecoverSubmittedByReference(w, k, state)
    BY <1>4 DEF ResolveStep
  <2>1. ASSUME RecoverPendingCircuitOpen(w, k) \/ WorkerCompensate(w, k) PROVE Goal
    BY <1>1, <2>1 DEF RecoverPendingCircuitOpen, WorkerCompensate
  <2>2. ASSUME RecoverSubmittedNoReference(w, k) PROVE Goal
    BY <1>1, <2>2 DEF RecoverSubmittedNoReference, tables
  <2>3. ASSUME NEW state \in QueryStates, RecoverSubmittedByReference(w, k, state) PROVE Goal
    <3>1. ledger' = ledger \/ WriteCompensation(k)
      <4>1. CASE state = "completed"
        BY <2>3, <4>1 DEF RecoverSubmittedByReference
      <4>2. CASE state = "failed" \/ (state = "error" /\ row[k].age = "expired")
        BY <2>3, <4>2 DEF RecoverSubmittedByReference
      <4>3. CASE state # "completed" /\ state # "failed"
                 /\ ~(state = "error" /\ row[k].age = "expired")
        BY <2>3, <4>3 DEF RecoverSubmittedByReference, tables
      <4> QED
        BY <4>1, <4>2, <4>3
    <3> QED
      BY <1>1, <3>1
  <2>4. ASSUME \/ SkipResolved(w, k) \/ RecoverPendingSend(w, k) \/ WorkerRailAccepts(w, k)
               \/ WorkerRailRejects(w, k) \/ WorkerComplete(w, k)
        PROVE  ledger' = ledger
    BY <2>4 DEF SkipResolved, RecoverPendingSend, WorkerRailAccepts, WorkerRailRejects,
       WorkerComplete, tables
  <2> QED
    BY <2>1, <2>2, <2>3, <2>4
<1>5. ASSUME NEW r \in Reqs, CrashRequest(r) \/ \E k \in Keys, p \in Params : Receive(r, k, p)
      PROVE  ledger' = ledger
  BY <1>5 DEF CrashRequest, Receive, tables
<1>6. ASSUME NEW w \in Workers, Claim(w) \/ CrashWorker(w) PROVE ledger' = ledger
  BY <1>6 DEF Claim, CrashWorker, tables
<1>7. ASSUME NEW k \in Keys, Age(k) \/ CacheExpire(k) PROVE ledger' = ledger
  BY <1>7 DEF Age, CacheExpire, tables
<1> QED
  BY <1>2, <1>3, <1>4, <1>5, <1>6, <1>7 DEF Next

(***************************************************************************)
(* The strengthening of NoDoubleCredit: the credit of a reversal carries   *)
(* the key 'reversal:{id}' of its withdrawal, so that the UNIQUE           *)
(* constraint sees a second one.                                           *)
(***************************************************************************)
ReversalInv ==
    \A k \in Keys : /\ \A l \in Reversals(k) : l.idempotency_key = <<"reversal", k>>
                    /\ \A l, m \in Reversals(k) : l = m

\* The debit of TX 1 is not a reversal.
LEMMA DebitLegsShape ==
    ASSUME NEW k \in Keys, NEW p \in Params, NEW l \in DebitLegs(k, p)
    PROVE  l.entry_type = "withdrawal"
BY DEF DebitLegs, LegPair

\* The reversal legs of a withdrawal hold one credit, which is that withdrawal's.
LEMMA ReversalLegsShape ==
    ASSUME NEW k \in Keys
    PROVE  \E c \in ReversalLegs(k) :
              /\ c.direction = "credit" /\ c.reference_id = k
              /\ c.entry_type = "withdrawal_reversal"
              /\ c.idempotency_key = <<"reversal", k>>
              /\ \A l \in ReversalLegs(k) : l.direction = "credit" => l = c
<1> DEFINE c == [txn |-> FreshTxn(ledger, "withdrawal_reversal", k),
                 account |-> row[k].params.account, direction |-> "credit",
                 amount |-> row[k].params.amount, entry_type |-> "withdrawal_reversal",
                 reference_id |-> k, idempotency_key |-> <<"reversal", k>>]
<1>1. c \in ReversalLegs(k)
  BY DEF ReversalLegs, LegPair
<1>2. \A l \in ReversalLegs(k) : l.direction = "credit" => l = c
  BY DEF ReversalLegs, LegPair
<1> QED
  BY <1>1, <1>2

\* No step reverses a withdrawal that has been reversed.
LEMMA ReversalStep == TypeOK /\ ReversalInv /\ [Next]_vars => ReversalInv'
<1> SUFFICES ASSUME TypeOK, ReversalInv, [Next]_vars PROVE ReversalInv'
  OBVIOUS
<1>1. CASE ledger' = ledger
  BY <1>1 DEF ReversalInv, Reversals, LegsOf
<1>2. ASSUME NEW k \in Keys, NEW p \in Params, ledger' = ledger \cup DebitLegs(k, p)
      PROVE  ReversalInv'
  <2>1. \A j \in Keys : Reversals(j)' = Reversals(j)
    BY <1>2, DebitLegsShape DEF Reversals, LegsOf
  <2> QED
    BY <2>1 DEF ReversalInv
<1>3. ASSUME NEW k \in Keys, ~UniqueViolation(ledger, ReversalLegs(k)),
             ledger' = ledger \cup ReversalLegs(k)
      PROVE  ReversalInv'
  <2>1. PICK c \in ReversalLegs(k) :
              /\ c.direction = "credit" /\ c.reference_id = k
              /\ c.entry_type = "withdrawal_reversal"
              /\ c.idempotency_key = <<"reversal", k>>
              /\ \A l \in ReversalLegs(k) : l.direction = "credit" => l = c
    BY ReversalLegsShape
  <2>2. Reversals(k) = {}
    <3>1. \A l \in Reversals(k) : l \in ledger /\ l.idempotency_key = <<"reversal", k>>
      BY DEF ReversalInv, Reversals, LegsOf
    <3>2. <<"reversal", k>> # NullKey
      BY DEF NullKey
    <3> QED
      BY <1>3, <2>1, <3>1, <3>2 DEF UniqueViolation
  <2>3. Reversals(k)' = {c}
    BY <1>3, <2>1, <2>2 DEF Reversals, LegsOf
  <2>4. \A j \in Keys \ {k} : Reversals(j)' = Reversals(j)
    BY <1>3, <2>1 DEF Reversals, LegsOf
  <2> QED
    BY <2>1, <2>3, <2>4 DEF ReversalInv
<1> QED
  BY <1>1, <1>2, <1>3, LedgerStep

\* Nothing has been reversed in the initial state.
LEMMA ReversalInit == Init => ReversalInv
<1> SUFFICES ASSUME Init PROVE ReversalInv
  OBVIOUS
<1>1. \A l \in ledger : l.entry_type = "seed"
  BY DEF Init, LegPair
<1> QED
  BY <1>1 DEF ReversalInv, Reversals, LegsOf

\* At most one reversal means a cardinality of at most one.
LEMMA SingleReversal == ReversalInv => NoDoubleCredit
<1> SUFFICES ASSUME ReversalInv, NEW k \in Keys PROVE Cardinality(Reversals(k)) <= 1
  BY DEF NoDoubleCredit
<1>1. CASE Reversals(k) = {}
  BY <1>1, FS_EmptySet
<1>2. ASSUME NEW l \in Reversals(k) PROVE Cardinality(Reversals(k)) <= 1
  <2>1. Reversals(k) = {l}
    BY <1>2 DEF ReversalInv
  <2> QED
    BY <2>1, FS_Singleton
<1> QED
  BY <1>1, <1>2

\* However the handler, its retries, any number of recovery runs and crashes interleave,
\* _compensate credits a withdrawal back at most once.
THEOREM SagaNoDoubleCredit == Spec => []NoDoubleCredit
<1>1. TypeOK /\ ReversalInv /\ [Next]_vars => (TypeOK /\ ReversalInv)'
  BY TypeStep, ReversalStep
<1>2. Init => TypeOK /\ ReversalInv
  BY InitTyped, ReversalInit
<1> QED
  BY <1>1, <1>2, SingleReversal, PTL DEF Spec

-----------------------------------------------------------------------------
(* A terminal status is never a lie *)

\* A recovery run holds the lock of at most one row, and of none between two rows.
LockInv ==
    \A w \in Workers :
        /\ wpc[w] \in {"idle", "resolve"} => \A k \in Keys : rowLock[k] # w
        /\ \A j, k \in Keys : rowLock[j] = w /\ rowLock[k] = w => j = k

\* Whoever believes that the rail has paid is right.
PaidInv ==
    /\ \A r \in Reqs : pc[r] = "accepted" => payouts[req[r].key] > 0
    /\ \A w \in Workers, k \in Keys : wpc[w] = "accepted" /\ rowLock[k] = w => payouts[k] > 0
    /\ \A k \in Keys : row[k].external_reference \/ row[k].status = "completed" => payouts[k] > 0

\* A row marked failed has its reversal in the ledger.
RefundInv == \A k \in Keys : row[k].status = "failed" => Reversed(k)

\* The steps of a recovery run keep LockInv: it locks one row, from "resolve", and
\* unlocks it when it goes back there.
LEMMA LockStep == TypeOK /\ LockInv /\ [Next]_vars => LockInv'
<1> SUFFICES ASSUME TypeOK, LockInv, [Next]_vars PROVE LockInv'
  OBVIOUS
<1>1. ASSUME UNCHANGED <<wpc, rowLock>> PROVE LockInv'
  BY <1>1 DEF LockInv
<1>2. CASE UNCHANGED vars
  BY <1>1, <1>2 DEF vars
<1>3. ASSUME NEW r \in Reqs, RequestStep(r) \/ CrashRequest(r)
                               \/ \E k \in Keys, p \in Params : Receive(r, k, p)
      PROVE  LockInv'
  BY <1>1, <1>3 DEF RequestStep, CacheHit, CacheMiss, LockAccount, RefuseInsufficient,
     BalanceSuffices, ReturnExisting, ReserveFunds, CacheResponse, MarkSubmitted, RailAccepts,
     RailRejects, Complete, Compensate, CrashRequest, Receive, workerVars
<1>4. ASSUME NEW w \in Workers, NEW k \in Keys, Release(w, k), rowLock[k] = w \/ CanResolve(w, k)
      PROVE  LockInv'
  <2>1. /\ rowLock' = [rowLock EXCEPT ![k] = Nobody]
        /\ wpc' = [wpc EXCEPT ![w] = IF batch[w] = {k} THEN "idle" ELSE "resolve"]
    BY <1>4 DEF Release, WGoto
  <2>2. \A j \in Keys : rowLock'[j] # w
    BY <1>4, <2>1, NobodyAssumption DEF TypeOK, WorkersTyped, LockInv, CanResolve
  <2>3. \A v \in Workers \ {w} : \A j \in Keys : rowLock'[j] = v <=> rowLock[j] = v
    BY <1>4, <2>1, NobodyAssumption DEF TypeOK, WorkersTyped, CanResolve
  <2>4. \A v \in Workers \ {w} : wpc'[v] = wpc[v]
    BY <2>1 DEF TypeOK, WorkersTyped
  <2> QED
    BY <2>2, <2>3, <2>4 DEF LockInv
<1>5. ASSUME NEW w \in Workers, ResolveStep(w) PROVE LockInv'
  <2> PICK k \in Keys :
        \/ SkipResolved(w, k)
        \/ RecoverPendingCircuitOpen(w, k) \/ RecoverPendingSend(w, k)
        \/ WorkerRailAccepts(w, k) \/ WorkerRailRejects(w, k)
        \/ WorkerComplete(w, k) \/ WorkerCompensate(w, k)
        \/ RecoverSubmittedNoReference(w, k)
        \/ \E state \in QueryStates : RecoverSubmittedByReference(w, k, state)
    BY <1>5 DEF ResolveStep
  <2>1. CASE \/ SkipResolved(w, k) \/ RecoverPendingCircuitOpen(w, k)
             \/ WorkerComplete(w, k) \/ WorkerCompensate(w, k)
             \/ RecoverSubmittedNoReference(w, k)
             \/ \E state \in QueryStates : RecoverSubmittedByReference(w, k, state)
    <3>1. Release(w, k) /\ (rowLock[k] = w \/ CanResolve(w, k))
      BY <2>1 DEF SkipResolved, RecoverPendingCircuitOpen, WorkerComplete, WorkerCompensate,
         RecoverSubmittedNoReference, RecoverSubmittedByReference
    <3> QED
      BY <1>4, <3>1
  <2>2. CASE RecoverPendingSend(w, k)
    <3>1. /\ \A j \in Keys : rowLock[j] # w
          /\ rowLock[k] = Nobody
          /\ rowLock' = [rowLock EXCEPT ![k] = w]
          /\ wpc' = [wpc EXCEPT ![w] = "calling"]
      BY <2>2 DEF RecoverPendingSend, CanResolve, WGoto, LockInv
    <3> QED
      BY <3>1, NobodyAssumption DEF LockInv, TypeOK, WorkersTyped
  <2>3. CASE WorkerRailAccepts(w, k) \/ WorkerRailRejects(w, k)
    <3>1. /\ rowLock' = rowLock
          /\ wpc' = [wpc EXCEPT ![w] = "accepted"] \/ wpc' = [wpc EXCEPT ![w] = "rejected"]
      BY <2>3 DEF WorkerRailAccepts, WorkerRailRejects, WGoto
    <3> QED
      BY <3>1 DEF LockInv, TypeOK, WorkersTyped
  <2> QED
    BY <2>1, <2>2, <2>3
<1>6. ASSUME NEW w \in Workers, Claim(w) PROVE LockInv'
  BY <1>6 DEF Claim, WGoto, LockInv, TypeOK, WorkersTyped
<1>7. ASSUME NEW w \in Workers, CrashWorker(w) PROVE LockInv'
  <2>1. /\ rowLock' = [k \in Keys |-> IF rowLock[k] = w THEN Nobody ELSE rowLock[k]]
        /\ wpc' = [wpc EXCEPT ![w] = "idle"]
    BY <1>7 DEF CrashWorker, WGoto
  <2> QED
    BY <2>1, NobodyAssumption DEF LockInv, TypeOK, WorkersTyped
<1>8. ASSUME NEW k \in Keys, Age(k) \/ CacheExpire(k) PROVE LockInv'
  BY <1>1, <1>8 DEF Age, CacheExpire, workerVars
<1> QED
  BY <1>2, <1>3, <1>5, <1>6, <1>7, <1>8 DEF Next

\* What one step can do to the row of k.
RowEffect(k) ==
    \/ row'[k] = row[k]
    \/ row'[k] = CompletedRow(row[k]) /\ payouts[k] > 0
    \/ row'[k] = FailedRow(row[k]) /\ ledger' = ledger \cup ReversalLegs(k)
    \/ /\ row'[k].status \in {"pending", "submitted"}
       /\ row'[k].external_reference => row[k].external_reference
       /\ row[k].status # "none" => row'[k].params = row[k].params

\* Every step does one of these to every row: in particular a row is only completed by
\* somebody who knows of a payout, and only failed together with its reversal.
LEMMA RowStep ==
    ASSUME TypeOK, PaidInv, [Next]_vars, NEW j \in Keys
    PROVE  RowEffect(j)
<1> USE DEF RowEffect
<1>1. ASSUME row' = row PROVE RowEffect(j)
  BY <1>1
<1>2. ASSUME NEW k \in Keys, row' = [row EXCEPT ![k] = CompletedRow(@)], payouts[k] > 0
      PROVE  RowEffect(j)
  BY <1>2 DEF TypeOK, TablesTyped
<1>3. ASSUME NEW k \in Keys, WriteCompensation(k) PROVE RowEffect(j)
  BY <1>3, CompensationEffect DEF TypeOK, TablesTyped, tables
<1>4. CASE UNCHANGED vars
  BY <1>4, <1>1 DEF vars
<1>5. ASSUME NEW r \in Reqs, RequestStep(r) PROVE RowEffect(j)
  <2>1. ASSUME pc[r] # "idle" PROVE req[r].key \in Keys
    BY <2>1 DEF TypeOK, HandlersTyped, Requests
  <2>2. CASE ReserveFunds(r)
    <3>1. row' = [row EXCEPT ![req[r].key] = [status |-> "pending", params |-> req[r].params,
                                  external_reference |-> FALSE, age |-> "fresh"]]
          /\ row[req[r].key].status = "none" /\ req[r].key \in Keys
      BY <2>1, <2>2 DEF ReserveFunds
    <3> QED
      BY <3>1 DEF TypeOK, TablesTyped
  <2>3. CASE MarkSubmitted(r)
    <3>1. row' = [row EXCEPT ![req[r].key] = [@ EXCEPT !.status = "submitted", !.age = "fresh"]]
          /\ req[r].key \in Keys
      BY <2>1, <2>3 DEF MarkSubmitted
    <3> QED
      BY <3>1 DEF TypeOK, TablesTyped, Rows
  <2>4. CASE Complete(r)
    BY <1>2, <2>1, <2>4 DEF Complete, PaidInv
  <2>5. CASE Compensate(r)
    BY <1>3, <2>1, <2>5 DEF Compensate
  <2>6. CASE \/ CacheHit(r) \/ CacheMiss(r) \/ LockAccount(r) \/ RefuseInsufficient(r)
             \/ BalanceSuffices(r) \/ ReturnExisting(r) \/ CacheResponse(r)
             \/ RailAccepts(r) \/ RailRejects(r)
    BY <1>1, <2>6 DEF CacheHit, CacheMiss, LockAccount, RefuseInsufficient, BalanceSuffices,
       ReturnExisting, CacheResponse, RailAccepts, RailRejects, tables
  <2> QED
    BY <1>5, <2>2, <2>3, <2>4, <2>5, <2>6 DEF RequestStep
<1>6. ASSUME NEW w \in Workers, ResolveStep(w) PROVE RowEffect(j)
  <2> PICK k \in Keys :
        \/ SkipResolved(w, k)
        \/ RecoverPendingCircuitOpen(w, k) \/ RecoverPendingSend(w, k)
        \/ WorkerRailAccepts(w, k) \/ WorkerRailRejects(w, k)
        \/ WorkerComplete(w, k) \/ WorkerCompensate(w, k)
        \/ RecoverSubmittedNoReference(w, k)
        \/ \E state \in QueryStates : RecoverSubmittedByReference(w, k, state)
    BY <1>6 DEF ResolveStep
  <2>1. CASE \/ SkipResolved(w, k) \/ RecoverPendingSend(w, k)
             \/ WorkerRailAccepts(w, k) \/ WorkerRailRejects(w, k)
    BY <1>1, <2>1 DEF SkipResolved, RecoverPendingSend, WorkerRailAccepts, WorkerRailRejects,
       tables
  <2>2. CASE RecoverPendingCircuitOpen(w, k) \/ WorkerCompensate(w, k)
    BY <1>3, <2>2 DEF RecoverPendingCircuitOpen, WorkerCompensate
  <2>3. CASE WorkerComplete(w, k)
    BY <1>2, <2>3 DEF WorkerComplete, PaidInv
  <2>4. CASE RecoverSubmittedNoReference(w, k)
    BY <1>1, <1>3, <2>4 DEF RecoverSubmittedNoReference, tables
  <2>5. ASSUME NEW state \in QueryStates, RecoverSubmittedByReference(w, k, state)
        PROVE  RowEffect(j)
    <3>1. CASE state = "completed"
      BY <1>2, <2>5, <3>1 DEF RecoverSubmittedByReference, PaidInv
    <3>2. CASE state = "failed" \/ (state = "error" /\ row[k].age = "expired")
      <4>1. WriteCompensation(k)
        BY <2>5, <3>2 DEF RecoverSubmittedByReference
      <4> QED
        BY <1>3, <4>1
    <3>3. CASE state # "completed" /\ state # "failed"
               /\ ~(state = "error" /\ row[k].age = "expired")
      BY <1>1, <2>5, <3>3 DEF RecoverSubmittedByReference, tables
    <3> QED
      BY <3>1, <3>2, <3>3
  <2> QED
    BY <2>1, <2>2, <2>3, <2>4, <2>5
<1>7. ASSUME NEW r \in Reqs, CrashRequest(r) \/ \E k \in Keys, p \in Params : Receive(r, k, p)
      PROVE  RowEffect(j)
  BY <1>1, <1>7 DEF CrashRequest, Receive, tables
<1>8. ASSUME NEW w \in Workers, Claim(w) \/ CrashWorker(w) PROVE RowEffect(j)
  BY <1>1, <1>8 DEF Claim, CrashWorker, tables
<1>9. ASSUME NEW k \in Keys, CacheExpire(k) PROVE RowEffect(j)
  BY <1>1, <1>9 DEF CacheExpire, tables
<1>10. ASSUME NEW k \in Keys, Age(k) PROVE RowEffect(j)
  <2> DEFINE age == IF row[k].age = "fresh" THEN "stuck" ELSE "expired"
  <2>1. row' = [row EXCEPT ![k] = [row[k] EXCEPT !.age = age]]
        /\ row[k].status \in {"pending", "submitted"}
    BY <1>10 DEF Age
  <2> HIDE DEF age
  <2> QED
    BY <2>1 DEF TypeOK, TablesTyped, Rows
<1> QED
  BY <1>4, <1>5, <1>6, <1>7, <1>8, <1>9, <1>10 DEF Next

\* PaidInv survives a step that makes nobody new believe in a payout.
LEMMA PaidFrame ==
    ASSUME TypeOK, PaidInv, [Next]_vars, TypeOK',
           \A k \in Keys : payouts'[k] >= payouts[k],
           \A r \in Reqs : pc'[r] = "accepted" =>
               \/ pc[r] = "accepted" /\ req'[r].key = req[r].key
               \/ payouts'[req'[r].key] > 0,
           \A w \in Workers, k \in Keys : wpc'[w] = "accepted" /\ rowLock'[k] = w =>
               \/ wpc[w] = "accepted" /\ rowLock[k] = w
               \/ payouts'[k] > 0
    PROVE  PaidInv'
<1>1. \A k \in Keys : payouts[k] \in Nat /\ payouts'[k] \in Nat
  BY DEF TypeOK, HistoryTyped
<1>2. \A r \in Reqs : pc'[r] = "accepted" => req'[r].key \in Keys
  BY DEF TypeOK, HandlersTyped, Requests
<1>3. \A r \in Reqs : pc'[r] = "accepted" => payouts'[req'[r].key] > 0
  BY <1>1, <1>2 DEF PaidInv
<1>4. \A w \in Workers, k \in Keys : wpc'[w] = "accepted" /\ rowLock'[k] = w => payouts'[k] > 0
  BY <1>1 DEF PaidInv
<1>5. ASSUME NEW k \in Keys, row'[k].external_reference \/ row'[k].status = "completed"
      PROVE  payouts'[k] > 0
  <2>1. RowEffect(k)
    BY RowStep
  <2>2. row[k] \in Rows
    BY DEF TypeOK, TablesTyped
  <2>3. payouts[k] > 0
    BY <1>5, <2>1, <2>2 DEF RowEffect, PaidInv, CompletedRow, FailedRow, Rows
  <2> QED
    BY <1>1, <2>3
<1> QED
  BY <1>3, <1>4, <1>5 DEF PaidInv

\* No step makes somebody believe in a payout that was not made.
LEMMA PaidStep == TypeOK /\ LockInv /\ PaidInv /\ [Next]_vars => PaidInv'
<1> SUFFICES ASSUME TypeOK, LockInv, PaidInv, [Next]_vars PROVE PaidInv'
  OBVIOUS
<1>1. TypeOK'
  BY TypeStep
<1>2. ASSUME payouts' = payouts,
             \A r \in Reqs : pc'[r] = "accepted" => pc[r] = "accepted" /\ req'[r].key = req[r].key,
             \A w \in Workers, k \in Keys :
                 wpc'[w] = "accepted" /\ rowLock'[k] = w => wpc[w] = "accepted" /\ rowLock[k] = w
      PROVE  PaidInv'
  <2>1. \A k \in Keys : payouts'[k] >= payouts[k]
    BY <1>2 DEF TypeOK, HistoryTyped
  <2> QED
    BY <1>1, <1>2, <2>1, PaidFrame
<1>3. CASE UNCHANGED vars
  BY <1>2, <1>3 DEF vars
<1>4. ASSUME NEW r \in Reqs, RailAccepts(r) PROVE PaidInv'
  <2>1. /\ req[r].key \in Keys
        /\ payouts' = [payouts EXCEPT ![req[r].key] = @ + 1]
        /\ pc' = [pc EXCEPT ![r] = "accepted"]
        /\ UNCHANGED <<req, wpc, rowLock>>
    BY <1>4 DEF RailAccepts, Goto, workerVars, TypeOK, HandlersTyped, Requests
  <2>2. \A k \in Keys : payouts'[k] >= payouts[k]
    BY <2>1 DEF TypeOK, HistoryTyped
  <2>3. payouts'[req[r].key] > 0
    BY <2>1 DEF TypeOK, HistoryTyped
  <2>4. \A s \in Reqs : pc'[s] = "accepted" => pc[s] = "accepted" \/ s = r
    BY <2>1 DEF TypeOK, HandlersTyped
  <2> QED
    BY <1>1, <2>1, <2>2, <2>3, <2>4, PaidFrame
<1>5. ASSUME NEW w \in Workers, NEW k \in Keys, WorkerRailAccepts(w, k) PROVE PaidInv'
  <2>1. /\ rowLock[k] = w
        /\ payouts' = [payouts EXCEPT ![k] = @ + 1]
        /\ wpc' = [wpc EXCEPT ![w] = "accepted"]
        /\ UNCHANGED <<req, pc, rowLock>>
    BY <1>5 DEF WorkerRailAccepts, WGoto, apiVars
  <2>2. \A j \in Keys : payouts'[j] >= payouts[j]
    BY <2>1 DEF TypeOK, HistoryTyped
  <2>3. payouts'[k] > 0
    BY <2>1 DEF TypeOK, HistoryTyped
  <2>4. \A v \in Workers, j \in Keys :
            wpc'[v] = "accepted" /\ rowLock'[j] = v => wpc[v] = "accepted" \/ j = k
    BY <2>1 DEF TypeOK, WorkersTyped, LockInv
  <2> QED
    BY <1>1, <2>1, <2>2, <2>3, <2>4, PaidFrame
<1>6. ASSUME NEW r \in Reqs, ~RailAccepts(r),
             RequestStep(r) \/ CrashRequest(r) \/ \E k \in Keys, p \in Params : Receive(r, k, p)
      PROVE  PaidInv'
  <2>1. UNCHANGED <<payouts, wpc, rowLock>>
    BY <1>6 DEF RequestStep, CacheHit, CacheMiss, LockAccount, RefuseInsufficient,
       BalanceSuffices, ReturnExisting, ReserveFunds, CacheResponse, MarkSubmitted,
       RailRejects, Complete, Compensate, CrashRequest, Receive, workerVars
  <2>2. \E point \in Points \ {"accepted"} : pc' = [pc EXCEPT ![r] = point]
    BY <1>6 DEF RequestStep, CacheHit, CacheMiss, LockAccount, RefuseInsufficient,
       BalanceSuffices, ReturnExisting, ReserveFunds, CacheResponse, MarkSubmitted,
       RailRejects, Complete, Compensate, CrashRequest, Receive, Finish, Goto, Points, SagaPoints
  <2>3. req' = req \/ \E x : req' = [req EXCEPT ![r] = x]
    BY <1>6 DEF RequestStep, CacheHit, CacheMiss, LockAccount, RefuseInsufficient,
       BalanceSuffices, ReturnExisting, ReserveFunds, CacheResponse, MarkSubmitted,
       RailRejects, Complete, Compensate, CrashRequest, Receive, Finish
  <2>4. \A s \in Reqs : pc'[s] = "accepted" => pc[s] = "accepted" /\ req'[s].key = req[s].key
    BY <2>2, <2>3 DEF TypeOK, HandlersTyped
  <2> QED
    BY <1>2, <2>1, <2>4
<1>7. ASSUME NEW w \in Workers, NEW k \in Keys,
             \/ SkipResolved(w, k) \/ RecoverPendingCircuitOpen(w, k)
             \/ WorkerComplete(w, k) \/ WorkerCompensate(w, k)
             \/ RecoverSubmittedNoReference(w, k)
             \/ \E state \in QueryStates : RecoverSubmittedByReference(w, k, state)
      PROVE  PaidInv'
  <2>1. Release(w, k) /\ UNCHANGED <<payouts, pc, req>>
    BY <1>7 DEF SkipResolved, RecoverPendingCircuitOpen, WorkerComplete, WorkerCompensate,
       RecoverSubmittedNoReference, RecoverSubmittedByReference, apiVars
  <2>2. \A v \in Workers, j \in Keys :
            wpc'[v] = "accepted" /\ rowLock'[j] = v => wpc[v] = "accepted" /\ rowLock[j] = v
    BY <2>1, NobodyAssumption DEF Release, WGoto, TypeOK, WorkersTyped
  <2> QED
    BY <1>2, <2>1, <2>2
<1>8. ASSUME NEW w \in Workers, NEW k \in Keys, RecoverPendingSend(w, k) \/ WorkerRailRejects(w, k)
      PROVE  PaidInv'
  <2>1. /\ UNCHANGED <<payouts, pc, req>>
        /\ rowLock' = rowLock \/ rowLock' = [rowLock EXCEPT ![k] = w]
        /\ wpc' = [wpc EXCEPT ![w] = "calling"] \/ wpc' = [wpc EXCEPT ![w] = "rejected"]
    BY <1>8 DEF RecoverPendingSend, WorkerRailRejects, WGoto, apiVars
  <2>2. \A v \in Workers, j \in Keys :
            wpc'[v] = "accepted" /\ rowLock'[j] = v => wpc[v] = "accepted" /\ rowLock[j] = v
    BY <2>1 DEF TypeOK, WorkersTyped
  <2> QED
    BY <1>2, <2>1, <2>2
<1>9. ASSUME NEW w \in Workers, Claim(w) \/ CrashWorker(w) PROVE PaidInv'
  <2>1. UNCHANGED <<payouts, pc, req>>
    BY <1>9 DEF Claim, CrashWorker, apiVars
  <2>2. /\ wpc' = [wpc EXCEPT ![w] = "resolve"] \/ wpc' = [wpc EXCEPT ![w] = "idle"]
        /\ \/ rowLock' = rowLock
           \/ rowLock' = [k \in Keys |-> IF rowLock[k] = w THEN Nobody ELSE rowLock[k]]
    BY <1>9 DEF Claim, CrashWorker, WGoto
  <2>3. \A v \in Workers, j \in Keys :
            wpc'[v] = "accepted" /\ rowLock'[j] = v => wpc[v] = "accepted" /\ rowLock[j] = v
    BY <2>2, NobodyAssumption DEF TypeOK, WorkersTyped
  <2> QED
    BY <1>2, <2>1, <2>3
<1>10. ASSUME NEW k \in Keys, Age(k) \/ CacheExpire(k) PROVE PaidInv'
  BY <1>2, <1>10 DEF Age, CacheExpire, apiVars, workerVars
<1> QED
  BY <1>3, <1>4, <1>5, <1>6, <1>7, <1>8, <1>9, <1>10 DEF Next, ResolveStep

\* No step marks a row failed without its reversal, and no reversal is ever removed.
LEMMA RefundStep == TypeOK /\ PaidInv /\ RefundInv /\ [Next]_vars => RefundInv'
<1> SUFFICES ASSUME TypeOK, PaidInv, RefundInv, [Next]_vars, NEW k \in Keys,
                    row'[k].status = "failed"
             PROVE  Reversed(k)'
  BY DEF RefundInv
<1>1. ledger \subseteq ledger'
  BY LedgerStep
<1>2. row[k] \in Rows
  BY DEF TypeOK, TablesTyped
<1>3. CASE row'[k] = row[k]
  BY <1>1, <1>3 DEF RefundInv, Reversed, Reversals, LegsOf
<1>4. CASE ledger' = ledger \cup ReversalLegs(k)
  <2>1. PICK c \in ReversalLegs(k) :
            c.direction = "credit" /\ c.reference_id = k /\ c.entry_type = "withdrawal_reversal"
    BY ReversalLegsShape
  <2>2. c \in ledger'
    BY <1>4, <2>1
  <2> QED
    BY <2>1, <2>2 DEF Reversed, Reversals, LegsOf
<1>5. CASE row'[k] = CompletedRow(row[k])
  BY <1>2, <1>5 DEF CompletedRow, Rows
<1> QED
  BY <1>3, <1>4, <1>5, RowStep DEF RowEffect

\* Whoever completes a withdrawal, handler or recovery, the rail has paid it out, and
\* whoever fails it has given the money back, through every race and crash.
THEOREM SagaTerminalIsSettled == Spec => []TerminalIsSettled
<1> DEFINE IInv == TypeOK /\ LockInv /\ PaidInv /\ RefundInv
<1>1. Init => IInv
  <2> SUFFICES ASSUME Init PROVE IInv
    OBVIOUS
  <2>1. LockInv
    BY NobodyAssumption DEF Init, LockInv
  <2>2. PaidInv
    BY DEF Init, PaidInv, NoRow
  <2>3. RefundInv
    BY DEF Init, RefundInv, NoRow
  <2> QED
    BY InitTyped, <2>1, <2>2, <2>3
<1>2. IInv /\ [Next]_vars => IInv'
  BY TypeStep, LockStep, PaidStep, RefundStep
<1>3. IInv => TerminalIsSettled
  BY DEF PaidInv, RefundInv, TerminalIsSettled
<1> QED
  BY <1>1, <1>2, <1>3, PTL DEF Spec

-----------------------------------------------------------------------------
(* The cache *)

\* Redis knows a key only after its row is committed, and a handler about to write the
\* cache has committed a row with the parameters it is going to write.
CacheInv ==
    /\ CacheSound
    /\ \A k \in Keys : row[k].status = "none" => cache[k] = NoParams
    /\ \A r \in Reqs : pc[r] = "cache_set" =>
           /\ row[req[r].key].status # "none"
           /\ row[req[r].key].params = req[r].params

\* A committed row keeps its parameters and is never removed.
LEMMA RowKeepsParams ==
    ASSUME TypeOK, PaidInv, [Next]_vars, NEW k \in Keys, row[k].status # "none"
    PROVE  row'[k].status # "none" /\ row'[k].params = row[k].params
<1>1. row[k] \in Rows
  BY DEF TypeOK, TablesTyped
<1> QED
  BY <1>1, RowStep DEF RowEffect, CompletedRow, FailedRow, Rows

\* CacheInv survives a step that writes neither the cache nor a new row.
LEMMA CacheFrame ==
    ASSUME TypeOK, PaidInv, CacheInv, [Next]_vars, TypeOK',
           \A k \in Keys : cache'[k] \in {cache[k], NoParams},
           \A r \in Reqs : pc'[r] = "cache_set" => pc[r] = "cache_set" /\ req'[r] = req[r]
    PROVE  CacheInv'
<1>1. ASSUME NEW k \in Keys, cache'[k] # NoParams
      PROVE  row'[k].status # "none" /\ cache'[k] = row'[k].params
  BY <1>1, RowKeepsParams DEF CacheInv, CacheSound
<1>2. ASSUME NEW r \in Reqs, pc'[r] = "cache_set"
      PROVE  row'[req'[r].key].status # "none" /\ row'[req'[r].key].params = req'[r].params
  <2>1. req[r].key \in Keys
    BY <1>2 DEF TypeOK, HandlersTyped, Requests
  <2> QED
    BY <1>2, <2>1, RowKeepsParams DEF CacheInv
<1> QED
  BY <1>1, <1>2 DEF CacheInv, CacheSound

\* No step lets Redis answer for a request that was not committed.
LEMMA CacheStep == TypeOK /\ PaidInv /\ CacheInv /\ [Next]_vars => CacheInv'
<1> SUFFICES ASSUME TypeOK, PaidInv, CacheInv, [Next]_vars PROVE CacheInv'
  OBVIOUS
<1>1. TypeOK'
  BY TypeStep
<1>2. ASSUME cache' = cache,
             \A r \in Reqs : pc'[r] = "cache_set" => pc[r] = "cache_set" /\ req'[r] = req[r]
      PROVE  CacheInv'
  BY <1>1, <1>2, CacheFrame
<1>3. CASE UNCHANGED vars
  BY <1>2, <1>3 DEF vars
<1>4. ASSUME NEW r \in Reqs, ReserveFunds(r) PROVE CacheInv'
  <2> DEFINE k == req[r].key
  <2>1. k \in Keys
    BY <1>4 DEF ReserveFunds, TypeOK, HandlersTyped, Requests
  <2>2. /\ row[k].status = "none"
        /\ row' = [row EXCEPT ![k] = [status |-> "pending", params |-> req[r].params,
                                      external_reference |-> FALSE, age |-> "fresh"]]
        /\ pc' = [pc EXCEPT ![r] = "cache_set"]
        /\ UNCHANGED <<req, cache>>
    BY <1>4 DEF ReserveFunds, Goto
  <2>3. row'[k].status = "pending" /\ row'[k].params = req[r].params
    BY <2>1, <2>2 DEF TypeOK, TablesTyped
  <2>4. \A j \in Keys \ {k} : row'[j] = row[j]
    BY <2>2 DEF TypeOK, TablesTyped
  <2>5. cache[k] = NoParams
    BY <2>1, <2>2 DEF CacheInv
  <2>6. \A s \in Reqs : pc'[s] = "cache_set" => s = r \/ (pc[s] = "cache_set" /\ req[s].key # k)
    BY <2>2 DEF TypeOK, HandlersTyped, CacheInv
  <2>7. \A s \in Reqs : pc[s] = "cache_set" => req[s].key \in Keys
    BY DEF TypeOK, HandlersTyped, Requests
  <2>8. /\ CacheSound'
        /\ \A j \in Keys : row'[j].status = "none" => cache'[j] = NoParams
    BY <2>2, <2>3, <2>4, <2>5 DEF CacheInv, CacheSound
  <2>9. \A s \in Reqs : pc'[s] = "cache_set" =>
            row'[req'[s].key].status # "none" /\ row'[req'[s].key].params = req'[s].params
    BY <2>2, <2>3, <2>4, <2>6, <2>7 DEF CacheInv
  <2> QED
    BY <2>8, <2>9 DEF CacheInv
<1>5. ASSUME NEW r \in Reqs, CacheResponse(r) PROVE CacheInv'
  <2>1. req[r].key \in Keys /\ row[req[r].key].status # "none"
          /\ row[req[r].key].params = req[r].params
    BY <1>5 DEF CacheResponse, TypeOK, HandlersTyped, Requests, CacheInv
  <2>2. /\ cache' = [cache EXCEPT ![req[r].key] = req[r].params]
        /\ pc' = [pc EXCEPT ![r] = "submit"]
        /\ UNCHANGED <<row, req>>
    BY <1>5 DEF CacheResponse, Goto, tables
  <2> QED
    BY <2>1, <2>2 DEF TypeOK, TablesTyped, HandlersTyped, CacheInv, CacheSound
<1>6. ASSUME NEW r \in Reqs, ~ReserveFunds(r), ~CacheResponse(r),
             RequestStep(r) \/ CrashRequest(r) \/ \E k \in Keys, p \in Params : Receive(r, k, p)
      PROVE  CacheInv'
  <2>1. cache' = cache
    BY <1>6 DEF RequestStep, CacheHit, CacheMiss, LockAccount, RefuseInsufficient,
       BalanceSuffices, ReturnExisting, MarkSubmitted, RailAccepts,
       RailRejects, Complete, Compensate, CrashRequest, Receive
  <2>2. \E point \in Points \ {"cache_set"} : pc' = [pc EXCEPT ![r] = point]
    BY <1>6 DEF RequestStep, CacheHit, CacheMiss, LockAccount, RefuseInsufficient,
       BalanceSuffices, ReturnExisting, MarkSubmitted, RailAccepts,
       RailRejects, Complete, Compensate, CrashRequest, Receive, Finish, Goto, Points, SagaPoints
  <2>3. req' = req \/ \E x : req' = [req EXCEPT ![r] = x]
    BY <1>6 DEF RequestStep, CacheHit, CacheMiss, LockAccount, RefuseInsufficient,
       BalanceSuffices, ReturnExisting, MarkSubmitted, RailAccepts,
       RailRejects, Complete, Compensate, CrashRequest, Receive, Finish
  <2>4. \A s \in Reqs : pc'[s] = "cache_set" => pc[s] = "cache_set" /\ req'[s] = req[s]
    BY <2>2, <2>3 DEF TypeOK, HandlersTyped
  <2> QED
    BY <1>2, <2>1, <2>4
<1>7. ASSUME NEW w \in Workers, Claim(w) \/ ResolveStep(w) \/ CrashWorker(w) PROVE CacheInv'
  <2>1. UNCHANGED <<cache, pc, req>>
    BY <1>7 DEF ResolveStep, SkipResolved, RecoverPendingCircuitOpen, RecoverPendingSend,
       WorkerRailAccepts, WorkerRailRejects, WorkerComplete, WorkerCompensate,
       RecoverSubmittedNoReference, RecoverSubmittedByReference, Claim, CrashWorker, apiVars
  <2> QED
    BY <1>2, <2>1
<1>8. ASSUME NEW k \in Keys, Age(k) PROVE CacheInv'
  BY <1>2, <1>8 DEF Age, apiVars
<1>9. ASSUME NEW k \in Keys, CacheExpire(k) PROVE CacheInv'
  <2>1. \A j \in Keys : cache'[j] \in {cache[j], NoParams}
    BY <1>9 DEF CacheExpire, TypeOK, TablesTyped
  <2>2. UNCHANGED <<pc, req>>
    BY <1>9 DEF CacheExpire, apiVars
  <2> QED
    BY <1>1, <2>1, <2>2, CacheFrame
<1> QED
  BY <1>3, <1>4, <1>5, <1>6, <1>7, <1>8, <1>9 DEF Next

\* Whatever is evicted, crashes or is retried, Redis only replays the response of a
\* withdrawal that Postgres has committed with the same parameters.
THEOREM SagaCacheSound == Spec => []CacheSound
<1> DEFINE IInv == TypeOK /\ LockInv /\ PaidInv /\ CacheInv
<1>1. Init => IInv
  <2> SUFFICES ASSUME Init PROVE IInv
    OBVIOUS
  <2>1. LockInv
    BY NobodyAssumption DEF Init, LockInv
  <2>2. PaidInv
    BY DEF Init, PaidInv, NoRow
  <2>3. CacheInv
    BY DEF Init, CacheInv, CacheSound, NoRow
  <2> QED
    BY InitTyped, <2>1, <2>2, <2>3
<1>2. IInv /\ [Next]_vars => IInv'
  BY TypeStep, LockStep, PaidStep, CacheStep
<1>3. IInv => CacheSound
  BY DEF CacheInv
<1> QED
  BY <1>1, <1>2, <1>3, PTL DEF Spec
=============================================================================
