-------------------------- MODULE TransfersProofs --------------------------
(***************************************************************************)
(* Transfers, deposits and seeds for every set of accounts, keys, amounts  *)
(* and concurrent requests.                                                *)
(*                                                                         *)
(* The argument is built up in layers, each on the ones before: the types  *)
(* of requests at work (Typed), the row locks that each point of a handler *)
(* holds (LocksHeld), the deposits under way (DepositsInFlight), records   *)
(* that match their legs (RecordsMatchLedger), and the decision taken on a *)
(* locked balance (DecidedOnBalance).  Together they are BankInv, from     *)
(* which every commit is a step of AtomicBank.                             *)
(***************************************************************************)
EXTENDS Transfers, LedgerProofs

\* The points of a transfer that the router has let through.
TransferPoints == {"cache_get", "lock1", "lock2", "balance", "complete", "fail", "cache_set"}

\* What the router's checks guarantee of a transfer.
AskedTransfer(q) ==
    /\ q.id \in Keys
    /\ q.params.from \in Accounts /\ q.params.to \in Recipients
    /\ q.params.from # q.params.to
    /\ q.params.amount \in Amounts

\* What they guarantee of a deposit.
AskedDeposit(q) ==
    /\ q.id \in References
    /\ q.params.from = SYSTEM /\ q.params.to \in Accounts
    /\ q.params.amount \in Amounts

\* A request at work carries parameters that passed the checks.
RequestsTyped ==
    \A r \in Reqs : /\ pc[r] \in TransferPoints => AskedTransfer(req[r])
                    /\ pc[r] \in DepositPoints => AskedDeposit(req[r])

\* The inductive form of TypeOK.
Typed == TypeOK /\ RequestsTyped

\* The blank values have their types.
LEMMA NoParamsTyped ==
    /\ NoParams \in Params
    /\ NoParams.amount = 0
    /\ NoRecord \in Records({"completed", "failed"})
    /\ NoRecord \in Records({"completed", "rejected"})
    /\ Idle \in [id : Keys \cup References \cup {Nobody}, params : Params]
BY DEF NoParams, Params, NoRecord, Records, Idle, Owners

\* Nothing is at work at the start.
LEMMA TypingInit == Init => Typed
<1> SUFFICES ASSUME Init PROVE Typed
  OBVIOUS
<1>1. TypeOK
  BY NoParamsTyped DEF Init, TypeOK, Points
<1>2. RequestsTyped
  BY DEF Init, RequestsTyped, TransferPoints, DepositPoints
<1> QED BY <1>1, <1>2 DEF Typed

(* What the steps do to the requests *)
\* An answered request goes back to idle.
LEMMA FinishTyped ==
    ASSUME Typed, NEW r \in Reqs, Finish(r)
    PROVE  /\ lock' \in [Owners -> Reqs \cup {Nobody}]
           /\ pc' \in [Reqs -> Points]
           /\ req' \in [Reqs -> [id : Keys \cup References \cup {Nobody}, params : Params]]
           /\ RequestsTyped'
<1>1. /\ lock' \in [Owners -> Reqs \cup {Nobody}]
      /\ pc' \in [Reqs -> Points]
      /\ req' \in [Reqs -> [id : Keys \cup References \cup {Nobody}, params : Params]]
  BY NoParamsTyped DEF Typed, TypeOK, Finish, Goto, ReleaseLocks, Points
<1>2. RequestsTyped'
  <2> SUFFICES ASSUME NEW s \in Reqs
               PROVE  /\ pc'[s] \in TransferPoints => AskedTransfer(req'[s])
                      /\ pc'[s] \in DepositPoints => AskedDeposit(req'[s])
    BY DEF RequestsTyped, AskedTransfer, AskedDeposit
  <2>1. CASE s = r
    BY <2>1 DEF Typed, TypeOK, Finish, Goto, TransferPoints, DepositPoints
  <2>2. CASE s # r
    BY <2>2 DEF Typed, TypeOK, Finish, Goto, RequestsTyped
  <2> QED BY <2>1, <2>2
<1> QED BY <1>1, <1>2

\* A request that moves on stays a transfer or a deposit.
LEMMA GotoTyped ==
    ASSUME Typed, NEW r \in Reqs, NEW point \in Points, Goto(r, point), req' = req,
           point \in TransferPoints => pc[r] \in TransferPoints,
           point \in DepositPoints => pc[r] \in DepositPoints
    PROVE  /\ pc' \in [Reqs -> Points]
           /\ req' \in [Reqs -> [id : Keys \cup References \cup {Nobody}, params : Params]]
           /\ RequestsTyped'
<1>1. pc' \in [Reqs -> Points]
  BY DEF Typed, TypeOK, Goto
<1>2. RequestsTyped'
  <2> SUFFICES ASSUME NEW s \in Reqs
               PROVE  /\ pc'[s] \in TransferPoints => AskedTransfer(req'[s])
                      /\ pc'[s] \in DepositPoints => AskedDeposit(req'[s])
    BY DEF RequestsTyped, AskedTransfer, AskedDeposit
  <2>1. CASE s = r
    BY <2>1 DEF Typed, TypeOK, Goto, RequestsTyped
  <2>2. CASE s # r
    BY <2>2 DEF Typed, TypeOK, Goto, RequestsTyped
  <2> QED BY <2>1, <2>2
<1> QED BY <1>1, <1>2 DEF Typed, TypeOK

\* A posting between known accounts keeps the ledger's type.
LEMMA PostTyped ==
    ASSUME TypeOK, NEW txn, NEW e, NEW ref, NEW d \in Owners, NEW c \in Owners,
           NEW amt \in Amounts, NEW idem,
           ledger' = ledger \cup LegPair(txn, e, ref, d, c, amt, idem)
    PROVE  \A l \in ledger' : l.account \in Owners /\ l.amount \in Amounts
<1> SUFFICES ASSUME NEW l \in ledger' PROVE l.account \in Owners /\ l.amount \in Amounts
  OBVIOUS
<1>1. CASE l \in ledger
  BY <1>1 DEF TypeOK
<1>2. CASE l \in LegPair(txn, e, ref, d, c, amt, idem)
  BY <1>2, LegPairFields
<1> QED BY <1>1, <1>2

\* What a request at work may post.
LEMMA AskedTyped ==
    ASSUME Typed, NEW r \in Reqs, pc[r] \in TransferPoints \/ pc[r] \in DepositPoints
    PROVE  /\ req[r].params \in Params
           /\ req[r].params.from \in Owners /\ req[r].params.to \in Owners
           /\ req[r].params.amount \in Amounts
<1>1. req[r].params \in Params
  BY DEF Typed, TypeOK
<1>2. req[r].params.amount \in Amounts
  BY DEF Typed, RequestsTyped, AskedTransfer, AskedDeposit
<1> QED BY <1>1, <1>2 DEF Params

\* A new request has passed the checks.
LEMMA ReceiveTyped ==
    ASSUME Typed, NEW r \in Reqs, NEW q \in [id : Keys \cup References, params : Params],
           NEW point \in {"cache_get", "dep_insert"}, Goto(r, point),
           req' = [req EXCEPT ![r] = q],
           point = "cache_get" => AskedTransfer(q),
           point = "dep_insert" => AskedDeposit(q)
    PROVE  /\ pc' \in [Reqs -> Points]
           /\ req' \in [Reqs -> [id : Keys \cup References \cup {Nobody}, params : Params]]
           /\ RequestsTyped'
<1>1. pc' \in [Reqs -> Points]
  BY DEF Typed, TypeOK, Goto, Points, DepositPoints
<1>2. req' \in [Reqs -> [id : Keys \cup References \cup {Nobody}, params : Params]]
  <2>1. q \in [id : Keys \cup References \cup {Nobody}, params : Params]
    OBVIOUS
  <2> QED BY <2>1 DEF Typed, TypeOK
<1>3. RequestsTyped'
  <2> SUFFICES ASSUME NEW s \in Reqs
               PROVE  /\ pc'[s] \in TransferPoints => AskedTransfer(req'[s])
                      /\ pc'[s] \in DepositPoints => AskedDeposit(req'[s])
    BY DEF RequestsTyped, AskedTransfer, AskedDeposit
  <2>1. CASE s = r
    BY <2>1 DEF Typed, TypeOK, Goto, TransferPoints, DepositPoints
  <2>2. CASE s # r
    BY <2>2 DEF Typed, TypeOK, Goto, RequestsTyped
  <2> QED BY <2>1, <2>2
<1> QED BY <1>1, <1>2, <1>3

\* Both kinds of request arrive well typed.
LEMMA ArriveTyped ==
    ASSUME Typed, NEW r \in Reqs, Arrive(r)
    PROVE  Typed'
<1>1. ASSUME NEW k \in Keys, NEW from \in Accounts, NEW to \in Recipients, NEW m \in Amounts,
             ReceiveTransfer(r, k, [from |-> from, to |-> to, amount |-> m])
      PROVE  Typed'
  <2>0. PICK p : p = [from |-> from, to |-> to, amount |-> m]
    OBVIOUS
  <2>1. p \in Params /\ p.from = from /\ p.to = to /\ p.amount = m
    BY <2>0, RecipientsAssumption DEF Params, Owners
  <2>2. ReceiveTransfer(r, k, p)
    BY <1>1, <2>0
  <2>3. PICK q : q = [id |-> k, params |-> p]
    OBVIOUS
  <2>4. /\ q \in [id : Keys \cup References, params : Params]
        /\ AskedTransfer(q)
        /\ Goto(r, "cache_get")
        /\ req' = [req EXCEPT ![r] = q]
    BY <2>1, <2>2, <2>3 DEF ReceiveTransfer, AskedTransfer
  <2>5. UNCHANGED <<tables, cache, lock>>
    BY <2>2 DEF ReceiveTransfer
  <2>6. /\ pc' \in [Reqs -> Points]
        /\ req' \in [Reqs -> [id : Keys \cup References \cup {Nobody}, params : Params]]
        /\ RequestsTyped'
    BY <2>4, ReceiveTyped
  <2> QED BY <2>5, <2>6 DEF Typed, TypeOK, tables
<1>2. ASSUME NEW d \in References, NEW a \in Accounts, NEW m \in Amounts, ReceiveDeposit(r, d, a, m)
      PROVE  Typed'
  <2>1. PICK q : q = [id |-> d, params |-> DepositParams(a, m)]
    OBVIOUS
  <2>2. /\ q \in [id : Keys \cup References, params : Params]
        /\ AskedDeposit(q)
        /\ Goto(r, "dep_insert")
        /\ req' = [req EXCEPT ![r] = q]
    BY <1>2, <2>1 DEF ReceiveDeposit, AskedDeposit, DepositParams, Params, Owners
  <2>3. UNCHANGED <<tables, cache, lock>>
    BY <1>2 DEF ReceiveDeposit
  <2>4. /\ pc' \in [Reqs -> Points]
        /\ req' \in [Reqs -> [id : Keys \cup References \cup {Nobody}, params : Params]]
        /\ RequestsTyped'
    BY <2>2, ReceiveTyped
  <2> QED BY <2>3, <2>4 DEF Typed, TypeOK, tables
<1> QED BY <1>1, <1>2 DEF Arrive

\* Every step of a handler keeps the types.
LEMMA StepTyped ==
    ASSUME Typed, NEW r \in Reqs, Step(r)
    PROVE  Typed'
<1> USE DEF TransferPoints
<1>1. ASSUME Finish(r), UNCHANGED <<tables, cache>> PROVE Typed'
  BY <1>1, FinishTyped DEF Typed, TypeOK, tables
<1>2. CASE CacheHit(r) \/ RefuseConflict(r) \/ RefuseConsumed(r) \/ DuplicateDeposit(r)
  BY <1>1, <1>2 DEF CacheHit, RefuseConflict, RefuseConsumed, DuplicateDeposit
<1>3. CASE CacheMiss(r)
  <2>1. Goto(r, "lock1") /\ pc[r] = "cache_get" /\ UNCHANGED <<tables, cache, lock, req>>
    BY <1>3 DEF CacheMiss
  <2>2. "lock1" \in Points /\ "lock1" \notin DepositPoints
    BY DEF Points, DepositPoints
  <2> QED BY <2>1, <2>2, GotoTyped DEF Typed, TypeOK, tables
<1>4. CASE LockFirst(r) \/ LockSecond(r)
  <2>1. PICK point, a : point \in {"lock2", "balance"} /\ Goto(r, point) /\ Acquire(r, a)
    BY <1>4 DEF LockFirst, LockSecond
  <2>2. pc[r] \in {"lock1", "lock2"} /\ UNCHANGED <<tables, cache, req>>
    BY <1>4 DEF LockFirst, LockSecond
  <2>3. point \in Points /\ point \in TransferPoints /\ point \notin DepositPoints
    BY <2>1 DEF Points, DepositPoints
  <2>4. lock' \in [Owners -> Reqs \cup {Nobody}]
    BY <2>1 DEF Acquire, Typed, TypeOK
  <2>5. RequestsTyped' /\ pc' \in [Reqs -> Points]
    BY <2>1, <2>2, <2>3, GotoTyped
  <2> QED BY <2>2, <2>4, <2>5 DEF Typed, TypeOK, tables
<1>5. CASE ReadBalance(r)
  <2>1. PICK point \in {"fail", "complete"} : Goto(r, point)
    BY <1>5 DEF ReadBalance
  <2>2. pc[r] = "balance" /\ UNCHANGED <<tables, cache, lock, req>>
    BY <1>5 DEF ReadBalance
  <2>3. point \in Points /\ point \notin DepositPoints
    BY DEF Points, DepositPoints
  <2>5. RequestsTyped' /\ pc' \in [Reqs -> Points]
    BY <2>1, <2>2, <2>3, GotoTyped
  <2> QED BY <2>2, <2>5 DEF Typed, TypeOK, tables
<1>6. CASE CommitFailed(r)
  <2>1. /\ pc[r] = "fail" /\ Finish(r) /\ UNCHANGED <<opened, ledger, deposits, cache>>
        /\ transfers' = [transfers EXCEPT ![req[r].id] =
                            [status |-> "failed", params |-> req[r].params]]
    BY <1>6 DEF CommitFailed
  <2>2. [status |-> "failed", params |-> req[r].params] \in Records({"completed", "failed"})
    BY <2>1, AskedTyped DEF Records
  <2>3. transfers' \in [Keys -> Records({"completed", "failed"})]
    BY <2>1, <2>2 DEF Typed, TypeOK
  <2> QED BY <2>1, <2>3, FinishTyped DEF Typed, TypeOK
<1>7. CASE CommitCompleted(r)
  <2>1. PICK k, p : k = req[r].id /\ p = req[r].params
    OBVIOUS
  <2>2. /\ pc[r] = "complete" /\ UNCHANGED <<opened, deposits, cache, req>>
        /\ ReleaseLocks(r) /\ Goto(r, "cache_set")
        /\ transfers' = [transfers EXCEPT ![k] = [status |-> "completed", params |-> p]]
        /\ ledger' = ledger \cup LegPair(FreshTxn(ledger, "transfer", k), "transfer", k,
                                     p.from, p.to, p.amount, NullKey)
    BY <1>7, <2>1 DEF CommitCompleted
  <2>3. p \in Params /\ p.from \in Owners /\ p.to \in Owners /\ p.amount \in Amounts
    BY <2>1, <2>2, AskedTyped
  <2>4. [status |-> "completed", params |-> p] \in Records({"completed", "failed"})
    BY <2>3 DEF Records
  <2>5. transfers' \in [Keys -> Records({"completed", "failed"})]
    BY <2>2, <2>4 DEF Typed, TypeOK
  <2>6. \A l \in ledger' : l.account \in Owners /\ l.amount \in Amounts
    BY <2>2, <2>3, PostTyped DEF Typed
  <2>7. lock' \in [Owners -> Reqs \cup {Nobody}]
    BY <2>2 DEF ReleaseLocks, Typed, TypeOK
  <2>8. "cache_set" \in Points /\ "cache_set" \notin DepositPoints
    BY DEF Points, DepositPoints
  <2>9. RequestsTyped' /\ pc' \in [Reqs -> Points]
    BY <2>2, <2>8, GotoTyped
  <2> QED BY <2>2, <2>5, <2>6, <2>7, <2>9 DEF Typed, TypeOK
<1>8. CASE ReplayExisting(r)
  <2>1. /\ pc[r] \in {"fail", "complete"} /\ UNCHANGED <<tables, cache, req>>
        /\ ReleaseLocks(r) /\ Goto(r, "cache_set")
    BY <1>8 DEF ReplayExisting, Collides
  <2>7. lock' \in [Owners -> Reqs \cup {Nobody}]
    BY <2>1 DEF ReleaseLocks, Typed, TypeOK
  <2>8. "cache_set" \in Points /\ "cache_set" \notin DepositPoints
    BY DEF Points, DepositPoints
  <2>9. RequestsTyped' /\ pc' \in [Reqs -> Points]
    BY <2>1, <2>8, GotoTyped
  <2> QED BY <2>1, <2>7, <2>9 DEF Typed, TypeOK, tables
<1>9. CASE CacheResponse(r)
  <2>1. /\ pc[r] = "cache_set" /\ Finish(r) /\ UNCHANGED tables
        /\ cache' = [cache EXCEPT ![req[r].id] = req[r].params]
    BY <1>9 DEF CacheResponse
  <2>2. cache' \in [Keys -> Params]
    BY <2>1, AskedTyped DEF Typed, TypeOK
  <2> QED BY <2>1, <2>2, FinishTyped DEF Typed, TypeOK, tables
<1>10. CASE InsertDeposit(r)
  <2>1. Goto(r, "dep_lock") /\ pc[r] = "dep_insert" /\ UNCHANGED <<tables, cache, lock, req>>
    BY <1>10 DEF InsertDeposit
  <2>2. "dep_lock" \in Points /\ "dep_insert" \in DepositPoints
    BY DEF Points, DepositPoints
  <2>3. RequestsTyped' /\ pc' \in [Reqs -> Points]
    BY <2>1, <2>2, GotoTyped
  <2> QED BY <2>1, <2>3 DEF Typed, TypeOK, tables
<1>11. CASE RejectDeposit(r)
  <2>1. /\ pc[r] = "dep_lock" /\ Finish(r) /\ UNCHANGED <<opened, ledger, transfers, cache>>
        /\ deposits' = [deposits EXCEPT ![req[r].id] =
                            [status |-> "rejected", params |-> req[r].params]]
    BY <1>11 DEF RejectDeposit
  <2>2. [status |-> "rejected", params |-> req[r].params] \in Records({"completed", "rejected"})
    BY <2>1, AskedTyped DEF Records, DepositPoints
  <2>3. deposits' \in [References -> Records({"completed", "rejected"})]
    BY <2>1, <2>2 DEF Typed, TypeOK
  <2> QED BY <2>1, <2>3, FinishTyped DEF Typed, TypeOK
<1>12. CASE LockDeposit(r)
  <2>1. /\ Goto(r, "dep_credit") /\ pc[r] = "dep_lock" /\ UNCHANGED <<tables, cache, req>>
        /\ Acquire(r, req[r].params.to)
    BY <1>12 DEF LockDeposit
  <2>2. "dep_credit" \in Points /\ "dep_lock" \in DepositPoints
    BY DEF Points, DepositPoints
  <2>3. RequestsTyped' /\ pc' \in [Reqs -> Points]
    BY <2>1, <2>2, GotoTyped
  <2>4. lock' \in [Owners -> Reqs \cup {Nobody}]
    BY <2>1 DEF Acquire, Typed, TypeOK
  <2> QED BY <2>1, <2>3, <2>4 DEF Typed, TypeOK, tables
<1>13. CASE CreditDeposit(r)
  <2>1. PICK d, p : d = req[r].id /\ p = req[r].params
    OBVIOUS
  <2>2. /\ pc[r] = "dep_credit" /\ UNCHANGED <<opened, transfers, cache>> /\ Finish(r)
        /\ deposits' = [deposits EXCEPT ![d] = [status |-> "completed", params |-> p]]
        /\ ledger' = ledger \cup LegPair(FreshTxn(ledger, "deposit", d), "deposit", d,
                                     SYSTEM, p.to, p.amount, NullKey)
    BY <1>13, <2>1 DEF CreditDeposit
  <2>3. p \in Params /\ p.from \in Owners /\ p.to \in Owners /\ p.amount \in Amounts
    BY <2>1, <2>2, AskedTyped DEF DepositPoints
  <2>4. [status |-> "completed", params |-> p] \in Records({"completed", "rejected"})
    BY <2>3 DEF Records
  <2>5. deposits' \in [References -> Records({"completed", "rejected"})]
    BY <2>2, <2>4 DEF Typed, TypeOK
  <2>6. \A l \in ledger' : l.account \in Owners /\ l.amount \in Amounts
    <3>1. SYSTEM \in Owners
      BY DEF Owners
    <3> QED BY <2>2, <2>3, <3>1, PostTyped DEF Typed
  <2> QED BY <2>2, <2>5, <2>6, FinishTyped DEF Typed, TypeOK
<1> QED BY <1>2, <1>3, <1>4, <1>5, <1>6, <1>7, <1>8, <1>9, <1>10, <1>11, <1>12, <1>13 DEF Step

\* So does every step of the system.
LEMMA TypingStep == Typed /\ [Next]_vars => Typed'
<1> SUFFICES ASSUME Typed, [Next]_vars PROVE Typed'
  OBVIOUS
<1>1. ASSUME NEW a \in Accounts, OpenAccount(a) PROVE Typed'
  BY <1>1 DEF OpenAccount, Typed, TypeOK, RequestsTyped, AskedTransfer, AskedDeposit
<1>2. ASSUME NEW s \in SeedKeys, NEW a \in Accounts, NEW m \in Amounts, Seed(s, a, m) PROVE Typed'
  <2>1. /\ UNCHANGED <<opened, transfers, deposits, cache, lock, pc, req>>
        /\ ledger' = ledger \cup LegPair(0, "seed", s, SYSTEM, a, m, <<"seed", s>>)
    BY <1>2 DEF Seed, SeedLegs
  <2>2. SYSTEM \in Owners /\ a \in Owners
    BY DEF Owners
  <2>3. \A l \in ledger' : l.account \in Owners /\ l.amount \in Amounts
    BY <2>1, <2>2, PostTyped DEF Typed
  <2> QED BY <2>1, <2>3 DEF Typed, TypeOK, RequestsTyped, AskedTransfer, AskedDeposit
<1>3. ASSUME NEW r \in Reqs, Arrive(r) PROVE Typed'
  BY <1>3, ArriveTyped
<1>4. ASSUME NEW r \in Reqs, Step(r) PROVE Typed'
  BY <1>4, StepTyped
<1>5. ASSUME NEW r \in Reqs, Crash(r) PROVE Typed'
  <2>1. Finish(r) /\ UNCHANGED <<tables, cache>>
    BY <1>5 DEF Crash
  <2> QED BY <2>1, FinishTyped DEF Typed, TypeOK, tables
<1>6. ASSUME NEW k \in Keys, CacheExpire(k) PROVE Typed'
  BY <1>6, NoParamsTyped
     DEF CacheExpire, Typed, TypeOK, tables, RequestsTyped, AskedTransfer, AskedDeposit
<1>7. CASE UNCHANGED vars
  BY <1>7 DEF vars, Typed, TypeOK, RequestsTyped, AskedTransfer, AskedDeposit
<1> QED BY <1>1, <1>2, <1>3, <1>4, <1>5, <1>6, <1>7 DEF Next

\* Every variable of the transfer, deposit and seed services keeps its type; the requests
\* past the router carry accounts and an amount its checks have let through.
THEOREM TypeCorrect == Spec => []TypeOK
<1>1. Spec => []Typed
  BY TypingInit, TypingStep, PTL DEF Spec
<1>2. Typed => TypeOK
  BY DEF Typed
<1> QED BY <1>1, <1>2, PTL

-----------------------------------------------------------------------------
(* Row locks *)

\* The rows that the program text says a request has locked at its point.
Holds(r, a) ==
    \/ pc[r] = "lock2" /\ a = LockOrder(req[r].params)[1]
    \/ pc[r] \in {"balance", "complete", "fail"}
         /\ (a = req[r].params.from \/ a = req[r].params.to)
    \/ pc[r] = "dep_credit" /\ a = req[r].params.to

\* A row is locked by the request that holds it there, and by no other.
LocksHeld == \A r \in Reqs, a \in Owners : lock[a] = r <=> Holds(r, a)

\* LockOrder puts the smaller of the two accounts first.
LEMMA LockOrderSorts ==
    ASSUME NEW p, p.from \in Owners, p.to \in Owners, p.from # p.to
    PROVE  /\ LockOrder(p)[1] < LockOrder(p)[2]
           /\ LockOrder(p)[1] \in Owners /\ LockOrder(p)[2] \in Owners
           /\ \A a : (a = LockOrder(p)[1] \/ a = LockOrder(p)[2]) <=> (a = p.from \/ a = p.to)
<1>1. p.from \in Nat /\ p.to \in Nat
  BY AccountsAssumption DEF Owners
<1>2. CASE p.from < p.to
  BY <1>1, <1>2 DEF LockOrder
<1>3. CASE ~(p.from < p.to)
  <2>1. p.to < p.from
    BY <1>1, <1>3
  <2> QED BY <1>1, <1>3, <2>1 DEF LockOrder
<1> QED BY <1>2, <1>3

\* The end of a transaction releases exactly what was held.
LEMMA ReleaseKeepsLocks ==
    ASSUME Typed, LocksHeld, NEW r \in Reqs, ReleaseLocks(r),
           NEW point \in {"idle", "cache_set"}, Goto(r, point),
           NEW q, req' = [req EXCEPT ![r] = q]
    PROVE  LocksHeld'
<1> SUFFICES ASSUME NEW s \in Reqs, NEW a \in Owners PROVE lock'[a] = s <=> Holds(s, a)'
  BY DEF LocksHeld
<1>1. pc'[r] = point /\ (s # r => pc'[s] = pc[s] /\ req'[s] = req[s])
  BY DEF Goto, Typed, TypeOK
<1>2. lock'[a] = IF lock[a] = r THEN Nobody ELSE lock[a]
  BY DEF ReleaseLocks
<1>3. CASE s = r
  BY <1>1, <1>2, <1>3, NobodyAssumption DEF Holds
<1>4. CASE s # r
  <2>1. lock'[a] = s <=> lock[a] = s
    BY <1>2, <1>4, NobodyAssumption
  <2>2. Holds(s, a)' <=> Holds(s, a)
    BY <1>1, <1>4 DEF Holds
  <2> QED BY <2>1, <2>2 DEF LocksHeld
<1> QED BY <1>3, <1>4

\* A lock that is granted is one more row held.
LEMMA AcquireKeepsLocks ==
    ASSUME Typed, LocksHeld, NEW r \in Reqs, NEW b \in Owners, Acquire(r, b),
           NEW point, Goto(r, point), req' = req,
           \A a \in Owners : Holds(r, a)' <=> (a = b \/ Holds(r, a))
    PROVE  LocksHeld'
<1> SUFFICES ASSUME NEW s \in Reqs, NEW a \in Owners PROVE lock'[a] = s <=> Holds(s, a)'
  BY DEF LocksHeld
<1>1. lock'[a] = IF a = b THEN r ELSE lock[a]
  BY DEF Acquire, Typed, TypeOK
<1>2. lock[b] = Nobody
  BY DEF Acquire
<1>3. CASE s = r
  BY <1>1, <1>3 DEF LocksHeld
<1>4. CASE s # r
  <2>1. pc'[s] = pc[s] /\ req'[s] = req[s]
    BY <1>4 DEF Goto, Typed, TypeOK
  <2>2. Holds(s, a)' <=> Holds(s, a)
    BY <2>1 DEF Holds
  <2>3. lock[a] = s <=> Holds(s, a)
    BY DEF LocksHeld
  <2> QED BY <1>1, <1>2, <1>4, <2>2, <2>3, NobodyAssumption
<1> QED BY <1>3, <1>4

\* A step that holds what it held leaves the locks as they are.
LEMMA MoveKeepsLocks ==
    ASSUME Typed, LocksHeld, NEW r \in Reqs, lock' = lock,
           NEW point, Goto(r, point), NEW q, req' = [req EXCEPT ![r] = q],
           \A a \in Owners : Holds(r, a)' <=> Holds(r, a)
    PROVE  LocksHeld'
<1> SUFFICES ASSUME NEW s \in Reqs, NEW a \in Owners PROVE lock'[a] = s <=> Holds(s, a)'
  BY DEF LocksHeld
<1>3. CASE s = r
  BY <1>3 DEF LocksHeld
<1>4. CASE s # r
  <2>1. pc'[s] = pc[s] /\ req'[s] = req[s]
    BY <1>4 DEF Goto, Typed, TypeOK
  <2>2. Holds(s, a)' <=> Holds(s, a)
    BY <2>1 DEF Holds
  <2> QED BY <2>2 DEF LocksHeld
<1> QED BY <1>3, <1>4

\* An unchanged request, in the form of an update.
LEMMA SameRequest ==
    ASSUME Typed, NEW r \in Reqs, req' = req
    PROVE  req' = [req EXCEPT ![r] = req[r]]
BY DEF Typed, TypeOK

\* An answer releases the locks.
LEMMA FinishKeepsLocks ==
    ASSUME Typed, LocksHeld, NEW r \in Reqs, Finish(r)
    PROVE  LocksHeld'
BY ReleaseKeepsLocks DEF Finish

\* Every step of a handler takes and releases what its point says.
LEMMA StepKeepsLocks ==
    ASSUME Typed, LocksHeld, NEW r \in Reqs, Step(r)
    PROVE  LocksHeld'
<1> USE DEF TransferPoints
<1>a. pc \in [Reqs -> Points]
  BY DEF Typed, TypeOK
<1>1. CASE \/ CacheHit(r) \/ RefuseConflict(r) \/ RefuseConsumed(r) \/ DuplicateDeposit(r)
           \/ CommitFailed(r) \/ CacheResponse(r) \/ RejectDeposit(r) \/ CreditDeposit(r)
  <2>1. Finish(r)
    BY <1>1 DEF CacheHit, RefuseConflict, RefuseConsumed, DuplicateDeposit, CommitFailed,
                CacheResponse, RejectDeposit, CreditDeposit
  <2> QED BY <2>1, FinishKeepsLocks
<1>2. CASE CommitCompleted(r) \/ ReplayExisting(r)
  <2>1. ReleaseLocks(r) /\ Goto(r, "cache_set") /\ req' = req
    BY <1>2 DEF CommitCompleted, ReplayExisting
  <2> QED BY <2>1, SameRequest, ReleaseKeepsLocks
<1>3. CASE CacheMiss(r) \/ ReadBalance(r) \/ InsertDeposit(r)
  <2>1. PICK point \in {"lock1", "fail", "complete", "dep_lock"} :
           /\ Goto(r, point) /\ lock' = lock /\ req' = req
           /\ \/ pc[r] = "cache_get" /\ point = "lock1"
              \/ pc[r] = "balance" /\ point \in {"fail", "complete"}
              \/ pc[r] = "dep_insert" /\ point = "dep_lock"
    BY <1>3 DEF CacheMiss, ReadBalance, InsertDeposit
  <2>2. pc'[r] = point
    BY <1>a, <2>1 DEF Goto
  <2>3. \A a \in Owners : Holds(r, a)' <=> Holds(r, a)
    BY <2>1, <2>2 DEF Holds
  <2> QED BY <2>1, <2>3, SameRequest, MoveKeepsLocks
<1>4. CASE LockFirst(r) \/ LockSecond(r)
  <2>0. PICK p : p = req[r].params
    OBVIOUS
  <2>1. pc[r] \in {"lock1", "lock2"} /\ req' = req
    BY <1>4 DEF LockFirst, LockSecond
  <2>2. /\ LockOrder(p)[1] \in Owners /\ LockOrder(p)[2] \in Owners
        /\ \A a : (a = LockOrder(p)[1] \/ a = LockOrder(p)[2]) <=> (a = p.from \/ a = p.to)
    <3>1. p.from \in Owners /\ p.to \in Owners /\ p.from # p.to
      BY <2>0, <2>1, AskedTyped DEF Typed, RequestsTyped, AskedTransfer
    <3> QED BY <3>1, LockOrderSorts
  <2>3. CASE LockFirst(r)
    <3>1. pc[r] = "lock1" /\ Acquire(r, LockOrder(p)[1]) /\ Goto(r, "lock2")
      BY <2>0, <2>3 DEF LockFirst
    <3>2. pc'[r] = "lock2"
      BY <1>a, <3>1 DEF Goto
    <3>3. \A a \in Owners : Holds(r, a)' <=> (a = LockOrder(p)[1] \/ Holds(r, a))
      BY <2>0, <2>1, <3>1, <3>2 DEF Holds
    <3> QED BY <2>1, <2>2, <3>1, <3>3, AcquireKeepsLocks
  <2>4. CASE LockSecond(r)
    <3>1. pc[r] = "lock2" /\ Acquire(r, LockOrder(p)[2]) /\ Goto(r, "balance")
      BY <2>0, <2>4 DEF LockSecond
    <3>2. pc'[r] = "balance"
      BY <1>a, <3>1 DEF Goto
    <3>3. \A a \in Owners : Holds(r, a)' <=> (a = LockOrder(p)[2] \/ Holds(r, a))
      BY <2>0, <2>1, <2>2, <3>1, <3>2 DEF Holds
    <3> QED BY <2>1, <2>2, <3>1, <3>3, AcquireKeepsLocks
  <2> QED BY <1>4, <2>3, <2>4
<1>5. CASE LockDeposit(r)
  <2>0. PICK b : b = req[r].params.to
    OBVIOUS
  <2>1. Goto(r, "dep_credit") /\ pc[r] = "dep_lock" /\ req' = req /\ Acquire(r, b)
    BY <1>5, <2>0 DEF LockDeposit
  <2>2. b \in Owners
    BY <2>0, <2>1, AskedTyped DEF DepositPoints
  <2>3. pc'[r] = "dep_credit"
    BY <1>a, <2>1 DEF Goto
  <2>4. \A a \in Owners : Holds(r, a)' <=> (a = b \/ Holds(r, a))
    BY <2>0, <2>1, <2>3 DEF Holds
  <2> QED BY <2>1, <2>2, <2>4, AcquireKeepsLocks
<1> QED BY <1>1, <1>2, <1>3, <1>4, <1>5 DEF Step

\* So does every step of the system.
LEMMA NextKeepsLocks == Typed /\ LocksHeld /\ [Next]_vars => LocksHeld'
<1> SUFFICES ASSUME Typed, LocksHeld, [Next]_vars PROVE LocksHeld'
  OBVIOUS
<1>1. ASSUME UNCHANGED <<lock, pc, req>> PROVE LocksHeld'
  BY <1>1 DEF LocksHeld, Holds
<1>2. ASSUME NEW a \in Accounts, OpenAccount(a) PROVE LocksHeld'
  BY <1>1, <1>2 DEF OpenAccount
<1>3. ASSUME NEW s \in SeedKeys, NEW a \in Accounts, NEW m \in Amounts, Seed(s, a, m)
      PROVE  LocksHeld'
  BY <1>1, <1>3 DEF Seed
<1>4. ASSUME NEW r \in Reqs, Arrive(r) PROVE LocksHeld'
  <2>1. PICK point, q :
           /\ point \in {"cache_get", "dep_insert"} /\ pc[r] = "idle" /\ Goto(r, point)
           /\ lock' = lock /\ req' = [req EXCEPT ![r] = q]
    BY <1>4 DEF Arrive, ReceiveTransfer, ReceiveDeposit
  <2>2. pc'[r] = point
    BY <2>1 DEF Goto, Typed, TypeOK
  <2>3. \A a \in Owners : Holds(r, a)' <=> Holds(r, a)
    BY <2>1, <2>2 DEF Holds
  <2> QED BY <2>1, <2>3, MoveKeepsLocks
<1>5. ASSUME NEW r \in Reqs, Step(r) PROVE LocksHeld'
  BY <1>5, StepKeepsLocks
<1>6. ASSUME NEW r \in Reqs, Crash(r) PROVE LocksHeld'
  BY <1>6, FinishKeepsLocks DEF Crash
<1>7. ASSUME NEW k \in Keys, CacheExpire(k) PROVE LocksHeld'
  BY <1>1, <1>7 DEF CacheExpire
<1>8. CASE UNCHANGED vars
  BY <1>1, <1>8 DEF vars
<1> QED BY <1>2, <1>3, <1>4, <1>5, <1>6, <1>7, <1>8 DEF Next

\* Locking both accounts in sorted order (transfer) keeps two requests from waiting for each
\* other's row lock, whatever their number, as long as no client names the system account,
\* which a deposit's legs reference after the row of its account is locked.
THEOREM NoDeadlock ==
    ASSUME SYSTEM \notin Recipients
    PROVE  Spec => []NoBidirectionalDeadlock
<1>1. Init => Typed /\ LocksHeld
  <2>1. Init => LocksHeld
    BY NobodyAssumption DEF Init, LocksHeld, Holds
  <2> QED BY <2>1, TypingInit
<1>2. Typed /\ LocksHeld => NoBidirectionalDeadlock
  <2> SUFFICES ASSUME Typed, LocksHeld, NEW r \in Reqs, NEW s \in Reqs,
                      WaitsFor(r, s), WaitsFor(s, r)
               PROVE  FALSE
    BY DEF NoBidirectionalDeadlock
  <2>1. ASSUME NEW t \in Reqs PROVE lock[SYSTEM] # t
    <3>1. SYSTEM \in Owners
      BY DEF Owners
    <3>2. pc[t] = "lock2" => LockOrder(req[t].params)[1] # SYSTEM
      <4> SUFFICES ASSUME pc[t] = "lock2" PROVE LockOrder(req[t].params)[1] # SYSTEM
        OBVIOUS
      <4>1. AskedTransfer(req[t])
        BY DEF Typed, RequestsTyped, TransferPoints
      <4>2. /\ req[t].params.from \in Owners /\ req[t].params.to \in Owners
            /\ req[t].params.from # req[t].params.to
            /\ req[t].params.from # SYSTEM /\ req[t].params.to # SYSTEM
        BY <4>1, RecipientsAssumption, SystemAssumption DEF AskedTransfer, Owners
      <4> QED BY <4>2, LockOrderSorts
    <3>3. pc[t] \in {"balance", "complete", "fail"}
             => req[t].params.from # SYSTEM /\ req[t].params.to # SYSTEM
      BY RecipientsAssumption, SystemAssumption
         DEF Typed, RequestsTyped, TransferPoints, AskedTransfer
    <3>4. pc[t] = "dep_credit" => req[t].params.to # SYSTEM
      BY SystemAssumption DEF Typed, RequestsTyped, DepositPoints, AskedDeposit
    <3> QED BY <3>1, <3>2, <3>3, <3>4 DEF LocksHeld, Holds
  <2>2. ASSUME NEW t \in Reqs, NEW u \in Reqs, WaitsFor(t, u), WaitsFor(u, t)
        PROVE  /\ pc[t] = "lock2" /\ pc[u] = "lock2"
               /\ LockOrder(req[t].params)[2] = LockOrder(req[u].params)[1]
    <3>1. PICK a \in Owners : lock[a] = u /\
             \/ pc[t] = "lock1" /\ a = LockOrder(req[t].params)[1]
             \/ pc[t] = "lock2" /\ a = LockOrder(req[t].params)[2]
             \/ pc[t] = "dep_lock"
      <4>1. pc[t] \in {"lock1", "lock2"} =>
               /\ LockOrder(req[t].params)[1] \in Owners
               /\ LockOrder(req[t].params)[2] \in Owners
        BY LockOrderSorts, AskedTyped DEF Typed, RequestsTyped, AskedTransfer, TransferPoints
      <4>2. pc[t] = "dep_lock" => req[t].params.to \in Owners
        BY AskedTyped DEF DepositPoints
      <4> QED BY <2>1, <2>2, <4>1, <4>2 DEF WaitsFor
    <3>2. Holds(u, a)
      BY <3>1 DEF LocksHeld
    <3>3. pc[u] = "lock2"
      BY <2>1, <2>2, <3>2 DEF Holds, WaitsFor
    <3>4. a = LockOrder(req[u].params)[1]
      BY <3>2, <3>3 DEF Holds
    <3>5. PICK b \in Owners : lock[b] = t
      <4>1. LockOrder(req[u].params)[2] \in Owners
        BY <3>3, LockOrderSorts, AskedTyped DEF Typed, RequestsTyped, AskedTransfer, TransferPoints
      <4> QED BY <2>2, <3>3, <4>1 DEF WaitsFor
    <3>6. Holds(t, b)
      BY <3>5 DEF LocksHeld
    <3> QED BY <3>1, <3>3, <3>4, <3>6 DEF Holds
  <2>3. /\ pc[r] = "lock2" /\ pc[s] = "lock2"
        /\ LockOrder(req[r].params)[2] = LockOrder(req[s].params)[1]
        /\ LockOrder(req[s].params)[2] = LockOrder(req[r].params)[1]
    BY <2>2
  <2>4. ASSUME NEW t \in Reqs, pc[t] = "lock2"
        PROVE  /\ LockOrder(req[t].params)[1] < LockOrder(req[t].params)[2]
               /\ LockOrder(req[t].params)[1] \in Nat /\ LockOrder(req[t].params)[2] \in Nat
    <3>1. /\ req[t].params.from \in Owners /\ req[t].params.to \in Owners
          /\ req[t].params.from # req[t].params.to
      BY <2>4, AskedTyped DEF Typed, RequestsTyped, AskedTransfer, TransferPoints
    <3>2. Owners \subseteq Nat
      BY AccountsAssumption DEF Owners
    <3> QED BY <3>1, <3>2, LockOrderSorts
  <2> QED BY <2>3, <2>4
<1> QED BY <1>1, <1>2, TypingStep, NextKeepsLocks, PTL DEF Spec

-----------------------------------------------------------------------------
(* The records and the ledger *)

\* Only seeds and the four commits touch the tables.
LEMMA TableSteps ==
    ASSUME [Next]_vars
    PROVE  \/ UNCHANGED <<ledger, transfers, deposits>>
           \/ \E s \in SeedKeys, a \in Accounts, m \in Amounts : Seed(s, a, m)
           \/ \E r \in Reqs : \/ CommitFailed(r) \/ CommitCompleted(r)
                              \/ RejectDeposit(r) \/ CreditDeposit(r)
<1>1. CASE UNCHANGED vars
  BY <1>1 DEF vars
<1>2. ASSUME NEW a \in Accounts, OpenAccount(a) PROVE UNCHANGED <<ledger, transfers, deposits>>
  BY <1>2 DEF OpenAccount
<1>3. ASSUME NEW r \in Reqs, Arrive(r) \/ Crash(r)
      PROVE  UNCHANGED <<ledger, transfers, deposits>>
  BY <1>3 DEF Arrive, ReceiveTransfer, ReceiveDeposit, Crash, tables
<1>4. ASSUME NEW r \in Reqs, Step(r)
      PROVE  \/ UNCHANGED <<ledger, transfers, deposits>>
             \/ CommitFailed(r) \/ CommitCompleted(r) \/ RejectDeposit(r) \/ CreditDeposit(r)
  BY <1>4 DEF Step, CacheHit, CacheMiss, LockFirst, LockSecond, ReadBalance, RefuseConflict,
              RefuseConsumed, ReplayExisting, CacheResponse, InsertDeposit, DuplicateDeposit,
              LockDeposit, tables
<1>5. ASSUME NEW k \in Keys, CacheExpire(k) PROVE UNCHANGED <<ledger, transfers, deposits>>
  BY <1>5 DEF CacheExpire, tables
<1> QED BY <1>1, <1>2, <1>3, <1>4, <1>5 DEF Next

\* A request that has inserted its deposit is the only one for its reference.
DepositsInFlight ==
    \A r \in Reqs : pc[r] \in {"dep_lock", "dep_credit"} =>
        /\ deposits[req[r].id].status = "none"
        /\ \A s \in Reqs : pc[s] \in {"dep_lock", "dep_credit"} /\ req[s].id = req[r].id => s = r

\* An answer concerns one request.
LEMMA FinishesOne ==
    ASSUME Typed, NEW r \in Reqs, Finish(r)
    PROVE  /\ pc'[r] = "idle"
           /\ \A s \in Reqs : s # r => pc'[s] = pc[s] /\ req'[s] = req[s]
BY DEF Finish, Goto, Typed, TypeOK

\* A move concerns one request.
LEMMA GoesOn ==
    ASSUME Typed, NEW r \in Reqs, NEW point, Goto(r, point), req' = req
    PROVE  /\ pc'[r] = point /\ req'[r] = req[r]
           /\ \A s \in Reqs : s # r => pc'[s] = pc[s] /\ req'[s] = req[s]
BY DEF Goto, Typed, TypeOK

\* An arrival concerns one request and no table.
LEMMA Arrives ==
    ASSUME Typed, NEW r \in Reqs, Arrive(r)
    PROVE  /\ pc[r] = "idle" /\ pc'[r] \in {"cache_get", "dep_insert"}
           /\ \A s \in Reqs : s # r => pc'[s] = pc[s] /\ req'[s] = req[s]
           /\ UNCHANGED <<opened, ledger, transfers, deposits, cache, lock>>
<1>1. PICK point, q :
         /\ point \in {"cache_get", "dep_insert"}
         /\ pc[r] = "idle" /\ pc' = [pc EXCEPT ![r] = point] /\ req' = [req EXCEPT ![r] = q]
         /\ UNCHANGED <<opened, ledger, transfers, deposits, cache, lock>>
  BY DEF Arrive, ReceiveTransfer, ReceiveDeposit, Goto, tables
<1> QED BY <1>1 DEF Typed, TypeOK

\* The UNIQUE external_reference lets one deposit at a time through.
LEMMA InFlightStep ==
    ASSUME Typed, DepositsInFlight, [Next]_vars
    PROVE  DepositsInFlight'
<1> DEFINE InFlight(r) == pc[r] \in {"dep_lock", "dep_credit"}
<1>1. ASSUME \A r \in Reqs : InFlight(r)' => InFlight(r) /\ req'[r] = req[r],
             \A r \in Reqs : InFlight(r)' => deposits'[req[r].id].status = deposits[req[r].id].status
      PROVE  DepositsInFlight'
  <2> SUFFICES ASSUME NEW r \in Reqs, InFlight(r)'
               PROVE  /\ deposits'[req'[r].id].status = "none"
                      /\ \A s \in Reqs : InFlight(s)' /\ req'[s].id = req'[r].id => s = r
    BY DEF DepositsInFlight
  <2> QED BY <1>1 DEF DepositsInFlight
<1>2. ASSUME UNCHANGED <<pc, req, deposits>> PROVE DepositsInFlight'
  BY <1>2 DEF DepositsInFlight
<1>3. ASSUME NEW r \in Reqs, Finish(r), UNCHANGED deposits PROVE DepositsInFlight'
  <2>1. \A s \in Reqs : InFlight(s)' => InFlight(s) /\ req'[s] = req[s]
    BY <1>3, FinishesOne
  <2> QED BY <1>1, <1>3, <2>1
<1>4. ASSUME NEW r \in Reqs, NEW rec, pc[r] \in {"dep_lock", "dep_credit"}, Finish(r),
             deposits' = [deposits EXCEPT ![req[r].id] = rec]
      PROVE  DepositsInFlight'
  <2>1. \A s \in Reqs : InFlight(s)' => s # r /\ InFlight(s) /\ req'[s] = req[s]
    BY <1>4, FinishesOne
  <2>2. \A s \in Reqs : InFlight(s) /\ s # r => req[s].id # req[r].id
    BY <1>4 DEF DepositsInFlight
  <2>3. \A s \in Reqs : InFlight(s)' => deposits'[req[s].id] = deposits[req[s].id]
    <3> SUFFICES ASSUME NEW s \in Reqs, InFlight(s)'
                 PROVE  deposits'[req[s].id] = deposits[req[s].id]
      OBVIOUS
    <3>1. req[s].id # req[r].id
      BY <2>1, <2>2
    <3>2. req[s].id \in References
      BY <2>1 DEF Typed, RequestsTyped, AskedDeposit, DepositPoints
    <3> QED BY <1>4, <3>1, <3>2 DEF Typed, TypeOK
  <2> QED BY <1>1, <2>1, <2>3
<1>5. ASSUME NEW r \in Reqs, NEW point, Goto(r, point), UNCHANGED <<req, deposits>>,
             point \in {"dep_lock", "dep_credit"} => pc[r] \in {"dep_lock", "dep_credit"}
      PROVE  DepositsInFlight'
  <2>1. \A s \in Reqs : InFlight(s)' => InFlight(s) /\ req'[s] = req[s]
    BY <1>5, GoesOn
  <2> QED BY <1>1, <1>5, <2>1
<1>6. ASSUME NEW r \in Reqs, InsertDeposit(r) PROVE DepositsInFlight'
  <2>1. /\ Goto(r, "dep_lock") /\ UNCHANGED <<req, deposits>> /\ ~ReferenceInFlight(req[r].id)
        /\ deposits[req[r].id].status = "none"
    BY <1>6 DEF InsertDeposit, tables
  <2>2. \A s \in Reqs : s # r => pc'[s] = pc[s]
    BY <2>1, GoesOn
  <2> QED BY <2>1, <2>2 DEF DepositsInFlight, ReferenceInFlight
<1>7. ASSUME NEW r \in Reqs, Step(r) PROVE DepositsInFlight'
  <2>1. CASE \/ CacheHit(r) \/ RefuseConflict(r) \/ RefuseConsumed(r) \/ DuplicateDeposit(r)
             \/ CommitFailed(r) \/ CacheResponse(r)
    BY <1>3, <2>1 DEF CacheHit, RefuseConflict, RefuseConsumed, DuplicateDeposit, CommitFailed,
                      CacheResponse, tables
  <2>2. CASE RejectDeposit(r) \/ CreditDeposit(r)
    BY <1>4, <2>2 DEF RejectDeposit, CreditDeposit
  <2>3. CASE \/ CacheMiss(r) \/ LockFirst(r) \/ LockSecond(r) \/ ReadBalance(r)
             \/ CommitCompleted(r) \/ ReplayExisting(r) \/ LockDeposit(r)
    <3>1. PICK point : /\ Goto(r, point) /\ UNCHANGED <<req, deposits>>
                       /\ point = "dep_credit" => pc[r] = "dep_lock"
                       /\ point # "dep_lock"
      BY <2>3 DEF CacheMiss, LockFirst, LockSecond, ReadBalance, CommitCompleted, ReplayExisting,
                  LockDeposit, tables
    <3> QED BY <1>5, <3>1
  <2> QED BY <1>6, <1>7, <2>1, <2>2, <2>3 DEF Step
<1>8. ASSUME NEW r \in Reqs, Arrive(r) PROVE DepositsInFlight'
  <2>1. \A s \in Reqs : InFlight(s)' => InFlight(s) /\ req'[s] = req[s]
    BY <1>8, Arrives
  <2>2. UNCHANGED deposits
    BY <1>8, Arrives
  <2> QED BY <1>1, <2>1, <2>2
<1>9. ASSUME NEW r \in Reqs, Crash(r) PROVE DepositsInFlight'
  BY <1>3, <1>9 DEF Crash, tables
<1>10. ASSUME NEW a \in Accounts, OpenAccount(a) PROVE DepositsInFlight'
  BY <1>2, <1>10 DEF OpenAccount
<1>11. ASSUME NEW s \in SeedKeys, NEW a \in Accounts, NEW m \in Amounts, Seed(s, a, m)
       PROVE  DepositsInFlight'
  BY <1>2, <1>11 DEF Seed
<1>12. ASSUME NEW k \in Keys, CacheExpire(k) PROVE DepositsInFlight'
  BY <1>2, <1>12 DEF CacheExpire, tables
<1>13. CASE UNCHANGED vars
  BY <1>2, <1>13 DEF vars
<1> QED BY <1>7, <1>8, <1>9, <1>10, <1>11, <1>12, <1>13 DEF Next

\* The legs of one record are what its row says.
Matches(L, e, k, rec) ==
    IF rec.status = "completed" THEN Moved(LegsOf(L, e, k), rec.params) ELSE LegsOf(L, e, k) = {}

\* RecordsMatchLedger, one record at a time.
LEMMA MatchesIsInvariant ==
    RecordsMatchLedger <=> /\ \A k \in Keys : Matches(ledger, "transfer", k, transfers[k])
                           /\ \A d \in References : Matches(ledger, "deposit", d, deposits[d])
BY DEF RecordsMatchLedger, Matches

\* A record completed with its first posting matches it.
LEMMA PostedMatches ==
    ASSUME NEW L, NEW txn, NEW e, NEW ref, NEW p, NEW idem, LegsOf(L, e, ref) = {}
    PROVE  Matches(L \cup LegPair(txn, e, ref, p.from, p.to, p.amount, idem), e, ref,
                   [status |-> "completed", params |-> p])
<1> DEFINE pair == LegPair(txn, e, ref, p.from, p.to, p.amount, idem)
<1>1. LegsOf(L \cup pair, e, ref) = pair
  <2>1. LegsAre(pair, e, ref)
    BY LegPairFields DEF LegsAre
  <2> HIDE DEF pair
  <2>2. LegsOf(L \cup pair, e, ref) = LegsOf(L, e, ref) \cup pair
    BY <2>1, LegsAfterPosting
  <2> QED BY <2>2
<1>2. Moved(pair, p)
  <2>1. Cardinality(pair) = 2 /\ \E l, m \in pair : l.direction # m.direction
    BY LegPairSize
  <2>2. \A l \in pair : /\ l.amount = p.amount
                        /\ l.account = IF l.direction = "debit" THEN p.from ELSE p.to
    BY LegPairFields
  <2> HIDE DEF pair
  <2> QED BY <2>1, <2>2 DEF Moved
<1> HIDE DEF pair
<1>3. PICK rec : rec = [status |-> "completed", params |-> p]
  OBVIOUS
<1>4. rec.status = "completed" /\ rec.params = p
  BY <1>3
<1>5. Matches(L \cup pair, e, ref, rec)
  BY <1>1, <1>2, <1>4 DEF Matches
<1> QED BY <1>3, <1>5 DEF pair

\* A posting for one record leaves the others as they matched.
LEMMA OthersStillMatch ==
    ASSUME NEW L, NEW txn, NEW e, NEW ref, NEW d, NEW c, NEW amt, NEW idem,
           NEW f, NEW k, f # e \/ k # ref, NEW rec, Matches(L, f, k, rec)
    PROVE  Matches(L \cup LegPair(txn, e, ref, d, c, amt, idem), f, k, rec)
<1> DEFINE pair == LegPair(txn, e, ref, d, c, amt, idem)
<1>1. LegsAre(pair, e, ref)
  BY LegPairFields DEF LegsAre
<1> HIDE DEF pair
<1>2. LegsOf(L \cup pair, f, k) = LegsOf(L, f, k)
  BY <1>1, OtherLegsAfterPosting
<1>3. Matches(L \cup pair, f, k, rec)
  BY <1>2 DEF Matches
<1> QED BY <1>3 DEF pair

\* A record that does not exist has no legs.
LEMMA UnusedHasNoLegs ==
    ASSUME NEW L, NEW e, NEW k, NEW rec, rec.status = "none", Matches(L, e, k, rec)
    PROVE  LegsOf(L, e, k) = {}
BY DEF Matches

\* Each commit writes the row and its legs together.
LEMMA RecordsMatchStep ==
    ASSUME Typed, DepositsInFlight, RecordsMatchLedger, [Next]_vars
    PROVE  RecordsMatchLedger'
<1>0. /\ \A k \in Keys : Matches(ledger, "transfer", k, transfers[k])
      /\ \A d \in References : Matches(ledger, "deposit", d, deposits[d])
  BY MatchesIsInvariant
<1> SUFFICES /\ \A k \in Keys : Matches(ledger', "transfer", k, transfers'[k])
             /\ \A d \in References : Matches(ledger', "deposit", d, deposits'[d])
  BY DEF RecordsMatchLedger, Matches
<1>1. CASE UNCHANGED <<ledger, transfers, deposits>>
  BY <1>0, <1>1
<1>2. ASSUME NEW s \in SeedKeys, NEW a \in Accounts, NEW m \in Amounts, Seed(s, a, m)
      PROVE  /\ \A k \in Keys : Matches(ledger', "transfer", k, transfers'[k])
             /\ \A d \in References : Matches(ledger', "deposit", d, deposits'[d])
  <2>1. /\ ledger' = ledger \cup LegPair(0, "seed", s, SYSTEM, a, m, <<"seed", s>>)
        /\ UNCHANGED <<transfers, deposits>>
    BY <1>2 DEF Seed, SeedLegs
  <2> QED BY <1>0, <2>1, OthersStillMatch
<1>3. ASSUME NEW r \in Reqs, CommitFailed(r)
      PROVE  /\ \A k \in Keys : Matches(ledger', "transfer", k, transfers'[k])
             /\ \A d \in References : Matches(ledger', "deposit", d, deposits'[d])
  <2>1. PICK i : i = req[r].id
    OBVIOUS
  <2>a. PICK rec : rec = [status |-> "failed", params |-> req[r].params]
    OBVIOUS
  <2>b. rec.status = "failed"
    BY <2>a
  <2>2. /\ UNCHANGED <<ledger, deposits>> /\ transfers' = [transfers EXCEPT ![i] = rec]
        /\ transfers[i].status = "none"
    BY <1>3, <2>1, <2>a DEF CommitFailed, KeyUnused
  <2>3. i \in Keys => LegsOf(ledger, "transfer", i) = {}
    BY <1>0, <2>2, UnusedHasNoLegs
  <2>4. ASSUME NEW k \in Keys PROVE Matches(ledger', "transfer", k, transfers'[k])
    <3>1. transfers'[k] = IF k = i THEN rec ELSE transfers[k]
      BY <2>2 DEF Typed, TypeOK
    <3>2. CASE k = i
      <4>1. ledger' = ledger /\ LegsOf(ledger, "transfer", k) = {}
        BY <2>2, <2>3, <3>2
      <4>2. transfers'[k].status # "completed"
        BY <2>b, <3>1, <3>2
      <4> QED BY <4>1, <4>2 DEF Matches
    <3>3. CASE k # i
      BY <1>0, <2>2, <3>1, <3>3
    <3> QED BY <3>2, <3>3
  <2> QED BY <1>0, <2>2, <2>4
<1>4. ASSUME NEW r \in Reqs, RejectDeposit(r)
      PROVE  /\ \A k \in Keys : Matches(ledger', "transfer", k, transfers'[k])
             /\ \A d \in References : Matches(ledger', "deposit", d, deposits'[d])
  <2>1. PICK i : i = req[r].id
    OBVIOUS
  <2>a. PICK rec : rec = [status |-> "rejected", params |-> req[r].params]
    OBVIOUS
  <2>b. rec.status = "rejected"
    BY <2>a
  <2>2. /\ UNCHANGED <<ledger, transfers>> /\ deposits' = [deposits EXCEPT ![i] = rec]
        /\ pc[r] = "dep_lock"
    BY <1>4, <2>1, <2>a DEF RejectDeposit
  <2>3. i \in References => LegsOf(ledger, "deposit", i) = {}
    BY <1>0, <2>1, <2>2, UnusedHasNoLegs DEF DepositsInFlight
  <2>4. ASSUME NEW d \in References PROVE Matches(ledger', "deposit", d, deposits'[d])
    <3>1. deposits'[d] = IF d = i THEN rec ELSE deposits[d]
      BY <2>2 DEF Typed, TypeOK
    <3>2. CASE d = i
      <4>1. ledger' = ledger /\ LegsOf(ledger, "deposit", d) = {}
        BY <2>2, <2>3, <3>2
      <4>2. deposits'[d].status # "completed"
        BY <2>b, <3>1, <3>2
      <4> QED BY <4>1, <4>2 DEF Matches
    <3>3. CASE d # i
      BY <1>0, <2>2, <3>1, <3>3
    <3> QED BY <3>2, <3>3
  <2> QED BY <1>0, <2>2, <2>4
<1>5. ASSUME NEW r \in Reqs, CommitCompleted(r)
      PROVE  /\ \A k \in Keys : Matches(ledger', "transfer", k, transfers'[k])
             /\ \A d \in References : Matches(ledger', "deposit", d, deposits'[d])
  <2>1. PICK i, p, rec, txn :
           /\ i = req[r].id /\ p = req[r].params /\ rec = [status |-> "completed", params |-> p]
           /\ txn = FreshTxn(ledger, "transfer", i)
    OBVIOUS
  <2>2. /\ ledger' = ledger \cup LegPair(txn, "transfer", i, p.from, p.to, p.amount, NullKey)
        /\ transfers' = [transfers EXCEPT ![i] = rec] /\ UNCHANGED deposits
        /\ transfers[i].status = "none"
    BY <1>5, <2>1 DEF CommitCompleted, KeyUnused
  <2>3. i \in Keys => LegsOf(ledger, "transfer", i) = {}
    BY <1>0, <2>2, UnusedHasNoLegs
  <2>4. ASSUME NEW k \in Keys PROVE Matches(ledger', "transfer", k, transfers'[k])
    <3>1. transfers'[k] = IF k = i THEN rec ELSE transfers[k]
      BY <2>2 DEF Typed, TypeOK
    <3>2. CASE k = i
      <4>1. LegsOf(ledger, "transfer", i) = {}
        BY <2>3, <3>2
      <4>2. Matches(ledger \cup LegPair(txn, "transfer", i, p.from, p.to, p.amount, NullKey),
                    "transfer", i, [status |-> "completed", params |-> p])
        BY <4>1, PostedMatches
      <4> QED BY <2>1, <2>2, <3>1, <3>2, <4>2
    <3>3. CASE k # i
      BY <1>0, <2>2, <3>1, <3>3, OthersStillMatch
    <3> QED BY <3>2, <3>3
  <2>5. ASSUME NEW d \in References PROVE Matches(ledger', "deposit", d, deposits'[d])
    BY <1>0, <2>2, OthersStillMatch
  <2> QED BY <2>4, <2>5
<1>6. ASSUME NEW r \in Reqs, CreditDeposit(r)
      PROVE  /\ \A k \in Keys : Matches(ledger', "transfer", k, transfers'[k])
             /\ \A d \in References : Matches(ledger', "deposit", d, deposits'[d])
  <2>1. PICK i, p, rec, txn :
           /\ i = req[r].id /\ p = req[r].params /\ rec = [status |-> "completed", params |-> p]
           /\ txn = FreshTxn(ledger, "deposit", i)
    OBVIOUS
  <2>2. /\ ledger' = ledger \cup LegPair(txn, "deposit", i, SYSTEM, p.to, p.amount, NullKey)
        /\ deposits' = [deposits EXCEPT ![i] = rec] /\ UNCHANGED transfers
        /\ pc[r] = "dep_credit"
    BY <1>6, <2>1 DEF CreditDeposit
  <2>3. i \in References => LegsOf(ledger, "deposit", i) = {}
    BY <1>0, <2>1, <2>2, UnusedHasNoLegs DEF DepositsInFlight
  <2>4. p.from = SYSTEM
    BY <2>1, <2>2 DEF Typed, RequestsTyped, AskedDeposit, DepositPoints
  <2>5. ASSUME NEW d \in References PROVE Matches(ledger', "deposit", d, deposits'[d])
    <3>1. deposits'[d] = IF d = i THEN rec ELSE deposits[d]
      BY <2>2 DEF Typed, TypeOK
    <3>2. CASE d = i
      <4>1. ledger' = ledger \cup LegPair(txn, "deposit", i, p.from, p.to, p.amount, NullKey)
        BY <2>2, <2>4
      <4>2. LegsOf(ledger, "deposit", i) = {}
        BY <2>3, <3>2
      <4>3. Matches(ledger \cup LegPair(txn, "deposit", i, p.from, p.to, p.amount, NullKey),
                    "deposit", i, [status |-> "completed", params |-> p])
        BY <4>2, PostedMatches
      <4> QED BY <2>1, <3>1, <3>2, <4>1, <4>3
    <3>3. CASE d # i
      BY <1>0, <2>2, <3>1, <3>3, OthersStillMatch
    <3> QED BY <3>2, <3>3
  <2>6. ASSUME NEW k \in Keys PROVE Matches(ledger', "transfer", k, transfers'[k])
    BY <1>0, <2>2, OthersStillMatch
  <2> QED BY <2>5, <2>6
<1> QED BY <1>1, <1>2, <1>3, <1>4, <1>5, <1>6, TableSteps

\* Through retries, lost cache entries, duplicate webhooks and crashes, money moves exactly
\* once for a completed transfer or deposit and never for another (transfer,
\* simulate_deposit).
THEOREM RecordsMatch == Spec => []RecordsMatchLedger
<1>1. Init => Typed /\ DepositsInFlight /\ RecordsMatchLedger
  <2>1. Init => DepositsInFlight
    BY DEF Init, DepositsInFlight
  <2>2. ASSUME Init PROVE RecordsMatchLedger
    <3>1. NoRecord.status # "completed"
      BY DEF NoRecord
    <3> QED BY <2>2, <3>1 DEF Init, RecordsMatchLedger, LegsOf
  <2> QED BY <2>1, <2>2, TypingInit
<1>2. /\ Typed /\ DepositsInFlight /\ RecordsMatchLedger
      /\ [Next]_vars
      => (Typed /\ DepositsInFlight /\ RecordsMatchLedger)'
  BY TypingStep, InFlightStep, RecordsMatchStep
<1> QED BY <1>1, <1>2, PTL DEF Spec

-----------------------------------------------------------------------------
(* The cached responses *)

\* A step that changes a request is its own.
LEMMA UntouchedOrActs ==
    ASSUME Typed, [Next]_vars, NEW r \in Reqs
    PROVE  \/ pc'[r] = pc[r] /\ req'[r] = req[r]
           \/ Arrive(r) \/ Step(r) \/ Crash(r)
<1>1. CASE UNCHANGED <<pc, req>>
  BY <1>1
<1>2. ASSUME NEW s \in Reqs, Arrive(s), s # r PROVE pc'[r] = pc[r] /\ req'[r] = req[r]
  BY <1>2, Arrives
<1>3. ASSUME NEW s \in Reqs, Finish(s), s # r PROVE pc'[r] = pc[r] /\ req'[r] = req[r]
  BY <1>3, FinishesOne
<1>4. ASSUME NEW s \in Reqs, NEW point, Goto(s, point), req' = req, s # r
      PROVE  pc'[r] = pc[r] /\ req'[r] = req[r]
  BY <1>4, GoesOn
<1>5. ASSUME NEW s \in Reqs, Step(s), s # r PROVE pc'[r] = pc[r] /\ req'[r] = req[r]
  <2>1. CASE Finish(s)
    BY <1>3, <1>5, <2>1
  <2>2. CASE ~Finish(s)
    <3>1. PICK point : Goto(s, point) /\ req' = req
      BY <1>5, <2>2 DEF Step, CacheHit, CacheMiss, LockFirst, LockSecond, ReadBalance, CommitFailed,
              CommitCompleted, RefuseConflict, RefuseConsumed, ReplayExisting, CacheResponse,
              InsertDeposit, DuplicateDeposit, RejectDeposit, LockDeposit, CreditDeposit
    <3> QED BY <1>4, <1>5, <3>1
  <2> QED BY <2>1, <2>2
<1>6. ASSUME NEW s \in Reqs, Crash(s), s # r PROVE pc'[r] = pc[r] /\ req'[r] = req[r]
  BY <1>3, <1>6 DEF Crash
<1>7. ASSUME NEW s \in Reqs, Arrive(s) \/ Step(s) \/ Crash(s)
      PROVE  \/ pc'[r] = pc[r] /\ req'[r] = req[r]
             \/ Arrive(r) \/ Step(r) \/ Crash(r)
  BY <1>2, <1>5, <1>6, <1>7
<1>8. ASSUME NEW a \in Accounts, OpenAccount(a) PROVE UNCHANGED <<pc, req>>
  BY <1>8 DEF OpenAccount
<1>9. ASSUME NEW s \in SeedKeys, NEW a \in Accounts, NEW m \in Amounts, Seed(s, a, m)
      PROVE  UNCHANGED <<pc, req>>
  BY <1>9 DEF Seed
<1>10. ASSUME NEW k \in Keys, CacheExpire(k) PROVE UNCHANGED <<pc, req>>
  BY <1>10 DEF CacheExpire
<1>11. CASE UNCHANGED vars
  BY <1>1, <1>11 DEF vars
<1> QED BY <1>1, <1>7, <1>8, <1>9, <1>10, <1>11 DEF Next

\* How a request comes to the points that matter below.
LEMMA EntersPoint ==
    ASSUME Typed, NEW r \in Reqs, Arrive(r) \/ Step(r) \/ Crash(r)
    PROVE  /\ pc'[r] = "cache_set" => CommitCompleted(r) \/ ReplayExisting(r)
           /\ pc'[r] \in {"complete", "fail"} => ReadBalance(r)
<1>1. CASE Arrive(r)
  BY <1>1, Arrives
<1>2. CASE Finish(r)
  BY <1>2, FinishesOne
<1>3. CASE Step(r) /\ ~Finish(r)
  <2>1. PICK point : /\ Goto(r, point) /\ req' = req
                     /\ point = "cache_set" => CommitCompleted(r) \/ ReplayExisting(r)
                     /\ point \in {"complete", "fail"} => ReadBalance(r)
    <3>1. CASE CacheMiss(r)
      BY <3>1 DEF CacheMiss
    <3>2. CASE LockFirst(r) \/ LockSecond(r) \/ LockDeposit(r)
      BY <3>2 DEF LockFirst, LockSecond, LockDeposit
    <3>3. CASE ReadBalance(r)
      BY <3>3 DEF ReadBalance
    <3>4. CASE CommitCompleted(r)
      BY <3>4 DEF CommitCompleted
    <3>5. CASE ReplayExisting(r)
      BY <3>5 DEF ReplayExisting
    <3>6. CASE InsertDeposit(r)
      BY <3>6 DEF InsertDeposit
    <3> QED BY <1>3, <3>1, <3>2, <3>3, <3>4, <3>5, <3>6
            DEF Step, CacheHit, CommitFailed, RefuseConflict, RefuseConsumed, CacheResponse,
                DuplicateDeposit, RejectDeposit, CreditDeposit
  <2> QED BY <2>1, GoesOn
<1> QED BY <1>1, <1>2, <1>3 DEF Crash

\* Once written, a transfer's row never changes.
LEMMA RowStays ==
    ASSUME Typed, [Next]_vars, NEW k \in Keys, transfers[k].status # "none"
    PROVE  transfers'[k] = transfers[k]
<1>1. ASSUME NEW r \in Reqs, NEW rec, transfers' = [transfers EXCEPT ![req[r].id] = rec],
             transfers[req[r].id].status = "none"
      PROVE  transfers'[k] = transfers[k]
  BY <1>1 DEF Typed, TypeOK
<1>2. ASSUME NEW r \in Reqs, CommitFailed(r) \/ CommitCompleted(r) PROVE transfers'[k] = transfers[k]
  BY <1>1, <1>2 DEF CommitFailed, CommitCompleted, KeyUnused
<1>3. ASSUME NEW r \in Reqs, RejectDeposit(r) \/ CreditDeposit(r) PROVE transfers' = transfers
  BY <1>3 DEF RejectDeposit, CreditDeposit
<1>4. ASSUME NEW s \in SeedKeys, NEW a \in Accounts, NEW m \in Amounts, Seed(s, a, m)
      PROVE  transfers' = transfers
  BY <1>4 DEF Seed
<1> QED BY <1>2, <1>3, <1>4, TableSteps

\* A handler about to cache a response has seen its transfer committed.
CachePending ==
    \A r \in Reqs : pc[r] = "cache_set" =>
        transfers[req[r].id].status = "completed" /\ transfers[req[r].id].params = req[r].params

\* A committed row stays, so the response stays right until it is cached.
LEMMA CachePendingStep ==
    ASSUME Typed, CachePending, [Next]_vars
    PROVE  CachePending'
<1> SUFFICES ASSUME NEW r \in Reqs, pc'[r] = "cache_set"
             PROVE  /\ transfers'[req'[r].id].status = "completed"
                    /\ transfers'[req'[r].id].params = req'[r].params
  BY DEF CachePending
<1>1. CASE pc'[r] = pc[r] /\ req'[r] = req[r]
  <2>1. req[r].id \in Keys
    BY <1>1 DEF Typed, RequestsTyped, TransferPoints, AskedTransfer
  <2>2. transfers[req[r].id].status = "completed" /\ transfers[req[r].id].params = req[r].params
    BY <1>1 DEF CachePending
  <2>3. transfers'[req[r].id] = transfers[req[r].id]
    BY <2>1, <2>2, RowStays
  <2> QED BY <1>1, <2>2, <2>3
<1>2. CASE CommitCompleted(r)
  <2>1. req[r].id \in Keys
    BY <1>2 DEF CommitCompleted, Typed, RequestsTyped, TransferPoints, AskedTransfer
  <2>2. /\ transfers' = [transfers EXCEPT ![req[r].id] =
                            [status |-> "completed", params |-> req[r].params]]
        /\ req' = req
    BY <1>2 DEF CommitCompleted
  <2>3. transfers'[req[r].id] = [status |-> "completed", params |-> req[r].params]
    BY <2>1, <2>2 DEF Typed, TypeOK
  <2> QED BY <2>2, <2>3
<1>3. CASE ReplayExisting(r)
  <2>1. /\ transfers[req[r].id] = [status |-> "completed", params |-> req[r].params]
        /\ req' = req /\ transfers' = transfers
    BY <1>3 DEF ReplayExisting, tables
  <2> QED BY <2>1
<1> QED BY <1>1, <1>2, <1>3, UntouchedOrActs, EntersPoint

\* What is cached was committed with those parameters.
LEMMA CacheSoundStep ==
    ASSUME Typed, CachePending, CacheSound, [Next]_vars
    PROVE  CacheSound'
<1>1. ASSUME NEW k \in Keys, cache'[k] # NoParams
      PROVE  transfers[k].status = "completed" /\ transfers[k].params = cache'[k]
  <2>1. CASE cache'[k] = cache[k]
    <3>1. transfers[k] = [status |-> "completed", params |-> cache[k]]
      BY <1>1, <2>1 DEF CacheSound
    <3> QED BY <2>1, <3>1
  <2>2. ASSUME NEW r \in Reqs, CacheResponse(r)
        PROVE  \/ cache'[k] = cache[k]
               \/ transfers[k].status = "completed" /\ transfers[k].params = cache'[k]
    <3>1. pc[r] = "cache_set" /\ cache' = [cache EXCEPT ![req[r].id] = req[r].params]
      BY <2>2 DEF CacheResponse
    <3>2. CASE k = req[r].id
      <4>1. cache'[k] = req[r].params
        BY <3>1, <3>2 DEF Typed, TypeOK
      <4> QED BY <3>1, <3>2, <4>1 DEF CachePending
    <3>3. CASE k # req[r].id
      BY <3>1, <3>3 DEF Typed, TypeOK
    <3> QED BY <3>2, <3>3
  <2>3. ASSUME NEW j \in Keys, CacheExpire(j) PROVE cache'[k] = cache[k]
    <3>1. cache' = [cache EXCEPT ![j] = NoParams]
      BY <2>3 DEF CacheExpire
    <3> QED BY <1>1, <3>1 DEF Typed, TypeOK
  <2>4. ASSUME NEW r \in Reqs, Step(r), ~CacheResponse(r) PROVE cache' = cache
    BY <2>4 DEF Step, CacheHit, CacheMiss, LockFirst, LockSecond, ReadBalance, CommitFailed,
              CommitCompleted, RefuseConflict, RefuseConsumed, ReplayExisting,
              InsertDeposit, DuplicateDeposit, RejectDeposit, LockDeposit, CreditDeposit
  <2>5. ASSUME NEW r \in Reqs, Arrive(r) \/ Crash(r) PROVE cache' = cache
    BY <2>5, Arrives DEF Crash
  <2>6. ASSUME NEW a \in Accounts, OpenAccount(a) PROVE cache' = cache
    BY <2>6 DEF OpenAccount
  <2>7. ASSUME NEW s \in SeedKeys, NEW a \in Accounts, NEW m \in Amounts, Seed(s, a, m)
        PROVE  cache' = cache
    BY <2>7 DEF Seed
  <2>8. CASE UNCHANGED vars
    BY <2>1, <2>8 DEF vars
  <2> QED BY <2>1, <2>2, <2>3, <2>4, <2>5, <2>6, <2>7, <2>8 DEF Next
<1> SUFFICES ASSUME NEW k \in Keys, cache'[k] # NoParams
             PROVE  transfers'[k] = [status |-> "completed", params |-> cache'[k]]
  BY DEF CacheSound
<1>2. transfers[k].status = "completed" /\ transfers[k].params = cache'[k]
  BY <1>1
<1>3. transfers'[k] = transfers[k]
  BY <1>2, RowStays
<1>4. transfers[k] \in Records({"completed", "failed"})
  BY DEF Typed, TypeOK
<1>5. \A rec \in Records({"completed", "failed"}) :
         rec = [status |-> rec.status, params |-> rec.params]
  BY DEF Records
<1>6. transfers[k] = [status |-> transfers[k].status, params |-> transfers[k].params]
  BY <1>4, <1>5
<1> QED BY <1>2, <1>3, <1>6

\* A response replayed from Redis is that of a committed transfer with the same parameters
\* (transfer caches "only after confirmed commit").
THEOREM CacheIsSound == Spec => []CacheSound
<1>1. Init => Typed /\ CachePending /\ CacheSound
  <2>1. Init => CachePending /\ CacheSound
    BY DEF Init, CachePending, CacheSound
  <2> QED BY <2>1, TypingInit
<1>2. Typed /\ CachePending /\ CacheSound /\ [Next]_vars => (Typed /\ CachePending /\ CacheSound)'
  BY TypingStep, CachePendingStep, CacheSoundStep
<1> QED BY <1>1, <1>2, PTL DEF Spec

-----------------------------------------------------------------------------
(* Balances *)

\* A seed's legs are recognised by their key.
SeedsKeyed ==
    \A l \in ledger : l.entry_type = "seed" =>
        \E m \in ledger : m.idempotency_key = <<"seed", l.reference_id>>

\* The legs are finitely many, and every seed among them carries its key.
LedgerSound == IsFiniteSet(ledger) /\ SeedsKeyed

\* A posting adds two legs, and a seed's carry their key.
LEMMA PostKeepsSound ==
    ASSUME LedgerSound, NEW txn, NEW e, NEW ref, NEW d, NEW c, NEW amt, NEW idem,
           ledger' = ledger \cup LegPair(txn, e, ref, d, c, amt, idem),
           e = "seed" => idem = <<"seed", ref>>
    PROVE  LedgerSound'
<1> DEFINE pair == LegPair(txn, e, ref, d, c, amt, idem)
<1>1. IsFiniteSet(pair)
  BY LegPairSize
<1>2. \E m \in pair : m.idempotency_key = idem
  BY DEF LegPair
<1>3. \A l \in pair : l.entry_type = e /\ l.reference_id = ref
  BY LegPairFields
<1>4. ledger' = ledger \cup pair
  OBVIOUS
<1> HIDE DEF pair
<1>5. IsFiniteSet(ledger')
  BY <1>1, <1>4, FS_Union DEF LedgerSound
<1>6. SeedsKeyed'
  BY <1>2, <1>3, <1>4 DEF LedgerSound, SeedsKeyed
<1> QED BY <1>5, <1>6 DEF LedgerSound

\* Every step of the system posts so.
LEMMA LedgerSoundStep ==
    ASSUME LedgerSound, [Next]_vars
    PROVE  LedgerSound'
<1>1. ASSUME UNCHANGED ledger PROVE LedgerSound'
  BY <1>1 DEF LedgerSound, SeedsKeyed
<1>2. ASSUME NEW s \in SeedKeys, NEW a \in Accounts, NEW m \in Amounts, Seed(s, a, m)
      PROVE  LedgerSound'
  <2>1. ledger' = ledger \cup LegPair(0, "seed", s, SYSTEM, a, m, <<"seed", s>>)
    BY <1>2 DEF Seed, SeedLegs
  <2> QED BY <2>1, PostKeepsSound
<1>3. ASSUME NEW r \in Reqs, CommitCompleted(r) PROVE LedgerSound'
  <2>1. PICK k, p, txn : ledger' = ledger \cup LegPair(txn, "transfer", k, p.from, p.to, p.amount, NullKey)
    BY <1>3 DEF CommitCompleted
  <2>2. PICK d, c, amt : d = p.from /\ c = p.to /\ amt = p.amount
    OBVIOUS
  <2>3. ledger' = ledger \cup LegPair(txn, "transfer", k, d, c, amt, NullKey)
    BY <2>1, <2>2
  <2> QED BY <2>3, PostKeepsSound
<1>4. ASSUME NEW r \in Reqs, CreditDeposit(r) PROVE LedgerSound'
  <2>1. PICK k, p, txn : ledger' = ledger \cup LegPair(txn, "deposit", k, SYSTEM, p.to, p.amount, NullKey)
    BY <1>4 DEF CreditDeposit
  <2>2. PICK c, amt : c = p.to /\ amt = p.amount
    OBVIOUS
  <2>3. ledger' = ledger \cup LegPair(txn, "deposit", k, SYSTEM, c, amt, NullKey)
    BY <2>1, <2>2
  <2> QED BY <2>3, PostKeepsSound
<1>5. ASSUME NEW r \in Reqs, CommitFailed(r) \/ RejectDeposit(r) PROVE LedgerSound'
  BY <1>1, <1>5 DEF CommitFailed, RejectDeposit
<1> QED BY <1>1, <1>2, <1>3, <1>4, <1>5, TableSteps

\* The sums of LedgerProofs apply to the ledger.
LEMMA LedgerIsGood ==
    ASSUME Typed, LedgerSound
    PROVE  GoodLedger(ledger)
<1>1. \A l \in ledger : l.amount \in Amounts
  BY DEF Typed, TypeOK
<1>2. Amounts \subseteq Int
  BY AmountsAssumption
<1>3. \A l \in ledger : l.amount \in Int
  BY <1>1, <1>2
<1> QED BY <1>3 DEF LedgerSound, GoodLedger

\* The movement of amt from d to c.
Moves(d, c, amt) ==
    /\ GoodLedger(ledger')
    /\ \A a : GetBalance(ledger', a) = GetBalance(ledger, a) + (IF d = a THEN -amt ELSE 0)
                                                             + (IF c = a THEN amt ELSE 0)

\* A first posting moves its amount.
LEMMA PostMoves ==
    ASSUME Typed, LedgerSound, NEW txn, NEW e, NEW ref, NEW d, NEW c, NEW amt \in Amounts, NEW idem,
           LegsOf(ledger, e, ref) = {},
           ledger' = ledger \cup LegPair(txn, e, ref, d, c, amt, idem)
    PROVE  Moves(d, c, amt)
<1>1. GoodLedger(ledger)
  BY LedgerIsGood
<1>2. amt \in Int
  BY AmountsAssumption
<1>3. ledger \cap LegPair(txn, e, ref, d, c, amt, idem) = {}
  BY FirstPostingFresh
<1>4. PICK M : M = ledger \cup LegPair(txn, e, ref, d, c, amt, idem)
  OBVIOUS
<1>5. ASSUME NEW a
      PROVE  /\ GoodLedger(M)
             /\ GetBalance(M, a) = GetBalance(ledger, a) + (IF d = a THEN -amt ELSE 0)
                                                  + (IF c = a THEN amt ELSE 0)
  BY <1>1, <1>2, <1>3, <1>4, PostingMoves
<1>6. GoodLedger(M)
  BY <1>5
<1>7. \A a : GetBalance(M, a) = GetBalance(ledger, a) + (IF d = a THEN -amt ELSE 0)
                                                  + (IF c = a THEN amt ELSE 0)
  BY <1>5
<1>8. ledger' = M
  BY <1>4
<1> QED BY <1>6, <1>7, <1>8 DEF Moves

\* A seed is posted only under a key no leg has.
LEMMA SeedUnused ==
    ASSUME LedgerSound, NEW s \in SeedKeys, NEW a, NEW m, Seed(s, a, m)
    PROVE  LegsOf(ledger, "seed", s) = {}
<1>1. ~UniqueViolation(ledger, LegPair(0, "seed", s, SYSTEM, a, m, <<"seed", s>>))
  BY DEF Seed, SeedLegs
<1>2. <<"seed", s>> # NullKey
  BY DEF NullKey
<1>3. \E n \in LegPair(0, "seed", s, SYSTEM, a, m, <<"seed", s>>) : n.idempotency_key = <<"seed", s>>
  BY DEF LegPair
<1>4. \A l \in ledger : l.idempotency_key # <<"seed", s>>
  BY <1>1, <1>2, <1>3 DEF UniqueViolation
<1> QED BY <1>4 DEF LegsOf, LedgerSound, SeedsKeyed

\* A seed moves its amount from the system account.
LEMMA SeedMoves ==
    ASSUME Typed, LedgerSound, NEW s \in SeedKeys, NEW a \in Accounts, NEW m \in Amounts, Seed(s, a, m)
    PROVE  Moves(SYSTEM, a, m)
<1>1. ledger' = ledger \cup LegPair(0, "seed", s, SYSTEM, a, m, <<"seed", s>>)
  BY DEF Seed, SeedLegs
<1>2. LegsOf(ledger, "seed", s) = {}
  BY SeedUnused
<1> QED BY <1>1, <1>2, PostMoves

\* A completed transfer moves its amount.
LEMMA TransferMoves ==
    ASSUME Typed, LedgerSound, RecordsMatchLedger, NEW r \in Reqs, CommitCompleted(r)
    PROVE  Moves(req[r].params.from, req[r].params.to, req[r].params.amount)
<1>1. PICK k, p : k = req[r].id /\ p = req[r].params
  OBVIOUS
<1>2. PICK d, c, amt, txn : /\ d = p.from /\ c = p.to /\ amt = p.amount
                            /\ txn = FreshTxn(ledger, "transfer", k)
  OBVIOUS
<1>3. /\ pc[r] = "complete" /\ transfers[k].status = "none"
      /\ ledger' = ledger \cup LegPair(txn, "transfer", k, d, c, amt, NullKey)
  BY <1>1, <1>2 DEF CommitCompleted, KeyUnused
<1>4. k \in Keys /\ amt \in Amounts
  BY <1>1, <1>2, <1>3 DEF Typed, RequestsTyped, TransferPoints, AskedTransfer
<1>5. LegsOf(ledger, "transfer", k) = {}
  BY <1>3, <1>4 DEF RecordsMatchLedger
<1>6. Moves(d, c, amt)
  BY <1>3, <1>4, <1>5, PostMoves
<1> QED BY <1>1, <1>2, <1>6

\* A credited deposit moves its amount from the system account.
LEMMA DepositMoves ==
    ASSUME Typed, LedgerSound, RecordsMatchLedger, DepositsInFlight, NEW r \in Reqs, CreditDeposit(r)
    PROVE  Moves(SYSTEM, req[r].params.to, req[r].params.amount)
<1>1. PICK k, p : k = req[r].id /\ p = req[r].params
  OBVIOUS
<1>2. PICK c, amt, txn : /\ c = p.to /\ amt = p.amount
                         /\ txn = FreshTxn(ledger, "deposit", k)
  OBVIOUS
<1>3. /\ pc[r] = "dep_credit"
      /\ ledger' = ledger \cup LegPair(txn, "deposit", k, SYSTEM, c, amt, NullKey)
  BY <1>1, <1>2 DEF CreditDeposit
<1>4. k \in References /\ amt \in Amounts
  BY <1>1, <1>2, <1>3 DEF Typed, RequestsTyped, DepositPoints, AskedDeposit
<1>5. deposits[k].status = "none"
  BY <1>1, <1>3 DEF DepositsInFlight
<1>6. LegsOf(ledger, "deposit", k) = {}
  BY <1>4, <1>5 DEF RecordsMatchLedger
<1>7. Moves(SYSTEM, c, amt)
  BY <1>3, <1>4, <1>6, PostMoves
<1> QED BY <1>1, <1>2, <1>7

\* Only seeds, completed transfers and credited deposits post.
LEMMA LedgerSteps ==
    ASSUME [Next]_vars
    PROVE  \/ ledger' = ledger
           \/ \E s \in SeedKeys, a \in Accounts, m \in Amounts : Seed(s, a, m)
           \/ \E r \in Reqs : CommitCompleted(r) \/ CreditDeposit(r)
<1>1. ASSUME NEW r \in Reqs, CommitFailed(r) \/ RejectDeposit(r) PROVE ledger' = ledger
  BY <1>1 DEF CommitFailed, RejectDeposit
<1> QED BY <1>1, TableSteps

\* A user's balance does not change while another request holds the row lock.
LEMMA LockedBalanceStays ==
    ASSUME Typed, LocksHeld, LedgerSound, RecordsMatchLedger, DepositsInFlight, [Next]_vars,
           NEW r \in Reqs, NEW a \in Accounts, lock[a] = r
    PROVE  \/ GetBalance(ledger', a) = GetBalance(ledger, a)
           \/ CommitCompleted(r) \/ CreditDeposit(r)
<1>1. a # SYSTEM /\ a \in Owners
  BY SystemAssumption DEF Owners
<1>2. GetBalance(ledger, a) \in Int
  BY LedgerIsGood, BalanceType
<1>3. ASSUME NEW d, NEW c, NEW amt \in Amounts, Moves(d, c, amt), d # a, c # a
      PROVE  GetBalance(ledger', a) = GetBalance(ledger, a)
  BY <1>2, <1>3 DEF Moves
<1>4. ASSUME NEW s \in SeedKeys, NEW b \in Accounts, NEW m \in Amounts, Seed(s, b, m)
      PROVE  GetBalance(ledger', a) = GetBalance(ledger, a)
  <2>1. lock[b] = Nobody
    BY <1>4 DEF Seed
  <2>2. b # a
    BY <2>1, NobodyAssumption
  <2>3. Moves(SYSTEM, b, m)
    BY <1>4, SeedMoves
  <2> QED BY <1>1, <1>3, <2>2, <2>3
<1>5. ASSUME NEW s \in Reqs, CommitCompleted(s), s # r
      PROVE  GetBalance(ledger', a) = GetBalance(ledger, a)
  <2>1. pc[s] = "complete"
    BY <1>5 DEF CommitCompleted
  <2>2. req[s].params.from # a /\ req[s].params.to # a
    BY <1>1, <1>5, <2>1 DEF LocksHeld, Holds
  <2>3. req[s].params.amount \in Amounts
    BY <2>1, AskedTyped DEF TransferPoints
  <2>4. Moves(req[s].params.from, req[s].params.to, req[s].params.amount)
    BY <1>5, TransferMoves
  <2> QED BY <1>3, <2>2, <2>3, <2>4
<1>6. ASSUME NEW s \in Reqs, CreditDeposit(s), s # r
      PROVE  GetBalance(ledger', a) = GetBalance(ledger, a)
  <2>1. pc[s] = "dep_credit"
    BY <1>6 DEF CreditDeposit
  <2>2. req[s].params.to # a
    BY <1>1, <1>6, <2>1 DEF LocksHeld, Holds
  <2>3. req[s].params.amount \in Amounts
    BY <2>1, AskedTyped DEF DepositPoints
  <2>4. Moves(SYSTEM, req[s].params.to, req[s].params.amount)
    BY <1>6, DepositMoves
  <2> QED BY <1>1, <1>3, <2>2, <2>3, <2>4
<1> QED BY <1>4, <1>5, <1>6, LedgerSteps

\* The balance a transfer was decided on is still that of its sender.
DecidedOnBalance ==
    \A r \in Reqs :
        /\ pc[r] = "complete" => GetBalance(ledger, req[r].params.from) >= req[r].params.amount
        /\ pc[r] = "fail" => GetBalance(ledger, req[r].params.from) < req[r].params.amount

\* The decision stays right: the sender's row is locked until the commit.
LEMMA DecidedStep ==
    ASSUME Typed, LocksHeld, LedgerSound, RecordsMatchLedger, DepositsInFlight, DecidedOnBalance,
           [Next]_vars
    PROVE  DecidedOnBalance'
<1> SUFFICES ASSUME NEW r \in Reqs, pc'[r] \in {"complete", "fail"}
             PROVE  /\ pc'[r] = "complete" => GetBalance(ledger', req'[r].params.from) >= req'[r].params.amount
                    /\ pc'[r] = "fail" => GetBalance(ledger', req'[r].params.from) < req'[r].params.amount
  BY DEF DecidedOnBalance
<1>1. CASE pc'[r] = pc[r] /\ req'[r] = req[r]
  <2>1. req[r].params.from \in Accounts
    BY <1>1 DEF Typed, RequestsTyped, TransferPoints, AskedTransfer
  <2>2. lock[req[r].params.from] = r
    BY <1>1, <2>1 DEF LocksHeld, Holds, Owners
  <2>3. ~CommitCompleted(r) /\ ~CreditDeposit(r)
    BY <1>1, FinishesOne, GoesOn DEF CommitCompleted, CreditDeposit
  <2>4. GetBalance(ledger', req[r].params.from) = GetBalance(ledger, req[r].params.from)
    BY <2>1, <2>2, <2>3, LockedBalanceStays
  <2> QED BY <1>1, <2>4 DEF DecidedOnBalance
<1>2. CASE ReadBalance(r)
  <2>1. PICK a, amt : a = req[r].params.from /\ amt = req[r].params.amount
    OBVIOUS
  <2>2. /\ Goto(r, IF GetBalance(ledger, a) < amt THEN "fail" ELSE "complete")
        /\ ledger' = ledger /\ req' = req /\ pc[r] = "balance"
    BY <1>2, <2>1 DEF ReadBalance, tables
  <2>3. pc'[r] = IF GetBalance(ledger, a) < amt THEN "fail" ELSE "complete"
    BY <2>2, GoesOn
  <2>4. GetBalance(ledger, a) \in Int
    BY LedgerIsGood, BalanceType
  <2>5. amt \in Int
    <3>1. amt \in Amounts
      BY <2>1, <2>2, AskedTyped DEF TransferPoints
    <3> QED BY <3>1, AmountsAssumption
  <2> QED BY <2>1, <2>2, <2>3, <2>4, <2>5
<1> QED BY <1>1, <1>2, UntouchedOrActs, EntersPoint

\* Only a transfer takes from a user, and it was decided on the balance.
LEMMA NoOverdraftStep ==
    ASSUME Typed, LedgerSound, RecordsMatchLedger, DepositsInFlight, DecidedOnBalance, NoOverdraft,
           [Next]_vars
    PROVE  NoOverdraft'
<1> SUFFICES ASSUME NEW a \in Accounts PROVE GetBalance(ledger', a) >= 0
  BY DEF NoOverdraft
<1>1. a # SYSTEM
  BY SystemAssumption
<1>2. GetBalance(ledger, a) \in Int /\ GetBalance(ledger, a) >= 0
  BY LedgerIsGood, BalanceType DEF NoOverdraft
<1>3. ASSUME NEW d, NEW c, NEW amt \in Amounts, Moves(d, c, amt),
             d = a => GetBalance(ledger, a) >= amt
      PROVE  GetBalance(ledger', a) >= 0
  <2>1. amt \in Nat
    BY AmountsAssumption
  <2>2. GetBalance(ledger', a) = GetBalance(ledger, a) + (IF d = a THEN -amt ELSE 0)
                                                       + (IF c = a THEN amt ELSE 0)
    BY <1>3 DEF Moves
  <2> QED BY <1>2, <1>3, <2>1, <2>2
<1>4. ASSUME NEW s \in SeedKeys, NEW b \in Accounts, NEW m \in Amounts, Seed(s, b, m)
      PROVE  GetBalance(ledger', a) >= 0
  BY <1>1, <1>3, <1>4, SeedMoves
<1>5. ASSUME NEW r \in Reqs, CommitCompleted(r) PROVE GetBalance(ledger', a) >= 0
  <2>1. pc[r] = "complete"
    BY <1>5 DEF CommitCompleted
  <2>2. req[r].params.amount \in Amounts
    BY <2>1, AskedTyped DEF TransferPoints
  <2>3. GetBalance(ledger, req[r].params.from) >= req[r].params.amount
    BY <2>1 DEF DecidedOnBalance
  <2>4. Moves(req[r].params.from, req[r].params.to, req[r].params.amount)
    BY <1>5, TransferMoves
  <2> QED BY <1>3, <2>2, <2>3, <2>4
<1>6. ASSUME NEW r \in Reqs, CreditDeposit(r) PROVE GetBalance(ledger', a) >= 0
  <2>1. pc[r] = "dep_credit"
    BY <1>6 DEF CreditDeposit
  <2>2. req[r].params.amount \in Amounts
    BY <2>1, AskedTyped DEF DepositPoints
  <2>3. Moves(SYSTEM, req[r].params.to, req[r].params.amount)
    BY <1>6, DepositMoves
  <2> QED BY <1>1, <1>3, <2>2, <2>3
<1> QED BY <1>2, <1>4, <1>5, <1>6, LedgerSteps

\* Everything that holds together: the inductive invariant of the balances.
BankInv ==
    /\ Typed /\ LocksHeld /\ DepositsInFlight
    /\ RecordsMatchLedger /\ LedgerSound /\ DecidedOnBalance /\ NoOverdraft

\* The invariant holds.
LEMMA BankInvHolds == Spec => []BankInv
<1>1. Init => BankInv
  <2> SUFFICES ASSUME Init PROVE BankInv
    OBVIOUS
  <2>1. LocksHeld
    BY NobodyAssumption DEF Init, LocksHeld, Holds
  <2>2. DepositsInFlight /\ DecidedOnBalance
    BY DEF Init, DepositsInFlight, DecidedOnBalance
  <2>3. RecordsMatchLedger
    <3>1. NoRecord.status # "completed"
      BY DEF NoRecord
    <3> QED BY <3>1 DEF Init, RecordsMatchLedger, LegsOf
  <2>4. LedgerSound
    BY FS_EmptySet DEF Init, LedgerSound, SeedsKeyed
  <2>5. NoOverdraft
    <3>1. \A a \in Accounts : GetBalance({}, a) >= 0
      BY EmptyBalance
    <3>2. ledger = {}
      BY DEF Init
    <3> QED BY <3>1, <3>2 DEF NoOverdraft
  <2> QED BY <2>1, <2>2, <2>3, <2>4, <2>5, TypingInit DEF BankInv
<1>2. BankInv /\ [Next]_vars => BankInv'
  BY TypingStep, NextKeepsLocks, InFlightStep, RecordsMatchStep, LedgerSoundStep, DecidedStep,
     NoOverdraftStep DEF BankInv
<1> QED BY <1>1, <1>2, PTL DEF Spec

\* No interleaving of transfers, deposits and seeds takes a user below zero: the balance
\* transfer reads under FOR UPDATE still holds when it commits.
THEOREM NeverOverdrawn == Spec => []NoOverdraft
<1>1. BankInv => NoOverdraft
  BY DEF BankInv
<1> QED BY <1>1, BankInvHolds, PTL

-----------------------------------------------------------------------------
(* Refinement *)

\* A row that does not exist is blank.
BlankUnused ==
    /\ \A k \in Keys : transfers[k].status = "none" => transfers[k] = NoRecord
    /\ \A d \in References : deposits[d].status = "none" => deposits[d] = NoRecord

\* The commits write rows with a status.
LEMMA BlankStep ==
    ASSUME Typed, BlankUnused, [Next]_vars
    PROVE  BlankUnused'
<1>1. CASE UNCHANGED <<transfers, deposits>>
  BY <1>1 DEF BlankUnused
<1>2. ASSUME NEW i, NEW rec, rec.status # "none", transfers' = [transfers EXCEPT ![i] = rec],
             UNCHANGED deposits
      PROVE  BlankUnused'
  BY <1>2 DEF BlankUnused, Typed, TypeOK
<1>3. ASSUME NEW i, NEW rec, rec.status # "none", deposits' = [deposits EXCEPT ![i] = rec],
             UNCHANGED transfers
      PROVE  BlankUnused'
  BY <1>3 DEF BlankUnused, Typed, TypeOK
<1>4. ASSUME NEW r \in Reqs, CommitFailed(r) PROVE BlankUnused'
  <2>1. PICK rec : rec = [status |-> "failed", params |-> req[r].params]
    OBVIOUS
  <2>2. rec.status # "none"
    BY <2>1
  <2>3. transfers' = [transfers EXCEPT ![req[r].id] = rec] /\ UNCHANGED deposits
    BY <1>4, <2>1 DEF CommitFailed
  <2> QED BY <1>2, <2>2, <2>3
<1>5. ASSUME NEW r \in Reqs, CommitCompleted(r) PROVE BlankUnused'
  <2>1. PICK rec : rec = [status |-> "completed", params |-> req[r].params]
    OBVIOUS
  <2>2. rec.status # "none"
    BY <2>1
  <2>3. transfers' = [transfers EXCEPT ![req[r].id] = rec] /\ UNCHANGED deposits
    BY <1>5, <2>1 DEF CommitCompleted
  <2> QED BY <1>2, <2>2, <2>3
<1>6. ASSUME NEW r \in Reqs, RejectDeposit(r) PROVE BlankUnused'
  <2>1. PICK rec : rec = [status |-> "rejected", params |-> req[r].params]
    OBVIOUS
  <2>2. rec.status # "none"
    BY <2>1
  <2>3. deposits' = [deposits EXCEPT ![req[r].id] = rec] /\ UNCHANGED transfers
    BY <1>6, <2>1 DEF RejectDeposit
  <2> QED BY <1>3, <2>2, <2>3
<1>7. ASSUME NEW r \in Reqs, CreditDeposit(r) PROVE BlankUnused'
  <2>1. PICK rec : rec = [status |-> "completed", params |-> req[r].params]
    OBVIOUS
  <2>2. rec.status # "none"
    BY <2>1
  <2>3. deposits' = [deposits EXCEPT ![req[r].id] = rec] /\ UNCHANGED transfers
    BY <1>7, <2>1 DEF CreditDeposit
  <2> QED BY <1>3, <2>2, <2>3
<1>8. ASSUME NEW s \in SeedKeys, NEW a \in Accounts, NEW m \in Amounts, Seed(s, a, m)
      PROVE  UNCHANGED <<transfers, deposits>>
  BY <1>8 DEF Seed
<1> QED BY <1>1, <1>4, <1>5, <1>6, <1>7, <1>8, TableSteps

\* The refinement mapping: balances and seeds as the ledger gives them.
Balances == [a \in Owners |-> GetBalance(ledger, a)]
Seeded == { s \in SeedKeys : LegsOf(ledger, "seed", s) # {} }

\* An empty ledger is the bank at its start.
LEMMA BankInit == Init => Bank!Init
<1> SUFFICES ASSUME Init PROVE Bank!Init
  OBVIOUS
<1>1. ledger = {}
  BY DEF Init
<1>2. Balances = [a \in Owners |-> 0]
  BY <1>1, EmptyBalance DEF Balances
<1>3. Seeded = {}
  BY <1>1 DEF Seeded, LegsOf
<1> QED BY <1>2, <1>3 DEF Init, Bank!Init, Balances, Seeded

\* What commits nothing is a stutter of the bank.
LEMMA BankStutters ==
    ASSUME UNCHANGED <<ledger, transfers, deposits>>
    PROVE  UNCHANGED Bank!vars
BY DEF Bank!vars, LegsOf

\* In terms of the bank's balances, a posting moves the amount.
LEMMA BankMoves ==
    ASSUME Typed, LedgerSound, NEW p, p.from \in Owners, p.to \in Owners, p.from # p.to,
           p.amount \in Amounts, Moves(p.from, p.to, p.amount)
    PROVE  Bank!Move(p)
<1>1. PICK d, c, amt : d = p.from /\ c = p.to /\ amt = p.amount
  OBVIOUS
<1>2. amt \in Int /\ d \in Owners /\ c \in Owners /\ d # c
  <2>1. amt \in Amounts /\ d \in Owners /\ c \in Owners /\ d # c
    BY <1>1
  <2> QED BY <2>1, AmountsAssumption
<1>3. \A a : GetBalance(ledger, a) \in Int
  BY LedgerIsGood, BalanceType
<1>4. \A a : GetBalance(ledger', a) = GetBalance(ledger, a) + (IF d = a THEN -amt ELSE 0)
                                                             + (IF c = a THEN amt ELSE 0)
  BY <1>1 DEF Moves
<1>5. ASSUME NEW a \in Owners
      PROVE  GetBalance(ledger', a) = IF a = c THEN GetBalance(ledger, a) + amt
                                      ELSE IF a = d THEN GetBalance(ledger, a) - amt
                                      ELSE GetBalance(ledger, a)
  BY <1>2, <1>3, <1>4
<1>6. PICK B, C : B = Balances /\ C = [a \in Owners |-> GetBalance(ledger', a)]
  OBVIOUS
<1>7. C = [B EXCEPT ![d] = @ - amt, ![c] = @ + amt]
  BY <1>2, <1>5, <1>6 DEF Balances
<1> QED BY <1>1, <1>6, <1>7 DEF Bank!Move, Balances

\* The bank's users are the accounts.
LEMMA BankUsers ==
    /\ Bank!Users = Accounts
    /\ SYSTEM \in Owners /\ Accounts \subseteq Owners
BY SystemAssumption DEF Bank!Users, Owners

\* Transfers and deposits post no seed.
LEMMA SeededStays ==
    ASSUME NEW txn, NEW e, NEW ref, NEW d, NEW c, NEW amt, NEW idem, e # "seed",
           ledger' = ledger \cup LegPair(txn, e, ref, d, c, amt, idem)
    PROVE  Seeded' = Seeded
<1> DEFINE pair == LegPair(txn, e, ref, d, c, amt, idem)
<1>1. LegsAre(pair, e, ref)
  BY LegPairFields DEF LegsAre
<1>2. ledger' = ledger \cup pair
  OBVIOUS
<1> HIDE DEF pair
<1>3. \A s \in SeedKeys : LegsOf(ledger \cup pair, "seed", s) = LegsOf(ledger, "seed", s)
  BY <1>1, OtherLegsAfterPosting
<1>4. \A s \in SeedKeys : LegsOf(ledger', "seed", s) = LegsOf(ledger, "seed", s)
  BY <1>2, <1>3
<1> QED BY <1>4 DEF Seeded

\* A seed is the bank's.
LEMMA BankSeed ==
    ASSUME Typed, LedgerSound, NEW s \in SeedKeys, NEW a \in Accounts, NEW m \in Amounts, Seed(s, a, m)
    PROVE  Bank!Next
<1>1. PICK p : p = [from |-> SYSTEM, to |-> a, amount |-> m]
  OBVIOUS
<1>2. p.from = SYSTEM /\ p.to = a /\ p.amount = m /\ p \in Bank!Movements
  BY <1>1, BankUsers DEF Bank!Movements
<1>3. Bank!Move(p)
  <2>1. Moves(p.from, p.to, p.amount)
    BY <1>2, SeedMoves
  <2>2. p.from \in Owners /\ p.to \in Owners /\ p.from # p.to /\ p.amount \in Amounts
    BY <1>2, BankUsers, SystemAssumption
  <2> QED BY <2>1, <2>2, BankMoves
<1>4. s \notin Seeded
  BY SeedUnused DEF Seeded
<1>5. Seeded' = Seeded \cup {s}
  <2> DEFINE pair == LegPair(0, "seed", s, SYSTEM, a, m, <<"seed", s>>)
  <2>1. ledger' = ledger \cup pair
    BY DEF Seed, SeedLegs
  <2>2. LegsAre(pair, "seed", s)
    BY LegPairFields DEF LegsAre
  <2>3. pair # {}
    BY DEF LegPair
  <2> HIDE DEF pair
  <2>4. LegsOf(ledger', "seed", s) # {}
    BY <2>1, <2>2, <2>3, LegsAfterPosting
  <2>5. \A t \in SeedKeys : t # s => LegsOf(ledger', "seed", t) = LegsOf(ledger, "seed", t)
    <3>1. \A t \in SeedKeys : t # s => LegsOf(ledger \cup pair, "seed", t) = LegsOf(ledger, "seed", t)
      BY <2>2, OtherLegsAfterPosting
    <3> QED BY <2>1, <3>1
  <2> QED BY <2>4, <2>5 DEF Seeded
<1>6. UNCHANGED <<transfers, deposits>>
  BY DEF Seed
<1>7. Bank!Seed(s, p)
  BY <1>2, <1>3, <1>4, <1>5, <1>6, BankUsers DEF Bank!Seed, Seeded
<1> QED BY <1>2, <1>7 DEF Bank!Next

\* A committed transfer is the bank's, completed or refused.
LEMMA BankTransfer ==
    ASSUME BankInv, BlankUnused, NEW r \in Reqs, CommitCompleted(r) \/ CommitFailed(r)
    PROVE  Bank!Next
<1> USE DEF BankInv
<1>1. PICK k, p : k = req[r].id /\ p = req[r].params
  OBVIOUS
<1>2. pc[r] \in {"complete", "fail"} /\ transfers[k].status = "none"
  BY <1>1 DEF CommitCompleted, CommitFailed, KeyUnused
<1>3. /\ k \in Keys /\ p.from \in Accounts /\ p.to \in Owners /\ p.from # p.to
      /\ p.amount \in Amounts /\ p \in Params
  BY <1>1, <1>2, AskedTyped DEF Typed, RequestsTyped, TransferPoints, AskedTransfer
<1>4. p \in Bank!Movements
  BY <1>3 DEF Params, Bank!Movements
<1>5. transfers[k] = NoRecord
  BY <1>2, <1>3 DEF BlankUnused
<1>6. p.from \in Owners /\ p.from \in Bank!Users
  BY <1>3, BankUsers
<1>7. Balances[p.from] = GetBalance(ledger, p.from)
  BY <1>6 DEF Balances
<1>8. CASE CommitCompleted(r)
  <2>1. /\ transfers' = [transfers EXCEPT ![k] = [status |-> "completed", params |-> p]]
        /\ UNCHANGED deposits /\ pc[r] = "complete"
    BY <1>1, <1>8 DEF CommitCompleted
  <2>2. Bank!Move(p)
    <3>1. Moves(p.from, p.to, p.amount)
      BY <1>1, <1>8, TransferMoves
    <3> QED BY <1>3, <1>6, <3>1, BankMoves
  <2>3. Balances[p.from] >= p.amount
    BY <1>1, <1>7, <2>1 DEF DecidedOnBalance
  <2>4. Seeded' = Seeded
    <3>1. PICK txn, d, c, amt : ledger' = ledger \cup LegPair(txn, "transfer", k, d, c, amt, NullKey)
      BY <1>1, <1>8 DEF CommitCompleted
    <3> QED BY <3>1, SeededStays
  <2>5. Bank!Transfer(k, p)
    BY <1>3, <1>5, <1>6, <2>1, <2>2, <2>3, <2>4 DEF Bank!Transfer, Balances, Seeded
  <2> QED BY <1>3, <1>4, <2>5 DEF Bank!Next
<1>9. CASE CommitFailed(r)
  <2>1. /\ transfers' = [transfers EXCEPT ![k] = [status |-> "failed", params |-> p]]
        /\ UNCHANGED <<deposits, ledger>> /\ pc[r] = "fail"
    BY <1>1, <1>9 DEF CommitFailed
  <2>2. Balances[p.from] < p.amount
    BY <1>1, <1>7, <2>1 DEF DecidedOnBalance
  <2>3. Seeded' = Seeded /\ Balances' = Balances
    BY <2>1 DEF Seeded, Balances
  <2>4. Bank!Transfer(k, p)
    BY <1>3, <1>5, <1>6, <2>1, <2>2, <2>3 DEF Bank!Transfer, Balances, Seeded
  <2> QED BY <1>3, <1>4, <2>4 DEF Bank!Next
<1> QED BY <1>8, <1>9

\* A committed deposit is the bank's, credited or rejected.
LEMMA BankDeposit ==
    ASSUME BankInv, BlankUnused, NEW r \in Reqs, CreditDeposit(r) \/ RejectDeposit(r)
    PROVE  Bank!Next
<1> USE DEF BankInv
<1>1. PICK k, p : k = req[r].id /\ p = req[r].params
  OBVIOUS
<1>2. pc[r] \in {"dep_lock", "dep_credit"}
  BY DEF CreditDeposit, RejectDeposit
<1>3. /\ k \in References /\ p.from = SYSTEM /\ p.to \in Accounts
      /\ p.amount \in Amounts /\ p \in Params
  BY <1>1, <1>2, AskedTyped DEF Typed, RequestsTyped, DepositPoints, AskedDeposit
<1>4. p \in Bank!Movements
  BY <1>3 DEF Params, Bank!Movements
<1>5. deposits[k] = NoRecord
  BY <1>1, <1>2, <1>3 DEF BlankUnused, DepositsInFlight
<1>6. p.to \in Bank!Users /\ p.to \in Owners /\ p.from \in Owners /\ p.from # p.to
  BY <1>3, BankUsers, SystemAssumption
<1>8. CASE CreditDeposit(r)
  <2>1. /\ deposits' = [deposits EXCEPT ![k] = [status |-> "completed", params |-> p]]
        /\ UNCHANGED transfers
    BY <1>1, <1>8 DEF CreditDeposit
  <2>2. Bank!Move(p)
    <3>1. Moves(p.from, p.to, p.amount)
      BY <1>1, <1>3, <1>8, DepositMoves
    <3> QED BY <1>3, <1>6, <3>1, BankMoves
  <2>4. Seeded' = Seeded
    <3>1. PICK txn, c, amt : ledger' = ledger \cup LegPair(txn, "deposit", k, SYSTEM, c, amt, NullKey)
      BY <1>1, <1>8 DEF CreditDeposit
    <3> QED BY <3>1, SeededStays
  <2>5. Bank!Deposit(k, p)
    BY <1>3, <1>5, <1>6, <2>1, <2>2, <2>4 DEF Bank!Deposit, Seeded
  <2> QED BY <1>3, <1>4, <2>5 DEF Bank!Next
<1>9. CASE RejectDeposit(r)
  <2>1. /\ deposits' = [deposits EXCEPT ![k] = [status |-> "rejected", params |-> p]]
        /\ UNCHANGED <<transfers, ledger>>
    BY <1>1, <1>9 DEF RejectDeposit
  <2>3. Seeded' = Seeded /\ Balances' = Balances
    BY <2>1 DEF Seeded, Balances
  <2>4. Bank!Deposit(k, p)
    BY <1>3, <1>5, <1>6, <2>1, <2>3 DEF Bank!Deposit, Balances, Seeded
  <2> QED BY <1>3, <1>4, <2>4 DEF Bank!Next
<1> QED BY <1>8, <1>9

\* The services implement a bank that handles one request at a time: every commit of transfer,
\* simulate_deposit and seed is one step of AtomicBank, and nothing else a client could see
\* changes.
THEOREM Refinement == Spec => ImplementsAtomicBank
<1>1. Init => BlankUnused
  BY DEF Init, BlankUnused
<1>2. BankInv /\ BlankUnused /\ [Next]_vars => BlankUnused'
  BY BlankStep DEF BankInv
<1>3. BankInv /\ BlankUnused /\ [Next]_vars => [Bank!Next]_(Bank!vars)
  <2> SUFFICES ASSUME BankInv, BlankUnused, [Next]_vars PROVE [Bank!Next]_(Bank!vars)
    OBVIOUS
  <2>1. CASE UNCHANGED <<ledger, transfers, deposits>>
    BY <2>1, BankStutters
  <2>2. ASSUME NEW s \in SeedKeys, NEW a \in Accounts, NEW m \in Amounts, Seed(s, a, m)
        PROVE  Bank!Next
    BY <2>2, BankSeed DEF BankInv
  <2>3. ASSUME NEW r \in Reqs, CommitFailed(r) \/ CommitCompleted(r) PROVE Bank!Next
    BY <2>3, BankTransfer
  <2>4. ASSUME NEW r \in Reqs, RejectDeposit(r) \/ CreditDeposit(r) PROVE Bank!Next
    BY <2>4, BankDeposit
  <2> QED BY <2>1, <2>2, <2>3, <2>4, TableSteps
<1> QED BY <1>1, <1>2, <1>3, BankInit, BankInvHolds, PTL DEF Spec, ImplementsAtomicBank, Bank!Spec
=============================================================================
