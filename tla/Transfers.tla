----------------------------- MODULE Transfers -----------------------------
(***************************************************************************)
(* The operations that move money in a single Postgres transaction: P2P    *)
(* transfers (app/services/transfer_service.py, app/routers/transfers.py), *)
(* deposits (app/services/deposit_service.py) and seeds and account        *)
(* opening (app/services/account_service.py), all on one ledger.           *)
(*                                                                         *)
(* Row locks on accounts are explicit: SELECT ... FOR UPDATE is held to    *)
(* the end of the transaction, and an INSERT into ledger_entries needs a   *)
(* key-share lock on the accounts its legs reference, which waits for a    *)
(* FOR UPDATE of another transaction.  Nothing of a transaction is visible *)
(* before its commit, so a crash leaves the tables alone.                  *)
(***************************************************************************)
EXTENDS Ledger

CONSTANTS
    Keys,         \* idempotency keys of transfers
    References,   \* external references of deposits
    SeedKeys,     \* idempotency keys of seeds
    Amounts,
    Recipients,   \* accounts clients name as to_account
    Reqs,         \* concurrent requests
    Nobody        \* holder of a free lock

ASSUME AccountsAssumption == Accounts \subseteq Nat /\ SYSTEM \in Nat
ASSUME SystemFirst == \A a \in Accounts : SYSTEM < a
ASSUME AmountsAssumption == Amounts \subseteq Nat \ {0}
ASSUME RecipientsAssumption == Recipients \subseteq Accounts \cup {SYSTEM}
ASSUME NobodyAssumption == Nobody \notin Reqs

VARIABLES
    opened,     \* accounts opened so far
    ledger,     \* table ledger_entries
    transfers,  \* table transfers, by idempotency key
    deposits,   \* table deposits, by external reference
    cache,      \* Redis: hash of the transfer whose response is cached
    lock,       \* holder of FOR UPDATE on each accounts row
    pc,         \* where each request is
    req         \* what it asks for

vars == <<opened, ledger, transfers, deposits, cache, lock, pc, req>>

tables == <<opened, ledger, transfers, deposits>>

Owners == Accounts \cup {SYSTEM}

\* The fields _hash_request covers.
Params == [from : Owners, to : Owners, amount : Amounts \cup {0}]

NoParams == [from |-> SYSTEM, to |-> SYSTEM, amount |-> 0]

NoRecord == [status |-> "none", params |-> NoParams]

Idle == [id |-> Nobody, params |-> NoParams]

DepositPoints == {"dep_insert", "dep_lock", "dep_credit"}

Points == {"idle", "cache_get", "lock1", "lock2", "balance", "complete", "fail", "cache_set"}
            \cup DepositPoints

Init ==
    /\ opened = {}
    /\ ledger = {}
    /\ transfers = [k \in Keys |-> NoRecord]
    /\ deposits = [d \in References |-> NoRecord]
    /\ cache = [k \in Keys |-> NoParams]
    /\ lock = [a \in Owners |-> Nobody]
    /\ pc = [r \in Reqs |-> "idle"]
    /\ req = [r \in Reqs |-> Idle]

-----------------------------------------------------------------------------
Goto(r, point) == pc' = [pc EXCEPT ![r] = point]

\* Commit or rollback: every lock of the session is released.
ReleaseLocks(r) == lock' = [a \in Owners |-> IF lock[a] = r THEN Nobody ELSE lock[a]]

\* The request is answered and its session closed.
Finish(r) ==
    /\ Goto(r, "idle")
    /\ req' = [req EXCEPT ![r] = Idle]
    /\ ReleaseLocks(r)

Free(r, a) == lock[a] \in {Nobody, r}

-----------------------------------------------------------------------------
(* Accounts and seeds *)

OpenAccount(a) ==
    /\ a \notin opened
    /\ opened' = opened \cup {a}
    /\ UNCHANGED <<ledger, transfers, deposits, cache, lock, pc, req>>

\* Faulty variant: the amount of a seed entered with its sign.
FaultySignedSeed(s, a, amount) == LegPair(0, "seed", s, SYSTEM, a, -amount, <<"seed", s>>)

\* seed: no account is locked; a used key is answered from the existing leg.
SeedLegs(s, a, amount) == LegPair(0, "seed", s, SYSTEM, a, amount, <<"seed", s>>)

\* Faulty variant: the legs do not reference accounts, so no lock is in their way.
FaultyUnreferencedSeed(s, a, amount) ==
    /\ a \in opened
    /\ ~UniqueViolation(ledger, SeedLegs(s, a, amount))
    /\ ledger' = ledger \cup SeedLegs(s, a, amount)
    /\ UNCHANGED <<opened, transfers, deposits, cache, lock, pc, req>>

Seed(s, a, amount) ==
    /\ a \in opened
    /\ lock[a] = Nobody /\ lock[SYSTEM] = Nobody
    /\ ~UniqueViolation(ledger, SeedLegs(s, a, amount))
    /\ ledger' = ledger \cup SeedLegs(s, a, amount)
    /\ UNCHANGED <<opened, transfers, deposits, cache, lock, pc, req>>

-----------------------------------------------------------------------------
(* POST /v1/transfers *)

\* The router has found both accounts and they differ.
ReceiveTransfer(r, k, p) ==
    /\ pc[r] = "idle"
    /\ p.from \in opened
    /\ p.to \in opened \cup {SYSTEM}
    /\ p.from # p.to
    /\ Goto(r, "cache_get")
    /\ req' = [req EXCEPT ![r] = [id |-> k, params |-> p]]
    /\ UNCHANGED <<tables, cache, lock>>

\* Redis has the key: replay the response, or raise IdempotencyConflictError.
CacheHit(r) ==
    /\ pc[r] = "cache_get"
    /\ cache[req[r].id] # NoParams
    /\ Finish(r)
    /\ UNCHANGED <<tables, cache>>

CacheMiss(r) ==
    /\ pc[r] = "cache_get"
    /\ cache[req[r].id] = NoParams
    /\ Goto(r, "lock1")
    /\ UNCHANGED <<tables, cache, lock, req>>

\* Faulty variant: the sender is always locked first.
FaultyUnsorted(p) == <<p.from, p.to>>

\* sorted([from_account_id, to_account_id], key=str)
LockOrder(p) == IF p.from < p.to THEN <<p.from, p.to>> ELSE <<p.to, p.from>>

\* Faulty variant: SELECT without FOR UPDATE.
FaultyUnlockedRead(r, a) == UNCHANGED lock

Acquire(r, a) ==
    /\ lock[a] = Nobody
    /\ lock' = [lock EXCEPT ![a] = r]

LockFirst(r) ==
    /\ pc[r] = "lock1"
    /\ Acquire(r, LockOrder(req[r].params)[1])
    /\ Goto(r, "lock2")
    /\ UNCHANGED <<tables, cache, req>>

LockSecond(r) ==
    /\ pc[r] = "lock2"
    /\ Acquire(r, LockOrder(req[r].params)[2])
    /\ Goto(r, "balance")
    /\ UNCHANGED <<tables, cache, req>>

\* get_balance of the sender decides which of the two records is written.
ReadBalance(r) ==
    /\ pc[r] = "balance"
    /\ Goto(r, IF GetBalance(ledger, req[r].params.from) < req[r].params.amount
               THEN "fail" ELSE "complete")
    /\ UNCHANGED <<tables, cache, lock, req>>

\* Faulty variant: no UNIQUE constraint on the transfers' keys.
FaultyNoUnique(r) == TRUE

KeyUnused(r) == transfers[req[r].id].status = "none"

\* Faulty variant: the refusal is cached like a success.
FaultyCachedRefusal(r) ==
    /\ pc[r] = "fail"
    /\ KeyUnused(r)
    /\ transfers' = [transfers EXCEPT ![req[r].id] =
                        [status |-> "failed", params |-> req[r].params]]
    /\ cache' = [cache EXCEPT ![req[r].id] = req[r].params]
    /\ Finish(r)
    /\ UNCHANGED <<opened, ledger, deposits>>

\* Insufficient balance: a failed record and transfer.failed are committed under the
\* key, then InsufficientBalanceError is raised.
CommitFailed(r) ==
    /\ pc[r] = "fail"
    /\ KeyUnused(r)
    /\ transfers' = [transfers EXCEPT ![req[r].id] =
                        [status |-> "failed", params |-> req[r].params]]
    /\ Finish(r)
    /\ UNCHANGED <<opened, ledger, deposits, cache>>

\* The record, both legs and transfer.completed.
CommitCompleted(r) ==
    LET k == req[r].id  p == req[r].params IN
    /\ pc[r] = "complete"
    /\ KeyUnused(r)
    /\ transfers' = [transfers EXCEPT ![k] = [status |-> "completed", params |-> p]]
    /\ ledger' = ledger \cup LegPair(FreshTxn(ledger, "transfer", k), "transfer", k,
                                     p.from, p.to, p.amount, NullKey)
    /\ ReleaseLocks(r)
    /\ Goto(r, "cache_set")
    /\ UNCHANGED <<opened, deposits, cache, req>>

\* UNIQUE(transfers.idempotency_key): rollback, then look at the existing record.
Collides(r) == pc[r] \in {"fail", "complete"} /\ ~KeyUnused(r)

\* Same key, other parameters: IdempotencyConflictError.
RefuseConflict(r) ==
    /\ Collides(r)
    /\ transfers[req[r].id].params # req[r].params
    /\ Finish(r)
    /\ UNCHANGED <<tables, cache>>

\* The key was used up by a failed attempt: IdempotencyKeyConsumedError.
RefuseConsumed(r) ==
    /\ Collides(r)
    /\ transfers[req[r].id] = [status |-> "failed", params |-> req[r].params]
    /\ Finish(r)
    /\ UNCHANGED <<tables, cache>>

\* The transfer has been made: answer with it, and cache the answer again.
ReplayExisting(r) ==
    /\ Collides(r)
    /\ transfers[req[r].id] = [status |-> "completed", params |-> req[r].params]
    /\ ReleaseLocks(r)
    /\ Goto(r, "cache_set")
    /\ UNCHANGED <<tables, cache, req>>

\* redis.setex, only after the commit.
CacheResponse(r) ==
    /\ pc[r] = "cache_set"
    /\ cache' = [cache EXCEPT ![req[r].id] = req[r].params]
    /\ Finish(r)
    /\ UNCHANGED tables

-----------------------------------------------------------------------------
(* POST /v1/dev/simulate-deposit, the rail's webhook *)

DepositParams(a, amount) == [from |-> SYSTEM, to |-> a, amount |-> amount]

ReceiveDeposit(r, d, a, amount) ==
    /\ pc[r] = "idle"
    /\ Goto(r, "dep_insert")
    /\ req' = [req EXCEPT ![r] = [id |-> d, params |-> DepositParams(a, amount)]]
    /\ UNCHANGED <<tables, cache, lock>>

\* Another transaction has inserted the reference and not ended: UNIQUE makes us wait.
ReferenceInFlight(d) == \E s \in Reqs : pc[s] \in {"dep_lock", "dep_credit"} /\ req[s].id = d

InsertDeposit(r) ==
    /\ pc[r] = "dep_insert"
    /\ ~ReferenceInFlight(req[r].id)
    /\ deposits[req[r].id].status = "none"
    /\ Goto(r, "dep_lock")
    /\ UNCHANGED <<tables, cache, lock, req>>

\* Duplicate webhook: rollback and answer with the existing record.
DuplicateDeposit(r) ==
    /\ pc[r] = "dep_insert"
    /\ deposits[req[r].id].status # "none"
    /\ Finish(r)
    /\ UNCHANGED <<tables, cache>>

\* Validation fails (here: no such account): the record is committed as rejected.
RejectDeposit(r) ==
    /\ pc[r] = "dep_lock"
    /\ req[r].params.to \notin opened
    /\ deposits' = [deposits EXCEPT ![req[r].id] =
                       [status |-> "rejected", params |-> req[r].params]]
    /\ Finish(r)
    /\ UNCHANGED <<opened, ledger, transfers, cache>>

LockDeposit(r) ==
    /\ pc[r] = "dep_lock"
    /\ req[r].params.to \in opened
    /\ Acquire(r, req[r].params.to)
    /\ Goto(r, "dep_credit")
    /\ UNCHANGED <<tables, cache, req>>

\* Both legs, status completed and deposit.completed.
CreditDeposit(r) ==
    LET d == req[r].id  p == req[r].params IN
    /\ pc[r] = "dep_credit"
    /\ Free(r, SYSTEM)
    /\ ledger' = ledger \cup LegPair(FreshTxn(ledger, "deposit", d), "deposit", d,
                                     SYSTEM, p.to, p.amount, NullKey)
    /\ deposits' = [deposits EXCEPT ![d] = [status |-> "completed", params |-> p]]
    /\ Finish(r)
    /\ UNCHANGED <<opened, transfers, cache>>

-----------------------------------------------------------------------------
(* The environment *)

\* The process dies, the client disconnects, or Postgres aborts the transaction.
Crash(r) ==
    /\ pc[r] # "idle"
    /\ Finish(r)
    /\ UNCHANGED <<tables, cache>>

CacheExpire(k) ==
    /\ cache[k] # NoParams
    /\ cache' = [cache EXCEPT ![k] = NoParams]
    /\ UNCHANGED <<tables, lock, pc, req>>

-----------------------------------------------------------------------------
Step(r) ==
    \/ CacheHit(r) \/ CacheMiss(r) \/ LockFirst(r) \/ LockSecond(r) \/ ReadBalance(r)
    \/ CommitFailed(r) \/ CommitCompleted(r)
    \/ RefuseConflict(r) \/ RefuseConsumed(r) \/ ReplayExisting(r) \/ CacheResponse(r)
    \/ InsertDeposit(r) \/ DuplicateDeposit(r) \/ RejectDeposit(r)
    \/ LockDeposit(r) \/ CreditDeposit(r)

Arrive(r) ==
    \/ \E k \in Keys, from \in Accounts, to \in Recipients, m \in Amounts :
           ReceiveTransfer(r, k, [from |-> from, to |-> to, amount |-> m])
    \/ \E d \in References, a \in Accounts, m \in Amounts : ReceiveDeposit(r, d, a, m)

Next ==
    \/ \E a \in Accounts : OpenAccount(a)
    \/ \E s \in SeedKeys, a \in Accounts, m \in Amounts : Seed(s, a, m)
    \/ \E r \in Reqs : Arrive(r) \/ Step(r) \/ Crash(r)
    \/ \E k \in Keys : CacheExpire(k)

\* Postgres grants row locks in the order they were asked for, so a waiter that could
\* go on again and again does.
Fairness == \A r \in Reqs : SF_vars(Step(r))

Spec == Init /\ [][Next]_vars /\ Fairness

-----------------------------------------------------------------------------
(* Correctness *)

Records(statuses) == [status : statuses \cup {"none"}, params : Params]

\* Every variable has its type.
TypeOK ==
    /\ opened \subseteq Accounts
    /\ \A l \in ledger : l.account \in Owners /\ l.amount \in Amounts
    /\ transfers \in [Keys -> Records({"completed", "failed"})]
    /\ deposits \in [References -> Records({"completed", "rejected"})]
    /\ cache \in [Keys -> Params]
    /\ lock \in [Owners -> Reqs \cup {Nobody}]
    /\ pc \in [Reqs -> Points]
    /\ req \in [Reqs -> [id : Keys \cup References \cup {Nobody}, params : Params]]

\* README Concurrency Control: concurrent transfers never take an account below zero;
\* the balance read under FOR UPDATE still holds at commit.
NoOverdraft == \A a \in Accounts : GetBalance(ledger, a) >= 0

\* The two legs of a movement of p.amount from p.from to p.to.
Moved(legs, p) ==
    /\ Cardinality(legs) = 2
    /\ \A l \in legs : /\ l.amount = p.amount
                       /\ l.account = IF l.direction = "debit" THEN p.from ELSE p.to
    /\ \E l, m \in legs : l.direction # m.direction

\* Money moves exactly once per completed record and never for a failed or rejected
\* one, through retries, lost cache entries, duplicate webhooks and crashes
\* (transfer, simulate_deposit).
RecordsMatchLedger ==
    /\ \A k \in Keys :
          LET legs == LegsOf(ledger, "transfer", k) IN
          IF transfers[k].status = "completed" THEN Moved(legs, transfers[k].params) ELSE legs = {}
    /\ \A d \in References :
          LET legs == LegsOf(ledger, "deposit", d) IN
          IF deposits[d].status = "completed" THEN Moved(legs, deposits[d].params) ELSE legs = {}

\* A response replayed from Redis is that of a committed transfer with the same
\* parameters ("only after confirmed commit").
CacheSound ==
    \A k \in Keys : cache[k] # NoParams
        => transfers[k] = [status |-> "completed", params |-> cache[k]]

\* r waits for a row lock that s holds.
WaitsFor(r, s) ==
    \/ pc[r] = "lock1" /\ lock[LockOrder(req[r].params)[1]] = s
    \/ pc[r] = "lock2" /\ lock[LockOrder(req[r].params)[2]] = s
    \/ pc[r] = "dep_lock" /\ req[r].params.to \in opened /\ lock[req[r].params.to] = s
    \/ pc[r] = "dep_credit" /\ lock[SYSTEM] = s

\* "Lock BOTH accounts in consistent UUID order to prevent bidirectional deadlock": no
\* two requests wait for each other.
NoBidirectionalDeadlock == \A r, s \in Reqs : WaitsFor(r, s) => ~WaitsFor(s, r)

\* The bank clients see: balances derived from the ledger, and the records.
Bank == INSTANCE AtomicBank WITH
            balance <- [a \in Owners |-> GetBalance(ledger, a)],
            seeded <- { s \in SeedKeys : LegsOf(ledger, "seed", s) # {} }

\* Requests interleave with their locks, retries, caches and crashes as if the bank handled
\* one at a time: each is decided, completed or refused, by the balance at its commit.
ImplementsAtomicBank == Bank!Spec

\* Every request that comes in is answered: none waits for ever on a lock.
EveryRequestAnswered == \A r \in Reqs : pc[r] # "idle" ~> pc[r] = "idle"
=============================================================================
