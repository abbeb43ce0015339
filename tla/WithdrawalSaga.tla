--------------------------- MODULE WithdrawalSaga ---------------------------
(***************************************************************************)
(* The outbound withdrawal saga: the API handler of POST /v1/withdrawals   *)
(* (app/routers/withdrawals.py, app/services/withdrawal_service.py), the   *)
(* recovery worker (workers/saga_recovery.py) that every API process runs  *)
(* at startup and every five minutes (app/main.py), and the bank rail      *)
(* (rail/simulator.py).                                                    *)
(*                                                                         *)
(* Postgres transactions that hold no lock across an await another actor   *)
(* can observe are one step.  The two that do hold one are split: TX 1 of  *)
(* the handler (the account row is locked while the balance is read) and   *)
(* the recovery transaction (the withdrawal row is locked while the rail   *)
(* is called).  A row is named by its idempotency key, which is UNIQUE.    *)
(* The circuit breaker is any source of refusals here.                     *)
(***************************************************************************)
EXTENDS Ledger

CONSTANTS
    Keys,            \* idempotency keys clients use
    Amounts,         \* amounts clients ask for
    Opening,         \* balance of every account before the first withdrawal
    Reqs,            \* concurrent API requests
    Workers,         \* recovery runs, one or more per API process
    Nobody,          \* holder of a free lock
    BatchLimit,      \* BATCH_LIMIT
    QueryStates,     \* what rail.query_status can answer; "error": it raises
    PromptHandlers,  \* TRUE: a live handler never leaves its row untouched 5 minutes
    MaxCrashes       \* bound: crashes and unhandled exceptions in a behaviour

ASSUME AmountsAssumption == Amounts \subseteq Nat \ {0}
ASSUME OpeningAssumption == Opening \in Nat
ASSUME NobodyAssumption == Nobody \notin Reqs \cup Workers
ASSUME BatchLimitAssumption == BatchLimit \in Nat \ {0}
ASSUME QueryStatesAssumption ==
    QueryStates \subseteq {"completed", "failed", "processing", "error"}
ASSUME BoundAssumption == PromptHandlers \in BOOLEAN /\ MaxCrashes \in Nat

VARIABLES
    row,       \* table withdrawals, by idempotency key
    ledger,    \* table ledger_entries
    outbox,    \* events published per withdrawal, by type
    cache,     \* Redis: hash of the request whose response is cached
    acctLock,  \* holder of FOR UPDATE on each account row
    rowLock,   \* holder of FOR UPDATE on each withdrawals row
    pc,        \* where each API request is
    req,       \* the request body and key it carries
    wpc,       \* where each recovery run is
    batch,     \* ids a recovery run has claimed and not yet resolved
    payouts,   \* external: how often the rail has paid out each withdrawal
    lost,      \* history: withdrawals with a rail success nobody recorded
    crashes    \* crashes so far

vars == <<row, ledger, outbox, cache, acctLock, rowLock, pc, req, wpc, batch,
          payouts, lost, crashes>>

-----------------------------------------------------------------------------
(* Types *)

Statuses == {"pending", "submitted", "completed", "failed"}

Ages == {"fresh", "stuck", "expired"}   \* updated_at: < 5 min, > 5 min, > 30 min ago

EventTypes == {"withdrawal.initiated", "withdrawal.completed", "withdrawal.failed"}

\* The fields _hash_request covers, the destination folded into the amount.
Params == [account : Accounts, amount : Amounts]

NoParams == [account |-> SYSTEM, amount |-> 0]

NoRow == [status |-> "none", params |-> NoParams, external_reference |-> FALSE,
          age |-> "fresh"]

Rows == [status : Statuses \cup {"none"}, params : Params \cup {NoParams},
         external_reference : BOOLEAN, age : Ages]

Requests == [key : Keys, params : Params]

Idle == [key |-> Nobody, params |-> NoParams]

\* Program points of the handler; in SagaPoints its debit has been committed.
SagaPoints == {"cache_set", "submit", "send", "accepted", "rejected"}

Points == {"idle", "cache_get", "lock", "balance", "insert"} \cup SagaPoints

WorkerPoints == {"idle", "resolve", "calling", "accepted", "rejected"}

-----------------------------------------------------------------------------
(* Ledger postings of the saga *)

\* TX 1: user debit, system credit.
DebitLegs(k, p) ==
    LegPair(FreshTxn(ledger, "withdrawal", k), "withdrawal", k,
            p.account, SYSTEM, p.amount, NullKey)

\* Faulty variant: the amount of a reversal entered with its sign.
FaultySignedReversal(k) ==
    LegPair(FreshTxn(ledger, "withdrawal_reversal", k), "withdrawal_reversal", k,
            SYSTEM, row[k].params.account, -row[k].params.amount, <<"reversal", k>>)

\* Faulty variant: reversal legs without an idempotency key.
FaultyUnkeyedReversal(k) ==
    LegPair(FreshTxn(ledger, "withdrawal_reversal", k), "withdrawal_reversal", k,
            SYSTEM, row[k].params.account, row[k].params.amount, NullKey)

\* TX 3b: system debit, user credit under idempotency_key 'reversal:{id}'.
ReversalLegs(k) ==
    LegPair(FreshTxn(ledger, "withdrawal_reversal", k), "withdrawal_reversal", k,
            SYSTEM, row[k].params.account, row[k].params.amount, <<"reversal", k>>)

\* The user credits posted to give a withdrawal back.
Reversals(k) ==
    { l \in LegsOf(ledger, "withdrawal_reversal", k) : l.direction = "credit" }

Reversed(k) == Reversals(k) # {}

Publish(k, type) == outbox' = [outbox EXCEPT ![k][type] = @ + 1]

-----------------------------------------------------------------------------
Init ==
    /\ row = [k \in Keys |-> NoRow]
    /\ ledger = UNION { LegPair(0, "seed", a, SYSTEM, a, Opening, <<"seed", a>>)
                        : a \in Accounts }
    /\ outbox = [k \in Keys |-> [t \in EventTypes |-> 0]]
    /\ cache = [k \in Keys |-> NoParams]
    /\ acctLock = [a \in Accounts |-> Nobody]
    /\ rowLock = [k \in Keys |-> Nobody]
    /\ pc = [r \in Reqs |-> "idle"]
    /\ req = [r \in Reqs |-> Idle]
    /\ wpc = [w \in Workers |-> "idle"]
    /\ batch = [w \in Workers |-> {}]
    /\ payouts = [k \in Keys |-> 0]
    /\ lost = {}
    /\ crashes = 0

-----------------------------------------------------------------------------
(* The API handler *)

\* Fields of the handlers, of the recovery runs and of the tables.
apiVars == <<pc, req, acctLock>>
workerVars == <<wpc, batch, rowLock>>
tables == <<row, ledger, outbox>>

Goto(r, point) == pc' = [pc EXCEPT ![r] = point]

\* The handler returns or raises: its session is closed, its locks released.
Finish(r) ==
    /\ pc' = [pc EXCEPT ![r] = "idle"]
    /\ req' = [req EXCEPT ![r] = Idle]
    /\ acctLock' = [a \in Accounts |-> IF acctLock[a] = r THEN Nobody ELSE acctLock[a]]

(***************************************************************************)
(* A request that passes the breaker's pre-flight check and whose user has *)
(* an account.  A request that does not is answered 503 or 404 and leaves  *)
(* no trace.                                                               *)
(***************************************************************************)
Receive(r, k, p) ==
    /\ pc[r] = "idle"
    /\ Goto(r, "cache_get")
    /\ req' = [req EXCEPT ![r] = [key |-> k, params |-> p]]
    /\ UNCHANGED <<tables, workerVars, acctLock, cache, payouts, lost, crashes>>

\* Redis has the key: replay the cached response, or raise IdempotencyConflictError.
CacheHit(r) ==
    /\ pc[r] = "cache_get"
    /\ cache[req[r].key] # NoParams
    /\ Finish(r)
    /\ UNCHANGED <<tables, workerVars, cache, payouts, lost, crashes>>

CacheMiss(r) ==
    /\ pc[r] = "cache_get"
    /\ cache[req[r].key] = NoParams
    /\ Goto(r, "lock")
    /\ UNCHANGED <<tables, workerVars, req, acctLock, cache, payouts, lost, crashes>>

\* Faulty variant: the account is read without FOR UPDATE.
FaultyUnlockedRead(r) ==
    /\ pc[r] = "lock"
    /\ Goto(r, "balance")
    /\ UNCHANGED <<tables, workerVars, req, acctLock, cache, payouts, lost, crashes>>

\* SELECT account FOR UPDATE: waits for whoever holds the row.
LockAccount(r) ==
    /\ pc[r] = "lock"
    /\ acctLock[req[r].params.account] = Nobody
    /\ acctLock' = [acctLock EXCEPT ![req[r].params.account] = r]
    /\ Goto(r, "balance")
    /\ UNCHANGED <<tables, workerVars, req, cache, payouts, lost, crashes>>

\* InsufficientBalanceError, raised before the idempotency key is looked at.
RefuseInsufficient(r) ==
    /\ pc[r] = "balance"
    /\ GetBalance(ledger, req[r].params.account) < req[r].params.amount
    /\ Finish(r)
    /\ UNCHANGED <<tables, workerVars, cache, payouts, lost, crashes>>

\* Faulty variant: the response is cached before TX 1 has committed.
FaultyEarlyCache(r) ==
    /\ pc[r] = "balance"
    /\ GetBalance(ledger, req[r].params.account) >= req[r].params.amount
    /\ cache' = [cache EXCEPT ![req[r].key] = req[r].params]
    /\ Goto(r, "insert")
    /\ UNCHANGED <<tables, workerVars, req, acctLock, payouts, lost, crashes>>

BalanceSuffices(r) ==
    /\ pc[r] = "balance"
    /\ GetBalance(ledger, req[r].params.account) >= req[r].params.amount
    /\ Goto(r, "insert")
    /\ UNCHANGED <<tables, workerVars, req, acctLock, cache, payouts, lost, crashes>>

\* UNIQUE(withdrawals.idempotency_key): rollback and answer with the existing row.
ReturnExisting(r) ==
    /\ pc[r] = "insert"
    /\ row[req[r].key].status # "none"
    /\ Finish(r)
    /\ UNCHANGED <<tables, workerVars, cache, payouts, lost, crashes>>

\* The rest of TX 1: the row, both legs and withdrawal.initiated, committed together.
ReserveFunds(r) ==
    LET k == req[r].key  p == req[r].params IN
    /\ pc[r] = "insert"
    /\ row[k].status = "none"
    /\ row' = [row EXCEPT ![k] = [status |-> "pending", params |-> p,
                                  external_reference |-> FALSE, age |-> "fresh"]]
    /\ ledger' = ledger \cup DebitLegs(k, p)
    /\ Publish(k, "withdrawal.initiated")
    /\ acctLock' = [acctLock EXCEPT ![p.account] = Nobody]
    /\ Goto(r, "cache_set")
    /\ UNCHANGED <<workerVars, req, cache, payouts, lost, crashes>>

\* redis.set of the pending snapshot, after the commit and before the rail call.
CacheResponse(r) ==
    /\ pc[r] = "cache_set"
    /\ cache' = [cache EXCEPT ![req[r].key] = req[r].params]
    /\ Goto(r, "submit")
    /\ UNCHANGED <<tables, workerVars, req, acctLock, payouts, lost, crashes>>

(***************************************************************************)
(* UPDATE withdrawals SET status = 'submitted' WHERE id = ...: it waits    *)
(* for the row lock and writes whatever the row has become meanwhile.      *)
(***************************************************************************)
MarkSubmitted(r) ==
    LET k == req[r].key IN
    /\ pc[r] = "submit"
    /\ rowLock[k] = Nobody
    /\ row' = [row EXCEPT ![k] = [@ EXCEPT !.status = "submitted", !.age = "fresh"]]
    /\ Goto(r, "send")
    /\ UNCHANGED <<ledger, outbox, workerVars, req, acctLock, cache, payouts, lost, crashes>>

\* rail.send_withdrawal succeeds: the money has left, only this handler knows.
RailAccepts(r) ==
    /\ pc[r] = "send"
    /\ payouts' = [payouts EXCEPT ![req[r].key] = @ + 1]
    /\ Goto(r, "accepted")
    /\ UNCHANGED <<tables, workerVars, req, acctLock, cache, lost, crashes>>

\* RailError from the rail, or CircuitOpenError from the breaker.
RailRejects(r) ==
    /\ pc[r] = "send"
    /\ Goto(r, "rejected")
    /\ UNCHANGED <<tables, workerVars, req, acctLock, cache, payouts, lost, crashes>>

\* The columns _complete writes (in the handler and in the recovery worker).
CompletedRow(old) ==
    [old EXCEPT !.status = "completed", !.external_reference = TRUE, !.age = "fresh"]

\* The columns _compensate writes.
FailedRow(old) == [old EXCEPT !.status = "failed", !.age = "fresh"]

\* TX 3a: a blind UPDATE, plus withdrawal.completed.
Complete(r) ==
    LET k == req[r].key IN
    /\ pc[r] = "accepted"
    /\ rowLock[k] = Nobody
    /\ row' = [row EXCEPT ![k] = CompletedRow(@)]
    /\ Publish(k, "withdrawal.completed")
    /\ Finish(r)
    /\ UNCHANGED <<ledger, workerVars, cache, payouts, lost, crashes>>

\* Faulty variant: the event is published in a transaction of its own.
FaultySeparateEvent(k) ==
    /\ Publish(k, "withdrawal.failed")
    /\ IF UniqueViolation(ledger, ReversalLegs(k))
       THEN UNCHANGED <<row, ledger>>
       ELSE ledger' = ledger \cup ReversalLegs(k) /\ row' = [row EXCEPT ![k] = FailedRow(@)]

\* Faulty variant: the status is committed and the legs are not.
FaultyStatusOnly(k) ==
    /\ row' = [row EXCEPT ![k] = FailedRow(@)]
    /\ Publish(k, "withdrawal.failed")
    /\ UNCHANGED ledger

(***************************************************************************)
(* TX 3b, in one transaction: the reversal legs, status failed and the     *)
(* event.  A reversal already in the ledger raises IntegrityError and      *)
(* nothing of it is committed.                                             *)
(***************************************************************************)
WriteCompensation(k) ==
    IF UniqueViolation(ledger, ReversalLegs(k))
    THEN UNCHANGED tables
    ELSE /\ ledger' = ledger \cup ReversalLegs(k)
         /\ row' = [row EXCEPT ![k] = FailedRow(@)]
         /\ Publish(k, "withdrawal.failed")

Compensate(r) ==
    /\ pc[r] = "rejected"
    /\ rowLock[req[r].key] = Nobody
    /\ WriteCompensation(req[r].key)
    /\ Finish(r)
    /\ UNCHANGED <<workerVars, cache, payouts, lost, crashes>>

(***************************************************************************)
(* The process dies, the client's request is cancelled, or Redis or        *)
(* Postgres raises: the open transaction is rolled back.  A success of the *)
(* rail that the handler had not recorded is then known to nobody.         *)
(***************************************************************************)
CrashRequest(r) ==
    /\ pc[r] # "idle"
    /\ crashes < MaxCrashes
    /\ crashes' = crashes + 1
    /\ lost' = IF pc[r] = "accepted" THEN lost \cup {req[r].key} ELSE lost
    /\ Finish(r)
    /\ UNCHANGED <<tables, workerVars, cache, payouts>>

-----------------------------------------------------------------------------
(* The recovery worker *)

WGoto(w, point) == wpc' = [wpc EXCEPT ![w] = point]

\* Faulty variant: only submitted rows are looked for.
FaultyStuckSubmitted(k) == row[k].status = "submitted" /\ row[k].age # "fresh"

Stuck(k) == row[k].status \in {"pending", "submitted"} /\ row[k].age # "fresh"

\* Phase 1: a short transaction, FOR UPDATE SKIP LOCKED LIMIT 20, in no order.
Claim(w) ==
    LET stuck == { k \in Keys : Stuck(k) /\ rowLock[k] = Nobody } IN
    /\ wpc[w] = "idle"
    /\ stuck # {}
    /\ \E ids \in SUBSET stuck :
           /\ \/ Cardinality(ids) = BatchLimit
              \/ ids = stuck /\ Cardinality(ids) <= BatchLimit
           /\ batch' = [batch EXCEPT ![w] = ids]
    /\ WGoto(w, "resolve")
    /\ UNCHANGED <<tables, apiVars, rowLock, cache, payouts, lost, crashes>>

\* _resolve_one has returned or raised for k: the lock goes, the loop moves on.
Release(w, k) ==
    /\ rowLock' = [rowLock EXCEPT ![k] = Nobody]
    /\ batch' = [batch EXCEPT ![w] = @ \ {k}]
    /\ WGoto(w, IF batch[w] = {k} THEN "idle" ELSE "resolve")

\* _resolve_one may start on k: SELECT ... FOR UPDATE gets the row.
CanResolve(w, k) == wpc[w] = "resolve" /\ k \in batch[w] /\ rowLock[k] = Nobody

\* Somebody else resolved it between the two phases.
SkipResolved(w, k) ==
    /\ CanResolve(w, k)
    /\ row[k].status \notin {"pending", "submitted"}
    /\ Release(w, k)
    /\ UNCHANGED <<tables, apiVars, cache, payouts, lost, crashes>>

\* Faulty variants: the row is not looked at again once it is locked.
FaultyBlindCompensation(w, k) ==
    /\ CanResolve(w, k)
    /\ WriteCompensation(k)
    /\ Release(w, k)
    /\ UNCHANGED <<apiVars, cache, payouts, lost, crashes>>

FaultyBlindSend(w, k) ==
    /\ CanResolve(w, k)
    /\ rowLock' = [rowLock EXCEPT ![k] = w]
    /\ WGoto(w, "calling")
    /\ UNCHANGED <<tables, apiVars, batch, cache, payouts, lost, crashes>>

\* _recover_pending with the breaker refusing calls: CIRCUIT_OPEN.
RecoverPendingCircuitOpen(w, k) ==
    /\ CanResolve(w, k)
    /\ row[k].status = "pending"
    /\ WriteCompensation(k)
    /\ Release(w, k)
    /\ UNCHANGED <<apiVars, cache, payouts, lost, crashes>>

\* _recover_pending: flush status = 'submitted' (not committed), then call the
\* rail with the transaction and the row lock still open.
RecoverPendingSend(w, k) ==
    /\ CanResolve(w, k)
    /\ row[k].status = "pending"
    /\ rowLock' = [rowLock EXCEPT ![k] = w]
    /\ WGoto(w, "calling")
    /\ UNCHANGED <<tables, apiVars, batch, cache, payouts, lost, crashes>>

\* The rail answers the recovery worker.
WorkerRailAccepts(w, k) ==
    /\ wpc[w] = "calling" /\ rowLock[k] = w
    /\ payouts' = [payouts EXCEPT ![k] = @ + 1]
    /\ WGoto(w, "accepted")
    /\ UNCHANGED <<tables, apiVars, batch, rowLock, cache, lost, crashes>>

WorkerRailRejects(w, k) ==
    /\ wpc[w] = "calling" /\ rowLock[k] = w
    /\ WGoto(w, "rejected")
    /\ UNCHANGED <<tables, apiVars, batch, rowLock, cache, payouts, lost, crashes>>

\* The recovery transaction commits the result of its rail call.
WorkerComplete(w, k) ==
    /\ wpc[w] = "accepted" /\ rowLock[k] = w
    /\ row' = [row EXCEPT ![k] = CompletedRow(@)]
    /\ Publish(k, "withdrawal.completed")
    /\ Release(w, k)
    /\ UNCHANGED <<ledger, apiVars, cache, payouts, lost, crashes>>

WorkerCompensate(w, k) ==
    /\ wpc[w] = "rejected" /\ rowLock[k] = w
    /\ WriteCompensation(k)
    /\ Release(w, k)
    /\ UNCHANGED <<apiVars, cache, payouts, lost, crashes>>

(***************************************************************************)
(* _recover_submitted without a reference: compensate after the 30-minute  *)
(* hard timeout, otherwise leave the row for a later run.                  *)
(***************************************************************************)
RecoverSubmittedNoReference(w, k) ==
    /\ CanResolve(w, k)
    /\ row[k].status = "submitted" /\ ~row[k].external_reference
    /\ IF row[k].age = "expired" THEN WriteCompensation(k) ELSE UNCHANGED tables
    /\ Release(w, k)
    /\ UNCHANGED <<apiVars, cache, payouts, lost, crashes>>

(***************************************************************************)
(* _recover_submitted with a reference: do what rail.query_status says; an *)
(* exception counts as a failure only after the hard timeout.              *)
(***************************************************************************)
RecoverSubmittedByReference(w, k, state) ==
    /\ CanResolve(w, k)
    /\ row[k].status = "submitted" /\ row[k].external_reference
    /\ CASE state = "completed" ->
              /\ row' = [row EXCEPT ![k] = CompletedRow(@)]
              /\ Publish(k, "withdrawal.completed")
              /\ UNCHANGED ledger
         [] state = "failed" \/ (state = "error" /\ row[k].age = "expired") ->
              WriteCompensation(k)
         [] OTHER -> UNCHANGED tables
    /\ Release(w, k)
    /\ UNCHANGED <<apiVars, cache, payouts, lost, crashes>>

\* The process of a recovery run dies, or its transaction fails and rolls back.
CrashWorker(w) ==
    /\ wpc[w] # "idle"
    /\ crashes < MaxCrashes
    /\ crashes' = crashes + 1
    /\ lost' = lost \cup { k \in Keys : wpc[w] = "accepted" /\ rowLock[k] = w }
    /\ rowLock' = [k \in Keys |-> IF rowLock[k] = w THEN Nobody ELSE rowLock[k]]
    /\ batch' = [batch EXCEPT ![w] = {}]
    /\ WGoto(w, "idle")
    /\ UNCHANGED <<tables, apiVars, cache, payouts>>

-----------------------------------------------------------------------------
(* The environment *)

HandlerOf(r, k) == pc[r] \in SagaPoints /\ req[r].key = k

\* Time passes for an unfinished row.
Age(k) ==
    /\ row[k].status \in {"pending", "submitted"}
    /\ PromptHandlers => \A r \in Reqs : ~HandlerOf(r, k)
    /\ row[k].age # "expired"
    /\ row' = [row EXCEPT ![k].age = IF @ = "fresh" THEN "stuck" ELSE "expired"]
    /\ UNCHANGED <<ledger, outbox, apiVars, workerVars, cache, payouts, lost, crashes>>

\* The cached response expires after 24 h, or Redis evicts or loses it.
CacheExpire(k) ==
    /\ cache[k] # NoParams
    /\ cache' = [cache EXCEPT ![k] = NoParams]
    /\ UNCHANGED <<tables, apiVars, workerVars, payouts, lost, crashes>>

-----------------------------------------------------------------------------
RequestStep(r) ==
    \/ CacheHit(r) \/ CacheMiss(r) \/ LockAccount(r)
    \/ RefuseInsufficient(r) \/ BalanceSuffices(r)
    \/ ReturnExisting(r) \/ ReserveFunds(r) \/ CacheResponse(r)
    \/ MarkSubmitted(r) \/ RailAccepts(r) \/ RailRejects(r)
    \/ Complete(r) \/ Compensate(r)

ResolveStep(w) ==
    \E k \in Keys :
        \/ SkipResolved(w, k)
        \/ RecoverPendingCircuitOpen(w, k) \/ RecoverPendingSend(w, k)
        \/ WorkerRailAccepts(w, k) \/ WorkerRailRejects(w, k)
        \/ WorkerComplete(w, k) \/ WorkerCompensate(w, k)
        \/ RecoverSubmittedNoReference(w, k)
        \/ \E state \in QueryStates : RecoverSubmittedByReference(w, k, state)

Next ==
    \/ \E r \in Reqs : RequestStep(r) \/ CrashRequest(r)
    \/ \E r \in Reqs, k \in Keys, p \in Params : Receive(r, k, p)
    \/ \E w \in Workers : Claim(w) \/ ResolveStep(w) \/ CrashWorker(w)
    \/ \E k \in Keys : Age(k) \/ CacheExpire(k)

(***************************************************************************)
(* A live handler and a live recovery run keep going (their awaits return), *)
(* the recovery loop runs for ever, and time passes.  Clients need not     *)
(* send anything and nothing need crash or expire.                         *)
(***************************************************************************)
Fairness ==
    /\ \A r \in Reqs : WF_vars(RequestStep(r))
    /\ \A w \in Workers : WF_vars(Claim(w)) /\ WF_vars(ResolveStep(w))
    /\ \A k \in Keys : WF_vars(Age(k))

Spec == Init /\ [][Next]_vars /\ Fairness

-----------------------------------------------------------------------------
(* Correctness *)

Legs == [txn : Nat, account : Accounts \cup {SYSTEM}, direction : {"debit", "credit"},
         amount : Nat, entry_type : {"seed", "withdrawal", "withdrawal_reversal"},
         reference_id : Keys \cup Accounts,
         idempotency_key : {"null", "seed", "reversal"} \X (Keys \cup Accounts \cup {"null"})]

TablesTyped ==
    /\ row \in [Keys -> Rows]
    /\ ledger \subseteq Legs /\ IsFiniteSet(ledger)
    /\ outbox \in [Keys -> [EventTypes -> Nat]]
    /\ cache \in [Keys -> Params \cup {NoParams}]

HandlersTyped ==
    /\ acctLock \in [Accounts -> Reqs \cup {Nobody}]
    /\ pc \in [Reqs -> Points]
    /\ req \in [Reqs -> Requests \cup {Idle}]
    /\ \A r \in Reqs : pc[r] # "idle" => req[r] \in Requests

WorkersTyped ==
    /\ rowLock \in [Keys -> Workers \cup {Nobody}]
    /\ wpc \in [Workers -> WorkerPoints]
    /\ batch \in [Workers -> SUBSET Keys]

HistoryTyped ==
    /\ payouts \in [Keys -> Nat]
    /\ lost \subseteq Keys
    /\ crashes \in 0..MaxCrashes

\* Every variable has its type, and a request in progress has a body.
TypeOK == TablesTyped /\ HandlersTyped /\ WorkersTyped /\ HistoryTyped

\* Concurrent withdrawals never take an account below zero: the balance read under
\* SELECT ... FOR UPDATE is still the balance when TX 1 commits (create_withdrawal).
NoOverdraft == \A a \in Accounts : GetBalance(ledger, a) >= 0

\* However handler and recovery race, a withdrawal is credited back at most once
\* (_compensate: "no double-credit is possible").
NoDoubleCredit == \A k \in Keys : Cardinality(Reversals(k)) <= 1

\* A withdrawal reported completed was paid out by the rail, one reported failed was
\* given back: a terminal status never hides money that went nowhere (_complete,
\* _compensate of the handler and of the recovery worker).
TerminalIsSettled ==
    \A k \in Keys : /\ row[k].status = "completed" => payouts[k] > 0
                    /\ row[k].status = "failed" => Reversed(k)

\* The events published tell the ledger's story: one withdrawal.initiated per debit
\* and one withdrawal.failed per reversal, even when the saga or recovery aborts.
OutboxMatchesLedger ==
    \A k \in Keys :
        /\ outbox[k]["withdrawal.failed"] = Cardinality(Reversals(k))
        /\ 2 * outbox[k]["withdrawal.initiated"] = Cardinality(LegsOf(ledger, "withdrawal", k))

\* A response is only ever replayed from Redis for a withdrawal that was committed
\* with the same parameters (the cache is written after TX 1 commits).
CacheSound == \A k \in Keys : cache[k] # NoParams => cache[k] = row[k].params

\* README "no money created or lost": the rail never pays out a withdrawal that the
\* ledger gives back.
NeverPaidAndRefunded == \A k \in Keys : ~(payouts[k] > 0 /\ Reversed(k))

\* With prompt handlers money moves once: a withdrawal is paid twice, or paid and
\* given back, only after a success of the rail was lost before it was recorded.
MoneyMovesOnce ==
    \A k \in Keys \ lost : payouts[k] + Cardinality(Reversals(k)) <= 1

\* The withdrawals users see: the derived balance, and the status of each row.
Holds == INSTANCE HeldFunds WITH
             balance <- [a \in Accounts |-> GetBalance(ledger, a)],
             hold <- [k \in Keys |-> CASE row[k].status = "none" -> "none"
                                       [] row[k].status = "completed" -> "paid"
                                       [] row[k].status = "failed" -> "returned"
                                       [] OTHER -> "held"],
             params <- [k \in Keys |-> row[k].params]

\* With prompt handlers the saga, its retries, crashes and recovery look like one hold that
\* ends once, in a payout or with the money back (pending -> submitted -> completed | failed).
ImplementsHeldFunds == Holds!Spec

\* Whatever crashes, the money debited by TX 1 is eventually paid out or given back
\* (recovery "closes that gap").
EveryDebitSettles ==
    \A k \in Keys : row[k].status # "none" ~> payouts[k] > 0 \/ Reversed(k)

\* Recovery "detects and resolves stuck withdrawals": each reaches a terminal status.
EveryWithdrawalTerminates ==
    \A k \in Keys : row[k].status # "none" ~> row[k].status \in {"completed", "failed"}
=============================================================================
