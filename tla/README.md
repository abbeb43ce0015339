# Formal models of MiniWallet

TLA+ models of the parts of MiniWallet that move money or carry the news of it,
model-checked with TLC and proved with TLAPS: every safety property that a passing run
checks on a small instance is also a theorem for instances of any size. Every definition is written from the Python source; `PROJECT.json`
("map") gives the lines each one stands for.

## The system

| Part | State | Operations | Hard because |
|---|---|---|---|
| Ledger (`models/ledger_entry.py`, `account_service.get_balance`) | append-only legs, UNIQUE `idempotency_key` | insert a pair of legs, sum a balance | a balance is read and acted on in different statements |
| Withdrawal saga (`withdrawal_service.py`, `routers/withdrawals.py`) | `withdrawals` rows, Redis responses, account row locks | `create_withdrawal`: cache, TX 1, cache, flip to submitted, rail, TX 3a / 3b | several transactions and an external call; a crash or a stall anywhere between |
| Saga recovery (`saga_recovery.py`, started by `main.py` at startup and every 5 min in every process) | claimed ids, row locks | claim, resolve | races the handlers and other recovery runs; row lock held over the rail call |
| Bank rail (`rail/simulator.py`) | what it has paid out | `send_withdrawal`, `query_status` | succeeds and the caller never records it |
| Circuit breaker (`circuit_breaker.py`) | four Redis keys shared by all processes | `is_call_allowed`, `call` | state read before an await and used after it; late results; dead probes |
| Outbox and relay (`events/publisher.py`, `workers/outbox_relay.py`) | `outbox` rows, detached copies in each relay | publish, claim, send, confirm, recover stuck rows, clean up | several relays, crashes between claim and confirm, lost acknowledgements, merges of stale copies |
| Transfers (`transfer_service.py`) | `transfers` rows, Redis responses, account row locks | `transfer` | lock order, duplicate keys, retries before and after caching |
| Deposits (`deposit_service.py`), accounts and seeds (`account_service.py`) | `deposits`, `accounts` | `simulate_deposit`, `open_account`, `seed` | duplicate webhooks, foreign-key locks on the system account |
| Consumers (`consumer_base.py`; audit, activity, notification in `workers/`) | Kafka offsets, dead-letter topics, `audit_events`, `transaction_activity` | `run`, `handle_message`, `process` | redelivery, retries that reorder and that other groups read, commits that fail |
| Backfill (`management/backfill_events.py`) | outbox rows | `backfill` | partial and forced runs, services publishing at the same time |
| Token refresh (`auth_service.py`) | Redis tokens | `register`, `login`, `refresh_token` | non-atomic rotation |
| Scheduled payments | none yet | TODO stubs | nothing to model |

The saga, the transfers, the deposits and the seeds write the ledger and the
outbox in the same Postgres transaction as their own record. The saga calls the
rail through the breaker. The relay reads the outbox; the consumers read Kafka;
the activity consumer builds the history users are shown, and the backfill
command feeds the outbox with events for what happened before there was one.

## Modules

| Module | Models | Used by |
|---|---|---|
| `Ledger` | legs, UNIQUE keys, derived balance (operators only) | `WithdrawalSaga`, `Transfers`, `TransactionHistory`, `LedgerProofs` |
| `WithdrawalSaga` | API handlers, recovery runs, rail, Redis cache | `MCWithdrawalSaga`, `WithdrawalSagaProofs`, `SagaMoneyProofs` |
| `CircuitBreaker` | callers of `CircuitBreaker.call`, Redis keys, clock | `MCCircuitBreaker`, `CircuitBreakerProofs` |
| `OutboxRelay` | outbox table, relay processes, Kafka's log | `MCOutboxRelay`, `OutboxRelayProofs` |
| `Transfers` | transfers, deposits, seeds, accounts, row locks | `MCTransfers`, `TransfersProofs` |
| `EventConsumer` | a topic and the consumer groups that read it | `MCEventConsumer`, `EventConsumerProofs` |
| `TransactionHistory` | the services' events, the activity consumer and the backfill, against the ledger | `MCTransactionHistory`, `TransactionHistoryProofs` |
| `AtomicBank` | abstract: one request at a time | `Transfers` (refinement) |
| `HeldFunds` | abstract: a hold that ends once | `WithdrawalSaga` (refinement) |

### WithdrawalSaga

One variable per table or Redis key family (`row`, `ledger`, `outbox`, `cache`),
one per lock (`acctLock`, `rowLock`), a program counter per request (`pc`) and per
recovery run (`wpc`). A step ends where the code awaits something another actor
can get in front of. TX 1 is three steps because the account row is locked while
the balance is read; the recovery transaction is several because it holds the
withdrawal's row lock across the rail call (`_recover_pending` flushes
`submitted`, which nobody else sees, and a rollback takes it back). A row is named by its idempotency key: the
column is UNIQUE, so there is at most one row per key.

`updated_at` is abstracted to `age`: younger than 5 minutes, older than 5, older
than 30. Any write to the row makes it fresh (the `before_flush` listener), and
`Age` lets time pass. The handler's writes after TX 1 are UPDATEs by primary key
of the columns it changed in memory (`expire_on_commit=False`), so `MarkSubmitted`
and `Complete` overwrite whatever the row has become; that is the code.

`PromptHandlers = TRUE` states an assumption on timing, not on the code: a live
handler does not leave its row untouched for five minutes. It is FALSE wherever a
property holds without it.

`payouts`, `lost` are not program state: what the rail has paid, and for which
withdrawals a success was forgotten in a crash.

### CircuitBreaker

Each Redis command and each Lua script is one step. The clock is abstracted to
whether the last failure is within the cooldown. `probing` is a history variable:
the callers let in on the probe key that exists now. A caller may vanish at any
point (`Abandon`): cancelled, crashed, or `fn` raised something that is not a
`RailError`, which `call` neither counts nor clears.

### OutboxRelay

A row goes absent, pending, publishing, then published, pending again or failed,
and is finally deleted. Each relay keeps `copy`, its detached ORM objects, and
`ConfirmBatch` writes all of them back, as `db.merge` does, over whatever the rows
are by then. `aged` are rows created more than five minutes ago, the only thing
`recover_stuck_rows` looks at. `log` is Kafka.

### Transfers

Row locks are explicit. `SELECT ... FOR UPDATE` holds to the end of the
transaction; the foreign key of `ledger_entries.account_id` makes an INSERT take a
key-share lock, which waits for another transaction's FOR UPDATE. Accounts are
numbers ordered as `sorted(..., key=str)` orders UUIDs; the system account's UUID
sorts first. A seed commits in one step once both rows are free.

### EventConsumer

One topic with one partition (`kafka/create-topics.sh`), read by every group
through its own offset. `pos` is the position of the running consumer, `committed`
the offset the broker keeps for the group; they part at the hand-over (`Poll`) and
meet at a commit. `handle_message` is cut where another actor or a stop can come in
between: processed and not committed, failed and not yet sent on, sent on and not
committed. `effects` counts what `process()` left behind: at most one row for the
groups of `Tables` (the UNIQUE constraints of `audit_events` and
`transaction_activity` swallow the second), one notification per processing for the
others. Of a message's bytes four cases matter: sound; JSON that `parse_event` refuses;
text that is not JSON (`JSONDecodeError`, dead-lettered at once); and bytes on which
`json.loads` raises anything else, as `UnicodeDecodeError` where they are not text. Nobody
catches that: `DecodeRaises` takes the consumer down with nothing committed, and its
restart is handed the same message. `process()` may also raise because its
database does, before or after its transaction committed. `base` and the `sender`
of a message are history.

### TransactionHistory

The services are one step each: their inner steps are the business of
`WithdrawalSaga` and `Transfers`, which show that legs, record and event commit
together. The outbox is split into the `account.opened` rows, which the guard of
the backfill counts and the cleanup deletes, and `sent`, all other events ever
published. `Consume` takes any event of `sent`, as often as it likes and in any
order, which is what relay and consumers give: `EventConsumer` and `OutboxRelay`
deliver at least once and keep no order. An event is named by who published it, its
type and its record: services draw a fresh event id, the backfill derives one from
type and record (`backfill_event_id`), so repeating a backfill repeats ids and
publishing a record both ways does not. Withdrawals finish once here, which the
saga gives with prompt handlers; handler or recovery worker may be the one to refund.
A transfer may go to the system account, whose history then has a row too.

Amounts are in quarters of 0.0001, because no request schema limits decimals and the
same amount is converted twice. `Stored` is the column, `Numeric(19, 4)`: the nearest
digit, the higher one from half way. `Formatted` is `f"{amount:.4f}"`: the nearest digit,
the even one from half way. The ledger has `Stored` of what was asked for; the row of the
history has what went through the event (`PayloadAmount`): formatted from the request by
the services, formatted from the table by recovery and backfill, unformatted
(`str(amount)`) for deposits. So 1.00005 posts 1.0001 and shows as 1.0000. The two
properties say exactly how far this goes: `HistoryMatchesLedger` allows a row one digit
less than its leg where a service formatted an amount half way between two digits
(`Inexact`), and nothing else; `CompleteHistory` allows the sum one digit per such leg.
Balances are compared with the amount asked for, as the code does. `Transfers` and
`WithdrawalSaga` take amounts that are whole digits: what a request moves is then what it
asked for.

### The abstract specifications

`AtomicBank` has balances, an outcome per key and reference, and one step per
transfer, deposit or seed, decided by the balance of that moment. `Transfers`
implements it (`ImplementsAtomicBank`) with each balance mapped to the sum over the
ledger: with all its locks, two commits, IntegrityError branches, caches and crashes
it is linearizable, and a refused transfer was refused on the balance it had.

`HeldFunds` has a balance and a hold per withdrawal that goes from held to paid or
returned, with the money back in the same step, and fairness that every hold ends.
`WithdrawalSaga` implements it under prompt handlers (`ImplementsHeldFunds`):
pending and submitted map to held. Retries, recovery runs, crashes between the
transactions are all stutters, a terminal status is never left, and no hold stays.
Without prompt handlers this fails, as `SagaNeverTerminates` shows.

## What the runs check

| Run | Instance | Shows |
|---|---|---|
| `SagaAccounts` | 2 keys, 2 handlers, 1 account that can pay one of them, 1 recovery run, 1 crash; symmetric | `TypeOK`, `NoOverdraft`, `OutboxMatchesLedger` |
| `SagaRecovery` | 1 key with 2 bodies, 2 handlers of any speed, 2 recovery runs, 2 crashes, every rail answer | `NoDoubleCredit`, `TerminalIsSettled`, `CacheSound`; liveness `EveryDebitSettles` |
| `SagaPrompt` | prompt handlers; 2 withdrawals, 2 handlers, 2 recovery runs that take one row at a time, 1 crash | `MoneyMovesOnce`; refinement `ImplementsHeldFunds`; liveness `EveryWithdrawalTerminates` |
| `Breaker` | 3 callers, threshold 2 | `TypeOK`, `ClosedBelowThreshold`, `TrippedIsDated`, `SingleProbe`; liveness `SelfHeals` |
| `Relay` | 2 relays, 2 events, 2 attempts, lost acknowledgements, 1 crash; symmetric | `TypeOK`, `PublishedIsDelivered`, `NothingVanishes`, `DuplicatesExplained`, `PublishedIsFinal` |
| `RelayLiveness` | the same without lost acknowledgements | liveness `DeliveredOrFailed` |
| `Transfers` | 2 users, 2 requests at a time, 2 keys, 1 deposit reference, 1 seed, any crashes | `TypeOK`, `NoOverdraft`, `RecordsMatchLedger`, `CacheSound`, `NoBidirectionalDeadlock`; refinement `ImplementsAtomicBank`; liveness `EveryRequestAnswered` |
| `Consumers` | 2 groups (one with a table), a sound event and one that is invalid, no JSON or undecodable, 1 retry, 1 stop or failed commit | `TypeOK`, `NothingSkipped`, `DeadLetterAfterRetries`, `RetriesBounded`, `EffectsExplained`; liveness `EveryEventHandled` |
| `History` | an old account and a new one, the system account as a recipient, 2 old records and a new one, 2 backfills, an amount half way to a digit and one near it | `TypeOK`, `HistoryMatchesLedger`, `CompleteHistory` |

Three runs show where the code and its own documentation disagree:

| Run | Counterexample |
|---|---|
| `SagaPaidAndRefunded` | The process dies after the rail has paid and before TX 3a. The row is submitted without a reference; after 30 minutes recovery refunds it. README: "no money created or lost, even under failures". |
| `SagaNeverTerminates` | A handler stalls five minutes before its flip to submitted. Recovery compensates; the flip turns `failed` into `submitted`; the rail refuses; every reversal from then on violates the UNIQUE reversal key and rolls back. No money is lost (`NoDoubleCredit` and `EveryDebitSettles` hold here), but the row stays submitted and recovery retries it for ever. |
| `TransfersDeadlock` | A transfer to the system account locks system, then user; a deposit locks user, then needs system. |

The passing `Transfers` run leaves the system account out of `Recipients` and the
violation is the run that puts it in.

### Bounds

Two of everything that races (handlers, recovery runs, relays, requests) is where
these protocols can go wrong: each race here is between two actors over one row,
and a third caller is added in the breaker, where a third result can arrive
between two others. Two crashes let recovery itself crash after a handler did.
Amounts and openings are chosen so that one of two withdrawals fits a balance and both do
not. Two delivery attempts exercise both sides of the retry limit. Crashes are
bounded by `MaxCrashes` in the saga and in the relay; a transfer may crash any
number of times. `NEvents` bounds the events written.

`SagaPrompt` has two withdrawals and a batch limit of one, so that more rows are
stuck than a recovery run takes: with `LIMIT` and no `ORDER BY` the same row may be
taken again and again, yet it ages, is settled at the latest by the hard timeout, and
makes room. A row that can never be settled (`SagaNeverTerminates`) does not make
room; twenty of them would take up a whole batch. Under prompt handlers no submitted
row has a reference, so one answer of `query_status` is enough there; `SagaRecovery`
has all of them.

In `Consumers` one retry is the smallest number with a message on each side of the
limit; the two groups fail on the same event and read each other's retries, and
`MaxFaults` bounds stops and failed commits together (failures of `process()` are
not bounded). The undecodable message may stand before and after the sound one and its
retries, so a group meets it with and without a committed offset. In `History` two old records
and a new one make old transfers that succeed (to the system account) and that fail, new ones
between users, a new record published while the backfill reads, and a new withdrawal with
its reversal; two backfills are an aborted or complete one and a forced one. The amounts 2
and 3 stand for 0.00005, which the column rounds up and the event rounds down, and
0.000075, which both round up: a difference of a digit is as large as the amount itself.

`CHECK_DEADLOCK FALSE` is set for the relay and consumer runs only: with a bounded
number of events all may be delivered and read, and nothing is left to do.

Symmetry is used in two safety runs and in no run with a liveness property.

### Fairness

* Saga: weak fairness of each handler's steps, each recovery run's claim and
  resolution, and of time. The awaits of a live process return, `_recovery_loop`
  is an endless loop that survives exceptions, and every process starts one. No
  fairness for clients, crashes or cache expiry. The rail may refuse for ever.
* Breaker: only the clock (cooldown and key expiry). No caller need do anything.
* Relay: each relay's loop and its five-minute recovery, and time. Kafka may
  refuse everything.
* Consumers: weak fairness of each group's next step, its restart included
  (`restart: unless-stopped` in `docker-compose.yml`). Whether `process()` succeeds is
  left open for ever, and nothing need be delivered. A group whose next message is
  undecodable is restarted, handed it and stopped for ever, so `EveryEventHandled` ends in
  handled or `Stuck`.
* `TransactionHistory` is checked for safety only and assumes no fairness.
* Transfers: strong fairness of a request's steps. Lock waits are queued by
  Postgres in arrival order, so a waiter whose lock becomes free again and again
  gets it.

### Faulty variants

A definition named `Faulty...` stands before the one it is a variant of and is
used by no specification. It is that definition with a plausible bug (no FOR
UPDATE, no reversal key, the cache written early, an off-by-one in the retry
limit, unsorted locks, ...); `PROJECT.json` ("mutants") says which property fails
when it is substituted.

## What is proved

Eight modules of proofs, checked by TLAPS, for any sets of accounts (finite), keys,
references, requests, recovery runs, callers, relays, events, records and consumer
groups, any batch limit, threshold, retry limit and number of crashes, faults and
backfills. The assumptions are the named ASSUMEs of the modules: the system account is no
user's, amounts are positive, `Nobody` is no actor, the relay is no consumer group, account
numbers are ordered with the system account first (in `Transfers`), batch limits, the
threshold and the relay's retry limit are positive. Three theorems have a
hypothesis of their own: `NoDeadlock` that no client names the system account
(`TransfersDeadlock` shows why), `SagaMoneyMovesOnce` and `SagaImplementsHolds` that
handlers are prompt (`SagaNeverTerminates` shows why).

### Sums (`LedgerProofs`)

A balance is a sum over a set, which `MapThenSumSet` takes in an order that CHOOSE
fixes, by a function chosen to satisfy the recursion. That such a function exists and is
unique, that any leg may be taken out first (`TotalRemove`), that a new leg adds its
signed amount (`TotalAdd`) and that the sum of a one-to-one image is out by at most D for
each member whose signed amount is out by up to D (`TotalImage`) are each shown on a smallest counterexample: a nonempty
collection of subsets of a finite set has a minimal member (`SmallestSubset`, from the
well-foundedness of strict inclusion). This takes the place of induction, whose theorems
in the library have an operator as a parameter. `PostingMoves` is what the
other modules cite: posting a new pair of legs moves its amount and changes no other
balance.

### The saga (`WithdrawalSagaProofs`, `SagaMoneyProofs`)

* `SagaTypeOK`: one lemma per group of actions. The ledger stays a finite set of
  well-typed legs, which the later theorems need for cardinalities.
* `SagaNoDoubleCredit`: not inductive as stated. `ReversalInv` adds that every
  credit of a withdrawal's reversal carries the key `<<"reversal", k>>`, so that a
  second one meets the UNIQUE constraint whoever writes it, handler or recovery.
* `SagaTerminalIsSettled`: needs `LockInv` (a recovery run holds the lock of at
  most one row, and of none between two rows, so the rail's answer is recorded on the row it
  was asked about), `PaidInv` (a handler or a run that believes the rail has paid is right, and so
  is a row with a reference) and `RefundInv` (a failed row has its reversal in the
  ledger).
* `SagaCacheSound`: `CacheInv` adds that Redis knows a key only after its row is
  committed, and that a handler about to write the cache has committed a row with
  the parameters it will write; no action changes the parameters of a row.
* `SagaOutboxMatchesLedger`: `TableStep` first reduces every action to what it commits:
  a debit, a completion, a compensation, or nothing but status and age. `LegInv` says
  that a key without a row has no debit and that a reversal was posted with both legs, so
  legs about to be posted are always new and counts move by exactly one pair
  (`TablesInv`).
* `SagaNoOverdraft`: `AccountInv`, a request between its balance check and TX 1 holds the
  account's row lock, and `FundsInv`, the balance it decided on is still there. Only a
  debit lowers a balance, and only under that lock.
* `SagaMoneyMovesOnce`, under prompt handlers: `OwnerInv`, a row that a handler is still
  driving is too young for recovery to claim, a claimed row has no handler, and only a
  completed row has a reference. So a row has one owner at a time. `ReturnedInv` then ties
  the reversal to the status failed, and `PayoutInv` counts the rail's payouts: one if the
  row is completed or somebody alive knows of a success, none otherwise, unless a crash
  lost it.
* `SagaImplementsHolds`, under prompt handlers: every step is a hold, a payout, a return
  or a stutter of `HeldFunds`, with the balance mapped to the sum over the ledger. This is
  the safety part of `ImplementsHeldFunds`; that every hold ends is fairness and stays
  with TLC.

### The circuit breaker (`CircuitBreakerProofs`)

* `BreakerTypeOK`, `BreakerClosedBelowThreshold`, `BreakerTrippedIsDated`: the
  last two together are inductive.
* `BreakerSingleProbe`: with `ProbeInv`, callers let in on the probe key exist
  only while the key does, so neither the claim script nor SET NX lets in another.

### The relay and the consumers (`OutboxRelayProofs`, `EventConsumerProofs`)

* `RelayTypeOK`, `RelayPublishedIsDelivered`, `RelayNothingVanishes`: `HonestInv`
  says the same of the copies a relay has claimed as of the rows, because a merge
  writes them over the rows later; what Kafka has stored stays stored.
* `RelayDuplicatesExplained`, `RelayPublishedIsFinal`: `ExclusiveInv`. For an event that
  was neither recovered as stuck nor stored without an acknowledgement, one relay at
  most has it, its row says publishing while that relay does, and once it is delivered
  nobody is about to send it and its row cannot be claimed.
* `ConsumerTypeOK`: `HandInv` adds that a consumer at work has a message of the topic in
  hand, which types what it re-publishes.
* `ConsumerNothingSkipped`: `ReadInv` says of everything a running consumer was handed,
  but for the message it works on, what the property says of the committed part; it is
  what a commit then covers. `HandledStays`: no step of any group takes back a row, a
  notification, a dead letter or a queued retry.
* `ConsumerDeadLetterAfterRetries`: `LadderInv`, below every retry in the topic are all the
  earlier ones of its event, from whichever groups.

* `ConsumerEffectsExplained`, `ConsumerRetriesBounded`: both compare a counter with a
  number of copies in the topic, and neither is inductive: a copy not yet read must not
  count. `EffectsInv` and `SentInv` count only the copies up to a mark, the last message
  that may have had its effect, or may have been sent on. `OneInHand` says that a
  consumer is at most one message past its offset, so a restart costs one more effect and
  one more retry, which the fault pays for.

### Transfers, deposits and seeds (`TransfersProofs`)

* `TypeCorrect`: `RequestsTyped` adds what the router's checks guarantee of a request at
  work.
* `NoDeadlock`: `LocksHeld` says which row locks a request holds at each point. Two
  transfers that wait for each other would each hold the account that sorts first for the
  other; a deposit holds one account and waits for none that a transfer can hold.
* `RecordsMatch`: `DepositsInFlight`, the request that has inserted a deposit is the only
  one for its reference until it commits, so record and legs appear together and once.
* `CacheIsSound`: `CachePending`, a handler about to cache has seen its row committed.
* `NeverOverdrawn`: `BankInv`, all of the above with `LedgerSound` (finitely many legs, a
  seed's legs carry its key) and `DecidedOnBalance`: the balance a transfer was decided on
  is still its sender's when it commits, because the row is locked and deposits and seeds
  wait for it.
* `Refinement`: each commit is one step of `AtomicBank`, decided as the bank decides at that
  moment, since `DecidedOnBalance` holds then; all other steps are stutters.

### The history (`TransactionHistoryProofs`)

* `HistoryTypeOK`, `HistoryMatches`: the ledger is what the records say (`LedgerInv`), an
  event is about a record that can have been reported so (`SentInv`), and the history is
  exactly one row per handled event and visible leg that it tells of (`HistoryInv`); a leg
  is visible if it is a user's, or a transfer's. `RowsAreLegs` is the heart: the rows
  `process()` builds from a payload are the legs the service posted, event type by event
  type, but for the amount. `ConsumeRows`: UNIQUE(event_id, account_id) lets in all rows of
  an event the first time and none of them again. `Rounding` compares the two conversions
  for every amount: they agree unless it is half way between two digits, and then the text
  is the column's digit or the one below; what was stored or formatted once stays as it is.
  `RowAmountNear` carries that through events of services, recovery and backfill.
* `HistoryComplete`: old records never change (`LegacyKept`), a service or the recovery
  worker tells of every leg it posts (`ServiceTold`) and of a refund only once
  (`OneFailure`), and the backfill is through with every old record it does not
  still have to do, section by section (`BackfillInv`), so a finished run leaves none out.
  Unless a record was told of twice each leg then has exactly one event (`OneTeller`),
  legs and rows correspond one to one, and `TotalImage` bounds the difference of the sums.

### Only model-checked

The liveness properties: `EveryDebitSettles`, `EveryWithdrawalTerminates`, the fairness of
`ImplementsHeldFunds`, `SelfHeals`, `DeliveredOrFailed`, `EveryRequestAnswered` and
`EveryEventHandled`. Fairness and ENABLED are out of the prover's reach.

## Other disagreements met while modelling

Not expressed as runs. The first group is in the models, and the properties above
state what holds instead:

* Relays publish an event twice without any crash: `recover_stuck_rows` resets
  `publishing` rows by `created_at` (`outbox_relay.py` 133), so a row that waited five
  minutes is handed to a second relay while the first publishes it. `claim_batch`
  (58-59) promises "no duplicate publishes", README line 340 "exactly once";
  `DuplicatesExplained` says when it happens.
* A consumer group that stops before its first commit skips what is published until it
  is back: without an offset it starts at the end of the topic (`consumer_base.py`
  143). `NothingSkipped` counts from where the group began, `EveryEventHandled` from its
  first commit.
* A message whose bytes are not text stops a group for ever: `json.loads` raises
  `UnicodeDecodeError`, only `JSONDecodeError` is caught (`consumer_base.py` 79-81), and the
  restart reads on at the same offset. "consumer makes forward progress" (132) holds up
  to such a message; `EveryEventHandled` excepts a group that stands before one (`Stuck`).
* The history may differ from the ledger in the fourth decimal, since no schema limits
  decimals: column and event round a tie differently (`transfer_service.py` 153,
  `account_service.py` 173, `withdrawal_service.py` 307). A withdrawal of 1.00005
  refunded by the recovery worker is shown as -1.0000 and +1.0001 (`saga_recovery.py` 221
  formats the column). `Shows` and `Tolerance` say how far it goes; the backfill's "complete
  history from day one" (`backfill_events.py` 5) holds up to that.
* `x-retry-count` is shared: a message that two groups fail on is dead-lettered after
  three retries in all and not three each, and every group processes every
  retry again. `consumer.commit()` stands inside the `try` of `process()` (99-101), so
  a failed commit re-publishes, or dead-letters, an event that was processed.
* A backfill run over records whose service has already published them (`force=True`, or
  while the services run: the queries at 102-111 and 150-157 take all transfers and
  seeds) tells them a second time under another event id, and the history shows them
  twice. `CompleteHistory` excepts exactly these (`ToldTwice`).
* A backfill that died half way has left `account.opened` rows and is refused by its own
  guard from then on; only a forced run can finish it (73-77). So is a first run, once any
  account was opened through the API and its row not yet cleaned up.

The second group is about state the models leave out:

* A retried withdrawal whose key is in the table but not in Redis is refused with
  INSUFFICIENT_BALANCE when the first attempt used the money up: the balance is
  checked before the key (`withdrawal_service.py` 249-251; docstring 198-201).
* On the UNIQUE violation the existing row is returned without comparing the
  request hash (269-274; docstring 121).
* Recovery says it holds no row locks during network calls
  (`saga_recovery.py` 10-11) and does (100-112, 139-145).
* A success that arrives late closes an OPEN circuit directly
  (`circuit_breaker.py` 78), a transition the header does not list; the claim
  script does not repeat the cooldown check (94-104).
* A transfer of 1.00005 retried after its Redis entry was lost is answered with a conflict:
  the hash of the stored 1.0001 is compared with that of the request, formatted as 1.0000
  (`transfer_service.py` 178-184, 227-228). A seed retried so is refused too, its stored
  amount being compared with the unrounded one (`account_service.py` 190). `Transfers` has
  amounts of whole digits, where both agree.
* A refused transfer uses its key up (`transfer_service.py` 68-101, 185-186).
* A row that failed to publish is retried behind its successors, and is given up
  after ten attempts (`outbox_relay.py` 238-243); README lines 390-391 promise order
  and no loss. The history does not depend on the order (`HistoryMatchesLedger`).
* The audit consumer subscribes to transfers and accounts only (`audit_consumer.py`
  45) and so keeps no row of deposits and withdrawals; its docstring (4-5) says it must
  capture "every state change in the system".

## Plan

1. Done: all modules above, the refinements to `AtomicBank` and `HeldFunds`, and the proofs
   of every safety property of the passing runs.
2. Composition of transfers and TX 1 of the saga on one ledger (account locks
   shared), and of the breaker with the saga, where a refusal may now come at any time.
3. Proofs about the operators that the liveness arguments use (what each helpful step
   brings nearer), as far as they are safety.

### Not modelled

Authentication (`register`, `login`, `refresh_token`): it touches no money and
no event; password hashing and JWTs are library calls, and the one hazard of its own,
two refreshes that read a token before either deletes it, is listed in
`PROJECT.json`. Scheduled payments: the bodies of executor and service are TODO stubs
without a state change. HTTP error mapping and schemas, read-only endpoints and Alembic
migrations: no behaviour of their own.
Currency, destinations and timestamps are left out of the models: nothing the
modelled code decides depends on them except through the request hash and `age`.
