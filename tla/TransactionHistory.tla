------------------------ MODULE TransactionHistory ------------------------
(***************************************************************************)
(* The read model behind GET /v1/accounts/me/transactions: every service   *)
(* posts its legs and its event in one transaction, the activity consumer  *)
(* (workers/activity_consumer.py) turns the events it is handed into rows  *)
(* of transaction_activity, and the backfill command                       *)
(* (management/backfill_events.py) writes events for what happened before  *)
(* there were any.                                                         *)
(*                                                                         *)
(* Between outbox and consumer stands a channel that keeps no order and    *)
(* may repeat: that is what OutboxRelay and EventConsumer give.  The       *)
(* services are one step each here; their own steps are in Transfers and   *)
(* WithdrawalSaga.                                                         *)
(*                                                                         *)
(* No schema limits the decimals of an amount, so two conversions meet:    *)
(* the column rounds what the ledger holds, and the text of the event      *)
(* rounds what the history shows.  Amounts here are finer than either.     *)
(***************************************************************************)
EXTENDS Ledger

CONSTANTS
    LegacyAccounts, \* accounts opened before the outbox existed
    NRecords,      \* bound: seeds, transfers, deposits and withdrawals in a behaviour
    NLegacy,       \* those of them made before the outbox existed
    Amounts,       \* amounts clients ask for, in quarters of 0.0001
    MaxBackfills   \* bound: runs of the backfill command

ASSUME HistoryAssumption ==
    /\ LegacyAccounts \subseteq Accounts
    /\ NRecords \in Nat /\ NLegacy \in 0..NRecords
    /\ Amounts \subseteq Nat \ {0} /\ MaxBackfills \in Nat

VARIABLES
    opened,    \* table accounts
    record,    \* the tables transfers, deposits, withdrawals, and the seeds
    ledger,    \* table ledger_entries
    outbox,    \* the account.opened rows in the outbox, which the guard counts
    sent,      \* events of the other types whose row has ever been there
    handled,   \* history: events about money the activity consumer has processed
    activity,  \* table transaction_activity
    bpc,       \* where the backfill command is
    todo,      \* entities its query returned and its loop has not reached
    backfills, \* runs so far
    finished   \* history: a run has come to its end

vars == <<opened, record, ledger, outbox, sent, handled, activity, bpc, todo, backfills,
          finished>>
tables == <<opened, record, ledger>>
backfillVars == <<bpc, todo, backfills, finished>>

Ids == 1..NRecords

-----------------------------------------------------------------------------
(* Amounts *)

\* 0.0001, the last digit of a column and of the text in an event.  Four steps of it tell
\* an amount on a digit, one half way between two, and those on either side apart.
Digit == 4

\* Numeric(19, 4): the nearest digit, and the higher one from half way.
Stored(x) == Digit * ((2 * x + Digit) \div (2 * Digit))

\* Faulty variant: the digits after the fourth are cut off.
FaultyTruncated(x) == Digit * (x \div Digit)

\* f"{amount:.4f}": the nearest digit, and the even one from half way.
Formatted(x) ==
    LET below == x \div Digit
        rest  == 2 * (x % Digit)
    IN  IF rest > Digit \/ (rest = Digit /\ below % 2 = 1) THEN Digit * (below + 1)
                                                          ELSE Digit * below

HalfWay(x) == 2 * (x % Digit) = Digit

\* CHECK (amount > 0) of every table: what rounds to nothing is not entered.
Storable == { x \in Amounts : Stored(x) > 0 }

-----------------------------------------------------------------------------
(* Records and events *)

\* amount is what the client asked for; the column holds Stored(amount).  The recipient of
\* a transfer is whatever account the client names, the system's included.
Records ==
    [kind : {"seed"}, from : {SYSTEM}, to : Accounts, amount : Storable, status : {"completed"}]
    \cup
    { r \in [kind : {"transfer"}, from : Accounts, to : Accounts \cup {SYSTEM}, amount : Storable,
             status : {"completed", "failed"}] : r.from # r.to }
    \cup
    [kind : {"deposit"}, from : {SYSTEM}, to : Accounts, amount : Storable,
     status : {"completed", "rejected"}]
    \cup
    [kind : {"withdrawal"}, from : Accounts, to : {SYSTEM}, amount : Storable,
     status : {"pending", "completed", "failed"}]

NoRecord == [kind |-> "none", from |-> SYSTEM, to |-> SYSTEM, amount |-> 0, status |-> "none"]

\* The legs of a record: every record moves money but a refused transfer or deposit.
LegsFor(i, r) ==
    IF r.kind \in {"transfer", "deposit"} /\ r.status # "completed"
    THEN {}
    ELSE LegPair(0, r.kind, i, r.from, r.to, Stored(r.amount), NullKey)

\* The event a service publishes with a record.
Reports(r) ==
    CASE r.kind = "seed" -> "seed.completed"
      [] r.kind = "transfer" /\ r.status = "completed" -> "transfer.completed"
      [] r.kind = "transfer" /\ r.status = "failed" -> "transfer.failed"
      [] r.kind = "deposit" /\ r.status = "completed" -> "deposit.completed"
      [] r.kind = "deposit" /\ r.status = "rejected" -> "deposit.rejected"
      [] r.kind = "withdrawal" /\ r.status = "pending" -> "withdrawal.initiated"
      [] r.kind = "withdrawal" /\ r.status = "completed" -> "withdrawal.completed"
      [] r.kind = "withdrawal" /\ r.status = "failed" -> "withdrawal.failed"

EventTypes == {"account.opened", "seed.completed", "transfer.completed", "transfer.failed",
               "deposit.completed", "deposit.rejected", "withdrawal.initiated",
               "withdrawal.completed", "withdrawal.failed"}

(***************************************************************************)
(* An event with its event_id.  A service, and the recovery worker, draws  *)
(* a fresh id for each event and publishes each type once for a record;    *)
(* backfill derives the id from type and entity.  So origin, type and      *)
(* entity are the id, and the rest of the payload is the record's.         *)
(***************************************************************************)
Events == [origin : {"service", "recovery", "backfill"}, type : EventTypes,
           ref : Ids \cup Accounts]

EventOf(origin, r, i) == [origin |-> origin, type |-> Reports(r), ref |-> i]

ServiceEvent(r, i) == EventOf("service", r, i)

BackfillEvent(type, ref) == [origin |-> "backfill", type |-> type, ref |-> ref]

-----------------------------------------------------------------------------
(* Before the outbox: accounts, seeds and transfers, and no events *)

LegacyRecords ==
    { r \in Records : /\ r.kind \in {"seed", "transfer"}
                      /\ {r.from, r.to} \subseteq LegacyAccounts \cup {SYSTEM} }

LegacyLedger(past, n) == UNION { LegsFor(i, past[i]) : i \in 1..n }

Init ==
    /\ opened = LegacyAccounts
    /\ \E past \in [1..NLegacy -> LegacyRecords] :
           /\ \A n \in 1..NLegacy, a \in Accounts : GetBalance(LegacyLedger(past, n), a) >= 0
           /\ record = [i \in Ids |-> IF i <= NLegacy THEN past[i] ELSE NoRecord]
           /\ ledger = LegacyLedger(past, NLegacy)
    /\ outbox = {} /\ sent = {} /\ handled = {} /\ activity = {}
    /\ bpc = "idle" /\ todo = {} /\ backfills = 0 /\ finished = FALSE

-----------------------------------------------------------------------------
(* The services, one transaction each *)

\* publish_event, in the transaction of its caller.
Publish(ev) ==
    IF ev.type = "account.opened"
    THEN outbox' = outbox \cup {ev} /\ UNCHANGED sent
    ELSE sent' = sent \cup {ev} /\ UNCHANGED outbox

\* Records still to come.
Unused == { i \in Ids : record[i] = NoRecord }

\* The next record is written, with its legs and its event.
Enter(i, r) ==
    /\ i \in Unused /\ \A j \in 1..(i - 1) : j \notin Unused
    /\ {r.from, r.to} \subseteq opened \cup {SYSTEM}
    /\ record' = [record EXCEPT ![i] = r]
    /\ ledger' = ledger \cup LegsFor(i, r)
    /\ Publish(ServiceEvent(r, i))
    /\ UNCHANGED <<opened, handled, activity, backfillVars>>

Seed(i, r) == r.kind = "seed" /\ Enter(i, r)

\* transfer(): refused, and recorded as refused, exactly when the balance is too small.
Transfer(i, r) ==
    /\ r.kind = "transfer"
    /\ Enter(i, r)
    /\ r.status = "failed" <=> GetBalance(ledger, r.from) < r.amount

\* simulate_deposit(): any of its rules may reject.
Deposit(i, r) == r.kind = "deposit" /\ Enter(i, r)

\* create_withdrawal(), TX 1.
InitiateWithdrawal(i, r) ==
    /\ r.kind = "withdrawal" /\ r.status = "pending"
    /\ Enter(i, r)
    /\ GetBalance(ledger, r.from) >= r.amount

\* _complete, of the handler or of the recovery worker.
CompleteWithdrawal(i) ==
    LET r == [record[i] EXCEPT !.status = "completed"] IN
    /\ record[i].kind = "withdrawal" /\ record[i].status = "pending"
    /\ record' = [record EXCEPT ![i] = r]
    /\ Publish(ServiceEvent(r, i))
    /\ UNCHANGED <<opened, ledger, handled, activity, backfillVars>>

\* _compensate, of the handler ("service") or of the recovery worker.
FailWithdrawal(i, origin) ==
    LET r == [record[i] EXCEPT !.status = "failed"] IN
    /\ record[i].kind = "withdrawal" /\ record[i].status = "pending"
    /\ record' = [record EXCEPT ![i] = r]
    /\ ledger' = ledger \cup LegPair(0, "withdrawal_reversal", i, r.to, r.from, Stored(r.amount),
                                     <<"reversal", i>>)
    /\ Publish(EventOf(origin, r, i))
    /\ UNCHANGED <<opened, handled, activity, backfillVars>>

\* open_account().
OpenAccount(a) ==
    /\ a \notin opened
    /\ opened' = opened \cup {a}
    /\ Publish([origin |-> "service", type |-> "account.opened", ref |-> a])
    /\ UNCHANGED <<record, ledger, handled, activity, backfillVars>>

\* cleanup_published_rows; one that leaves a row behind changes nothing the guard sees.
CleanUp ==
    /\ outbox # {} /\ outbox' = {}
    /\ UNCHANGED <<tables, sent, handled, activity, backfillVars>>

\* The event type that tells of the legs of an entry type.
ToldBy == [seed |-> "seed.completed", transfer |-> "transfer.completed",
           deposit |-> "deposit.completed", withdrawal |-> "withdrawal.initiated",
           withdrawal_reversal |-> "withdrawal.failed"]

AboutMoney(ev) == \E t \in DOMAIN ToldBy : ToldBy[t] = ev.type

-----------------------------------------------------------------------------
(* The activity consumer *)

\* The amount in the payload: deposits write str() of what was asked for, the other
\* services format what was asked for (the session keeps it over a commit), recovery and
\* backfill format what they have read from a table.
PayloadAmount(ev) ==
    LET asked == record[ev.ref].amount
    IN  IF ev.type = "deposit.completed" THEN asked
        ELSE Formatted(IF ev.origin = "service" THEN asked ELSE Stored(asked))

\* One row of transaction_activity; seeds carry no reference, which is kept in event.
Row(ev, account, direction, entry_type) ==
    [event |-> ev, account |-> account, direction |-> direction,
     amount |-> Stored(PayloadAmount(ev)), entry_type |-> entry_type]

\* Faulty variant: the amount of a debit is entered with its sign.
FaultySignedRows(ev) ==
    IF ev.type = "withdrawal.initiated"
    THEN { [Row(ev, record[ev.ref].from, "debit", "withdrawal") EXCEPT !.amount = -@] }
    ELSE {}

\* process(): the rows of an event.
RowsOf(ev) ==
    CASE ev.type = "transfer.completed" ->
              { Row(ev, record[ev.ref].from, "debit", "transfer"),
                Row(ev, record[ev.ref].to, "credit", "transfer") }
      [] ev.type = "seed.completed" -> { Row(ev, record[ev.ref].to, "credit", "seed") }
      [] ev.type = "deposit.completed" -> { Row(ev, record[ev.ref].to, "credit", "deposit") }
      [] ev.type = "withdrawal.initiated" ->
              { Row(ev, record[ev.ref].from, "debit", "withdrawal") }
      [] ev.type = "withdrawal.failed" ->
              { Row(ev, record[ev.ref].from, "credit", "withdrawal_reversal") }
      [] OTHER -> {}

\* Faulty variant: UNIQUE(event_id), as in audit_events.
FaultyUniqueEvent(rows) ==
    \/ \E r \in activity, n \in rows : r.event = n.event
    \/ \E m, n \in rows : m # n /\ m.event = n.event

\* UNIQUE(event_id, account_id) refuses to insert these rows.
Duplicate(rows) ==
    \/ \E r \in activity, n \in rows : r.event = n.event /\ r.account = n.account
    \/ \E m, n \in rows : m # n /\ m.event = n.event /\ m.account = n.account

\* The consumer is handed an event: for the first time, again, and in any order.  All its
\* rows are inserted, or none and the IntegrityError is swallowed.
Consume(ev) ==
    /\ ev \in sent
    /\ activity' = IF Duplicate(RowsOf(ev)) THEN activity ELSE activity \cup RowsOf(ev)
    /\ handled' = IF AboutMoney(ev) THEN handled \cup {ev} ELSE handled
    /\ UNCHANGED <<tables, outbox, sent, backfillVars>>

-----------------------------------------------------------------------------
(* The backfill command *)

\* "Backfill appears to have already run".
GuardRefuses == outbox # {}

\* Faulty variant: a refusal by the guard is taken for a finished run.
FaultyQuietRefusal(force) ==
    /\ bpc = "idle" /\ backfills < MaxBackfills
    /\ backfills' = backfills + 1
    /\ bpc' = IF force \/ ~GuardRefuses THEN "guarded" ELSE "idle"
    /\ finished' = (finished \/ (~force /\ GuardRefuses))
    /\ UNCHANGED <<tables, outbox, sent, handled, activity, todo>>

\* backfill(force): the guard; a run it refuses changes nothing.
StartBackfill(force) ==
    /\ bpc = "idle" /\ backfills < MaxBackfills
    /\ force \/ ~GuardRefuses
    /\ backfills' = backfills + 1
    /\ bpc' = "guarded"
    /\ UNCHANGED <<tables, outbox, sent, handled, activity, todo, finished>>

\* The queries of the three sections, each in a transaction of its own.
Selected(section) ==
    CASE section = "accounts" -> opened
      [] section = "transfers" -> { i \in Ids : record[i].kind = "transfer" }
      [] section = "seeds" ->
             { l.reference_id : l \in { m \in ledger : m.entry_type = "seed"
                                                      /\ m.direction = "credit" } }
      [] section = "idle" -> {}

Sections == [guarded |-> "accounts", accounts |-> "transfers", transfers |-> "seeds",
             seeds |-> "idle"]

\* The loop of a section has ended: the next query, or the end of the run.
NextSection ==
    /\ bpc # "idle" /\ todo = {}
    /\ bpc' = Sections[bpc]
    /\ todo' = Selected(Sections[bpc])
    /\ finished' = (finished \/ bpc = "seeds")
    /\ UNCHANGED <<tables, outbox, sent, handled, activity, backfills>>

\* One round of a loop: an outbox row of its own transaction.
Emit(x) ==
    /\ x \in todo
    /\ todo' = todo \ {x}
    /\ Publish(BackfillEvent(IF bpc = "accounts" THEN "account.opened"
                                                 ELSE Reports(record[x]), x))
    /\ UNCHANGED <<tables, handled, activity, bpc, backfills, finished>>

\* The command dies: what it has written stays.
AbortBackfill ==
    /\ bpc # "idle"
    /\ bpc' = "idle" /\ todo' = {}
    /\ UNCHANGED <<tables, outbox, sent, handled, activity, backfills, finished>>

-----------------------------------------------------------------------------
Next ==
    \/ \E i \in Unused, r \in Records :
           Seed(i, r) \/ Transfer(i, r) \/ Deposit(i, r) \/ InitiateWithdrawal(i, r)
    \/ \E i \in Ids : \/ CompleteWithdrawal(i)
                      \/ \E origin \in {"service", "recovery"} : FailWithdrawal(i, origin)
    \/ \E a \in Accounts : OpenAccount(a)
    \/ CleanUp
    \/ \E ev \in sent : Consume(ev)
    \/ \E force \in BOOLEAN : StartBackfill(force)
    \/ NextSection \/ \E x \in todo : Emit(x)
    \/ AbortBackfill

Spec == Init /\ [][Next]_vars

-----------------------------------------------------------------------------
(* Correctness *)

EntryTypes == {"seed", "transfer", "deposit", "withdrawal", "withdrawal_reversal"}

ActivityRows == [event : Events, account : Accounts \cup {SYSTEM},
                 direction : {"debit", "credit"}, amount : Nat, entry_type : EntryTypes]

\* Every variable has its type; what is handled has been sent.
TypeOK ==
    /\ opened \subseteq Accounts
    /\ record \in [Ids -> Records \cup {NoRecord}]
    /\ \A l \in ledger : l.account \in Accounts \cup {SYSTEM} /\ l.amount \in Nat \ {0}
    /\ outbox \cup sent \subseteq Events /\ handled \subseteq sent
    /\ activity \subseteq ActivityRows
    /\ bpc \in {"idle"} \cup DOMAIN Sections
    /\ todo \subseteq (IF bpc = "accounts" THEN Accounts ELSE Ids)
    /\ backfills \in 0..MaxBackfills /\ finished \in BOOLEAN

\* Legs whose two conversions may differ.
Inexact(l) == HalfWay(record[l.reference_id].amount) /\ l.entry_type # "deposit"

\* A row of the history shows a leg of the ledger: with its amount or, where the service
\* formatted an amount half way between two digits, with one digit less.
Shows(r, l) ==
    /\ r.event.ref = l.reference_id /\ r.account = l.account
    /\ r.direction = l.direction /\ r.entry_type = l.entry_type
    /\ \/ r.amount = l.amount
       \/ Inexact(l) /\ r.event.origin = "service" /\ r.amount = l.amount - Digit

Tells(ev, l) == ev.ref = l.reference_id /\ ev.type = ToldBy[l.entry_type]

\* The users' legs, and the system's where it was named as a recipient.
VisibleLegs == { l \in ledger : l.account \in Accounts \/ l.entry_type = "transfer" }

\* However events are repeated, reordered or delayed, the history shows each leg of the
\* ledger once per event that tells of it, to the digit unless its amount was asked for
\* half way between two, and shows nothing else (ActivityConsumer).
HistoryMatchesLedger ==
    /\ \A l \in VisibleLegs : Cardinality({ r \in activity : Shows(r, l) })
                                 = Cardinality({ ev \in handled : Tells(ev, l) })
    /\ \A r \in activity : \E l \in VisibleLegs : Shows(r, l)

\* Records that a service and the backfill have both published, under different ids.
ToldTwice ==
    { i \in Ids : \E e, f \in sent : /\ e.ref = i /\ e.origin = "service"
                                     /\ f.ref = i /\ f.origin = "backfill" }

ShownBalance(a) == MapThenSumSet(SignedAmount, { r \in activity : r.account = a })

\* At most one digit for each of these legs.
Tolerance(legs) == Digit * Cardinality({ l \in legs : Inexact(l) })

\* "the complete history from day one": once a backfill has finished and the consumer has
\* caught up, the history of a user adds up to the balance, however many runs were
\* aborted or forced before, unless a record was published by its service as well.  Each
\* amount asked for half way between two digits may put it out by one digit.
CompleteHistory ==
    finished /\ (\A ev \in sent : AboutMoney(ev) => ev \in handled) /\ ToldTwice = {}
        => \A a \in Accounts :
               LET out == ShownBalance(a) - GetBalance(ledger, a)
                   may == Tolerance({ l \in ledger : l.account = a })
               IN  -may <= out /\ out <= may
=============================================================================
