------------------------------- MODULE Ledger -------------------------------
(***************************************************************************)
(* The append-only double-entry ledger (table ledger_entries,              *)
(* app/models/ledger_entry.py) as the services use it: a transaction is a  *)
(* pair of legs, a balance is derived by summing the legs of an account,   *)
(* and a UNIQUE constraint on idempotency_key aborts a transaction whose   *)
(* key has been used.                                                      *)
(*                                                                         *)
(* Currency, timestamps and primary keys are left out: every leg is in     *)
(* USD and nothing the services decide depends on the others.              *)
(***************************************************************************)
EXTENDS Integers, FiniteSets, FiniteSetsExt

CONSTANTS
    Accounts,   \* the users' accounts
    SYSTEM      \* SYSTEM_ACCOUNT_ID, the counterparty of seeds, deposits, withdrawals

ASSUME SystemAssumption == SYSTEM \notin Accounts
ASSUME AccountsFinite == IsFiniteSet(Accounts)

\* A NULL idempotency_key, which UNIQUE never compares.
NullKey == <<"null", "null">>

(***************************************************************************)
(* The two legs of one transaction.  txn is the transaction_id shared by   *)
(* the legs; only the credit leg ever carries an idempotency key.          *)
(***************************************************************************)
LegPair(txn, entry_type, ref, debited, credited, amount, idem) ==
    { [txn |-> txn, account |-> debited, direction |-> "debit", amount |-> amount,
       entry_type |-> entry_type, reference_id |-> ref, idempotency_key |-> NullKey],
      [txn |-> txn, account |-> credited, direction |-> "credit", amount |-> amount,
       entry_type |-> entry_type, reference_id |-> ref, idempotency_key |-> idem] }

\* The legs posted for one record under one entry type.
LegsOf(ledger, entry_type, ref) ==
    { l \in ledger : l.entry_type = entry_type /\ l.reference_id = ref }

(***************************************************************************)
(* uuid.uuid4() for a transaction_id: a value no leg of the same record    *)
(* and entry type carries yet.                                             *)
(***************************************************************************)
FreshTxn(ledger, entry_type, ref) == Cardinality(LegsOf(ledger, entry_type, ref))

\* UNIQUE(ledger_entries.idempotency_key) refuses to insert these legs.
UniqueViolation(ledger, legs) ==
    \E l \in ledger, m \in legs :
        /\ m.idempotency_key # NullKey
        /\ l.idempotency_key = m.idempotency_key

\* What a leg adds to the balance of its account.
SignedAmount(leg) == IF leg.direction = "credit" THEN leg.amount ELSE -leg.amount

\* get_balance: credits minus debits over the legs of an account.
GetBalance(ledger, a) ==
    MapThenSumSet(SignedAmount, { l \in ledger : l.account = a })
=============================================================================
