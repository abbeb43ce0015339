----------------------------- MODULE AtomicBank -----------------------------
(***************************************************************************)
(* What clients may rely on when they move money in one request: a bank    *)
(* that handles one request at a time.  There are no locks, sessions,      *)
(* caches, retries or crashes here, and no ledger: a transfer or deposit   *)
(* happens in one step, once per key, and is decided by the balance of     *)
(* that moment.  Transfers implements this.                                *)
(***************************************************************************)
EXTENDS Integers

CONSTANTS
    Owners,       \* accounts, the system account among them
    SYSTEM,
    Keys,         \* idempotency keys of transfers
    References,   \* external references of deposits
    SeedKeys,     \* idempotency keys of seeds
    Amounts,
    NoRecord      \* the record of a key that has not been used

VARIABLES
    balance,      \* of every account
    transfers,    \* outcome and parameters by key
    deposits,     \* outcome and parameters by reference
    seeded        \* seed keys used

vars == <<balance, transfers, deposits, seeded>>

Users == Owners \ {SYSTEM}

Movements == [from : Owners, to : Owners, amount : Amounts]

Init ==
    /\ balance = [a \in Owners |-> 0]
    /\ transfers = [k \in Keys |-> NoRecord]
    /\ deposits = [d \in References |-> NoRecord]
    /\ seeded = {}

Move(p) == balance' = [balance EXCEPT ![p.from] = @ - p.amount, ![p.to] = @ + p.amount]

\* The balance of the moment decides, and the key is used up either way.
Transfer(k, p) ==
    /\ transfers[k] = NoRecord
    /\ p.from \in Users /\ p.from # p.to
    /\ \/ /\ balance[p.from] >= p.amount
          /\ Move(p)
          /\ transfers' = [transfers EXCEPT ![k] = [status |-> "completed", params |-> p]]
       \/ /\ balance[p.from] < p.amount
          /\ transfers' = [transfers EXCEPT ![k] = [status |-> "failed", params |-> p]]
          /\ UNCHANGED balance
    /\ UNCHANGED <<deposits, seeded>>

\* A deposit is accepted or not, once per reference.
Deposit(d, p) ==
    /\ deposits[d] = NoRecord
    /\ p.from = SYSTEM /\ p.to \in Users
    /\ \/ /\ Move(p)
          /\ deposits' = [deposits EXCEPT ![d] = [status |-> "completed", params |-> p]]
       \/ /\ deposits' = [deposits EXCEPT ![d] = [status |-> "rejected", params |-> p]]
          /\ UNCHANGED balance
    /\ UNCHANGED <<transfers, seeded>>

Seed(s, p) ==
    /\ s \notin seeded
    /\ p.from = SYSTEM /\ p.to \in Users
    /\ Move(p)
    /\ seeded' = seeded \cup {s}
    /\ UNCHANGED <<transfers, deposits>>

Next ==
    \E p \in Movements :
        \/ \E k \in Keys : Transfer(k, p)
        \/ \E d \in References : Deposit(d, p)
        \/ \E s \in SeedKeys : Seed(s, p)

Spec == Init /\ [][Next]_vars
=============================================================================
