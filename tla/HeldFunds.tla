----------------------------- MODULE HeldFunds -----------------------------
(***************************************************************************)
(* What a user may rely on when withdrawing: the amount is held from an    *)
(* account that has it, and the hold ends, once and for good, in a payout  *)
(* or with the money back in the account.  No handlers, recovery runs,     *)
(* locks, timeouts or crashes, and no rail.  WithdrawalSaga implements     *)
(* this as long as no live handler stalls for five minutes.                *)
(***************************************************************************)
EXTENDS Integers

CONSTANTS
    Accounts,
    Keys,       \* withdrawals, by idempotency key
    Params,     \* account and amount of a withdrawal
    NoParams,
    Opening     \* balance of every account at the start

VARIABLES
    balance,    \* what the user can spend
    hold,       \* "none", "held", "paid" or "returned"
    params      \* what each withdrawal asked for

vars == <<balance, hold, params>>

Init ==
    /\ balance = [a \in Accounts |-> Opening]
    /\ hold = [k \in Keys |-> "none"]
    /\ params = [k \in Keys |-> NoParams]

Hold(k, p) ==
    /\ hold[k] = "none"
    /\ balance[p.account] >= p.amount
    /\ balance' = [balance EXCEPT ![p.account] = @ - p.amount]
    /\ hold' = [hold EXCEPT ![k] = "held"]
    /\ params' = [params EXCEPT ![k] = p]

Pay(k) ==
    /\ hold[k] = "held"
    /\ hold' = [hold EXCEPT ![k] = "paid"]
    /\ UNCHANGED <<balance, params>>

GiveBack(k) ==
    /\ hold[k] = "held"
    /\ hold' = [hold EXCEPT ![k] = "returned"]
    /\ balance' = [balance EXCEPT ![params[k].account] = @ + params[k].amount]
    /\ UNCHANGED params

Next == \E k \in Keys : Pay(k) \/ GiveBack(k) \/ \E p \in Params : Hold(k, p)

\* Every hold ends.
Fairness == \A k \in Keys : WF_vars(Pay(k) \/ GiveBack(k))

\* What may happen to a hold, whether or not it ends.
SafetySpec == Init /\ [][Next]_vars

Spec == SafetySpec /\ Fairness
=============================================================================
