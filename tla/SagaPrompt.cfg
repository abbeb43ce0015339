\* Handlers never stall for five minutes; two withdrawals, two recovery runs that each take
\* one row at a time (more rows may be stuck than the LIMIT), a crash.  Under prompt
\* handlers no submitted row has a reference, so the rail's status answers do not matter.
SPECIFICATION Spec
CONSTANTS
    Accounts = {a1}
    SYSTEM = SYSTEM
    Keys = {k1, k2}
    Amounts = {1}
    Opening = 2
    Reqs = {r1, r2}
    Workers = {w1, w2}
    Nobody = Nobody
    BatchLimit = 1
    QueryStates = {"completed"}
    PromptHandlers = TRUE
    MaxCrashes = 1
INVARIANTS MoneyMovesOnce
PROPERTIES ImplementsHeldFunds EveryWithdrawalTerminates
