\* One prompt handler, one recovery run, one crash.
SPECIFICATION Spec
CONSTANTS
    Accounts = {a1}
    SYSTEM = SYSTEM
    Keys = {k1}
    Amounts = {1}
    Opening = 1
    Reqs = {r1}
    Workers = {w1}
    Nobody = Nobody
    BatchLimit = 2
    QueryStates = {"completed"}
    PromptHandlers = TRUE
    MaxCrashes = 1

INVARIANT NeverPaidAndRefunded
