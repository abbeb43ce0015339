\* Two recovery runs race a stalled handler and its retry; two crashes.
SPECIFICATION Spec
CONSTANTS
    Accounts = {a1}
    SYSTEM = SYSTEM
    Keys = {k1}
    Amounts = {1, 2}
    Opening = 2
    Reqs = {r1, r2}
    Workers = {w1, w2}
    Nobody = Nobody
    BatchLimit = 2
    QueryStates = {"completed", "failed", "processing", "error"}
    PromptHandlers = FALSE
    MaxCrashes = 2
INVARIANTS NoDoubleCredit TerminalIsSettled CacheSound
PROPERTY EveryDebitSettles
