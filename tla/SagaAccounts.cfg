\* Two handlers share an account that can pay one of them; one recovery run.
SPECIFICATION Spec
CONSTANTS
    Accounts = {a1}
    SYSTEM = SYSTEM
    Keys = {k1, k2}
    Amounts = {2}
    Opening = 3
    Reqs = {r1, r2}
    Workers = {w1}
    Nobody = Nobody
    BatchLimit = 2
    QueryStates = {"completed", "failed"}
    PromptHandlers = FALSE
    MaxCrashes = 1
SYMMETRY Symmetry
INVARIANTS TypeOK NoOverdraft OutboxMatchesLedger
