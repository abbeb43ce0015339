\* Two requests at a time between two users, one deposit, one seed.
SPECIFICATION Spec
CONSTANTS
    Accounts = {1, 2}
    SYSTEM = 0
    Keys = {k1, k2}
    References = {d1}
    SeedKeys = {s1}
    Amounts = {1}
    Recipients = {1, 2}
    Reqs = {r1, r2}
    Nobody = Nobody
INVARIANTS TypeOK NoOverdraft RecordsMatchLedger CacheSound NoBidirectionalDeadlock
PROPERTIES ImplementsAtomicBank EveryRequestAnswered
