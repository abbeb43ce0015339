\* A transfer to the system account beside a deposit.
SPECIFICATION Spec
CONSTANTS
    Accounts = {1, 2}
    SYSTEM = 0
    Keys = {k1}
    References = {d1}
    SeedKeys = {s1}
    Amounts = {1}
    Recipients = {0}
    Reqs = {r1, r2}
    Nobody = Nobody
INVARIANT NoBidirectionalDeadlock
