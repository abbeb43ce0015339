\* An old account and a new one, two old records and a new one, two backfills; an amount
\* half way to the first digit, and one that is nearer to it.
SPECIFICATION Spec
CONSTANTS
    Accounts = {a1, a2}
    LegacyAccounts = {a1}
    SYSTEM = SYSTEM
    NRecords = 3
    NLegacy = 2
    Amounts = {2, 3}
    MaxBackfills = 2
INVARIANTS TypeOK  CompleteHistory
