SPECIFICATION Spec
CONSTANTS
    Accounts = {a1}
    NoAccount = NoAccount
    Tokens = {t1}
    NoToken = NoToken
    Orchestrators = {o1}
    IntentHashes = {h1, h2, h3}
    MaxDeposits = 1
    Amounts = {1, 2}
    TokenSupply = 3
    MaxDustThreshold = 1
    DustThresholds = {0}
    IntentCaps = {1, 2}
    ExpirationPeriods = {1}
    MaxTotalExpiration = 2
    MaxTime = 4
    LockDeadline = 4
SYMMETRY Symmetry
INVARIANTS
    ExpiredLocksNeverBlock
