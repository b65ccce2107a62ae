SPECIFICATION MCSettlementSpec
CONSTANTS
    depositor = depositor
    taker = taker
    o1 = o1
    v1 = v1
    Accounts = {depositor, taker}
    NoAccount = NoAccount
    Tokens = {t1}
    NoToken = NoToken
    Orchestrators = {o1}
    IntentHashes <- MCIntentHashes
    MaxIntents = 2
    MaxDeposits = 1
    Amounts = {1, 4}
    TokenSupply = 8
    MaxDustThreshold = 0
    DustThresholds = {0}
    IntentCaps = {2}
    ExpirationPeriods = {1}
    MaxTotalExpiration = 1
    MaxTime = 3
    LockDeadline = 2
    PaymentMethods = {m1}
    NoMethod = NoMethod
    PaymentIds = {p1, p2}
    Verifiers = {v1}
    NoVerifier = NoVerifier
    OrchestratorOf <- MCOrchestratorOf
    ThisEscrow = ThisEscrow
    OtherEscrows = {}
    Relayers = {taker}
    PruneMayFail = FALSE
    PreciseUnit = 4
    MaxProtocolFee = 1
    MaxReferrerFee = 1
    MaxHeld = 5
SYMMETRY PaymentSymmetry
CHECK_DEADLOCK FALSE
INVARIANTS
    NothingSticks
    TakersKeepMost
    HooksSeeConsistentState
