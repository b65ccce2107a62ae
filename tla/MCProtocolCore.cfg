SPECIFICATION CoreSpec
CONSTANTS
    depositor = depositor
    taker = taker
    o1 = o1
    o2 = o2
    v1 = v1
    v2 = v2
    Accounts = {depositor, taker}
    NoAccount = NoAccount
    Tokens = {t1}
    NoToken = NoToken
    Orchestrators = {o1}
    IntentHashes <- MCIntentHashes
    MaxIntents = 2
    MaxDeposits = 1
    Amounts = {1, 2}
    TokenSupply = 2
    MaxDustThreshold = 0
    DustThresholds = {0}
    IntentCaps = {1, 2}
    ExpirationPeriods = {1}
    MaxTotalExpiration = 2
    MaxTime = 3
    LockDeadline = 4
    PaymentMethods = {m1}
    NoMethod = NoMethod
    PaymentIds = {p1, p2}
    Verifiers = {v1, v2}
    NoVerifier = NoVerifier
    OrchestratorOf <- MCOrchestratorOf
    ThisEscrow = ThisEscrow
    OtherEscrows = {e2}
    Relayers = {}
    PruneMayFail = FALSE
SYMMETRY PaymentSymmetry
INVARIANTS
    ProtocolTypeOK
    LocksHaveRecords
    RecordsHaveLocks
    AccountsListTheirIntents
    TakerCanAlwaysCancel
    FullPaymentFulfills
PROPERTIES
    ImplementsLifecycle
