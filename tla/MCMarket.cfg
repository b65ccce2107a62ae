SPECIFICATION MCMarketSpec
CONSTANTS
    depositor = depositor
    taker = taker
    o1 = o1
    v1 = v1
    m1 = m1
    m2 = m2
    Accounts = {depositor, taker}
    NoAccount = NoAccount
    Tokens = {t1}
    NoToken = NoToken
    Orchestrators = {o1}
    IntentHashes <- MCIntentHashes
    MaxIntents = 1
    MaxDeposits = 1
    Amounts = {1}
    TokenSupply = 1
    MaxDustThreshold = 0
    DustThresholds = {0}
    IntentCaps = {1}
    ExpirationPeriods = {1}
    MaxTotalExpiration = 1
    MaxTime = 1
    LockDeadline = 1
    PaymentMethods = {m1, m2}
    NoMethod = NoMethod
    PaymentIds = {p1}
    Verifiers = {v1}
    NoVerifier = NoVerifier
    OrchestratorOf <- MCOrchestratorOf
    ThisEscrow = ThisEscrow
    OtherEscrows = {}
    Relayers = {}
    PruneMayFail = FALSE
    Currencies = {usd, eur}
    Payees = {alice, bob}
    NoPayee = NoPayee
    Rates = {1}
    MaxListed = 1
SYMMETRY MarketSymmetry
INVARIANTS
    TablesAgree
    RegistryAgrees
    CanAlwaysReturn
    ClosedDepositsOfferNothing
    PayeesStand
