SPECIFICATION QuietSpec
INVARIANTS
    TypeOK
    SignalsMatchVerdicts
PROPERTIES
    FundedUnderWarmStake
CHECK_DEADLOCK FALSE
CONSTANTS
    BridgeManagers = {m, old}
    Registries = {r}
    NoAddress = NoAddress
    Manager = m
    Bridge = b
    OtherOutcomes <- MCOtherOutcomes
    StartTime = 1
    GOVERNANCE_DELAY = 1
    MaxTime = 4
    NoValue = NoValue
    Stakers = {p, e}
    JobManagers = {m}
    Registry = Registry
    Amounts = {1}
    Minimums = {}
    WarmupPeriods = {}
    InitialStakeBalance = 1
    InitialMinimum = 1
    InitialWarmup = 1
    MIN_WARMUP_PERIOD = 1
    MAX_WARMUP_PERIOD = 1
    MAX_ACTIVE_EVALUATORS = 2
    Accounts = {c, p, e, tr}
    Treasuries = {tr}
    Bridges = {b}
    Tokens = {t}
    Escrow = Escrow
    Deliverables = {h}
    NoHash = NoHash
    AcceptingVerifiers = {}
    Budgets = {20}
    Deadlines = {3}
    FeeRates = {}
    EvaluationFees = {}
    InitialFeeRate = 1
    InitialTreasury = tr
    InitialBridge = b
    InitialBalance = 20
    BPS = 20
    MAX_FEE_RATE = 1
    EVALUATOR_SHARE_BPS = 16
    MIN_BUDGET = 20
    MIN_DEADLINE_OFFSET = 1
    MIN_EVALUATION_WINDOW = 1
    EVALUATION_GRACE_PERIOD = 1
    MAX_EXTENSION = 0
    MaxJobs = 1
    MaxReopens = 1
    Clients = {c}
    Providers = {p}
