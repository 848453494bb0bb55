SPECIFICATION QuietSpec
PROPERTIES
    OnlyExpiryAfterDeadline
CHECK_DEADLOCK FALSE
CONSTANTS
    Accounts = {c, p, e, tr}
    Evaluators = {e}
    Treasuries = {tr}
    Bridges = {b}
    Tokens = {t}
    NoAddress = NoAddress
    Escrow = Escrow
    Deliverables = {h}
    NoHash = NoHash
    NoValue = NoValue
    AcceptingVerifiers = {v}
    Budgets = {20, 30}
    Deadlines = {2}
    FeeRates = {}
    EvaluationFees = {}
    InitialFeeRate = 1
    InitialTreasury = tr
    InitialBridge = NoAddress
    InitialBalance = 50
    BPS = 20
    MAX_FEE_RATE = 1
    EVALUATOR_SHARE_BPS = 16
    MIN_BUDGET = 20
    MIN_DEADLINE_OFFSET = 1
    MIN_EVALUATION_WINDOW = 2
    EVALUATION_GRACE_PERIOD = 1
    MAX_EXTENSION = 3
    GOVERNANCE_DELAY = 2
    StartTime = 1
    MaxTime = 5
    MaxJobs = 1
    MaxReopens = 1
    Clients = {c}
    Providers = {p}
