SPECIFICATION NoticeSpec
PROPERTIES
    ProviderPaidWithinFeeCap
CHECK_DEADLOCK FALSE
CONSTANTS
    Accounts = {c, p, e, tr, tr2}
    Evaluators = {e}
    Treasuries = {tr2}
    Bridges = {}
    Tokens = {t}
    NoAddress = NoAddress
    Escrow = Escrow
    Deliverables = {h}
    NoHash = NoHash
    NoValue = NoValue
    AcceptingVerifiers = {v}
    Budgets = {20}
    Deadlines = {3}
    FeeRates = {0, 2}
    EvaluationFees = {25}
    InitialFeeRate = 1
    InitialTreasury = tr
    InitialBridge = NoAddress
    InitialBalance = 20
    BPS = 20
    MAX_FEE_RATE = 1
    EVALUATOR_SHARE_BPS = 16
    MIN_BUDGET = 20
    MIN_DEADLINE_OFFSET = 1
    MIN_EVALUATION_WINDOW = 3
    EVALUATION_GRACE_PERIOD = 1
    MAX_EXTENSION = 3
    GOVERNANCE_DELAY = 2
    StartTime = 1
    MaxTime = 4
    MaxJobs = 1
    MaxReopens = 0
    Clients = {c}
    Providers = {p}
