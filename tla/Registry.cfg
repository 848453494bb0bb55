SPECIFICATION Spec
INVARIANTS
    TypeOK
    RosterConsistent
    StakesBacked
    EligibleWarmedUp
    DrawIsStakeWeighted
PROPERTIES
    SeniorityKept
    OnlyLoweringIdles
SYMMETRY StakerSymmetry
CHECK_DEADLOCK FALSE
CONSTANTS
    Stakers = {a1, a2, a3}
    JobManagers = {jm}
    NoAddress = NoAddress
    Registry = Registry
    NoValue = NoValue
    Amounts = {1, 2}
    Minimums = {1, 2}
    WarmupPeriods = {1}
    InitialBalance = 2
    InitialMinimum = 1
    InitialWarmup = 2
    MIN_WARMUP_PERIOD = 1
    MAX_WARMUP_PERIOD = 2
    MAX_ACTIVE_EVALUATORS = 2
    GOVERNANCE_DELAY = 1
    StartTime = 2
    MaxTime = 4
