SPECIFICATION FairSpec
INVARIANTS
    TypeOK
    ResultTrue
    HeardIsTrue
    NothingPassedOver
    NoPostMissed
PROPERTIES
    ClientHears
    EvaluatorHears
CHECK_DEADLOCK FALSE
CONSTANTS
    JobIds = {1}
    Addresses = {me, other}
    NoAddress = NoAddress
    Hashes = {h}
    NoHash = NoHash
    MaxReopens = 1
    Watched = 1
    Polls = {p1, p2}
    Me = me
    WATCHED_EVALUATORS = {me}
    DEPLOY_BLOCK = 1
    CHUNK_SIZE = 2
    LOOKBACK = 1
    MaxBlock = 5
    FirstPost = 1
    MaxPost = 4
