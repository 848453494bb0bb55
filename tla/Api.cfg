SPECIFICATION FairSpec
INVARIANTS
    TypeOK
    StoredBehindChain
    DeliverableOnChain
    FundedHasRow
PROPERTIES
    QueuedNonceKept
    RequestsEnd
    RestartKeepsRows
    StoredCatchesUp
CHECK_DEADLOCK FALSE
CONSTANTS
    JobIds = {1}
    Addresses = {deployer, evaluator}
    NoAddress = NoAddress
    Hashes = {h1, h2}
    NoHash = NoHash
    MaxReopens = 0
    x = x
    y = y
    g = g
    h1 = h1
    h2 = h2
    Handlers = {x, y}
    NoHandler = NoHandler
    Unrecorded = Unrecorded
    Readers = {g}
    Client = client
    Provider = provider
    Deployer = deployer
    MaxAttempts = 2
    MaxPending = 2
    Loads <- MCLoads
