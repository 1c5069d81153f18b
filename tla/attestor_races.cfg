SPECIFICATION FairSpec
CONSTANTS
    c1 = c1
    c2 = c2
    p1 = p1
    p2 = p2
    i1 = i1
    i2 = i2
    wallet = wallet
    market = market
    k1 = k1
    k2 = k2
    Chain = {c1}
    Scoreable = {c1}
    MAX_DRIFT = 2
    Worker = {p1, p2}
    Process = {i1, i2}
    ProcessOf <- MCTwoProcesses
    Position <- MCPosition
    Signer = {k1}
    Key = k1
    MS = 1
    TTL = 3
    SUBMIT_WINDOW = 1
    MIN_LEFT = 2
    WINDOW = 10
    MAX_TTL = 3
    MAX_CLOCK_SKEW = 1
    Shortfall = {1}
    HistoryInput <- MCBorrower
    UpstreamAnswer <- MCOneAnswer
    UpstreamOffset = {0}
    Kind = {"attest", "fresh"}
    MaxRequests = 2
    MaxTime = 3
    MaxNonce = 1
    MaxEpoch = 1
    MaxLiquidations = 1
INVARIANTS OnePayloadBeforeDeadline PolicyReachesTheChain
PROPERTY EveryRequestEnds
CHECK_DEADLOCK FALSE
