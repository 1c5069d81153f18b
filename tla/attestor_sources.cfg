SPECIFICATION Spec
CONSTANTS
    c1 = c1
    c2 = c2
    p1 = p1
    p2 = p2
    i1 = i1
    i2 = i2
    wallet = wallet
    market = market
    k1 = k1
    k2 = k2
    Chain = {c1, c2}
    Scoreable = {c1, c2}
    MAX_DRIFT = 1
    Worker = {p1}
    Process = {i1}
    ProcessOf <- MCOneProcess
    Position <- MCPosition
    Signer = {k1, k2}
    Key = k1
    MS = 2
    TTL = 2
    SUBMIT_WINDOW = 1
    MIN_LEFT = 1
    WINDOW = 10
    MAX_TTL = 2
    MAX_CLOCK_SKEW = 1
    Shortfall = {0, 1}
    HistoryInput <- MCHistories
    UpstreamAnswer <- MCFewAnswers
    UpstreamOffset <- MCBehind
    Kind = {"attest", "fresh", "score"}
    MaxRequests = 2
    MaxTime = 2
    MaxNonce = 1
    MaxEpoch = 2
    MaxLiquidations = 1
INVARIANT ServesWhatHolds
CHECK_DEADLOCK FALSE
