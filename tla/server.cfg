SPECIFICATION FairSpec
CONSTANTS
    ASSETS <- MCAssets
    RELAY_WALLETS <- MCRelayWallets
    Price = {1}
    INTERVAL = 2
    GRACE = 1
    RESTAMP_AFTER = 1
    MAX_AGE = 6
    TTL = 7
    SCORE_AGE = 1
    RUN_MAX = 1
    AGE_CAP = 7
    Config <- ConfigType
    KeeperAt <- MCKeeperAt
    RequestsAt <- MCRequestsAt
    Ip = {ip1}
    Wallet = {w1}
    RATE_PER_IP = 3
    RATE_PER_ADDRESS = 2
    WINDOW = 3
    Request = {r1, r2}
    DELAY = 1
INVARIANTS StartsOnlyAsPromised HealthIsTrue LimitIsKept
PROPERTIES RunsOnTime PricesComeBack ScoresStayFresh
CHECK_DEADLOCK FALSE
