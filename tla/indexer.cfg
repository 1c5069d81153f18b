SPECIFICATION IndexedSpec
CONSTANTS
    w1 = w1
    l1 = l1
    k1 = k1
    theMarket = theMarket
    Wallet = {w1}
    Lender = {l1}
    Signer = {k1}
    TheMarket = theMarket
    ScoreInput = {800}
    MAX_TTL = 1
    MAX_CLOCK_SKEW = 0
    MaxNonce = 1
    MaxEpoch = 2
    MaxLtv <- TierToMaxLtv
    WalletCap <- TierToWalletCap
    RAY = 100
    WAD = 10
    VIRTUAL_SHARES = 1
    SECONDS_PER_YEAR = 1
    maxPriceAge = 1
    AssetInput = {1000}
    CollateralInput = {1000}
    Amount = {470}
    PriceInput <- MCCollateralFalls
    InitialCap = 1000
    MaxCollateral = 1000
    MaxCash = 1000
    MaxPaused = 1
    MaxRows = 7
    MaxEntries = 1
    MaxLoans = 2
    MaxTime = 2
    MaxLiquidations = 1
INVARIANT BooksAgree
PROPERTIES ImplementsMarket BetterTermsAreVouched LoopIsTrue
