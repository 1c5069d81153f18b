SPECIFICATION Spec
CONSTANTS
    b1 = b1
    b2 = b2
    l1 = l1
    l2 = l2
    Borrower = {b1}
    Lender = {l1}
    MaxLtv <- TierToMaxLtv
    WalletCap <- MCWalletCap
    RAY = 10
    WAD = 10
    VIRTUAL_SHARES = 10
    SECONDS_PER_YEAR = 1
    maxPriceAge = 1
    AssetInput = {0, 100}
    ShareInput = {500}
    Donation = {}
    CollateralInput = {200}
    Amount = {15, 100}
    PriceInput <- MCCollateralFalls
    CapInput = {}
    TierCapInput = {}
    TierInput = {"FLOOR", "A"}
    InitialCap = 1000
    MaxTime = 3
    MaxCollateral = 200
    MaxCash = 100
    MaxEntries = 1
    MaxLoans = 2
    MaxLiquidations = 1
INVARIANTS NoZombieDebt LossesAreBooked ReservesBacked QuotesAreKept
PROPERTIES SharePriceFallsOnlyBySocialization LossOnlyUnderwater
