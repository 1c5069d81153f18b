---------------------------- MODULE TenorMarket ----------------------------
(***************************************************************************)
(* contracts/src/TenorMarket.sol: one collateral asset, one borrowable     *)
(* asset, lenders holding ERC-4626 shares of the pool.                     *)
(*                                                                         *)
(* One action is one transaction; every revert is a guard, those of        *)
(* Solidity's checked subtraction included.  The action's environment is   *)
(* the block timestamp, the price oracle and the registry: `effective` is  *)
(* what registry.effectiveTier answers, and `recorded` what the market has *)
(* reported to registry.recordLiquidation.  Tenor composes this module     *)
(* with ScoreRegistry.                                                     *)
(*                                                                         *)
(* An operator named Mutant... is a plausible slip in the operator after   *)
(* it; no specification uses it.                                           *)
(*                                                                         *)
(* RAY, WAD, the virtual-share offset and the length of a year are         *)
(* parameters, so that a small instance meets the roundings that the       *)
(* code's 10^27 and 10^18 make rare.                                       *)
(***************************************************************************)
EXTENDS Integers, FiniteSetsExt, RiskParams

CONSTANTS
    Borrower, Lender,
    MaxLtv,            \* tierToMaxLtv, in bps
    WalletCap,         \* tierToWalletCap, in debt units
    RAY, WAD,          \* fixed-point units of the index, and of prices and utilization
    VIRTUAL_SHARES,    \* 10^_decimalsOffset()
    SECONDS_PER_YEAR,
    maxPriceAge,
    AssetInput,        \* assets a lender may deposit or withdraw
    ShareInput,        \* shares a lender may mint or redeem
    Donation,          \* amounts anyone may send to the market
    CollateralInput,   \* collateral a borrower may add or withdraw
    Amount,            \* amounts a borrower, a payer or a liquidator may pass
    PriceInput,        \* per asset, the prices the oracle may report
    CapInput,          \* global caps the owner may set
    TierCapInput,      \* tier caps the owner may set with them
    TierInput,         \* tiers the registry may answer
    InitialCap,        \* the constructor's globalDebtCap_
    MaxTime,           \* bound: the last block timestamp
    MaxCollateral,     \* bound: collateral in the market
    MaxCash,           \* bound: cash lent to or given to the market
    MaxEntries,        \* bound: deposits, mints and donations
    MaxLoans,          \* bound: borrows
    MaxLiquidations    \* bound: liquidations per borrower

Asset == {"coll", "debt"}

ASSUME MarketAssumption ==
    /\ IsFiniteSet(Borrower)
    /\ MaxLtv \in [Tier -> Nat] /\ WalletCap \in [Tier -> Nat]
    /\ ValidTerms(MaxLtv, WalletCap)
    /\ RAY \in Nat \ {0} /\ WAD \in Nat \ {0} /\ SECONDS_PER_YEAR \in Nat \ {0}
    /\ VIRTUAL_SHARES \in Nat \ {0} /\ maxPriceAge \in Nat \ {0}
    /\ AssetInput \subseteq Nat /\ ShareInput \subseteq Nat /\ Donation \subseteq Nat
    /\ CollateralInput \subseteq Nat /\ Amount \subseteq Nat /\ InitialCap \in Nat
    /\ CapInput \subseteq Nat /\ TierCapInput \subseteq [Tier -> Nat]
    /\ PriceInput \in [Asset -> SUBSET Nat]
    /\ TierInput \subseteq Tier /\ FLOOR \in TierInput
    /\ MaxTime \in Nat /\ MaxCollateral \in Nat /\ MaxCash \in Nat
    /\ MaxEntries \in Nat /\ MaxLoans \in Nat /\ MaxLiquidations \in Nat

VARIABLES
    collateral, totalCollateral,
    scaledDebt, tier,                              \* _positions, with collateral
    totalScaledDebt, scaledDebtByTier,
    borrowIndex, lastAccrual, reserves,
    totalBadDebt, totalReserveDrawn, totalSocializedLoss,
    globalDebtCap, tierDebtCap,
    cash,                                          \* asset().balanceOf(market)
    shares, totalSupply,                           \* ERC-20 side of the vault
    paused,
    now, oracle, effective,                        \* environment
    recorded,                                      \* reported to the registry
    entries, loans                                 \* history: the two bounds' counts

pledge == <<collateral, totalCollateral>>
debts == <<scaledDebt, tier, totalScaledDebt, scaledDebtByTier>>
accrual == <<borrowIndex, lastAccrual, reserves>>
losses == <<totalBadDebt, totalReserveDrawn, totalSocializedLoss>>
vault == <<shares, totalSupply>>
admin == <<globalDebtCap, tierDebtCap, paused>>
history == <<entries, loans>>
market == <<pledge, debts, accrual, losses, vault, admin, cash, history>>
env == <<now, oracle, effective, recorded>>
vars == <<market, env>>

----------------------------------------------------------------------------
(* Math.mulDiv with the two rounding modes the contract uses. *)

MulDiv(a, b, c) == (a * b) \div c
MulDivUp(a, b, c) == (a * b + c - 1) \div c
Lesser(a, b) == IF a <= b THEN a ELSE b

\* The sum of f[w] over the wallets of S.
Total(f, S) == SumFunctionOnSet(f, S)

----------------------------------------------------------------------------
(* Interest.  Index and Reserves are _previewAccrual: the index and the      *)
(* reserves as of this block, which _accrue stores.                          *)

DebtFromScaled(scaled, index) == MulDivUp(scaled, index, RAY)

Utilization(debt, res) ==
    LET supplied == cash + debt - res
    IN  IF supplied = 0 THEN 0 ELSE MulDiv(debt, WAD, supplied)

Rate == BorrowRateBps(Utilization(DebtFromScaled(totalScaledDebt, borrowIndex), reserves), WAD)

Growth == IF totalScaledDebt = 0 THEN 0
          ELSE MulDiv(borrowIndex, Rate * (now - lastAccrual), BPS * SECONDS_PER_YEAR)

Index == borrowIndex + Growth

TotalDebt == DebtFromScaled(totalScaledDebt, Index)

Interest == TotalDebt - DebtFromScaled(totalScaledDebt, borrowIndex)

MutantFeeOnDebt == reserves + MulDiv(TotalDebt, RESERVE_FACTOR_BPS, BPS)
Reserves == reserves + MulDiv(Interest, RESERVE_FACTOR_BPS, BPS)

StoreIndex == borrowIndex' = Index /\ lastAccrual' = now
Accrue == StoreIndex /\ reserves' = Reserves

Debt(w) == DebtFromScaled(scaledDebt[w], Index)
TotalAssets == cash + TotalDebt - Reserves

----------------------------------------------------------------------------
(* Prices and terms. *)

Price(a) == oracle[a].price

\* _price does not revert.
Priced(a) ==
    /\ Price(a) # 0
    /\ oracle[a].updatedAt <= now /\ now - oracle[a].updatedAt <= maxPriceAge

PricesFresh == \A a \in Asset : Priced(a)

CollValue(coll) == MulDiv(coll, Price("coll"), WAD)
DebtValue(debt) == MulDivUp(debt, Price("debt"), WAD)

MutantNoTierCap(coll, debt, t, bucketDebt) ==
    /\ PricesFresh
    /\ DebtValue(debt) * BPS <= CollValue(coll) * MaxLtv[t]
    /\ debt <= WalletCap[t]

\* _enforceTerms, for a position as the transaction is about to leave it.
EnforceTerms(coll, debt, t, bucketDebt) ==
    /\ PricesFresh
    /\ DebtValue(debt) * BPS <= CollValue(coll) * MaxLtv[t]
    /\ debt <= WalletCap[t]
    /\ bucketDebt <= tierDebtCap[t]

\* _retier's checked subtraction, and the buckets it leaves.
CanRetier(w) == effective[w] # tier[w] => scaledDebt[w] <= scaledDebtByTier[tier[w]]
MutantNotMoved(w) == scaledDebtByTier
MutantAddedTwice(w) == [scaledDebtByTier EXCEPT ![effective[w]] = @ + scaledDebt[w]]
MutantMovedBack(w) ==
    IF effective[w] = tier[w] THEN scaledDebtByTier
    ELSE [scaledDebtByTier EXCEPT ![effective[w]] = @ - scaledDebt[w],
                                  ![tier[w]] = @ + scaledDebt[w]]
Rebucketed(w) ==
    IF effective[w] = tier[w] THEN scaledDebtByTier
    ELSE [scaledDebtByTier EXCEPT ![tier[w]] = @ - scaledDebt[w],
                                  ![effective[w]] = @ + scaledDebt[w]]

MutantCurrentTier(w) ==
    DebtValue(Debt(w)) * BPS > CollValue(collateral[w]) * LiquidationThreshold(MaxLtv)[effective[w]]

\* The liquidation test, at the tier the position was last priced at.
Unhealthy(w) ==
    DebtValue(Debt(w)) * BPS > CollValue(collateral[w]) * LiquidationThreshold(MaxLtv)[tier[w]]

----------------------------------------------------------------------------
(* Lenders.  Conversions are ERC4626's with the virtual offset. *)

ToShares(assets) == MulDiv(assets, totalSupply + VIRTUAL_SHARES, TotalAssets + 1)
ToSharesUp(assets) == MulDivUp(assets, totalSupply + VIRTUAL_SHARES, TotalAssets + 1)
ToAssets(s) == MulDiv(s, TotalAssets + 1, totalSupply + VIRTUAL_SHARES)
ToAssetsUp(s) == MulDivUp(s, TotalAssets + 1, totalSupply + VIRTUAL_SHARES)

MaxWithdraw(l) == Lesser(ToAssets(shares[l]), cash)
MutantRedeemAll(l) == shares[l]
MaxRedeem(l) == Lesser(shares[l], ToShares(cash))

MutantPauseIgnored == TRUE
WhenNotPaused == ~paused

Enter(l, assets, s) ==
    /\ WhenNotPaused
    /\ entries < MaxEntries /\ cash + assets <= MaxCash
    /\ Accrue
    /\ cash' = cash + assets
    /\ shares' = [shares EXCEPT ![l] = @ + s]
    /\ totalSupply' = totalSupply + s
    /\ entries' = entries + 1
    /\ UNCHANGED <<pledge, debts, losses, admin, loans>>

Leave(l, assets, s) ==
    /\ s <= shares[l] /\ s <= totalSupply /\ assets <= cash
    /\ Accrue
    /\ cash' = cash - assets
    /\ shares' = [shares EXCEPT ![l] = @ - s]
    /\ totalSupply' = totalSupply - s
    /\ UNCHANGED <<pledge, debts, losses, admin, history>>

Deposit(l, assets) == Enter(l, assets, ToShares(assets))
Mint(l, s) == Enter(l, ToAssetsUp(s), s)
Withdraw(l, assets) == assets <= MaxWithdraw(l) /\ Leave(l, assets, ToSharesUp(assets))
Redeem(l, s) == s <= MaxRedeem(l) /\ Leave(l, ToAssets(s), s)

\* Anyone may send the debt asset to the market; no code of it runs.
Donate(assets) ==
    /\ entries < MaxEntries /\ cash + assets <= MaxCash
    /\ cash' = cash + assets
    /\ entries' = entries + 1
    /\ UNCHANGED <<pledge, debts, accrual, losses, vault, admin, loans>>

----------------------------------------------------------------------------
(* Borrowers. *)

\* No _accrue.
DepositCollateral(w, amount) ==
    /\ amount > 0
    /\ totalCollateral + amount <= MaxCollateral
    /\ collateral' = [collateral EXCEPT ![w] = @ + amount]
    /\ totalCollateral' = totalCollateral + amount
    /\ UNCHANGED <<debts, accrual, losses, vault, admin, cash, history>>

WithdrawCollateral(w, amount) ==
    /\ amount > 0
    /\ amount <= collateral[w] /\ amount <= totalCollateral
    /\ Accrue
    /\ collateral' = [collateral EXCEPT ![w] = @ - amount]
    /\ totalCollateral' = totalCollateral - amount
    /\ IF scaledDebt[w] > 0
         THEN /\ CanRetier(w)
              /\ EnforceTerms(collateral[w] - amount, Debt(w), effective[w],
                              DebtFromScaled(Rebucketed(w)[effective[w]], Index))
              /\ tier' = [tier EXCEPT ![w] = effective[w]]
              /\ scaledDebtByTier' = Rebucketed(w)
              /\ UNCHANGED <<scaledDebt, totalScaledDebt>>
         ELSE UNCHANGED debts
    /\ UNCHANGED <<losses, vault, admin, cash, history>>

ScaledUp(amount) == MulDivUp(amount, RAY, Index)

\* The buckets once w's position has moved to its tier and grown by `amount`.
BucketsAfter(w, amount) == [Rebucketed(w) EXCEPT ![effective[w]] = @ + ScaledUp(amount)]

\* The reverts of borrow once the market is unpaused.
CanBorrow(w, amount) ==
    /\ amount > 0
    /\ amount <= cash
    /\ CanRetier(w)
    /\ DebtFromScaled(totalScaledDebt + ScaledUp(amount), Index) <= globalDebtCap
    /\ EnforceTerms(collateral[w], DebtFromScaled(scaledDebt[w] + ScaledUp(amount), Index),
                    effective[w], DebtFromScaled(BucketsAfter(w, amount)[effective[w]], Index))

Borrow(w, amount) ==
    /\ WhenNotPaused
    /\ CanBorrow(w, amount)
    /\ loans < MaxLoans /\ loans' = loans + 1
    /\ Accrue
    /\ scaledDebt' = [scaledDebt EXCEPT ![w] = @ + ScaledUp(amount)]
    /\ tier' = [tier EXCEPT ![w] = effective[w]]
    /\ totalScaledDebt' = totalScaledDebt + ScaledUp(amount)
    /\ scaledDebtByTier' = BucketsAfter(w, amount)
    /\ cash' = cash - amount
    /\ UNCHANGED <<pledge, losses, vault, admin, entries>>

MutantNoMargin == 0
Margin == Index \div RAY + 2

\* The view maxBorrow, where prices are fresh: the tightest of the limits, less
\* a margin for the roundings.
MaxBorrow(w) ==
    LET t == effective[w]
        sub0(a, b) == IF a > b THEN a - b ELSE 0
        ltvLimit == MulDiv(collateral[w], Price("coll") * MaxLtv[t], BPS * Price("debt"))
        bucketDebt == DebtFromScaled(scaledDebtByTier[t], Index)
                      + (IF tier[w] # t THEN Debt(w) ELSE 0)
        limits == {sub0(Lesser(ltvLimit, WalletCap[t]), Debt(w)),
                   sub0(tierDebtCap[t], bucketDebt),
                   sub0(globalDebtCap, TotalDebt),
                   cash}
        room == CHOOSE x \in limits : \A y \in limits : x <= y
    IN  sub0(room, Margin)

MutantReductionRoundsUp(w, amount) ==
    IF amount >= Debt(w) THEN scaledDebt[w] ELSE MulDivUp(amount, RAY, Index)

\* The scaled debt _reduceDebt takes off for a payment; zero reverts.
Reduction(w, amount) ==
    IF amount >= Debt(w) THEN scaledDebt[w] ELSE MulDiv(amount, RAY, Index)

\* The checked subtractions of _reduceDebt and _realizeBadDebt.
CanReduce(w, scaled) ==
    scaled <= scaledDebt[w] /\ scaled <= totalScaledDebt /\ scaled <= scaledDebtByTier[tier[w]]

MutantRepayRetiers(w, scaled) ==
    /\ CanReduce(w, scaled)
    /\ scaledDebt' = [scaledDebt EXCEPT ![w] = @ - scaled]
    /\ totalScaledDebt' = totalScaledDebt - scaled
    /\ scaledDebtByTier' = [scaledDebtByTier EXCEPT ![tier[w]] = @ - scaled]
    /\ tier' = [tier EXCEPT ![w] = effective[w]]

ReduceDebt(w, scaled) ==
    /\ CanReduce(w, scaled)
    /\ scaledDebt' = [scaledDebt EXCEPT ![w] = @ - scaled]
    /\ totalScaledDebt' = totalScaledDebt - scaled
    /\ scaledDebtByTier' = [scaledDebtByTier EXCEPT ![tier[w]] = @ - scaled]
    /\ UNCHANGED tier

\* Anyone may repay for anyone.
Repay(w, amount) ==
    /\ amount > 0
    /\ Debt(w) > 0
    /\ Reduction(w, amount) > 0
    /\ Accrue
    /\ ReduceDebt(w, Reduction(w, amount))
    /\ cash' = cash + Lesser(amount, Debt(w))
    /\ UNCHANGED <<pledge, losses, vault, admin, history>>

----------------------------------------------------------------------------
(* Liquidation. *)

MutantCloseFactor(w) ==
    MulDiv(CollValue(collateral[w]), BPS * WAD, 2 * (BPS + LIQUIDATION_BONUS_BPS) * Price("debt"))

\* The largest repay the collateral can pay for, bonus included.
RepayCap(w) ==
    MulDiv(CollValue(collateral[w]), BPS * WAD, (BPS + LIQUIDATION_BONUS_BPS) * Price("debt"))

Repaid(w, maxRepay) == Lesser(Lesser(maxRepay, Debt(w)), RepayCap(w))

Seized(w, maxRepay) ==
    IF Repaid(w, maxRepay) = RepayCap(w) THEN collateral[w]
    ELSE MulDiv(Repaid(w, maxRepay), (BPS + LIQUIDATION_BONUS_BPS) * Price("debt"),
                BPS * Price("coll"))

\* The scaled debt left after the repayment.
Remaining(w, maxRepay) ==
    scaledDebt[w] - (IF Repaid(w, maxRepay) > 0 THEN Reduction(w, Repaid(w, maxRepay)) ELSE 0)

MutantNeverRealized(w, maxRepay) == 0
\* The bad debt realized: what is left when all of the collateral is gone.
Shortfall(w, maxRepay) ==
    IF Seized(w, maxRepay) = collateral[w] /\ Remaining(w, maxRepay) > 0
    THEN DebtFromScaled(Remaining(w, maxRepay), Index) ELSE 0

FromReserves(amount) == Lesser(amount, Reserves)
MutantSocializedWhole(amount) == amount
Socialized(amount) == amount - FromReserves(amount)

\* The reverts of liquidate once the market is unpaused.
CanLiquidate(w, maxRepay) ==
    /\ maxRepay > 0
    /\ Debt(w) > 0
    /\ PricesFresh
    /\ Unhealthy(w)
    /\ Repaid(w, maxRepay) > 0 => Reduction(w, Repaid(w, maxRepay)) > 0
    /\ Seized(w, maxRepay) <= collateral[w] /\ Seized(w, maxRepay) <= totalCollateral

Liquidate(w, maxRepay) ==
    LET shortfall == Shortfall(w, maxRepay)
        left == IF shortfall > 0 THEN 0 ELSE Remaining(w, maxRepay)
    IN  /\ ~paused
        /\ CanLiquidate(w, maxRepay)
        /\ StoreIndex
        /\ ReduceDebt(w, scaledDebt[w] - left)
        /\ collateral' = [collateral EXCEPT ![w] = @ - Seized(w, maxRepay)]
        /\ totalCollateral' = totalCollateral - Seized(w, maxRepay)
        /\ reserves' = Reserves - FromReserves(shortfall)
        /\ totalBadDebt' = totalBadDebt + shortfall
        /\ totalReserveDrawn' = totalReserveDrawn + FromReserves(shortfall)
        /\ totalSocializedLoss' = totalSocializedLoss + Socialized(shortfall)
        /\ cash' = cash + Repaid(w, maxRepay)
        /\ UNCHANGED <<vault, admin, history>>

----------------------------------------------------------------------------
(* Administration. *)

SetCaps(cap, tierCaps) ==
    /\ globalDebtCap' = cap /\ tierDebtCap' = tierCaps
    /\ UNCHANGED <<pledge, debts, accrual, losses, vault, paused, cash, history>>

SetPaused(b) ==
    /\ paused = ~b
    /\ paused' = b
    /\ UNCHANGED <<pledge, debts, accrual, losses, vault, globalDebtCap, tierDebtCap, cash, history>>

----------------------------------------------------------------------------
(* The environment: MockPriceOracle.setPrice, and the registry's answers as    *)
(* ScoreView allows them: a publication reprices one wallet, and any wallets  *)
(* may lapse to FLOOR, by a rotation or as time passes.                       *)

SetPrice(a, p) ==
    /\ oracle' = [oracle EXCEPT ![a] = [price |-> p, updatedAt |-> now]]
    /\ UNCHANGED <<market, now, effective, recorded>>

Rescore(w, t) ==
    /\ effective' = [effective EXCEPT ![w] = t]
    /\ UNCHANGED <<market, now, oracle, recorded>>

Lapsed(W) == [w \in Borrower |-> IF w \in W THEN FLOOR ELSE effective[w]]

Lapse(W) ==
    /\ effective' = Lapsed(W)
    /\ UNCHANGED <<market, now, oracle, recorded>>

Tick(W) ==
    /\ now < MaxTime
    /\ now' = now + 1
    /\ effective' = Lapsed(W)
    /\ UNCHANGED <<market, oracle, recorded>>

----------------------------------------------------------------------------
Init ==
    /\ collateral = [w \in Borrower |-> 0] /\ totalCollateral = 0
    /\ scaledDebt = [w \in Borrower |-> 0] /\ tier = [w \in Borrower |-> FLOOR]
    /\ totalScaledDebt = 0 /\ scaledDebtByTier = [t \in Tier |-> 0]
    /\ borrowIndex = RAY /\ lastAccrual = 1 /\ reserves = 0
    /\ totalBadDebt = 0 /\ totalReserveDrawn = 0 /\ totalSocializedLoss = 0
    /\ globalDebtCap = InitialCap /\ tierDebtCap = [t \in Tier |-> InitialCap]
    /\ cash = 0
    /\ shares = [l \in Lender |-> 0] /\ totalSupply = 0
    /\ paused = FALSE
    /\ now = 1
    /\ oracle = [a \in Asset |-> [price |-> 0, updatedAt |-> 0]]
    /\ effective = [w \in Borrower |-> FLOOR]
    /\ recorded = [w \in Borrower |-> [count |-> 0, shortfall |-> 0]]
    /\ entries = 0 /\ loans = 0

\* uint256.max stands for "all of it" to repay and to liquidate.
RepayInput(w) == Amount \cup {Debt(w)}

\* registry.recordLiquidation, as the market sees it.
Report(w, shortfall) ==
    recorded' = [recorded EXCEPT ![w] = [count |-> @.count + 1,
                                         shortfall |-> @.shortfall + shortfall]]

\* liquidate, with its call to the registry, after which the registry may answer
\* another tier for the wallet.
LiquidateAndReport(w, maxRepay, t) ==
    /\ Liquidate(w, maxRepay)
    /\ recorded[w].count < MaxLiquidations
    /\ Report(w, Shortfall(w, maxRepay))
    /\ effective' = [effective EXCEPT ![w] = t]
    /\ UNCHANGED <<now, oracle>>

Next ==
    \/ \E l \in Lender, x \in AssetInput : Deposit(l, x) /\ UNCHANGED env
    \/ \E l \in Lender, x \in AssetInput : Withdraw(l, x) /\ UNCHANGED env
    \/ \E l \in Lender, x \in ShareInput : Mint(l, x) /\ UNCHANGED env
    \/ \E l \in Lender, x \in ShareInput : Redeem(l, x) /\ UNCHANGED env
    \/ \E x \in Donation : Donate(x) /\ UNCHANGED env
    \/ \E w \in Borrower, x \in CollateralInput : DepositCollateral(w, x) /\ UNCHANGED env
    \/ \E w \in Borrower, x \in CollateralInput : WithdrawCollateral(w, x) /\ UNCHANGED env
    \/ \E w \in Borrower, x \in Amount : Borrow(w, x) /\ UNCHANGED env
    \/ \E w \in Borrower : \E x \in RepayInput(w) : Repay(w, x) /\ UNCHANGED env
    \/ \E w \in Borrower : \E x \in RepayInput(w), t \in TierInput : LiquidateAndReport(w, x, t)
    \/ \E cap \in CapInput, tierCaps \in TierCapInput : SetCaps(cap, tierCaps) /\ UNCHANGED env
    \/ \E b \in BOOLEAN : SetPaused(b) /\ UNCHANGED env
    \/ \E a \in Asset : \E p \in PriceInput[a] : SetPrice(a, p)
    \/ \E w \in Borrower, t \in TierInput : Rescore(w, t)
    \/ \E W \in SUBSET Borrower : Lapse(W)
    \/ \E W \in SUBSET Borrower : Tick(W)

Spec == Init /\ [][Next]_vars

----------------------------------------------------------------------------
(* Properties. *)

\* Every variable has the type its Solidity declaration gives it: nothing the
\* market counts is ever negative, so no subtraction of the code underflows.
TypeOK ==
    /\ collateral \in [Borrower -> Nat] /\ totalCollateral \in Nat
    /\ scaledDebt \in [Borrower -> Nat] /\ tier \in [Borrower -> Tier]
    /\ totalScaledDebt \in Nat /\ scaledDebtByTier \in [Tier -> Nat]
    /\ borrowIndex \in Nat /\ lastAccrual \in Nat /\ reserves \in Nat
    /\ totalBadDebt \in Nat /\ totalReserveDrawn \in Nat /\ totalSocializedLoss \in Nat
    /\ recorded \in [Borrower -> [count : Nat, shortfall : Nat]]
    /\ globalDebtCap \in Nat /\ tierDebtCap \in [Tier -> Nat]
    /\ cash \in Nat /\ shares \in [Lender -> Nat] /\ totalSupply \in Nat
    /\ paused \in BOOLEAN /\ entries \in Nat /\ loans \in Nat
    /\ now \in Nat /\ effective \in [Borrower -> Tier]
    /\ oracle \in [Asset -> [price : Nat, updatedAt : Nat]]

\* What the views and a liquidation come up with are amounts too: no subtraction in them
\* goes below zero, and the accrual only ever adds (_previewAccrual, debtOf, liquidate).
AmountsOK ==
    /\ Index \in Nat /\ Index >= borrowIndex
    /\ Reserves \in Nat /\ Interest \in Nat
    /\ \A w \in Borrower :
         /\ Debt(w) \in Nat
         /\ \A x \in RepayInput(w) : CanLiquidate(w, x) =>
              Repaid(w, x) \in Nat /\ Seized(w, x) \in Nat /\ Shortfall(w, x) \in Nat

\* The totals and the tier buckets are the sums of the positions, so a checked
\* subtraction on one of them never reverts a repayment or a liquidation
\* (CONTRACTS.md invariants 1, 2 and 3).
TotalsAreSums ==
    /\ totalScaledDebt = Total(scaledDebt, Borrower)
    /\ \A t \in Tier :
         scaledDebtByTier[t] = Total(scaledDebt, {w \in Borrower : tier[w] = t})
    /\ totalCollateral = Total(collateral, Borrower)

\* No position holds debt without collateral: bad debt is realized by the
\* liquidation that takes the last collateral, never left behind (invariant 9).
NoZombieDebt == \A w \in Borrower : collateral[w] = 0 => scaledDebt[w] = 0

\* Every loss is on the books twice over: it was drawn from the reserves or
\* socialized, and reported to the registry against the wallets that caused it
\* (invariant 8).
LossesAreBooked ==
    /\ totalBadDebt = totalReserveDrawn + totalSocializedLoss
    /\ totalBadDebt = Total([w \in Borrower |-> recorded[w].shortfall], Borrower)

\* The reserves are covered by what the pool holds, now and after the interest
\* of this block is booked: totalAssets never underflows (invariant 7).
ReservesBacked ==
    /\ reserves <= cash + DebtFromScaled(totalScaledDebt, borrowIndex)
    /\ Reserves <= cash + TotalDebt

\* Paused or not, a borrower can repay in full and a lender can take out the
\* amounts maxWithdraw and maxRedeem promise ("a pause never traps anyone").
ExitsStayOpen ==
    /\ \A w \in Borrower : Debt(w) > 0 =>
         Reduction(w, Debt(w)) > 0 /\ CanReduce(w, Reduction(w, Debt(w)))
    /\ \A l \in Lender :
         /\ ToSharesUp(MaxWithdraw(l)) <= shares[l]
         /\ ToAssets(MaxRedeem(l)) <= cash

\* A share loses value only by a socialized loss, and by no more than it: not
\* by interest, roundings, other lenders' entries and exits, or a bad debt the
\* reserves absorb (totalAssets, _realizeBadDebt, the ERC-4626 conversions).
\* A plain transfer to the market is left out: it runs no code of the market, and
\* changes the utilization at which the open interval will be charged.
SharePriceFallsOnlyBySocialization ==
    [][\/ cash' > cash /\ UNCHANGED <<debts, accrual, vault>>
       \/ (TotalAssets' + 1 + totalSocializedLoss' - totalSocializedLoss)
              * (totalSupply + VIRTUAL_SHARES)
            >= (TotalAssets + 1) * (totalSupply' + VIRTUAL_SHARES)]_vars

LendersOwnNothing == reserves = cash + DebtFromScaled(totalScaledDebt, borrowIndex)

\* A healthy position becomes liquidatable only through a price or through
\* interest: not by what its owner just borrowed or withdrew, not by anybody
\* else's transaction, not by its score expiring, and not by a change of caps
\* (borrow, withdrawCollateral, contract comment on the liquidation tier).  One
\* transfer is excepted: _utilization answers zero when lenders own nothing, so a
\* donation to such a pool raises the rate at which the open interval is charged.
OnlyPriceOrTimeUnwinds ==
    [][\A w \in Borrower : ~Unhealthy(w) /\ Unhealthy(w)' =>
         \/ oracle' # oracle \/ now' # now
         \/ cash' > cash /\ LendersOwnNothing]_vars

\* Risk is priced today: debt grows, and a position changes terms, only in its
\* owner's borrow or withdrawal and at the tier the registry answers then.
\* Repaying, adding collateral and liquidation leave the terms alone.
RiskPricedToday ==
    [][\A w \in Borrower :
         /\ scaledDebt'[w] > scaledDebt[w] => tier'[w] = effective[w]
         /\ tier'[w] # tier[w] =>
              /\ tier'[w] = effective[w]
              /\ scaledDebt'[w] > scaledDebt[w] \/ collateral'[w] < collateral[w]]_vars

\* A tier's debt grows only to within its cap, whether by a borrow or by a
\* position moving into the tier, and the total only to within the global cap.
GrowsWithinCaps ==
    [][/\ \A t \in Tier : scaledDebtByTier'[t] > scaledDebtByTier[t] =>
            DebtFromScaled(scaledDebtByTier'[t], borrowIndex') <= tierDebtCap[t]
       /\ totalScaledDebt' > totalScaledDebt =>
            DebtFromScaled(totalScaledDebt', borrowIndex') <= globalDebtCap]_vars

\* A loss is realized only from a position whose debt was worth more than its
\* collateral can repay with the liquidation bonus: a liquidator who takes part
\* of a position can never leave lenders a loss the collateral could have covered.
LossOnlyUnderwater ==
    [][totalBadDebt' > totalBadDebt =>
         \E w \in Borrower :
            /\ recorded'[w].count = recorded[w].count + 1
            /\ DebtValue(Debt(w)) * (BPS + LIQUIDATION_BONUS_BPS) > CollValue(collateral[w]) * BPS]_vars

\* A pause stops every way of adding risk to the pool or unwinding a position:
\* while it lasts no debt grows but by interest, no share is issued and no
\* position is liquidated.
PauseFreezesRisk ==
    [][paused /\ paused' =>
         /\ \A w \in Borrower : scaledDebt'[w] <= scaledDebt[w]
         /\ totalSupply' <= totalSupply
         /\ recorded' = recorded]_vars

\* "borrow(maxBorrow(wallet)) always succeeds while prices are fresh and the
\* market is not paused" (maxBorrow), where it answers more than zero and the
\* debt asset is worth a whole number of units of account, or two units at least:
\* elsewhere the value of the debt rounds up by more than the margin makes room for.
RoundingFits == Price("debt") % WAD = 0 \/ Price("debt") >= 2 * WAD

MaxBorrowSucceedsAtPar ==
    \A w \in Borrower :
        ~paused /\ PricesFresh /\ RoundingFits /\ MaxBorrow(w) > 0
            => CanBorrow(w, MaxBorrow(w))

\* What the market tells a borrower or a lender it can do goes through.
QuotesAreKept == ExitsStayOpen /\ MaxBorrowSucceedsAtPar
=============================================================================
