--------------------------- MODULE Market_proofs ---------------------------
(***************************************************************************)
(* Proofs about TenorMarket and, after them, about MarketPage, which       *)
(* extends it: for every set of borrowers and lenders, every table of      *)
(* terms that validate() accepts, every scale of the index, of prices and  *)
(* of shares, and every amount and headroom the page reckons with.         *)
(*                                                                         *)
(* What a page sends is the market's own transactions: the market's        *)
(* invariant is the page's as well (PageKeepsTheMarket), and the lemmas on *)
(* its transactions and its quotes are cited for both.                     *)
(***************************************************************************)
EXTENDS MarketPage, Sums_proofs

----------------------------------------------------------------------------
(* Arithmetic of Math.mulDiv. *)

\* What Euclid's division gives.
LEMMA DivFloor ==
    ASSUME NEW a \in Nat, NEW c \in Nat \ {0}
    PROVE  /\ a \div c \in Nat
           /\ (a \div c) * c <= a
           /\ a < (a \div c) * c + c
OBVIOUS

\* A quotient is found from its bounds.
LEMMA DivLeast ==
    ASSUME NEW a \in Nat, NEW c \in Nat \ {0}, NEW q \in Nat, a < q * c + c
    PROVE  a \div c <= q
<1>1. (a \div c) \in Nat /\ (a \div c) * c <= a
  BY DivFloor
<1>2. SUFFICES ASSUME a \div c >= q + 1 PROVE FALSE
  BY <1>1
<1> DEFINE d == a \div c
<1>3. d * c >= (q + 1) * c
  <2> HIDE DEF d
  <2> QED BY <1>1, <1>2
<1> QED BY <1>1, <1>3

\* Products of naturals, a fact the provers like to be told.
LEMMA MulNat == ASSUME NEW a \in Nat, NEW b \in Nat PROVE a * b \in Nat
OBVIOUS

\* mulDiv rounded down.
LEMMA MulDivFloor ==
    ASSUME NEW a \in Nat, NEW b \in Nat, NEW c \in Nat \ {0}
    PROVE  /\ MulDiv(a, b, c) \in Nat
           /\ MulDiv(a, b, c) * c <= a * b
           /\ a * b < MulDiv(a, b, c) * c + c
BY DivFloor, MulNat DEF MulDiv

\* mulDiv rounded up.
LEMMA MulDivCeil ==
    ASSUME NEW a \in Nat, NEW b \in Nat, NEW c \in Nat \ {0}
    PROVE  /\ MulDivUp(a, b, c) \in Nat
           /\ a * b <= MulDivUp(a, b, c) * c
           /\ MulDivUp(a, b, c) * c < a * b + c
<1> DEFINE n == a * b
<1>1. n \in Nat /\ n + c - 1 \in Nat
  BY MulNat
<1> HIDE DEF n
<1>2. (n + c - 1) \div c \in Nat /\ ((n + c - 1) \div c) * c <= n + c - 1
      /\ n + c - 1 < ((n + c - 1) \div c) * c + c
  BY <1>1, DivFloor
<1> DEFINE q == (n + c - 1) \div c
<1>3. q * c \in Nat
  BY <1>2
<1>4. q \in Nat /\ n <= q * c /\ q * c < n + c
  <2> HIDE DEF q
  <2> QED BY <1>1, <1>2, <1>3 DEF q
<1> QED BY <1>4 DEF MulDivUp, n

\* A ceiling is at most any number that suffices.
LEMMA CeilLeast ==
    ASSUME NEW a \in Nat, NEW b \in Nat, NEW c \in Nat \ {0}, NEW q \in Nat, a * b <= q * c
    PROVE  MulDivUp(a, b, c) <= q
<1> DEFINE m == MulDivUp(a, b, c)
<1>1. m \in Nat /\ m * c < a * b + c
  BY MulDivCeil
<1> HIDE DEF m
<1>2. ASSUME m >= q + 1 PROVE FALSE
  <2>1. m * c >= (q + 1) * c
    BY <1>1, <1>2
  <2>2. a * b \in Nat /\ q * c \in Nat /\ (q + 1) * c = q * c + c
    OBVIOUS
  <2> QED BY <1>1, <2>1, <2>2
<1>3. m <= q
  BY <1>1, <1>2
<1> QED BY <1>3 DEF m

\* The fixed-point units are positive.
LEMMA Units == /\ RAY \in Nat \ {0} /\ WAD \in Nat \ {0} /\ SECONDS_PER_YEAR \in Nat \ {0}
               /\ VIRTUAL_SHARES \in Nat \ {0}
BY MarketAssumption

\* _debtFromScaled returns a debt worth at least the scaled amount, and some debt for some.
LEMMA DebtBounds ==
    ASSUME NEW s \in Nat, NEW i \in Nat
    PROVE  /\ DebtFromScaled(s, i) \in Nat
           /\ s * i <= DebtFromScaled(s, i) * RAY
           /\ s > 0 /\ i > 0 => DebtFromScaled(s, i) > 0
<1>1. DebtFromScaled(s, i) \in Nat /\ s * i <= DebtFromScaled(s, i) * RAY
  BY Units, MulDivCeil DEF DebtFromScaled
<1>2. ASSUME s > 0, i > 0, DebtFromScaled(s, i) = 0 PROVE FALSE
  <2>1. s * i > 0
    BY <1>2
  <2>2. s * i <= 0 * RAY
    BY <1>1, <1>2
  <2> QED BY <2>1, <2>2, Units
<1> QED BY <1>1, <1>2

\* _debtFromScaled grows with both of its arguments.
LEMMA DebtMonotone ==
    ASSUME NEW s \in Nat, NEW t \in Nat, NEW i \in Nat, NEW j \in Nat, s <= t, i <= j
    PROVE  DebtFromScaled(s, i) <= DebtFromScaled(t, j)
<1>1. s * i <= t * j
  <2>1. s * i <= t * i /\ t * i <= t * j
    OBVIOUS
  <2> QED BY <2>1, MulNat
<1>2. DebtFromScaled(t, j) \in Nat /\ t * j <= DebtFromScaled(t, j) * RAY
  BY DebtBounds
<1>3. s * i <= DebtFromScaled(t, j) * RAY
  BY <1>1, <1>2, MulNat, Units
<1> QED BY <1>2, <1>3, CeilLeast, Units DEF DebtFromScaled

\* Taking s off a scaled debt lowers the debt by at most any payment worth s.
LEMMA DebtReduced ==
    ASSUME NEW t \in Nat, NEW s \in Nat, NEW i \in Nat, NEW p \in Nat,
           s <= t, s * i <= p * RAY
    PROVE  DebtFromScaled(t, i) <= DebtFromScaled(t - s, i) + p
<1> DEFINE d == DebtFromScaled(t - s, i)
<1>1. t - s \in Nat
  OBVIOUS
<1>2. d \in Nat /\ (t - s) * i <= d * RAY
  BY <1>1, DebtBounds
<1> HIDE DEF d
<1>3. t * i = (t - s) * i + s * i
  BY <1>1
<1>4. (d + p) * RAY = d * RAY + p * RAY
  BY <1>2, Units
<1>5. t * i <= (d + p) * RAY
  BY <1>1, <1>2, <1>3, <1>4, MulNat, Units
<1>6. DebtFromScaled(t, i) <= d + p
  BY <1>2, <1>5, CeilLeast, Units DEF DebtFromScaled
<1> QED BY <1>6 DEF d

\* Adding s to a scaled debt raises the debt by at least any loan s pays for.
LEMMA DebtGrown ==
    ASSUME NEW t \in Nat, NEW s \in Nat, NEW i \in Nat, NEW p \in Nat, p * RAY <= s * i
    PROVE  DebtFromScaled(t, i) + p <= DebtFromScaled(t + s, i)
<1> DEFINE d == DebtFromScaled(t + s, i)
<1>1. d \in Nat /\ (t + s) * i <= d * RAY
  <2> t + s \in Nat
    OBVIOUS
  <2> QED BY DebtBounds
<1>2. DebtFromScaled(t, i) \in Nat /\ s * i \in Nat /\ t * i \in Nat /\ p * RAY \in Nat /\ d * RAY \in Nat
  BY DebtBounds, MulNat, Units, <1>1
<1> HIDE DEF d
<1>3. (t + s) * i = t * i + s * i
  OBVIOUS
<1>4. t * i + p * RAY <= d * RAY
  BY <1>1, <1>2, <1>3
<1>5. p <= d
  <2>1. p * RAY <= d * RAY
    BY <1>2, <1>4
  <2> QED BY <1>1, <2>1, Units
<1>6. t * i <= (d - p) * RAY
  <2>1. (d - p) * RAY = d * RAY - p * RAY
    BY <1>1, Units
  <2> QED BY <1>2, <1>4, <2>1
<1>7. DebtFromScaled(t, i) <= d - p
  BY <1>1, <1>5, <1>6, CeilLeast, Units DEF DebtFromScaled
<1> QED BY <1>1, <1>2, <1>7 DEF d

----------------------------------------------------------------------------
(* The inductive invariant: types, and that the pool covers the reserves. *)

Backed == reserves <= cash + DebtFromScaled(totalScaledDebt, borrowIndex)

Solvent ==
    /\ borrowIndex >= RAY
    /\ lastAccrual <= now
    /\ Backed

IInv == TypeOK /\ Solvent

\* borrowRateBps, for any utilization.
LEMMA RateType == ASSUME NEW u \in Nat, NEW wad \in Nat \ {0} PROVE BorrowRateBps(u, wad) \in Nat
<1> DEFINE x == IF u > wad THEN wad ELSE u
<1>1. x \in Nat
  OBVIOUS
<1> HIDE DEF x
<1>2. SLOPE_BPS * x \in Nat
  BY <1>1 DEF SLOPE_BPS
<1>3. (SLOPE_BPS * x) \div wad \in Nat
  BY <1>2, DivFloor
<1>4. BASE_RATE_BPS + (SLOPE_BPS * x) \div wad \in Nat
  BY <1>3 DEF BASE_RATE_BPS
<1> QED BY <1>4 DEF BorrowRateBps, x

\* The cut of the interest that goes to the reserves is at most the interest.
LEMMA CutAtMost == ASSUME NEW x \in Nat
                   PROVE  MulDiv(x, RESERVE_FACTOR_BPS, BPS) \in 0 .. x
<1> DEFINE m == MulDiv(x, 1000, 10000)
<1>1. m \in Nat /\ m * 10000 <= x * 1000
  BY MulDivFloor
<1> HIDE DEF m
<1>2. m <= x
  BY <1>1
<1> QED BY <1>1, <1>2 DEF m, RESERVE_FACTOR_BPS, BPS

\* _previewAccrual: the index does not fall, and interest is booked in full to
\* lenders and reserves together, so the pool still covers the reserves.
LEMMA Accrued ==
    ASSUME IInv
    PROVE  /\ Index \in Nat /\ Index >= borrowIndex /\ Index >= RAY /\ Index > 0
           /\ TotalDebt \in Nat
           /\ DebtFromScaled(totalScaledDebt, borrowIndex) <= TotalDebt
           /\ Reserves \in Nat /\ Reserves >= reserves
           /\ Reserves <= cash + TotalDebt
           /\ Rate \in Nat
<1> DEFINE old == DebtFromScaled(totalScaledDebt, borrowIndex)
<1>1. /\ totalScaledDebt \in Nat /\ borrowIndex \in Nat /\ reserves \in Nat /\ cash \in Nat
      /\ now \in Nat /\ lastAccrual \in Nat /\ lastAccrual <= now /\ borrowIndex >= RAY
      /\ reserves <= cash + old
  BY DEF IInv, TypeOK, Solvent, Backed
<1>2. old \in Nat
  BY <1>1, DebtBounds
<1>3. Utilization(old, reserves) \in Nat
  <2> HIDE DEF old
  <2> DEFINE supplied == cash + old - reserves
  <2>1. supplied \in Nat
    BY <1>1, <1>2
  <2>2. CASE supplied = 0
    BY <2>2 DEF Utilization
  <2>3. CASE supplied # 0
    <3> HIDE DEF supplied
    <3>1. MulDiv(old, WAD, supplied) \in Nat
      BY <2>1, <2>3, <1>2, Units, MulDivFloor
    <3> QED BY <2>3, <3>1 DEF Utilization, supplied
  <2> QED BY <2>2, <2>3
<1>4. Rate \in Nat
  BY <1>3, RateType, Units DEF Rate
<1>5. Growth \in Nat
  <2>1. Rate * (now - lastAccrual) \in Nat
    <3>1. now - lastAccrual \in Nat
      BY <1>1
    <3> QED BY <3>1, <1>4, MulNat
  <2>2. BPS * SECONDS_PER_YEAR \in Nat \ {0}
    BY Units DEF BPS
  <2> HIDE DEF old
  <2>3. MulDiv(borrowIndex, Rate * (now - lastAccrual), BPS * SECONDS_PER_YEAR) \in Nat
    BY <2>1, <2>2, <1>1, MulDivFloor
  <2> QED BY <2>3 DEF Growth
<1>6. Index \in Nat /\ Index >= borrowIndex /\ Index >= RAY /\ Index > 0
  BY <1>1, <1>5, Units DEF Index
<1>7. TotalDebt \in Nat /\ old <= TotalDebt
  BY <1>1, <1>6, DebtBounds, DebtMonotone DEF TotalDebt
<1> HIDE DEF old
<1>8. Interest \in Nat /\ Interest = TotalDebt - old
  BY <1>2, <1>7 DEF Interest, old
<1>9. MulDiv(Interest, RESERVE_FACTOR_BPS, BPS) \in 0 .. Interest
  BY <1>8, CutAtMost
<1>10. Reserves \in Nat /\ Reserves >= reserves /\ Reserves <= reserves + Interest
  BY <1>1, <1>8, <1>9 DEF Reserves
<1>11. Reserves <= cash + TotalDebt
  BY <1>1, <1>2, <1>7, <1>8, <1>10
<1> QED BY <1>4, <1>6, <1>7, <1>10, <1>11 DEF old

\* The invariant after a transaction that accrues, from what it owes at the new index.
LEMMA AccrueKeeps ==
    ASSUME IInv, Accrue, now' = now,
           Reserves <= cash' + DebtFromScaled(totalScaledDebt', Index)
    PROVE  Solvent' /\ borrowIndex' \in Nat /\ lastAccrual' \in Nat /\ reserves' \in Nat
<1>1. borrowIndex' = Index /\ lastAccrual' = now /\ reserves' = Reserves
  BY DEF Accrue, StoreIndex
<1>2. Index \in Nat /\ Index >= RAY /\ Reserves \in Nat
  BY Accrued
<1>3. now \in Nat
  BY DEF IInv, TypeOK
<1>4. Backed'
  BY <1>1 DEF Backed, DebtFromScaled
<1> QED BY <1>1, <1>2, <1>3, <1>4, Units DEF Solvent

----------------------------------------------------------------------------
(* Lenders' transactions. *)

\* Assets handed out against at most the whole supply of shares, at a value
\* rounded in the pool's favour, never exceed what the pool holds for lenders:
\* the virtual offset leaves at least one share's worth behind.
LEMMA ExitAtMost ==
    ASSUME NEW assets \in Nat, NEW s \in Nat, NEW supply \in Nat, NEW total \in Nat,
           s <= supply,
           assets * (supply + VIRTUAL_SHARES) <= s * (total + 1)
    PROVE  assets <= total
<1>1. SUFFICES ASSUME assets >= total + 1 PROVE FALSE
  OBVIOUS
<1> DEFINE v == supply + VIRTUAL_SHARES
<1>2. v \in Nat /\ v >= supply + 1
  BY Units
<1>3. s * (total + 1) <= supply * (total + 1)
  OBVIOUS
<1> HIDE DEF v
<1>4. (total + 1) * v <= assets * v
  BY <1>1, <1>2
<1>5. (total + 1) * (supply + 1) <= (total + 1) * v
  BY <1>2
<1>6. (total + 1) * (supply + 1) = supply * (total + 1) + (total + 1)
  OBVIOUS
<1>7. /\ assets * v \in Nat /\ (total + 1) * v \in Nat
      /\ s * (total + 1) \in Nat /\ supply * (total + 1) \in Nat
  BY <1>2, MulNat
<1>8. assets * v <= s * (total + 1)
  BY DEF v
<1>9. (total + 1) * (supply + 1) \in Nat
  OBVIOUS
<1> HIDE DEF v
<1> QED BY <1>3, <1>4, <1>5, <1>6, <1>7, <1>8, <1>9

\* totalAssets does not underflow in a state of the invariant.
LEMMA TotalAssetsType == ASSUME IInv PROVE TotalAssets \in Nat /\ TotalAssets = cash + TotalDebt - Reserves
BY Accrued DEF TotalAssets, IInv, TypeOK

\* The four ERC-4626 conversions, on any amount.
LEMMA Conversions ==
    ASSUME IInv, NEW x \in Nat
    PROVE  /\ ToShares(x) \in Nat /\ ToSharesUp(x) \in Nat
           /\ ToAssets(x) \in Nat /\ ToAssetsUp(x) \in Nat
           /\ x * (totalSupply + VIRTUAL_SHARES) <= ToSharesUp(x) * (TotalAssets + 1)
           /\ ToAssets(x) * (totalSupply + VIRTUAL_SHARES) <= x * (TotalAssets + 1)
<1> DEFINE v == totalSupply + VIRTUAL_SHARES
           a == TotalAssets + 1
<1>1. v \in Nat \ {0} /\ a \in Nat \ {0}
  BY Units, TotalAssetsType DEF IInv, TypeOK
<1> HIDE DEF v, a
<1>2. /\ MulDiv(x, v, a) \in Nat /\ MulDivUp(x, v, a) \in Nat /\ x * v <= MulDivUp(x, v, a) * a
  BY <1>1, MulDivFloor, MulDivCeil
<1>3. /\ MulDiv(x, a, v) \in Nat /\ MulDivUp(x, a, v) \in Nat /\ MulDiv(x, a, v) * v <= x * a
  BY <1>1, MulDivFloor, MulDivCeil
<1> QED BY <1>2, <1>3 DEF v, a, ToShares, ToSharesUp, ToAssets, ToAssetsUp

\* deposit and mint.
LEMMA EnterKeeps ==
    ASSUME IInv, NEW l \in Lender, NEW assets \in Nat, NEW s \in Nat,
           Enter(l, assets, s), UNCHANGED env
    PROVE  IInv'
<1>1. /\ Accrue /\ cash' = cash + assets /\ totalScaledDebt' = totalScaledDebt /\ now' = now
  BY DEF Enter, debts, env
<1>2. Reserves <= cash' + DebtFromScaled(totalScaledDebt', Index)
  BY <1>1, Accrued DEF TotalDebt, IInv, TypeOK
<1>3. Solvent' /\ borrowIndex' \in Nat /\ lastAccrual' \in Nat /\ reserves' \in Nat
  BY <1>1, <1>2, AccrueKeeps
<1>4. cash' \in Nat /\ shares' \in [Lender -> Nat] /\ totalSupply' \in Nat /\ entries' \in Nat
  BY DEF Enter, IInv, TypeOK
<1>5. TypeOK'
  BY <1>3, <1>4 DEF Enter, IInv, TypeOK, pledge, debts, losses, admin, env
<1> QED BY <1>3, <1>5 DEF IInv

\* withdraw and redeem: the assets that leave are covered by the lenders' claim.
LEMMA LeaveKeeps ==
    ASSUME IInv, NEW l \in Lender, NEW assets \in Nat, NEW s \in Nat,
           assets * (totalSupply + VIRTUAL_SHARES) <= s * (TotalAssets + 1),
           Leave(l, assets, s), UNCHANGED env
    PROVE  IInv'
<1>1. /\ Accrue /\ cash' = cash - assets /\ totalScaledDebt' = totalScaledDebt /\ now' = now
      /\ assets <= cash /\ s <= totalSupply /\ s <= shares[l]
  BY DEF Leave, debts, env
<1>2. cash \in Nat /\ totalSupply \in Nat /\ shares \in [Lender -> Nat]
  BY DEF IInv, TypeOK
<1>3. assets <= TotalAssets
  BY <1>1, <1>2, ExitAtMost, TotalAssetsType
<1>4. Reserves <= cash' + DebtFromScaled(totalScaledDebt', Index)
  BY <1>1, <1>2, <1>3, Accrued, TotalAssetsType DEF TotalDebt
<1>5. Solvent' /\ borrowIndex' \in Nat /\ lastAccrual' \in Nat /\ reserves' \in Nat
  BY <1>1, <1>4, AccrueKeeps
<1>6. cash' \in Nat /\ shares' \in [Lender -> Nat] /\ totalSupply' \in Nat
  BY <1>1, <1>2 DEF Leave
<1>7. TypeOK'
  BY <1>5, <1>6 DEF Leave, IInv, TypeOK, pledge, debts, losses, admin, history, env
<1> QED BY <1>5, <1>7 DEF IInv

\* The inputs of the transactions are numbers.
LEMMA Inputs ==
    /\ AssetInput \subseteq Nat /\ ShareInput \subseteq Nat /\ Donation \subseteq Nat
    /\ CollateralInput \subseteq Nat /\ Amount \subseteq Nat /\ CapInput \subseteq Nat
    /\ TierCapInput \subseteq [Tier -> Nat] /\ InitialCap \in Nat /\ PriceInput \in [Asset -> SUBSET Nat] /\ TierInput \subseteq Tier
    /\ MaxLtv \in [Tier -> Nat] /\ WalletCap \in [Tier -> Nat]
BY MarketAssumption

\* Every transaction of a lender keeps the invariant.
LEMMA LenderKeeps ==
    ASSUME IInv, UNCHANGED env, NEW l \in Lender, NEW x \in Nat,
           Deposit(l, x) \/ Mint(l, x) \/ Withdraw(l, x) \/ Redeem(l, x)
    PROVE  IInv'
<1>1. CASE Deposit(l, x)
  BY <1>1, Conversions, EnterKeeps DEF Deposit
<1>2. CASE Mint(l, x)
  BY <1>2, Conversions, EnterKeeps DEF Mint
<1>3. CASE Withdraw(l, x)
  BY <1>3, Conversions, LeaveKeeps DEF Withdraw
<1>4. CASE Redeem(l, x)
  BY <1>4, Conversions, LeaveKeeps DEF Redeem
<1> QED BY <1>1, <1>2, <1>3, <1>4

\* A plain transfer to the market.
LEMMA DonateKeeps ==
    ASSUME IInv, UNCHANGED env, NEW x \in Nat, Donate(x)
    PROVE  IInv'
<1>1. cash' \in Nat /\ cash' >= cash /\ entries' \in Nat
  BY DEF Donate, IInv, TypeOK
<1>2. TypeOK'
  BY <1>1 DEF Donate, IInv, TypeOK, pledge, debts, accrual, losses, vault, admin, env
<1>3. DebtFromScaled(totalScaledDebt, borrowIndex) \in Nat
  BY DebtBounds DEF IInv, TypeOK
<1>4. Backed'
  <2>1. reserves' = reserves /\ totalScaledDebt' = totalScaledDebt /\ borrowIndex' = borrowIndex
    BY DEF Donate, debts, accrual
  <2>2. reserves \in Nat /\ cash \in Nat /\ Backed
    BY DEF IInv, TypeOK, Solvent
  <2> QED BY <1>1, <1>3, <2>1, <2>2 DEF Backed, DebtFromScaled
<1>5. Solvent'
  BY <1>4 DEF Donate, IInv, Solvent, accrual, env
<1> QED BY <1>2, <1>5 DEF IInv

----------------------------------------------------------------------------
(* Borrowers' transactions. *)

\* _retier leaves non-negative buckets.
LEMMA RebucketedType ==
    ASSUME IInv, NEW w \in Borrower, CanRetier(w)
    PROVE  Rebucketed(w) \in [Tier -> Nat]
<1>1. /\ scaledDebtByTier \in [Tier -> Nat] /\ tier[w] \in Tier /\ effective[w] \in Tier
      /\ scaledDebt[w] \in Nat
  BY DEF IInv, TypeOK
<1>2. CASE effective[w] = tier[w]
  BY <1>1, <1>2 DEF Rebucketed
<1>3. CASE effective[w] # tier[w]
  BY <1>1, <1>3 DEF Rebucketed, CanRetier
<1> QED BY <1>2, <1>3

\* Where CanRetier fails the sums of the buckets are still of integers.
LEMMA RebucketedIntegers ==
    ASSUME IInv, NEW w \in Borrower
    PROVE  Rebucketed(w) \in [Tier -> Int]
<1>1. /\ scaledDebtByTier \in [Tier -> Int] /\ tier[w] \in Tier /\ effective[w] \in Tier
      /\ scaledDebt[w] \in Int
  BY DEF IInv, TypeOK
<1>2. CASE effective[w] = tier[w]
  BY <1>1, <1>2 DEF Rebucketed
<1>3. CASE effective[w] # tier[w]
  BY <1>1, <1>3 DEF Rebucketed
<1> QED BY <1>2, <1>3

\* depositCollateral.
LEMMA DepositCollateralKeeps ==
    ASSUME IInv, UNCHANGED env, NEW w \in Borrower, NEW x \in Nat, DepositCollateral(w, x)
    PROVE  IInv'
<1>1. collateral' \in [Borrower -> Nat] /\ totalCollateral' \in Nat
  BY DEF DepositCollateral, IInv, TypeOK
<1>2. TypeOK'
  BY <1>1 DEF DepositCollateral, IInv, TypeOK, debts, accrual, losses, vault, admin, history, env
<1>3. Solvent'
  BY DEF DepositCollateral, IInv, Solvent, Backed, DebtFromScaled, debts, accrual, env
<1> QED BY <1>2, <1>3 DEF IInv

\* withdrawCollateral.
LEMMA WithdrawCollateralKeeps ==
    ASSUME IInv, UNCHANGED env, NEW w \in Borrower, NEW x \in Nat, WithdrawCollateral(w, x)
    PROVE  IInv'
<1>1. Accrue /\ cash' = cash /\ now' = now
  BY DEF WithdrawCollateral, env
<1>2. totalScaledDebt' = totalScaledDebt
  BY DEF WithdrawCollateral, debts
<1>3. Reserves <= cash' + DebtFromScaled(totalScaledDebt', Index)
  BY <1>1, <1>2, Accrued DEF TotalDebt
<1>4. Solvent' /\ borrowIndex' \in Nat /\ lastAccrual' \in Nat /\ reserves' \in Nat
  BY <1>1, <1>3, AccrueKeeps
<1>5. collateral' \in [Borrower -> Nat] /\ totalCollateral' \in Nat
  BY DEF WithdrawCollateral, IInv, TypeOK
<1>6. scaledDebt' = scaledDebt
  BY DEF WithdrawCollateral, debts
<1>7. tier' \in [Borrower -> Tier] /\ scaledDebtByTier' \in [Tier -> Nat]
  <2>1. CASE scaledDebt[w] > 0
    BY <2>1, RebucketedType DEF WithdrawCollateral, IInv, TypeOK
  <2>2. CASE ~(scaledDebt[w] > 0)
    BY <2>2 DEF WithdrawCollateral, IInv, TypeOK, debts
  <2> QED BY <2>1, <2>2
<1>8. TypeOK'
  BY <1>1, <1>2, <1>4, <1>5, <1>6, <1>7
  DEF WithdrawCollateral, IInv, TypeOK, losses, vault, admin, history, env
<1> QED BY <1>4, <1>8 DEF IInv

\* The scaled debt of a loan is worth at least the loan.
LEMMA ScaledUpBounds ==
    ASSUME IInv, NEW x \in Nat
    PROVE  ScaledUp(x) \in Nat /\ x * RAY <= ScaledUp(x) * Index
<1>1. Index \in Nat \ {0} /\ RAY \in Nat
  BY Accrued, Units
<1> QED BY <1>1, MulDivCeil DEF ScaledUp

\* borrow: the debt the pool gains is worth at least the cash that leaves.
LEMMA BorrowKeeps ==
    ASSUME IInv, UNCHANGED env, NEW w \in Borrower, NEW x \in Nat, Borrow(w, x)
    PROVE  IInv'
<1>1. /\ Accrue /\ now' = now /\ cash' = cash - x /\ x <= cash /\ CanRetier(w)
      /\ totalScaledDebt' = totalScaledDebt + ScaledUp(x)
  BY DEF Borrow, CanBorrow, env
<1>2. cash \in Nat /\ totalScaledDebt \in Nat
  BY DEF IInv, TypeOK
<1>3. ScaledUp(x) \in Nat /\ x * RAY <= ScaledUp(x) * Index
  BY ScaledUpBounds
<1>4. TotalDebt + x <= DebtFromScaled(totalScaledDebt', Index)
  BY <1>1, <1>2, <1>3, Accrued, DebtGrown DEF TotalDebt
<1>5. DebtFromScaled(totalScaledDebt', Index) \in Nat
  <2>1. totalScaledDebt' \in Nat /\ Index \in Nat
    BY <1>1, <1>2, <1>3, Accrued
  <2> QED BY <2>1, DebtBounds
<1>6. Reserves <= cash' + DebtFromScaled(totalScaledDebt', Index)
  BY <1>1, <1>2, <1>4, <1>5, Accrued
<1>7. Solvent' /\ borrowIndex' \in Nat /\ lastAccrual' \in Nat /\ reserves' \in Nat
  BY <1>1, <1>6, AccrueKeeps
<1>8. totalScaledDebt' \in Nat /\ cash' \in Nat /\ loans' \in Nat
  BY <1>1, <1>2, <1>3 DEF Borrow, IInv, TypeOK
<1>9. scaledDebt' \in [Borrower -> Nat] /\ tier' \in [Borrower -> Tier]
  BY <1>3 DEF Borrow, IInv, TypeOK
<1>10. scaledDebtByTier' \in [Tier -> Nat]
  <2>1. Rebucketed(w) \in [Tier -> Nat]
    BY <1>1, RebucketedType
  <2>2. scaledDebtByTier' = [Rebucketed(w) EXCEPT ![effective[w]] = @ + ScaledUp(x)]
    BY DEF Borrow, BucketsAfter
  <2> QED BY <1>3, <2>1, <2>2 DEF IInv, TypeOK
<1>11. TypeOK'
  BY <1>7, <1>8, <1>9, <1>10 DEF Borrow, IInv, TypeOK, pledge, losses, vault, admin, env
<1> QED BY <1>7, <1>11 DEF IInv

\* _reduceDebt: the scaled debt taken off is worth at most the payment.
LEMMA ReductionBounds ==
    ASSUME IInv, NEW w \in Borrower, NEW x \in Nat
    PROVE  /\ Debt(w) \in Nat
           /\ Reduction(w, x) \in Nat
           /\ Reduction(w, x) * Index <= Lesser(x, Debt(w)) * RAY
           /\ Lesser(x, Debt(w)) \in Nat
<1>1. Index \in Nat \ {0} /\ scaledDebt[w] \in Nat
  BY Accrued DEF IInv, TypeOK
<1>2. Debt(w) \in Nat /\ scaledDebt[w] * Index <= Debt(w) * RAY
  BY <1>1, DebtBounds DEF Debt
<1>3. CASE x >= Debt(w)
  BY <1>1, <1>2, <1>3 DEF Reduction, Lesser
<1>4. CASE x < Debt(w)
  <2>1. MulDiv(x, RAY, Index) \in Nat /\ MulDiv(x, RAY, Index) * Index <= x * RAY
    BY <1>1, MulDivFloor, Units
  <2>2. Reduction(w, x) = MulDiv(x, RAY, Index) /\ Lesser(x, Debt(w)) = x
    BY <1>2, <1>4 DEF Reduction, Lesser
  <2> QED BY <1>2, <2>1, <2>2
<1> QED BY <1>2, <1>3, <1>4

\* What ReduceDebt does to the types.
LEMMA ReduceDebtType ==
    ASSUME IInv, NEW w \in Borrower, NEW s \in Nat, ReduceDebt(w, s)
    PROVE  /\ scaledDebt' \in [Borrower -> Nat] /\ tier' = tier
           /\ scaledDebtByTier' \in [Tier -> Nat]
           /\ totalScaledDebt' \in Nat /\ s <= totalScaledDebt
           /\ totalScaledDebt' = totalScaledDebt - s
BY DEF ReduceDebt, CanReduce, IInv, TypeOK

\* repay: the cash that arrives makes up for the debt that goes.
LEMMA RepayKeeps ==
    ASSUME IInv, UNCHANGED env, NEW w \in Borrower, NEW x \in Nat, Repay(w, x)
    PROVE  IInv'
<1> DEFINE s == Reduction(w, x)
           p == Lesser(x, Debt(w))
<1>1. /\ Accrue /\ now' = now /\ cash' = cash + p /\ ReduceDebt(w, s)
  BY DEF Repay, env
<1>2. s \in Nat /\ p \in Nat /\ s * Index <= p * RAY
  BY ReductionBounds
<1> HIDE DEF s, p
<1>3. cash \in Nat /\ totalScaledDebt \in Nat /\ Index \in Nat
  BY Accrued DEF IInv, TypeOK
<1>4. /\ scaledDebt' \in [Borrower -> Nat] /\ tier' = tier /\ scaledDebtByTier' \in [Tier -> Nat]
      /\ totalScaledDebt' \in Nat /\ s <= totalScaledDebt
      /\ totalScaledDebt' = totalScaledDebt - s
  BY <1>1, <1>2, ReduceDebtType
<1>5. TotalDebt <= DebtFromScaled(totalScaledDebt', Index) + p
  BY <1>2, <1>3, <1>4, DebtReduced DEF TotalDebt
<1>6. DebtFromScaled(totalScaledDebt', Index) \in Nat
  BY <1>3, <1>4, DebtBounds
<1>7. Reserves <= cash' + DebtFromScaled(totalScaledDebt', Index)
  BY <1>1, <1>2, <1>3, <1>5, <1>6, Accrued
<1>8. Solvent' /\ borrowIndex' \in Nat /\ lastAccrual' \in Nat /\ reserves' \in Nat
  BY <1>1, <1>7, AccrueKeeps
<1>9. cash' \in Nat
  BY <1>1, <1>2, <1>3
<1>10. TypeOK'
  BY <1>4, <1>8, <1>9 DEF Repay, IInv, TypeOK, pledge, losses, vault, admin, history, env
<1> QED BY <1>8, <1>10 DEF IInv

----------------------------------------------------------------------------
(* Liquidation. *)

\* A price that does not revert is a positive number.
LEMMA PriceType ==
    ASSUME IInv, PricesFresh, NEW a \in Asset
    PROVE  Price(a) \in Nat \ {0}
BY DEF IInv, TypeOK, PricesFresh, Priced, Price

\* What a liquidation comes to: all of it amounts, the debt it pays for is worth at most
\* the repayment, and the rest, if nobody is to pay for it, at most the shortfall.
LEMMA LiquidationAmounts ==
    ASSUME IInv, NEW w \in Borrower, NEW x \in Nat, CanLiquidate(w, x)
    PROVE  /\ Repaid(w, x) \in Nat /\ Seized(w, x) \in Nat /\ Shortfall(w, x) \in Nat
           /\ Remaining(w, x) \in Int /\ scaledDebt[w] - Remaining(w, x) \in Nat
           /\ (scaledDebt[w] - Remaining(w, x)) * Index <= Repaid(w, x) * RAY
           /\ Shortfall(w, x) > 0 =>
                Remaining(w, x) > 0 /\ Remaining(w, x) * Index <= Shortfall(w, x) * RAY
<1> DEFINE p == Repaid(w, x)
           f == Shortfall(w, x)
           r == IF p > 0 THEN Reduction(w, p) ELSE 0
           d == scaledDebt[w]
           pd == Price("debt")
           pc == Price("coll")
           cv == CollValue(collateral[w])
<1>1. PricesFresh
  BY DEF CanLiquidate
<1>2. pd \in Nat \ {0} /\ pc \in Nat \ {0}
  BY <1>1, PriceType DEF Asset
<1>3. collateral[w] \in Nat /\ d \in Nat /\ Index \in Nat \ {0} /\ Debt(w) \in Nat
  BY Accrued, ReductionBounds DEF IInv, TypeOK
<1> HIDE DEF pd, pc
<1>4. cv \in Nat
  BY <1>2, <1>3, MulDivFloor, Units DEF CollValue, pc
<1> HIDE DEF cv
<1>5. RepayCap(w) \in Nat
  <2>1. (BPS + LIQUIDATION_BONUS_BPS) * pd \in Nat \ {0} /\ BPS * WAD \in Nat
    BY <1>2, Units DEF BPS, LIQUIDATION_BONUS_BPS
  <2>2. MulDiv(cv, BPS * WAD, (BPS + LIQUIDATION_BONUS_BPS) * pd) \in Nat
    BY <1>4, <2>1, MulDivFloor
  <2> QED BY <2>2 DEF RepayCap, cv, pd
<1>6. p \in Nat /\ p <= Debt(w)
  BY <1>3, <1>5 DEF Repaid, Lesser
<1>7. Seized(w, x) \in Nat
  <2> HIDE DEF p
  <2>1. (BPS + LIQUIDATION_BONUS_BPS) * pd \in Nat /\ BPS * pc \in Nat \ {0}
    BY <1>2 DEF BPS, LIQUIDATION_BONUS_BPS
  <2>2. MulDiv(p, (BPS + LIQUIDATION_BONUS_BPS) * pd, BPS * pc) \in Nat
    BY <1>6, <2>1, MulDivFloor
  <2> QED BY <1>3, <2>2 DEF Seized, p, pd, pc
<1>8. r \in Nat /\ r * Index <= p * RAY
  <2> HIDE DEF p
  <2>1. CASE p > 0
    <3>1. Lesser(p, Debt(w)) = p
      BY <1>3, <1>6 DEF Lesser
    <3> QED BY <1>6, <2>1, <3>1, ReductionBounds
  <2>2. CASE ~(p > 0)
    BY <1>3, <1>6, <2>2, Units
  <2> QED BY <2>1, <2>2
<1>9. Remaining(w, x) = d - r
  BY DEF Remaining
<1> HIDE DEF p, r
<1>10. f = IF Seized(w, x) = collateral[w] /\ d - r > 0 THEN DebtFromScaled(d - r, Index) ELSE 0
  BY <1>9 DEF Shortfall
<1> HIDE DEF f
<1>11. f \in Nat /\ (f > 0 => d - r > 0 /\ (d - r) * Index <= f * RAY)
  <2>1. CASE f = 0
    BY <2>1
  <2>2. CASE f # 0
    <3>1. d - r > 0 /\ f = DebtFromScaled(d - r, Index)
      BY <1>10, <2>2
    <3>2. d - r \in Nat
      BY <1>3, <1>8, <3>1
    <3> QED BY <1>3, <3>1, <3>2, DebtBounds
  <2> QED BY <2>1, <2>2
<1>12. Remaining(w, x) \in Int /\ scaledDebt[w] - Remaining(w, x) = r
  BY <1>3, <1>8, <1>9
<1> QED BY <1>6, <1>7, <1>8, <1>9, <1>11, <1>12 DEF p, f

\* What liquidate takes and gives, and that the debt it removes is worth at most
\* the repayment and the shortfall together.
LEMMA LiquidationBounds ==
    ASSUME IInv, NEW w \in Borrower, NEW x \in Nat, Liquidate(w, x)
    PROVE  /\ Repaid(w, x) \in Nat /\ Seized(w, x) \in Nat /\ Shortfall(w, x) \in Nat
           /\ \E s \in Nat : /\ ReduceDebt(w, s)
                             /\ s * Index <= (Repaid(w, x) + Shortfall(w, x)) * RAY
<1> DEFINE p == Repaid(w, x)
           f == Shortfall(w, x)
           d == scaledDebt[w]
           m == Remaining(w, x)
<1>1. CanLiquidate(w, x)
  BY DEF Liquidate
<1>2. d \in Nat /\ Index \in Nat
  BY Accrued DEF IInv, TypeOK
<1>3. p \in Nat /\ Seized(w, x) \in Nat /\ f \in Nat
  BY <1>1, LiquidationAmounts
<1>4. m \in Int /\ d - m \in Nat /\ (d - m) * Index <= p * RAY
  BY <1>1, LiquidationAmounts
<1>5. f > 0 => m > 0 /\ m * Index <= f * RAY
  BY <1>1, LiquidationAmounts
<1>6. ReduceDebt(w, d - (IF f > 0 THEN 0 ELSE m))
  BY DEF Liquidate
<1> HIDE DEF p, f, d, m
<1>7. CASE f > 0
  <2>1. ReduceDebt(w, d)
    BY <1>2, <1>6, <1>7
  <2>2. d * Index = (d - m) * Index + m * Index
    BY <1>2, <1>4
  <2>3. (p + f) * RAY = p * RAY + f * RAY
    BY <1>3, Units
  <2>4. /\ d * Index \in Nat /\ m * Index \in Int /\ (d - m) * Index \in Int
        /\ p * RAY \in Nat /\ f * RAY \in Nat
    BY <1>2, <1>3, <1>4, Units, MulNat
  <2>5. d * Index <= (p + f) * RAY
    BY <1>4, <1>5, <1>7, <2>2, <2>3, <2>4
  <2> QED BY <1>2, <1>3, <2>1, <2>5 DEF p, f
<1>8. CASE ~(f > 0)
  <2>1. ReduceDebt(w, d - m) /\ p + f = p
    BY <1>3, <1>6, <1>8
  <2> QED BY <1>3, <1>4, <2>1 DEF p, f
<1> QED BY <1>7, <1>8

\* liquidate: what the repayment does not make up for, the reserves or the lenders lose.
LEMMA LiquidateKeeps ==
    ASSUME IInv, NEW w \in Borrower, NEW x \in Nat, NEW t \in Tier, LiquidateAndReport(w, x, t)
    PROVE  IInv'
<1> DEFINE p == Repaid(w, x)
           f == Shortfall(w, x)
<1>1. /\ Liquidate(w, x) /\ Report(w, f) /\ now' = now /\ oracle' = oracle
      /\ effective' = [effective EXCEPT ![w] = t]
  BY DEF LiquidateAndReport
<1>2. PICK s \in Nat : ReduceDebt(w, s) /\ s * Index <= (p + f) * RAY
  BY <1>1, LiquidationBounds
<1>3. p \in Nat /\ f \in Nat /\ Seized(w, x) \in Nat
  BY <1>1, LiquidationBounds
<1>4. /\ borrowIndex' = Index /\ lastAccrual' = now /\ cash' = cash + p
      /\ reserves' = Reserves - FromReserves(f)
      /\ totalBadDebt' = totalBadDebt + f
      /\ totalReserveDrawn' = totalReserveDrawn + FromReserves(f)
      /\ totalSocializedLoss' = totalSocializedLoss + Socialized(f)
      /\ collateral' = [collateral EXCEPT ![w] = @ - Seized(w, x)]
      /\ totalCollateral' = totalCollateral - Seized(w, x)
      /\ Seized(w, x) <= collateral[w] /\ Seized(w, x) <= totalCollateral
      /\ UNCHANGED <<vault, admin, history>>
  BY <1>1 DEF Liquidate, StoreIndex, CanLiquidate
<1> HIDE DEF p, f
<1>5. /\ scaledDebt' \in [Borrower -> Nat] /\ tier' = tier /\ scaledDebtByTier' \in [Tier -> Nat]
      /\ totalScaledDebt' \in Nat /\ s <= totalScaledDebt
      /\ totalScaledDebt' = totalScaledDebt - s
  BY <1>2, ReduceDebtType
<1>6. /\ cash \in Nat /\ totalScaledDebt \in Nat /\ Index \in Nat /\ Index >= RAY
      /\ Reserves \in Nat /\ TotalDebt \in Nat /\ Reserves <= cash + TotalDebt /\ now \in Nat
  BY Accrued DEF IInv, TypeOK
<1>7. TotalDebt <= DebtFromScaled(totalScaledDebt', Index) + (p + f)
  <2> DEFINE v == p + f
  <2>1. v \in Nat /\ s * Index <= v * RAY
    BY <1>2, <1>3
  <2> HIDE DEF v
  <2>2. TotalDebt <= DebtFromScaled(totalScaledDebt', Index) + v
    BY <2>1, <1>5, <1>6, DebtReduced DEF TotalDebt
  <2> QED BY <2>2 DEF v
<1>8. DebtFromScaled(totalScaledDebt', Index) \in Nat
  BY <1>5, <1>6, DebtBounds
<1>9. FromReserves(f) \in Nat /\ Socialized(f) \in Nat /\ FromReserves(f) <= Reserves
      /\ (FromReserves(f) = f \/ FromReserves(f) = Reserves)
  BY <1>3, <1>6 DEF FromReserves, Socialized, Lesser
<1>10. reserves' \in Nat /\ reserves' <= cash' + DebtFromScaled(totalScaledDebt', Index)
  BY <1>3, <1>4, <1>6, <1>7, <1>8, <1>9
<1>11. Backed'
  BY <1>4, <1>10 DEF Backed, DebtFromScaled
<1>12. Solvent'
  BY <1>1, <1>4, <1>6, <1>11, Units DEF Solvent
<1>13. recorded' \in [Borrower -> [count : Nat, shortfall : Nat]]
  BY <1>1, <1>3 DEF Report, IInv, TypeOK
<1>14. collateral' \in [Borrower -> Nat] /\ totalCollateral' \in Nat /\ cash' \in Nat
  BY <1>3, <1>4, <1>6 DEF IInv, TypeOK
<1>15. totalBadDebt' \in Nat /\ totalReserveDrawn' \in Nat /\ totalSocializedLoss' \in Nat
  BY <1>3, <1>4, <1>9 DEF IInv, TypeOK
<1>16. effective' \in [Borrower -> Tier]
  BY <1>1 DEF IInv, TypeOK
<1>17. TypeOK'
  BY <1>1, <1>4, <1>5, <1>6, <1>10, <1>13, <1>14, <1>15, <1>16
  DEF IInv, TypeOK, vault, admin, history
<1> QED BY <1>12, <1>17 DEF IInv

----------------------------------------------------------------------------
(* Administration and environment. *)

\* setCaps, pause and unpause.
LEMMA AdminKeeps ==
    ASSUME IInv, UNCHANGED env,
           \/ \E cap \in CapInput, tierCaps \in TierCapInput : SetCaps(cap, tierCaps)
           \/ \E b \in BOOLEAN : SetPaused(b)
    PROVE  IInv'
<1>1. UNCHANGED <<pledge, debts, accrual, losses, vault, cash, history>>
  BY DEF SetCaps, SetPaused
<1>2. globalDebtCap' \in Nat /\ tierDebtCap' \in [Tier -> Nat] /\ paused' \in BOOLEAN
  BY Inputs DEF SetCaps, SetPaused, IInv, TypeOK
<1>3. TypeOK'
  BY <1>1, <1>2 DEF IInv, TypeOK, pledge, debts, accrual, losses, vault, history, env
<1>4. Solvent'
  BY <1>1 DEF IInv, Solvent, Backed, DebtFromScaled, debts, accrual, env
<1> QED BY <1>3, <1>4 DEF IInv

\* What happens around the market: prices, scores and time.
LEMMA EnvKeeps ==
    ASSUME IInv,
           \/ \E a \in Asset : \E p \in PriceInput[a] : SetPrice(a, p)
           \/ \E w \in Borrower, t \in TierInput : Rescore(w, t)
           \/ \E W \in SUBSET Borrower : Lapse(W)
           \/ \E W \in SUBSET Borrower : Tick(W)
    PROVE  IInv'
<1>1. UNCHANGED <<market, recorded>>
  BY DEF SetPrice, Rescore, Lapse, Tick
<1>2. now' \in Nat /\ now' >= now
  BY DEF SetPrice, Rescore, Lapse, Tick, IInv, TypeOK
<1>3. oracle' \in [Asset -> [price : Nat, updatedAt : Nat]]
  <2>1. ASSUME NEW a \in Asset, NEW p \in PriceInput[a], SetPrice(a, p)
        PROVE  oracle' \in [Asset -> [price : Nat, updatedAt : Nat]]
    <3>1. p \in Nat /\ now \in Nat
      BY Inputs DEF IInv, TypeOK
    <3>2. [price |-> p, updatedAt |-> now] \in [price : Nat, updatedAt : Nat]
      BY <3>1
    <3> QED BY <2>1, <3>2 DEF SetPrice, IInv, TypeOK
  <2>2. CASE UNCHANGED oracle
    BY <2>2 DEF IInv, TypeOK
  <2> QED BY <2>1, <2>2 DEF Rescore, Lapse, Tick
<1>4. effective' \in [Borrower -> Tier]
  <2>1. ASSUME NEW W \in SUBSET Borrower PROVE Lapsed(W) \in [Borrower -> Tier]
    BY DEF Lapsed, IInv, TypeOK, FLOOR, Tier
  <2>2. ASSUME NEW w \in Borrower, NEW t \in TierInput, Rescore(w, t)
        PROVE  effective' \in [Borrower -> Tier]
    <3>1. t \in Tier
      BY Inputs
    <3> QED BY <2>2, <3>1 DEF Rescore, IInv, TypeOK
  <2>3. CASE \E a \in Asset : \E p \in PriceInput[a] : SetPrice(a, p)
    BY <2>3 DEF SetPrice, IInv, TypeOK
  <2>4. CASE \E W \in SUBSET Borrower : Lapse(W)
    BY <2>1, <2>4 DEF Lapse
  <2>5. CASE \E W \in SUBSET Borrower : Tick(W)
    BY <2>1, <2>5 DEF Tick
  <2> QED BY <2>2, <2>3, <2>4, <2>5
<1>5. TypeOK'
  BY <1>1, <1>2, <1>3, <1>4
  DEF IInv, TypeOK, market, pledge, debts, accrual, losses, vault, admin, history
<1>6. Solvent'
  <2>1. /\ borrowIndex' = borrowIndex /\ lastAccrual' = lastAccrual /\ reserves' = reserves
        /\ cash' = cash /\ totalScaledDebt' = totalScaledDebt
    BY <1>1 DEF market, debts, accrual
  <2>2. Backed'
    BY <2>1 DEF IInv, Solvent, Backed, DebtFromScaled
  <2>3. lastAccrual' <= now' /\ borrowIndex' >= RAY
    BY <1>2, <2>1 DEF IInv, TypeOK, Solvent
  <2> QED BY <2>2, <2>3 DEF Solvent
<1> QED BY <1>5, <1>6 DEF IInv

----------------------------------------------------------------------------
(* The invariant and its consequences. *)

\* The constructor's state.
LEMMA InvInit == Init => IInv
<1> SUFFICES ASSUME Init PROVE IInv
  OBVIOUS
<1>1. TypeOK
  BY Inputs, Units DEF Init, TypeOK, Tier, FLOOR
<1>2. DebtFromScaled(totalScaledDebt, borrowIndex) \in Nat
  BY <1>1, DebtBounds DEF TypeOK
<1>3. Solvent
  BY <1>1, <1>2, Units DEF Init, TypeOK, Solvent, Backed
<1> QED BY <1>1, <1>3 DEF IInv

\* Every transaction, and every step of the environment, keeps the invariant.
LEMMA InvStep == IInv /\ [Next]_vars => IInv'
<1> SUFFICES ASSUME IInv, [Next]_vars PROVE IInv'
  OBVIOUS
<1>1. ASSUME NEW l \in Lender, NEW x \in AssetInput,
             Deposit(l, x) \/ Withdraw(l, x), UNCHANGED env
      PROVE  IInv'
  <2>1. x \in Nat
    BY Inputs
  <2> QED BY <1>1, <2>1, LenderKeeps
<1>2. ASSUME NEW l \in Lender, NEW x \in ShareInput, Mint(l, x) \/ Redeem(l, x), UNCHANGED env
      PROVE  IInv'
  <2>1. x \in Nat
    BY Inputs
  <2> QED BY <1>2, <2>1, LenderKeeps
<1>3. ASSUME NEW x \in Donation, Donate(x), UNCHANGED env PROVE IInv'
  <2>1. x \in Nat
    BY Inputs
  <2> QED BY <1>3, <2>1, DonateKeeps
<1>4. ASSUME NEW w \in Borrower, NEW x \in CollateralInput,
             DepositCollateral(w, x) \/ WithdrawCollateral(w, x), UNCHANGED env
      PROVE  IInv'
  <2>1. x \in Nat
    BY Inputs
  <2> QED BY <1>4, <2>1, DepositCollateralKeeps, WithdrawCollateralKeeps
<1>5. ASSUME NEW w \in Borrower, NEW x \in Amount, Borrow(w, x), UNCHANGED env PROVE IInv'
  <2>1. x \in Nat
    BY Inputs
  <2> QED BY <1>5, <2>1, BorrowKeeps
<1>6. ASSUME NEW w \in Borrower, NEW x \in RepayInput(w), Repay(w, x), UNCHANGED env PROVE IInv'
  <2>1. x \in Nat
    BY Inputs, ReductionBounds DEF RepayInput
  <2> QED BY <1>6, <2>1, RepayKeeps
<1>7. ASSUME NEW w \in Borrower, NEW x \in RepayInput(w), NEW t \in TierInput,
             LiquidateAndReport(w, x, t)
      PROVE  IInv'
  <2>1. x \in Nat /\ t \in Tier
    BY Inputs, ReductionBounds DEF RepayInput
  <2> QED BY <1>7, <2>1, LiquidateKeeps
<1>8. ASSUME \/ \E cap \in CapInput, tierCaps \in TierCapInput : SetCaps(cap, tierCaps)
             \/ \E b \in BOOLEAN : SetPaused(b),
             UNCHANGED env
      PROVE  IInv'
  BY <1>8, AdminKeeps
<1>9. CASE UNCHANGED vars
  <2>1. UNCHANGED <<market, now, oracle, effective, recorded>>
    BY <1>9 DEF vars, env
  <2> QED BY <2>1 DEF IInv, TypeOK, Solvent, Backed, DebtFromScaled,
                      market, pledge, debts, accrual, losses, vault, admin, history
<1> QED BY <1>1, <1>2, <1>3, <1>4, <1>5, <1>6, <1>7, <1>8, <1>9, EnvKeeps DEF Next

\* The market never reaches a state outside the invariant.
LEMMA Invariance == Spec => []IInv
<1> QED BY InvInit, InvStep, PTL DEF Spec

\* The market's variables keep their Solidity types whatever transactions arrive:
\* no subtraction of the code ever takes a counter below zero.
THEOREM TypeCorrect == Spec => []TypeOK
<1>1. IInv => TypeOK
  BY DEF IInv
<1> QED BY <1>1, Invariance, PTL

\* Every view of the market answers an amount, and so does every step of a liquidation:
\* nothing it computes goes below zero (_previewAccrual, debtOf, liquidate).
THEOREM AmountsAreSound == Spec => []AmountsOK
<1>1. ASSUME IInv PROVE AmountsOK
  <2>1. Index \in Nat /\ Index >= borrowIndex /\ Reserves \in Nat
    BY <1>1, Accrued
  <2>2. Interest \in Nat
    <3>1. TotalDebt \in Nat /\ DebtFromScaled(totalScaledDebt, borrowIndex) <= TotalDebt
      BY <1>1, Accrued
    <3>2. DebtFromScaled(totalScaledDebt, borrowIndex) \in Nat
      BY <1>1, DebtBounds DEF IInv, TypeOK
    <3> QED BY <3>1, <3>2 DEF Interest
  <2>3. ASSUME NEW w \in Borrower PROVE Debt(w) \in Nat /\ RepayInput(w) \subseteq Nat
    BY <1>1, Inputs, ReductionBounds DEF RepayInput
  <2>4. ASSUME NEW w \in Borrower, NEW x \in RepayInput(w), CanLiquidate(w, x)
        PROVE  Repaid(w, x) \in Nat /\ Seized(w, x) \in Nat /\ Shortfall(w, x) \in Nat
    <3>1. x \in Nat
      BY <2>3
    <3> QED BY <1>1, <2>4, <3>1, LiquidationAmounts
  <2> QED BY <2>1, <2>2, <2>3, <2>4 DEF AmountsOK
<1> QED BY <1>1, Invariance, PTL

\* The reserves are always covered by what the pool holds, before and after the
\* interest of the block, so totalAssets never underflows and no lender's exit
\* reverts for want of it: for every scale of the index and of shares, through
\* every rounding, reserve cut, loan, repayment, liquidation and loss.
THEOREM SolvencyOfReserves == Spec => []ReservesBacked
<1>1. IInv => ReservesBacked
  BY Accrued DEF IInv, Solvent, Backed, ReservesBacked
<1> QED BY <1>1, Invariance, PTL

----------------------------------------------------------------------------
(* No debt without collateral. *)

\* A debt that passes _enforceTerms is backed by collateral.
LEMMA TermsNeedCollateral ==
    ASSUME IInv, NEW coll \in Nat, NEW debt \in Nat \ {0}, NEW t \in Tier, NEW b,
           EnforceTerms(coll, debt, t, b)
    PROVE  coll > 0
<1> DEFINE pc == Price("coll")
           pd == Price("debt")
<1>1. pc \in Nat \ {0} /\ pd \in Nat \ {0} /\ MaxLtv[t] \in Nat
  BY PriceType, Inputs DEF EnforceTerms, Asset
<1> HIDE DEF pc, pd
<1>2. DebtValue(debt) \in Nat /\ DebtValue(debt) > 0
  <2>1. MulDivUp(debt, pd, WAD) \in Nat /\ debt * pd <= MulDivUp(debt, pd, WAD) * WAD
    BY <1>1, MulDivCeil, Units
  <2>2. debt * pd > 0
    BY <1>1
  <2>3. ASSUME MulDivUp(debt, pd, WAD) = 0 PROVE FALSE
    <3>1. debt * pd <= 0 * WAD
      BY <2>1, <2>3
    <3> QED BY <1>1, <2>2, <3>1, Units
  <2> QED BY <2>1, <2>3 DEF DebtValue, pd
<1>3. SUFFICES ASSUME coll = 0 PROVE FALSE
  OBVIOUS
<1>4. CollValue(coll) = 0
  <2>1. MulDiv(0, pc, WAD) \in Nat /\ MulDiv(0, pc, WAD) * WAD <= 0 * pc
    BY <1>1, MulDivFloor, Units
  <2>2. MulDiv(0, pc, WAD) = 0
    BY <1>1, <2>1, Units
  <2> QED BY <1>3, <2>2 DEF CollValue, pc
<1>5. DebtValue(debt) * BPS <= 0 * MaxLtv[t]
  BY <1>4 DEF EnforceTerms
<1> QED BY <1>1, <1>2, <1>5 DEF BPS

\* A position is in order when it has collateral or no debt.
Secured(w) == collateral[w] = 0 => scaledDebt[w] = 0

\* A wallet whose debt does not grow and whose collateral stays is as secured as before.
LEMMA SecuredStays ==
    ASSUME IInv, IInv', NEW w \in Borrower, Secured(w),
           scaledDebt'[w] <= scaledDebt[w], collateral'[w] >= collateral[w]
    PROVE  Secured(w)'
BY DEF IInv, TypeOK, Secured

\* What repay and liquidate do to the debts, wallet by wallet.
LEMMA ReduceDebtPointwise ==
    ASSUME IInv, NEW w \in Borrower, NEW s \in Nat, ReduceDebt(w, s), NEW v \in Borrower
    PROVE  scaledDebt'[v] <= scaledDebt[v] /\ (v # w => scaledDebt'[v] = scaledDebt[v])
BY DEF ReduceDebt, CanReduce, IInv, TypeOK

\* borrow enforces the terms on the debt it leaves, which is not zero.
LEMMA BorrowSecures ==
    ASSUME IInv, NEW w \in Borrower, NEW x \in Nat, Borrow(w, x)
    PROVE  collateral'[w] > 0
<1>1. /\ x > 0 /\ scaledDebt[w] \in Nat /\ collateral[w] \in Nat /\ effective[w] \in Tier
      /\ Index \in Nat \ {0} /\ collateral' = collateral
      /\ EnforceTerms(collateral[w], DebtFromScaled(scaledDebt[w] + ScaledUp(x), Index), effective[w],
                      DebtFromScaled(BucketsAfter(w, x)[effective[w]], Index))
  BY Accrued DEF Borrow, CanBorrow, IInv, TypeOK, pledge
<1>2. ScaledUp(x) \in Nat /\ x * RAY <= ScaledUp(x) * Index
  BY ScaledUpBounds
<1>3. ScaledUp(x) # 0
  <2>1. x * RAY > 0
    BY <1>1, Units
  <2>2. ASSUME ScaledUp(x) = 0 PROVE FALSE
    <3>1. x * RAY <= 0 * Index
      BY <1>2, <2>2
    <3>2. 0 * Index = 0
      BY <1>1
    <3> QED BY <2>1, <3>1, <3>2, Units
  <2> QED BY <2>2
<1>4. scaledDebt[w] + ScaledUp(x) \in Nat /\ scaledDebt[w] + ScaledUp(x) > 0
  BY <1>1, <1>2, <1>3
<1>5. DebtFromScaled(scaledDebt[w] + ScaledUp(x), Index) \in Nat \ {0}
  <2> DEFINE n == scaledDebt[w] + ScaledUp(x)
  <2>1. n \in Nat /\ n > 0 /\ Index \in Nat /\ Index > 0
    BY <1>1, <1>4
  <2> HIDE DEF n
  <2>2. DebtFromScaled(n, Index) \in Nat /\ DebtFromScaled(n, Index) > 0
    BY <2>1, DebtBounds
  <2> QED BY <2>2 DEF n
<1> QED BY <1>1, <1>5, TermsNeedCollateral

\* withdrawCollateral enforces the terms on what it leaves.
LEMMA WithdrawalSecures ==
    ASSUME IInv, NEW w \in Borrower, NEW x \in Nat, WithdrawCollateral(w, x), scaledDebt[w] > 0
    PROVE  collateral'[w] > 0
<1>1. /\ scaledDebt[w] \in Nat /\ collateral[w] \in Nat /\ effective[w] \in Tier
      /\ Index \in Nat \ {0} /\ x <= collateral[w] /\ collateral'[w] = collateral[w] - x
      /\ EnforceTerms(collateral[w] - x, Debt(w), effective[w],
                      DebtFromScaled(Rebucketed(w)[effective[w]], Index))
  BY Accrued DEF WithdrawCollateral, IInv, TypeOK
<1>2. Debt(w) \in Nat \ {0}
  BY <1>1, DebtBounds DEF Debt
<1>3. collateral[w] - x \in Nat
  BY <1>1
<1> QED BY <1>1, <1>2, <1>3, TermsNeedCollateral

\* liquidate realizes what is left of the debt when it takes the last collateral.
LEMMA LiquidationSecures ==
    ASSUME IInv, IInv', NEW w \in Borrower, NEW x \in Nat, Liquidate(w, x)
    PROVE  Secured(w)'
<1> DEFINE r == Remaining(w, x)
           f == Shortfall(w, x)
<1>1. /\ collateral[w] \in Nat /\ scaledDebt[w] \in Nat /\ scaledDebt'[w] \in Nat
      /\ Index \in Nat \ {0} /\ Seized(w, x) \in Nat
      /\ collateral'[w] = collateral[w] - Seized(w, x)
  <2>1. Seized(w, x) \in Nat
    BY LiquidationBounds
  <2>2. Index \in Nat \ {0}
    BY Accrued
  <2>3. collateral' = [collateral EXCEPT ![w] = @ - Seized(w, x)]
    BY DEF Liquidate
  <2> QED BY <2>1, <2>2, <2>3 DEF IInv, TypeOK
<1>2. ReduceDebt(w, scaledDebt[w] - (IF f > 0 THEN 0 ELSE r))
  BY DEF Liquidate
<1>3. r \in Int
  <2>1. Repaid(w, x) \in Nat
    BY LiquidationBounds
  <2>2. Reduction(w, Repaid(w, x)) \in Nat
    BY <2>1, ReductionBounds
  <2> QED BY <1>1, <2>2 DEF Remaining
<1>4. f = IF Seized(w, x) = collateral[w] /\ r > 0 THEN DebtFromScaled(r, Index) ELSE 0
  BY DEF Shortfall
<1> HIDE DEF r, f
<1>5. scaledDebt'[w] = IF f > 0 THEN 0 ELSE r
  BY <1>1, <1>2, <1>3 DEF ReduceDebt, IInv, TypeOK
<1>6. ASSUME collateral'[w] = 0 PROVE scaledDebt'[w] = 0
  <2>1. Seized(w, x) = collateral[w]
    BY <1>1, <1>6
  <2>2. CASE r > 0
    <3>1. r \in Nat
      BY <1>3, <2>2
    <3>2. f = DebtFromScaled(r, Index) /\ f \in Nat /\ f > 0
      BY <1>1, <1>4, <2>1, <2>2, <3>1, DebtBounds
    <3> QED BY <1>5, <3>2
  <2>3. CASE ~(r > 0)
    <3>1. f = 0
      BY <1>4, <2>3
    <3> QED BY <1>1, <1>3, <1>5, <2>3, <3>1
  <2> QED BY <2>2, <2>3
<1> QED BY <1>6 DEF Secured

\* No position ever holds debt without collateral (CONTRACTS.md invariant 9): the
\* last unit of collateral leaves a position only with the last unit of its debt.
THEOREM DebtIsSecured == Spec => []NoZombieDebt
<1>1. Init => NoZombieDebt
  BY DEF Init, NoZombieDebt
<1>2. IInv /\ IInv' /\ NoZombieDebt /\ [Next]_vars => NoZombieDebt'
  <2> SUFFICES ASSUME IInv, IInv', NoZombieDebt, [Next]_vars, NEW v \in Borrower
               PROVE  Secured(v)'
    BY DEF NoZombieDebt, Secured
  <2>1. Secured(v)
    BY DEF NoZombieDebt, Secured
  <2>2. /\ scaledDebt \in [Borrower -> Nat] /\ collateral \in [Borrower -> Nat]
        /\ scaledDebt' \in [Borrower -> Nat] /\ collateral' \in [Borrower -> Nat]
    BY DEF IInv, TypeOK
  <2>3. CASE UNCHANGED <<debts, pledge>>
    BY <2>1, <2>3 DEF debts, pledge, Secured
  <2>4. ASSUME NEW w \in Borrower, NEW x \in CollateralInput, DepositCollateral(w, x)
        PROVE  Secured(v)'
    <3>1. x \in Nat
      BY Inputs
    <3>2. scaledDebt'[v] <= scaledDebt[v] /\ collateral'[v] >= collateral[v]
      BY <2>2, <2>4, <3>1 DEF DepositCollateral, debts
    <3> QED BY <2>1, <3>2, SecuredStays
  <2>5. ASSUME NEW w \in Borrower, NEW x \in CollateralInput, WithdrawCollateral(w, x)
        PROVE  Secured(v)'
    <3>1. x \in Nat
      BY Inputs
    <3>2. scaledDebt' = scaledDebt /\ (v # w => collateral'[v] = collateral[v])
      BY <2>2, <2>5 DEF WithdrawCollateral, debts
    <3>3. CASE v = w /\ scaledDebt[w] > 0
      <4>1. collateral'[w] > 0
        BY <2>5, <3>1, <3>3, WithdrawalSecures
      <4> QED BY <2>2, <3>3, <4>1 DEF Secured
    <3>4. CASE v = w /\ ~(scaledDebt[w] > 0)
      BY <2>2, <3>2, <3>4 DEF Secured
    <3>5. CASE v # w
      BY <2>1, <3>2, <3>5 DEF Secured
    <3> QED BY <3>3, <3>4, <3>5
  <2>6. ASSUME NEW w \in Borrower, NEW x \in Amount, Borrow(w, x)
        PROVE  Secured(v)'
    <3>1. x \in Nat
      BY Inputs
    <3>2. collateral' = collateral /\ (v # w => scaledDebt'[v] = scaledDebt[v])
      BY <2>2, <2>6 DEF Borrow, pledge
    <3>3. CASE v = w
      <4>1. collateral'[w] > 0
        BY <2>6, <3>1, BorrowSecures
      <4> QED BY <2>2, <3>3, <4>1 DEF Secured
    <3>4. CASE v # w
      BY <2>1, <3>2, <3>4 DEF Secured
    <3> QED BY <3>3, <3>4
  <2>7. ASSUME NEW w \in Borrower, NEW x \in RepayInput(w), Repay(w, x)
        PROVE  Secured(v)'
    <3>1. x \in Nat
      BY Inputs, ReductionBounds DEF RepayInput
    <3>2. Reduction(w, x) \in Nat
      BY <3>1, ReductionBounds
    <3>3. scaledDebt'[v] <= scaledDebt[v] /\ collateral' = collateral
      BY <2>7, <3>2, ReduceDebtPointwise DEF Repay, pledge
    <3>4. collateral'[v] >= collateral[v]
      BY <2>2, <3>3
    <3> QED BY <2>1, <3>3, <3>4, SecuredStays
  <2>8. ASSUME NEW w \in Borrower, NEW x \in RepayInput(w), NEW t \in TierInput,
               LiquidateAndReport(w, x, t)
        PROVE  Secured(v)'
    <3>1. x \in Nat /\ Liquidate(w, x)
      BY <2>8, Inputs, ReductionBounds DEF RepayInput, LiquidateAndReport
    <3>2. CASE v = w
      BY <3>1, <3>2, LiquidationSecures
    <3>3. CASE v # w
      <4>1. PICK s \in Nat : ReduceDebt(w, s)
        BY <3>1, LiquidationBounds
      <4>2. scaledDebt'[v] = scaledDebt[v]
        BY <3>3, <4>1, ReduceDebtPointwise
      <4>3. collateral'[v] = collateral[v]
        BY <2>2, <3>1, <3>3 DEF Liquidate
      <4> QED BY <2>1, <4>2, <4>3 DEF Secured
    <3> QED BY <3>2, <3>3
  <2>9. (\/ \E w \in Borrower, x \in CollateralInput : DepositCollateral(w, x)
         \/ \E w \in Borrower, x \in CollateralInput : WithdrawCollateral(w, x)
         \/ \E w \in Borrower, x \in Amount : Borrow(w, x)
         \/ \E w \in Borrower : \E x \in RepayInput(w) : Repay(w, x)
         \/ \E w \in Borrower : \E x \in RepayInput(w), t \in TierInput : LiquidateAndReport(w, x, t)
         \/ UNCHANGED <<debts, pledge>>)
    BY DEF Next, Deposit, Mint, Enter, Withdraw, Redeem, Leave, Donate,
           SetCaps, SetPaused, SetPrice, Rescore, Lapse, Tick, market, vars
  <2> QED BY <2>3, <2>4, <2>5, <2>6, <2>7, <2>8, <2>9
<1> QED BY <1>1, <1>2, Invariance, PTL DEF Spec

----------------------------------------------------------------------------
(* Sums over the borrowers (Sums_proofs). *)

\* A sum is any one of its terms and the sum of the others.
LEMMA TotalAdd ==
    ASSUME NEW S, IsFiniteSet(S), NEW f, \A y \in S : f[y] \in Nat, NEW x \in S
    PROVE  /\ Total(f, S) = f[x] + Total(f, S \ {x})
           /\ Total(f, S \ {x}) \in Nat
BY SumAdd DEF Total

\* A sum of naturals is a natural.
LEMMA TotalType ==
    ASSUME NEW S, IsFiniteSet(S), NEW f, \A y \in S : f[y] \in Nat
    PROVE  Total(f, S) \in Nat
BY SumType DEF Total

\* A sum depends on its terms only.
LEMMA TotalSame ==
    ASSUME NEW S, IsFiniteSet(S), NEW f, NEW g, \A y \in S : f[y] \in Nat /\ f[y] = g[y]
    PROVE  Total(f, S) = Total(g, S)
BY SumSame DEF Total

\* A term is at most the sum.
LEMMA TotalAtLeast ==
    ASSUME NEW S, IsFiniteSet(S), NEW f, \A y \in S : f[y] \in Nat, NEW x \in S
    PROVE  Total(f, S) \in Nat /\ f[x] <= Total(f, S)
BY SumAtLeast DEF Total

\* A sum follows the change of one term.
LEMMA TotalChanged ==
    ASSUME NEW S, IsFiniteSet(S), NEW f \in [S -> Nat], NEW x \in S,
           NEW g \in [S -> Nat], \A y \in S : y # x => g[y] = f[y]
    PROVE  Total(g, S) + f[x] = Total(f, S) + g[x]
BY SumChanged DEF Total

\* There are finitely many borrowers, however many.
LEMMA Borrowers == IsFiniteSet(Borrower)
BY MarketAssumption

\* The debt of the positions in a tier.
Bucket(f, k, t) == Total(f, {w \in Borrower : k[w] = t})

\* The debt of a tier is a natural.
LEMMA BucketType ==
    ASSUME NEW f \in [Borrower -> Nat], NEW k \in [Borrower -> Tier], NEW t \in Tier
    PROVE  Bucket(f, k, t) \in Nat
<1> DEFINE S == {w \in Borrower : k[w] = t}
<1>1. IsFiniteSet(S) /\ \A y \in S : f[y] \in Nat
  BY FS_Subset, Borrowers
<1> HIDE DEF S
<1>2. Total(f, S) \in Nat
  BY <1>1, TotalType
<1> QED BY <1>2 DEF Bucket, S

\* Between f, k and g, j only x's debt and tier change.
OnlyMoves(x, f, k, g, j) ==
    /\ f \in [Borrower -> Nat] /\ g \in [Borrower -> Nat]
    /\ k \in [Borrower -> Tier] /\ j \in [Borrower -> Tier]
    /\ \A y \in Borrower : y # x => g[y] = f[y] /\ j[y] = k[y]

\* A position that changes its debt and its tier: the buckets follow.
LEMMA BucketChanged ==
    ASSUME NEW x \in Borrower, NEW f, NEW k, NEW g, NEW j, OnlyMoves(x, f, k, g, j), NEW t \in Tier
    PROVE  Bucket(g, j, t) + (IF k[x] = t THEN f[x] ELSE 0)
             = Bucket(f, k, t) + (IF j[x] = t THEN g[x] ELSE 0)
<1> DEFINE rest == {w \in Borrower \ {x} : k[w] = t}
           was == {w \in Borrower : k[w] = t}
           is == {w \in Borrower : j[w] = t}
<1>0. /\ f \in [Borrower -> Nat] /\ g \in [Borrower -> Nat]
      /\ k \in [Borrower -> Tier] /\ j \in [Borrower -> Tier]
      /\ \A y \in Borrower : y # x => g[y] = f[y] /\ j[y] = k[y]
  BY DEF OnlyMoves
<1>1. \A y \in rest : g[y] = f[y] /\ g[y] \in Nat
  BY <1>0
<1>2. IsFiniteSet(rest) /\ IsFiniteSet(was) /\ IsFiniteSet(is)
  BY FS_Subset, Borrowers
<1>3. (k[x] = t => x \in was /\ was \ {x} = rest) /\ (k[x] # t => was = rest)
  BY <1>0
<1>4. (j[x] = t => x \in is /\ is \ {x} = rest) /\ (j[x] # t => is = rest)
  BY <1>0
<1>5. (\A y \in was : f[y] \in Nat) /\ (\A y \in is : g[y] \in Nat) /\ (\A y \in rest : f[y] \in Nat)
  BY <1>0, <1>1
<1>6. Bucket(f, k, t) = Total(f, was) /\ Bucket(g, j, t) = Total(g, is)
  BY DEF Bucket
<1> HIDE DEF rest, was, is
<1>7. Total(g, rest) = Total(f, rest)
  BY <1>1, <1>2, TotalSame
<1>8. Total(f, rest) \in Nat
  BY <1>2, <1>5, TotalType
<1>9. Total(f, was) = Total(f, rest) + (IF k[x] = t THEN f[x] ELSE 0)
  BY <1>2, <1>3, <1>5, <1>8, TotalAdd
<1>10. Total(g, is) = Total(g, rest) + (IF j[x] = t THEN g[x] ELSE 0)
  <2>1. CASE j[x] = t
    <3>1. Total(g, is) = g[x] + Total(g, is \ {x})
      BY <1>2, <1>4, <1>5, <2>1, TotalAdd
    <3>2. Total(g, is) = g[x] + Total(g, rest)
      BY <1>1, <1>4, <2>1, <3>1
    <3> QED BY <1>0, <1>7, <1>8, <2>1, <3>2
  <2>2. CASE j[x] # t
    BY <1>4, <1>7, <1>8, <2>2
  <2> QED BY <2>1, <2>2
<1>11. f[x] \in Nat /\ g[x] \in Nat
  BY <1>0
<1> QED BY <1>6, <1>7, <1>8, <1>9, <1>10, <1>11

----------------------------------------------------------------------------
(* The totals. *)

\* mulDiv of zero is zero, rounded up as well.
LEMMA NothingRoundsToNothing ==
    ASSUME NEW b \in Nat, NEW c \in Nat \ {0}
    PROVE  MulDivUp(0, b, c) = 0
<1>1. 0 * b <= 0 * c
  OBVIOUS
<1>2. MulDivUp(0, b, c) <= 0 /\ MulDivUp(0, b, c) \in Nat
  BY <1>1, CeilLeast, MulDivCeil
<1> QED BY <1>2

\* The ways a step can change the books of the debt.
Shrinking == \E w \in Borrower, s \in Nat : ReduceDebt(w, s)

\* repay and liquidate take debt off; only a withdrawal of collateral and a loan do
\* anything else to it.
LEMMA DebtSteps ==
    ASSUME IInv, [Next]_vars
    PROVE  \/ UNCHANGED debts
           \/ Shrinking
           \/ \E w \in Borrower, x \in Nat : WithdrawCollateral(w, x)
           \/ \E w \in Borrower, x \in Nat : Borrow(w, x)
<1>1. ASSUME NEW w \in Borrower, NEW x \in RepayInput(w), Repay(w, x) PROVE Shrinking
  <2>1. x \in Nat
    BY Inputs, ReductionBounds DEF RepayInput
  <2>2. Reduction(w, x) \in Nat
    BY <2>1, ReductionBounds
  <2> QED BY <1>1, <2>2 DEF Repay, Shrinking
<1>2. ASSUME NEW w \in Borrower, NEW x \in RepayInput(w), NEW t \in TierInput,
             LiquidateAndReport(w, x, t)
      PROVE  Shrinking
  <2>1. x \in Nat /\ Liquidate(w, x)
    BY <1>2, Inputs, ReductionBounds DEF RepayInput, LiquidateAndReport
  <2> QED BY <2>1, LiquidationBounds DEF Shrinking
<1>3. (\/ \E w \in Borrower, x \in CollateralInput : WithdrawCollateral(w, x)
       \/ \E w \in Borrower, x \in Amount : Borrow(w, x)
       \/ \E w \in Borrower : \E x \in RepayInput(w) : Repay(w, x)
       \/ \E w \in Borrower : \E x \in RepayInput(w), t \in TierInput : LiquidateAndReport(w, x, t)
       \/ UNCHANGED debts)
  BY DEF Next, Deposit, Mint, Enter, Withdraw, Redeem, Leave, Donate, DepositCollateral,
         SetCaps, SetPaused, SetPrice, Rescore, Lapse, Tick, market, vars
<1> QED BY <1>1, <1>2, <1>3, Inputs

\* The totals are sums of what the positions hold.
SumOfDebt == totalScaledDebt = Total(scaledDebt, Borrower)
SumsOfBuckets == \A t \in Tier : scaledDebtByTier[t] = Bucket(scaledDebt, tier, t)
SumOfCollateral == totalCollateral = Total(collateral, Borrower)

\* _reduceDebt takes the same off the position, the total and its bucket.
LEMMA ReduceDebtKeepsSums ==
    ASSUME IInv, SumOfDebt, SumsOfBuckets, NEW w \in Borrower, NEW s \in Nat, ReduceDebt(w, s)
    PROVE  SumOfDebt' /\ SumsOfBuckets'
<1> DEFINE v == scaledDebt[w] - s
<1>1. /\ scaledDebt \in [Borrower -> Nat] /\ tier \in [Borrower -> Tier] /\ scaledDebtByTier \in [Tier -> Nat]
      /\ tier[w] \in Tier /\ scaledDebt[w] \in Nat /\ totalScaledDebt \in Nat
  BY DEF IInv, TypeOK
<1>2. /\ s <= scaledDebt[w] /\ scaledDebt' = [scaledDebt EXCEPT ![w] = v] /\ tier' = tier
      /\ totalScaledDebt' = totalScaledDebt - s
      /\ scaledDebtByTier' = [scaledDebtByTier EXCEPT ![tier[w]] = @ - s]
  BY DEF ReduceDebt, CanReduce
<1>3. v \in Nat /\ v + s = scaledDebt[w]
  BY <1>1, <1>2
<1> HIDE DEF v
<1>0. /\ scaledDebt' \in [Borrower -> Nat] /\ scaledDebt'[w] = v
      /\ \A y \in Borrower : y # w => scaledDebt'[y] = scaledDebt[y]
  BY <1>1, <1>2, <1>3
<1>4. Total(scaledDebt', Borrower) + scaledDebt[w] = Total(scaledDebt, Borrower) + v
  BY <1>0, <1>1, TotalChanged, Borrowers
<1>5. Total(scaledDebt, Borrower) \in Nat /\ Total(scaledDebt', Borrower) \in Nat
  <2>1. scaledDebt' \in [Borrower -> Nat]
    BY <1>1, <1>2, <1>3
  <2> QED BY <1>1, <2>1, TotalType, Borrowers
<1>6. SumOfDebt'
  BY <1>1, <1>2, <1>3, <1>4, <1>5 DEF SumOfDebt
<1>7. ASSUME NEW t \in Tier PROVE scaledDebtByTier'[t] = Bucket(scaledDebt', tier', t)
  <2>2. Bucket(scaledDebt', tier', t) + (IF tier[w] = t THEN scaledDebt[w] ELSE 0)
          = Bucket(scaledDebt, tier, t) + (IF tier[w] = t THEN v ELSE 0)
    <3> DEFINE g == scaledDebt'
    <3>1. OnlyMoves(w, scaledDebt, tier, g, tier) /\ g[w] = v
      BY <1>0, <1>1 DEF OnlyMoves
    <3> HIDE DEF g
    <3>2. Bucket(g, tier, t) + (IF tier[w] = t THEN scaledDebt[w] ELSE 0)
            = Bucket(scaledDebt, tier, t) + (IF tier[w] = t THEN g[w] ELSE 0)
      BY <1>1, <3>1, BucketChanged
    <3> QED BY <1>2, <3>1, <3>2 DEF g
  <2>3. Bucket(scaledDebt, tier, t) \in Nat /\ Bucket(scaledDebt', tier', t) \in Nat
    BY <1>0, <1>1, <1>2, BucketType
  <2>4. scaledDebtByTier[t] = Bucket(scaledDebt, tier, t)
    BY DEF SumsOfBuckets
  <2>5. scaledDebtByTier'[t] = IF t = tier[w] THEN scaledDebtByTier[t] - s ELSE scaledDebtByTier[t]
    BY <1>1, <1>2
  <2> QED BY <1>1, <1>3, <2>2, <2>3, <2>4, <2>5
<1> QED BY <1>6, <1>7 DEF SumsOfBuckets

\* _retier moves the position's debt to its new bucket; a loan is added there.
LEMMA RebucketedSums ==
    ASSUME IInv, SumsOfBuckets, NEW w \in Borrower, NEW t \in Tier,
           NEW debt \in [Borrower -> Nat], NEW terms \in [Borrower -> Tier],
           debt[w] >= scaledDebt[w], terms[w] = effective[w],
           \A y \in Borrower : y # w => debt[y] = scaledDebt[y] /\ terms[y] = tier[y]
    PROVE  Bucket(debt, terms, t) = IF t = effective[w] THEN Rebucketed(w)[t] + (debt[w] - scaledDebt[w])
                                                        ELSE Rebucketed(w)[t]
<1> DEFINE new == Bucket(debt, terms, t)
           old == scaledDebtByTier[t]
<1>1. /\ scaledDebt \in [Borrower -> Nat] /\ tier \in [Borrower -> Tier] /\ scaledDebtByTier \in [Tier -> Nat]
      /\ tier[w] \in Tier /\ scaledDebt[w] \in Nat /\ effective[w] \in Tier
  BY DEF IInv, TypeOK
<1>2. old = Bucket(scaledDebt, tier, t)
  BY DEF SumsOfBuckets
<1>3. /\ new + (IF tier[w] = t THEN scaledDebt[w] ELSE 0)
           = old + (IF effective[w] = t THEN debt[w] ELSE 0)
      /\ old \in Nat
  <2>1. OnlyMoves(w, scaledDebt, tier, debt, terms)
    BY <1>1 DEF OnlyMoves
  <2>2. Bucket(debt, terms, t) + (IF tier[w] = t THEN scaledDebt[w] ELSE 0)
          = Bucket(scaledDebt, tier, t) + (IF terms[w] = t THEN debt[w] ELSE 0)
    BY <2>1, BucketChanged
  <2> QED BY <1>1, <1>2, <2>2
<1>4. new \in Nat
  BY BucketType
<1>5. Rebucketed(w)[t] = IF effective[w] = tier[w] THEN old
                         ELSE IF t = tier[w] THEN old - scaledDebt[w]
                         ELSE IF t = effective[w] THEN old + scaledDebt[w] ELSE old
  BY <1>1 DEF Rebucketed
<1> HIDE DEF new, old
<1>6. new = IF t = effective[w] THEN Rebucketed(w)[t] + (debt[w] - scaledDebt[w]) ELSE Rebucketed(w)[t]
  <2>1. debt[w] \in Nat
    OBVIOUS
  <2> QED BY <2>1, <1>1, <1>3, <1>4, <1>5
<1> QED BY <1>6 DEF new

\* borrow adds the same to the position, the total and its new bucket.
LEMMA BorrowKeepsSums ==
    ASSUME IInv, SumOfDebt, SumsOfBuckets, NEW w \in Borrower, NEW x \in Nat, Borrow(w, x)
    PROVE  SumOfDebt' /\ SumsOfBuckets'
<1> DEFINE s == ScaledUp(x)
<1>1. /\ scaledDebt \in [Borrower -> Nat] /\ scaledDebt[w] \in Nat /\ totalScaledDebt \in Nat /\ s \in Nat
      /\ tier \in [Borrower -> Tier] /\ effective[w] \in Tier
  BY ScaledUpBounds DEF IInv, TypeOK
<1>2. /\ scaledDebt' = [scaledDebt EXCEPT ![w] = @ + s] /\ tier' = [tier EXCEPT ![w] = effective[w]]
      /\ totalScaledDebt' = totalScaledDebt + s
      /\ scaledDebtByTier' = [Rebucketed(w) EXCEPT ![effective[w]] = @ + s]
  BY DEF Borrow, BucketsAfter
<1> HIDE DEF s
<1>3. /\ scaledDebt' \in [Borrower -> Nat] /\ scaledDebt'[w] = scaledDebt[w] + s
      /\ tier' \in [Borrower -> Tier] /\ tier'[w] = effective[w]
      /\ \A y \in Borrower : y # w => scaledDebt'[y] = scaledDebt[y] /\ tier'[y] = tier[y]
  BY <1>1, <1>2
<1>4. Total(scaledDebt', Borrower) + scaledDebt[w] = Total(scaledDebt, Borrower) + (scaledDebt[w] + s)
  BY <1>1, <1>3, TotalChanged, Borrowers
<1>5. Total(scaledDebt, Borrower) \in Nat /\ Total(scaledDebt', Borrower) \in Nat
  BY <1>1, <1>3, TotalType, Borrowers
<1>6. SumOfDebt'
  BY <1>1, <1>2, <1>4, <1>5 DEF SumOfDebt
<1>7. SumsOfBuckets'
  <2> SUFFICES ASSUME NEW t \in Tier PROVE scaledDebtByTier'[t] = Bucket(scaledDebt', tier', t)
    BY DEF SumsOfBuckets
  <2>1. Bucket(scaledDebt', tier', t) = IF t = effective[w] THEN Rebucketed(w)[t] + s ELSE Rebucketed(w)[t]
    <3> DEFINE debt == scaledDebt'  terms == tier'
    <3>1. /\ debt \in [Borrower -> Nat] /\ terms \in [Borrower -> Tier]
          /\ debt[w] = scaledDebt[w] + s /\ debt[w] >= scaledDebt[w] /\ terms[w] = effective[w]
          /\ \A y \in Borrower : y # w => debt[y] = scaledDebt[y] /\ terms[y] = tier[y]
      BY <1>1, <1>3
    <3> HIDE DEF debt, terms
    <3>2. Bucket(debt, terms, t) = IF t = effective[w] THEN Rebucketed(w)[t] + (debt[w] - scaledDebt[w])
                                                       ELSE Rebucketed(w)[t]
      BY <3>1, RebucketedSums
    <3>3. debt[w] - scaledDebt[w] = s
      BY <1>1, <3>1
    <3> QED BY <3>2, <3>3 DEF debt, terms
  <2>2. Rebucketed(w) \in [Tier -> Int]
    BY RebucketedIntegers
  <2> QED BY <1>1, <1>2, <2>1, <2>2
<1> QED BY <1>6, <1>7

\* withdrawCollateral moves the debt to its new bucket, or leaves it alone.
LEMMA WithdrawalKeepsSums ==
    ASSUME IInv, SumOfDebt, SumsOfBuckets, NEW w \in Borrower, NEW x \in Nat, WithdrawCollateral(w, x)
    PROVE  SumOfDebt' /\ SumsOfBuckets'
<1>1. CASE UNCHANGED debts
  BY <1>1 DEF debts, SumOfDebt, SumsOfBuckets
<1>2. CASE ~UNCHANGED debts
  <2>1. /\ tier' = [tier EXCEPT ![w] = effective[w]] /\ scaledDebtByTier' = Rebucketed(w)
        /\ UNCHANGED <<scaledDebt, totalScaledDebt>>
    BY <1>2 DEF WithdrawCollateral
  <2>2. /\ scaledDebt \in [Borrower -> Nat] /\ scaledDebt[w] \in Nat /\ scaledDebt[w] >= scaledDebt[w] /\ effective[w] \in Tier
        /\ tier' \in [Borrower -> Tier] /\ tier'[w] = effective[w]
        /\ \A y \in Borrower : y # w => tier'[y] = tier[y]
    BY <2>1 DEF IInv, TypeOK
  <2>3. Rebucketed(w) \in [Tier -> Int]
    BY RebucketedIntegers
  <2>4. SumsOfBuckets'
    <3> SUFFICES ASSUME NEW t \in Tier PROVE Rebucketed(w)[t] = Bucket(scaledDebt, tier', t)
      BY <2>1 DEF SumsOfBuckets
    <3>1. Bucket(scaledDebt, tier', t) = IF t = effective[w] THEN Rebucketed(w)[t] + (scaledDebt[w] - scaledDebt[w]) ELSE Rebucketed(w)[t]
      BY <2>2, RebucketedSums
    <3> QED BY <2>2, <2>3, <3>1
  <2> QED BY <2>1, <2>4 DEF SumOfDebt
<1> QED BY <1>1, <1>2

\* Collateral moves with its total.
LEMMA CollateralKeepsSum ==
    ASSUME IInv, SumOfCollateral, NEW w \in Borrower, NEW v \in Nat,
           collateral' = [collateral EXCEPT ![w] = v],
           totalCollateral' = totalCollateral + v - collateral[w]
    PROVE  SumOfCollateral'
<1>1. collateral \in [Borrower -> Nat] /\ collateral[w] \in Nat /\ totalCollateral \in Nat
  BY DEF IInv, TypeOK
<1>3. /\ collateral' \in [Borrower -> Nat] /\ collateral'[w] = v
      /\ \A y \in Borrower : y # w => collateral'[y] = collateral[y]
  BY <1>1
<1>2. Total(collateral', Borrower) + collateral[w] = Total(collateral, Borrower) + v
  BY <1>1, <1>3, TotalChanged, Borrowers
<1>4. Total(collateral', Borrower) \in Nat
  BY <1>3, TotalType, Borrowers
<1> QED BY <1>1, <1>2, <1>4 DEF SumOfCollateral

\* A step changes the collateral of one borrower at most, and the total with it.
LEMMA CollateralSteps ==
    ASSUME IInv, [Next]_vars
    PROVE  \/ UNCHANGED pledge
           \/ \E w \in Borrower, v \in Nat :
                /\ collateral' = [collateral EXCEPT ![w] = v]
                /\ totalCollateral' = totalCollateral + v - collateral[w]
<1> DEFINE Goal == \E w \in Borrower, v \in Nat :
                     /\ collateral' = [collateral EXCEPT ![w] = v]
                     /\ totalCollateral' = totalCollateral + v - collateral[w]
<1>1. /\ collateral \in [Borrower -> Nat] /\ totalCollateral \in Nat
      /\ \A w \in Borrower : collateral[w] \in Nat
  BY DEF IInv, TypeOK
<1>2. ASSUME NEW w \in Borrower, NEW x \in Nat,
             collateral' = [collateral EXCEPT ![w] = @ + x], totalCollateral' = totalCollateral + x
      PROVE  Goal
  <2> DEFINE v == collateral[w] + x
  <2>1. v \in Nat /\ totalCollateral' = totalCollateral + v - collateral[w]
    BY <1>1, <1>2
  <2>2. collateral' = [collateral EXCEPT ![w] = v]
    BY <1>2
  <2> QED BY <2>1, <2>2
<1>3. ASSUME NEW w \in Borrower, NEW x \in Nat, x <= collateral[w],
             collateral' = [collateral EXCEPT ![w] = @ - x], totalCollateral' = totalCollateral - x
      PROVE  Goal
  <2> DEFINE v == collateral[w] - x
  <2>1. v \in Nat /\ totalCollateral' = totalCollateral + v - collateral[w]
    BY <1>1, <1>3
  <2>2. collateral' = [collateral EXCEPT ![w] = v]
    BY <1>3
  <2> QED BY <2>1, <2>2
<1> HIDE DEF Goal
<1>4. ASSUME NEW w \in Borrower, NEW x \in CollateralInput, DepositCollateral(w, x) PROVE Goal
  <2>1. x \in Nat
    BY Inputs
  <2> QED BY <1>2, <1>4, <2>1 DEF DepositCollateral
<1>5. ASSUME NEW w \in Borrower, NEW x \in CollateralInput, WithdrawCollateral(w, x) PROVE Goal
  <2>1. x \in Nat
    BY Inputs
  <2> QED BY <1>3, <1>5, <2>1 DEF WithdrawCollateral
<1>6. ASSUME NEW w \in Borrower, NEW x \in RepayInput(w), NEW t \in TierInput,
             LiquidateAndReport(w, x, t)
      PROVE  Goal
  <2>1. x \in Nat /\ Liquidate(w, x)
    BY <1>6, Inputs, ReductionBounds DEF RepayInput, LiquidateAndReport
  <2>2. Seized(w, x) \in Nat
    BY <2>1, LiquidationBounds
  <2>3. /\ Seized(w, x) <= collateral[w]
        /\ collateral' = [collateral EXCEPT ![w] = @ - Seized(w, x)]
        /\ totalCollateral' = totalCollateral - Seized(w, x)
    BY <2>1 DEF Liquidate, CanLiquidate
  <2> QED BY <1>3, <2>2, <2>3
<1>7. (\/ \E w \in Borrower, x \in CollateralInput : DepositCollateral(w, x) \/ WithdrawCollateral(w, x)
       \/ \E w \in Borrower : \E x \in RepayInput(w), t \in TierInput : LiquidateAndReport(w, x, t)
       \/ UNCHANGED pledge)
  BY DEF Next, Deposit, Mint, Enter, Withdraw, Redeem, Leave, Donate, Borrow, Repay,
         SetCaps, SetPaused, SetPrice, Rescore, Lapse, Tick, market, vars
<1> QED BY <1>4, <1>5, <1>6, <1>7 DEF Goal

\* The sums over nobody's debt.
LEMMA SumsOfZero ==
    ASSUME NEW S \in SUBSET Borrower
    PROVE  Total([w \in Borrower |-> 0], S) = 0
<1> DEFINE f == [w \in Borrower |-> 0]
<1>1. IsFiniteSet(S) /\ \A y \in S : f[y] = 0
  BY FS_Subset, Borrowers
<1> HIDE DEF f
<1>2. Total(f, S) = 0
  BY <1>1, SumZero DEF Total
<1> QED BY <1>2 DEF f

\* The totals and the tier buckets are the sums of the positions, for any number
\* of borrowers: the checked subtractions of _reduceDebt, _retier, withdrawCollateral
\* and liquidate never revert for want of total.
THEOREM TotalsAreTheSums == Spec => []TotalsAreSums
<1>1. Init => TotalsAreSums
  <2> SUFFICES ASSUME Init PROVE TotalsAreSums
    OBVIOUS
  <2>1. /\ scaledDebt = [w \in Borrower |-> 0] /\ totalScaledDebt = 0
        /\ collateral = [w \in Borrower |-> 0] /\ totalCollateral = 0
        /\ \A t \in Tier : scaledDebtByTier[t] = 0
    BY DEF Init
  <2>2. \A t \in Tier : {w \in Borrower : tier[w] = t} \in SUBSET Borrower
    OBVIOUS
  <2>3. Total([w \in Borrower |-> 0], Borrower) = 0
    BY SumsOfZero
  <2>4. ASSUME NEW t \in Tier PROVE Total([w \in Borrower |-> 0], {w \in Borrower : tier[w] = t}) = 0
    BY <2>2, SumsOfZero
  <2> QED BY <2>1, <2>3, <2>4 DEF TotalsAreSums
<1>2. IInv /\ TotalsAreSums /\ [Next]_vars => TotalsAreSums'
  <2> SUFFICES ASSUME IInv, SumOfDebt, SumsOfBuckets, SumOfCollateral, [Next]_vars
               PROVE  SumOfDebt' /\ SumsOfBuckets' /\ SumOfCollateral'
    BY DEF TotalsAreSums, SumOfDebt, SumsOfBuckets, SumOfCollateral, Bucket
  <2>1. SumOfCollateral'
    <3>1. CASE UNCHANGED pledge
      BY <3>1 DEF pledge, SumOfCollateral
    <3>2. CASE ~UNCHANGED pledge
      BY <3>2, CollateralSteps, CollateralKeepsSum
    <3> QED BY <3>1, <3>2
  <2>2. SumOfDebt' /\ SumsOfBuckets'
    <3>1. CASE UNCHANGED debts
      BY <3>1 DEF debts, SumOfDebt, SumsOfBuckets
    <3>2. CASE Shrinking
      BY <3>2, ReduceDebtKeepsSums DEF Shrinking
    <3>3. ASSUME NEW w \in Borrower, NEW x \in Nat, WithdrawCollateral(w, x)
          PROVE  SumOfDebt' /\ SumsOfBuckets'
      BY <3>3, WithdrawalKeepsSums
    <3>4. ASSUME NEW w \in Borrower, NEW x \in Nat, Borrow(w, x)
          PROVE  SumOfDebt' /\ SumsOfBuckets'
      BY <3>4, BorrowKeepsSums
    <3> QED BY <3>1, <3>2, <3>3, <3>4, DebtSteps
  <2> QED BY <2>1, <2>2
<1> QED BY <1>1, <1>2, Invariance, PTL DEF Spec

\* What liquidations reported against each wallet.
Shortfalls == [w \in Borrower |-> recorded[w].shortfall]

\* The bad debt is split between the reserves and the lenders without remainder.
LEMMA LossIsSplit ==
    ASSUME IInv, NEW x \in Nat
    PROVE  FromReserves(x) \in Nat /\ Socialized(x) \in Nat /\ FromReserves(x) + Socialized(x) = x
BY Accrued DEF FromReserves, Socialized, Lesser

\* recordLiquidation adds to the shortfalls of one wallet.
LEMMA ReportAdds ==
    ASSUME TypeOK, NEW w \in Borrower, NEW x \in Nat, Report(w, x)
    PROVE  /\ Shortfalls \in [Borrower -> Nat] /\ Shortfalls' \in [Borrower -> Nat]
           /\ Shortfalls'[w] = Shortfalls[w] + x
           /\ \A y \in Borrower : y # w => Shortfalls'[y] = Shortfalls[y]
<1>1. \A y \in Borrower : recorded[y].shortfall \in Nat
  BY DEF TypeOK
<1>2. recorded'[w].shortfall = recorded[w].shortfall + x
  BY DEF Report, TypeOK
<1>3. \A y \in Borrower : y # w => recorded'[y] = recorded[y]
  BY DEF Report, TypeOK
<1> QED BY <1>1, <1>2, <1>3 DEF Shortfalls

\* liquidate books a loss on both sides.
LEMMA LossBooked ==
    ASSUME IInv, LossesAreBooked, NEW w \in Borrower, NEW x \in Nat, NEW t \in TierInput,
           LiquidateAndReport(w, x, t)
    PROVE  LossesAreBooked'
<1> DEFINE f == Shortfall(w, x)
           reported == Shortfalls
           then == Shortfalls'
<1>1. f \in Nat
  BY LiquidationBounds DEF LiquidateAndReport
<1>2. /\ totalBadDebt' = totalBadDebt + f
      /\ totalReserveDrawn' = totalReserveDrawn + FromReserves(f)
      /\ totalSocializedLoss' = totalSocializedLoss + Socialized(f)
      /\ Report(w, f)
  BY DEF LiquidateAndReport, Liquidate
<1>3. totalBadDebt \in Nat /\ totalReserveDrawn \in Nat /\ totalSocializedLoss \in Nat
  BY DEF IInv, TypeOK
<1> HIDE DEF f
<1>4. FromReserves(f) \in Nat /\ Socialized(f) \in Nat /\ FromReserves(f) + Socialized(f) = f
  BY <1>1, LossIsSplit
<1>5. totalBadDebt' = totalReserveDrawn' + totalSocializedLoss'
  BY <1>1, <1>2, <1>3, <1>4 DEF LossesAreBooked
<1>6. /\ reported \in [Borrower -> Nat] /\ then \in [Borrower -> Nat]
      /\ then[w] = reported[w] + f
      /\ \A y \in Borrower : y # w => then[y] = reported[y]
  BY <1>1, <1>2, ReportAdds DEF IInv
<1> HIDE DEF reported, then
<1>7. Total(then, Borrower) + reported[w] = Total(reported, Borrower) + then[w]
  BY <1>6, TotalChanged, Borrowers
<1>8. Total(then, Borrower) \in Nat /\ Total(reported, Borrower) \in Nat /\ reported[w] \in Nat
  BY <1>6, TotalType, Borrowers
<1>9. totalBadDebt = Total(reported, Borrower)
  BY DEF LossesAreBooked, reported, Shortfalls
<1>10. totalBadDebt' = Total(then, Borrower)
  BY <1>1, <1>2, <1>3, <1>6, <1>7, <1>8, <1>9
<1> QED BY <1>5, <1>10 DEF LossesAreBooked, then, Shortfalls

\* Every loss is on the books twice over, for any number of borrowers and of
\* liquidations: split without remainder between the reserves and the lenders, and
\* reported to the registry against the wallets it came from.
THEOREM LossesBooked == Spec => []LossesAreBooked
<1>1. Init => LossesAreBooked
  <2> SUFFICES ASSUME Init PROVE LossesAreBooked
    OBVIOUS
  <2>1. [w \in Borrower |-> recorded[w].shortfall] = [w \in Borrower |-> 0]
    BY DEF Init
  <2>2. Total([w \in Borrower |-> 0], Borrower) = 0
    BY SumsOfZero
  <2> QED BY <2>1, <2>2 DEF Init, LossesAreBooked
<1>2. IInv /\ LossesAreBooked /\ [Next]_vars => LossesAreBooked'
  <2> SUFFICES ASSUME IInv, LossesAreBooked, [Next]_vars PROVE LossesAreBooked'
    OBVIOUS
  <2>1. CASE UNCHANGED <<losses, recorded>>
    BY <2>1 DEF losses, LossesAreBooked
  <2>2. ASSUME NEW w \in Borrower, NEW x \in RepayInput(w), NEW t \in TierInput,
               LiquidateAndReport(w, x, t)
        PROVE  LossesAreBooked'
    <3>1. x \in Nat
      BY Inputs, ReductionBounds DEF RepayInput
    <3> QED BY <2>2, <3>1, LossBooked
  <2>3. (\/ \E w \in Borrower : \E x \in RepayInput(w), t \in TierInput : LiquidateAndReport(w, x, t)
         \/ UNCHANGED <<losses, recorded>>)
    BY DEF Next, Deposit, Mint, Enter, Withdraw, Redeem, Leave, Donate, DepositCollateral,
           WithdrawCollateral, Borrow, Repay, SetCaps, SetPaused, SetPrice, Rescore, Lapse, Tick,
           market, env, vars
  <2> QED BY <2>1, <2>2, <2>3
<1> QED BY <1>1, <1>2, Invariance, PTL DEF Spec

----------------------------------------------------------------------------
(* Exits, and what maxBorrow answers. *)

\* A position's debt is part of the total and of its bucket.
LEMMA DebtIsPart ==
    ASSUME IInv, TotalsAreSums, NEW w \in Borrower
    PROVE  scaledDebt[w] <= totalScaledDebt /\ scaledDebt[w] <= scaledDebtByTier[tier[w]]
<1> DEFINE S == {v \in Borrower : tier[v] = tier[w]}
<1>1. IsFiniteSet(S) /\ IsFiniteSet(Borrower) /\ w \in S
  BY FS_Subset, Borrowers
<1>2. (\A v \in Borrower : scaledDebt[v] \in Nat) /\ (\A v \in S : scaledDebt[v] \in Nat) /\ tier[w] \in Tier
  BY DEF IInv, TypeOK
<1>3. totalScaledDebt = Total(scaledDebt, Borrower) /\ scaledDebtByTier[tier[w]] = Total(scaledDebt, S)
  BY <1>2 DEF TotalsAreSums
<1> HIDE DEF S
<1> QED BY <1>1, <1>2, <1>3, TotalAtLeast

\* _retier never reverts.
LEMMA RetierNeverReverts ==
    ASSUME IInv, TotalsAreSums, NEW w \in Borrower
    PROVE  CanRetier(w)
BY DebtIsPart DEF CanRetier

\* Neither does _reduceDebt, for a repayment in full.
LEMMA FullRepaymentFits ==
    ASSUME IInv, TotalsAreSums, NEW w \in Borrower, Debt(w) > 0
    PROVE  Reduction(w, Debt(w)) > 0 /\ CanReduce(w, Reduction(w, Debt(w)))
<1>1. Debt(w) \in Nat /\ scaledDebt[w] \in Nat /\ Index \in Nat
  BY ReductionBounds, Accrued DEF IInv, TypeOK
<1>2. Reduction(w, Debt(w)) = scaledDebt[w]
  BY <1>1 DEF Reduction
<1>3. scaledDebt[w] > 0
  <2>1. MulDivUp(0, Index, RAY) = 0
    BY <1>1, NothingRoundsToNothing, Units
  <2> QED BY <1>1, <2>1 DEF Debt, DebtFromScaled
<1> QED BY <1>1, <1>2, <1>3, DebtIsPart DEF CanReduce

\* What maxWithdraw answers costs no more shares than the lender has.
LEMMA MaxWithdrawFits ==
    ASSUME IInv, NEW l \in Lender
    PROVE  ToSharesUp(MaxWithdraw(l)) <= shares[l]
<1> DEFINE m == MaxWithdraw(l)
           supply == totalSupply + VIRTUAL_SHARES
           assets == TotalAssets + 1
<1>1. shares[l] \in Nat /\ cash \in Nat /\ totalSupply \in Nat
  BY DEF IInv, TypeOK
<1>2. supply \in Nat \ {0} /\ assets \in Nat \ {0}
  BY <1>1, Units, TotalAssetsType
<1>3. ToAssets(shares[l]) \in Nat /\ ToAssets(shares[l]) * supply <= shares[l] * assets
  BY <1>1, Conversions
<1>4. m \in Nat /\ m <= ToAssets(shares[l])
  BY <1>1, <1>3 DEF MaxWithdraw, Lesser
<1> HIDE DEF m, supply, assets
<1>5. m * supply <= shares[l] * assets
  <2>1. m * supply <= ToAssets(shares[l]) * supply
    BY <1>2, <1>3, <1>4
  <2> QED BY <1>1, <1>2, <1>3, <1>4, <2>1, MulNat
<1>6. MulDivUp(m, supply, assets) <= shares[l]
  BY <1>1, <1>2, <1>4, <1>5, CeilLeast
<1> QED BY <1>6 DEF ToSharesUp, m, supply, assets

\* What maxRedeem answers is worth no more than the cash of the pool.
LEMMA MaxRedeemFits ==
    ASSUME IInv, NEW l \in Lender
    PROVE  ToAssets(MaxRedeem(l)) <= cash
<1> DEFINE r == MaxRedeem(l)
           supply == totalSupply + VIRTUAL_SHARES
           assets == TotalAssets + 1
<1>1. shares[l] \in Nat /\ cash \in Nat /\ totalSupply \in Nat
  BY DEF IInv, TypeOK
<1>2. supply \in Nat \ {0} /\ assets \in Nat \ {0}
  BY <1>1, Units, TotalAssetsType
<1>3. MulDiv(cash, supply, assets) \in Nat /\ MulDiv(cash, supply, assets) * assets <= cash * supply
  BY <1>1, <1>2, MulDivFloor
<1>4. r \in Nat /\ r <= MulDiv(cash, supply, assets)
  BY <1>1, <1>3 DEF MaxRedeem, ToShares, Lesser
<1> HIDE DEF r, supply, assets
<1>5. r * assets < cash * supply + supply
  <2>1. r * assets <= MulDiv(cash, supply, assets) * assets
    BY <1>2, <1>3, <1>4
  <2> QED BY <1>1, <1>2, <1>3, <1>4, <2>1, MulNat
<1>6. (r * assets) \div supply <= cash
  BY <1>1, <1>2, <1>4, <1>5, MulNat, DivLeast
<1> QED BY <1>6 DEF ToAssets, MulDiv, r, supply, assets

\* Paused or not, nobody is trapped.
LEMMA ExitsAreOpen == IInv /\ TotalsAreSums => ExitsStayOpen
BY FullRepaymentFits, MaxWithdrawFits, MaxRedeemFits DEF ExitsStayOpen

----------------------------------------------------------------------------
(* What maxBorrow answers can be borrowed. *)

\* maxBorrow's nested minimum: one of the four limits is at most every other.
LEMMA LeastOfFour ==
    ASSUME NEW a \in Int, NEW b \in Int, NEW c \in Int, NEW d \in Int
    PROVE  \E x \in {a, b, c, d} : \A y \in {a, b, c, d} : x <= y
OBVIOUS

\* A loan of m adds at most m to a debt, and the margin less one for the roundings.
LEMMA LoanWithMargin ==
    ASSUME NEW i \in Nat \ {0}, NEW t \in Nat, NEW s \in Nat, NEW m \in Nat, s * i < m * RAY + i
    PROVE  DebtFromScaled(t + s, i) <= DebtFromScaled(t, i) + m + (i \div RAY + 1)
<1> DEFINE d == DebtFromScaled(t, i)
           k == i \div RAY
<1>1. d \in Nat /\ t * i <= d * RAY
  BY DebtBounds
<1>2. k \in Nat /\ i < k * RAY + RAY
  BY DivFloor, Units
<1> HIDE DEF d, k
<1>3. (t + s) * i = t * i + s * i /\ (d + m + (k + 1)) * RAY = d * RAY + m * RAY + (k * RAY + RAY)
  BY <1>1, <1>2, Units
<1>4. (t + s) * i <= (d + m + (k + 1)) * RAY
  BY <1>1, <1>2, <1>3, MulNat, Units
<1>5. DebtFromScaled(t + s, i) <= d + m + (k + 1)
  BY <1>1, <1>2, <1>4, CeilLeast, Units DEF DebtFromScaled
<1> QED BY <1>5 DEF d, k

\* The debt of two parts is at most the sum of their debts.
LEMMA DebtOfParts ==
    ASSUME NEW i \in Nat, NEW s \in Nat, NEW t \in Nat
    PROVE  DebtFromScaled(s + t, i) <= DebtFromScaled(s, i) + DebtFromScaled(t, i)
<1> DEFINE d == DebtFromScaled(s, i)
           e == DebtFromScaled(t, i)
<1>1. d \in Nat /\ e \in Nat /\ s * i <= d * RAY /\ t * i <= e * RAY
  BY DebtBounds
<1> HIDE DEF d, e
<1>2. (s + t) * i = s * i + t * i /\ (d + e) * RAY = d * RAY + e * RAY
  BY <1>1, Units
<1>3. (s + t) * i <= (d + e) * RAY
  BY <1>1, <1>2, MulNat, Units
<1>4. DebtFromScaled(s + t, i) <= d + e
  BY <1>1, <1>3, CeilLeast, Units DEF DebtFromScaled
<1> QED BY <1>4 DEF d, e

\* The value of a debt rounds up by less than the price of one unit of it.
LEMMA ValueRoundsWithin ==
    ASSUME NEW d \in Nat, NEW p \in Nat \ {0}, p % WAD = 0 \/ p >= 2 * WAD
    PROVE  MulDivUp(d, p, WAD) \in Nat /\ (MulDivUp(d, p, WAD) + 1) * WAD <= (d + 1) * p
<1> DEFINE v == MulDivUp(d, p, WAD)
<1>1. v \in Nat /\ v * WAD < d * p + WAD
  BY MulDivCeil, Units
<1> HIDE DEF v
<1>2. (v + 1) * WAD = v * WAD + WAD /\ (d + 1) * p = d * p + p
  BY <1>1, Units
<1>3. CASE p >= 2 * WAD
  BY <1>1, <1>2, <1>3, MulNat, Units DEF v
<1>4. CASE p % WAD = 0
  <2> DEFINE k == p \div WAD
  <2>1. k \in Nat /\ p = k * WAD
    BY <1>4, Units
  <2> HIDE DEF k
  <2>2. k >= 1
    BY <2>1, Units
  <2>3. d * k \in Nat /\ d * p = (d * k) * WAD
    BY <2>1, Units
  <2>4. v <= d * k
    <3>1. d * p <= (d * k) * WAD
      BY <2>3, Units
    <3> QED BY <2>3, <3>1, CeilLeast, Units DEF v
  <2>5. v * WAD <= (d * k) * WAD /\ WAD <= k * WAD
    BY <1>1, <2>1, <2>2, <2>3, <2>4, Units
  <2> QED BY <1>1, <1>2, <2>1, <2>3, <2>5, MulNat, Units DEF v
<1> QED BY <1>3, <1>4

\* A debt one unit below the limit maxBorrow computes passes the test of _enforceTerms.
LEMMA LimitPasses ==
    ASSUME NEW coll \in Nat, NEW d \in Nat, NEW pc \in Nat, NEW p \in Nat \ {0}, NEW ltv \in Nat,
           ltv <= BPS, p % WAD = 0 \/ p >= 2 * WAD,
           d + 1 <= MulDiv(coll, pc * ltv, BPS * p)
    PROVE  MulDivUp(d, p, WAD) * BPS <= MulDiv(coll, pc, WAD) * ltv
<1> DEFINE v == MulDivUp(d, p, WAD)
           c == MulDiv(coll, pc, WAD)
           q == MulDiv(coll, pc * ltv, BPS * p)
<1>1. v \in Nat /\ (v + 1) * WAD <= (d + 1) * p
  BY ValueRoundsWithin
<1>2. c \in Nat /\ coll * pc < c * WAD + WAD
  BY MulDivFloor, Units
<1>3. q \in Nat /\ q * (BPS * p) <= coll * (pc * ltv)
  BY MulDivFloor, MulNat DEF BPS
<1>4. d + 1 <= q
  OBVIOUS
<1> HIDE DEF v, c, q
<1>5. ((v + 1) * BPS) * WAD <= ((d + 1) * p) * BPS
  <2>1. ((v + 1) * WAD) * BPS <= ((d + 1) * p) * BPS
    BY <1>1, Units DEF BPS
  <2> QED BY <1>1, <2>1, Units DEF BPS
<1>6. ((d + 1) * p) * BPS <= q * (BPS * p)
  <2>1. (d + 1) * (BPS * p) <= q * (BPS * p)
    BY <1>3, <1>4 DEF BPS
  <2> QED BY <1>3, <2>1 DEF BPS
<1>7. coll * (pc * ltv) <= ((c + 1) * ltv) * WAD
  <2>1. (coll * pc) * ltv <= ((c + 1) * WAD) * ltv
    <3>1. coll * pc <= (c + 1) * WAD
      BY <1>2, MulNat, Units
    <3>2. coll * pc \in Nat /\ (c + 1) * WAD \in Nat
      BY <1>2, MulNat, Units
    <3> QED BY <3>1, <3>2
  <2> QED BY <1>2, <2>1, Units
<1>8. ASSUME v * BPS > c * ltv PROVE FALSE
  <2>1. (v + 1) * BPS > (c + 1) * ltv
    <3>1. (v + 1) * BPS = v * BPS + BPS /\ (c + 1) * ltv = c * ltv + ltv
      BY <1>1, <1>2 DEF BPS
    <3>2. v * BPS \in Nat /\ c * ltv \in Nat
      BY <1>1, <1>2, MulNat DEF BPS
    <3> QED BY <1>8, <3>1, <3>2 DEF BPS
  <2>2. ((v + 1) * BPS) * WAD <= ((c + 1) * ltv) * WAD
    <3>1. /\ ((v + 1) * BPS) * WAD \in Nat /\ ((d + 1) * p) * BPS \in Nat
          /\ q * (BPS * p) \in Nat /\ coll * (pc * ltv) \in Nat /\ ((c + 1) * ltv) * WAD \in Nat
      BY <1>1, <1>2, <1>3, MulNat, Units DEF BPS
    <3> QED BY <1>3, <1>5, <1>6, <1>7, <3>1
  <2>3. (v + 1) * BPS \in Nat /\ (c + 1) * ltv \in Nat
    BY <1>1, <1>2, MulNat DEF BPS
  <2> QED BY <2>1, <2>2, <2>3, Units
<1>9. v * BPS \in Nat /\ c * ltv \in Nat
  BY <1>1, <1>2, MulNat DEF BPS
<1> QED BY <1>8, <1>9 DEF v, c

\* _sub0.
SubOrZero(a, b) == IF a > b THEN a - b ELSE 0

\* The LTV limit maxBorrow computes.
LtvLimit(w) == MulDiv(collateral[w], Price("coll") * MaxLtv[effective[w]], BPS * Price("debt"))

\* The debt of the bucket of w's tier of today, its own counted in.
BucketDebt(w) == DebtFromScaled(scaledDebtByTier[effective[w]], Index)
                 + (IF tier[w] # effective[w] THEN Debt(w) ELSE 0)

\* maxBorrow answers an amount, and one that leaves the margin under every limit it names.
LEMMA MaxBorrowWithin ==
    ASSUME IInv, PricesFresh, NEW w \in Borrower
    PROVE  /\ MaxBorrow(w) \in Nat
           /\ MaxBorrow(w) > 0 =>
                /\ Debt(w) + MaxBorrow(w) + Margin <= LtvLimit(w)
                /\ Debt(w) + MaxBorrow(w) + Margin <= WalletCap[effective[w]]
                /\ BucketDebt(w) + MaxBorrow(w) + Margin <= tierDebtCap[effective[w]]
                /\ TotalDebt + MaxBorrow(w) + Margin <= globalDebtCap
                /\ MaxBorrow(w) + Margin <= cash
<1> DEFINE a == SubOrZero(Lesser(LtvLimit(w), WalletCap[effective[w]]), Debt(w))
           b == SubOrZero(tierDebtCap[effective[w]], BucketDebt(w))
           c == SubOrZero(globalDebtCap, TotalDebt)
           limits == {a, b, c, cash}
           room == CHOOSE x \in limits : \A y \in limits : x <= y
<1>1. MaxBorrow(w) = SubOrZero(room, Margin)
  BY DEF MaxBorrow, SubOrZero, LtvLimit, BucketDebt
<1>2. /\ Debt(w) \in Nat /\ TotalDebt \in Nat /\ Index \in Nat /\ cash \in Nat
      /\ effective[w] \in Tier /\ tierDebtCap[effective[w]] \in Nat /\ globalDebtCap \in Nat
      /\ WalletCap[effective[w]] \in Nat /\ MaxLtv[effective[w]] \in Nat
      /\ scaledDebtByTier[effective[w]] \in Nat /\ collateral[w] \in Nat
  BY ReductionBounds, Accrued, Inputs DEF IInv, TypeOK
<1>3. Price("coll") \in Nat \ {0} /\ Price("debt") \in Nat \ {0}
  BY PriceType DEF Asset
<1>4. LtvLimit(w) \in Nat
  <2>1. Price("coll") * MaxLtv[effective[w]] \in Nat /\ BPS * Price("debt") \in Nat \ {0}
    BY <1>2, <1>3 DEF BPS
  <2> QED BY <1>2, <2>1, MulDivFloor DEF LtvLimit
<1>5. BucketDebt(w) \in Nat
  <2>1. DebtFromScaled(scaledDebtByTier[effective[w]], Index) \in Nat
    BY <1>2, DebtBounds
  <2> QED BY <1>2, <2>1 DEF BucketDebt
<1>6. Margin \in Nat
  BY <1>2, DivFloor, Units DEF Margin
<1>7. a \in Nat /\ b \in Nat /\ c \in Nat
  BY <1>2, <1>4, <1>5 DEF SubOrZero, Lesser
<1> HIDE DEF a, b, c
<1>8. room \in limits /\ \A y \in limits : room <= y
  <2>1. \E x \in limits : \A y \in limits : x <= y
    BY <1>2, <1>7, LeastOfFour
  <2> QED BY <2>1
<1>9. room \in Nat /\ room <= a /\ room <= b /\ room <= c /\ room <= cash
  BY <1>2, <1>7, <1>8
<1> HIDE DEF room, limits
<1>10. MaxBorrow(w) \in Nat
  BY <1>1, <1>6, <1>9 DEF SubOrZero
<1> SUFFICES ASSUME MaxBorrow(w) > 0
             PROVE  /\ Debt(w) + MaxBorrow(w) + Margin <= LtvLimit(w)
                    /\ Debt(w) + MaxBorrow(w) + Margin <= WalletCap[effective[w]]
                    /\ BucketDebt(w) + MaxBorrow(w) + Margin <= tierDebtCap[effective[w]]
                    /\ TotalDebt + MaxBorrow(w) + Margin <= globalDebtCap
                    /\ MaxBorrow(w) + Margin <= cash
  BY <1>10
<1>14. room = MaxBorrow(w) + Margin
  BY <1>1, <1>6, <1>9 DEF SubOrZero
<1>11. room > 0
  BY <1>6, <1>10, <1>14
<1>12. /\ Debt(w) + room <= Lesser(LtvLimit(w), WalletCap[effective[w]])
       /\ BucketDebt(w) + room <= tierDebtCap[effective[w]]
       /\ TotalDebt + room <= globalDebtCap
  BY <1>2, <1>4, <1>5, <1>7, <1>9, <1>11 DEF a, b, c, SubOrZero, Lesser
<1>13. Debt(w) + room <= LtvLimit(w) /\ Debt(w) + room <= WalletCap[effective[w]]
  BY <1>2, <1>4, <1>9, <1>12 DEF Lesser
<1> QED BY <1>2, <1>5, <1>6, <1>9, <1>10, <1>12, <1>13, <1>14

\* The bucket of w's tier once w has moved there and borrowed.
LEMMA BucketAfterLoan ==
    ASSUME IInv, NEW w \in Borrower, NEW x \in Nat
    PROVE  BucketsAfter(w, x)[effective[w]]
             = scaledDebtByTier[effective[w]]
               + (IF tier[w] # effective[w] THEN scaledDebt[w] ELSE 0) + ScaledUp(x)
<1>1. /\ scaledDebtByTier \in [Tier -> Nat] /\ effective[w] \in Tier /\ tier[w] \in Tier
      /\ scaledDebt[w] \in Nat /\ ScaledUp(x) \in Nat
  BY ScaledUpBounds DEF IInv, TypeOK
<1>2. Rebucketed(w)[effective[w]] = scaledDebtByTier[effective[w]]
               + (IF tier[w] # effective[w] THEN scaledDebt[w] ELSE 0)
  BY <1>1 DEF Rebucketed
<1>3. Rebucketed(w) \in [Tier -> Int]
  BY RebucketedIntegers
<1> HIDE DEF BucketsAfter
<1>4. BucketsAfter(w, x)[effective[w]] = Rebucketed(w)[effective[w]] + ScaledUp(x)
  BY <1>1, <1>3 DEF BucketsAfter
<1> QED BY <1>2, <1>4

\* borrow lends what maxBorrow answers, and anything less.
LEMMA MaxBorrowFits ==
    ASSUME IInv, TotalsAreSums, PricesFresh, RoundingFits, NEW w \in Borrower,
           NEW m \in Nat, 0 < m, m <= MaxBorrow(w)
    PROVE  CanBorrow(w, m)
<1> DEFINE t == effective[w]
           s == ScaledUp(m)
           k == Index \div RAY + 1
           moved == scaledDebtByTier[t] + (IF tier[w] # t THEN scaledDebt[w] ELSE 0)
<1>2. /\ Index \in Nat \ {0} /\ Debt(w) \in Nat /\ TotalDebt \in Nat /\ cash \in Nat
      /\ t \in Tier /\ scaledDebt[w] \in Nat /\ totalScaledDebt \in Nat
      /\ scaledDebtByTier[t] \in Nat /\ collateral[w] \in Nat
      /\ MaxLtv[t] \in Nat /\ WalletCap[t] \in Nat /\ tierDebtCap[t] \in Nat /\ globalDebtCap \in Nat
  <2>1. Index \in Nat \ {0} /\ Debt(w) \in Nat /\ TotalDebt \in Nat
    BY Accrued, ReductionBounds
  <2>2. /\ t \in Tier /\ scaledDebt[w] \in Nat /\ totalScaledDebt \in Nat /\ cash \in Nat
        /\ scaledDebtByTier[t] \in Nat /\ collateral[w] \in Nat
        /\ tierDebtCap[t] \in Nat /\ globalDebtCap \in Nat
    BY DEF IInv, TypeOK
  <2>3. MaxLtv[t] \in Nat /\ WalletCap[t] \in Nat
    BY <2>2, Inputs
  <2> QED BY <2>1, <2>2, <2>3
<1>3. k \in Nat /\ Margin = k + 1
  BY <1>2, DivFloor, Units DEF Margin
<1>0. BucketDebt(w) \in Nat
  <2>1. DebtFromScaled(scaledDebtByTier[t], Index) \in Nat
    BY <1>2, DebtBounds
  <2> QED BY <1>2, <2>1 DEF BucketDebt
<1>16. LtvLimit(w) \in Nat
  <2>1. Price("coll") \in Nat \ {0} /\ Price("debt") \in Nat \ {0}
    BY PriceType DEF Asset
  <2>2. Price("coll") * MaxLtv[t] \in Nat /\ BPS * Price("debt") \in Nat \ {0}
    BY <1>2, <2>1 DEF BPS
  <2> QED BY <1>2, <2>2, MulDivFloor DEF LtvLimit, t
<1>1. /\ Debt(w) + m + Margin <= LtvLimit(w) /\ Debt(w) + m + Margin <= WalletCap[t]
      /\ BucketDebt(w) + m + Margin <= tierDebtCap[t]
      /\ TotalDebt + m + Margin <= globalDebtCap /\ m + Margin <= cash
  <2> DEFINE most == MaxBorrow(w)
  <2>1. /\ most \in Nat /\ m <= most
        /\ Debt(w) + most + Margin <= LtvLimit(w) /\ Debt(w) + most + Margin <= WalletCap[t]
        /\ BucketDebt(w) + most + Margin <= tierDebtCap[t]
        /\ TotalDebt + most + Margin <= globalDebtCap /\ most + Margin <= cash
    BY MaxBorrowWithin
  <2> HIDE DEF most
  <2> QED BY <1>0, <1>2, <1>3, <1>16, <2>1
<1> HIDE DEF t
<1>4. s \in Nat /\ s * Index < m * RAY + Index
  BY <1>1, <1>2, MulDivCeil, Units DEF ScaledUp
<1>5. \A u \in Nat : /\ DebtFromScaled(u + s, Index) <= DebtFromScaled(u, Index) + m + k
                     /\ DebtFromScaled(u + s, Index) \in Nat
  <2> TAKE u \in Nat
  <2>1. u + s \in Nat
    BY <1>4
  <2> QED BY <1>1, <1>2, <1>4, <2>1, LoanWithMargin, DebtBounds
<1>6. BucketsAfter(w, m)[t] = moved + s /\ moved \in Nat
  BY <1>1, <1>2, BucketAfterLoan DEF t
<1>7. DebtFromScaled(moved, Index) <= BucketDebt(w)
  <2>1. CASE tier[w] # t
    BY <1>2, <2>1, DebtOfParts DEF BucketDebt, Debt, t
  <2>2. CASE tier[w] = t
    <3>1. moved = scaledDebtByTier[t] /\ BucketDebt(w) = DebtFromScaled(scaledDebtByTier[t], Index) + 0
      BY <1>2, <2>2 DEF BucketDebt, t
    <3>2. DebtFromScaled(scaledDebtByTier[t], Index) \in Nat
      BY <1>2, DebtBounds
    <3> QED BY <3>1, <3>2
  <2> QED BY <2>1, <2>2
<1>8. BucketDebt(w) \in Nat /\ DebtFromScaled(moved, Index) \in Nat
  <2>1. DebtFromScaled(scaledDebtByTier[t], Index) \in Nat /\ DebtFromScaled(moved, Index) \in Nat
    BY <1>2, <1>6, DebtBounds
  <2> QED BY <1>2, <2>1 DEF BucketDebt, t
<1> HIDE DEF s, k, moved
<1>9. DebtFromScaled(totalScaledDebt + s, Index) <= globalDebtCap
  <2>1. DebtFromScaled(totalScaledDebt + s, Index) <= TotalDebt + m + k
    BY <1>2, <1>5 DEF TotalDebt
  <2> QED BY <1>1, <1>2, <1>3, <1>5, <2>1
<1>10. DebtFromScaled(BucketsAfter(w, m)[t], Index) <= tierDebtCap[t]
  <2>1. DebtFromScaled(moved + s, Index) <= DebtFromScaled(moved, Index) + m + k
    BY <1>5, <1>6
  <2>2. DebtFromScaled(moved + s, Index) \in Nat
    BY <1>5, <1>6
  <2> QED BY <1>1, <1>2, <1>3, <1>6, <1>7, <1>8, <2>1, <2>2
<1> DEFINE d == DebtFromScaled(scaledDebt[w] + s, Index)
<1>11. d \in Nat /\ d + 1 <= Debt(w) + m + Margin
  <2>1. d <= Debt(w) + m + k /\ d \in Nat
    BY <1>2, <1>5 DEF Debt
  <2> QED BY <1>1, <1>2, <1>3, <2>1
<1> HIDE DEF d
<1>12. LtvLimit(w) \in Nat /\ d + 1 <= LtvLimit(w) /\ d <= WalletCap[t]
  BY <1>1, <1>2, <1>3, <1>11, <1>16
<1>13. DebtValue(d) * BPS <= CollValue(collateral[w]) * MaxLtv[t]
  <2> DEFINE pc == Price("coll")
             pd == Price("debt")
             ltv == MaxLtv[t]
  <2>1. pc \in Nat /\ pd \in Nat \ {0}
    BY PriceType DEF Asset
  <2>2. ltv \in Nat /\ ltv <= BPS
    BY <1>2, MarketAssumption DEF ValidTerms, Overcollateralized, BPS
  <2>3. pd % WAD = 0 \/ pd >= 2 * WAD
    BY DEF RoundingFits
  <2>4. d + 1 <= MulDiv(collateral[w], pc * ltv, BPS * pd)
    BY <1>12 DEF LtvLimit, t
  <2> HIDE DEF pc, pd, ltv
  <2>5. MulDivUp(d, pd, WAD) * BPS <= MulDiv(collateral[w], pc, WAD) * ltv
    BY <1>2, <1>11, <2>1, <2>2, <2>3, <2>4, LimitPasses
  <2> QED BY <2>5 DEF DebtValue, CollValue, pc, pd, ltv
<1>14. EnforceTerms(collateral[w], d, t, DebtFromScaled(BucketsAfter(w, m)[t], Index))
  BY <1>10, <1>12, <1>13 DEF EnforceTerms
<1>15. m > 0 /\ m <= cash
  BY <1>1, <1>2, <1>3
<1> QED BY <1>9, <1>14, <1>15, RetierNeverReverts DEF CanBorrow, d, s, t

\* What the market tells a borrower or a lender it can do goes through, for any
\* number of them and any amounts: repaying in full, leaving with what maxWithdraw
\* and maxRedeem answer, paused or not, and borrowing what maxBorrow answers.
THEOREM QuotesKept == Spec => []QuotesAreKept
<1>1. IInv /\ TotalsAreSums => QuotesAreKept
  BY ExitsAreOpen, MaxBorrowFits, MaxBorrowWithin DEF QuotesAreKept, MaxBorrowSucceedsAtPar
<1> QED BY <1>1, Invariance, TotalsAreTheSums, PTL

----------------------------------------------------------------------------
(* What a transaction may never do: the action properties, proved of every    *)
(* step from a state of the inductive invariant.                              *)

----------------------------------------------------------------------------
(* What the transactions do to the debt. *)

\* borrow never lends for nothing: any loan adds to the scaled debt.
LEMMA LoanAddsDebt ==
    ASSUME IInv, NEW x \in Nat, x > 0
    PROVE  ScaledUp(x) > 0
<1>1. ScaledUp(x) \in Nat /\ x * RAY <= ScaledUp(x) * Index /\ Index \in Nat
  BY ScaledUpBounds, Accrued
<1>2. ASSUME ScaledUp(x) = 0 PROVE FALSE
  <2>1. x * RAY > 0
    BY Units
  <2>2. x * RAY <= 0 * Index
    BY <1>1, <1>2
  <2> QED BY <1>1, <2>1, <2>2, Units
<1> QED BY <1>1, <1>2

\* _retier adds debt to no bucket but the one of the wallet's tier of today.
LEMMA RebucketedGrows ==
    ASSUME IInv, NEW w \in Borrower, NEW t \in Tier, t # effective[w]
    PROVE  Rebucketed(w)[t] <= scaledDebtByTier[t]
BY DEF Rebucketed, IInv, TypeOK

\* Neither does borrow.
LEMMA BorrowGrows ==
    ASSUME IInv, NEW w \in Borrower, NEW x \in Nat, NEW t \in Tier, t # effective[w]
    PROVE  BucketsAfter(w, x)[t] <= scaledDebtByTier[t]
<1>1. BucketsAfter(w, x)[t] = Rebucketed(w)[t]
  BY DEF BucketsAfter, Rebucketed, IInv, TypeOK
<1> QED BY <1>1, RebucketedGrows

\* repay and liquidate add debt nowhere.
LEMMA ReductionShrinks ==
    ASSUME IInv, NEW w \in Borrower, NEW s \in Nat, ReduceDebt(w, s)
    PROVE  /\ \A v \in Borrower : scaledDebt'[v] <= scaledDebt[v]
           /\ \A t \in Tier : scaledDebtByTier'[t] <= scaledDebtByTier[t]
           /\ totalScaledDebt' <= totalScaledDebt
           /\ tier' = tier
<1>1. \A v \in Borrower : scaledDebt'[v] <= scaledDebt[v]
  BY ReduceDebtPointwise
<1>2. \A t \in Tier : scaledDebtByTier'[t] <= scaledDebtByTier[t]
  BY DEF ReduceDebt, CanReduce, IInv, TypeOK
<1>3. totalScaledDebt' <= totalScaledDebt /\ tier' = tier
  BY DEF ReduceDebt, IInv, TypeOK
<1> QED BY <1>1, <1>2, <1>3

----------------------------------------------------------------------------
(* The caps. *)

\* Debt grows, in a tier or in all, only to within the cap, by borrowing or by a
\* position moving into the tier: for every cap the owner may set, above or below
\* the debt that is already there.
THEOREM CapsBindGrowth == Spec => GrowsWithinCaps
<1> DEFINE Within ==
      /\ \A t \in Tier : scaledDebtByTier'[t] > scaledDebtByTier[t] =>
           DebtFromScaled(scaledDebtByTier'[t], borrowIndex') <= tierDebtCap[t]
      /\ totalScaledDebt' > totalScaledDebt =>
           DebtFromScaled(totalScaledDebt', borrowIndex') <= globalDebtCap
<1>1. ASSUME IInv, [Next]_vars PROVE Within
  <2>1. totalScaledDebt \in Nat /\ scaledDebtByTier \in [Tier -> Nat]
    BY <1>1 DEF IInv, TypeOK
  <2>2. CASE UNCHANGED debts
    BY <2>1, <2>2 DEF debts
  <2>3. CASE Shrinking
    <3>1. PICK w \in Borrower, s \in Nat : ReduceDebt(w, s)
      BY <2>3 DEF Shrinking
    <3>2. totalScaledDebt' \in Int /\ \A t \in Tier : scaledDebtByTier'[t] \in Int
      BY <2>1, <3>1 DEF ReduceDebt, IInv, TypeOK
    <3> QED BY <1>1, <2>1, <3>1, <3>2, ReductionShrinks
  <2>4. ASSUME NEW w \in Borrower, NEW x \in Nat, WithdrawCollateral(w, x) PROVE Within
    <3>1. CASE scaledDebt[w] > 0
      <4>1. /\ scaledDebtByTier' = Rebucketed(w) /\ borrowIndex' = Index
            /\ DebtFromScaled(Rebucketed(w)[effective[w]], Index) <= tierDebtCap[effective[w]]
            /\ totalScaledDebt' = totalScaledDebt
        BY <2>4, <3>1 DEF WithdrawCollateral, EnforceTerms, Accrue, StoreIndex
      <4>2. \A t \in Tier : Rebucketed(w)[t] \in Int
        BY <1>1 DEF Rebucketed, IInv, TypeOK
      <4> QED BY <1>1, <2>1, <4>1, <4>2, RebucketedGrows
    <3>2. CASE ~(scaledDebt[w] > 0)
      BY <2>1, <2>4, <3>2 DEF WithdrawCollateral, debts
    <3> QED BY <3>1, <3>2
  <2>5. ASSUME NEW w \in Borrower, NEW x \in Nat, Borrow(w, x) PROVE Within
    <3>1. /\ scaledDebtByTier' = BucketsAfter(w, x) /\ borrowIndex' = Index
          /\ DebtFromScaled(BucketsAfter(w, x)[effective[w]], Index) <= tierDebtCap[effective[w]]
          /\ totalScaledDebt' = totalScaledDebt + ScaledUp(x)
          /\ DebtFromScaled(totalScaledDebt + ScaledUp(x), Index) <= globalDebtCap
      BY <2>5 DEF Borrow, CanBorrow, EnforceTerms, Accrue, StoreIndex
    <3>2. \A t \in Tier : t # effective[w] => BucketsAfter(w, x)[t] \in Int
      BY <1>1 DEF BucketsAfter, Rebucketed, IInv, TypeOK
    <3> QED BY <1>1, <2>1, <3>1, <3>2, BorrowGrows
  <2> QED BY <1>1, <2>2, <2>3, <2>4, <2>5, DebtSteps
<1> QED BY <1>1, Invariance, PTL DEF Spec, GrowsWithinCaps

----------------------------------------------------------------------------
(* The terms of a position. *)

\* Debt grows and terms change only in the owner's own borrow or withdrawal, at the
\* tier the registry answers in that transaction: a repayment or a liquidation keeps
\* the terms the debt was priced at.
THEOREM TermsAreTodays == Spec => RiskPricedToday
<1> DEFINE Today(v) ==
      /\ scaledDebt'[v] > scaledDebt[v] => tier'[v] = effective[v]
      /\ tier'[v] # tier[v] =>
           /\ tier'[v] = effective[v]
           /\ scaledDebt'[v] > scaledDebt[v] \/ collateral'[v] < collateral[v]
<1>1. ASSUME IInv, [Next]_vars, NEW v \in Borrower PROVE Today(v)
  <2>1. /\ scaledDebt \in [Borrower -> Nat] /\ collateral \in [Borrower -> Nat]
        /\ tier \in [Borrower -> Tier]
    BY <1>1 DEF IInv, TypeOK
  <2>2. CASE UNCHANGED debts
    BY <2>1, <2>2 DEF debts
  <2>3. CASE Shrinking
    <3>1. PICK w \in Borrower, s \in Nat : ReduceDebt(w, s)
      BY <2>3 DEF Shrinking
    <3>2. scaledDebt'[v] \in Int
      BY <2>1, <3>1 DEF ReduceDebt
    <3> QED BY <1>1, <2>1, <3>1, <3>2, ReductionShrinks
  <2>4. ASSUME NEW w \in Borrower, NEW x \in Nat, WithdrawCollateral(w, x) PROVE Today(v)
    <3>1. scaledDebt' = scaledDebt /\ x > 0 /\ collateral'[w] = collateral[w] - x
      BY <2>1, <2>4 DEF WithdrawCollateral, debts
    <3>2. tier' = tier \/ tier' = [tier EXCEPT ![w] = effective[w]]
      BY <2>4 DEF WithdrawCollateral, debts
    <3> QED BY <2>1, <3>1, <3>2
  <2>5. ASSUME NEW w \in Borrower, NEW x \in Nat, Borrow(w, x) PROVE Today(v)
    <3>1. /\ scaledDebt' = [scaledDebt EXCEPT ![w] = @ + ScaledUp(x)]
          /\ tier' = [tier EXCEPT ![w] = effective[w]] /\ x > 0
      BY <2>5 DEF Borrow, CanBorrow
    <3>2. ScaledUp(x) \in Nat /\ ScaledUp(x) > 0
      BY <1>1, <3>1, ScaledUpBounds, LoanAddsDebt
    <3> QED BY <2>1, <3>1, <3>2
  <2> QED BY <1>1, <2>2, <2>3, <2>4, <2>5, DebtSteps
<1>2. IInv /\ [Next]_vars =>
        [\A w \in Borrower :
           /\ scaledDebt'[w] > scaledDebt[w] => tier'[w] = effective[w]
           /\ tier'[w] # tier[w] =>
                /\ tier'[w] = effective[w]
                /\ scaledDebt'[w] > scaledDebt[w] \/ collateral'[w] < collateral[w]]_vars
  BY <1>1
<1> QED BY <1>2, Invariance, PTL DEF Spec, RiskPricedToday

----------------------------------------------------------------------------
(* The pause. *)

\* deposit and mint are closed while the market is paused, withdraw and redeem only
\* burn shares, and no other transaction touches the supply.
LEMMA PausedSupply ==
    ASSUME IInv, [Next]_vars, paused
    PROVE  totalSupply' <= totalSupply
<1>1. totalSupply \in Nat
  BY DEF IInv, TypeOK
<1>2. ASSUME NEW l \in Lender, NEW x \in AssetInput, Withdraw(l, x) PROVE totalSupply' <= totalSupply
  <2>1. x \in Nat
    BY Inputs
  <2>2. ToSharesUp(x) \in Nat /\ totalSupply' = totalSupply - ToSharesUp(x)
    BY <1>2, <2>1, Conversions DEF Withdraw, Leave
  <2> QED BY <1>1, <2>2
<1>3. ASSUME NEW l \in Lender, NEW x \in ShareInput, Redeem(l, x) PROVE totalSupply' <= totalSupply
  <2>1. x \in Nat /\ totalSupply' = totalSupply - x
    BY <1>3, Inputs DEF Redeem, Leave
  <2> QED BY <1>1, <2>1
<1>4. (\/ \E l \in Lender, x \in AssetInput : Withdraw(l, x)
       \/ \E l \in Lender, x \in ShareInput : Redeem(l, x)
       \/ UNCHANGED totalSupply)
  BY DEF Next, Deposit, Mint, Enter, WhenNotPaused, Donate, DepositCollateral, WithdrawCollateral,
         Borrow, Repay, LiquidateAndReport, Liquidate, SetCaps, SetPaused, SetPrice, Rescore, Lapse,
         Tick, market, vault, vars
<1> QED BY <1>1, <1>2, <1>3, <1>4

\* While the market is paused no debt grows but by interest, no share is issued and
\* no position is liquidated, whoever calls and in whatever order.
THEOREM PauseHolds == Spec => PauseFreezesRisk
<1>1. ASSUME IInv, [Next]_vars, paused
      PROVE  /\ \A w \in Borrower : scaledDebt'[w] <= scaledDebt[w]
             /\ totalSupply' <= totalSupply
             /\ recorded' = recorded
  <2>1. scaledDebt \in [Borrower -> Nat]
    BY <1>1 DEF IInv, TypeOK
  <2>2. \A w \in Borrower : scaledDebt'[w] <= scaledDebt[w]
    <3>1. CASE UNCHANGED debts
      BY <2>1, <3>1 DEF debts
    <3>2. CASE Shrinking
      BY <1>1, <3>2, ReductionShrinks DEF Shrinking
    <3>3. ASSUME NEW v \in Borrower, NEW x \in Nat, WithdrawCollateral(v, x)
          PROVE  \A w \in Borrower : scaledDebt'[w] <= scaledDebt[w]
      <4>1. scaledDebt' = scaledDebt
        BY <3>3 DEF WithdrawCollateral, debts
      <4> QED BY <2>1, <4>1
    <3>4. \A v \in Borrower, x \in Nat : ~Borrow(v, x)
      BY <1>1 DEF Borrow, WhenNotPaused
    <3> QED BY <1>1, <3>1, <3>2, <3>3, <3>4, DebtSteps
  <2>3. recorded' = recorded
    BY <1>1 DEF Next, env, LiquidateAndReport, Liquidate, SetPrice, Rescore, Lapse, Tick, vars
  <2> QED BY <1>1, <2>2, <2>3, PausedSupply
<1>2. IInv /\ [Next]_vars =>
        [paused /\ paused' =>
           /\ \A w \in Borrower : scaledDebt'[w] <= scaledDebt[w]
           /\ totalSupply' <= totalSupply
           /\ recorded' = recorded]_vars
  BY <1>1
<1> QED BY <1>2, Invariance, PTL DEF Spec, PauseFreezesRisk

----------------------------------------------------------------------------
(* Losses. *)

\* The scaled debt is written off whole for a payment of the debt, and never more.
LEMMA FullRepayment ==
    ASSUME NEW w \in Borrower, NEW p \in Nat, Debt(w) \in Nat, scaledDebt[w] \in Nat,
           p > 0, scaledDebt[w] - Reduction(w, p) > 0
    PROVE  p < Debt(w)
BY DEF Reduction

\* Division by a product of units, as liquidate does it: a repayment the collateral
\* cannot cover, bonus included, is a debt worth more than the collateral.
\* v: value of the collateral, c: the cap, d: the debt, dv: its value.
LEMMA CapBelowDebt ==
    ASSUME NEW v \in Nat, NEW c \in Nat, NEW d \in Nat, NEW dv \in Nat,
           NEW k \in Nat \ {0}, NEW p \in Nat \ {0}, NEW u \in Nat \ {0}, NEW b \in Nat \ {0},
           v * (b * u) < c * (k * p) + k * p,
           c + 1 <= d,
           d * p <= dv * u
    PROVE  v * b < dv * k
<1>1. k * p \in Nat /\ v * b \in Nat /\ dv * k \in Nat
  BY MulNat
<1>2. c * (k * p) + k * p = (c + 1) * (k * p)
  BY <1>1
<1>3. (c + 1) * (k * p) <= d * (k * p)
  BY <1>1
<1>4. d * (k * p) = (d * p) * k
  OBVIOUS
<1>5. (d * p) * k <= (dv * u) * k
  BY MulNat
<1>6. (dv * u) * k = (dv * k) * u /\ v * (b * u) = (v * b) * u
  OBVIOUS
<1>7. (v * b) * u < (dv * k) * u
  <2>1. /\ v * (b * u) \in Nat /\ c * (k * p) + k * p \in Nat /\ d * (k * p) \in Nat
        /\ (dv * u) * k \in Nat
    BY <1>1, MulNat
  <2> QED BY <1>2, <1>3, <1>4, <1>5, <1>6, <2>1
<1> DEFINE x == v * b
           y == dv * k
<1>8. x \in Nat /\ y \in Nat /\ x * u < y * u
  BY <1>1, <1>7
<1> HIDE DEF x, y
<1>9. x < y
  <2>1. ASSUME x >= y PROVE FALSE
    <3>1. x * u >= y * u
      BY <1>8, <2>1
    <3> QED BY <1>8, <3>1, MulNat
  <2> QED BY <1>8, <2>1
<1> QED BY <1>9 DEF x, y

\* A repayment below the cap never seizes all of the collateral.
\* v: value of the collateral n, c: the cap, r: the repayment.
LEMMA PartialSeizure ==
    ASSUME NEW v \in Nat, NEW n \in Nat, NEW c \in Nat, NEW r \in Nat,
           NEW k \in Nat \ {0}, NEW p \in Nat \ {0}, NEW q \in Nat \ {0},
           NEW u \in Nat \ {0}, NEW b \in Nat \ {0},
           v * u <= n * q, c * (k * p) <= v * (b * u), n * (b * q) <= r * (k * p)
    PROVE  c <= r
<1> DEFINE m == k * p
<1>1. m \in Nat \ {0}
  OBVIOUS
<1>2. v * (b * u) = (v * u) * b /\ n * (b * q) = (n * q) * b
  OBVIOUS
<1>3. v * u \in Nat /\ n * q \in Nat
  OBVIOUS
<1>4. (v * u) * b <= (n * q) * b
  BY <1>3
<1>5. c * m <= v * (b * u) /\ n * (b * q) <= r * m
  OBVIOUS
<1> HIDE DEF m
<1>6. c * m <= r * m
  <2>1. c * m \in Nat /\ r * m \in Nat /\ (v * u) * b \in Nat /\ (n * q) * b \in Nat
    BY <1>1, <1>3, MulNat
  <2> QED BY <1>2, <1>4, <1>5, <2>1
<1>7. ASSUME c >= r + 1 PROVE FALSE
  <2>1. c * m >= (r + 1) * m
    BY <1>1, <1>7
  <2>2. (r + 1) * m = r * m + m /\ r * m \in Nat /\ c * m \in Nat
    BY <1>1, MulNat
  <2> QED BY <1>1, <1>6, <2>1, <2>2
<1> QED BY <1>7

\* A liquidation that leaves a loss found a debt worth more than the collateral can
\* pay for with the bonus.
LEMMA LossIsUnderwater ==
    ASSUME IInv, NEW w \in Borrower, NEW x \in Nat, Liquidate(w, x), Shortfall(w, x) > 0
    PROVE  DebtValue(Debt(w)) * (BPS + LIQUIDATION_BONUS_BPS) > CollValue(collateral[w]) * BPS
<1> DEFINE k == BPS + LIQUIDATION_BONUS_BPS
           p == Price("debt")
           q == Price("coll")
           n == collateral[w]
           v == CollValue(n)
           c == RepayCap(w)
           d == Debt(w)
           dv == DebtValue(d)
           r == Repaid(w, x)
<1>1. CanLiquidate(w, x)
  BY DEF Liquidate
<1>2. p \in Nat \ {0} /\ q \in Nat \ {0}
  BY <1>1, PriceType DEF CanLiquidate, Asset
<1>3. k \in Nat \ {0} /\ BPS \in Nat \ {0} /\ WAD \in Nat \ {0}
  BY Units DEF BPS, LIQUIDATION_BONUS_BPS
<1>4. n \in Nat /\ d \in Nat /\ d > 0 /\ scaledDebt[w] \in Nat /\ r \in Nat
  BY <1>1, ReductionBounds, LiquidationBounds DEF CanLiquidate, IInv, TypeOK
<1> HIDE DEF k, p, q, n, d, r
<1>5. v \in Nat /\ v * WAD <= n * q
  BY <1>2, <1>3, <1>4, MulDivFloor DEF CollValue, q
<1>6. dv \in Nat /\ d * p <= dv * WAD
  BY <1>2, <1>3, <1>4, MulDivCeil DEF DebtValue, p
<1> HIDE DEF v, dv
<1>7. c \in Nat /\ c * (k * p) <= v * (BPS * WAD) /\ v * (BPS * WAD) < c * (k * p) + k * p
  <2>1. c = MulDiv(v, BPS * WAD, k * p)
    BY DEF RepayCap, v, n, k, p
  <2>2. BPS * WAD \in Nat /\ k * p \in Nat \ {0}
    BY <1>2, <1>3, MulNat
  <2> HIDE DEF c
  <2> QED BY <1>5, <2>1, <2>2, MulDivFloor
<1> HIDE DEF c
<1>8. r <= c
  BY <1>4, <1>7 DEF r, c, Repaid, Lesser
<1>9. r < d
  <2>1. Remaining(w, x) > 0
    BY DEF Shortfall
  <2>2. CASE r = 0
    BY <1>4, <2>2
  <2>3. CASE r > 0
    BY <1>4, <2>1, <2>3, FullRepayment DEF Remaining, r, d
  <2> QED BY <1>4, <2>2, <2>3
<1>10. c <= r
  <2>1. CASE r = c
    BY <1>4, <2>1
  <2>2. CASE r # c
    <3>1. n = MulDiv(r, k * p, BPS * q)
      BY <2>2 DEF Shortfall, Seized, r, c, n, k, p, q
    <3>2. k * p \in Nat /\ BPS * q \in Nat \ {0}
      BY <1>2, <1>3, MulNat
    <3>3. n * (BPS * q) <= r * (k * p)
      BY <1>4, <3>1, <3>2, MulDivFloor
    <3> QED BY <1>2, <1>3, <1>4, <1>5, <1>7, <3>3, PartialSeizure
  <2> QED BY <2>1, <2>2
<1>11. c + 1 <= d
  BY <1>4, <1>7, <1>8, <1>9, <1>10
<1>12. v * BPS < dv * k
  BY <1>2, <1>3, <1>4, <1>5, <1>6, <1>7, <1>11, CapBelowDebt
<1>13. v * BPS \in Nat /\ dv * k \in Nat
  BY <1>3, <1>5, <1>6, MulNat
<1>14. dv * k > v * BPS
  BY <1>12, <1>13
<1> QED BY <1>14 DEF v, dv, d, k, n

\* Lenders and reserves lose only to positions under water: for every price, scale
\* and amount a liquidator may choose, taking part of a position never leaves a loss
\* its collateral could have covered.
THEOREM LossesAreUnderwater == Spec => LossOnlyUnderwater
<1>1. ASSUME IInv, [Next]_vars, totalBadDebt' > totalBadDebt
      PROVE  \E w \in Borrower :
                /\ recorded'[w].count = recorded[w].count + 1
                /\ DebtValue(Debt(w)) * (BPS + LIQUIDATION_BONUS_BPS) > CollValue(collateral[w]) * BPS
  <2>1. totalBadDebt \in Nat /\ recorded \in [Borrower -> [count : Nat, shortfall : Nat]]
    BY <1>1 DEF IInv, TypeOK
  <2>2. PICK w \in Borrower : \E x \in RepayInput(w), t \in TierInput : LiquidateAndReport(w, x, t)
    <3>1. totalBadDebt' # totalBadDebt
      BY <1>1, <2>1
    <3> QED BY <1>1, <3>1
          DEF Next, Deposit, Mint, Enter, Withdraw, Redeem, Leave, Donate, DepositCollateral,
              WithdrawCollateral, Borrow, Repay, SetCaps, SetPaused, SetPrice, Rescore, Lapse,
              Tick, market, losses, vars
  <2>3. PICK x \in RepayInput(w), t \in TierInput : LiquidateAndReport(w, x, t)
    BY <2>2
  <2>4. x \in Nat /\ Liquidate(w, x)
    BY <1>1, <2>3, Inputs, ReductionBounds DEF RepayInput, LiquidateAndReport
  <2>5. Shortfall(w, x) > 0
    <3>1. totalBadDebt' = totalBadDebt + Shortfall(w, x) /\ Shortfall(w, x) \in Nat
      BY <1>1, <2>4, LiquidationBounds DEF Liquidate
    <3> QED BY <1>1, <2>1, <3>1
  <2>6. recorded'[w].count = recorded[w].count + 1
    BY <2>1, <2>3 DEF LiquidateAndReport, Report
  <2> QED BY <1>1, <2>4, <2>5, <2>6, LossIsUnderwater
<1>2. IInv /\ [Next]_vars =>
        [totalBadDebt' > totalBadDebt =>
           \E w \in Borrower :
              /\ recorded'[w].count = recorded[w].count + 1
              /\ DebtValue(Debt(w)) * (BPS + LIQUIDATION_BONUS_BPS)
                   > CollValue(collateral[w]) * BPS]_vars
  BY <1>1
<1> QED BY <1>2, Invariance, PTL DEF Spec, LossOnlyUnderwater

----------------------------------------------------------------------------
(* The index between transactions of one block. *)

\* The index and the rate are naturals.
LEMMA CurrentNumbers == IInv => Index \in Nat /\ Rate \in Nat
BY Accrued

\* A second transaction of the same block accrues nothing more.
LEMMA IndexSettled ==
    ASSUME IInv, IInv', StoreIndex, now' = now
    PROVE  Index' = Index
<1>1. Rate' \in Nat /\ borrowIndex' = Index /\ lastAccrual' = now /\ now \in Nat /\ Index \in Nat
  <2>1. (Index \in Nat /\ Rate \in Nat)'
    BY CurrentNumbers, PTL
  <2> QED BY <2>1, CurrentNumbers DEF StoreIndex, IInv, TypeOK
<1>2. Growth' = 0
  <2>1. MulDiv(borrowIndex', Rate' * (now' - lastAccrual'), BPS * SECONDS_PER_YEAR) = 0
    <3>1. Rate' * (now' - lastAccrual') = 0
      <4>1. now' - lastAccrual' = 0
        BY <1>1
      <4>2. \A r \in Nat : r * 0 = 0
        OBVIOUS
      <4> QED BY <1>1, <4>1, <4>2
    <3>2. Index * 0 = 0
      BY <1>1
    <3>3. BPS * SECONDS_PER_YEAR \in Nat \ {0}
      BY Units DEF BPS
    <3>4. MulDiv(Index, 0, BPS * SECONDS_PER_YEAR) = 0
      <4>1. MulDiv(Index, 0, BPS * SECONDS_PER_YEAR) * (BPS * SECONDS_PER_YEAR) <= Index * 0
            /\ MulDiv(Index, 0, BPS * SECONDS_PER_YEAR) \in Nat
        BY <1>1, <3>3, MulDivFloor
      <4> DEFINE c == BPS * SECONDS_PER_YEAR
                 q == MulDiv(Index, 0, c)
      <4>2. c \in Nat \ {0} /\ q \in Nat /\ q * c <= 0
        BY <1>1, <3>2, <3>3, <4>1
      <4> HIDE DEF c, q
      <4>3. q = 0
        BY <4>2
      <4> QED BY <4>3 DEF q, c
    <3> QED BY <1>1, <3>1, <3>4
  <2> QED BY <2>1 DEF Growth
<1> QED BY <1>1, <1>2 DEF Index

\* mulDiv grows with the amount, rounded down and rounded up.
LEMMA MulDivMonotone ==
    ASSUME NEW a \in Nat, NEW d \in Nat, NEW b \in Nat, NEW c \in Nat \ {0}, a <= d
    PROVE  MulDiv(a, b, c) <= MulDiv(d, b, c) /\ MulDivUp(a, b, c) <= MulDivUp(d, b, c)
<1>1. a * b <= d * b /\ a * b \in Nat /\ d * b \in Nat
  OBVIOUS
<1>2. MulDiv(a, b, c) <= MulDiv(d, b, c)
  <2> DEFINE q == MulDiv(d, b, c)
             n == a * b
  <2>1. q \in Nat /\ d * b < q * c + c
    BY MulDivFloor
  <2>2. n \in Nat /\ n <= d * b /\ d * b \in Nat
    BY <1>1
  <2>3. q * c \in Nat
    BY <2>1, MulNat
  <2> HIDE DEF q, n
  <2>4. n < q * c + c
    BY <2>1, <2>2, <2>3
  <2>5. n \div c <= q
    BY <2>1, <2>2, <2>4, DivLeast
  <2> QED BY <2>5 DEF MulDiv, n, q
<1>3. MulDivUp(a, b, c) <= MulDivUp(d, b, c)
  <2>1. MulDivUp(d, b, c) \in Nat /\ d * b <= MulDivUp(d, b, c) * c
    BY MulDivCeil
  <2>2. a * b <= MulDivUp(d, b, c) * c
    BY <1>1, <2>1, MulNat
  <2> QED BY <2>1, <2>2, CeilLeast
<1> QED BY <1>2, <1>3

\* The same amount over a larger divisor is no more.
LEMMA MulDivAntitone ==
    ASSUME NEW a \in Nat, NEW b \in Nat, NEW c \in Nat \ {0}, NEW e \in Nat \ {0}, c <= e
    PROVE  MulDiv(a, b, e) <= MulDiv(a, b, c)
<1> DEFINE q == MulDiv(a, b, c)
           n == a * b
<1>1. q \in Nat /\ n \in Nat /\ n < q * c + c
  BY MulDivFloor, MulNat
<1>2. n < q * e + e
  <2> HIDE DEF q, n
  <2>1. q * c <= q * e /\ q * c \in Nat /\ q * e \in Nat
    BY <1>1
  <2> QED BY <1>1, <2>1
<1> HIDE DEF q, n
<1>3. n \div e <= q
  BY <1>1, <1>2, DivLeast
<1> QED BY <1>3 DEF MulDiv, n, q

\* borrowRateBps grows with utilization.
LEMMA RateMonotone ==
    ASSUME NEW u \in Nat, NEW v \in Nat, NEW wad \in Nat \ {0}, u <= v
    PROVE  BorrowRateBps(u, wad) <= BorrowRateBps(v, wad)
<1> DEFINE x == IF u > wad THEN wad ELSE u
           y == IF v > wad THEN wad ELSE v
<1>1. x \in Nat /\ y \in Nat /\ x <= y
  OBVIOUS
<1> HIDE DEF x, y
<1> SLOPE_BPS \in Nat
  BY DEF SLOPE_BPS
<1>2. MulDiv(x, SLOPE_BPS, wad) <= MulDiv(y, SLOPE_BPS, wad)
  BY <1>1, MulDivMonotone
<1>3. SLOPE_BPS * x = x * SLOPE_BPS /\ SLOPE_BPS * y = y * SLOPE_BPS
  BY <1>1 DEF SLOPE_BPS
<1>4. MulDiv(x, SLOPE_BPS, wad) \in Nat /\ MulDiv(y, SLOPE_BPS, wad) \in Nat
  BY <1>1, MulDivFloor
<1>5. BorrowRateBps(u, wad) = BASE_RATE_BPS + MulDiv(x, SLOPE_BPS, wad)
      /\ BorrowRateBps(v, wad) = BASE_RATE_BPS + MulDiv(y, SLOPE_BPS, wad)
  BY <1>3 DEF BorrowRateBps, MulDiv, x, y
<1> QED BY <1>2, <1>4, <1>5 DEF BASE_RATE_BPS

\* A transfer to the market lowers the utilization, and with it the rate of the open
\* interval, unless it is of a pool in which lenders own nothing.
LEMMA DonationLowersRate ==
    ASSUME IInv, IInv', NEW x \in Nat, Donate(x), now' = now, ~LendersOwnNothing
    PROVE  Rate' <= Rate
<1> DEFINE old == DebtFromScaled(totalScaledDebt, borrowIndex)
           mine == cash + old - reserves
<1>1. cash \in Nat /\ old \in Nat /\ reserves \in Nat /\ mine \in Nat \ {0}
  <2>1. cash \in Nat /\ old \in Nat /\ reserves \in Nat
    BY DebtBounds DEF IInv, TypeOK
  <2> HIDE DEF old
  <2>2. reserves <= cash + old /\ reserves # cash + old
    BY DEF IInv, Solvent, Backed, LendersOwnNothing, old
  <2> QED BY <2>1, <2>2
<1>2. cash' = cash + x /\ UNCHANGED <<totalScaledDebt, borrowIndex, reserves>>
  BY DEF Donate, debts, accrual
<1>3. DebtFromScaled(totalScaledDebt', borrowIndex') = old
  BY <1>2
<1> HIDE DEF old
<1>4. mine + x \in Nat \ {0} /\ mine <= mine + x /\ cash' + old - reserves = mine + x
  BY <1>1, <1>2
<1>5. Utilization(old, reserves) = MulDiv(old, WAD, mine)
      /\ Utilization(old, reserves) \in Nat
  <2>1. Utilization(old, reserves) = MulDiv(old, WAD, mine)
    BY <1>1 DEF Utilization
  <2> HIDE DEF mine
  <2> QED BY <1>1, <2>1, Units, MulDivFloor
<1>6. Utilization(old, reserves)' = MulDiv(old', WAD, (mine + x))
  <2>1. old' = old /\ reserves' = reserves
    BY <1>2, <1>3 DEF old
  <2>2. cash' + old' - reserves' = mine + x /\ mine + x # 0
    BY <1>4, <2>1
  <2> HIDE DEF mine
  <2> QED BY <2>2 DEF Utilization
<1>7. old' = old
  BY <1>2, <1>3 DEF old
<1> HIDE DEF mine
<1>8. MulDiv(old, WAD, mine + x) <= MulDiv(old, WAD, mine) /\ MulDiv(old, WAD, mine + x) \in Nat
  BY <1>1, <1>4, MulDivAntitone, MulDivFloor, Units
<1>9. BorrowRateBps(MulDiv(old, WAD, mine + x), WAD) <= BorrowRateBps(MulDiv(old, WAD, mine), WAD)
  BY <1>5, <1>8, RateMonotone, Units
<1>10. Rate = BorrowRateBps(MulDiv(old, WAD, mine), WAD)
  BY <1>5 DEF Rate, old
<1>11. Rate' = BorrowRateBps(MulDiv(old, WAD, mine + x), WAD)
  BY <1>6, <1>7 DEF Rate, old
<1> QED BY <1>9, <1>10, <1>11

\* With the rate no higher, neither is the index.
LEMMA IndexFollowsRate ==
    ASSUME IInv, IInv', Rate' <= Rate,
           UNCHANGED <<totalScaledDebt, borrowIndex, lastAccrual, now>>
    PROVE  Index' <= Index
<1>1. /\ Rate \in Nat /\ Rate' \in Nat /\ Index \in Nat
      /\ borrowIndex \in Nat /\ now - lastAccrual \in Nat
  <2>1. (Index \in Nat /\ Rate \in Nat)'
    BY CurrentNumbers, PTL
  <2> QED BY <2>1, CurrentNumbers DEF IInv, TypeOK, Solvent
<1> DEFINE e == now - lastAccrual
           c == BPS * SECONDS_PER_YEAR
<1>2. c \in Nat \ {0}
  BY Units DEF BPS
<1>3. Growth = (IF totalScaledDebt = 0 THEN 0 ELSE MulDiv(borrowIndex, Rate * e, c))
      /\ Growth' = (IF totalScaledDebt = 0 THEN 0 ELSE MulDiv(borrowIndex, Rate' * e, c))
  BY DEF Growth
<1> HIDE DEF c, e
<1>4. e \in Nat
  BY <1>1 DEF e
<1>5. Rate' * e <= Rate * e /\ Rate' * e \in Nat /\ Rate * e \in Nat
  <2>1. \A a, b \in Nat : a <= b => a * e <= b * e
    BY <1>4
  <2> QED BY <1>1, <1>4, <2>1, MulNat
<1>6. MulDiv(borrowIndex, Rate' * e, c) <= MulDiv(borrowIndex, Rate * e, c)
  <2>1. MulDiv(Rate' * e, borrowIndex, c) <= MulDiv(Rate * e, borrowIndex, c)
    BY <1>1, <1>2, <1>5, MulDivMonotone
  <2>2. \A r \in Nat : r * borrowIndex = borrowIndex * r
    BY <1>1
  <2> QED BY <1>5, <2>1, <2>2 DEF MulDiv
<1>7. MulDiv(borrowIndex, Rate' * e, c) \in Nat /\ MulDiv(borrowIndex, Rate * e, c) \in Nat
  BY <1>1, <1>2, <1>5, MulDivFloor
<1>8. Growth' <= Growth /\ Growth \in Nat /\ Growth' \in Nat
  BY <1>3, <1>6, <1>7
<1>9. borrowIndex + Growth' <= borrowIndex + Growth
  <2>1. \A i, a, b \in Nat : a <= b => i + a <= i + b
    OBVIOUS
  <2>2. borrowIndex \in Nat
    BY <1>1
  <2> QED BY <1>8, <2>1, <2>2
<1>10. Index = borrowIndex + Growth /\ Index' = borrowIndex + Growth'
  BY DEF Index
<1> QED BY <1>9, <1>10

----------------------------------------------------------------------------
(* The health of a position. *)

\* What a transaction does to the index at which the positions will be valued.
LEMMA IndexFalls ==
    ASSUME IInv, IInv', [Next]_vars, now' = now, ~(cash' > cash /\ LendersOwnNothing)
    PROVE  Index' <= Index
<1>1. Index \in Nat /\ cash \in Nat
  BY CurrentNumbers DEF IInv, TypeOK
<1>2. ASSUME StoreIndex PROVE Index' <= Index
  <2>1. Index' = Index
    BY <1>2, IndexSettled
  <2> QED BY <1>1, <2>1
<1>3. ASSUME UNCHANGED <<debts, accrual, cash>> PROVE Index' <= Index
  <2>1. UNCHANGED <<totalScaledDebt, borrowIndex, lastAccrual, reserves, cash, now>>
    BY <1>3 DEF debts, accrual
  <2>2. Rate' = Rate
    BY <2>1 DEF Rate, Utilization, DebtFromScaled
  <2>3. Growth' = Growth
    BY <2>1, <2>2 DEF Growth
  <2>4. Index' = Index
    BY <2>1, <2>3 DEF Index
  <2> QED BY <1>1, <2>4
<1>4. ASSUME NEW x \in Donation, Donate(x) PROVE Index' <= Index
  <2>1. x \in Nat
    BY Inputs
  <2>2. CASE x = 0
    BY <1>1, <1>3, <1>4, <2>2 DEF Donate
  <2>3. CASE x # 0
    <3>1. cash' > cash /\ UNCHANGED <<totalScaledDebt, borrowIndex, lastAccrual, now>>
      BY <1>1, <1>4, <2>1, <2>3 DEF Donate, debts, accrual
    <3>2. Rate' <= Rate
      BY <1>4, <2>1, <3>1, DonationLowersRate
    <3> QED BY <3>1, <3>2, IndexFollowsRate
  <2> QED BY <2>2, <2>3
<1>5. (StoreIndex \/ UNCHANGED <<debts, accrual, cash>> \/ \E x \in Donation : Donate(x))
  BY DEF Next, Deposit, Mint, Enter, Withdraw, Redeem, Leave, DepositCollateral,
         WithdrawCollateral, Borrow, Repay, LiquidateAndReport, Liquidate, SetCaps, SetPaused,
         SetPrice, Rescore, Lapse, Tick, Accrue, market, vars
<1> QED BY <1>2, <1>3, <1>4, <1>5

\* Less debt, more collateral and the same terms and prices are as healthy as before.
LEMMA HealthStays ==
    ASSUME IInv, IInv', UNCHANGED oracle, NEW v \in Borrower, ~Unhealthy(v),
           Index' <= Index, scaledDebt'[v] <= scaledDebt[v],
           collateral'[v] >= collateral[v], tier'[v] = tier[v]
    PROVE  ~Unhealthy(v)'
<1> DEFINE lt == LiquidationThreshold(MaxLtv)[tier[v]]
           dv(d) == MulDivUp(d, oracle["debt"].price, WAD)
           cv(c) == MulDiv(c, oracle["coll"].price, WAD)
<1>1. /\ Index \in Nat /\ Index' \in Nat
      /\ scaledDebt[v] \in Nat /\ scaledDebt'[v] \in Nat
      /\ collateral[v] \in Nat /\ collateral'[v] \in Nat
      /\ oracle["debt"].price \in Nat /\ oracle["coll"].price \in Nat
  <2>1. (Index \in Nat /\ Rate \in Nat)'
    BY CurrentNumbers, PTL
  <2> QED BY <2>1, CurrentNumbers DEF IInv, TypeOK, Asset
<1>2. Debt(v) \in Nat /\ Debt(v)' \in Nat /\ Debt(v)' <= Debt(v)
  <2>1. DebtFromScaled(scaledDebt'[v], Index') <= DebtFromScaled(scaledDebt[v], Index)
    BY <1>1, DebtMonotone
  <2>2. Debt(v)' = DebtFromScaled(scaledDebt'[v], Index')
    BY DEF Debt, DebtFromScaled
  <2> QED BY <1>1, <2>1, <2>2, DebtBounds DEF Debt
<1>3. dv(Debt(v)') \in Nat /\ dv(Debt(v)) \in Nat /\ dv(Debt(v)') <= dv(Debt(v))
  BY <1>1, <1>2, Units, MulDivMonotone, MulDivCeil
<1>4. cv(collateral'[v]) \in Nat /\ cv(collateral[v]) \in Nat /\ cv(collateral[v]) <= cv(collateral'[v])
  BY <1>1, Units, MulDivMonotone, MulDivFloor
<1>5. lt \in Nat
  BY Inputs DEF LiquidationThreshold, LT_BUFFER_BPS, IInv, TypeOK
<1>6. ~(dv(Debt(v)) * BPS > cv(collateral[v]) * lt)
  BY DEF Unhealthy, DebtValue, CollValue, Price
<1>7. Unhealthy(v)' <=> dv(Debt(v)') * BPS > cv(collateral'[v]) * lt
  BY DEF Unhealthy, DebtValue, CollValue, Price, MulDiv, MulDivUp
<1> HIDE DEF dv, cv, lt
<1>8. dv(Debt(v)') * BPS <= dv(Debt(v)) * BPS
  BY <1>3 DEF BPS
<1>9. cv(collateral[v]) * lt <= cv(collateral'[v]) * lt
  BY <1>4, <1>5
<1>10. /\ dv(Debt(v)') * BPS \in Nat /\ dv(Debt(v)) * BPS \in Nat
       /\ cv(collateral[v]) * lt \in Nat /\ cv(collateral'[v]) * lt \in Nat
  BY <1>3, <1>4, <1>5, MulNat DEF BPS
<1> QED BY <1>6, <1>7, <1>8, <1>9, <1>10

\* The two sides of the liquidation test are numbers.
LEMMA ValueTypes ==
    ASSUME NEW c \in Nat, NEW d \in Nat, NEW t \in Tier,
           oracle \in [Asset -> [price : Nat, updatedAt : Nat]]
    PROVE  /\ DebtValue(d) * BPS \in Nat
           /\ CollValue(c) * LiquidationThreshold(MaxLtv)[t] \in Nat
<1>1. oracle["debt"].price \in Nat /\ oracle["coll"].price \in Nat
  BY DEF Asset
<1>2. DebtValue(d) \in Nat /\ CollValue(c) \in Nat
  BY <1>1, Units, MulDivFloor, MulDivCeil DEF DebtValue, CollValue, Price
<1>3. LiquidationThreshold(MaxLtv)[t] \in Nat
  BY Inputs DEF LiquidationThreshold, LT_BUFFER_BPS
<1> QED BY <1>2, <1>3, MulNat DEF BPS

ThresholdTypes ==
    \A w \in Borrower : CollValue(collateral[w]) * LiquidationThreshold(MaxLtv)[tier[w]] \in Nat

\* The liquidation thresholds are naturals.
LEMMA ThresholdsTyped == IInv => ThresholdTypes
<1>1. 0 \in Nat
  OBVIOUS
<1> QED BY <1>1, ValueTypes DEF ThresholdTypes, IInv, TypeOK

\* A position that passes _enforceTerms is healthy: the liquidation threshold of a
\* tier is above its maximum loan to value.
LEMMA TermsAreHealthy ==
    ASSUME NEW c \in Nat, NEW d \in Nat, NEW t \in Tier, NEW b, EnforceTerms(c, d, t, b),
           oracle \in [Asset -> [price : Nat, updatedAt : Nat]]
    PROVE  DebtValue(d) * BPS <= CollValue(c) * LiquidationThreshold(MaxLtv)[t]
<1> DEFINE l == MaxLtv[t]
           h == LiquidationThreshold(MaxLtv)[t]
           x == DebtValue(d)
           y == CollValue(c)
<1>1. l \in Nat /\ h \in Nat /\ l <= h
  BY Inputs DEF LiquidationThreshold, LT_BUFFER_BPS
<1>2. x \in Nat /\ y \in Nat
  BY Units, MulDivFloor, MulDivCeil DEF DebtValue, CollValue, Price, Asset
<1>3. x * BPS <= y * l
  BY DEF EnforceTerms
<1> HIDE DEF l, h, x, y
<1>4. y * l <= y * h
  BY <1>1, <1>2
<1>5. x * BPS \in Nat /\ y * l \in Nat /\ y * h \in Nat
  BY <1>1, <1>2, MulNat DEF BPS
<1>6. x * BPS <= y * h
  BY <1>3, <1>4, <1>5
<1> QED BY <1>6 DEF x, y, h

\* borrow leaves the wallet that borrows healthy.
LEMMA BorrowerIsHealthy ==
    ASSUME IInv, IInv', UNCHANGED env, NEW w \in Borrower, NEW x \in Nat, Borrow(w, x)
    PROVE  ~Unhealthy(w)'
<1> DEFINE s == scaledDebt[w] + ScaledUp(x)
           d == DebtFromScaled(s, Index)
<1>1. /\ s \in Nat /\ Index \in Nat /\ collateral[w] \in Nat /\ effective[w] \in Tier
      /\ oracle \in [Asset -> [price : Nat, updatedAt : Nat]] /\ oracle' = oracle
      /\ scaledDebt'[w] = s /\ tier'[w] = effective[w] /\ collateral' = collateral
  BY CurrentNumbers, ScaledUpBounds DEF Borrow, IInv, TypeOK, pledge, env
<1>2. d \in Nat
  BY <1>1, DebtBounds
<1>3. EnforceTerms(collateral[w], d, effective[w], DebtFromScaled(BucketsAfter(w, x)[effective[w]], Index))
  BY DEF Borrow, CanBorrow
<1> HIDE DEF d
<1>4. DebtValue(d) * BPS <= CollValue(collateral[w]) * LiquidationThreshold(MaxLtv)[effective[w]]
  BY <1>1, <1>2, <1>3, TermsAreHealthy
<1>5. Index' = Index
  BY IndexSettled DEF Borrow, Accrue, env
<1>6. Debt(w)' = d
  BY <1>1, <1>5 DEF Debt, DebtFromScaled, d
<1>7. Unhealthy(w)' <=> DebtValue(d) * BPS > CollValue(collateral[w]) * LiquidationThreshold(MaxLtv)[effective[w]]
  BY <1>1, <1>6 DEF Unhealthy, DebtValue, CollValue, Price
<1>8. DebtValue(d) * BPS \in Nat /\ CollValue(collateral[w]) * LiquidationThreshold(MaxLtv)[effective[w]] \in Nat
  BY <1>1, <1>2, ValueTypes
<1> QED BY <1>4, <1>7, <1>8

\* withdrawCollateral leaves a wallet with debt healthy.
LEMMA WithdrawerIsHealthy ==
    ASSUME IInv, IInv', UNCHANGED env, NEW w \in Borrower, NEW x \in Nat, WithdrawCollateral(w, x),
           scaledDebt[w] > 0
    PROVE  ~Unhealthy(w)'
<1> DEFINE d == Debt(w)
           c == collateral[w] - x
<1>1. /\ d \in Nat /\ c \in Nat /\ effective[w] \in Tier
      /\ oracle \in [Asset -> [price : Nat, updatedAt : Nat]] /\ oracle' = oracle
      /\ scaledDebt'[w] = scaledDebt[w] /\ tier'[w] = effective[w] /\ collateral'[w] = c
  BY ReductionBounds DEF WithdrawCollateral, IInv, TypeOK, env
<1>2. EnforceTerms(c, d, effective[w], DebtFromScaled(Rebucketed(w)[effective[w]], Index))
  BY DEF WithdrawCollateral
<1>3. Index' = Index
  BY IndexSettled DEF WithdrawCollateral, Accrue, env
<1>4. Debt(w)' = d
  BY <1>1, <1>3 DEF Debt, DebtFromScaled
<1> HIDE DEF c, d
<1>5. DebtValue(d) * BPS <= CollValue(c) * LiquidationThreshold(MaxLtv)[effective[w]]
  BY <1>1, <1>2, TermsAreHealthy
<1>6. Unhealthy(w)' <=> DebtValue(d) * BPS > CollValue(c) * LiquidationThreshold(MaxLtv)[effective[w]]
  BY <1>1, <1>4 DEF Unhealthy, DebtValue, CollValue, Price
<1>7. DebtValue(d) * BPS \in Nat /\ CollValue(c) * LiquidationThreshold(MaxLtv)[effective[w]] \in Nat
  BY <1>1, ValueTypes
<1> QED BY <1>5, <1>6, <1>7

\* A position becomes liquidatable only through a price or through interest: for any
\* table of terms the constructor accepts, whatever its owner borrows or withdraws,
\* whatever others do, whenever its score lapses and wherever the caps are moved.
THEOREM OnlyPriceOrTime == Spec => OnlyPriceOrTimeUnwinds
<1>1. ASSUME IInv, IInv', [Next]_vars, NEW v \in Borrower, ~Unhealthy(v), Unhealthy(v)'
      PROVE  \/ oracle' # oracle \/ now' # now
             \/ cash' > cash /\ LendersOwnNothing
  <2>1. SUFFICES ASSUME UNCHANGED <<oracle, now>>, ~(cash' > cash /\ LendersOwnNothing) PROVE FALSE
    OBVIOUS
  <2>2. Index' <= Index
    BY <1>1, <2>1, IndexFalls
  <2>3. /\ scaledDebt \in [Borrower -> Nat] /\ collateral \in [Borrower -> Nat]
        /\ tier \in [Borrower -> Tier]
    BY <1>1 DEF IInv, TypeOK
  <2>4. ~(scaledDebt'[v] <= scaledDebt[v] /\ collateral'[v] >= collateral[v] /\ tier'[v] = tier[v])
    BY <1>1, <2>1, <2>2, HealthStays
  <2>5. ~UNCHANGED <<debts, pledge>>
    BY <2>3, <2>4 DEF debts, pledge
  <2>6. ASSUME NEW w \in Borrower, NEW x \in CollateralInput, DepositCollateral(w, x) PROVE FALSE
    <3>1. x \in Nat
      BY Inputs
    <3> QED BY <2>3, <2>4, <2>6, <3>1 DEF DepositCollateral, debts
  <2>7. ASSUME NEW w \in Borrower, NEW x \in CollateralInput, WithdrawCollateral(w, x), UNCHANGED env
        PROVE  FALSE
    <3>1. x \in Nat
      BY Inputs
    <3>2. CASE scaledDebt[w] > 0 /\ v = w
      BY <1>1, <2>7, <3>1, <3>2, WithdrawerIsHealthy
    <3>3. CASE scaledDebt[w] = 0 /\ v = w
      <4>1. scaledDebt'[v] = 0 /\ Index' \in Nat /\ oracle'["debt"].price \in Nat
        <5>1. (Index \in Nat /\ Rate \in Nat)'
          BY <1>1, CurrentNumbers, PTL
        <5> QED BY <1>1, <2>3, <2>7, <3>3, <5>1 DEF WithdrawCollateral, debts, IInv, TypeOK, Asset
      <4>2. Debt(v)' = 0
        BY <4>1, NothingRoundsToNothing, Units DEF Debt, DebtFromScaled
      <4>3. DebtValue(Debt(v))' = 0
        BY <4>1, <4>2, NothingRoundsToNothing, Units DEF DebtValue, Price
      <4>4. (CollValue(collateral[v]) * LiquidationThreshold(MaxLtv)[tier[v]])' \in Nat
        <5>1. ThresholdTypes'
          BY <1>1, ThresholdsTyped, PTL
        <5> QED BY <5>1 DEF ThresholdTypes
      <4> QED BY <1>1, <4>3, <4>4 DEF Unhealthy, BPS
    <3>4. CASE v # w
      BY <2>3, <2>4, <2>7, <3>4 DEF WithdrawCollateral, debts
    <3> QED BY <2>3, <3>2, <3>3, <3>4
  <2>8. ASSUME NEW w \in Borrower, NEW x \in Amount, Borrow(w, x), UNCHANGED env PROVE FALSE
    <3>1. x \in Nat
      BY Inputs
    <3>2. CASE v = w
      BY <1>1, <2>8, <3>1, <3>2, BorrowerIsHealthy
    <3>3. CASE v # w
      BY <2>3, <2>4, <2>8, <3>3 DEF Borrow, pledge
    <3> QED BY <3>2, <3>3
  <2>9. ASSUME NEW w \in Borrower, NEW x \in RepayInput(w), Repay(w, x) PROVE FALSE
    <3>1. x \in Nat
      BY <1>1, Inputs, ReductionBounds DEF RepayInput
    <3>2. Reduction(w, x) \in Nat
      BY <1>1, <3>1, ReductionBounds
    <3>3. scaledDebt'[v] <= scaledDebt[v] /\ tier' = tier /\ collateral' = collateral
      BY <1>1, <2>9, <3>2, ReductionShrinks DEF Repay, pledge
    <3> QED BY <2>3, <2>4, <3>3
  <2>10. ASSUME NEW w \in Borrower, NEW x \in RepayInput(w), NEW t \in TierInput,
                LiquidateAndReport(w, x, t)
         PROVE  FALSE
    <3>1. x \in Nat /\ Liquidate(w, x) /\ Unhealthy(w)
      BY <1>1, <2>10, Inputs, ReductionBounds DEF RepayInput, LiquidateAndReport, Liquidate, CanLiquidate
    <3>2. v # w
      BY <1>1, <3>1
    <3>3. PICK s \in Nat : ReduceDebt(w, s)
      BY <1>1, <3>1, LiquidationBounds
    <3>4. scaledDebt'[v] = scaledDebt[v] /\ tier' = tier
      BY <1>1, <3>2, <3>3, ReduceDebtPointwise DEF ReduceDebt
    <3>5. collateral'[v] = collateral[v]
      BY <2>3, <3>1, <3>2 DEF Liquidate
    <3> QED BY <2>3, <2>4, <3>4, <3>5
  <2>11. (\/ \E w \in Borrower, x \in CollateralInput : DepositCollateral(w, x)
          \/ \E w \in Borrower, x \in CollateralInput : WithdrawCollateral(w, x) /\ UNCHANGED env
          \/ \E w \in Borrower, x \in Amount : Borrow(w, x) /\ UNCHANGED env
          \/ \E w \in Borrower : \E x \in RepayInput(w) : Repay(w, x)
          \/ \E w \in Borrower : \E x \in RepayInput(w), t \in TierInput : LiquidateAndReport(w, x, t)
          \/ UNCHANGED <<debts, pledge>>)
    BY <1>1 DEF Next, Deposit, Mint, Enter, Withdraw, Redeem, Leave, Donate,
                SetCaps, SetPaused, SetPrice, Rescore, Lapse, Tick, market, vars
  <2> QED BY <2>5, <2>6, <2>7, <2>8, <2>9, <2>10, <2>11
<1>2. IInv /\ IInv' /\ [Next]_vars =>
        [\A w \in Borrower : ~Unhealthy(w) /\ Unhealthy(w)' =>
           \/ oracle' # oracle \/ now' # now
           \/ cash' > cash /\ LendersOwnNothing]_vars
  BY <1>1
<1> QED BY <1>2, Invariance, PTL DEF Spec, OnlyPriceOrTimeUnwinds

----------------------------------------------------------------------------
(* The value of a share. *)

\* The figures of the pool are naturals.
LEMMA NumbersOfThePool ==
    IInv => /\ TotalAssets \in Nat /\ totalSupply \in Nat /\ totalSocializedLoss \in Nat
            /\ cash \in Nat /\ reserves \in Nat /\ totalScaledDebt \in Nat
            /\ TotalDebt \in Nat /\ Index \in Nat
BY TotalAssetsType, Accrued DEF IInv, TypeOK

\* No time has passed since an accrual: the debt is what it was, on the new index,
\* and there is no interest left to take a share of.
LEMMA AccrualSettled ==
    ASSUME IInv, IInv', StoreIndex, now' = now
    PROVE  /\ TotalDebt' = DebtFromScaled(totalScaledDebt', Index)
           /\ Reserves' = reserves'
<1>1. Index' = Index /\ borrowIndex' = Index
  BY IndexSettled DEF StoreIndex
<1>2. (TotalDebt \in Nat)' /\ (reserves \in Nat)'
  BY NumbersOfThePool, PTL
<1>3. TotalDebt' = DebtFromScaled(totalScaledDebt', Index)
  BY <1>1 DEF TotalDebt, DebtFromScaled
<1>4. Interest' = 0
  <2>1. Interest' = TotalDebt' - DebtFromScaled(totalScaledDebt', borrowIndex')
    BY DEF Interest, DebtFromScaled
  <2> QED BY <1>1, <1>2, <1>3, <2>1
<1>5. MulDiv(0, RESERVE_FACTOR_BPS, BPS) = 0
  BY CutAtMost
<1>6. Reserves' = reserves'
  <2>1. Reserves' = reserves' + MulDiv(Interest', RESERVE_FACTOR_BPS, BPS)
    BY DEF Reserves, MulDiv
  <2> QED BY <1>2, <1>4, <1>5, <2>1
<1> QED BY <1>3, <1>6

\* What the pool is worth after a transaction that accrues.
LEMMA AssetsAfter ==
    ASSUME IInv, IInv', StoreIndex, now' = now
    PROVE  TotalAssets' = cash' + DebtFromScaled(totalScaledDebt', Index) - reserves'
BY AccrualSettled DEF TotalAssets

\* Arithmetic on primed figures, which the provers do better with names for them.
LEMMA AddMonotone == ASSUME NEW a \in Nat, NEW b \in Nat, NEW c \in Nat, b <= c PROVE a + b <= a + c
OBVIOUS

LEMMA ElapsedGrows ==
    ASSUME NEW a \in Nat, NEW b \in Nat, NEW c \in Nat, a <= b, b <= c
    PROVE  b - a \in Nat /\ c - a \in Nat /\ b - a <= c - a
OBVIOUS

LEMMA OneMore ==
    ASSUME NEW a \in Nat, NEW b \in Nat, NEW c \in Nat, NEW d \in Nat, b + (c - d) >= a
    PROVE  b + 1 + c - d \in Int /\ b + 1 + c - d >= a + 1
OBVIOUS

\* The value of a share does not fall if the pool is worth no less, a booked loss aside.
PriceHolds ==
    (TotalAssets' + 1 + totalSocializedLoss' - totalSocializedLoss) * (totalSupply + VIRTUAL_SHARES)
        >= (TotalAssets + 1) * (totalSupply' + VIRTUAL_SHARES)

\* While no share is issued or redeemed, what the pool is worth decides.
LEMMA PriceHoldsWithoutShares ==
    ASSUME IInv, IInv', UNCHANGED vault,
           TotalAssets' + (totalSocializedLoss' - totalSocializedLoss) >= TotalAssets
    PROVE  PriceHolds
<1> DEFINE a == TotalAssets
           b == TotalAssets' + 1 + totalSocializedLoss' - totalSocializedLoss
           n == totalSupply + VIRTUAL_SHARES
<1>1. /\ TotalAssets \in Nat /\ totalSupply \in Nat /\ totalSocializedLoss \in Nat
      /\ (TotalAssets \in Nat)' /\ (totalSocializedLoss \in Nat)'
  BY NumbersOfThePool, PTL
<1>2. a \in Nat /\ b \in Int /\ b >= a + 1 /\ n \in Nat
  <2>1. TotalAssets' \in Nat /\ totalSocializedLoss' \in Nat
    BY <1>1
  <2>2. b \in Int /\ b >= a + 1
    BY <1>1, <2>1, OneMore
  <2>3. a \in Nat /\ n \in Nat
    BY <1>1, Units
  <2> HIDE DEF a, b, n
  <2> QED BY <2>2, <2>3
<1> HIDE DEF a, b, n
<1>3. b * n >= (a + 1) * n
  BY <1>2
<1> QED BY <1>3 DEF PriceHolds, vault, a, b, n

\* Who enters pays at least what the shares were worth.
LEMMA EntryPays ==
    ASSUME NEW a \in Nat, NEW n \in Nat, NEW x \in Nat, NEW s \in Nat, s * (a + 1) <= x * n
    PROVE  (a + x + 1) * n >= (a + 1) * (n + s)
<1>1. (a + x + 1) * n = (a + 1) * n + x * n
  OBVIOUS
<1>2. (a + 1) * (n + s) = (a + 1) * n + s * (a + 1)
  OBVIOUS
<1>3. (a + 1) * n \in Nat /\ x * n \in Nat /\ s * (a + 1) \in Nat
  BY MulNat
<1> QED BY <1>1, <1>2, <1>3

\* Who leaves takes at most what the shares were worth.
LEMMA ExitLeaves ==
    ASSUME NEW a \in Nat, NEW n \in Nat, NEW x \in Nat, NEW s \in Nat, x * n <= s * (a + 1),
           x <= a, s <= n
    PROVE  (a - x + 1) * n >= (a + 1) * (n - s)
<1>1. (a - x + 1) * n = (a + 1) * n - x * n
  OBVIOUS
<1>2. (a + 1) * (n - s) = (a + 1) * n - s * (a + 1)
  OBVIOUS
<1>3. (a + 1) * n \in Nat /\ x * n \in Nat /\ s * (a + 1) \in Nat
  BY MulNat
<1> QED BY <1>1, <1>2, <1>3

\* deposit and mint.
LEMMA EntryKeepsPrice ==
    ASSUME IInv, IInv', NEW l \in Lender, NEW x \in Nat, NEW s \in Nat,
           s * (TotalAssets + 1) <= x * (totalSupply + VIRTUAL_SHARES),
           Enter(l, x, s), UNCHANGED env
    PROVE  PriceHolds
<1> DEFINE a == TotalAssets
           n == totalSupply + VIRTUAL_SHARES
<1>1. a \in Nat /\ n \in Nat /\ a = cash + TotalDebt - Reserves
  BY TotalAssetsType, NumbersOfThePool, Units
<1>2. /\ StoreIndex /\ reserves' = Reserves /\ cash' = cash + x /\ totalSupply' = totalSupply + s
      /\ totalScaledDebt' = totalScaledDebt /\ now' = now /\ totalSocializedLoss' = totalSocializedLoss
  BY DEF Enter, Accrue, debts, losses, env
<1>3. /\ TotalDebt \in Nat /\ Reserves \in Nat /\ cash \in Nat /\ totalSupply \in Nat
      /\ totalSocializedLoss \in Nat
  BY Accrued, NumbersOfThePool
<1>4. TotalAssets' = a + x
  <2>1. TotalAssets' = cash + x + TotalDebt - Reserves
    BY <1>2, AssetsAfter DEF TotalDebt
  <2> QED BY <1>1, <1>3, <2>1
<1> HIDE DEF a, n
<1>5. (a + x + 1) * n >= (a + 1) * (n + s)
  BY <1>1, EntryPays DEF a, n
<1>6. n = totalSupply + VIRTUAL_SHARES /\ totalSupply' + VIRTUAL_SHARES = n + s
  BY <1>2, <1>3, Units DEF n
<1>7. TotalAssets' + 1 + totalSocializedLoss' - totalSocializedLoss = a + x + 1
  BY <1>1, <1>2, <1>3, <1>4
<1> QED BY <1>5, <1>6, <1>7 DEF PriceHolds, a

\* withdraw and redeem.
LEMMA ExitKeepsPrice ==
    ASSUME IInv, IInv', NEW l \in Lender, NEW x \in Nat, NEW s \in Nat,
           x * (totalSupply + VIRTUAL_SHARES) <= s * (TotalAssets + 1),
           Leave(l, x, s), UNCHANGED env
    PROVE  PriceHolds
<1> DEFINE a == TotalAssets
           n == totalSupply + VIRTUAL_SHARES
<1>1. a \in Nat /\ n \in Nat /\ a = cash + TotalDebt - Reserves
  BY TotalAssetsType, NumbersOfThePool, Units
<1>2. /\ StoreIndex /\ reserves' = Reserves /\ cash' = cash - x /\ totalSupply' = totalSupply - s
      /\ totalScaledDebt' = totalScaledDebt /\ now' = now /\ totalSocializedLoss' = totalSocializedLoss
      /\ s <= totalSupply
  BY DEF Leave, Accrue, debts, losses, env
<1>3. /\ TotalDebt \in Nat /\ Reserves \in Nat /\ cash \in Nat /\ totalSupply \in Nat
      /\ totalSocializedLoss \in Nat
  BY Accrued, NumbersOfThePool
<1>4. TotalAssets' = a - x
  <2>1. TotalAssets' = (cash - x) + TotalDebt - Reserves
    BY <1>2, AssetsAfter DEF TotalDebt
  <2> QED BY <1>1, <1>3, <2>1
<1>5. x <= a
  BY <1>1, <1>2, <1>3, ExitAtMost
<1>6. s <= n
  BY <1>2, <1>3, Units
<1> HIDE DEF a, n
<1>7. (a - x + 1) * n >= (a + 1) * (n - s)
  BY <1>1, <1>5, <1>6, ExitLeaves DEF a, n
<1>8. n = totalSupply + VIRTUAL_SHARES /\ totalSupply' + VIRTUAL_SHARES = n - s
  BY <1>2, <1>3, Units DEF n
<1>9. TotalAssets' + 1 + totalSocializedLoss' - totalSocializedLoss = a - x + 1
  BY <1>1, <1>2, <1>3, <1>4
<1> QED BY <1>7, <1>8, <1>9 DEF PriceHolds, a

\* What a lender pays on entering.
LEMMA EntryConversions ==
    ASSUME IInv, NEW x \in Nat
    PROVE  /\ ToShares(x) * (TotalAssets + 1) <= x * (totalSupply + VIRTUAL_SHARES)
           /\ x * (TotalAssets + 1) <= ToAssetsUp(x) * (totalSupply + VIRTUAL_SHARES)
<1> DEFINE n == totalSupply + VIRTUAL_SHARES
           a == TotalAssets + 1
<1>1. n \in Nat \ {0} /\ a \in Nat \ {0}
  BY NumbersOfThePool, Units
<1> HIDE DEF n, a
<1>2. MulDiv(x, n, a) * a <= x * n /\ x * a <= MulDivUp(x, a, n) * n
  BY <1>1, MulDivFloor, MulDivCeil
<1> QED BY <1>2 DEF ToShares, ToAssetsUp, n, a

\* The four transactions of a lender round against the one who makes them.
LEMMA LenderKeepsPrice ==
    ASSUME IInv, IInv', UNCHANGED env, NEW l \in Lender, NEW x \in Nat,
           Deposit(l, x) \/ Mint(l, x) \/ Withdraw(l, x) \/ Redeem(l, x)
    PROVE  PriceHolds
<1>1. CASE Deposit(l, x)
  BY <1>1, Conversions, EntryConversions, EntryKeepsPrice DEF Deposit
<1>2. CASE Mint(l, x)
  BY <1>2, Conversions, EntryConversions, EntryKeepsPrice DEF Mint
<1>3. CASE Withdraw(l, x)
  BY <1>3, Conversions, ExitKeepsPrice DEF Withdraw
<1>4. CASE Redeem(l, x)
  BY <1>4, Conversions, ExitKeepsPrice DEF Redeem
<1> QED BY <1>1, <1>2, <1>3, <1>4

\* A repayment or a liquidation: the debt written off is paid for, or booked as a loss.
LEMMA ReductionKeepsPrice ==
    ASSUME IInv, IInv', NEW w \in Borrower, NEW s \in Nat, NEW p \in Nat, NEW f \in Nat,
           StoreIndex, now' = now, UNCHANGED vault,
           ReduceDebt(w, s), s * Index <= (p + f) * RAY,
           cash' = cash + p, reserves' = Reserves - FromReserves(f),
           totalSocializedLoss' = totalSocializedLoss + Socialized(f)
    PROVE  PriceHolds
<1>1. /\ TotalDebt \in Nat /\ Reserves \in Nat /\ cash \in Nat /\ Index \in Nat
      /\ totalSocializedLoss \in Nat /\ totalScaledDebt \in Nat
      /\ TotalAssets = cash + TotalDebt - Reserves
  BY Accrued, NumbersOfThePool, TotalAssetsType
<1>2. FromReserves(f) \in Nat /\ Socialized(f) \in Nat /\ FromReserves(f) + Socialized(f) = f
  BY LossIsSplit
<1>3. s <= totalScaledDebt /\ totalScaledDebt' = totalScaledDebt - s
  BY DEF ReduceDebt, CanReduce
<1>4. TotalDebt <= DebtFromScaled(totalScaledDebt', Index) + (p + f)
  <2>1. p + f \in Nat /\ s * Index <= (p + f) * RAY
    OBVIOUS
  <2>2. DebtFromScaled(totalScaledDebt, Index) <= DebtFromScaled(totalScaledDebt - s, Index) + (p + f)
    BY <1>1, <1>3, <2>1, DebtReduced
  <2> QED BY <1>3, <2>2 DEF TotalDebt
<1>5. DebtFromScaled(totalScaledDebt', Index) \in Nat
  <2>1. totalScaledDebt - s \in Nat
    BY <1>1, <1>3
  <2> QED BY <1>1, <1>3, <2>1, DebtBounds
<1>6. TotalAssets' = cash' + DebtFromScaled(totalScaledDebt', Index) - reserves'
  BY AssetsAfter
<1>7. TotalAssets' + (totalSocializedLoss' - totalSocializedLoss) >= TotalAssets
  BY <1>1, <1>2, <1>4, <1>5, <1>6
<1> QED BY <1>7, PriceHoldsWithoutShares

\* repay is paid for in full.
LEMMA RepayKeepsPrice ==
    ASSUME IInv, IInv', UNCHANGED env, NEW w \in Borrower, NEW x \in Nat, Repay(w, x)
    PROVE  PriceHolds
<1> DEFINE p == Lesser(x, Debt(w))
           s == Reduction(w, x)
<1>1. s \in Nat /\ s * Index <= p * RAY /\ p \in Nat
  BY ReductionBounds
<1>2. /\ StoreIndex /\ reserves' = Reserves /\ ReduceDebt(w, s) /\ cash' = cash + p
      /\ UNCHANGED <<losses, vault>> /\ now' = now
  BY DEF Repay, Accrue, env
<1> HIDE DEF p, s
<1>3. /\ Reserves \in Nat /\ totalSocializedLoss \in Nat
      /\ FromReserves(0) \in Nat /\ Socialized(0) \in Nat /\ FromReserves(0) + Socialized(0) = 0
  BY Accrued, NumbersOfThePool, LossIsSplit
<1>4. /\ s * Index <= (p + 0) * RAY /\ reserves' = Reserves - FromReserves(0)
      /\ totalSocializedLoss' = totalSocializedLoss + Socialized(0)
  BY <1>1, <1>2, <1>3 DEF losses
<1> QED BY <1>1, <1>2, <1>4, ReductionKeepsPrice

\* liquidate is paid for, or books what is not as a loss.
LEMMA LiquidateKeepsPrice ==
    ASSUME IInv, IInv', now' = now, NEW w \in Borrower, NEW x \in Nat, Liquidate(w, x)
    PROVE  PriceHolds
<1>1. Repaid(w, x) \in Nat /\ Shortfall(w, x) \in Nat
  BY LiquidationBounds
<1>2. PICK s \in Nat : ReduceDebt(w, s) /\ s * Index <= (Repaid(w, x) + Shortfall(w, x)) * RAY
  BY LiquidationBounds
<1>3. /\ StoreIndex /\ reserves' = Reserves - FromReserves(Shortfall(w, x))
      /\ cash' = cash + Repaid(w, x) /\ UNCHANGED vault
      /\ totalSocializedLoss' = totalSocializedLoss + Socialized(Shortfall(w, x))
  BY DEF Liquidate
<1> QED BY <1>1, <1>2, <1>3, ReductionKeepsPrice

\* borrow adds at least the loan to the debt.
LEMMA BorrowKeepsPrice ==
    ASSUME IInv, IInv', UNCHANGED env, NEW w \in Borrower, NEW x \in Nat, Borrow(w, x)
    PROVE  PriceHolds
<1> DEFINE s == ScaledUp(x)
<1>1. /\ TotalDebt \in Nat /\ Reserves \in Nat /\ cash \in Nat /\ Index \in Nat
      /\ totalSocializedLoss \in Nat /\ totalScaledDebt \in Nat
      /\ TotalAssets = cash + TotalDebt - Reserves
  BY Accrued, NumbersOfThePool, TotalAssetsType
<1>2. s \in Nat /\ x * RAY <= s * Index
  BY ScaledUpBounds
<1>3. /\ StoreIndex /\ reserves' = Reserves /\ cash' = cash - x
      /\ totalScaledDebt' = totalScaledDebt + s /\ UNCHANGED <<losses, vault>> /\ now' = now
  BY DEF Borrow, Accrue, env
<1> HIDE DEF s
<1>4. TotalDebt + x <= DebtFromScaled(totalScaledDebt + s, Index)
  BY <1>1, <1>2, DebtGrown DEF TotalDebt
<1>5. DebtFromScaled(totalScaledDebt + s, Index) \in Nat
  <2>1. totalScaledDebt + s \in Nat
    BY <1>1, <1>2
  <2> QED BY <1>1, <2>1, DebtBounds
<1>6. TotalAssets' = (cash - x) + DebtFromScaled(totalScaledDebt + s, Index) - Reserves
  BY <1>3, AssetsAfter
<1>7. TotalAssets' + (totalSocializedLoss' - totalSocializedLoss) >= TotalAssets
  BY <1>1, <1>3, <1>4, <1>5, <1>6 DEF losses
<1> QED BY <1>3, <1>7, PriceHoldsWithoutShares

\* withdrawCollateral only accrues.
LEMMA WithdrawCollateralKeepsPrice ==
    ASSUME IInv, IInv', UNCHANGED env, NEW w \in Borrower, NEW x \in Nat, WithdrawCollateral(w, x)
    PROVE  PriceHolds
<1>1. /\ TotalDebt \in Nat /\ Reserves \in Nat /\ cash \in Nat
      /\ totalSocializedLoss \in Nat
      /\ TotalAssets = cash + TotalDebt - Reserves
  BY Accrued, NumbersOfThePool, TotalAssetsType
<1>2. /\ StoreIndex /\ reserves' = Reserves /\ cash' = cash
      /\ totalScaledDebt' = totalScaledDebt /\ UNCHANGED <<losses, vault>> /\ now' = now
  BY DEF WithdrawCollateral, Accrue, env, debts
<1>3. TotalAssets' = cash + TotalDebt - Reserves
  BY <1>2, AssetsAfter DEF TotalDebt
<1>4. TotalAssets' + (totalSocializedLoss' - totalSocializedLoss) >= TotalAssets
  BY <1>1, <1>2, <1>3 DEF losses
<1> QED BY <1>2, <1>4, PriceHoldsWithoutShares

\* The reserves take no more of more interest than the interest grows.
LEMMA CutGrowsSlower ==
    ASSUME NEW x \in Nat, NEW y \in Nat, x <= y
    PROVE  x - MulDiv(x, RESERVE_FACTOR_BPS, BPS) <= y - MulDiv(y, RESERVE_FACTOR_BPS, BPS)
BY DEF MulDiv, RESERVE_FACTOR_BPS, BPS

\* Time only adds to what the lenders own.
LEMMA TimeKeepsPrice ==
    ASSUME IInv, IInv', now' >= now,
           UNCHANGED <<cash, totalScaledDebt, accrual, vault, totalSocializedLoss>>
    PROVE  PriceHolds
<1> DEFINE old == DebtFromScaled(totalScaledDebt, borrowIndex)
           cut(x) == MulDiv(x, RESERVE_FACTOR_BPS, BPS)
<1>1. /\ TotalDebt \in Nat /\ old \in Nat /\ old <= TotalDebt /\ cash \in Nat /\ reserves \in Nat
      /\ totalSocializedLoss \in Nat /\ Index \in Nat /\ Rate \in Nat /\ totalScaledDebt \in Nat
      /\ borrowIndex \in Nat /\ lastAccrual \in Nat /\ now \in Nat /\ lastAccrual <= now /\ now' \in Nat
  BY Accrued, NumbersOfThePool, DebtBounds DEF IInv, TypeOK, Solvent
<1>2. (TotalDebt \in Nat)' /\ (Index \in Nat)'
  BY NumbersOfThePool, PTL
<1>3. Rate' = Rate
  BY DEF Rate, Utilization, DebtFromScaled, accrual
<1>4. Index <= Index'
  <2> DEFINE c == BPS * SECONDS_PER_YEAR
             e == now - lastAccrual
             g == now' - lastAccrual
  <2>1. c \in Nat \ {0} /\ e \in Nat /\ g \in Nat /\ e <= g
    <3>1. e \in Nat /\ g \in Nat /\ e <= g
      BY <1>1, ElapsedGrows
    <3> QED BY <3>1, Units DEF BPS
  <2>2. /\ Growth = (IF totalScaledDebt = 0 THEN 0 ELSE MulDiv(borrowIndex, Rate * e, c))
        /\ Growth' = (IF totalScaledDebt = 0 THEN 0 ELSE MulDiv(borrowIndex, Rate * g, c))
    BY <1>3 DEF Growth, MulDiv, accrual
  <2> HIDE DEF c, e, g
  <2>3. Rate * e \in Nat /\ Rate * g \in Nat /\ Rate * e <= Rate * g
    BY <1>1, <2>1, MulNat
  <2>4. MulDiv(Rate * e, borrowIndex, c) <= MulDiv(Rate * g, borrowIndex, c)
    BY <1>1, <2>1, <2>3, MulDivMonotone
  <2>5. \A r \in Nat : MulDiv(r, borrowIndex, c) = MulDiv(borrowIndex, r, c)
    <3>1. \A r \in Nat : r * borrowIndex = borrowIndex * r
      BY <1>1
    <3> QED BY <3>1 DEF MulDiv
  <2>6. /\ MulDiv(borrowIndex, Rate * e, c) \in Nat /\ MulDiv(borrowIndex, Rate * g, c) \in Nat
        /\ MulDiv(borrowIndex, Rate * e, c) <= MulDiv(borrowIndex, Rate * g, c)
    BY <1>1, <2>1, <2>3, <2>4, <2>5, MulDivFloor
  <2>7. Growth \in Nat /\ Growth' \in Nat /\ Growth <= Growth'
    BY <2>2, <2>6
  <2>8. Index = borrowIndex + Growth /\ Index' = borrowIndex + Growth'
    BY DEF Index, accrual
  <2>9. borrowIndex + Growth <= borrowIndex + Growth'
    BY <1>1, <2>7, AddMonotone
  <2> QED BY <2>8, <2>9
<1>5. TotalDebt <= TotalDebt'
  <2>1. DebtFromScaled(totalScaledDebt, Index) <= DebtFromScaled(totalScaledDebt, Index')
    BY <1>1, <1>2, <1>4, DebtMonotone
  <2> QED BY <2>1 DEF TotalDebt, DebtFromScaled
<1>6. /\ TotalAssets = cash + TotalDebt - (reserves + cut(TotalDebt - old))
      /\ TotalAssets' = cash + TotalDebt' - (reserves + cut(TotalDebt' - old))
  BY DEF TotalAssets, Reserves, Interest, DebtFromScaled, MulDiv, accrual
<1>7. (TotalDebt - old) - cut(TotalDebt - old) <= (TotalDebt' - old) - cut(TotalDebt' - old)
  <2> DEFINE x == TotalDebt - old
             y == TotalDebt' - old
  <2>1. x \in Nat /\ y \in Nat /\ x <= y
    BY <1>1, <1>2, <1>5
  <2> HIDE DEF x, y
  <2>2. x - cut(x) <= y - cut(y)
    BY <2>1, CutGrowsSlower
  <2> QED BY <2>2 DEF x, y
<1>8. cut(TotalDebt - old) \in Nat /\ cut(TotalDebt' - old) \in Nat
  <2>1. TotalDebt - old \in Nat /\ TotalDebt' - old \in Nat
    BY <1>1, <1>2, <1>5
  <2> HIDE DEF old
  <2> QED BY <2>1, CutAtMost
<1>9. TotalAssets' + (totalSocializedLoss' - totalSocializedLoss) >= TotalAssets
  <2> HIDE DEF old, cut
  <2> QED BY <1>1, <1>2, <1>6, <1>7, <1>8
<1> QED BY <1>9, PriceHoldsWithoutShares

\* A share loses value only by a socialized loss, and by no more than it, whatever
\* lenders and borrowers do and however long interest runs.
THEOREM SharePriceHolds == Spec => SharePriceFallsOnlyBySocialization
<1>1. ASSUME IInv, IInv', [Next]_vars
      PROVE  (cash' > cash /\ UNCHANGED <<debts, accrual, vault>>) \/ PriceHolds
  <2>1. ASSUME NEW l \in Lender, NEW x \in AssetInput, Deposit(l, x) \/ Withdraw(l, x), UNCHANGED env
        PROVE  PriceHolds
    <3>1. x \in Nat
      BY Inputs
    <3> QED BY <1>1, <2>1, <3>1, LenderKeepsPrice
  <2>2. ASSUME NEW l \in Lender, NEW x \in ShareInput, Mint(l, x) \/ Redeem(l, x), UNCHANGED env
        PROVE  PriceHolds
    <3>1. x \in Nat
      BY Inputs
    <3> QED BY <1>1, <2>2, <3>1, LenderKeepsPrice
  <2>3. ASSUME NEW x \in Donation, Donate(x), UNCHANGED env
        PROVE  (cash' > cash /\ UNCHANGED <<debts, accrual, vault>>) \/ PriceHolds
    <3>1. x \in Nat /\ cash \in Nat /\ now \in Nat
      BY <1>1, Inputs, NumbersOfThePool DEF IInv, TypeOK
    <3>2. CASE x > 0
      BY <2>3, <3>1, <3>2 DEF Donate
    <3>3. CASE x = 0
      <4>1. /\ UNCHANGED <<cash, totalScaledDebt, accrual, vault, totalSocializedLoss>>
            /\ now' >= now
        BY <2>3, <3>1, <3>3 DEF Donate, debts, losses, env
      <4> QED BY <1>1, <4>1, TimeKeepsPrice
    <3> QED BY <3>1, <3>2, <3>3
  <2>4. ASSUME NEW w \in Borrower, NEW x \in CollateralInput, WithdrawCollateral(w, x), UNCHANGED env
        PROVE  PriceHolds
    <3>1. x \in Nat
      BY Inputs
    <3> QED BY <1>1, <2>4, <3>1, WithdrawCollateralKeepsPrice
  <2>5. ASSUME NEW w \in Borrower, NEW x \in Amount, Borrow(w, x), UNCHANGED env PROVE PriceHolds
    <3>1. x \in Nat
      BY Inputs
    <3> QED BY <1>1, <2>5, <3>1, BorrowKeepsPrice
  <2>6. ASSUME NEW w \in Borrower, NEW x \in RepayInput(w), Repay(w, x), UNCHANGED env PROVE PriceHolds
    <3>1. x \in Nat
      BY <1>1, Inputs, ReductionBounds DEF RepayInput
    <3> QED BY <1>1, <2>6, <3>1, RepayKeepsPrice
  <2>7. ASSUME NEW w \in Borrower, NEW x \in RepayInput(w), NEW t \in TierInput,
               LiquidateAndReport(w, x, t)
        PROVE  PriceHolds
    <3>1. x \in Nat /\ Liquidate(w, x) /\ now' = now
      BY <1>1, <2>7, Inputs, ReductionBounds DEF RepayInput, LiquidateAndReport
    <3> QED BY <1>1, <3>1, LiquidateKeepsPrice
  <2>8. CASE UNCHANGED <<cash, totalScaledDebt, accrual, vault, totalSocializedLoss>> /\ now' >= now
    BY <1>1, <2>8, TimeKeepsPrice
  <2>9. ASSUME \/ \E w \in Borrower, x \in CollateralInput : DepositCollateral(w, x) /\ UNCHANGED env
               \/ \E cap \in CapInput, tierCaps \in TierCapInput : SetCaps(cap, tierCaps) /\ UNCHANGED env
               \/ \E b \in BOOLEAN : SetPaused(b) /\ UNCHANGED env
               \/ \E a \in Asset : \E p \in PriceInput[a] : SetPrice(a, p)
               \/ \E w \in Borrower, t \in TierInput : Rescore(w, t)
               \/ \E W \in SUBSET Borrower : Lapse(W)
               \/ \E W \in SUBSET Borrower : Tick(W)
               \/ UNCHANGED vars
        PROVE  UNCHANGED <<cash, totalScaledDebt, accrual, vault, totalSocializedLoss>> /\ now' >= now
    <3>1. now \in Nat
      BY <1>1 DEF IInv, TypeOK
    <3> QED BY <2>9, <3>1 DEF DepositCollateral, SetCaps, SetPaused, SetPrice, Rescore, Lapse, Tick,
                debts, losses, market, env, vars
  <2> QED BY <1>1, <2>1, <2>2, <2>3, <2>4, <2>5, <2>6, <2>7, <2>8, <2>9 DEF Next
<1>2. IInv /\ IInv' /\ [Next]_vars =>
        [\/ cash' > cash /\ UNCHANGED <<debts, accrual, vault>>
         \/ (TotalAssets' + 1 + totalSocializedLoss' - totalSocializedLoss)
                * (totalSupply + VIRTUAL_SHARES)
              >= (TotalAssets + 1) * (totalSupply' + VIRTUAL_SHARES)]_vars
  BY <1>1 DEF PriceHolds
<1> QED BY <1>2, Invariance, PTL DEF Spec, SharePriceFallsOnlyBySocialization

----------------------------------------------------------------------------
(* The page's own variables. *)

Fn == {"none", "approve", "submitAttestation", "depositCollateral", "borrow", "repay",
       "withdrawCollateral"}

\* A call as the page signs it: an amount, or the largest one to repay all there is.
CallType ==
    {s \in [fn : Fn, token : Asset, amount : Nat \cup {MaxUint}] : s.amount = MaxUint => s.fn = "repay"}

Stage == {"ready", "request", "sign", "wait"}
TxState == {"none", "pending", "success", "reverted"}
FlowType == [stage : Stage, spec : CallType, tx : TxState, same : BOOLEAN, home : BOOLEAN]

\* A snapshot's amounts.
ViewOK(v) ==
    /\ v.debt \in Nat /\ v.rate \in Nat /\ v.max \in Nat /\ v.collateral \in Nat
    /\ v.balance \in [Asset -> Nat] /\ v.allowance \in [Asset -> Nat]

TokensOK == balance \in [Asset -> Nat] /\ allowance \in [Asset -> Nat]

PanelOK ==
    /\ tab \in Tab /\ input \in Nat /\ flow \in FlowType /\ aside \in FlowType
    /\ spent \in BOOLEAN /\ unsure \in BOOLEAN

PageOK == ViewOK(snap) /\ TokensOK /\ PanelOK

LEMMA PageInputs ==
    /\ User \in Borrower /\ Typed \subseteq Nat \ {0} /\ SLACK \in Nat
    /\ DUST \in Nat \ {0} /\ APPROVE_DIV \in Nat \ {0} /\ Funds \in [Asset -> Nat]
BY PageAssumption

\* A flow with nothing under way.
LEMMA NewFlowType == NewFlow \in FlowType /\ NoSpec \in CallType
<1>1. NoSpec \in CallType
  BY DEF NoSpec, CallType, Asset, MaxUint, Fn
<1> QED BY <1>1 DEF NewFlow, FlowType, Stage, TxState

\* What the panel offers is a call.
LEMMA OfferType ==
    ASSUME NEW v, ViewOK(v), NEW t \in Tab, NEW x \in Nat
    PROVE  Offer(v, t, x) \in CallType
<1>1. ASSUME NEW fn \in Fn, NEW a \in Asset, NEW y \in Nat
      PROVE  Call(fn, a, y) \in CallType /\ Approve(a, y) \in CallType
  BY DEF Call, Approve, CallType, MaxUint, Fn
<1>2. Call("repay", "debt", MaxUint) \in CallType
  BY DEF Call, CallType, Asset, MaxUint, Fn
<1>3. "coll" \in Asset /\ "debt" \in Asset
  BY DEF Asset
<1>4. OfferDeposit(v, x) \in CallType
  BY <1>1, <1>3, NewFlowType DEF OfferDeposit, Fn
<1>5. OfferBorrow(v, x) \in CallType
  BY <1>1, <1>3, NewFlowType DEF OfferBorrow, Fn
<1>6. OfferRepay(v, x) \in CallType
  <2>1. v.debt + v.debt \div APPROVE_DIV + 1 \in Nat
    BY PageInputs, DivFloor DEF ViewOK
  <2> QED BY <1>1, <1>2, <1>3, <2>1, NewFlowType DEF OfferRepay, Fn
<1>7. OfferWithdraw(v, x) \in CallType
  BY <1>1, <1>3, NewFlowType DEF OfferWithdraw, Fn
<1> QED BY <1>4, <1>5, <1>6, <1>7, NewFlowType DEF Offer, Tab

\* The headroom, and what the two buttons type, are amounts; All types some.
LEMMA ButtonTypes ==
    ASSUME NEW v, ViewOK(v)
    PROVE  Headroom(v) \in Nat /\ MaxInput(v) \in Nat /\ AllInput(v) \in Nat \ {0}
<1>1. Headroom(v) \in Nat
  <2>1. v.rate * SLACK \in Nat /\ BPS * SECONDS_PER_YEAR \in Nat \ {0}
    BY PageInputs, Units, MulNat DEF ViewOK, BPS
  <2>2. MulDiv(v.debt, v.rate * SLACK, BPS * SECONDS_PER_YEAR) \in Nat
    BY <2>1, MulDivFloor DEF ViewOK
  <2> QED BY <2>2, PageInputs DEF Headroom
<1> DEFINE h == Headroom(v)
<1> HIDE DEF h
<1>2. MaxInput(v) \in Nat
  <2> DEFINE safeMax == IF v.max > h THEN v.max - h ELSE 0
  <2>1. safeMax \in Nat
    BY <1>1 DEF ViewOK, h
  <2> HIDE DEF safeMax
  <2>2. safeMax \div DUST \in Nat
    BY <2>1, PageInputs, DivFloor
  <2>3. (safeMax \div DUST) * DUST \in Nat
    BY <2>2, PageInputs, MulNat
  <2> QED BY <2>3 DEF MaxInput, safeMax, h
<1>3. AllInput(v) \in Nat \ {0}
  <2>1. (v.debt + h) \div DUST \in Nat
    <3> DEFINE z == v.debt + h
    <3>1. z \in Nat
      BY <1>1 DEF ViewOK, h
    <3> HIDE DEF z
    <3>2. z \div DUST \in Nat
      BY <3>1, PageInputs, DivFloor
    <3> QED BY <3>2 DEF z
  <2> DEFINE k == (v.debt + h) \div DUST
  <2> HIDE DEF k
  <2>2. (k + 1) * DUST \in Nat \ {0}
    BY <2>1, PageInputs DEF k
  <2> QED BY <2>2 DEF AllInput, k, h
<1> QED BY <1>1, <1>2, <1>3 DEF h

----------------------------------------------------------------------------
(* The market under the page. *)

Books == SumOfDebt /\ SumsOfBuckets /\ SumOfCollateral

AtPar == \A a \in Asset : oracle[a].price = WAD

ChainOK == IInv /\ Books /\ AtPar

LEMMA BooksAre == Books <=> TotalsAreSums
BY DEF Books, TotalsAreSums, SumOfDebt, SumsOfBuckets, SumOfCollateral, Bucket

\* What the page reads is amounts.
LEMMA ViewType ==
    ASSUME ChainOK, TokensOK
    PROVE  ViewOK(View)
<1>1. View.debt \in Nat
  BY ReductionBounds, PageInputs DEF ChainOK, View
<1>2. View.rate \in Nat
  BY Accrued DEF ChainOK, View
<1>3. View.max \in Nat
  BY MaxBorrowWithin, PageInputs DEF ChainOK, View
<1>4. View.collateral \in Nat
  BY PageInputs DEF ChainOK, View, IInv, TypeOK
<1>5. View.balance \in [Asset -> Nat] /\ View.allowance \in [Asset -> Nat]
  BY DEF View, TokensOK
<1> QED BY <1>1, <1>2, <1>3, <1>4, <1>5 DEF ViewOK

\* A transaction of one user's does to the market what the market's does.
LEMMA DepositKeepsChain ==
    ASSUME ChainOK, UNCHANGED env, NEW w \in Borrower, NEW x \in Nat, DepositCollateral(w, x)
    PROVE  ChainOK'
<1>1. IInv'
  BY DepositCollateralKeeps DEF ChainOK
<1>2. SumOfDebt' /\ SumsOfBuckets'
  BY DEF ChainOK, Books, DepositCollateral, debts, SumOfDebt, SumsOfBuckets
<1>3. SumOfCollateral'
  <2> DEFINE v == collateral[w] + x
  <2>1. collateral \in [Borrower -> Nat] /\ totalCollateral \in Nat /\ collateral[w] \in Nat
    BY DEF ChainOK, IInv, TypeOK
  <2>2. /\ collateral' = [collateral EXCEPT ![w] = v] /\ v \in Nat
        /\ totalCollateral' = totalCollateral + v - collateral[w]
    BY <2>1 DEF DepositCollateral
  <2> HIDE DEF v
  <2> QED BY <2>2, CollateralKeepsSum DEF ChainOK, Books
<1>4. AtPar'
  BY DEF ChainOK, AtPar, env
<1> QED BY <1>1, <1>2, <1>3, <1>4 DEF ChainOK, Books

LEMMA WithdrawKeepsChain ==
    ASSUME ChainOK, UNCHANGED env, NEW w \in Borrower, NEW x \in Nat, WithdrawCollateral(w, x)
    PROVE  ChainOK'
<1>1. IInv'
  BY WithdrawCollateralKeeps DEF ChainOK
<1>2. SumOfDebt' /\ SumsOfBuckets'
  BY WithdrawalKeepsSums DEF ChainOK, Books
<1>3. SumOfCollateral'
  <2> DEFINE v == collateral[w] - x
  <2>1. collateral \in [Borrower -> Nat] /\ totalCollateral \in Nat /\ collateral[w] \in Nat
    BY DEF ChainOK, IInv, TypeOK
  <2>2. /\ collateral' = [collateral EXCEPT ![w] = v] /\ v \in Nat
        /\ totalCollateral' = totalCollateral + v - collateral[w]
    BY <2>1 DEF WithdrawCollateral
  <2> HIDE DEF v
  <2> QED BY <2>2, CollateralKeepsSum DEF ChainOK, Books
<1>4. AtPar'
  BY DEF ChainOK, AtPar, env
<1> QED BY <1>1, <1>2, <1>3, <1>4 DEF ChainOK, Books

LEMMA BorrowKeepsChain ==
    ASSUME ChainOK, UNCHANGED env, NEW w \in Borrower, NEW x \in Nat, Borrow(w, x)
    PROVE  ChainOK'
<1>1. IInv'
  BY BorrowKeeps DEF ChainOK
<1>2. SumOfDebt' /\ SumsOfBuckets'
  BY BorrowKeepsSums DEF ChainOK, Books
<1>3. SumOfCollateral'
  BY DEF ChainOK, Books, Borrow, pledge, SumOfCollateral
<1>4. AtPar'
  BY DEF ChainOK, AtPar, env
<1> QED BY <1>1, <1>2, <1>3, <1>4 DEF ChainOK, Books

LEMMA RepayKeepsChain ==
    ASSUME ChainOK, UNCHANGED env, NEW w \in Borrower, NEW x \in Nat, Repay(w, x)
    PROVE  ChainOK'
<1>1. IInv'
  BY RepayKeeps DEF ChainOK
<1>2. SumOfDebt' /\ SumsOfBuckets'
  BY ReduceDebtKeepsSums, ReductionBounds DEF ChainOK, Books, Repay
<1>3. SumOfCollateral'
  BY DEF ChainOK, Books, Repay, pledge, SumOfCollateral
<1>4. AtPar'
  BY DEF ChainOK, AtPar, env
<1> QED BY <1>1, <1>2, <1>3, <1>4 DEF ChainOK, Books

\* A score, time or a pause: the books are not touched.
LEMMA WorldKeepsChain ==
    ASSUME ChainOK,
           \/ \E w \in Borrower, t \in TierInput : Rescore(w, t)
           \/ \E W \in SUBSET Borrower : Tick(W)
           \/ \E b \in BOOLEAN : SetPaused(b) /\ UNCHANGED env
    PROVE  ChainOK'
<1>1. IInv'
  BY EnvKeeps, AdminKeeps DEF ChainOK
<1>2. UNCHANGED <<pledge, debts, oracle>>
  BY DEF Rescore, Tick, SetPaused, env, market
<1> QED BY <1>1, <1>2 DEF ChainOK, Books, AtPar, pledge, debts, SumOfDebt, SumsOfBuckets, SumOfCollateral

\* A step that leaves the chain alone.
LEMMA IdleKeepsChain == ASSUME ChainOK, UNCHANGED vars PROVE ChainOK'
<1>1. IInv'
  BY InvStep DEF ChainOK
<1>2. UNCHANGED <<pledge, debts, oracle>>
  BY DEF vars, market, env
<1> QED BY <1>1, <1>2 DEF ChainOK, Books, AtPar, pledge, debts, SumOfDebt, SumsOfBuckets, SumOfCollateral

\* A balance or an allowance moves by what the token moved.
LEMMA Moved ==
    ASSUME TokensOK, NEW a \in Asset, NEW d \in Int, NEW b \in BOOLEAN, Move(a, d, b),
           balance[a] + d >= 0, b => allowance[a] + d >= 0
    PROVE  TokensOK'
<1>1. balance' \in [Asset -> Nat]
  BY DEF Move, TokensOK
<1>2. allowance' \in [Asset -> Nat]
  BY DEF Move, TokensOK
<1> QED BY <1>1, <1>2 DEF TokensOK

\* What is due of a repayment is an amount, and what is paid of it.
LEMMA DueType ==
    ASSUME ChainOK, NEW x \in Nat \cup {MaxUint}
    PROVE  Due(x) \in Nat /\ Paid(x) \in Nat
<1>1. Debt(User) \in Nat
  BY ReductionBounds, PageInputs DEF ChainOK
<1> QED BY <1>1 DEF Due, Paid, Lesser, MaxUint

\* What a mined transaction does to the chain.
LEMMA ExecuteKeepsChain ==
    ASSUME ChainOK, TokensOK, NEW s \in CallType, Execute(s)
    PROVE  ChainOK' /\ TokensOK'
<1>1. s.amount \in Nat \cup {MaxUint} /\ s.token \in Asset /\ (s.fn # "repay" => s.amount \in Nat)
  BY DEF CallType
<1>2. "coll" \in Asset /\ "debt" \in Asset
  BY DEF Asset
<1>3. balance \in [Asset -> Nat] /\ allowance \in [Asset -> Nat]
  BY DEF TokensOK
<1>4. CASE s.fn = "approve"
  <2>1. ChainOK'
    BY <1>4, IdleKeepsChain DEF Execute
  <2>2. s.amount \in Nat
    BY <1>1, <1>4
  <2> QED BY <1>1, <1>3, <1>4, <2>1, <2>2 DEF Execute, TokensOK
<1>5. CASE s.fn = "submitAttestation"
  BY <1>5, WorldKeepsChain, PageInputs DEF Execute, TokensOK, tokens
<1>6. CASE s.fn = "depositCollateral"
  <2>1. s.amount \in Nat
    BY <1>1, <1>6
  <2>2. Holds("coll", s.amount) /\ DepositCollateral(User, s.amount) /\ Move("coll", -s.amount, TRUE) /\ UNCHANGED env
    BY <1>6 DEF Execute
  <2>3. ChainOK'
    BY <2>1, <2>2, DepositKeepsChain, PageInputs
  <2>4. -s.amount \in Int /\ balance["coll"] + (-s.amount) >= 0 /\ allowance["coll"] + (-s.amount) >= 0
    BY <1>2, <1>3, <2>1, <2>2 DEF Holds
  <2>5. TokensOK'
    BY <1>2, <2>2, <2>4, Moved
  <2> QED BY <2>3, <2>5
<1>7. CASE s.fn = "borrow"
  <2>1. s.amount \in Nat
    BY <1>1, <1>7
  <2>2. Borrow(User, s.amount) /\ Move("debt", s.amount, FALSE) /\ UNCHANGED env
    BY <1>7 DEF Execute
  <2>3. ChainOK'
    BY <2>1, <2>2, BorrowKeepsChain, PageInputs
  <2>4. s.amount \in Int /\ balance["debt"] + s.amount >= 0
    BY <1>2, <1>3, <2>1
  <2>5. TokensOK'
    BY <1>2, <2>2, <2>4, Moved
  <2> QED BY <2>3, <2>5
<1>8. CASE s.fn = "repay"
  <2>1. Due(s.amount) \in Nat /\ Paid(s.amount) \in Nat
    BY <1>1, DueType
  <2>2. Holds("debt", Due(s.amount)) /\ Repay(User, Paid(s.amount)) /\ Move("debt", -Due(s.amount), TRUE) /\ UNCHANGED env
    BY <1>8 DEF Execute
  <2>3. ChainOK'
    BY <2>1, <2>2, RepayKeepsChain, PageInputs
  <2>4. -Due(s.amount) \in Int /\ balance["debt"] + (-Due(s.amount)) >= 0 /\ allowance["debt"] + (-Due(s.amount)) >= 0
    BY <1>2, <1>3, <2>1, <2>2 DEF Holds
  <2>5. TokensOK'
    BY <1>2, <2>2, <2>4, Moved
  <2> QED BY <2>3, <2>5
<1>9. CASE s.fn = "withdrawCollateral"
  <2>1. s.amount \in Nat
    BY <1>1, <1>9
  <2>2. WithdrawCollateral(User, s.amount) /\ Move("coll", s.amount, FALSE) /\ UNCHANGED env
    BY <1>9 DEF Execute
  <2>3. ChainOK'
    BY <2>1, <2>2, WithdrawKeepsChain, PageInputs
  <2>4. s.amount \in Int /\ balance["coll"] + s.amount >= 0
    BY <1>2, <1>3, <2>1
  <2>5. TokensOK'
    BY <1>2, <2>2, <2>4, Moved
  <2> QED BY <2>3, <2>5
<1> QED BY <1>4, <1>5, <1>6, <1>7, <1>8, <1>9 DEF Execute

----------------------------------------------------------------------------
(* The initial states. *)

\* One position is all there is to a total.
LEMMA SumOfOne ==
    ASSUME NEW x \in Nat, NEW g, g = [w \in Borrower |-> IF w = User THEN x ELSE 0]
    PROVE  Total(g, Borrower) = x
<1> DEFINE f == [w \in Borrower |-> 0]
<1>1. Total(f, Borrower) = 0
  BY SumsOfZero
<1>2. f \in [Borrower -> Nat] /\ g \in [Borrower -> Nat] /\ f[User] = 0 /\ g[User] = x
      /\ \A y \in Borrower : y # User => g[y] = f[y]
  BY PageInputs
<1> HIDE DEF f
<1>3. Total(g, Borrower) + f[User] = Total(f, Borrower) + g[User]
  BY <1>2, TotalChanged, Borrowers, PageInputs
<1>4. Total(g, Borrower) \in Nat
  BY <1>2, TotalType, Borrowers
<1> QED BY <1>1, <1>2, <1>3, <1>4

LEMMA PageInitBooks == ASSUME PageInit, TypeOK PROVE Books
<1> PICK p \in Positions :
           /\ collateral = [w \in Borrower |-> IF w = User THEN p.collateral ELSE 0]
           /\ scaledDebt = [w \in Borrower |-> IF w = User THEN p.debt ELSE 0]
  BY DEF PageInit
<1>1. p.collateral \in Nat /\ p.debt \in Nat
  BY PageAssumption
<1>2. collateral[User] = p.collateral /\ scaledDebt[User] = p.debt
  BY PageInputs
<1>3. SumOfDebt
  BY <1>1, <1>2, SumOfOne DEF PageInit, SumOfDebt
<1>4. SumOfCollateral
  BY <1>1, <1>2, SumOfOne DEF PageInit, SumOfCollateral
<1>5. SumsOfBuckets
  <2> SUFFICES ASSUME NEW t \in Tier PROVE scaledDebtByTier[t] = Bucket(scaledDebt, tier, t)
    BY DEF SumsOfBuckets
  <2>1. \A w \in Borrower : tier[w] = FLOOR
    BY DEF PageInit
  <2>2. CASE t = FLOOR
    <3>1. {w \in Borrower : tier[w] = t} = Borrower
      BY <2>1, <2>2
    <3>2. scaledDebtByTier[t] = totalScaledDebt
      BY <2>2 DEF PageInit
    <3> QED BY <1>3, <3>1, <3>2 DEF Bucket, SumOfDebt
  <2>3. CASE t # FLOOR
    <3>1. {w \in Borrower : tier[w] = t} = {}
      BY <2>1, <2>3
    <3>2. scaledDebtByTier[t] = 0
      BY <2>3 DEF PageInit
    <3>3. Total(scaledDebt, {}) = 0
      <4>1. IsFiniteSet({}) /\ \A y \in {} : scaledDebt[y] = 0
        BY FS_EmptySet
      <4> QED BY <4>1, SumZero DEF Total
    <3> QED BY <3>1, <3>2, <3>3 DEF Bucket
  <2> QED BY <2>2, <2>3
<1> QED BY <1>3, <1>4, <1>5 DEF Books

LEMMA PageInitChain == PageInit => ChainOK
<1> SUFFICES ASSUME PageInit PROVE ChainOK
  OBVIOUS
<1>1. PICK p \in Positions :
           /\ collateral = [w \in Borrower |-> IF w = User THEN p.collateral ELSE 0]
           /\ scaledDebt = [w \in Borrower |-> IF w = User THEN p.debt ELSE 0]
           /\ cash = MaxCash - p.debt
  BY DEF PageInit
<1>2. p.collateral \in Nat /\ p.debt \in 0 .. MaxCash /\ MaxCash \in Nat
  BY PageAssumption, MarketAssumption
<1>3. collateral \in [Borrower -> Nat] /\ scaledDebt \in [Borrower -> Nat] /\ cash \in Nat
  BY <1>1, <1>2
<1>4. totalCollateral \in Nat /\ totalScaledDebt \in Nat
  BY <1>3, PageInputs DEF PageInit
<1>5. tier \in [Borrower -> Tier] /\ scaledDebtByTier \in [Tier -> Nat] /\ effective \in [Borrower -> Tier]
  BY <1>4 DEF PageInit, Tier, FLOOR
<1>6. shares \in [Lender -> Nat] /\ totalSupply \in Nat
  <2>1. MaxCash * VIRTUAL_SHARES \in Nat
    BY <1>2, Units, MulNat
  <2> QED BY <2>1 DEF PageInit
<1>7. oracle \in [Asset -> [price : Nat, updatedAt : Nat]] /\ AtPar
  <2>1. oracle \in [Asset -> {[price |-> WAD, updatedAt |-> 1]}]
    BY DEF PageInit
  <2>2. [price |-> WAD, updatedAt |-> 1] \in [price : Nat, updatedAt : Nat]
    BY Units
  <2> QED BY <2>1, <2>2 DEF AtPar
<1>8. recorded \in [Borrower -> [count : Nat, shortfall : Nat]]
  BY DEF PageInit
<1>9. TypeOK
  BY <1>3, <1>4, <1>5, <1>6, <1>7, <1>8, Inputs, Units DEF PageInit, TypeOK
<1>10. Solvent
  <2>1. DebtFromScaled(totalScaledDebt, borrowIndex) \in Nat
    BY <1>9, DebtBounds DEF TypeOK
  <2> QED BY <1>3, <2>1, Units DEF PageInit, Solvent, Backed
<1> QED BY <1>7, <1>9, <1>10, PageInitBooks DEF ChainOK, IInv

LEMMA PageInitPanel == PageInit => PageOK
<1> SUFFICES ASSUME PageInit PROVE PageOK
  OBVIOUS
<1>1. TokensOK
  BY PageInputs DEF PageInit, TokensOK
<1>2. ViewOK(snap)
  BY <1>1, PageInitChain, ViewType DEF PageInit
<1>3. PanelOK
  BY NewFlowType DEF PageInit, PanelOK, Tab
<1> QED BY <1>1, <1>2, <1>3 DEF PageOK

----------------------------------------------------------------------------
(* The steps. *)

\* What a step does to the chain: a transaction of a flow is mined, the world moves, or
\* nothing happens there.
LEMMA ChainSteps ==
    ASSUME ChainOK, PageOK, [PageNext]_pageVars
    PROVE  ChainOK' /\ TokensOK'
<1>0. TokensOK /\ flow.spec \in CallType /\ aside.spec \in CallType
  BY DEF PageOK, PanelOK, FlowType
<1>1. ASSUME UNCHANGED <<vars, tokens>> PROVE ChainOK' /\ TokensOK'
  BY <1>0, <1>1, IdleKeepsChain DEF tokens, TokensOK
<1>2. CASE MineFlow
  BY <1>0, <1>1, <1>2, ExecuteKeepsChain DEF MineFlow, Mined, tokens
<1>3. CASE MineAside
  BY <1>0, <1>1, <1>3, ExecuteKeepsChain DEF MineAside, Mined, tokens
<1>4. CASE Elsewhere
  <2>1. UNCHANGED tokens
    BY <1>4 DEF Elsewhere
  <2>2. (\E W \in SUBSET Borrower : Tick(W)) \/ \E b \in BOOLEAN : SetPaused(b) /\ UNCHANGED env
    BY <1>4, PageInputs DEF Elsewhere
  <2> QED BY <1>0, <2>1, <2>2, WorldKeepsChain DEF tokens, TokensOK
<1>5. CASE ~(MineFlow \/ MineAside \/ Elsewhere)
  <2>1. UNCHANGED <<vars, tokens>>
    BY <1>5 DEF PageNext, pageVars, Untouched, Open, Type, PressMax, PressAll, Sign, Request, Answered,
                Submit, Sent, Receive, TimeOut, ReceiveAside, Poll
  <2> QED BY <1>1, <2>1
<1> QED BY <1>2, <1>3, <1>4, <1>5

LEMMA SnapSteps ==
    ASSUME ChainOK, PageOK, [PageNext]_pageVars
    PROVE  ViewOK(snap)'
<1>1. CASE snap' = snap
  BY <1>1 DEF PageOK, ViewOK
<1>2. CASE snap' = View
  BY <1>2, ViewType DEF PageOK, ViewOK
<1>3. snap' = snap \/ snap' = View
  BY DEF PageNext, pageVars, Untouched, Open, Type, PressMax, PressAll, Sign, Request, Answered,
         Submit, Sent, MineFlow, Receive, TimeOut, MineAside, ReceiveAside, Poll, Elsewhere
<1> QED BY <1>1, <1>2, <1>3

\* A flow goes on as a flow.
LEMMA FlowChanges ==
    ASSUME NEW f \in FlowType
    PROVE  /\ \A g \in Stage : [f EXCEPT !.stage = g] \in FlowType
           /\ \A g \in Stage, x \in TxState : [f EXCEPT !.stage = g, !.tx = x] \in FlowType
           /\ \A g \in Stage, c \in BOOLEAN : [f EXCEPT !.stage = g, !.home = c] \in FlowType
           /\ \A g \in Stage, s \in CallType : [f EXCEPT !.stage = g, !.spec = s] \in FlowType
           /\ \A s \in CallType : [f EXCEPT !.spec = s] \in FlowType
           /\ \A b \in BOOLEAN : [f EXCEPT !.same = b] \in FlowType
           /\ \A b, c \in BOOLEAN : [f EXCEPT !.same = b, !.home = c] \in FlowType
BY DEF FlowType

\* What the buttons and the user type, and what is left of it, are amounts.
LEMMA InputSteps ==
    ASSUME PageOK, [PageNext]_pageVars
    PROVE  input' \in Nat /\ tab' \in Tab /\ spent' \in BOOLEAN /\ unsure' \in BOOLEAN
<1>0. input \in Nat /\ tab \in Tab /\ spent \in BOOLEAN /\ unsure \in BOOLEAN /\ ViewOK(snap)
  BY DEF PageOK, PanelOK
<1>1. input' \in Nat
  <2>1. MaxInput(snap) \in Nat /\ AllInput(snap) \in Nat
    BY <1>0, ButtonTypes
  <2>2. \/ input' = input \/ input' = 0 \/ input' = Done(flow) \/ input' = Done(aside)
        \/ input' \in Typed \/ input' = MaxInput(snap) \/ input' = AllInput(snap)
    BY DEF PageNext, pageVars, panel, Open, Type, PressMax, PressAll, Sign, Request, Answered,
           Submit, Sent, MineFlow, Receive, TimeOut, MineAside, ReceiveAside, Poll, Elsewhere
  <2>3. Done(flow) \in {0, input} /\ Done(aside) \in {0, input}
    BY DEF Done
  <2>4. CASE input' \in {input, 0, MaxInput(snap), AllInput(snap)}
    BY <1>0, <2>1, <2>4
  <2>5. CASE input' = Done(flow) \/ input' = Done(aside)
    BY <1>0, <2>3, <2>5
  <2>6. CASE input' \in Typed
    BY <2>6, PageInputs
  <2> QED BY <2>2, <2>4, <2>5, <2>6
<1>2. tab' \in Tab
  <2>1. tab' = tab \/ tab' \in Tab
    BY DEF PageNext, pageVars, panel, Open, Type, PressMax, PressAll, Sign, Request, Answered,
           Submit, Sent, MineFlow, Receive, TimeOut, MineAside, ReceiveAside, Poll, Elsewhere
  <2> QED BY <1>0, <2>1
<1>3. spent' \in BOOLEAN
  <2>1. CASE MineFlow
    BY <1>0, <2>1 DEF MineFlow
  <2>2. CASE MineAside
    BY <1>0, <2>2 DEF MineAside
  <2>3. CASE ~(MineFlow \/ MineAside)
    <3>1. spent' = spent \/ spent' = FALSE
      BY <2>3 DEF PageNext, pageVars, panel, past, Forget, Open, Type, PressMax, PressAll, Sign, Request,
           Answered, Submit, Sent, Receive, TimeOut, ReceiveAside, Poll, Elsewhere
    <3> QED BY <1>0, <3>1
  <2> QED BY <2>1, <2>2, <2>3
<1>4. unsure' \in BOOLEAN
  <2>1. unsure' = unsure \/ unsure' \in BOOLEAN
    BY DEF PageNext, pageVars, panel, past, Forget, Open, Type, PressMax, PressAll, Sign, Request, Answered,
           Submit, Sent, MineFlow, Receive, TimeOut, MineAside, ReceiveAside, Poll, Elsewhere
  <2> QED BY <1>0, <2>1
<1> QED BY <1>1, <1>2, <1>3, <1>4

\* What becomes of a mined flow.
LEMMA MinedType ==
    ASSUME NEW f \in FlowType, NEW g, Mined(f, g)
    PROVE  /\ g \in FlowType /\ g.stage = f.stage /\ g.same = f.same /\ g.spec = f.spec /\ g.home = f.home
           /\ f.tx = "pending" /\ g.tx \in {"success", "reverted"}
<1>1. f.tx = "pending" /\ (g = [f EXCEPT !.tx = "success"] \/ g = [f EXCEPT !.tx = "reverted"])
  BY DEF Mined
<1> QED BY <1>1 DEF FlowType, TxState

\* The flow of the panel, step by step.
LEMMA FlowSteps ==
    ASSUME PageOK, [PageNext]_pageVars
    PROVE  flow' \in FlowType
<1>0. flow \in FlowType /\ aside \in FlowType /\ input \in Nat /\ tab \in Tab /\ ViewOK(snap)
  BY DEF PageOK, PanelOK
<1> DEFINE new == NewFlow
<1>1. new \in FlowType
  BY NewFlowType
<1> HIDE DEF new
<1>2. ASSUME NEW x \in Nat, Type(x) PROVE flow' \in FlowType
  BY <1>0, <1>2, FlowChanges, NewFlowType DEF Type
<1>3. CASE Sign
  BY <1>1, <1>3, <1>0, FlowChanges, OfferType DEF Sign, Offered, new, Stage
<1>4. CASE Request
  BY <1>1, <1>4, FlowChanges, NewFlowType DEF Request, new, Stage
<1>5. CASE Answered
  <2>1. Call("submitAttestation", "coll", 0) \in CallType
    BY DEF Call, CallType, Fn, Asset, MaxUint
  <2> QED BY <1>1, <1>5, <2>1, FlowChanges DEF Answered, new
<1>6. CASE Submit
  BY <1>0, <1>6, FlowChanges, NewFlowType DEF Submit, Stage
<1>7. CASE Sent
  BY <1>0, <1>7, FlowChanges, NewFlowType DEF Sent, Stage, TxState
<1>8. CASE MineFlow
  BY <1>0, <1>8, MinedType DEF MineFlow
<1>9. CASE Receive
  <2>1. [flow EXCEPT !.stage = "ready", !.tx = "none"] \in FlowType
    BY <1>0, FlowChanges DEF Stage, TxState
  <2> QED BY <1>1, <1>9, <2>1 DEF Receive, new
<1>10. CASE TimeOut
  BY <1>0, <1>10, FlowChanges, NewFlowType DEF TimeOut, Stage, TxState
<1>11. CASE \E t \in Tab : Open(t)
  BY <1>1, <1>11 DEF Open, new
<1>12. CASE UNCHANGED flow
  BY <1>0, <1>12
<1>13. CASE PressMax \/ PressAll \/ \E x \in Typed : Type(x)
  <2>1. MaxInput(snap) \in Nat /\ AllInput(snap) \in Nat /\ Typed \subseteq Nat
    BY <1>0, ButtonTypes, PageInputs
  <2> QED BY <1>2, <1>13, <2>1 DEF PressMax, PressAll
<1>14. CASE MineAside \/ ReceiveAside \/ Poll \/ Elsewhere \/ UNCHANGED pageVars
  BY <1>12, <1>14 DEF MineAside, ReceiveAside, Poll, Elsewhere, pageVars, panel
<1> QED BY <1>3, <1>4, <1>5, <1>6, <1>7, <1>8, <1>9, <1>10, <1>11, <1>13, <1>14 DEF PageNext

\* The flow left behind, step by step.
LEMMA AsideSteps ==
    ASSUME PageOK, [PageNext]_pageVars
    PROVE  aside' \in FlowType
<1>0. flow \in FlowType /\ aside \in FlowType
  BY DEF PageOK, PanelOK
<1>1. NewFlow \in FlowType
  BY NewFlowType
<1>2. CASE MineAside
  <2>1. PICK f : Mined(aside, f) /\ aside' = IF Succeeded(f) /\ f.home THEN f ELSE NewFlow
    BY <1>2 DEF MineAside
  <2> QED BY <1>0, <1>1, <2>1, MinedType
<1>3. CASE ReceiveAside
  BY <1>1, <1>3 DEF ReceiveAside
<1>4. CASE TimeOut
  BY <1>0, <1>4, FlowChanges, NewFlowType DEF TimeOut, Stage, TxState
<1>5. ASSUME NEW t \in Tab, Open(t) PROVE aside' \in FlowType
  <2> DEFINE left == IF flow.stage = "wait" THEN flow ELSE aside
             there == left.home /\ t # "score" /\ tab # "score"
  <2>1. left \in FlowType
    BY <1>0
  <2>2. aside' = IF left = NewFlow THEN NewFlow ELSE [left EXCEPT !.same = FALSE, !.home = there]
    BY <1>5 DEF Open
  <2>3. there \in BOOLEAN
    OBVIOUS
  <2> HIDE DEF left, there
  <2>4. [left EXCEPT !.same = FALSE, !.home = there] \in FlowType
    BY <2>1, <2>3, FlowChanges, NewFlowType
  <2> QED BY <1>1, <2>2, <2>4
<1>6. ASSUME NEW x, Type(x) PROVE aside' \in FlowType
  <2>1. [aside EXCEPT !.same = FALSE] \in FlowType
    BY <1>0, FlowChanges
  <2> QED BY <1>1, <1>6, <2>1 DEF Type
<1>7. CASE \/ Sign \/ Request \/ Answered \/ Submit \/ Sent \/ MineFlow \/ Receive
           \/ Poll \/ Elsewhere \/ UNCHANGED pageVars
  <2>1. aside' = aside
    BY <1>7 DEF Sign, Request, Answered, Submit, Sent, MineFlow, Receive, Poll, Elsewhere, pageVars, panel
  <2> QED BY <1>0, <2>1
<1> QED BY <1>2, <1>3, <1>4, <1>5, <1>6, <1>7 DEF PageNext, PressMax, PressAll

\* Every state of the page is one of these.
PageSound == ChainOK /\ PageOK

LEMMA PageSteps == PageSound /\ [PageNext]_pageVars => PageSound'
BY ChainSteps, SnapSteps, InputSteps, FlowSteps, AsideSteps DEF PageSound, PageOK, PanelOK

LEMMA PageInvariance == PageSpec => []PageSound
<1>1. PageInit => PageSound
  BY PageInitChain, PageInitPanel DEF PageSound
<1> QED BY <1>1, PageSteps, PTL DEF PageSpec

\* The page sends the market its own transactions, of amounts it typed or reckoned from a
\* stale snapshot: whichever are mined, in whatever order, every amount keeps its type, the
\* pool covers the reserves and the totals stay the sums over the positions.
THEOREM PageKeepsTheMarket == PageSpec => [](TypeOK /\ ReservesBacked /\ TotalsAreSums)
<1>1. PageSound => IInv /\ TotalsAreSums
  BY BooksAre DEF PageSound, ChainOK
<1>2. IInv => TypeOK /\ ReservesBacked
  BY Accrued DEF IInv, Solvent, Backed, ReservesBacked
<1> QED BY <1>1, <1>2, PageInvariance, PTL

----------------------------------------------------------------------------
(* An amount is executed once for each time it is asked for. *)

\* A flow that was executed, and has yet to say so to its panel.
Ends(f) == f.stage = "wait" /\ f.tx = "success" /\ OfInput(f.spec)

\* What is awaited is pending or mined.
Awaited == flow.tx = "pending" => flow.stage = "wait"

\* A flow of the input as it is, executed, was recorded.
Recorded == Ends(flow) /\ flow.same => spent

\* An executed input is about to be cleared, or was, unless a receipt timed out.
SpentIsOver == spent /\ ~unsure => input = 0 \/ Ends(flow)

\* A flow left behind is one of another input, or one whose receipt timed out.
LeftBehind == aside # NewFlow /\ aside.same => unsure

OnceInv == Awaited /\ Recorded /\ SpentIsOver /\ LeftBehind

LEMMA OnceInit == PageInit => OnceInv
BY DEF PageInit, OnceInv, Awaited, Recorded, SpentIsOver, LeftBehind, Ends, NewFlow

\* A flow that can end is not idle.
LEMMA IdleFlow == /\ NewFlow.stage = "ready" /\ NewFlow.tx = "none" /\ NewFlow.same = TRUE
                  /\ NewFlow.spec = NoSpec /\ ~OfInput(Call("submitAttestation", "coll", 0))
BY DEF NewFlow, OfInput, Call

\* The input is cleared, and what was executed of it forgotten, by whatever the user types
\* or opens.
LEMMA FreshStart ==
    ASSUME PageOK, OnceInv, (\E t \in Tab : Open(t)) \/ \E x : Type(x)
    PROVE  OnceInv'
<1>0. flow \in FlowType /\ aside \in FlowType
  BY DEF PageOK, PanelOK
<1>1. spent' = FALSE
  BY DEF Open, Type, Forget
<1>2. Awaited' /\ ~(Ends(flow)' /\ flow'.same)
  <2>1. CASE flow' = NewFlow
    BY <2>1, IdleFlow DEF Awaited, Ends
  <2>2. CASE flow' = [flow EXCEPT !.same = FALSE]
    BY <1>0, <2>2 DEF FlowType, OnceInv, Awaited, Ends
  <2> QED BY <2>1, <2>2 DEF Open, Type
<1>3. LeftBehind'
  <2>1. aside' = NewFlow \/ aside'.same = FALSE
    <3>1. ASSUME NEW x, Type(x) PROVE aside' = NewFlow \/ aside'.same = FALSE
      BY <1>0, <3>1 DEF Type, FlowType
    <3>2. ASSUME NEW t \in Tab, Open(t) PROVE aside' = NewFlow \/ aside'.same = FALSE
      <4> DEFINE left == IF flow.stage = "wait" THEN flow ELSE aside
                 there == left.home /\ t # "score" /\ tab # "score"
      <4>1. left \in FlowType
        BY <1>0
      <4>2. aside' = IF left = NewFlow THEN NewFlow ELSE [left EXCEPT !.same = FALSE, !.home = there]
        BY <3>2 DEF Open
      <4> HIDE DEF left, there
      <4> QED BY <4>1, <4>2 DEF FlowType
    <3> QED BY <3>1, <3>2
  <2> QED BY <2>1 DEF LeftBehind
<1> QED BY <1>1, <1>2, <1>3 DEF OnceInv, Recorded, SpentIsOver

\* A click, an answer, or a transaction on its way: nothing was executed by it.
LEMMA OnTheWay ==
    ASSUME PageOK, OnceInv, Sign \/ Request \/ Answered \/ Submit \/ Sent
    PROVE  OnceInv'
<1>0. flow \in FlowType
  BY DEF PageOK, PanelOK
<1>1. ~Ends(flow)
  BY IdleFlow DEF Ends, Sign, Request, Answered, Submit, Sent
<1>2. UNCHANGED <<input, aside, spent, unsure>>
  BY DEF Sign, Request, Answered, Submit, Sent, past
<1>3. Awaited' /\ ~Ends(flow)'
  <2>1. flow.tx = "pending" => flow.stage = "wait"
    BY DEF OnceInv, Awaited
  <2>2. CASE Sign \/ Request \/ Answered
    <3>1. flow'.stage # "wait" /\ flow'.tx = "none"
      BY <2>2, IdleFlow DEF Sign, Request, Answered, NewFlow
    <3> QED BY <3>1 DEF Awaited, Ends
  <2>3. CASE Submit \/ Sent
    BY <1>0, <2>1, <2>3 DEF Submit, Sent, FlowType, Awaited, Ends
  <2> QED BY <2>2, <2>3
<1> QED BY <1>1, <1>2, <1>3 DEF OnceInv, Recorded, SpentIsOver, LeftBehind

\* A transaction of the panel's flow is mined.
LEMMA FlowMined == ASSUME PageOK, OnceInv, MineFlow PROVE OnceInv'
<1>0. flow \in FlowType /\ spent \in BOOLEAN
  BY DEF PageOK, PanelOK
<1>1. /\ flow'.stage = "wait" /\ flow'.same = flow.same /\ flow'.spec = flow.spec
      /\ flow.tx = "pending" /\ flow'.tx \in {"success", "reverted"}
  BY <1>0, MinedType DEF MineFlow, OnceInv, Awaited
<1>2. UNCHANGED <<input, aside, unsure>>
  BY DEF MineFlow
<1>3. spent /\ ~unsure => input = 0
  BY <1>1 DEF OnceInv, SpentIsOver, Ends
<1>4. CASE flow'.tx = "success"
  <2>1. spent' <=> spent \/ (flow.same /\ OfInput(flow.spec))
    BY <1>4 DEF MineFlow
  <2> QED BY <1>1, <1>2, <1>3, <1>4, <2>1 DEF OnceInv, Awaited, Recorded, SpentIsOver, LeftBehind, Ends
<1>5. CASE flow'.tx # "success"
  <2>1. spent' = spent
    BY <1>5 DEF MineFlow
  <2> QED BY <1>1, <1>2, <1>3, <1>5, <2>1 DEF OnceInv, Awaited, Recorded, SpentIsOver, LeftBehind, Ends
<1> QED BY <1>4, <1>5

\* A transaction left behind is mined.
LEMMA AsideMined == ASSUME PageOK, OnceInv, MineAside PROVE OnceInv'
<1>0. aside \in FlowType /\ spent \in BOOLEAN
  BY DEF PageOK, PanelOK
<1>1. PICK f : /\ Mined(aside, f)
               /\ aside' = IF Succeeded(f) /\ f.home THEN f ELSE NewFlow
               /\ spent' = (spent \/ (f.tx = "success" /\ f.same /\ OfInput(f.spec)))
  BY DEF MineAside
<1>2. f.same = aside.same /\ aside.tx = "pending"
  BY <1>0, <1>1, MinedType
<1>3. aside # NewFlow
  BY <1>2, IdleFlow
<1>4. UNCHANGED <<input, flow, unsure>>
  BY DEF MineAside
<1>5. aside.same => unsure
  BY <1>3 DEF OnceInv, LeftBehind
<1>6. LeftBehind'
  BY <1>1, <1>2, <1>4, <1>5 DEF LeftBehind
<1>7. Recorded'
  BY <1>1, <1>4 DEF OnceInv, Recorded, Ends
<1>8. SpentIsOver'
  BY <1>1, <1>2, <1>4, <1>5 DEF OnceInv, SpentIsOver, Ends
<1> QED BY <1>4, <1>6, <1>7, <1>8 DEF OnceInv, Awaited

\* A receipt arrives, or does not.
LEMMA ReceiptKnown == ASSUME PageOK, OnceInv, Receive \/ ReceiveAside \/ TimeOut PROVE OnceInv'
<1>0. flow \in FlowType
  BY DEF PageOK, PanelOK
<1>1. CASE Receive /\ Succeeded(flow)
  <2>1. flow' = NewFlow /\ input' = Done(flow) /\ UNCHANGED <<aside, spent, unsure>>
    BY <1>1 DEF Receive, past
  <2>2. ~Ends(flow)' /\ Awaited'
    BY <2>1, IdleFlow DEF Ends, Awaited
  <2>3. SpentIsOver'
    <3>1. CASE OfInput(flow.spec)
      BY <2>1, <3>1 DEF Done, SpentIsOver
    <3>2. CASE ~OfInput(flow.spec)
      BY <2>1, <3>2 DEF Done, OnceInv, SpentIsOver, Ends
    <3> QED BY <3>1, <3>2
  <2> QED BY <2>1, <2>2, <2>3 DEF OnceInv, Recorded, LeftBehind
<1>2. CASE Receive /\ ~Succeeded(flow)
  <2>1. /\ flow' = [flow EXCEPT !.stage = "ready", !.tx = "none"]
        /\ UNCHANGED <<input, aside, spent, unsure>>
    BY <1>2 DEF Receive, past
  <2>2. ~Ends(flow)
    BY <1>2 DEF Ends, Succeeded
  <2>3. ~Ends(flow)' /\ Awaited'
    BY <1>0, <2>1 DEF FlowType, Ends, Awaited
  <2> QED BY <2>1, <2>2, <2>3 DEF OnceInv, Recorded, SpentIsOver, LeftBehind
<1>3. CASE ReceiveAside
  <2>1. aside' = NewFlow /\ input' = Done(aside) /\ UNCHANGED <<flow, spent, unsure>>
    BY <1>3 DEF ReceiveAside, past
  <2>2. input' \in {0, input}
    BY <2>1 DEF Done
  <2> QED BY <2>1, <2>2 DEF OnceInv, Awaited, Recorded, SpentIsOver, LeftBehind, Ends
<1>4. CASE TimeOut
  <2>1. unsure' = TRUE /\ flow' = [flow EXCEPT !.stage = "ready", !.tx = "none"]
    BY <1>4 DEF TimeOut
  <2>2. ~Ends(flow)' /\ Awaited'
    BY <1>0, <2>1 DEF FlowType, Ends, Awaited
  <2> QED BY <2>1, <2>2 DEF OnceInv, Recorded, SpentIsOver, LeftBehind
<1> QED BY <1>1, <1>2, <1>3, <1>4

LEMMA OnceStep == PageOK /\ OnceInv /\ [PageNext]_pageVars => OnceInv'
<1> SUFFICES ASSUME PageOK, OnceInv, [PageNext]_pageVars PROVE OnceInv'
  OBVIOUS
<1>1. CASE Poll \/ Elsewhere \/ UNCHANGED pageVars
  <2>1. UNCHANGED <<input, flow, aside, spent, unsure>>
    BY <1>1 DEF Poll, Elsewhere, pageVars, panel, past
  <2> QED BY <2>1 DEF OnceInv, Awaited, Recorded, SpentIsOver, LeftBehind, Ends
<1> QED BY <1>1, FreshStart, OnTheWay, FlowMined, AsideMined, ReceiptKnown DEF PageNext, PressMax, PressAll

\* What clears the input: another tab, the end of a flow of it, or of one left behind.
LEMMA Clearing ==
    ASSUME PageOK, OnceInv, PageNext, input # 0, input' = 0, tab' = tab, aside' = aside, flow.same
    PROVE  spent
<1>0. ViewOK(snap) /\ MaxInput(snap) \in Nat /\ AllInput(snap) \in Nat \ {0}
  BY ButtonTypes DEF PageOK
<1>1. ASSUME NEW x, x # 0 PROVE ~Type(x)
  BY <1>1 DEF Type
<1>2. ~(PressMax \/ PressAll \/ \E x \in Typed : Type(x))
  BY <1>0, <1>1, PageInputs DEF PressMax, PressAll
<1>3. ~\E t \in Tab : Open(t)
  BY DEF Open
<1>4. ~ReceiveAside
  BY IdleFlow DEF ReceiveAside
<1>5. Receive
  <2>1. CASE \/ Sign \/ Request \/ Answered \/ Submit \/ Sent \/ MineFlow \/ TimeOut \/ MineAside
             \/ Poll \/ Elsewhere
    BY <2>1 DEF Sign, Request, Answered, Submit, Sent, MineFlow, TimeOut, MineAside, Poll, Elsewhere, panel
  <2> QED BY <1>2, <1>3, <1>4, <2>1 DEF PageNext
<1>6. Ends(flow)
  BY <1>5 DEF Receive, Succeeded, Ends, Done
<1> QED BY <1>6 DEF OnceInv, Recorded

\* What is signed on the market page is the input, as long as there is one.
LEMMA Signing ==
    ASSUME PageOK, OnceInv, PageNext, tab # "score", flow.stage = "ready", flow'.stage = "sign", spent
    PROVE  unsure
<1>0. flow \in FlowType
  BY DEF PageOK, PanelOK
<1>1. Sign
  <2>1. CASE \/ (\E t \in Tab : Open(t)) \/ Request \/ Answered \/ Receive \/ TimeOut
    BY <1>0, <2>1, IdleFlow DEF FlowType, NewFlow, Open, Request, Answered, Receive, TimeOut
  <2>2. ASSUME NEW x, Type(x) PROVE flow'.stage = "ready"
    BY <1>0, <2>2 DEF Type, FlowType
  <2>3. CASE MineFlow
    BY <1>0, <2>3, MinedType DEF MineFlow
  <2>4. CASE Submit \/ Sent
    BY <2>4 DEF Submit, Sent
  <2>5. CASE MineAside \/ ReceiveAside \/ Poll \/ Elsewhere
    BY <2>5 DEF MineAside, ReceiveAside, Poll, Elsewhere, panel
  <2> QED BY <2>1, <2>2, <2>3, <2>4, <2>5 DEF PageNext, PressMax, PressAll
<1>2. input # 0
  BY <1>1 DEF Sign, Offered, Offer
<1> QED BY <1>2 DEF OnceInv, SpentIsOver, Ends

\* The page clears an amount only once the transaction for it was executed, and never signs
\* for an executed one again, unless a receipt timed out: whatever is typed, polled, opened,
\* mined, reverted or left behind meanwhile (TxFlow, waitForTransactionReceipt, onDone).
THEOREM AmountsExecutedOnce == PageSpec => ExecutedOnce
<1>1. PageSound => PageOK
  BY DEF PageSound
<1>2. PageOK /\ OnceInv /\ [PageNext]_pageVars
        => [input # 0 /\ input' = 0 /\ tab' = tab /\ aside' = aside /\ flow.same => spent]_pageVars
  BY Clearing
<1>3. PageOK /\ OnceInv /\ [PageNext]_pageVars
        => [tab # "score" /\ flow.stage = "ready" /\ flow'.stage = "sign" /\ spent => unsure]_pageVars
  BY Signing
<1> QED BY <1>1, <1>2, <1>3, PageInvariance, OnceInit, OnceStep, PTL
        DEF PageSpec, ExecutedOnce, ClearedOnceExecuted, NothingSignedTwice

----------------------------------------------------------------------------
(* The page reckons as the market does. *)

\* What the page offers for a deposit.
LEMMA DepositAccepted ==
    ASSUME PageSound, NEW x \in Nat, NEW s, s = OfferDeposit(View, x), s # NoSpec
    PROVE  Accepts(s)
<1>1. balance \in [Asset -> Nat] /\ allowance \in [Asset -> Nat] /\ "coll" \in Asset
  BY DEF PageSound, PageOK, TokensOK, Asset
<1>2. View.balance = balance /\ View.allowance = allowance
  BY DEF View
<1>3. CASE s = Approve("coll", x)
  BY <1>3 DEF Accepts, Approve
<1>4. CASE s # Approve("coll", x)
  <2>1. s = Call("depositCollateral", "coll", x) /\ ~(x > balance["coll"]) /\ ~(allowance["coll"] < x)
    BY <1>1, <1>2, <1>4 DEF OfferDeposit
  <2>2. Holds("coll", x)
    BY <1>1, <2>1 DEF Holds
  <2> QED BY <2>1, <2>2 DEF Accepts, Call
<1> QED BY <1>3, <1>4

\* For a loan: no more than maxBorrow answers, while prices are fresh.
LEMMA BorrowAccepted ==
    ASSUME PageSound, NEW x \in Nat \ {0}, NEW s, s = OfferBorrow(View, x), s # NoSpec
    PROVE  Accepts(s)
<1>1. ~paused /\ PricesFresh /\ x <= MaxBorrow(User) /\ s = Call("borrow", "debt", x)
  <2>1. View.paused = paused /\ View.priced = PricesFresh
        /\ View.max = IF PricesFresh THEN MaxBorrow(User) ELSE 0
    BY DEF View
  <2>2. s = Call("borrow", "debt", x) /\ ~(View.paused \/ ~View.priced \/ x > View.max)
    BY DEF OfferBorrow
  <2>3. PricesFresh => MaxBorrow(User) \in Nat
    BY MaxBorrowWithin, PageInputs DEF PageSound, ChainOK
  <2> QED BY <2>1, <2>2, <2>3
<1>2. RoundingFits
  <2>1. Price("debt") = WAD
    BY DEF PageSound, ChainOK, AtPar, Price, Asset
  <2> QED BY <2>1, Units DEF RoundingFits
<1>3. CanBorrow(User, x)
  BY <1>1, <1>2, MaxBorrowFits, BooksAre, PageInputs DEF PageSound, ChainOK
<1> QED BY <1>1, <1>3 DEF Accepts, Call, WhenNotPaused

\* For a repayment, unless it takes nothing off the debt.
LEMMA RepayAccepted ==
    ASSUME PageSound, NEW x \in Nat \ {0}, NEW s, s = OfferRepay(View, x), s # NoSpec,
           ~(s.fn = "repay" /\ TakesNothingOff(x))
    PROVE  Accepts(s)
<1> DEFINE d == Debt(User)
           full == x >= d
           need == IF full THEN d + d \div APPROVE_DIV + 1 ELSE x
           paid == IF full THEN MaxUint ELSE x
<1>1. /\ balance \in [Asset -> Nat] /\ allowance \in [Asset -> Nat] /\ "debt" \in Asset
      /\ d \in Nat /\ Index \in Nat \ {0} /\ scaledDebt[User] \in Nat
  <2>1. d \in Nat /\ Index \in Nat \ {0}
    BY ReductionBounds, Accrued, PageInputs DEF PageSound, ChainOK
  <2> QED BY <2>1, PageInputs DEF PageSound, PageOK, TokensOK, Asset, ChainOK, IInv, TypeOK
<1>2. View.balance = balance /\ View.allowance = allowance /\ View.debt = d
  BY DEF View
<1> HIDE DEF d
<1>3. d \div APPROVE_DIV \in Nat
  BY <1>1, PageInputs, DivFloor
<1>4. CASE s = Approve("debt", need)
  BY <1>4 DEF Accepts, Approve
<1>5. CASE s # Approve("debt", need)
  <2>1. /\ s = Call("repay", "debt", paid)
        /\ d # 0 /\ ~(balance["debt"] < Lesser(x, d)) /\ ~(allowance["debt"] < need)
    <3> DEFINE poor == d = 0 \/ balance["debt"] < Lesser(x, d)
               able == d > 0 /\ balance["debt"] >= Lesser(x, d) /\ allowance["debt"] < need
    <3>1. s = CASE poor -> NoSpec [] able -> Approve("debt", need) [] OTHER -> Call("repay", "debt", paid)
      BY <1>2 DEF OfferRepay
    <3>2. ~poor /\ ~(allowance["debt"] < need) => ~able
      OBVIOUS
    <3>3. poor => ~able
      BY <1>1 DEF Lesser
    <3>4. ~poor /\ allowance["debt"] < need => able
      BY <1>1 DEF Lesser
    <3> HIDE DEF able, need, paid
    <3>5. ~poor
      <4> HIDE DEF poor
      <4> QED BY <3>1, <3>3
    <3>6. ~able
      <4> HIDE DEF poor
      <4> QED BY <3>1, <3>5, <1>5
    <3>7. s = Call("repay", "debt", paid)
      <4> HIDE DEF poor
      <4> QED BY <3>1, <3>5, <3>6
    <3> QED BY <3>4, <3>5, <3>6, <3>7
  <2>2. Due(paid) = Lesser(x, d) /\ Paid(paid) = Lesser(x, d)
    BY <1>1 DEF Due, Paid, Lesser, MaxUint, d
  <2>3. need >= Lesser(x, d)
    BY <1>1, <1>3 DEF Lesser
  <2>4. Holds("debt", Due(paid))
    BY <1>1, <1>3, <2>1, <2>2, <2>3 DEF Holds, Lesser
  <2>5. Reduction(User, Paid(paid)) > 0
    <3>1. CASE full
      <4>1. Paid(paid) = d
        BY <1>1, <2>2, <3>1 DEF Lesser
      <4>2. Reduction(User, d) = scaledDebt[User]
        BY <1>1 DEF Reduction, d
      <4>3. scaledDebt[User] # 0
        <5>1. DebtFromScaled(0, Index) = 0
          BY <1>1, NothingRoundsToNothing, Units DEF DebtFromScaled
        <5> QED BY <2>1, <5>1 DEF d, Debt
      <4> QED BY <1>1, <4>1, <4>2, <4>3
    <3>2. CASE ~full
      <4>1. Paid(paid) = x /\ x < d
        BY <1>1, <2>2, <3>2 DEF Lesser
      <4>2. s.fn = "repay"
        BY <2>1 DEF Call
      <4>3. x * RAY >= Index
        <5>1. x * RAY \in Nat
          BY Units, MulNat
        <5> QED BY <1>1, <4>1, <4>2, <5>1 DEF TakesNothingOff, d
      <4>4. MulDiv(x, RAY, Index) > 0
        <5>1. 1 * Index <= x * RAY /\ x * RAY \in Nat
          BY <1>1, <4>3, Units, MulNat
        <5>2. (x * RAY) \div Index >= 1
          BY <1>1, <5>1, DivFloor
        <5>3. (x * RAY) \div Index \in Nat
          BY <1>1, <5>1, DivFloor
        <5> QED BY <5>2, <5>3 DEF MulDiv
      <4>5. Reduction(User, x) = MulDiv(x, RAY, Index)
        BY <1>1, <4>1 DEF Reduction, d
      <4> QED BY <4>1, <4>4, <4>5
    <3> QED BY <3>1, <3>2
  <2>6. s.fn = "repay" /\ s.amount = paid
    BY <2>1 DEF Call
  <2>7. Debt(User) > 0
    BY <1>1, <2>1 DEF d
  <2> HIDE DEF paid
  <2> QED BY <2>4, <2>5, <2>6, <2>7 DEF Accepts
<1> QED BY <1>4, <1>5

\* What a page offers on a snapshot of now goes through.
LEMMA OfferAccepted == PageSound => OfferedGoesThrough
<1> SUFFICES ASSUME PageSound, NEW t \in Tab \ {"withdraw"},
                    NEW x \in Typed \cup {1, MaxInput(View), AllInput(View)},
                    NEW s, s = Offer(View, t, x), s # NoSpec,
                    ~(s.fn = "repay" /\ TakesNothingOff(x))
             PROVE  Accepts(s)
  BY DEF OfferedGoesThrough
<1>1. ViewOK(View)
  BY ViewType DEF PageSound, PageOK
<1>2. x \in Nat
  <2>1. MaxInput(View) \in Nat /\ AllInput(View) \in Nat
    BY <1>1, ButtonTypes
  <2> QED BY <2>1, PageInputs
<1>3. x # 0 /\ t # "score"
  BY DEF Offer
<1>4. CASE t = "deposit"
  BY <1>2, <1>3, <1>4, DepositAccepted DEF Offer
<1>5. CASE t = "borrow"
  <2>1. s = OfferBorrow(View, x)
    BY <1>3, <1>5 DEF Offer
  <2> QED BY <1>2, <1>3, <2>1, BorrowAccepted
<1>6. CASE t = "repay"
  <2>1. s = OfferRepay(View, x)
    BY <1>3, <1>6 DEF Offer
  <2> QED BY <1>2, <1>3, <2>1, RepayAccepted
<1> QED BY <1>3, <1>4, <1>5, <1>6 DEF Tab

\* The terms the comparison shows are the most a position keeps.
LEMMA ComparisonIsExact == PageSound => ComparesAsTheMarket
<1> SUFFICES ASSUME PageSound, PricesFresh, NEW t \in Tier, NEW coll \in CollateralInput
             PROVE  LET most == Terms(t, coll, Price("coll"))
                    IN  EnforceTerms(coll, most, t, 0) /\ ~EnforceTerms(coll, most + 1, t, 0)
  BY DEF ComparesAsTheMarket
<1> DEFINE c == CollValue(coll)
           ltv == MaxLtv[t]
           cap == WalletCap[t]
           limit == MulDiv(c, ltv, BPS)
           most == Lesser(limit, cap)
<1>1. Price("coll") = WAD /\ Price("debt") = WAD
  BY DEF PageSound, ChainOK, AtPar, Price, Asset
<1>2. coll \in Nat /\ ltv \in Nat /\ cap \in Nat /\ tierDebtCap[t] \in Nat
  BY Inputs DEF PageSound, ChainOK, IInv, TypeOK
<1>3. c \in Nat
  BY <1>1, <1>2, Units, MulDivFloor DEF CollValue
<1>4. Terms(t, coll, Price("coll")) = most
  BY DEF Terms, CollValue
<1> HIDE DEF c, ltv, cap
<1>5. limit \in Nat /\ limit * BPS <= c * ltv /\ c * ltv < limit * BPS + BPS
  BY <1>2, <1>3, MulDivFloor DEF BPS
<1> HIDE DEF limit
<1>6. most \in Nat /\ most <= limit /\ most <= cap /\ (most = limit \/ most = cap)
  BY <1>2, <1>5 DEF Lesser
<1> HIDE DEF most
<1>7. ASSUME NEW n \in Nat PROVE DebtValue(n) = n
  <2>1. MulDivUp(n, WAD, WAD) \in Nat /\ n * WAD <= MulDivUp(n, WAD, WAD) * WAD
    BY Units, MulDivCeil
  <2>2. MulDivUp(n, WAD, WAD) <= n
    BY Units, CeilLeast
  <2>3. n <= MulDivUp(n, WAD, WAD)
    BY <2>1, Units
  <2> QED BY <1>1, <2>1, <2>2, <2>3 DEF DebtValue
<1>8. EnforceTerms(coll, most, t, 0)
  <2>1. most * BPS <= c * ltv
    BY <1>2, <1>3, <1>5, <1>6 DEF BPS
  <2> QED BY <1>2, <1>6, <1>7, <2>1 DEF EnforceTerms, c, ltv, cap
<1>9. ~EnforceTerms(coll, most + 1, t, 0)
  <2>1. CASE most = cap
    <3>1. ~(most + 1 <= cap)
      BY <1>2, <1>6, <2>1
    <3> QED BY <3>1 DEF EnforceTerms, cap
  <2>2. CASE most = limit
    <3>1. (most + 1) * BPS > c * ltv
      BY <1>5, <1>6, <2>2 DEF BPS
    <3>2. DebtValue(most + 1) = most + 1
      BY <1>6, <1>7
    <3>3. c * ltv \in Nat /\ (most + 1) * BPS \in Nat
      BY <1>2, <1>3, <1>6, MulNat DEF BPS
    <3>4. ~(DebtValue(most + 1) * BPS <= c * ltv)
      BY <3>1, <3>2, <3>3
    <3> QED BY <3>4 DEF EnforceTerms, c, ltv
  <2> QED BY <1>6, <2>1, <2>2
<1> QED BY <1>4, <1>8, <1>9

\* The page reckons as the contract does, for any table of terms, any interest and any
\* amounts: what it offers on a snapshot of now goes through, and what it compares is the
\* most the contract would lend (useTenorState, market/page.tsx, compare/page.tsx).
THEOREM ReckonedAsTheMarket == PageSpec => []ReckonsAsTheMarket
<1>1. PageSound => ReckonsAsTheMarket
  BY OfferAccepted, ComparisonIsExact DEF ReckonsAsTheMarket
<1> QED BY <1>1, PageInvariance, PTL

----------------------------------------------------------------------------
(* After its approval an amount carries on. *)

\* An approval for a debt of d, with the room the page leaves it to grow.
WithRoom(d) == d + d \div APPROVE_DIV + 1

\* An approval of y is one for an input of x: of the amount itself or, where it covered the
\* debt there was, of all that debt.
Suits(t, token, y, x) ==
    \/ t = "deposit" /\ token = "coll" /\ y = x
    \/ t = "repay" /\ token = "debt" /\ (y = x \/ \E d \in 0 .. x : y = WithRoom(d))

\* What is signed for an approval of the input as it is, is that of the input.
ApprovesTheInput ==
    flow.spec.fn = "approve" /\ flow.same
        => input = 0 \/ Suits(tab, flow.spec.token, flow.spec.amount, input)

\* An approval mined last is in place.
InPlace == granted # "no" => input = 0 \/ \E a \in Asset : Suits(tab, a, allowance[a], input)

\* And on the snapshot once it was seen.
Seen == granted = "seen" => snap.allowance = allowance

CarryInv == ApprovesTheInput /\ InPlace /\ Seen

LEMMA CarryInit == PageInit => CarryInv
BY DEF PageInit, CarryInv, ApprovesTheInput, InPlace, Seen

\* An approval that is offered is one for the input.
LEMMA ApprovalOffered ==
    ASSUME PageOK, input # 0, Offered.fn = "approve"
    PROVE  Suits(tab, Offered.token, Offered.amount, input)
<1>0. input \in Nat /\ snap.debt \in Nat /\ tab \in Tab
  BY DEF PageOK, PanelOK, ViewOK
<1>1. CASE tab = "deposit"
  <2>1. Offered = OfferDeposit(snap, input)
    BY <1>1 DEF Offered, Offer
  <2>2. Offered \in {NoSpec, Approve("coll", input), Call("depositCollateral", "coll", input)}
    BY <2>1 DEF OfferDeposit
  <2>3. Offered = Approve("coll", input)
    BY <2>2 DEF NoSpec, Call
  <2> QED BY <1>1, <2>3 DEF Approve, Suits
<1>2. CASE tab = "repay"
  <2> DEFINE full == input >= snap.debt
             need == IF full THEN WithRoom(snap.debt) ELSE input
  <2>1. Offered = OfferRepay(snap, input)
    BY <1>2 DEF Offered, Offer
  <2>2. Offered \in {NoSpec, Approve("debt", need), Call("repay", "debt", IF full THEN MaxUint ELSE input)}
    BY <2>1 DEF OfferRepay, WithRoom
  <2>3. Offered = Approve("debt", need)
    BY <2>2 DEF NoSpec, Call
  <2>4. CASE full
    <3>1. snap.debt \in 0 .. input /\ need = WithRoom(snap.debt)
      BY <1>0, <2>4
    <3> QED BY <1>2, <2>3, <3>1 DEF Approve, Suits
  <2>5. CASE ~full
    BY <1>2, <2>3, <2>5 DEF Approve, Suits
  <2> QED BY <2>4, <2>5
<1>3. CASE tab = "borrow"
  <2>1. Offered = OfferBorrow(snap, input)
    BY <1>3 DEF Offered, Offer
  <2> QED BY <2>1 DEF OfferBorrow, NoSpec, Call
<1>4. CASE tab = "withdraw"
  <2>1. Offered = OfferWithdraw(snap, input)
    BY <1>4 DEF Offered, Offer
  <2> QED BY <2>1 DEF OfferWithdraw, NoSpec, Call
<1>5. CASE tab = "score"
  BY <1>5 DEF Offered, Offer, NoSpec
<1> QED BY <1>0, <1>1, <1>2, <1>3, <1>4, <1>5 DEF Tab

\* The user opens, types, clicks; the service answers; a transaction is sent or given up.
LEMMA CarryByUser ==
    ASSUME PageOK, CarryInv,
           \/ (\E t \in Tab : Open(t)) \/ (\E x : Type(x)) \/ Sign \/ Request \/ Answered \/ Submit
           \/ Sent \/ Receive \/ ReceiveAside \/ TimeOut
    PROVE  CarryInv'
<1>0. flow \in FlowType /\ tab \in Tab
  BY DEF PageOK, PanelOK
<1>1. UNCHANGED <<allowance, snap>>
  BY DEF Open, Type, Sign, Request, Answered, Submit, Sent, Receive, ReceiveAside, TimeOut, Untouched, tokens
<1>2. granted' = granted \/ granted' = "no"
  BY DEF Open, Type, Sign, Request, Answered, Submit, Sent, Receive, ReceiveAside, TimeOut, past, Forget
<1>3. granted' = "no" \/ (tab' = tab /\ input' \in {input, 0})
  BY DEF Open, Type, Sign, Request, Answered, Submit, Sent, Receive, ReceiveAside, TimeOut, Forget, Done
<1>4. InPlace' /\ Seen'
  BY <1>1, <1>2, <1>3 DEF CarryInv, InPlace, Seen
<1>5. ApprovesTheInput'
  <2>1. CASE \E t \in Tab : Open(t)
    BY <2>1 DEF Open, NewFlow, NoSpec, ApprovesTheInput
  <2>2. CASE \E x : Type(x)
    BY <1>0, <2>2 DEF Type, FlowType, ApprovesTheInput
  <2>3. CASE Sign
    <3>1. flow' = [NewFlow EXCEPT !.stage = "sign", !.spec = Offered] /\ UNCHANGED <<tab, input>>
      BY <2>3 DEF Sign
    <3>2. flow'.spec = Offered
      BY <3>1 DEF NewFlow
    <3>3. ASSUME input # 0, Offered.fn = "approve"
          PROVE  Suits(tab, Offered.token, Offered.amount, input)
      BY <3>3, ApprovalOffered
    <3> QED BY <3>1, <3>2, <3>3 DEF ApprovesTheInput
  <2>4. CASE Request \/ Answered
    BY <2>4 DEF Request, Answered, NewFlow, NoSpec, Call, ApprovesTheInput
  <2>5. CASE Submit \/ Sent \/ Receive \/ ReceiveAside \/ TimeOut
    <3>1. flow'.spec.fn = "approve" => flow'.spec = flow.spec /\ flow'.same = flow.same
      <4>1. CASE flow' = NewFlow
        BY <4>1 DEF NewFlow, NoSpec
      <4>2. CASE Submit \/ TimeOut \/ ReceiveAside
        BY <1>0, <4>2 DEF Submit, TimeOut, ReceiveAside, FlowType
      <4>3. CASE Sent
        BY <1>0, <4>3 DEF Sent, FlowType
      <4>4. CASE Receive
        BY <1>0, <4>1, <4>4 DEF Receive, FlowType
      <4> QED BY <2>5, <4>2, <4>3, <4>4
    <3>2. tab' = tab /\ input' \in {input, 0}
      BY <2>5 DEF Submit, Sent, Receive, ReceiveAside, TimeOut, Done
    <3> QED BY <3>1, <3>2 DEF CarryInv, ApprovesTheInput
  <2> QED BY <2>1, <2>2, <2>3, <2>4, <2>5
<1> QED BY <1>4, <1>5 DEF CarryInv

\* Transactions are mined, or the world moves.
LEMMA CarryByChain ==
    ASSUME PageOK, CarryInv, MineFlow \/ MineAside \/ Poll \/ Elsewhere
    PROVE  CarryInv'
<1>0. flow \in FlowType /\ aside \in FlowType /\ allowance \in [Asset -> Nat] /\ "coll" \in Asset
  BY DEF PageOK, PanelOK, TokensOK, Asset
<1>1. CASE MineFlow
  <2>1. /\ flow'.same = flow.same /\ flow'.spec = flow.spec /\ flow'.tx \in {"success", "reverted"}
        /\ UNCHANGED <<snap, tab, input>>
    BY <1>0, <1>1, MinedType DEF MineFlow
  <2>2. ApprovesTheInput'
    BY <2>1 DEF CarryInv, ApprovesTheInput
  <2>3. CASE flow'.tx = "success"
    <3>1. granted' = IF flow.same /\ flow.spec.fn = "approve" THEN "mined" ELSE "no"
      BY <1>1, <2>3 DEF MineFlow
    <3>2. Execute(flow.spec)
      BY <1>0, <1>1, <2>3 DEF MineFlow, Mined, FlowType
    <3>3. flow.spec.fn = "approve" => allowance' = [allowance EXCEPT ![flow.spec.token] = flow.spec.amount]
      BY <3>2 DEF Execute
    <3>4. InPlace'
      <4> SUFFICES ASSUME granted' # "no", input' # 0
                   PROVE  \E a \in Asset : Suits(tab', a, allowance'[a], input')
        BY DEF InPlace, Suits, WithRoom
      <4>1. flow.spec.fn = "approve" /\ Suits(tab, flow.spec.token, flow.spec.amount, input)
        BY <2>1, <3>1 DEF CarryInv, ApprovesTheInput
      <4>2. flow.spec.token \in Asset /\ allowance'[flow.spec.token] = flow.spec.amount
        BY <1>0, <3>3, <4>1 DEF FlowType, CallType
      <4> QED BY <2>1, <4>1, <4>2
    <3>5. Seen'
      BY <3>1 DEF Seen
    <3> QED BY <2>2, <3>4, <3>5 DEF CarryInv
  <2>4. CASE flow'.tx = "reverted"
    <3>1. UNCHANGED <<tokens, granted>>
      BY <1>0, <1>1, <2>4 DEF MineFlow, Mined, FlowType
    <3> QED BY <2>1, <2>2, <3>1 DEF CarryInv, InPlace, Seen, tokens
  <2> QED BY <2>1, <2>3, <2>4
<1>2. CASE MineAside
  <2>1. PICK f : Mined(aside, f) /\ granted' = IF f.tx = "success" THEN "no" ELSE granted
    BY <1>2 DEF MineAside
  <2>2. UNCHANGED <<snap, tab, input, flow>>
    BY <1>2 DEF MineAside
  <2>3. f.tx # "success" => UNCHANGED tokens
    BY <1>0, <2>1 DEF Mined, FlowType
  <2> QED BY <2>1, <2>2, <2>3 DEF CarryInv, ApprovesTheInput, InPlace, Seen, tokens
<1>3. CASE Poll
  <2>1. /\ snap' = View /\ UNCHANGED <<allowance, tab, input, flow>>
        /\ granted' = IF granted = "mined" THEN "seen" ELSE granted
    BY <1>3 DEF Poll, tokens
  <2>2. snap'.allowance = allowance
    BY <2>1 DEF View
  <2> QED BY <2>1, <2>2 DEF CarryInv, ApprovesTheInput, InPlace, Seen
<1>4. CASE Elsewhere
  <2>1. UNCHANGED <<allowance, snap, tab, input, flow, granted>>
    BY <1>4 DEF Elsewhere, tokens, panel, past
  <2> QED BY <2>1 DEF CarryInv, ApprovesTheInput, InPlace, Seen
<1> QED BY <1>1, <1>2, <1>3, <1>4

LEMMA CarryStep == PageOK /\ CarryInv /\ [PageNext]_pageVars => CarryInv'
<1> SUFFICES ASSUME PageOK, CarryInv, [PageNext]_pageVars PROVE CarryInv'
  OBVIOUS
<1>1. CASE UNCHANGED pageVars
  <2>1. UNCHANGED <<allowance, snap, tab, input, flow, granted>>
    BY <1>1 DEF pageVars, tokens, panel, past
  <2> QED BY <2>1 DEF CarryInv, ApprovesTheInput, InPlace, Seen
<1> QED BY <1>1, CarryByUser, CarryByChain DEF PageNext, PressMax, PressAll

\* What the debt of d that was approved to be repaid in full has become is more than that.
Outgrown == \E d \in 0 .. input : snap.allowance["debt"] = WithRoom(d) /\ snap.debt > WithRoom(d)

\* "After an approval the same amount carries on to the real action" (market/page.tsx): once
\* its approval was seen, a deposit or a repayment in part is not asked to be approved again,
\* whatever the amounts and whatever other transactions are mined, time out or were left
\* behind meanwhile; but for a repayment approved as one of the whole debt, which interest
\* then made more than the approval left room for.
THEOREM ApprovalsCarryOn == PageSpec => [](PartCarriesOn \/ (tab = "repay" /\ Outgrown))
<1>1. PageSound => PageOK
  BY DEF PageSound
<1>2. ASSUME PageOK, CarryInv PROVE PartCarriesOn \/ (tab = "repay" /\ Outgrown)
  <2> SUFFICES ASSUME granted = "seen", Offered.fn = "approve", ~(tab = "repay" /\ input >= snap.debt)
               PROVE  tab = "repay" /\ Outgrown
    BY DEF PartCarriesOn
  <2>0. /\ allowance \in [Asset -> Nat] /\ input \in Nat /\ snap.debt \in Nat
        /\ "coll" \in Asset /\ "debt" \in Asset
    BY <1>2 DEF PageOK, PanelOK, TokensOK, ViewOK, Asset
  <2>1. input # 0
    BY DEF Offered, Offer, NoSpec
  <2>2. PICK a \in Asset : Suits(tab, a, snap.allowance[a], input)
    BY <1>2, <2>1 DEF CarryInv, InPlace, Seen
  <2>3. CASE tab = "deposit"
    <3>1. snap.allowance["coll"] = input
      BY <2>2, <2>3 DEF Suits
    <3>2. Offered = OfferDeposit(snap, input)
      BY <2>1, <2>3 DEF Offered, Offer
    <3>3. Offered \in {NoSpec, Call("depositCollateral", "coll", input)}
      BY <2>0, <3>1, <3>2 DEF OfferDeposit
    <3> QED BY <3>3 DEF NoSpec, Call
  <2>4. CASE tab = "repay"
    <3>1. ~(input >= snap.debt) /\ input < snap.debt
      BY <2>0, <2>4
    <3>2. Offered = OfferRepay(snap, input)
      BY <2>1, <2>4 DEF Offered, Offer
    <3>3. snap.allowance["debt"] < input
      <4>1. ASSUME ~(snap.allowance["debt"] < input) PROVE FALSE
        <5>1. Offered \in {NoSpec, Call("repay", "debt", input)}
          BY <3>1, <3>2, <4>1 DEF OfferRepay
        <5> QED BY <5>1 DEF NoSpec, Call
      <4> QED BY <4>1
    <3>4. snap.allowance["debt"] \in Nat
      BY <1>2, <2>0 DEF CarryInv, Seen
    <3>5. PICK d \in 0 .. input : snap.allowance["debt"] = WithRoom(d)
      BY <2>0, <2>2, <2>4, <3>3, <3>4 DEF Suits
    <3>6. snap.debt > WithRoom(d)
      BY <2>0, <3>1, <3>3, <3>4, <3>5
    <3> QED BY <2>4, <3>5, <3>6 DEF Outgrown
  <2> QED BY <2>2, <2>3, <2>4 DEF Suits
<1> QED BY <1>1, <1>2, PageInvariance, CarryInit, CarryStep, PTL DEF PageSpec

----------------------------------------------------------------------------
(* The headroom lasts. *)

\* Only the user borrows.
OnlyUserOwes == \A w \in Borrower : w # User => scaledDebt[w] = 0

LEMMA OwesInit == PageInit => OnlyUserOwes
BY DEF PageInit, OnlyUserOwes

LEMMA OwesExecuted ==
    ASSUME PageSound, OnlyUserOwes, NEW s, Execute(s)
    PROVE  OnlyUserOwes'
<1>1. scaledDebt \in [Borrower -> Nat]
  BY DEF PageSound, ChainOK, IInv, TypeOK
<1>2. (\E v : scaledDebt' = [scaledDebt EXCEPT ![User] = v]) \/ UNCHANGED scaledDebt
  <2>1. ASSUME NEW x, DepositCollateral(User, x) PROVE UNCHANGED scaledDebt
    BY <2>1 DEF DepositCollateral, debts
  <2>2. ASSUME NEW x, WithdrawCollateral(User, x) PROVE UNCHANGED scaledDebt
    BY <2>2 DEF WithdrawCollateral, debts
  <2>3. ASSUME NEW x, Borrow(User, x) PROVE \E v : scaledDebt' = [scaledDebt EXCEPT ![User] = v]
    BY <2>3 DEF Borrow
  <2>4. ASSUME NEW x, Repay(User, x) PROVE \E v : scaledDebt' = [scaledDebt EXCEPT ![User] = v]
    BY <2>4 DEF Repay, ReduceDebt
  <2>5. CASE s.fn \in {"approve", "submitAttestation"}
    BY <2>5 DEF Execute, Rescore, vars, market, debts
  <2> QED BY <2>1, <2>2, <2>3, <2>4, <2>5 DEF Execute
<1> QED BY <1>1, <1>2 DEF OnlyUserOwes

LEMMA OwesStep == PageSound /\ OnlyUserOwes /\ [PageNext]_pageVars => OnlyUserOwes'
<1> SUFFICES ASSUME PageSound, OnlyUserOwes, [PageNext]_pageVars PROVE OnlyUserOwes'
  OBVIOUS
<1>1. CASE UNCHANGED scaledDebt
  BY <1>1 DEF OnlyUserOwes
<1>2. CASE MineFlow \/ MineAside
  BY <1>1, <1>2, OwesExecuted DEF MineFlow, MineAside, Mined, vars, market, debts
<1>3. CASE Elsewhere
  BY <1>1, <1>3 DEF Elsewhere, Tick, SetPaused, market, debts
<1>4. CASE ~(MineFlow \/ MineAside \/ Elsewhere)
  <2>1. UNCHANGED vars
    BY <1>4 DEF PageNext, pageVars, Untouched, Open, Type, PressMax, PressAll, Sign, Request, Answered,
                Submit, Sent, Receive, TimeOut, ReceiveAside, Poll
  <2> QED BY <1>1, <2>1 DEF vars, market, debts
<1> QED BY <1>2, <1>3, <1>4

\* So the market's debt, and that of the user's tier, is the user's.
LEMMA UsersIsAll ==
    ASSUME PageSound, OnlyUserOwes
    PROVE  /\ totalScaledDebt = scaledDebt[User]
           /\ \A t \in Tier : scaledDebtByTier[t] = IF tier[User] = t THEN scaledDebt[User] ELSE 0
<1>0. /\ scaledDebt \in [Borrower -> Nat] /\ tier \in [Borrower -> Tier] /\ User \in Borrower
      /\ SumOfDebt /\ SumsOfBuckets /\ scaledDebt[User] \in Nat
  BY PageInputs DEF PageSound, ChainOK, Books, IInv, TypeOK
<1>1. totalScaledDebt = scaledDebt[User]
  <2>1. scaledDebt = [w \in Borrower |-> IF w = User THEN scaledDebt[User] ELSE 0]
    BY <1>0 DEF OnlyUserOwes
  <2> QED BY <1>0, <2>1, SumOfOne DEF SumOfDebt
<1>2. ASSUME NEW t \in Tier PROVE scaledDebtByTier[t] = IF tier[User] = t THEN scaledDebt[User] ELSE 0
  <2> DEFINE S == {w \in Borrower : tier[w] = t}
  <2>1. scaledDebtByTier[t] = Total(scaledDebt, S)
    BY <1>0 DEF SumsOfBuckets, Bucket
  <2>2. IsFiniteSet(S) /\ \A y \in S : scaledDebt[y] \in Nat
    BY <1>0, FS_Subset, Borrowers
  <2>3. User \in S <=> tier[User] = t
    BY <1>0
  <2>4. \A y \in S \ {User} : scaledDebt[y] = 0
    BY DEF OnlyUserOwes
  <2>5. IsFiniteSet(S \ {User})
    BY <2>2, FS_Subset
  <2> HIDE DEF S
  <2>6. Total(scaledDebt, S \ {User}) = 0
    BY <2>4, <2>5, SumZero DEF Total
  <2>7. CASE tier[User] = t
    <3>1. Total(scaledDebt, S) = scaledDebt[User] + Total(scaledDebt, S \ {User})
      BY <2>2, <2>3, <2>7, TotalAdd
    <3> QED BY <1>0, <2>1, <2>6, <2>7, <3>1
  <2>8. CASE tier[User] # t
    <3>1. S \ {User} = S
      BY <2>3, <2>8
    <3> QED BY <2>1, <2>6, <2>8, <3>1
  <2> QED BY <2>7, <2>8
<1> QED BY <1>1, <1>2

\* The index k seconds from now, should nothing accrue meanwhile.
IndexIn(k) ==
    IF totalScaledDebt = 0 THEN borrowIndex
    ELSE borrowIndex + MulDiv(borrowIndex, Rate * ((now + k) - lastAccrual), BPS * SECONDS_PER_YEAR)

\* How much of that the headroom reckons with.
GrowthIn(k) == MulDiv(borrowIndex, Rate * k, BPS * SECONDS_PER_YEAR)

LEMMA LaterArithmetic ==
    ASSUME NEW k, NEW a, NEW b, NEW c
    PROVE  /\ Later(k)!MulDiv(a, b, c) = MulDiv(a, b, c)
           /\ Later(k)!MulDivUp(a, b, c) = MulDivUp(a, b, c)
           /\ Later(k)!DebtFromScaled(a, b) = DebtFromScaled(a, b)
           /\ Later(k)!Price(a) = Price(a)
           /\ Later(k)!BPS = BPS
BY DEF Later!MulDiv, MulDiv, Later!MulDivUp, MulDivUp, Later!DebtFromScaled, DebtFromScaled,
       Later!Price, Price, Later!BPS, BPS

LEMMA LaterIndex == ASSUME PageSound, NEW k \in Nat PROVE Later(k)!Index = IndexIn(k)
<1>1. Later(k)!Rate = Rate
  <2>1. \A u, wad : Later(k)!BorrowRateBps(u, wad) = BorrowRateBps(u, wad)
    BY DEF Later!BorrowRateBps, BorrowRateBps, Later!BASE_RATE_BPS, BASE_RATE_BPS, Later!SLOPE_BPS, SLOPE_BPS
  <2>2. \A d, r : Later(k)!Utilization(d, r) = Utilization(d, r)
    BY LaterArithmetic DEF Later!Utilization, Utilization
  <2> QED BY <2>1, <2>2, LaterArithmetic DEF Later!Rate, Rate
<1>2. Later(k)!Growth = IF totalScaledDebt = 0 THEN 0
                        ELSE MulDiv(borrowIndex, Rate * ((now + k) - lastAccrual), BPS * SECONDS_PER_YEAR)
  <2>1. CASE totalScaledDebt = 0
    BY <2>1 DEF Later!Growth
  <2>2. CASE totalScaledDebt # 0
    <3> DEFINE e == (now + k) - lastAccrual
    <3>1. Later(k)!BPS = BPS
      BY LaterArithmetic
    <3>2. Later(k)!Growth = Later(k)!MulDiv(borrowIndex, Later(k)!Rate * e, Later(k)!BPS * SECONDS_PER_YEAR)
      BY <2>2 DEF Later!Growth
    <3> HIDE DEF e
    <3>4. Later(k)!Growth = Later(k)!MulDiv(borrowIndex, Rate * e, BPS * SECONDS_PER_YEAR)
      BY <1>1, <3>1, <3>2
    <3>5. Later(k)!MulDiv(borrowIndex, Rate * e, BPS * SECONDS_PER_YEAR)
            = MulDiv(borrowIndex, Rate * e, BPS * SECONDS_PER_YEAR)
      BY LaterArithmetic
    <3> QED BY <2>2, <3>4, <3>5 DEF e
  <2> QED BY <2>1, <2>2
<1>3. borrowIndex \in Nat
  BY DEF PageSound, ChainOK, IInv, TypeOK
<1> QED BY <1>2, <1>3 DEF Later!Index, IndexIn

\* Two floors of parts and the floor of the whole.
LEMMA FloorOfSum ==
    ASSUME NEW a \in Nat, NEW b \in Nat, NEW c \in Nat \ {0}
    PROVE  a \div c <= (a + b) \div c /\ (a + b) \div c <= a \div c + b \div c + 1
<1> DEFINE q == a \div c
           r == b \div c
<1>1. q \in Nat /\ r \in Nat /\ a < q * c + c /\ b < r * c + c
  BY DivFloor
<1> HIDE DEF q, r
<1>2. (q + r + 1) * c + c = (q * c + c) + (r * c + c)
  BY <1>1
<1>3. q + r + 1 \in Nat /\ a + b \in Nat /\ a + b < (q + r + 1) * c + c
  <2>1. q * c \in Nat /\ r * c \in Nat
    BY <1>1, MulNat
  <2> QED BY <1>1, <1>2, <2>1
<1>4. (a + b) \div c <= q + r + 1
  BY <1>3, DivLeast
<1> DEFINE p == (a + b) \div c
<1>5. p \in Nat /\ a + b < p * c + c
  BY <1>3, DivFloor
<1>6. p * c \in Nat
  BY <1>5, MulNat
<1> HIDE DEF p
<1>7. a \div c <= p
  <2>1. a < p * c + c
    BY <1>5, <1>6
  <2> QED BY <1>5, <2>1, DivLeast
<1> QED BY <1>4, <1>7 DEF p, q, r

\* In k seconds the index grows by what the rate makes of it, and a unit for the roundings.
LEMMA IndexGrows ==
    ASSUME PageSound, NEW k \in Nat
    PROVE  /\ IndexIn(k) \in Nat \ {0} /\ GrowthIn(k) \in Nat
           /\ Index <= IndexIn(k) /\ IndexIn(k) <= Index + GrowthIn(k) + 1
           /\ totalScaledDebt = 0 => IndexIn(k) = Index
           /\ GrowthIn(k) * (BPS * SECONDS_PER_YEAR) <= Index * (Rate * k)
<1>1. /\ borrowIndex \in Nat \ {0} /\ Rate \in Nat /\ now \in Nat /\ lastAccrual \in Nat /\ lastAccrual <= now
      /\ Index \in Nat /\ borrowIndex <= Index
  <2>1. borrowIndex \in Nat /\ borrowIndex >= RAY
    BY DEF PageSound, ChainOK, IInv, TypeOK, Solvent
  <2> QED BY <2>1, Accrued, Units DEF PageSound, ChainOK, IInv, TypeOK, Solvent
<1> DEFINE B == BPS * SECONDS_PER_YEAR
           e == now - lastAccrual
<1>2. B \in Nat \ {0} /\ e \in Nat /\ (now + k) - lastAccrual = e + k
  BY <1>1, Units DEF BPS
<1> HIDE DEF B, e
<1>3. Rate * e \in Nat /\ Rate * k \in Nat /\ Rate * (e + k) = Rate * e + Rate * k
  BY <1>1, <1>2
<1> DEFINE a == borrowIndex * (Rate * e)
           b == borrowIndex * (Rate * k)
<1>4. a \in Nat /\ b \in Nat /\ borrowIndex * (Rate * (e + k)) = a + b
  BY <1>1, <1>3, MulNat
<1>5. GrowthIn(k) = b \div B
  BY DEF GrowthIn, MulDiv, B
<1>6. b <= Index * (Rate * k)
  BY <1>1, <1>3
<1> HIDE DEF a, b
<1>7. b \div B \in Nat /\ (b \div B) * B <= b
  BY <1>2, <1>4, DivFloor
<1>8. GrowthIn(k) \in Nat /\ GrowthIn(k) * B <= Index * (Rate * k)
  <2>1. Index * (Rate * k) \in Nat /\ (b \div B) * B \in Nat
    BY <1>1, <1>2, <1>3, <1>7, MulNat
  <2> QED BY <1>4, <1>5, <1>6, <1>7, <2>1
<1>9. CASE totalScaledDebt = 0
  <2>1. IndexIn(k) = borrowIndex /\ Index = borrowIndex
    BY <1>1, <1>9 DEF IndexIn, Index, Growth
  <2> QED BY <1>1, <1>8, <2>1 DEF B
<1>10. CASE totalScaledDebt # 0
  <2>1. Index = borrowIndex + a \div B
    BY <1>10 DEF Index, Growth, MulDiv, a, B, e
  <2>2. IndexIn(k) = borrowIndex + (a + b) \div B
    BY <1>2, <1>4, <1>10 DEF IndexIn, MulDiv, B
  <2>3. (a + b) \div B \in Nat /\ a \div B <= (a + b) \div B /\ (a + b) \div B <= a \div B + b \div B + 1 /\ a \div B \in Nat
    <3>1. a + b \in Nat
      BY <1>4
    <3>2. (a + b) \div B \in Nat /\ a \div B \in Nat
      BY <1>2, <1>4, <3>1, DivFloor
    <3> QED BY <1>2, <1>4, <3>2, FloorOfSum
  <2> QED BY <1>1, <1>5, <1>7, <1>8, <1>10, <2>1, <2>2, <2>3 DEF B
<1> QED BY <1>9, <1>10

\* A factor in common.
LEMMA MulOrder ==
    ASSUME NEW a \in Nat, NEW b \in Nat, NEW c \in Nat
    PROVE  (a <= b => a * c <= b * c) /\ (c > 0 /\ a * c <= b * c => a <= b)
<1>1. ASSUME a <= b PROVE a * c <= b * c
  BY <1>1
<1>2. ASSUME c > 0, a * c <= b * c, b < a PROVE FALSE
  <2>1. (b + 1) * c <= a * c
    BY <1>2
  <2>2. (b + 1) * c = b * c + c
    OBVIOUS
  <2>3. a * c \in Nat /\ b * c \in Nat
    BY MulNat
  <2> QED BY <1>2, <2>1, <2>2, <2>3
<1> QED BY <1>1, <1>2

\* The interest that k seconds add to a debt of d is within what the headroom takes it to
\* be for S seconds, and a unit.
LEMMA InterestFits ==
    ASSUME NEW s \in Nat, NEW i \in Nat, NEW d \in Nat, NEW r \in Nat, NEW k \in Nat, NEW S \in Nat,
           NEW B \in Nat \ {0}, NEW g \in Nat, NEW h \in Nat,
           k <= S, s * i <= d * RAY, g * B <= i * (r * k), d * (r * S) < h * B + B
    PROVE  s * g <= (h + 1) * RAY
<1>1. r * k \in Nat /\ r * S \in Nat /\ r * k <= r * S
  BY MulNat, MulOrder
<1> DEFINE a == r * k
           b == r * S
<1>2. a \in Nat /\ b \in Nat /\ a <= b /\ g * B <= i * a /\ d * b < h * B + B
  BY <1>1
<1> HIDE DEF a, b
<1>3. (s * g) * B <= (s * i) * a
  <2>1. g * B \in Nat /\ i * a \in Nat
    BY <1>2, MulNat
  <2>2. (g * B) * s <= (i * a) * s
    BY <1>2, <2>1, MulOrder
  <2> QED BY <1>2, <2>2
<1>4. (s * i) * a <= (d * RAY) * a
  <2>1. s * i \in Nat /\ d * RAY \in Nat
    BY MulNat, Units
  <2> QED BY <1>2, <2>1, MulOrder
<1>5. (d * RAY) * a <= (d * RAY) * b
  <2>1. d * RAY \in Nat
    BY MulNat, Units
  <2>2. a * (d * RAY) <= b * (d * RAY)
    BY <1>2, <2>1, MulOrder
  <2> QED BY <1>2, <2>1, <2>2
<1>6. (d * RAY) * b <= ((h + 1) * RAY) * B
  <2>1. d * b \in Nat /\ (h + 1) * B \in Nat /\ (h + 1) * B = h * B + B
    BY <1>2, MulNat
  <2>2. d * b <= (h + 1) * B
    BY <1>2, <2>1
  <2>3. (d * b) * RAY <= ((h + 1) * B) * RAY
    BY <2>1, <2>2, MulOrder, Units
  <2> QED BY <1>2, <2>3, Units
<1>7. /\ s * g \in Nat /\ (s * g) * B \in Nat /\ (s * i) * a \in Nat /\ (d * RAY) * a \in Nat
      /\ (d * RAY) * b \in Nat /\ (h + 1) * RAY \in Nat /\ ((h + 1) * RAY) * B \in Nat
  <2>1. s * g \in Nat /\ s * i \in Nat /\ d * RAY \in Nat /\ (h + 1) * RAY \in Nat
    BY MulNat, Units
  <2> QED BY <1>2, <2>1, MulNat
<1>8. (s * g) * B <= ((h + 1) * RAY) * B
  BY <1>3, <1>4, <1>5, <1>6, <1>7
<1> QED BY <1>7, <1>8, MulOrder

\* The dust the headroom ends with covers the roundings, of the debt and of the index.
MarginsFit == scaledDebt[User] + GrowthIn(SLACK) + 1 <= (DUST - 1) * RAY

\* So for as long as the headroom lasts the debt stays within it, in units of the index,
\* with what a loan's rounding up may add.
LEMMA DebtLasts ==
    ASSUME PageSound, OnlyUserOwes, MarginsFit, NEW k \in 0 .. SLACK, Debt(User) > 0
    PROVE  scaledDebt[User] * IndexIn(k) + (IndexIn(k) - Index)
             <= (Debt(User) + Headroom(View)) * RAY
<1> DEFINE s == scaledDebt[User]
           i == Index
           d == Debt(User)
           g == GrowthIn(k)
           B == BPS * SECONDS_PER_YEAR
           h == MulDiv(d, Rate * SLACK, B)
           j == IndexIn(k)
<1>1. /\ s \in Nat /\ i \in Nat \ {0} /\ d \in Nat /\ s * i <= d * RAY /\ Rate \in Nat
      /\ k \in Nat /\ SLACK \in Nat /\ k <= SLACK /\ B \in Nat \ {0} /\ borrowIndex \in Nat
  <2>1. IInv /\ User \in Borrower /\ s \in Nat /\ borrowIndex \in Nat
    BY PageInputs DEF PageSound, ChainOK, IInv, TypeOK
  <2>2. i \in Nat \ {0} /\ Rate \in Nat
    BY <2>1, Accrued
  <2>3. d \in Nat /\ s * i <= d * RAY
    BY <2>1, <2>2, DebtBounds DEF Debt
  <2>4. B \in Nat \ {0}
    BY Units DEF BPS
  <2> QED BY <2>1, <2>2, <2>3, <2>4, PageInputs
<1>2. j \in Nat \ {0} /\ g \in Nat /\ j <= i + g + 1 /\ g * B <= i * (Rate * k)
  BY <1>1, IndexGrows
<1>3. Headroom(View) = h + DUST
  BY DEF Headroom, View
<1>4. h \in Nat /\ d * (Rate * SLACK) < h * B + B
  <2>1. Rate * SLACK \in Nat
    BY <1>1, MulNat
  <2> QED BY <1>1, <2>1, MulDivFloor
<1>5. GrowthIn(SLACK) \in Nat /\ g <= GrowthIn(SLACK)
  <2>1. GrowthIn(SLACK) \in Nat
    BY <1>1, IndexGrows
  <2>2. Rate * k \in Nat /\ Rate * SLACK \in Nat /\ Rate * k <= Rate * SLACK
    <3>1. k * Rate <= SLACK * Rate
      BY <1>1, MulOrder
    <3> QED BY <1>1, <3>1, MulNat
  <2> DEFINE a == Rate * k
             b == Rate * SLACK
  <2>3. a \in Nat /\ b \in Nat /\ a <= b
    BY <2>2
  <2> HIDE DEF a, b, B
  <2>4. MulDiv(a, borrowIndex, B) <= MulDiv(b, borrowIndex, B)
    BY <1>1, <2>3, MulDivMonotone
  <2>5. MulDiv(a, borrowIndex, B) = MulDiv(borrowIndex, a, B) /\ MulDiv(b, borrowIndex, B) = MulDiv(borrowIndex, b, B)
    BY <1>1, <2>3 DEF MulDiv
  <2> QED BY <2>1, <2>4, <2>5 DEF GrowthIn, a, b, B
<1> DEFINE G == GrowthIn(SLACK)
<1>6. s + G + 1 <= (DUST - 1) * RAY
  BY DEF MarginsFit
<1> HIDE DEF s, i, d, g, B, h, j, G
<1>7. s * g <= (h + 1) * RAY
  BY <1>1, <1>2, <1>4, InterestFits
<1>8. s * j <= s * i + s * g + s
  <2>1. i + g + 1 \in Nat
    BY <1>1, <1>2
  <2>2. j * s <= (i + g + 1) * s
    BY <1>1, <1>2, <2>1, MulOrder
  <2>3. (i + g + 1) * s = s * i + s * g + s
    BY <1>1, <1>2
  <2> QED BY <1>1, <1>2, <2>2, <2>3
<1>9. (d + (h + DUST)) * RAY = d * RAY + (h + 1) * RAY + (DUST - 1) * RAY
  BY <1>1, <1>4, PageInputs, Units
<1>10. /\ s * j \in Nat /\ s * i \in Nat /\ s * g \in Nat /\ d * RAY \in Nat
       /\ (h + 1) * RAY \in Nat /\ (DUST - 1) * RAY \in Int
  BY <1>1, <1>2, <1>4, MulNat, PageInputs, Units
<1>11. s * j + (j - i) <= (d + (h + DUST)) * RAY
  <2>1. j - i <= G + 1 /\ G \in Nat
    BY <1>1, <1>2, <1>5 DEF G
  <2> QED BY <1>1, <1>2, <1>6, <1>7, <1>8, <1>9, <1>10, <2>1
<1> QED BY <1>3, <1>11 DEF s, i, d, j

\* What is not more than an amount in units of the index is not more than it in debt.
LEMMA DebtWithin ==
    ASSUME NEW s \in Nat, NEW i \in Nat, NEW q \in Nat, s * i <= q * RAY
    PROVE  DebtFromScaled(s, i) <= q
BY CeilLeast, Units DEF DebtFromScaled

\* What All types covers the debt, for as long as the headroom lasts.
LEMMA AllCovers == ASSUME PageSound, OnlyUserOwes, MarginsFit PROVE AllStaysFull
<1> SUFFICES ASSUME NEW k \in 0 .. SLACK, Debt(User) > 0
             PROVE  AllInput(View) >= Later(k)!Debt(User)
  BY DEF AllStaysFull
<1> DEFINE s == scaledDebt[User]
           j == IndexIn(k)
           q == Debt(User) + Headroom(View)
<1>1. s \in Nat /\ j \in Nat \ {0} /\ j >= Index /\ Index \in Nat /\ Debt(User) \in Nat /\ Headroom(View) \in Nat
  <2>1. ViewOK(View) /\ IInv /\ k \in Nat
    BY ViewType, PageInputs DEF PageSound, PageOK, ChainOK
  <2>2. s \in Nat /\ Index \in Nat /\ Debt(User) \in Nat /\ Headroom(View) \in Nat
    BY <2>1, Accrued, ButtonTypes, ReductionBounds, PageInputs DEF IInv, TypeOK
  <2>3. j \in Nat \ {0} /\ j >= Index
    BY <2>1, <2>2, IndexGrows
  <2> QED BY <2>2, <2>3
<1>2. s * j + (j - Index) <= q * RAY
  BY DebtLasts
<1>3. AllInput(View) > q /\ AllInput(View) \in Nat
  <2>1. AllInput(View) = (q \div DUST + 1) * DUST
    BY DEF AllInput, View
  <2>2. q \in Nat
    BY <1>1
  <2> HIDE DEF q
  <2>3. q \div DUST \in Nat /\ q < (q \div DUST) * DUST + DUST
    BY <2>2, DivFloor, PageInputs
  <2> DEFINE n == q \div DUST
  <2>4. n \in Nat /\ q < n * DUST + DUST /\ AllInput(View) = (n + 1) * DUST
    BY <2>1, <2>3
  <2> HIDE DEF n
  <2>5. (n + 1) * DUST = n * DUST + DUST /\ n * DUST \in Nat
    BY <2>4, MulNat, PageInputs
  <2> QED BY <2>2, <2>4, <2>5, PageInputs
<1>4. Later(k)!Debt(User) = DebtFromScaled(s, j)
  <2>1. Later(k)!Index = j
    BY LaterIndex
  <2> QED BY <2>1, LaterArithmetic DEF Later!Debt
<1> HIDE DEF s, j
<1>5. DebtFromScaled(s, j) <= q /\ DebtFromScaled(s, j) \in Nat /\ q \in Nat
  <2>1. q \in Nat
    BY <1>1
  <2>2. s * j <= q * RAY
    <3>1. s * j \in Nat /\ q * RAY \in Nat
      BY <1>1, <2>1, MulNat, Units
    <3> QED BY <1>1, <1>2, <3>1
  <2> HIDE DEF q
  <2> QED BY <1>1, <2>1, <2>2, DebtWithin, DebtBounds
<1> QED BY <1>3, <1>4, <1>5

\* A loan signed now and executed while the headroom lasts makes a debt within the debt of
\* now, the headroom, the loan and the margin maxBorrow keeps.
LEMMA LoanLasts ==
    ASSUME PageSound, OnlyUserOwes, MarginsFit, NEW k \in 0 .. SLACK, NEW m \in Nat
    PROVE  /\ MulDivUp(m, RAY, IndexIn(k)) \in Nat
           /\ DebtFromScaled(scaledDebt[User] + MulDivUp(m, RAY, IndexIn(k)), IndexIn(k)) \in Nat
           /\ DebtFromScaled(scaledDebt[User] + MulDivUp(m, RAY, IndexIn(k)), IndexIn(k)) + 1
                <= Debt(User) + Headroom(View) + m + Margin
<1> DEFINE s == scaledDebt[User]
           i == Index
           j == IndexIn(k)
           q == Debt(User) + Headroom(View)
           u == MulDivUp(m, RAY, j)
           n == i \div RAY
<1>1. s \in Nat /\ j \in Nat \ {0} /\ i <= j /\ i \in Nat \ {0} /\ Debt(User) \in Nat /\ Headroom(View) \in Nat
  <2>1. ViewOK(View) /\ IInv /\ k \in Nat
    BY ViewType, PageInputs DEF PageSound, PageOK, ChainOK
  <2>2. s \in Nat /\ i \in Nat \ {0} /\ Debt(User) \in Nat /\ Headroom(View) \in Nat
    BY <2>1, Accrued, ButtonTypes, ReductionBounds, PageInputs DEF IInv, TypeOK
  <2>3. j \in Nat \ {0} /\ i <= j
    BY <2>1, IndexGrows
  <2> QED BY <2>2, <2>3
<1>2. q \in Nat /\ s * j + (j - i) <= q * RAY
  <2>1. CASE Debt(User) > 0
    BY <1>1, <2>1, DebtLasts
  <2>2. CASE ~(Debt(User) > 0)
    <3>1. s = 0
      <4>1. s \in Nat /\ i \in Nat \ {0} /\ Debt(User) = DebtFromScaled(s, i) /\ Debt(User) \in Nat
        BY <1>1 DEF Debt
      <4> HIDE DEF s, i
      <4>2. s > 0 /\ i > 0 => DebtFromScaled(s, i) > 0
        BY <4>1, DebtBounds
      <4> QED BY <2>2, <4>1, <4>2
    <3>2. j = i
      <4>1. totalScaledDebt = 0
        BY <3>1, UsersIsAll
      <4>2. k \in Nat
        BY PageInputs
      <4> QED BY <4>1, <4>2, IndexGrows
    <3>3. s * j = 0 /\ q * RAY \in Nat /\ q \in Nat
      BY <1>1, <3>1, Units
    <3> QED BY <1>1, <3>2, <3>3
  <2> QED BY <2>1, <2>2
<1>3. u \in Nat /\ u * j < m * RAY + j
  BY <1>1, MulDivCeil, Units
<1>4. n \in Nat /\ i < n * RAY + RAY /\ Margin = n + 2
  BY <1>1, DivFloor, Units DEF Margin
<1> HIDE DEF s, i, j, q, u, n
<1>5. (s + u) * j = s * j + u * j /\ (q + m + (n + 1)) * RAY = q * RAY + m * RAY + (n * RAY + RAY)
  BY <1>1, <1>2, <1>3, <1>4, Units
<1>6. (s + u) * j <= (q + m + (n + 1)) * RAY
  <2>1. /\ s * j \in Nat /\ u * j \in Nat /\ q * RAY \in Nat /\ m * RAY \in Nat /\ n * RAY \in Nat
    BY <1>1, <1>2, <1>3, <1>4, MulNat, Units
  <2> QED BY <1>1, <1>2, <1>3, <1>4, <1>5, <2>1, Units
<1>7. s + u \in Nat /\ q + m + (n + 1) \in Nat
  BY <1>1, <1>2, <1>3, <1>4
<1>8. DebtFromScaled(s + u, j) \in Nat /\ DebtFromScaled(s + u, j) <= q + m + (n + 1)
  BY <1>1, <1>6, <1>7, DebtWithin, DebtBounds
<1>9. DebtFromScaled(s + u, j) + 1 <= q + m + Margin
  BY <1>2, <1>4, <1>8
<1> QED BY <1>3, <1>8, <1>9 DEF s, u, j, q

\* Debt within the limits maxBorrow names keeps the market's terms.
LEMMA TermsPass ==
    ASSUME PageSound, PricesFresh, NEW d \in Nat, d + 1 <= LtvLimit(User)
    PROVE  DebtValue(d) * BPS <= CollValue(collateral[User]) * MaxLtv[effective[User]]
<1> DEFINE pc == Price("coll")
           pd == Price("debt")
           ltv == MaxLtv[effective[User]]
<1>1. collateral[User] \in Nat /\ effective[User] \in Tier
  BY PageInputs DEF PageSound, ChainOK, IInv, TypeOK
<1>2. pc \in Nat /\ pd \in Nat \ {0} /\ (pd % WAD = 0 \/ pd >= 2 * WAD)
  BY Units DEF PageSound, ChainOK, AtPar, Price, Asset
<1>3. ltv \in Nat /\ ltv <= BPS
  BY <1>1, Inputs, MarketAssumption DEF ValidTerms, Overcollateralized, BPS
<1>4. d + 1 <= MulDiv(collateral[User], pc * ltv, BPS * pd)
  BY DEF LtvLimit
<1> HIDE DEF pc, pd, ltv
<1>5. MulDivUp(d, pd, WAD) * BPS <= MulDiv(collateral[User], pc, WAD) * ltv
  BY <1>1, <1>2, <1>3, <1>4, LimitPasses
<1> QED BY <1>5 DEF DebtValue, CollValue, pc, pd, ltv

\* The bucket the user's debt is in, or moves to, holds nothing else.
LEMMA UsersBucket ==
    ASSUME PageSound, OnlyUserOwes
    PROVE  /\ BucketDebt(User) = Debt(User) /\ TotalDebt = Debt(User)
           /\ Rebucketed(User)[effective[User]] = scaledDebt[User]
           /\ Rebucketed(User) \in [Tier -> Int]
<1> DEFINE s == scaledDebt[User]
           t == effective[User]
<1>1. /\ s \in Nat /\ t \in Tier /\ tier[User] \in Tier /\ Index \in Nat /\ Debt(User) \in Nat
      /\ scaledDebtByTier \in [Tier -> Nat]
  <2>1. IInv /\ User \in Borrower
    BY PageInputs DEF PageSound, ChainOK
  <2> QED BY <2>1, Accrued, ReductionBounds DEF IInv, TypeOK
<1>2. totalScaledDebt = s /\ scaledDebtByTier[t] = (IF tier[User] = t THEN s ELSE 0)
  BY <1>1, UsersIsAll
<1>3. TotalDebt = Debt(User)
  BY <1>2 DEF TotalDebt, Debt
<1>4. Rebucketed(User) \in [Tier -> Int]
  BY PageInputs, RebucketedIntegers DEF PageSound, ChainOK
<1>5. CASE tier[User] = t
  BY <1>1, <1>2, <1>3, <1>4, <1>5 DEF BucketDebt, Debt, Rebucketed
<1>6. CASE tier[User] # t
  <2>1. DebtFromScaled(0, Index) = 0
    <3>1. 0 * Index <= 0 * RAY
      BY <1>1, Units
    <3> QED BY <1>1, <3>1, DebtWithin, DebtBounds
  <2>2. BucketDebt(User) = Debt(User)
    BY <1>1, <1>2, <1>6, <2>1 DEF BucketDebt
  <2>3. Rebucketed(User)[t] = s
    BY <1>1, <1>2, <1>6 DEF Rebucketed
  <2> QED BY <1>3, <1>4, <2>2, <2>3
<1> QED BY <1>5, <1>6

\* What the contract asks of a loan k seconds from now.
LEMMA LendsLater ==
    ASSUME PageSound, OnlyUserOwes, NEW k \in Nat, NEW m \in Nat, NEW u \in Nat, NEW d \in Nat,
           u = MulDivUp(m, RAY, IndexIn(k)), d = DebtFromScaled(scaledDebt[User] + u, IndexIn(k)),
           0 < m, m <= cash, d <= globalDebtCap, d <= tierDebtCap[effective[User]],
           d <= WalletCap[effective[User]], Later(k)!PricesFresh,
           DebtValue(d) * BPS <= CollValue(collateral[User]) * MaxLtv[effective[User]]
    PROVE  Later(k)!CanBorrow(User, m)
<1> DEFINE t == effective[User]
<1>1. Later(k)!Index = IndexIn(k)
  BY LaterIndex
<1>2. Later(k)!ScaledUp(m) = u
  BY <1>1, LaterArithmetic DEF Later!ScaledUp
<1>3. Later(k)!CanRetier(User)
  <2>1. CanRetier(User)
    BY RetierNeverReverts, BooksAre, PageInputs DEF PageSound, ChainOK
  <2> QED BY <2>1 DEF CanRetier, Later!CanRetier
<1>4. Later(k)!Rebucketed(User) = Rebucketed(User)
  BY DEF Rebucketed, Later!Rebucketed
<1>5. Later(k)!BucketsAfter(User, m)[t] = scaledDebt[User] + u
  <2>1. Later(k)!BucketsAfter(User, m) = [Rebucketed(User) EXCEPT ![t] = @ + u]
    BY <1>2, <1>4 DEF Later!BucketsAfter
  <2>2. t \in Tier
    BY PageInputs DEF PageSound, ChainOK, IInv, TypeOK
  <2> QED BY <2>1, <2>2, UsersBucket
<1>6. DebtFromScaled(totalScaledDebt + u, IndexIn(k)) = d
  BY UsersIsAll
<1>7. Later(k)!EnforceTerms(collateral[User], d, t, d)
  <2>1. Later(k)!DebtValue(d) = DebtValue(d) /\ Later(k)!CollValue(collateral[User]) = CollValue(collateral[User])
    BY LaterArithmetic DEF DebtValue, CollValue, Later!DebtValue, Later!CollValue
  <2>2. Later(k)!BPS = BPS
    BY LaterArithmetic
  <2> QED BY <2>1, <2>2 DEF Later!EnforceTerms
<1>8. Later(k)!DebtFromScaled(totalScaledDebt + u, IndexIn(k)) = d
      /\ Later(k)!DebtFromScaled(scaledDebt[User] + u, IndexIn(k)) = d
  BY <1>6, LaterArithmetic
<1> QED BY <1>1, <1>2, <1>3, <1>5, <1>7, <1>8 DEF Later!CanBorrow

\* What Max types can be borrowed, for as long as the headroom lasts.
LEMMA MaxFits == ASSUME PageSound, OnlyUserOwes, MarginsFit PROVE MaxStillFits
<1> SUFFICES ASSUME NEW k \in 0 .. SLACK, Later(k)!PricesFresh, PricesFresh, MaxInput(View) > 0
             PROVE  Later(k)!CanBorrow(User, MaxInput(View))
  BY DEF MaxStillFits
<1> DEFINE m == MaxInput(View)
           h == Headroom(View)
           most == MaxBorrow(User)
           t == effective[User]
           u == MulDivUp(m, RAY, IndexIn(k))
           d == DebtFromScaled(scaledDebt[User] + u, IndexIn(k))
<1>1. /\ m \in Nat /\ h \in Nat /\ most \in Nat /\ Debt(User) \in Nat /\ Margin \in Nat /\ cash \in Nat
      /\ t \in Tier /\ WalletCap[t] \in Nat /\ tierDebtCap[t] \in Nat /\ globalDebtCap \in Nat
      /\ LtvLimit(User) \in Nat /\ k \in Nat
  <2>1. ViewOK(View) /\ IInv /\ User \in Borrower
    BY ViewType, PageInputs DEF PageSound, PageOK, ChainOK
  <2>2. m \in Nat /\ h \in Nat
    BY <2>1, ButtonTypes
  <2>3. most \in Nat /\ Debt(User) \in Nat /\ Index \in Nat
    BY <2>1, MaxBorrowWithin, ReductionBounds, Accrued
  <2>4. Margin \in Nat
    BY <2>3, DivFloor, Units DEF Margin
  <2>5. t \in Tier /\ tierDebtCap[t] \in Nat /\ globalDebtCap \in Nat /\ cash \in Nat /\ collateral[User] \in Nat
    BY <2>1 DEF IInv, TypeOK
  <2>6. MaxLtv[t] \in Nat /\ WalletCap[t] \in Nat
    BY <2>5, Inputs
  <2>7. LtvLimit(User) \in Nat
    <3>1. Price("coll") \in Nat \ {0} /\ Price("debt") \in Nat \ {0}
      BY <2>1, PriceType DEF Asset
    <3>2. Price("coll") * MaxLtv[t] \in Nat /\ BPS * Price("debt") \in Nat \ {0}
      BY <2>6, <3>1 DEF BPS
    <3> QED BY <2>5, <3>2, MulDivFloor DEF LtvLimit, t
  <2> QED BY <2>2, <2>3, <2>4, <2>5, <2>6, <2>7
<1>2. m + h <= most
  <2> DEFINE safe == most - h
  <2>1. View.max = most
    BY DEF View
  <2>2. CASE most > h
    <3>1. m = (safe \div DUST) * DUST
      BY <2>1, <2>2 DEF MaxInput
    <3>2. safe \in Nat /\ safe + h = most
      BY <1>1, <2>2
    <3> HIDE DEF safe
    <3>3. m <= safe
      BY <3>1, <3>2, DivFloor, PageInputs
    <3> QED BY <1>1, <3>2, <3>3
  <2>3. CASE ~(most > h)
    <3>1. m = (0 \div DUST) * DUST
      BY <2>1, <2>3 DEF MaxInput
    <3>2. 0 \div DUST \in Nat /\ (0 \div DUST) * DUST <= 0
      BY PageInputs, DivFloor
    <3> QED BY <1>1, <3>1, <3>2
  <2> QED BY <2>2, <2>3
<1>3. /\ Debt(User) + most + Margin <= LtvLimit(User) /\ Debt(User) + most + Margin <= WalletCap[t]
      /\ Debt(User) + most + Margin <= tierDebtCap[t] /\ Debt(User) + most + Margin <= globalDebtCap
      /\ most + Margin <= cash
  <2>1. most > 0
    BY <1>1, <1>2
  <2>2. IInv /\ User \in Borrower
    BY PageInputs DEF PageSound, ChainOK
  <2> QED BY <2>1, <2>2, MaxBorrowWithin, UsersBucket
<1>4. u \in Nat /\ d \in Nat /\ d + 1 <= Debt(User) + h + m + Margin
  BY <1>1, LoanLasts
<1> HIDE DEF m, h, most, t, u, d
<1>5. /\ d + 1 <= LtvLimit(User) /\ d <= WalletCap[t] /\ d <= tierDebtCap[t] /\ d <= globalDebtCap
      /\ m <= cash /\ 0 < m
  BY <1>1, <1>2, <1>3, <1>4 DEF m
<1>6. DebtValue(d) * BPS <= CollValue(collateral[User]) * MaxLtv[t]
  BY <1>4, <1>5, TermsPass DEF t
<1>7. Later(k)!CanBorrow(User, m)
  BY <1>1, <1>4, <1>5, <1>6, LendsLater DEF d, u, t
<1> QED BY <1>7 DEF m

\* "10 min of interest headroom so it still fits when the transaction lands"
\* (market/page.tsx): for every position, rate and amount, what Max types can be borrowed
\* at each second of the headroom, and what All types covers the debt, as long as the
\* dust of the headroom is more than the roundings of that interest.
THEOREM HeadroomIsEnough == PageSpec => [](MarginsFit => HeadroomLasts)
<1>1. PageSound /\ OnlyUserOwes => (MarginsFit => HeadroomLasts)
  BY MaxFits, AllCovers DEF HeadroomLasts
<1> QED BY <1>1, PageInvariance, OwesInit, OwesStep, PTL DEF PageSpec
=============================================================================
