----------------------------- MODULE RiskParams -----------------------------
(***************************************************************************)
(* contracts/src/RiskParams.sol: the pure mapping from a ChainScore score  *)
(* to Tenor's borrowing terms.  The library keeps no state.                *)
(*                                                                         *)
(* The tier table that ships with the library is one value of the type     *)
(* "table of terms"; the market is written for any table that ValidTerms   *)
(* (validate(), called by the market's constructor) accepts.               *)
(***************************************************************************)
EXTENDS Naturals

FLOOR == "FLOOR"
Tier == {FLOOR, "D", "C", "B", "A"}

\* The order of enum Tier: the position of a tier in its declaration.
Rank == [t \in Tier |-> CASE t = FLOOR -> 0 [] t = "D" -> 1 [] t = "C" -> 2
                          [] t = "B" -> 3 [] t = "A" -> 4]

MIN_SCORE == 300
MAX_SCORE == 850
D_MIN == 452
C_MIN == 578
B_MIN == 643
A_MIN == 774

BPS == 10000
LIQUIDATION_BONUS_BPS == 500
LT_BUFFER_BPS == 500
BASE_RATE_BPS == 200
SLOPE_BPS == 1000
RESERVE_FACTOR_BPS == 1000

\* The scores scoreToTier does not revert on.
ScoreInRange(s) == s >= MIN_SCORE /\ s <= MAX_SCORE

ScoreToTier(s) ==
    CASE s >= A_MIN -> "A"
      [] s >= B_MIN /\ s < A_MIN -> "B"
      [] s >= C_MIN /\ s < B_MIN -> "C"
      [] s >= D_MIN /\ s < C_MIN -> "D"
      [] s < D_MIN -> FLOOR

\* The table the library ships: tierToMaxLtv, and tierToWalletCap in whole
\* debt-asset tokens (the code's unit is 10^-18 of a token).
TierToMaxLtv ==
    [t \in Tier |-> CASE t = "A" -> 8000 [] t = "B" -> 7500 [] t = "C" -> 7000
                      [] t = "D" -> 6500 [] t = FLOOR -> 6000]
TierToWalletCap ==
    [t \in Tier |-> CASE t = "A" -> 20000 [] t = "B" -> 10000 [] t = "C" -> 5000
                      [] t = "D" -> 2500 [] t = FLOOR -> 1000]

LiquidationThreshold(maxLtv) == [t \in Tier |-> maxLtv[t] + LT_BUFFER_BPS]

\* borrowRateBps for a utilization u given in units of 1/wad.
BorrowRateBps(u, wad) ==
    BASE_RATE_BPS + (SLOPE_BPS * (IF u > wad THEN wad ELSE u)) \div wad

\* validate(): the constraints every tier of a table must satisfy.
Overcollateralized(maxLtv) == \A t \in Tier : maxLtv[t] < BPS
ThresholdAboveLtv(maxLtv) == \A t \in Tier : LiquidationThreshold(maxLtv)[t] > maxLtv[t]
LiquidationPays(maxLtv) ==
    \A t \in Tier : LiquidationThreshold(maxLtv)[t] * (BPS + LIQUIDATION_BONUS_BPS) <= BPS * BPS
NeverWorse(f) == \A t, u \in Tier : Rank[u] = Rank[t] + 1 => f[t] <= f[u]

ValidTerms(maxLtv, walletCap) ==
    /\ Overcollateralized(maxLtv)
    /\ ThresholdAboveLtv(maxLtv)
    /\ LiquidationPays(maxLtv)
    /\ NeverWorse(maxLtv) /\ NeverWorse(walletCap)
=============================================================================
