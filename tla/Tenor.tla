------------------------------- MODULE Tenor -------------------------------
(***************************************************************************)
(* The on-chain system: one ScoreRegistry and the TenorMarket it           *)
(* authorizes, as Deploy.s.sol puts them together.  The market prices a    *)
(* wallet by the registry's effectiveTier in the same transaction, and a   *)
(* liquidation writes both contracts or, when the registry refuses the     *)
(* market, neither.  Transactions of the two contracts interleave.         *)
(***************************************************************************)
EXTENDS Integers, Sequences, RiskParams

CONSTANTS
    Wallet, Lender,
    \* the registry's parameters and bounds
    Signer, TheMarket, ScoreInput, MAX_TTL, MAX_CLOCK_SKEW, MaxNonce, MaxEpoch,
    \* the market's parameters, inputs and bounds
    MaxLtv, WalletCap, RAY, WAD, VIRTUAL_SHARES, SECONDS_PER_YEAR, maxPriceAge,
    AssetInput, CollateralInput, Amount, PriceInput, InitialCap,
    MaxCollateral, MaxCash, MaxEntries, MaxLoans,
    \* bounds of both
    MaxTime, MaxLiquidations,
    MaxPaused         \* bound: contracts paused, or the market deauthorized, at once

ASSUME TenorAssumption ==
    /\ ScoreInput \subseteq Nat /\ MAX_TTL \in Nat
    /\ AssetInput \subseteq Nat /\ CollateralInput \subseteq Nat /\ Amount \subseteq Nat

VARIABLES
    now,
    \* the registry
    attestor, attestorEpoch, scores, liquidations, nonces, isMarket, registryPaused, accepted,
    \* the market
    collateral, totalCollateral, scaledDebt, tier, totalScaledDebt, scaledDebtByTier,
    borrowIndex, lastAccrual, reserves, totalBadDebt, totalReserveDrawn, totalSocializedLoss,
    globalDebtCap, tierDebtCap, cash, shares, totalSupply, marketPaused, oracle, entries, loans

R == INSTANCE ScoreRegistry WITH
    Market <- {TheMarket}, Shortfall <- Nat,
    paused <- registryPaused

M == INSTANCE TenorMarket WITH
    Borrower <- Wallet,
    ShareInput <- {}, Donation <- {}, CapInput <- {}, TierCapInput <- {}, TierInput <- Tier,
    paused <- marketPaused,
    effective <- [w \in Wallet |-> R!EffectiveTier(w)],
    recorded <- [w \in Wallet |-> [count |-> liquidations[w].liquidationCount,
                                   shortfall |-> liquidations[w].totalShortfall]]

registry == <<attestor, attestorEpoch, scores, liquidations, nonces, isMarket, registryPaused,
              accepted>>
book == <<collateral, totalCollateral, scaledDebt, tier, totalScaledDebt, scaledDebtByTier,
          borrowIndex, lastAccrual, reserves, totalBadDebt, totalReserveDrawn,
          totalSocializedLoss, globalDebtCap, tierDebtCap, cash, shares, totalSupply,
          marketPaused, entries, loans>>
vars == <<now, registry, book, oracle>>

\* Deploy.s.sol creates both contracts, then authorizes the market by setMarket.
Init == R!Init /\ M!Init

MarketUntouched == UNCHANGED <<book, oracle>>
RegistryUntouched == UNCHANGED <<now, registry>>

MutantRecordsCountOnly(w, shortfall) == R!RecordLiquidation(TheMarket, w, 0)
Record(w, shortfall) == R!RecordLiquidation(TheMarket, w, shortfall)

\* liquidate, with its call to recordLiquidation: both or neither.
Liquidate(w, maxRepay) ==
    /\ M!CanLiquidate(w, maxRepay)
    /\ Record(w, M!Shortfall(w, maxRepay))
    /\ M!Liquidate(w, maxRepay)
    /\ UNCHANGED oracle

\* A deadline before the expiry only admits a payload for less long, and one after
\* it admits the payload no longer.
Payload == {a \in R!Attestation : a.deadline = a.expiresAt}

SubmitAttestation(a, k) == R!SubmitAttestation(a, k) /\ MarketUntouched

\* A transaction of the market that calls nothing of the registry's but effectiveTier.
OfMarket(step) == RegistryUntouched /\ step /\ UNCHANGED oracle

Deposit(l, x) == OfMarket(M!Deposit(l, x))
Withdraw(l, x) == OfMarket(M!Withdraw(l, x))
DepositCollateral(w, x) == OfMarket(M!DepositCollateral(w, x))
WithdrawCollateral(w, x) == OfMarket(M!WithdrawCollateral(w, x))
Borrow(w, x) == OfMarket(M!Borrow(w, x))
Repay(w, x) == OfMarket(M!Repay(w, x))

\* The owners' transactions, the oracle's, and time.
SetAttestor(k) == R!SetAttestor(k) /\ MarketUntouched
MayPause == MaxPaused > (IF registryPaused \/ marketPaused \/ ~isMarket[TheMarket] THEN 1 ELSE 0)
SetMarket(b) == (~b => MayPause) /\ R!SetMarket(TheMarket, b) /\ MarketUntouched
PauseRegistry == ((MayPause /\ R!Pause) \/ R!Unpause) /\ MarketUntouched
PauseMarket(b) == (b => MayPause) /\ OfMarket(M!SetPaused(b))
SetPrice(a, p) == RegistryUntouched /\ M!SetPrice(a, p)
Tick == R!Tick /\ MarketUntouched

\* The steps that change neither a position, nor a score, nor the pool.
Administration ==
    \/ \E k \in Signer : SetAttestor(k)
    \/ \E b \in BOOLEAN : SetMarket(b) \/ PauseMarket(b)
    \/ PauseRegistry
    \/ \E a \in M!Asset : \E p \in PriceInput[a] : SetPrice(a, p)
    \/ Tick

Next ==
    \/ \E a \in Payload, k \in Signer : SubmitAttestation(a, k)
    \/ \E l \in Lender, x \in AssetInput : Deposit(l, x) \/ Withdraw(l, x)
    \/ \E w \in Wallet, x \in CollateralInput : DepositCollateral(w, x) \/ WithdrawCollateral(w, x)
    \/ \E w \in Wallet, x \in Amount : Borrow(w, x)
    \/ \E w \in Wallet : \E x \in M!RepayInput(w) : Repay(w, x) \/ Liquidate(w, x)
    \/ Administration

Spec == Init /\ [][Next]_vars

----------------------------------------------------------------------------
(* Properties. *)

\* In the registry's company the market keeps everything its own module promises:
\* every step of the composed system is a step of TenorMarket, in an environment
\* whose tiers lapse and are published as ScoreView says, and what it reports is
\* what the registry has on record.
ImplementsMarket == M!Spec

\* The two contracts agree on what was lost: the shortfalls on record against
\* wallets add up to the market's bad debt (CONTRACTS.md invariant 8).
ShortfallsAddUp == M!Total([w \in Wallet |-> liquidations[w].totalShortfall], Wallet) = totalBadDebt

\* The penalty, end to end: debt is taken at better than FLOOR terms only on an
\* attestation by the key in office, stored in its present term of office, whose data
\* is younger than every liquidation of the wallet and at most MAX_TTL old.
BetterTermsAreVouched ==
    [][\A w \in Wallet : scaledDebt'[w] > scaledDebt[w] /\ tier'[w] # FLOOR =>
         /\ accepted[w] # <<>>
         /\ R!LastAccepted(w).signer = attestor
         /\ R!LastAccepted(w).epoch = attestorEpoch
         /\ R!LastAccepted(w).issuedAt > liquidations[w].lastLiquidatedAt
         /\ now < R!LastAccepted(w).issuedAt + MAX_TTL]_vars
=============================================================================
