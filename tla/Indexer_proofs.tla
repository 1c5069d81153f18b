--------------------------- MODULE Indexer_proofs ---------------------------
(***************************************************************************)
(* Proofs about the composition of registry and market, and of the         *)
(* behaviours the indexer follows: for any wallets, keys, prices, units    *)
(* and bounds.                                                             *)
(***************************************************************************)
EXTENDS Indexer, Sums_proofs

----------------------------------------------------------------------------
(* The inductive invariant: what the registry keeps for the market.           *)

\* A stored score is of this epoch or an earlier one, and it is that of the last
\* attestation accepted, which the key in office signed if the score is of this epoch.
ScoreOK(s, log, epoch, key) ==
    /\ s.attestorEpoch <= epoch
    /\ s.score # 0 =>
         /\ log # <<>>
         /\ log[Len(log)].epoch = s.attestorEpoch
         /\ log[Len(log)].issuedAt = s.issuedAt
         /\ s.expiresAt <= s.issuedAt + MAX_TTL
         /\ s.attestorEpoch = epoch => log[Len(log)].signer = key

RTypes ==
    /\ now \in Nat /\ attestorEpoch \in Nat /\ attestor \in Signer
    /\ scores \in [Wallet -> R!ScoreRecord]
    /\ accepted \in [Wallet -> Seq(R!Entry)]
    /\ liquidations = [w \in Wallet |-> liquidations[w]]
    /\ \A w \in Wallet : liquidations[w].lastLiquidatedAt \in Nat

RInv == RTypes /\ \A w \in Wallet : ScoreOK(scores[w], accepted[w], attestorEpoch, attestor)

LEMMA RInit == Init => RInv
<1> SUFFICES ASSUME Init PROVE RInv
  OBVIOUS
<1>1. /\ now = 1 /\ attestorEpoch = 1 /\ attestor \in Signer
      /\ scores = [w \in Wallet |-> R!NoScore] /\ accepted = [w \in Wallet |-> <<>>]
      /\ liquidations = [w \in Wallet |-> R!NoLiquidation]
  BY DEF Init, R!Init
<1>3. R!NoLiquidation.lastLiquidatedAt = 0
  BY DEF R!NoLiquidation
<1>2. R!NoScore \in R!ScoreRecord /\ R!NoScore.attestorEpoch = 0 /\ R!NoScore.score = 0
  BY DEF R!NoScore, R!ScoreRecord
<1> QED BY <1>1, <1>2, <1>3 DEF RInv, RTypes, ScoreOK

LEMMA RSubmit ==
    ASSUME RInv, NEW a \in Payload, NEW k \in Signer, R!SubmitAttestation(a, k)
    PROVE  RInv'
<1> DEFINE v == a.wallet
           s == [score |-> a.score, issuedAt |-> a.issuedAt, expiresAt |-> a.expiresAt,
                 attestorEpoch |-> attestorEpoch]
           e == R!EntryOf(a, k)
<1>1. /\ a \in R!Attestation /\ v \in Wallet /\ a.score \in ScoreInput
      /\ a.issuedAt \in Nat /\ a.expiresAt \in Nat /\ a.nonce \in Nat
  BY DEF Payload, R!Attestation, R!Timestamp
<1>2. /\ k = attestor /\ a.expiresAt <= a.issuedAt + MAX_TTL
      /\ scores' = [scores EXCEPT ![v] = s]
      /\ accepted' = [accepted EXCEPT ![v] = Append(@, e)]
      /\ UNCHANGED <<now, attestor, attestorEpoch, liquidations>>
  BY DEF R!SubmitAttestation, R!Submittable, R!admin
<1>3. /\ s \in R!ScoreRecord /\ e \in R!Entry
      /\ e.signer = k /\ e.issuedAt = a.issuedAt /\ e.epoch = attestorEpoch
  BY <1>1 DEF RInv, RTypes, R!ScoreRecord, R!Entry, R!EntryOf
<1>4. s.attestorEpoch = attestorEpoch /\ s.issuedAt = a.issuedAt /\ s.expiresAt = a.expiresAt
  OBVIOUS
<1> HIDE DEF s, e
<1>5. RTypes'
  BY <1>1, <1>2, <1>3 DEF RInv, RTypes
<1>6. accepted[v] \in Seq(R!Entry) /\ accepted'[v] = Append(accepted[v], e) /\ scores'[v] = s
  BY <1>1, <1>2 DEF RInv, RTypes
<1>7. ScoreOK(scores'[v], accepted'[v], attestorEpoch', attestor')
  <2>1. accepted'[v] # <<>> /\ accepted'[v][Len(accepted'[v])] = e
    BY <1>3, <1>6
  <2> QED BY <1>2, <1>3, <1>4, <1>6, <2>1 DEF ScoreOK, RInv, RTypes
<1>8. ASSUME NEW w \in Wallet, w # v
      PROVE  ScoreOK(scores'[w], accepted'[w], attestorEpoch', attestor')
  <2>1. scores'[w] = scores[w] /\ accepted'[w] = accepted[w]
    BY <1>2, <1>8 DEF RInv, RTypes
  <2> QED BY <1>2, <2>1 DEF RInv
<1> QED BY <1>5, <1>7, <1>8 DEF RInv

\* A rotation leaves every stored score to an earlier epoch.
LEMMA RRotate ==
    ASSUME RInv, NEW k \in Signer, R!SetAttestor(k)
    PROVE  RInv' /\ \A w \in Wallet : R!IsStale(w)'
<1>1. /\ attestorEpoch' = attestorEpoch + 1 /\ attestor' = k
      /\ UNCHANGED <<now, scores, accepted, liquidations>>
  BY DEF R!SetAttestor, R!NextEpoch, R!tables
<1>2. RTypes'
  BY <1>1 DEF RInv, RTypes
<1>3. ASSUME NEW w \in Wallet
      PROVE  /\ ScoreOK(scores'[w], accepted'[w], attestorEpoch', attestor')
             /\ scores'[w].attestorEpoch # attestorEpoch'
  <2>1. /\ scores[w].attestorEpoch \in Nat /\ attestorEpoch \in Nat
        /\ ScoreOK(scores[w], accepted[w], attestorEpoch, attestor)
    BY DEF RInv, RTypes, R!ScoreRecord
  <2>2. scores[w].attestorEpoch <= attestorEpoch
    BY <2>1 DEF ScoreOK
  <2> QED BY <1>1, <2>1, <2>2 DEF ScoreOK
<1> QED BY <1>2, <1>3 DEF RInv, R!IsStale

LEMMA RRecord ==
    ASSUME RInv, NEW w \in Wallet, NEW s, R!RecordLiquidation(TheMarket, w, s)
    PROVE  RInv'
<1>1. /\ UNCHANGED <<now, attestor, attestorEpoch, scores, accepted>>
      /\ liquidations' = [liquidations EXCEPT ![w] = liquidations'[w]]
  BY DEF R!RecordLiquidation, R!admin, RInv, RTypes
<1>2. liquidations' = [u \in Wallet |-> liquidations'[u]]
  BY <1>1 DEF RInv, RTypes
<1>3. liquidations'[w].lastLiquidatedAt = now
  BY DEF R!RecordLiquidation, RInv, RTypes
<1>4. \A u \in Wallet : u # w => liquidations'[u] = liquidations[u]
  BY <1>1 DEF RInv, RTypes
<1> QED BY <1>1, <1>2, <1>3, <1>4 DEF RInv, RTypes

\* The rest of the registry's transactions, the market's, and time.
LEMMA ROther ==
    ASSUME RInv, UNCHANGED <<attestor, attestorEpoch, scores, accepted, liquidations>>,
           now' \in {now, now + 1}
    PROVE  RInv'
BY DEF RInv, RTypes

----------------------------------------------------------------------------
(* What the market sees of a step: the tiers the registry answers, and what   *)
(* it has on record.                                                          *)

Effective == [w \in Wallet |-> R!EffectiveTier(w)]
OnRecord == [w \in Wallet |-> [count |-> liquidations[w].liquidationCount,
                              shortfall |-> liquidations[w].totalShortfall]]
Sees(tiers, record) == Effective' = tiers /\ OnRecord' = record

LEMMA TierOfScore == ASSUME NEW s \in Nat PROVE R!ScoreToTier(s) \in Tier
<1>1. s >= A_MIN \/ (s >= B_MIN /\ s < A_MIN) \/ (s >= C_MIN /\ s < B_MIN)
      \/ (s >= D_MIN /\ s < C_MIN) \/ s < D_MIN
  BY DEF A_MIN, B_MIN, C_MIN, D_MIN
<1>2. R!A_MIN = A_MIN /\ R!B_MIN = B_MIN /\ R!C_MIN = C_MIN /\ R!D_MIN = D_MIN /\ R!FLOOR = FLOOR
  BY DEF R!A_MIN, A_MIN, R!B_MIN, B_MIN, R!C_MIN, C_MIN, R!D_MIN, D_MIN, R!FLOOR, FLOOR
<1>3. FLOOR \in Tier /\ "A" \in Tier /\ "B" \in Tier /\ "C" \in Tier /\ "D" \in Tier
  BY DEF Tier
<1> QED BY <1>1, <1>2, <1>3, Zenon DEF R!ScoreToTier

HasTiers == Effective \in [Wallet -> Tier]

LEMMA EffectiveType == RInv => HasTiers
<1> SUFFICES ASSUME RInv, NEW w \in Wallet PROVE R!EffectiveTier(w) \in Tier
  BY DEF HasTiers, Effective
<1>1. scores[w].score \in Nat
  BY TenorAssumption DEF RInv, RTypes, R!ScoreRecord
<1> QED BY <1>1, TierOfScore DEF R!EffectiveTier, R!FLOOR, Tier, FLOOR

LEMMA EffectiveTypeNext == RInv' => HasTiers'
BY EffectiveType, PTL

LEMMA SeesTheSame ==
    UNCHANGED <<now, attestorEpoch, scores, liquidations>> => Sees(Effective, OnRecord)
BY DEF Sees, Effective, OnRecord, R!EffectiveTier, R!IsStale, R!FLOOR

\* A new score reprices its wallet alone.
LEMMA SubmitSeen ==
    ASSUME RInv, NEW a \in Payload, NEW k \in Signer, R!SubmitAttestation(a, k)
    PROVE  /\ a.wallet \in Wallet
           /\ \E t \in Tier : Sees([Effective EXCEPT ![a.wallet] = t], OnRecord)
<1> DEFINE v == a.wallet
           t == R!EffectiveTier(v)'
<1>1. /\ v \in Wallet /\ UNCHANGED <<now, attestorEpoch, liquidations>>
      /\ \A w \in Wallet : w # v => scores'[w] = scores[w]
  BY DEF RInv, RTypes, Payload, R!Attestation, R!SubmitAttestation, R!admin
<1>2. t \in Tier
  <2>1. RInv'
    BY RSubmit
  <2>2. Effective' \in [Wallet -> Tier]
    BY <2>1, EffectiveTypeNext DEF HasTiers
  <2> QED BY <1>1, <2>2 DEF Effective
<1>3. \A w \in Wallet : w # v => R!EffectiveTier(w)' = R!EffectiveTier(w)
  BY <1>1 DEF R!EffectiveTier, R!IsStale, R!FLOOR
<1> HIDE DEF t
<1>4. Effective' = [Effective EXCEPT ![v] = R!EffectiveTier(v)']
  BY <1>1, <1>3 DEF Effective
<1>5. OnRecord' = OnRecord
  BY <1>1 DEF OnRecord
<1> QED BY <1>1, <1>2, <1>4, <1>5 DEF Sees, t

\* A recorded liquidation adds to the record of its wallet and reprices it alone.
LEMMA RecordSeen ==
    ASSUME RInv, NEW w \in Wallet, NEW s, R!RecordLiquidation(TheMarket, w, s)
    PROVE  \E t \in Tier :
             Sees([Effective EXCEPT ![w] = t],
                  [OnRecord EXCEPT ![w] = [count |-> @.count + 1, shortfall |-> @.shortfall + s]])
<1> DEFINE t == R!EffectiveTier(w)'
<1>1. /\ UNCHANGED <<now, attestorEpoch, scores>>
      /\ liquidations' = [liquidations EXCEPT ![w] =
            [lastLiquidatedAt |-> now, liquidationCount |-> liquidations[w].liquidationCount + 1,
             shortfallCount |-> liquidations[w].shortfallCount + (IF s > 0 THEN 1 ELSE 0),
             totalShortfall |-> liquidations[w].totalShortfall + s]]
  BY DEF R!RecordLiquidation, R!admin, R!WithShortfall
<1>2. /\ liquidations'[w].liquidationCount = liquidations[w].liquidationCount + 1
      /\ liquidations'[w].totalShortfall = liquidations[w].totalShortfall + s
      /\ \A v \in Wallet : v # w => liquidations'[v] = liquidations[v]
  BY <1>1 DEF RInv, RTypes
<1>3. t \in Tier
  <2>1. RInv'
    BY RRecord
  <2>2. Effective' \in [Wallet -> Tier]
    BY <2>1, EffectiveTypeNext DEF HasTiers
  <2> QED BY <2>2 DEF Effective
<1>4. \A v \in Wallet : v # w => R!EffectiveTier(v)' = R!EffectiveTier(v)
  BY <1>1, <1>2 DEF R!EffectiveTier, R!IsStale, R!FLOOR
<1> HIDE DEF t
<1>5. Effective' = [Effective EXCEPT ![w] = R!EffectiveTier(w)']
  BY <1>4 DEF Effective
<1>6. OnRecord' = [OnRecord EXCEPT ![w] = [count |-> @.count + 1, shortfall |-> @.shortfall + s]]
  BY <1>2 DEF OnRecord
<1> QED BY <1>3, <1>5, <1>6 DEF Sees, t

\* A rotation takes every score away.
LEMMA RotationSeen ==
    ASSUME RInv, NEW k \in Signer, R!SetAttestor(k)
    PROVE  Sees([w \in Wallet |-> FLOOR], OnRecord)
<1>1. \A w \in Wallet : R!IsStale(w)'
  BY RRotate
<1>2. UNCHANGED liquidations
  BY DEF R!SetAttestor, R!tables
<1> QED BY <1>1, <1>2 DEF Sees, Effective, OnRecord, R!EffectiveTier, R!FLOOR, FLOOR

\* Time takes scores away and gives none back.
LEMMA TickSeen ==
    ASSUME RInv, R!Tick
    PROVE  \E W \in SUBSET Wallet :
             Sees([w \in Wallet |-> IF w \in W THEN FLOOR ELSE Effective[w]], OnRecord)
<1> DEFINE W == {w \in Wallet : R!IsStale(w)'}
<1>1. now' = now + 1 /\ UNCHANGED <<scores, liquidations, attestorEpoch>>
  BY DEF R!Tick, R!tables, R!admin
<1>2. ASSUME NEW w \in Wallet
      PROVE  R!EffectiveTier(w)' = IF w \in W THEN FLOOR ELSE R!EffectiveTier(w)
  <2>1. now \in Nat /\ scores[w].expiresAt \in Nat
    BY DEF RInv, RTypes, R!ScoreRecord
  <2>2. R!IsStale(w) => R!IsStale(w)'
    BY <1>1, <2>1 DEF R!IsStale
  <2> QED BY <1>1, <2>2 DEF R!EffectiveTier, R!FLOOR, FLOOR
<1>3. Effective' = [w \in Wallet |-> IF w \in W THEN FLOOR ELSE Effective[w]]
  BY <1>2 DEF Effective
<1>4. OnRecord' = OnRecord
  BY <1>1 DEF OnRecord
<1> QED BY <1>3, <1>4 DEF Sees

----------------------------------------------------------------------------
(* The steps of the composition as steps of the market.                       *)

\* What a step of the composition must be to the market, and keep of the registry.
Refines == RInv' /\ [M!Next]_(M!vars)

\* The market's environment is the clock, the oracle and what it sees of the registry.
LEMMA EnvSame == UNCHANGED <<now, oracle>> /\ Sees(Effective, OnRecord) => UNCHANGED M!env
BY DEF M!env, Sees, Effective, OnRecord

LEMMA BookSame == UNCHANGED book => UNCHANGED M!market
BY DEF book, M!market, M!pledge, M!debts, M!accrual, M!losses, M!vault, M!admin, M!history

\* A transaction of the market that leaves the registry alone.
LEMMA OfMarketSees ==
    RInv /\ RegistryUntouched /\ UNCHANGED oracle => RInv' /\ UNCHANGED M!env
<1> SUFFICES ASSUME RInv, RegistryUntouched, UNCHANGED oracle PROVE RInv' /\ UNCHANGED M!env
  OBVIOUS
<1>1. UNCHANGED <<now, attestor, attestorEpoch, scores, accepted, liquidations>>
  BY DEF RegistryUntouched, registry
<1> QED BY <1>1, ROther, SeesTheSame, EnvSame

LEMMA LenderStep ==
    ASSUME RInv, NEW l \in Lender, NEW x \in AssetInput, Deposit(l, x) \/ Withdraw(l, x)
    PROVE  Refines
<1>1. RegistryUntouched /\ UNCHANGED oracle /\ (M!Deposit(l, x) \/ M!Withdraw(l, x))
  BY DEF Deposit, Withdraw, OfMarket
<1>2. RInv' /\ UNCHANGED M!env
  BY <1>1, OfMarketSees
<1> QED BY <1>1, <1>2 DEF Refines, M!Next

LEMMA CollateralStep ==
    ASSUME RInv, NEW w \in Wallet, NEW x \in CollateralInput,
           DepositCollateral(w, x) \/ WithdrawCollateral(w, x)
    PROVE  Refines
<1>1. /\ RegistryUntouched /\ UNCHANGED oracle
      /\ M!DepositCollateral(w, x) \/ M!WithdrawCollateral(w, x)
  BY DEF DepositCollateral, WithdrawCollateral, OfMarket
<1>2. RInv' /\ UNCHANGED M!env
  BY <1>1, OfMarketSees
<1> QED BY <1>1, <1>2 DEF Refines, M!Next

LEMMA BorrowStep ==
    ASSUME RInv, NEW w \in Wallet, NEW x \in Amount, Borrow(w, x)
    PROVE  Refines
<1>1. RegistryUntouched /\ UNCHANGED oracle /\ M!Borrow(w, x)
  BY DEF Borrow, OfMarket
<1>2. RInv' /\ UNCHANGED M!env
  BY <1>1, OfMarketSees
<1> QED BY <1>1, <1>2 DEF Refines, M!Next

LEMMA RepayStep ==
    ASSUME RInv, NEW w \in Wallet, NEW x \in M!RepayInput(w), Repay(w, x)
    PROVE  Refines
<1>1. RegistryUntouched /\ UNCHANGED oracle /\ M!Repay(w, x)
  BY DEF Repay, OfMarket
<1>2. RInv' /\ UNCHANGED M!env
  BY <1>1, OfMarketSees
<1> QED BY <1>1, <1>2 DEF Refines, M!Next

\* A liquidation happens in both contracts: the market reports, the registry records,
\* and the tier it answers afterwards is whatever the record makes of the score.
LEMMA LiquidateStep ==
    ASSUME RInv, NEW w \in Wallet, NEW x \in M!RepayInput(w), Liquidate(w, x)
    PROVE  Refines
<1> DEFINE s == M!Shortfall(w, x)
<1>1. R!RecordLiquidation(TheMarket, w, s) /\ M!Liquidate(w, x) /\ UNCHANGED oracle
  BY DEF Liquidate, Record
<1>2. RInv'
  BY <1>1, RRecord
<1>3. PICK t \in Tier :
        Sees([Effective EXCEPT ![w] = t],
             [OnRecord EXCEPT ![w] = [count |-> @.count + 1, shortfall |-> @.shortfall + s]])
  BY <1>1, RecordSeen
<1>4. liquidations[w].liquidationCount < MaxLiquidations /\ UNCHANGED now
  BY <1>1 DEF R!RecordLiquidation
<1>5. M!LiquidateAndReport(w, x, t)
  BY <1>1, <1>3, <1>4 DEF M!LiquidateAndReport, M!Report, Sees, Effective, OnRecord
<1> QED BY <1>2, <1>5 DEF Refines, M!Next

\* A new score is to the market another answer for one wallet.
LEMMA SubmitStep ==
    ASSUME RInv, NEW a \in Payload, NEW k \in Signer, SubmitAttestation(a, k)
    PROVE  Refines
<1>1. R!SubmitAttestation(a, k) /\ UNCHANGED book /\ UNCHANGED oracle
  BY DEF SubmitAttestation, MarketUntouched
<1>2. RInv' /\ UNCHANGED now /\ UNCHANGED M!market
  BY <1>1, RSubmit, BookSame DEF R!SubmitAttestation
<1>3. PICK t \in Tier : Sees([Effective EXCEPT ![a.wallet] = t], OnRecord)
  BY <1>1, SubmitSeen
<1>4. a.wallet \in Wallet
  BY <1>1, SubmitSeen
<1>5. M!Rescore(a.wallet, t)
  BY <1>1, <1>2, <1>3 DEF M!Rescore, Sees, Effective, OnRecord
<1> QED BY <1>2, <1>4, <1>5 DEF Refines, M!Next

LEMMA RotateStep ==
    ASSUME RInv, NEW k \in Signer, SetAttestor(k)
    PROVE  Refines
<1>1. R!SetAttestor(k) /\ UNCHANGED book /\ UNCHANGED oracle
  BY DEF SetAttestor, MarketUntouched
<1>2. RInv' /\ UNCHANGED now /\ UNCHANGED M!market
  BY <1>1, RRotate, BookSame DEF R!SetAttestor
<1>3. Sees([w \in Wallet |-> FLOOR], OnRecord)
  BY <1>1, RotationSeen
<1>4. M!Lapse(Wallet)
  BY <1>1, <1>2, <1>3 DEF M!Lapse, M!Lapsed, Sees, Effective, OnRecord, M!FLOOR, FLOOR
<1> QED BY <1>2, <1>4 DEF Refines, M!Next

LEMMA TickStep ==
    ASSUME RInv, Tick
    PROVE  Refines
<1>1. R!Tick /\ UNCHANGED book /\ UNCHANGED oracle
  BY DEF Tick, MarketUntouched
<1>2. now < MaxTime /\ now' = now + 1 /\ UNCHANGED <<attestor, attestorEpoch, scores, accepted, liquidations>>
  BY <1>1 DEF R!Tick, R!tables, R!admin
<1>3. RInv' /\ UNCHANGED M!market
  BY <1>1, <1>2, ROther, BookSame
<1>4. PICK W \in SUBSET Wallet :
        Sees([w \in Wallet |-> IF w \in W THEN FLOOR ELSE Effective[w]], OnRecord)
  BY <1>1, TickSeen
<1>5. M!Tick(W)
  BY <1>1, <1>2, <1>3, <1>4 DEF M!Tick, M!Lapsed, Sees, Effective, OnRecord, M!FLOOR, FLOOR
<1> QED BY <1>3, <1>5 DEF Refines, M!Next

\* Which contracts the registry knows, and whether it is paused, the market cannot see.
LEMMA SilentStep ==
    ASSUME RInv, (\E b \in BOOLEAN : SetMarket(b)) \/ PauseRegistry
    PROVE  Refines
<1>1. /\ UNCHANGED <<now, attestor, attestorEpoch, scores, accepted, liquidations>>
      /\ UNCHANGED book /\ UNCHANGED oracle
  BY DEF SetMarket, PauseRegistry, MarketUntouched, R!SetMarket, R!Pause, R!Unpause, R!tables
<1>2. RInv' /\ UNCHANGED M!env /\ UNCHANGED M!market
  BY <1>1, ROther, SeesTheSame, EnvSame, BookSame
<1> QED BY <1>2 DEF Refines, M!vars

LEMMA PauseStep ==
    ASSUME RInv, NEW b \in BOOLEAN, PauseMarket(b)
    PROVE  Refines
<1>1. RegistryUntouched /\ UNCHANGED oracle /\ M!SetPaused(b)
  BY DEF PauseMarket, OfMarket
<1>2. RInv' /\ UNCHANGED M!env
  BY <1>1, OfMarketSees
<1> QED BY <1>1, <1>2 DEF Refines, M!Next

LEMMA PriceStep ==
    ASSUME RInv, NEW a \in M!Asset, NEW p \in PriceInput[a], SetPrice(a, p)
    PROVE  Refines
<1>1. RegistryUntouched /\ M!SetPrice(a, p)
  BY DEF SetPrice
<1>2. RInv'
  BY <1>1, ROther DEF RegistryUntouched, registry
<1> QED BY <1>1, <1>2 DEF Refines, M!Next

LEMMA NextStep == ASSUME RInv, Next PROVE Refines
<1>1. CASE \E a \in Payload, k \in Signer : SubmitAttestation(a, k)
  BY <1>1, SubmitStep
<1>2. CASE \E l \in Lender, x \in AssetInput : Deposit(l, x) \/ Withdraw(l, x)
  BY <1>2, LenderStep
<1>3. CASE \E w \in Wallet, x \in CollateralInput :
             DepositCollateral(w, x) \/ WithdrawCollateral(w, x)
  BY <1>3, CollateralStep
<1>4. CASE \E w \in Wallet, x \in Amount : Borrow(w, x)
  BY <1>4, BorrowStep
<1>5. CASE \E w \in Wallet : \E x \in M!RepayInput(w) : Repay(w, x) \/ Liquidate(w, x)
  BY <1>5, RepayStep, LiquidateStep
<1>6. CASE Administration
  <2>1. CASE \E k \in Signer : SetAttestor(k)
    BY <2>1, RotateStep
  <2>2. CASE \E b \in BOOLEAN : PauseMarket(b)
    BY <2>2, PauseStep
  <2>3. CASE (\E b \in BOOLEAN : SetMarket(b)) \/ PauseRegistry
    BY <2>3, SilentStep
  <2>4. CASE \E a \in M!Asset : \E p \in PriceInput[a] : SetPrice(a, p)
    BY <2>4, PriceStep
  <2>5. CASE Tick
    BY <2>5, TickStep
  <2> QED BY <1>6, <2>1, <2>2, <2>3, <2>4, <2>5 DEF Administration
<1> QED BY <1>1, <1>2, <1>3, <1>4, <1>5, <1>6 DEF Next

LEMMA StutterStep == ASSUME RInv, UNCHANGED vars PROVE Refines
<1>1. /\ UNCHANGED <<now, attestor, attestorEpoch, scores, accepted, liquidations>>
      /\ UNCHANGED book /\ UNCHANGED oracle
  BY DEF vars, registry
<1>2. RInv' /\ UNCHANGED M!env /\ UNCHANGED M!market
  BY <1>1, ROther, SeesTheSame, EnvSame, BookSame
<1> QED BY <1>2 DEF Refines, M!vars

LEMMA RStep == RInv /\ [Next]_vars => Refines
BY NextStep, StutterStep

LEMMA RInvariance == Spec => []RInv
<1>1. RInv /\ [Next]_vars => RInv'
  BY RStep DEF Refines
<1> QED BY <1>1, RInit, PTL DEF Spec

\* What the indexer follows is the composition, whatever its handlers make of it.
LEMMA IndexFollows == IndexedSpec => Spec
<1>1. IndexInit => Init
  BY DEF IndexInit
<1>2. [IndexedNext]_<<vars, tables>> => [Next]_vars
  BY DEF IndexedNext, Next, OfLenders, OfCollateral, OfDebt
<1> QED BY <1>1, <1>2, PTL DEF IndexedSpec, Spec

----------------------------------------------------------------------------
(* The fold that handles the logs of a transaction, for the at most four a     *)
(* transaction emits.                                                         *)

\* The tables after those of the logs 1 .. 4 that are in s.
HandleIf(db, logs, i, s) == IF i \in s THEN Handle(db, logs[i]) ELSE db
UpTo(logs, s) ==
    HandleIf(HandleIf(HandleIf(HandleIf(AsDb, logs, 1, s), logs, 2, s), logs, 3, s), logs, 4, s)

\* The fold of Emit, unfolded: it handles the last log after the others.
HandleAll(logs) ==
    CHOOSE iter : iter = [s \in SUBSET DOMAIN logs |->
        IF s = {} THEN AsDb ELSE Handle(iter[s \ {Max(s)}], logs[Max(s)])]
\* FoldLeft is that function, applied to all of the logs.
LEMMA FoldIs == ASSUME NEW logs PROVE FoldLeft(Handle, AsDb, logs) = HandleAll(logs)[DOMAIN logs]
BY DEF FoldLeft, MapThenFoldSet, HandleAll

\* The last of some of four logs.
LEMMA MaxOfFour ==
    ASSUME NEW s \in SUBSET (1 .. 4), s # {}
    PROVE  Max(s) \in s /\ \A i \in s : i <= Max(s)
<1>1. \E x \in s : \A y \in s : x >= y
  <2>1. CASE 4 \in s
    BY <2>1
  <2>2. CASE 4 \notin s /\ 3 \in s
    BY <2>2
  <2>3. CASE 4 \notin s /\ 3 \notin s /\ 2 \in s
    BY <2>3
  <2>4. CASE 4 \notin s /\ 3 \notin s /\ 2 \notin s
    <3>1. \A y \in s : y = 1
      BY <2>4
    <3>2. 1 \in s
      BY <3>1
    <3> QED BY <3>1, <3>2
  <2> QED BY <2>1, <2>2, <2>3, <2>4
<1>2. Max(s) \in s /\ \A y \in s : Max(s) >= y
  BY <1>1 DEF Max
<1>3. \A y \in s : y \in 1 .. 4
  OBVIOUS
<1> QED BY <1>2, <1>3

\* UpTo handles the last of the logs after the others,
LEMMA UpToLast ==
    ASSUME NEW logs, NEW s \in SUBSET (1 .. 4), s # {}
    PROVE  UpTo(logs, s) = Handle(UpTo(logs, s \ {Max(s)}), logs[Max(s)])
<1> DEFINE m == Max(s)  r == s \ {m}
<1>1. m \in s /\ m \in 1 .. 4 /\ \A i \in s : i <= m
  BY MaxOfFour
<1>2. m \notin r /\ \A i \in 1 .. 4 : i # m => (i \in r <=> i \in s)
  OBVIOUS
<1> HIDE DEF m, r
<1>3. CASE m = 1
  <2>1. 2 \notin s /\ 3 \notin s /\ 4 \notin s
    BY <1>1, <1>3
  <2> QED BY <1>1, <1>2, <1>3, <2>1 DEF UpTo, HandleIf, m, r
<1>4. CASE m = 2
  <2>1. 3 \notin s /\ 4 \notin s
    BY <1>1, <1>4
  <2> QED BY <1>1, <1>2, <1>4, <2>1 DEF UpTo, HandleIf, m, r
<1>5. CASE m = 3
  <2>1. 4 \notin s
    BY <1>1, <1>5
  <2> QED BY <1>1, <1>2, <1>5, <2>1 DEF UpTo, HandleIf, m, r
<1>6. CASE m = 4
  BY <1>1, <1>2, <1>6 DEF UpTo, HandleIf, m, r
<1> QED BY <1>1, <1>3, <1>4, <1>5, <1>6

\* and so the function the fold chooses exists: it takes the steps it is chosen for.
LEMMA HandleAllIs ==
    ASSUME NEW logs, DOMAIN logs \subseteq 1 .. 4
    PROVE  HandleAll(logs) = [s \in SUBSET DOMAIN logs |->
             IF s = {} THEN AsDb ELSE Handle(HandleAll(logs)[s \ {Max(s)}], logs[Max(s)])]
<1> DEFINE G == [s \in SUBSET DOMAIN logs |-> UpTo(logs, s)]
<1>1. ASSUME NEW s \in SUBSET DOMAIN logs
      PROVE  UpTo(logs, s) = IF s = {} THEN AsDb ELSE Handle(G[s \ {Max(s)}], logs[Max(s)])
  <2>1. CASE s = {}
    BY <2>1 DEF UpTo, HandleIf
  <2>2. CASE s # {}
    <3>1. UpTo(logs, s) = Handle(UpTo(logs, s \ {Max(s)}), logs[Max(s)])
      BY <2>2, UpToLast
    <3>2. G[s \ {Max(s)}] = UpTo(logs, s \ {Max(s)})
      OBVIOUS
    <3> QED BY <2>2, <3>1, <3>2
  <2> QED BY <2>1, <2>2
<1>2. G = [s \in SUBSET DOMAIN logs |-> IF s = {} THEN AsDb ELSE Handle(G[s \ {Max(s)}], logs[Max(s)])]
  BY <1>1
<1> HIDE DEF G
<1> QED BY <1>2 DEF HandleAll

\* Any function that takes the fold's steps handles the logs in their order.
LEMMA InOrder ==
    ASSUME NEW logs, NEW g, NEW n \in 0 .. 4, DOMAIN logs = 1 .. n,
           g = [s \in SUBSET DOMAIN logs |->
                  IF s = {} THEN AsDb ELSE Handle(g[s \ {Max(s)}], logs[Max(s)])]
    PROVE  g[DOMAIN logs] = UpTo(logs, DOMAIN logs)
<1>1. g[{}] = AsDb /\ UpTo(logs, {}) = AsDb /\ 1 .. 0 = {}
  BY DEF UpTo, HandleIf
<1>2. ASSUME NEW k \in 1 .. 4, k <= n, g[1 .. (k - 1)] = UpTo(logs, 1 .. (k - 1))
      PROVE  g[1 .. k] = UpTo(logs, 1 .. k)
  <2> DEFINE s == 1 .. k
  <2>1. s \in SUBSET DOMAIN logs /\ s \in SUBSET (1 .. 4) /\ s # {} /\ k \in s
    BY <1>2
  <2>2. Max(s) = k
    <3>1. Max(s) \in s /\ \A i \in s : i <= Max(s)
      BY <2>1, MaxOfFour
    <3> QED BY <2>1, <3>1
  <2>3. s \ {k} = 1 .. (k - 1)
    OBVIOUS
  <2> HIDE DEF s
  <2>4. g[s] = Handle(g[s \ {Max(s)}], logs[Max(s)])
    BY <2>1
  <2>5. UpTo(logs, s) = Handle(UpTo(logs, s \ {Max(s)}), logs[Max(s)])
    BY <2>1, UpToLast
  <2>6. g[s \ {k}] = UpTo(logs, s \ {k})
    BY <1>2, <2>3
  <2> QED BY <2>2, <2>4, <2>5, <2>6 DEF s
<1>3. n >= 1 => g[1 .. 1] = UpTo(logs, 1 .. 1)
  BY <1>1, <1>2
<1>4. n >= 2 => g[1 .. 2] = UpTo(logs, 1 .. 2)
  BY <1>2, <1>3
<1>5. n >= 3 => g[1 .. 3] = UpTo(logs, 1 .. 3)
  BY <1>2, <1>4
<1>6. n >= 4 => g[1 .. 4] = UpTo(logs, 1 .. 4)
  BY <1>2, <1>5
<1>7. g[1 .. n] = UpTo(logs, 1 .. n)
  <2>1. CASE n = 0
    BY <1>1, <2>1
  <2>2. CASE n = 1
    BY <1>3, <2>2
  <2>3. CASE n = 2
    BY <1>4, <2>3
  <2>4. CASE n = 3
    BY <1>5, <2>4
  <2>5. CASE n = 4
    BY <1>6, <2>5
  <2> QED BY <2>1, <2>2, <2>3, <2>4, <2>5
<1> QED BY <1>7

AfterLogs(logs) == FoldLeft(Handle, AsDb, logs)

\* What the fold makes of at most four logs.
LEMMA AfterIs ==
    ASSUME NEW logs, NEW n \in 0 .. 4, DOMAIN logs = 1 .. n
    PROVE  AfterLogs(logs) = UpTo(logs, 1 .. n)
<1> DEFINE g == HandleAll(logs)
<1>1. DOMAIN logs \subseteq 1 .. 4
  OBVIOUS
<1>2. g = [s \in SUBSET DOMAIN logs |->
             IF s = {} THEN AsDb ELSE Handle(g[s \ {Max(s)}], logs[Max(s)])]
  BY <1>1, HandleAllIs
<1> HIDE DEF g
<1>3. g[DOMAIN logs] = UpTo(logs, DOMAIN logs)
  BY <1>2, InOrder
<1> QED BY <1>3, FoldIs DEF AfterLogs, g

\* No log leaves the tables alone.
LEMMA AfterNone == AfterLogs(<<>>) = AsDb
<1>1. DOMAIN <<>> = 1 .. 0 /\ UpTo(<<>>, 1 .. 0) = AsDb
  BY DEF UpTo, HandleIf
<1> QED BY <1>1, AfterIs

\* The last log is handled after the others.
LEMMA AfterOneMore ==
    ASSUME NEW E, NEW logs \in Seq(E), Len(logs) <= 3, NEW e \in E
    PROVE  AfterLogs(logs \o <<e>>) = Handle(AfterLogs(logs), e)
<1> DEFINE n == Len(logs)  all == logs \o <<e>>
<1>1. n \in 0 .. 3 /\ DOMAIN logs = 1 .. n
  <2>1. Len(logs) \in Nat /\ DOMAIN logs = 1 .. Len(logs)
    OBVIOUS
  <2> DEFINE k == Len(logs)
  <2> HIDE DEF all, k
  <2>2. k \in 0 .. 3
    BY <2>1 DEF k
  <2> QED BY <2>1, <2>2 DEF k
<1>2. DOMAIN all = 1 .. (n + 1) /\ all[n + 1] = e /\ \A i \in 1 .. n : all[i] = logs[i]
  <2>1. <<e>> \in Seq(E) /\ Len(<<e>>) = 1 /\ <<e>>[1] = e
    <3>1. <<e>> \in Seq(E)
      OBVIOUS
    <3>2. Len(<<e>>) = 1
      OBVIOUS
    <3>3. <<e>>[1] = e
      OBVIOUS
    <3> QED BY <3>1, <3>2, <3>3
  <2> DEFINE last == <<e>>
  <2> HIDE DEF last
  <2>2. /\ logs \o last \in Seq(E) /\ Len(logs \o last) = n + 1
        /\ \A i \in 1 .. n : (logs \o last)[i] = logs[i]
        /\ (logs \o last)[n + 1] = last[1]
    BY <2>1 DEF last
  <2> QED BY <2>1, <2>2 DEF last
<1> HIDE DEF n, all
<1>3. UpTo(all, 1 .. (n + 1)) = Handle(UpTo(logs, 1 .. n), e)
  <2>1. CASE n = 0
    BY <1>2, <2>1 DEF UpTo, HandleIf
  <2>2. CASE n = 1
    BY <1>2, <2>2 DEF UpTo, HandleIf
  <2>3. CASE n = 2
    BY <1>2, <2>3 DEF UpTo, HandleIf
  <2>4. CASE n = 3
    BY <1>2, <2>4 DEF UpTo, HandleIf
  <2> QED BY <1>1, <2>1, <2>2, <2>3, <2>4
<1>4. AfterLogs(logs) = UpTo(logs, 1 .. n) /\ AfterLogs(all) = UpTo(all, 1 .. (n + 1))
  <2>1. n \in 0 .. 4 /\ n + 1 \in 0 .. 4
    BY <1>1
  <2> QED BY <1>1, <1>2, <2>1, AfterIs
<1> QED BY <1>3, <1>4 DEF all

----------------------------------------------------------------------------
(* What each handler leaves of the tables.                                    *)

\* The tables as a handler finds and leaves them.
Table == {"wallets", "totals", "timeline", "settled", "halted", "row"}
IsDb(db) == db = [f \in Table |-> db[f]] /\ db.halted = FALSE

\* What a handler leaves of the tables, but for the timeline.
Leaves(db, w, t, s, row) ==
    /\ IsDb(db) /\ db.wallets = w /\ db.totals = t /\ db.settled = s /\ db.row = row

\* The tables a transaction finds.
LEMMA BeforeLogs == halted = FALSE => Leaves(AsDb, wallets, totals, settled, NoRow)
BY DEF AsDb, Leaves, IsDb, Table

\* A handler that throws nothing writes the log's row to the timeline,
LEMMA RowWritten ==
    ASSUME NEW db, IsDb(db), NEW e, e.kind \notin Rowless, IsDb(Counted(db, e))
    PROVE  Leaves(Handle(db, e), Counted(db, e).wallets, Counted(db, e).totals,
                  Counted(db, e).settled, e)
<1> DEFINE c == Counted(db, e)
<1> HIDE DEF c
<1>1. db.halted = FALSE /\ c.halted = FALSE /\ IsDb(c)
  BY DEF IsDb, c
<1>2. Handle(db, e) = WriteRow(c, e)
  BY <1>1 DEF Handle, c
<1>3. Leaves(WriteRow(c, e), c.wallets, c.totals, c.settled, e)
  BY <1>1 DEF WriteRow, IsDb, Leaves, Table
<1> QED BY <1>2, <1>3 DEF c

\* or none.
LEMMA NoRowWritten ==
    ASSUME NEW db, IsDb(db), NEW e, e.kind \in Rowless, IsDb(Counted(db, e))
    PROVE  Leaves(Handle(db, e), Counted(db, e).wallets, Counted(db, e).totals,
                  Counted(db, e).settled, NoRow)
<1> DEFINE c == Counted(db, e)
<1> HIDE DEF c
<1>1. db.halted = FALSE /\ c.halted = FALSE /\ IsDb(c)
  BY DEF IsDb, c
<1>2. Handle(db, e) = [c EXCEPT !.row = NoRow]
  BY <1>1 DEF Handle, c
<1>3. Leaves([c EXCEPT !.row = NoRow], c.wallets, c.totals, c.settled, NoRow)
  BY <1>1 DEF IsDb, Leaves, Table
<1> QED BY <1>2, <1>3 DEF c

\* A log that no total counts and no wallet's row: its handler only writes the timeline.
LEMMA UncountedHandled ==
    ASSUME NEW db, IsDb(db), NEW e, e.kind \in {"RETIERED", "COLLATERAL_IN", "COLLATERAL_OUT"}
    PROVE  Leaves(Handle(db, e), db.wallets, db.totals, db.settled, e)
<1>1. Counted(db, e) = db
  BY DEF Counted
<1>2. e.kind \notin Rowless
  BY DEF Rowless
<1> QED BY <1>1, <1>2, RowWritten

\* The handlers that count in the totals only.
LEMMA InterestHandled ==
    ASSUME NEW db, IsDb(db), NEW e, e.kind = "INTEREST"
    PROVE  Leaves(Handle(db, e), db.wallets,
                  [db.totals EXCEPT !.interestAccrued = @ + e.interest,
                                    !.toReserves = @ + e.toReserves,
                                    !.lastBorrowIndex = e.borrowIndex], db.settled, NoRow)
<1>1. Counted(db, e) = OnInterestAccrued(db, e) /\ e.kind \in Rowless
  BY DEF Counted, Rowless
<1>2. Leaves(OnInterestAccrued(db, e), db.wallets,
                  [db.totals EXCEPT !.interestAccrued = @ + e.interest,
                                    !.toReserves = @ + e.toReserves,
                                    !.lastBorrowIndex = e.borrowIndex], db.settled, db.row)
  BY DEF OnInterestAccrued, IsDb, Leaves, Table
<1> QED BY <1>1, <1>2, NoRowWritten DEF Leaves

LEMMA DepositHandled ==
    ASSUME NEW db, IsDb(db), NEW e, e.kind = "DEPOSIT"
    PROVE  Leaves(Handle(db, e), db.wallets,
                  [db.totals EXCEPT !.lenderDeposits = @ + e.amount], db.settled, NoRow)
<1> DEFINE c == [db EXCEPT !.totals.lenderDeposits = @ + e.amount]
<1>1. /\ Counted(db, e) = c
      /\ e.kind \in Rowless
  BY DEF Counted, Rowless
<1>2. Leaves(c, db.wallets,
             [db.totals EXCEPT !.lenderDeposits = @ + e.amount], db.settled, db.row)
  BY DEF IsDb, Leaves, Table
<1> HIDE DEF c
<1> QED BY <1>1, <1>2, NoRowWritten DEF Leaves

LEMMA WithdrawHandled ==
    ASSUME NEW db, IsDb(db), NEW e, e.kind = "WITHDRAW"
    PROVE  Leaves(Handle(db, e), db.wallets,
                  [db.totals EXCEPT !.lenderWithdrawals = @ + e.amount], db.settled, NoRow)
<1> DEFINE c == [db EXCEPT !.totals.lenderWithdrawals = @ + e.amount]
<1>1. /\ Counted(db, e) = c
      /\ e.kind \in Rowless
  BY DEF Counted, Rowless
<1>2. Leaves(c, db.wallets,
             [db.totals EXCEPT !.lenderWithdrawals = @ + e.amount], db.settled, db.row)
  BY DEF IsDb, Leaves, Table
<1> HIDE DEF c
<1> QED BY <1>1, <1>2, NoRowWritten DEF Leaves

LEMMA RepaidHandled ==
    ASSUME NEW db, IsDb(db), NEW e, e.kind = "REPAID"
    PROVE  Leaves(Handle(db, e), db.wallets,
                  [db.totals EXCEPT !.repayVolume = @ + e.amount], db.settled, e)
<1> DEFINE c == [db EXCEPT !.totals.repayVolume = @ + e.amount]
<1>1. /\ Counted(db, e) = c
      /\ e.kind \notin Rowless
  BY DEF Counted, Rowless
<1>2. Leaves(c, db.wallets,
             [db.totals EXCEPT !.repayVolume = @ + e.amount], db.settled, db.row)
  BY DEF IsDb, Leaves, Table
<1> HIDE DEF c
<1> QED BY <1>1, <1>2, RowWritten DEF Leaves

LEMMA BadDebtHandled ==
    ASSUME NEW db, IsDb(db), NEW e, e.kind = "BAD_DEBT"
    PROVE  Leaves(Handle(db, e), db.wallets,
                  [db.totals EXCEPT !.badDebt = @ + e.amount,
                                    !.badDebtFromReserves = @ + e.fromReserves,
                                    !.badDebtSocialized = @ + e.socialized], db.settled, e)
<1>1. Counted(db, e) = OnBadDebt(db, e) /\ e.kind \notin Rowless
  BY DEF Counted, Rowless
<1>2. Leaves(OnBadDebt(db, e), db.wallets,
             [db.totals EXCEPT !.badDebt = @ + e.amount,
                               !.badDebtFromReserves = @ + e.fromReserves,
                               !.badDebtSocialized = @ + e.socialized], db.settled, db.row)
  BY DEF OnBadDebt, IsDb, Leaves, Table
<1> QED BY <1>1, <1>2, RowWritten DEF Leaves

\* Those that keep a wallet's row.
LEMMA BorrowedHandled ==
    ASSUME NEW db, IsDb(db), NEW e, e.kind = "BORROWED"
    PROVE  Leaves(Handle(db, e), [db.wallets EXCEPT ![e.wallet].borrowCount = @ + 1],
                  [db.totals EXCEPT !.borrowVolume = @ + e.amount, !.borrowCount = @ + 1],
                  db.settled, e)
<1>1. Counted(db, e) = OnBorrowed(db, e) /\ e.kind \notin Rowless
  BY DEF Counted, Rowless
<1>2. Leaves(OnBorrowed(db, e), [db.wallets EXCEPT ![e.wallet].borrowCount = @ + 1],
             [db.totals EXCEPT !.borrowVolume = @ + e.amount, !.borrowCount = @ + 1],
             db.settled, db.row)
  BY DEF OnBorrowed, IsDb, Leaves, Table
<1> QED BY <1>1, <1>2, RowWritten DEF Leaves

LEMMA AttestedHandled ==
    ASSUME NEW db, IsDb(db), NEW e, e.kind = "ATTESTED"
    PROVE  Leaves(Handle(db, e),
                  [db.wallets EXCEPT ![e.wallet].attestationCount = @ + 1,
                                     ![e.wallet].latestScore = e.score,
                                     ![e.wallet].latestScoreIssuedAt = e.issuedAt,
                                     ![e.wallet].latestScoreExpiresAt = e.expiresAt],
                  [db.totals EXCEPT !.attestationCount = @ + 1], db.settled, e)
<1>1. Counted(db, e) = OnAttested(db, e) /\ e.kind \notin Rowless
  BY DEF Counted, Rowless
<1>2. Leaves(OnAttested(db, e),
             [db.wallets EXCEPT ![e.wallet].attestationCount = @ + 1,
                                ![e.wallet].latestScore = e.score,
                                ![e.wallet].latestScoreIssuedAt = e.issuedAt,
                                ![e.wallet].latestScoreExpiresAt = e.expiresAt],
             [db.totals EXCEPT !.attestationCount = @ + 1], db.settled, db.row)
  <2> DEFINE u == [db EXCEPT !.wallets[e.wallet].attestationCount = @ + 1,
                             !.wallets[e.wallet].latestScore = e.score,
                             !.wallets[e.wallet].latestScoreIssuedAt = e.issuedAt,
                             !.wallets[e.wallet].latestScoreExpiresAt = e.expiresAt]
  <2>1. Leaves(u, [db.wallets EXCEPT ![e.wallet].attestationCount = @ + 1,
                                     ![e.wallet].latestScore = e.score,
                                     ![e.wallet].latestScoreIssuedAt = e.issuedAt,
                                     ![e.wallet].latestScoreExpiresAt = e.expiresAt],
               db.totals, db.settled, db.row)
    BY DEF IsDb, Leaves, Table
  <2>2. OnAttested(db, e) = [u EXCEPT !.totals.attestationCount = @ + 1]
    BY DEF OnAttested, IsDb, Table
  <2> HIDE DEF u
  <2>3. Leaves([u EXCEPT !.totals.attestationCount = @ + 1], u.wallets,
               [u.totals EXCEPT !.attestationCount = @ + 1], u.settled, u.row)
    BY <2>1 DEF IsDb, Leaves, Table
  <2> QED BY <2>1, <2>2, <2>3 DEF Leaves
<1> QED BY <1>1, <1>2, RowWritten DEF Leaves

LEMMA RecordedHandled ==
    ASSUME NEW db, IsDb(db), NEW e, e.kind = "LIQUIDATION_RECORDED"
    PROVE  Leaves(Handle(db, e),
                  [db.wallets EXCEPT ![e.wallet].liquidationCount = e.record.liquidationCount,
                                     ![e.wallet].shortfallCount = e.record.shortfallCount,
                                     ![e.wallet].totalShortfall = e.record.totalShortfall,
                                     ![e.wallet].lastLiquidatedAt = e.record.lastLiquidatedAt],
                  db.totals, db.settled, e)
<1>1. Counted(db, e) = OnLiquidationRecorded(db, e) /\ e.kind \notin Rowless
  BY DEF Counted, Rowless
<1>2. Leaves(OnLiquidationRecorded(db, e),
             [db.wallets EXCEPT ![e.wallet].liquidationCount = e.record.liquidationCount,
                                ![e.wallet].shortfallCount = e.record.shortfallCount,
                                ![e.wallet].totalShortfall = e.record.totalShortfall,
                                ![e.wallet].lastLiquidatedAt = e.record.lastLiquidatedAt],
             db.totals, db.settled, db.row)
  BY DEF OnLiquidationRecorded, IsDb, Leaves, Table
<1> QED BY <1>1, <1>2, RowWritten DEF Leaves

\* The join, where the row it looks up is there.
LEMMA LiquidatedHandled ==
    ASSUME NEW db, IsDb(db), NEW e, e.kind = "LIQUIDATED", Joined(db, e)
    PROVE  Leaves(Handle(db, e), db.wallets,
                  [db.totals EXCEPT !.liquidationCount = @ + 1,
                                    !.liquidationsWithShortfall =
                                        @ + (IF e.shortfall > 0 THEN 1 ELSE 0)],
                  Append(db.settled, Settlement(db, e)), e)
<1> DEFINE v == Settlement(db, e)
<1> HIDE DEF v
<1>1. Counted(db, e) = OnLiquidated(db, e) /\ e.kind \notin Rowless
  BY DEF Counted, Rowless
<1>2. Leaves(OnLiquidated(db, e), db.wallets,
             [db.totals EXCEPT !.liquidationCount = @ + 1,
                               !.liquidationsWithShortfall =
                                   @ + (IF e.shortfall > 0 THEN 1 ELSE 0)],
             Append(db.settled, v), db.row)
  BY DEF OnLiquidated, IsDb, Leaves, Table, v
<1> QED BY <1>1, <1>2, RowWritten DEF Leaves, v

----------------------------------------------------------------------------
(* What a transaction's logs leave of the tables.                             *)

\* What at most n logs leave of the tables.
Emitted(logs, n, w, t, s, row) ==
    \E E : logs \in Seq(E) /\ Len(logs) <= n /\ Leaves(AfterLogs(logs), w, t, s, row)

\* A transaction that logs nothing,
LEMMA NothingEmitted == halted = FALSE => Emitted(<<>>, 0, wallets, totals, settled, NoRow)
<1>1. <<>> \in Seq({}) /\ Len(<<>>) <= 0
  OBVIOUS
<1> QED BY <1>1, AfterNone, BeforeLogs DEF Emitted

\* one that logs one thing more,
LEMMA OneMoreEmitted ==
    ASSUME NEW logs, NEW n \in 0 .. 3, NEW w, NEW t, NEW s, NEW row, Emitted(logs, n, w, t, s, row),
           NEW e, NEW w2, NEW t2, NEW s2, NEW row2,
           \A db : Leaves(db, w, t, s, row) => Leaves(Handle(db, e), w2, t2, s2, row2)
    PROVE  Emitted(logs \o <<e>>, n + 1, w2, t2, s2, row2)
<1>1. PICK E : logs \in Seq(E) /\ Len(logs) <= n /\ Leaves(AfterLogs(logs), w, t, s, row)
  BY DEF Emitted
<1> DEFINE F == E \cup {e}
<1>2. logs \in Seq(F) /\ e \in F /\ <<e>> \in Seq(F)
  BY <1>1
<1> HIDE DEF F
<1>3. Len(logs) <= 3
  BY <1>1
<1>4. AfterLogs(logs \o <<e>>) = Handle(AfterLogs(logs), e)
  BY <1>2, <1>3, AfterOneMore
<1>5. logs \o <<e>> \in Seq(F) /\ Len(logs \o <<e>>) <= n + 1
  <2> DEFINE last == <<e>>
  <2>1. Len(last) = 1
    OBVIOUS
  <2> HIDE DEF last
  <2>2. logs \o last \in Seq(F) /\ Len(logs \o last) = Len(logs) + Len(last)
    BY <1>2 DEF last
  <2>3. Len(logs) \in Nat
    BY <1>2
  <2> QED BY <1>1, <2>1, <2>2, <2>3 DEF last
<1> QED BY <1>1, <1>4, <1>5 DEF Emitted

\* one that logs a single thing, and one that may have logged one and did not.
LEMMA OneEmitted ==
    ASSUME halted = FALSE, NEW e, NEW w2, NEW t2, NEW s2, NEW row2,
           \A db : Leaves(db, wallets, totals, settled, NoRow)
                     => Leaves(Handle(db, e), w2, t2, s2, row2)
    PROVE  Emitted(<<e>>, 1, w2, t2, s2, row2)
<1>1. Emitted(<<>> \o <<e>>, 0 + 1, w2, t2, s2, row2)
  <2>1. Emitted(<<>>, 0, wallets, totals, settled, NoRow)
    BY NothingEmitted
  <2> DEFINE none == <<>>
  <2> HIDE DEF none
  <2>2. Emitted(none, 0, wallets, totals, settled, NoRow)
    BY <2>1 DEF none
  <2>3. Emitted(none \o <<e>>, 0 + 1, w2, t2, s2, row2)
    BY <2>2, OneMoreEmitted
  <2> QED BY <2>3 DEF none
<1>2. <<>> \o <<e>> = <<e>>
  OBVIOUS
<1> QED BY <1>1, <1>2

LEMMA NoMoreEmitted ==
    ASSUME NEW logs, NEW n \in 0 .. 3, NEW w, NEW t, NEW s, NEW row, Emitted(logs, n, w, t, s, row)
    PROVE  Emitted(logs \o <<>>, n + 1, w, t, s, row)
<1>1. PICK E : logs \in Seq(E) /\ Len(logs) <= n /\ Leaves(AfterLogs(logs), w, t, s, row)
  BY DEF Emitted
<1>2. logs \o <<>> = logs /\ Len(logs) \in Nat
  BY <1>1
<1>3. Len(logs) <= n + 1
  BY <1>1, <1>2
<1> QED BY <1>1, <1>2, <1>3 DEF Emitted

\* The tables after a transaction that emitted them.
LEMMA EmitIs ==
    ASSUME NEW logs, NEW n, NEW w, NEW t, NEW s, NEW row, Emitted(logs, n, w, t, s, row), Emit(logs)
    PROVE  wallets' = w /\ totals' = t /\ settled' = s /\ halted' = FALSE
BY DEF Emit, Emitted, Leaves, IsDb, AfterLogs
----------------------------------------------------------------------------
TotalsField ==
    {"lenderDeposits", "lenderWithdrawals", "borrowVolume", "repayVolume", "borrowCount",
     "liquidationCount", "liquidationsWithShortfall", "badDebt", "badDebtFromReserves",
     "badDebtSocialized", "interestAccrued", "toReserves", "attestationCount", "lastBorrowIndex"}
WalletField ==
    {"attestationCount", "latestScore", "latestScoreIssuedAt", "latestScoreExpiresAt",
     "borrowCount", "liquidationCount", "shortfallCount", "totalShortfall", "lastLiquidatedAt"}
SettlementRow ==
    [wallet : Wallet, repaid : Nat, seized : Nat, shortfall : Nat, fromReserves : Nat,
     socialized : Nat]

BooksTyped ==
    /\ halted = FALSE
    /\ totals \in [TotalsField -> Int]
    /\ wallets \in [Wallet -> [WalletField -> Int]]
    /\ settled \in Seq(SettlementRow)
    /\ nonces \in [Wallet -> Nat] /\ scores = [w \in Wallet |-> scores[w]]
    /\ liquidations \in [Wallet -> R!LiquidationRecord]

BooksInv == BooksTyped /\ TotalsMatchTheMarket /\ WalletsMatchTheRegistry

\* No liquidation repaid nothing.
LEMMA TotalOfNone == ASSUME NEW f PROVE SumFunctionOnSet(f, {}) = 0
<1>1. IsFiniteSet({}) /\ \A y \in {} : f[y] = 0
  BY FS_EmptySet
<1>2. SumFunctionOnSet(f, {}) = 0
  BY <1>1, SumZero
<1> QED BY <1>2

\* The books are empty at first.
LEMMA BooksInit == IndexInit /\ M!TypeOK => BooksInv
<1> SUFFICES ASSUME IndexInit, M!TypeOK PROVE BooksInv
  OBVIOUS
<1>1. /\ halted = FALSE /\ totals = newTotals /\ settled = <<>>
      /\ wallets = [w \in Wallet |-> newWallet]
      /\ nonces = [w \in Wallet |-> 0] /\ scores = [w \in Wallet |-> R!NoScore]
      /\ liquidations = [w \in Wallet |-> R!NoLiquidation]
  BY DEF IndexInit, Init, R!Init
<1>2. totals \in [TotalsField -> Int] /\ \A f \in TotalsField : totals[f] = 0
  BY <1>1 DEF newTotals, TotalsField
<1>3. newWallet \in [WalletField -> Int] /\ \A f \in WalletField : newWallet[f] = 0
  BY DEF newWallet, WalletField
<1>4. R!NoLiquidation \in R!LiquidationRecord
  BY DEF R!NoLiquidation, R!LiquidationRecord
<1>5. BooksTyped
  BY <1>1, <1>2, <1>3, <1>4 DEF BooksTyped
<1>6. /\ totalBadDebt = 0 /\ totalReserveDrawn = 0 /\ totalSocializedLoss = 0 /\ reserves = 0
      /\ cash = 0
  BY DEF IndexInit, Init, M!Init
<1>7. Settlements = {} /\ \A w \in Wallet : SettledOf(w) = {}
  BY <1>1 DEF Settlements, SettledOf
<1>8. SumFunctionOnSet(repaidBy, {}) = 0 /\ SumFunctionOnSet(unpaidBy, {}) = 0
  BY TotalOfNone
<1>9. TotalsMatchTheMarket
  BY <1>2, <1>6, <1>7, <1>8 DEF M!TypeOK, TotalsMatchTheMarket, TotalsField
<1>10. \A w \in Wallet : \A f \in DOMAIN liquidations[w] : wallets[w][f] = liquidations[w][f]
  BY <1>1, <1>3 DEF R!NoLiquidation, WalletField
<1>11. WalletsMatchTheRegistry
  BY <1>1, <1>2, <1>3, <1>7, <1>8, <1>10, FS_EmptySet
  DEF WalletsMatchTheRegistry, R!NoScore, TotalsField, WalletField
<1> QED BY <1>5, <1>9, <1>11 DEF BooksInv

----------------------------------------------------------------------------
(* The steps that settle nothing.                                             *)

\* What came in by the totals less what went out.
Net(t) == t.lenderDeposits - t.lenderWithdrawals - t.borrowVolume + t.repayVolume
LossField == {"badDebt", "badDebtFromReserves", "badDebtSocialized", "liquidationCount"}

\* Where no liquidation is settled, neither are the sums over them another.
LEMMA SettledSame ==
    settled' = settled =>
      /\ SumFunctionOnSet(repaidBy, Settlements)' = SumFunctionOnSet(repaidBy, Settlements)
      /\ \A w \in Wallet : /\ Cardinality(SettledOf(w))' = Cardinality(SettledOf(w))
                           /\ SumFunctionOnSet(unpaidBy, SettledOf(w))' = SumFunctionOnSet(unpaidBy, SettledOf(w))
BY DEF Settlements, SettledOf, repaidBy, unpaidBy

\* The sums are naturals.
LEMMA RepaidType == BooksTyped => SumFunctionOnSet(repaidBy, Settlements) \in Nat
<1> SUFFICES ASSUME BooksTyped PROVE SumFunctionOnSet(repaidBy, Settlements) \in Nat
  OBVIOUS
<1>1. settled \in Seq(SettlementRow)
  BY DEF BooksTyped
<1>2. Len(settled) \in Nat /\ Settlements = 1 .. Len(settled)
  BY <1>1 DEF Settlements
<1>3. IsFiniteSet(Settlements)
  BY <1>2, FS_Interval
<1>4. \A i \in Settlements : repaidBy[i] \in Nat
  <2> SUFFICES ASSUME NEW i \in Settlements PROVE repaidBy[i] \in Nat
    OBVIOUS
  <2>1. settled[i] \in SettlementRow /\ repaidBy[i] = settled[i].repaid
    BY <1>1 DEF Settlements, repaidBy
  <2> QED BY <2>1 DEF SettlementRow
<1>5. SumFunctionOnSet(repaidBy, Settlements) \in Nat
  BY <1>3, <1>4, SumType
<1> QED BY <1>5

\* A transaction that moves cash and interest, and settles nothing.
LEMMA PoolKeeps ==
    ASSUME BooksInv, M!TypeOK, M!TypeOK',
           UNCHANGED <<nonces, scores, liquidations, totalBadDebt, totalReserveDrawn,
                       totalSocializedLoss>>,
           settled' = settled, halted' = FALSE,
           totals' \in [TotalsField -> Int], wallets' \in [Wallet -> [WalletField -> Int]],
           \A w \in Wallet : \A f \in WalletField \ {"borrowCount"} : wallets'[w][f] = wallets[w][f],
           \A f \in LossField : totals'[f] = totals[f],
           totals'.toReserves = totals.toReserves + (reserves' - reserves),
           totals'.lastBorrowIndex <= borrowIndex',
           cash' = cash + (Net(totals') - Net(totals))
    PROVE  BooksInv'
<1>1. BooksTyped'
  BY DEF BooksInv, BooksTyped
<1>2. \A f \in TotalsField : totals[f] \in Int /\ totals'[f] \in Int
  BY DEF BooksInv, BooksTyped
<1>3. reserves \in Nat /\ reserves' \in Nat /\ cash \in Nat /\ cash' \in Nat
  BY DEF M!TypeOK
<1> DEFINE rep == SumFunctionOnSet(repaidBy, Settlements)
<1>4. rep \in Nat /\ rep' = rep
  BY RepaidType, SettledSame DEF BooksInv
<1> HIDE DEF rep
<1>5. cash = Net(totals) + rep
  BY DEF BooksInv, TotalsMatchTheMarket, Net, rep
<1>6. Net(totals) \in Int /\ Net(totals') \in Int
  BY <1>2 DEF Net, TotalsField
<1>7. cash' = Net(totals') + rep'
  BY <1>3, <1>4, <1>5, <1>6
<1>8. totals'.toReserves - totals'.badDebtFromReserves = reserves'
  BY <1>2, <1>3 DEF BooksInv, TotalsMatchTheMarket, TotalsField, LossField
<1>9. TotalsMatchTheMarket'
  BY <1>7, <1>8 DEF BooksInv, TotalsMatchTheMarket, LossField, Net, rep
<1>10. WalletsMatchTheRegistry'
  <2>1. ASSUME NEW w \in Wallet, NEW f \in DOMAIN liquidations[w]
        PROVE  wallets'[w][f] = liquidations[w][f]
    <3>1. f \in WalletField \ {"borrowCount"}
      <4>1. liquidations[w] \in R!LiquidationRecord
        BY DEF BooksInv, BooksTyped
      <4>2. DOMAIN liquidations[w] =
              {"lastLiquidatedAt", "liquidationCount", "shortfallCount", "totalShortfall"}
        BY <4>1 DEF R!LiquidationRecord
      <4> QED BY <4>2 DEF WalletField
    <3> QED BY <3>1 DEF BooksInv, WalletsMatchTheRegistry
  <2>2. ASSUME NEW w \in Wallet
        PROVE  /\ wallets'[w].attestationCount = nonces[w]
               /\ wallets'[w].latestScore = scores[w].score
               /\ wallets'[w].latestScoreIssuedAt = scores[w].issuedAt
               /\ wallets'[w].latestScoreExpiresAt = scores[w].expiresAt
               /\ wallets'[w].liquidationCount = wallets[w].liquidationCount
               /\ wallets'[w].totalShortfall = wallets[w].totalShortfall
    BY DEF BooksInv, WalletsMatchTheRegistry, WalletField
  <2>3. totals'.liquidationCount = totals.liquidationCount
    BY DEF LossField
  <2> QED BY <2>1, <2>2, <2>3, SettledSame DEF BooksInv, WalletsMatchTheRegistry
<1> QED BY <1>1, <1>9, <1>10 DEF BooksInv

\* The owners' transactions, the oracle's and time touch no book.
LEMMA AdministrationKeeps ==
    ASSUME BooksInv, Administration, UNCHANGED tables
    PROVE  BooksInv'
<1>1. /\ UNCHANGED <<nonces, scores, liquidations>>
      /\ UNCHANGED <<totalBadDebt, totalReserveDrawn, totalSocializedLoss, reserves, borrowIndex, cash>>
  <2>1. CASE \E k \in Signer : SetAttestor(k)
    BY <2>1 DEF SetAttestor, MarketUntouched, R!SetAttestor, R!tables, book
  <2>2. CASE \E b \in BOOLEAN : SetMarket(b)
    BY <2>2 DEF SetMarket, MarketUntouched, R!SetMarket, R!tables, book
  <2>3. CASE \E b \in BOOLEAN : PauseMarket(b)
    BY <2>3 DEF PauseMarket, OfMarket, RegistryUntouched, registry, M!SetPaused, M!losses,
                M!accrual, M!debts, M!pledge
  <2>4. CASE PauseRegistry
    BY <2>4 DEF PauseRegistry, MarketUntouched, R!Pause, R!Unpause, R!tables, book
  <2>5. CASE \E a \in M!Asset : \E p \in PriceInput[a] : SetPrice(a, p)
    BY <2>5 DEF SetPrice, RegistryUntouched, registry, M!SetPrice, M!market, M!losses,
                M!accrual
  <2>6. CASE Tick
    BY <2>6 DEF Tick, MarketUntouched, R!Tick, R!tables, book
  <2> QED BY <2>1, <2>2, <2>3, <2>4, <2>5, <2>6 DEF Administration
<1>2. UNCHANGED <<wallets, totals, settled, halted>>
  BY DEF tables
<1> QED BY <1>1, <1>2, SettledSame
    DEF BooksInv, BooksTyped, TotalsMatchTheMarket, WalletsMatchTheRegistry

LEMMA StutterKeeps ==
    ASSUME BooksInv, UNCHANGED <<vars, tables>>
    PROVE  BooksInv'
<1>1. /\ UNCHANGED <<nonces, scores, liquidations>>
      /\ UNCHANGED <<totalBadDebt, totalReserveDrawn, totalSocializedLoss, reserves, borrowIndex, cash>>
      /\ UNCHANGED <<wallets, totals, settled, halted>>
  BY DEF vars, tables, registry, book
<1> QED BY <1>1, SettledSame
    DEF BooksInv, BooksTyped, TotalsMatchTheMarket, WalletsMatchTheRegistry

\* The inputs are naturals.
LEMMA InputTypes == ScoreInput \subseteq Nat /\ AssetInput \subseteq Nat /\ Amount \subseteq Nat
BY TenorAssumption

\* A wallet's row with a score in it.
LEMMA AttestedRowType ==
    ASSUME NEW y \in [WalletField -> Int], NEW n \in Int, NEW i \in Int, NEW x \in Int
    PROVE  [y EXCEPT !.attestationCount = @ + 1, !.latestScore = n,
                     !.latestScoreIssuedAt = i, !.latestScoreExpiresAt = x] \in [WalletField -> Int]
<1> DEFINE y1 == [y EXCEPT !.attestationCount = @ + 1]
           y2 == [y1 EXCEPT !.latestScore = n]
           y3 == [y2 EXCEPT !.latestScoreIssuedAt = i]
<1>1. y1 \in [WalletField -> Int]
  BY DEF WalletField
<1>2. y2 \in [WalletField -> Int]
  <2> HIDE DEF y1
  <2> QED BY <1>1
<1>3. y3 \in [WalletField -> Int]
  <2> HIDE DEF y2
  <2> QED BY <1>2
<1>4. [y3 EXCEPT !.latestScoreExpiresAt = x] \in [WalletField -> Int]
  <2> HIDE DEF y3
  <2> QED BY <1>3
<1> QED BY <1>4

\* A score stored and its row.
LEMMA SubmissionKeeps ==
    ASSUME BooksInv, NEW a \in Payload, NEW k \in Signer, SubmitAttestation(a, k), Emit(Attested(a))
    PROVE  BooksInv'
<1> DEFINE v == a.wallet
           e == [kind |-> "ATTESTED", wallet |-> a.wallet, score |-> a.score,
                 issuedAt |-> a.issuedAt, expiresAt |-> a.expiresAt]
           r == [score |-> a.score, issuedAt |-> a.issuedAt, expiresAt |-> a.expiresAt,
                 attestorEpoch |-> attestorEpoch]
<1>1. /\ v \in Wallet /\ a.score \in ScoreInput /\ a.issuedAt \in Nat /\ a.expiresAt \in Nat
  BY DEF Payload, R!Attestation, R!Timestamp
<1>2. /\ UNCHANGED <<totalBadDebt, totalReserveDrawn, totalSocializedLoss, reserves, borrowIndex, cash>>
      /\ UNCHANGED liquidations /\ nonces' = [nonces EXCEPT ![v] = a.nonce + 1] /\ a.nonce = nonces[v]
      /\ scores' = [scores EXCEPT ![v] = r]
  BY DEF SubmitAttestation, MarketUntouched, book, R!SubmitAttestation, R!Submittable
<1> DEFINE w2 == [wallets EXCEPT ![v].attestationCount = @ + 1,
                                 ![v].latestScore = a.score,
                                 ![v].latestScoreIssuedAt = a.issuedAt,
                                 ![v].latestScoreExpiresAt = a.expiresAt]
           t2 == [totals EXCEPT !.attestationCount = @ + 1]
<1>3. wallets' = w2 /\ totals' = t2 /\ settled' = settled /\ halted' = FALSE
  <2>1. ASSUME NEW db, Leaves(db, wallets, totals, settled, NoRow)
        PROVE  Leaves(Handle(db, e), w2, t2, settled, e)
    <3>1. /\ IsDb(db) /\ db.wallets = wallets /\ db.totals = totals /\ db.settled = settled
          /\ e.kind = "ATTESTED" /\ e.wallet = v /\ e.score = a.score
          /\ e.issuedAt = a.issuedAt /\ e.expiresAt = a.expiresAt
      BY <2>1 DEF Leaves
    <3> HIDE DEF e
    <3> QED BY <3>1, AttestedHandled
  <2> HIDE DEF w2, t2, e
  <2>2. Emitted(<<e>>, 1, w2, t2, settled, e)
    BY <2>1, OneEmitted DEF BooksInv, BooksTyped
  <2>3. Emit(<<e>>)
    BY DEF Attested, e
  <2> QED BY <2>2, <2>3, EmitIs
<1>4. /\ wallets \in [Wallet -> [WalletField -> Int]] /\ totals \in [TotalsField -> Int]
      /\ scores = [u \in Wallet |-> scores[u]] /\ nonces \in [Wallet -> Nat]
  BY DEF BooksInv, BooksTyped
<1>5. /\ w2[v].attestationCount = wallets[v].attestationCount + 1 /\ w2[v].latestScore = a.score
      /\ w2[v].latestScoreIssuedAt = a.issuedAt /\ w2[v].latestScoreExpiresAt = a.expiresAt
      /\ \A f \in {"borrowCount", "liquidationCount", "shortfallCount", "totalShortfall",
                   "lastLiquidatedAt"} : w2[v][f] = wallets[v][f]
      /\ \A u \in Wallet : u # v => w2[u] = wallets[u]
  BY <1>1, <1>4 DEF WalletField
<1>6. w2 \in [Wallet -> [WalletField -> Int]]
  <2>1. a.score \in Int /\ a.issuedAt \in Int /\ a.expiresAt \in Int
    <3>1. a.score \in Nat
      BY <1>1, InputTypes
    <3> QED BY <1>1, <3>1
  <2>2. wallets[v] \in [WalletField -> Int]
    BY <1>1, <1>4
  <2> DEFINE x == [wallets[v] EXCEPT !.attestationCount = @ + 1, !.latestScore = a.score,
                     !.latestScoreIssuedAt = a.issuedAt, !.latestScoreExpiresAt = a.expiresAt]
  <2>3. x \in [WalletField -> Int]
    BY <2>1, <2>2, AttestedRowType
  <2>4. w2 = [wallets EXCEPT ![v] = x]
    OBVIOUS
  <2> HIDE DEF w2, x
  <2> QED BY <1>4, <2>3, <2>4
<1>7. t2 \in [TotalsField -> Int] /\ \A f \in TotalsField : f # "attestationCount" => t2[f] = totals[f]
  BY <1>4 DEF TotalsField
<1>8. r.score = a.score /\ r.issuedAt = a.issuedAt /\ r.expiresAt = a.expiresAt
  OBVIOUS
<1> HIDE DEF w2, t2, r, e
<1>9. BooksTyped'
  <2>1. nonces' \in [Wallet -> Nat] /\ scores' = [u \in Wallet |-> scores'[u]]
    <3>1. nonces' \in [Wallet -> Nat]
      BY <1>1, <1>2, <1>4
    <3>2. scores' = [u \in Wallet |-> scores'[u]]
      BY <1>1, <1>2, <1>4
    <3> QED BY <3>1, <3>2
  <2> QED BY <1>2, <1>3, <1>6, <1>7, <2>1 DEF BooksInv, BooksTyped
<1>10. TotalsMatchTheMarket'
  BY <1>2, <1>3, <1>7, SettledSame DEF BooksInv, TotalsMatchTheMarket, TotalsField
<1>11. WalletsMatchTheRegistry'
  <2>1. ASSUME NEW u \in Wallet, NEW f \in DOMAIN liquidations[u]
        PROVE  w2[u][f] = liquidations[u][f]
    <3>1. liquidations[u] \in R!LiquidationRecord
      BY DEF BooksInv, BooksTyped
    <3>2. f \in {"lastLiquidatedAt", "liquidationCount", "shortfallCount", "totalShortfall"}
      BY <3>1 DEF R!LiquidationRecord
    <3>3. w2[u][f] = wallets[u][f]
      BY <1>5, <3>2
    <3> QED BY <3>3 DEF BooksInv, WalletsMatchTheRegistry
  <2>2. ASSUME NEW u \in Wallet
        PROVE  /\ w2[u].attestationCount = nonces'[u]
               /\ w2[u].latestScore = scores'[u].score
               /\ w2[u].latestScoreIssuedAt = scores'[u].issuedAt
               /\ w2[u].latestScoreExpiresAt = scores'[u].expiresAt
               /\ w2[u].liquidationCount = wallets[u].liquidationCount
               /\ w2[u].totalShortfall = wallets[u].totalShortfall
    <3>1. CASE u = v
      BY <1>1, <1>2, <1>4, <1>5, <1>8, <3>1 DEF BooksInv, WalletsMatchTheRegistry
    <3>2. CASE u # v
      BY <1>1, <1>2, <1>4, <1>5, <3>2 DEF BooksInv, WalletsMatchTheRegistry
    <3> QED BY <3>1, <3>2
  <2>3. t2.liquidationCount = totals.liquidationCount
    BY <1>7 DEF TotalsField
  <2> QED BY <1>2, <1>3, <2>1, <2>2, <2>3, SettledSame DEF BooksInv, WalletsMatchTheRegistry
<1> QED BY <1>9, <1>10, <1>11 DEF BooksInv

----------------------------------------------------------------------------
(* The logs of a liquidation.                                                 *)

AccrualField == {"interestAccrued", "toReserves", "lastBorrowIndex"}

\* The totals with the interest of this block booked.
Booked(t) ==
    /\ t \in [TotalsField -> Int]
    /\ t.toReserves = totals.toReserves + (M!Reserves - reserves)
    /\ t.lastBorrowIndex <= M!Index
    /\ \A f \in TotalsField \ AccrualField : t[f] = totals[f]

\* Three fields of a record at once.
LEMMA ThreeFieldsType ==
    ASSUME NEW F, NEW t \in [F -> Int], NEW a \in F, NEW b \in F, NEW c \in F,
           NEW x \in Int, NEW y \in Int, NEW z \in Int
    PROVE  [t EXCEPT ![a] = x, ![b] = y, ![c] = z] \in [F -> Int]
<1> DEFINE t1 == [t EXCEPT ![a] = x]
           t2 == [t1 EXCEPT ![b] = y]
<1>1. t1 \in [F -> Int]
  OBVIOUS
<1>2. t2 \in [F -> Int]
  <2> HIDE DEF t1
  <2> QED BY <1>1
<1>3. [t2 EXCEPT ![c] = z] \in [F -> Int]
  <2> HIDE DEF t2
  <2> QED BY <1>2
<1> QED BY <1>3

\* _accrue: what it logs is what the reserves gain, and nothing if they gain nothing.
LEMMA AccrualEmitted ==
    ASSUME BooksInv, M!TypeOK, M!AmountsOK
    PROVE  \E t : Booked(t) /\ Emitted(Accrued, 1, wallets, t, settled, NoRow)
<1> DEFINE index == M!Index
           interest == M!Interest
           res == M!Reserves
<1>1. /\ index \in Nat /\ index >= borrowIndex /\ interest \in Nat /\ res \in Nat
      /\ borrowIndex \in Nat /\ reserves \in Nat
  BY DEF M!AmountsOK, M!TypeOK
<1>2. totals \in [TotalsField -> Int] /\ halted = FALSE /\ totals.lastBorrowIndex <= borrowIndex
  BY DEF BooksInv, BooksTyped, TotalsMatchTheMarket
<1>3. \A f \in TotalsField : totals[f] \in Int
  BY <1>2
<1>4. CASE interest = 0
  <2>1. res = reserves
    <3>1. M!MulDiv(0, M!RESERVE_FACTOR_BPS, M!BPS) = 0
      BY DEF M!MulDiv, M!BPS, M!RESERVE_FACTOR_BPS
    <3>2. res = reserves + M!MulDiv(interest, M!RESERVE_FACTOR_BPS, M!BPS)
      BY DEF M!Reserves
    <3>3. res = reserves + M!MulDiv(0, M!RESERVE_FACTOR_BPS, M!BPS)
      BY <1>4, <3>2
    <3> HIDE DEF res
    <3> QED BY <1>1, <3>1, <3>3
  <2>2. Accrued = <<>>
    BY <1>4 DEF Accrued
  <2>3. Emitted(<<>>, 0, wallets, totals, settled, NoRow)
    BY <1>2, NothingEmitted
  <2>4. Emitted(Accrued, 1, wallets, totals, settled, NoRow)
    BY <2>2, <2>3 DEF Emitted
  <2> HIDE DEF index, interest, res
  <2>5. totals.toReserves = totals.toReserves + (res - reserves) /\ totals.lastBorrowIndex <= index
    BY <1>1, <1>2, <1>3, <2>1 DEF TotalsField
  <2> QED BY <1>2, <2>4, <2>5 DEF Booked, index, res
<1>5. CASE interest # 0
  <2> DEFINE e == [kind |-> "INTEREST", borrowIndex |-> index, interest |-> interest,
                   toReserves |-> res - reserves]
             t == [totals EXCEPT !.interestAccrued = @ + interest,
                                 !.toReserves = @ + (res - reserves),
                                 !.lastBorrowIndex = index]
  <2>1. Accrued = <<e>>
    BY <1>5 DEF Accrued
  <2>2. /\ e.kind = "INTEREST" /\ e.borrowIndex = index /\ e.interest = interest
        /\ e.toReserves = res - reserves
    OBVIOUS
  <2> HIDE DEF index, interest, res, e
  <2>3. ASSUME NEW db, Leaves(db, wallets, totals, settled, NoRow)
        PROVE  Leaves(Handle(db, e), wallets, t, settled, NoRow)
    <3>1. IsDb(db) /\ db.wallets = wallets /\ db.totals = totals /\ db.settled = settled
      BY <2>3 DEF Leaves
    <3> QED BY <2>2, <3>1, InterestHandled
  <2>4. t \in [TotalsField -> Int]
    <3>1. totals.interestAccrued + interest \in Int /\ totals.toReserves + (res - reserves) \in Int /\ index \in Int
      BY <1>1, <1>3 DEF TotalsField
    <3>2. "interestAccrued" \in TotalsField /\ "toReserves" \in TotalsField /\ "lastBorrowIndex" \in TotalsField
      BY DEF TotalsField
    <3> QED BY <1>2, <3>1, <3>2, ThreeFieldsType
  <2>5. /\ t.toReserves = totals.toReserves + (res - reserves) /\ t.lastBorrowIndex = index
        /\ \A f \in TotalsField \ AccrualField : t[f] = totals[f]
    BY <1>2 DEF TotalsField, AccrualField
  <2> HIDE DEF t
  <2>6. Emitted(<<e>>, 1, wallets, t, settled, NoRow)
    BY <1>2, <2>3, OneEmitted
  <2>7. t.lastBorrowIndex <= index
    BY <1>1, <2>5
  <2> QED BY <2>1, <2>4, <2>5, <2>6, <2>7 DEF Booked, index, res
<1> QED BY <1>4, <1>5

\* The totals with a loss of f booked, as the log of it splits it.
LossBooked(t, t2, f) ==
    /\ t2 \in [TotalsField -> Int]
    /\ t2.badDebt = t.badDebt + f
    /\ t2.badDebtFromReserves = t.badDebtFromReserves + M!FromReserves(f)
    /\ t2.badDebtSocialized = t.badDebtSocialized + M!Socialized(f)
    /\ \A a \in TotalsField \ {"badDebt", "badDebtFromReserves", "badDebtSocialized"} : t2[a] = t[a]

\* The row that the join looks up is there if there was a loss.
LossRow(row, w, f) ==
    f > 0 => /\ row.kind = "BAD_DEBT" /\ row.wallet = w
             /\ row.fromReserves = M!FromReserves(f) /\ row.socialized = M!Socialized(f)

\* How a loss is split: all of it, between the reserves and the lenders.
LEMMA LossSplit ==
    ASSUME NEW f \in Nat, M!Reserves \in Nat
    PROVE  /\ M!FromReserves(f) \in Nat /\ M!Socialized(f) \in Nat
           /\ M!FromReserves(f) + M!Socialized(f) = f
BY DEF M!FromReserves, M!Socialized, M!Lesser

\* _realizeBadDebt, which logs just before Liquidated does.
LEMMA BadDebtEmitted ==
    ASSUME NEW logs, NEW t, t \in [TotalsField -> Int], Emitted(logs, 1, wallets, t, settled, NoRow),
           NEW w, NEW f \in Nat, M!Reserves \in Nat
    PROVE  \E t2, row : /\ LossBooked(t, t2, f) /\ LossRow(row, w, f)
                        /\ Emitted(logs \o BadDebt(w, f), 2, wallets, t2, settled, row)
<1> DEFINE fr == M!FromReserves(f)
           so == M!Socialized(f)
<1>1. fr \in Nat /\ so \in Nat /\ fr + so = f
  BY LossSplit
<1>2. \A a \in TotalsField : t[a] \in Int
  OBVIOUS
<1> HIDE DEF fr, so
<1>3. CASE f = 0
  <2>1. BadDebt(w, f) = <<>>
    BY <1>3 DEF BadDebt
  <2>2. fr = 0 /\ so = 0
    BY <1>1, <1>3
  <2>3. Emitted(logs \o BadDebt(w, f), 1 + 1, wallets, t, settled, NoRow)
    <3> DEFINE none == BadDebt(w, f)
    <3>1. Emitted(logs \o <<>>, 1 + 1, wallets, t, settled, NoRow)
      BY NoMoreEmitted
    <3> QED BY <2>1, <3>1
  <2>4. LossBooked(t, t, f)
    <3>1. /\ t.badDebt = t.badDebt + f
          /\ t.badDebtFromReserves = t.badDebtFromReserves + fr
          /\ t.badDebtSocialized = t.badDebtSocialized + so
      BY <1>2, <1>3, <2>2 DEF TotalsField
    <3> QED BY <3>1 DEF LossBooked, fr, so
  <2>5. LossRow(NoRow, w, f)
    BY <1>3 DEF LossRow
  <2> QED BY <2>3, <2>4, <2>5
<1>4. CASE f # 0
  <2> DEFINE e == [kind |-> "BAD_DEBT", wallet |-> w, amount |-> f,
                   fromReserves |-> fr, socialized |-> so]
             t2 == [t EXCEPT !.badDebt = @ + f, !.badDebtFromReserves = @ + fr,
                             !.badDebtSocialized = @ + so]
  <2>1. BadDebt(w, f) = <<e>>
    BY <1>4 DEF BadDebt, fr, so
  <2>2. /\ e.kind = "BAD_DEBT" /\ e.wallet = w /\ e.amount = f /\ e.fromReserves = fr
        /\ e.socialized = so
    OBVIOUS
  <2> HIDE DEF e
  <2>3. ASSUME NEW db, Leaves(db, wallets, t, settled, NoRow)
        PROVE  Leaves(Handle(db, e), wallets, t2, settled, e)
    <3>1. IsDb(db) /\ db.wallets = wallets /\ db.totals = t /\ db.settled = settled
      BY <2>3 DEF Leaves
    <3> QED BY <2>2, <3>1, BadDebtHandled
  <2>4. t2 \in [TotalsField -> Int]
    <3>1. t.badDebt + f \in Int /\ t.badDebtFromReserves + fr \in Int /\ t.badDebtSocialized + so \in Int
      BY <1>1, <1>2 DEF TotalsField
    <3>2. "badDebt" \in TotalsField /\ "badDebtFromReserves" \in TotalsField /\ "badDebtSocialized" \in TotalsField
      BY DEF TotalsField
    <3> QED BY <3>1, <3>2, ThreeFieldsType
  <2>5. /\ t2.badDebt = t.badDebt + f
        /\ t2.badDebtFromReserves = t.badDebtFromReserves + fr
        /\ t2.badDebtSocialized = t.badDebtSocialized + so
        /\ \A a \in TotalsField \ {"badDebt", "badDebtFromReserves", "badDebtSocialized"} : t2[a] = t[a]
    BY DEF TotalsField
  <2> HIDE DEF t2
  <2>6. Emitted(logs \o <<e>>, 1 + 1, wallets, t2, settled, e)
    BY <2>3, OneMoreEmitted
  <2>7. LossBooked(t, t2, f) /\ LossRow(e, w, f)
    BY <2>2, <2>4, <2>5 DEF LossBooked, LossRow, fr, so
  <2> QED BY <2>1, <2>6, <2>7
<1> QED BY <1>3, <1>4

\* The row of a liquidation of w that repaid p, seized z and left f.
SettledAs(w, p, z, f) ==
    [wallet |-> w, repaid |-> p, seized |-> z, shortfall |-> f,
     fromReserves |-> M!FromReserves(f), socialized |-> M!Socialized(f)]

SettledTotals(t, f) ==
    [t EXCEPT !.liquidationCount = @ + 1,
              !.liquidationsWithShortfall = @ + (IF f > 0 THEN 1 ELSE 0)]

\* The join finds the row it looks for: the settlement's split is the market's.
LEMMA SettlementEmitted ==
    ASSUME NEW logs, NEW t, NEW row, Emitted(logs, 2, wallets, t, settled, row),
           NEW w, NEW p, NEW z, NEW f \in Nat, M!Reserves \in Nat, LossRow(row, w, f)
    PROVE  \E e : Emitted(logs \o <<[kind |-> "LIQUIDATED", wallet |-> w, amount |-> p,
                                     seized |-> z, shortfall |-> f]>>, 3,
                          wallets, SettledTotals(t, f), Append(settled, SettledAs(w, p, z, f)), e)
<1> DEFINE e == [kind |-> "LIQUIDATED", wallet |-> w, amount |-> p, seized |-> z, shortfall |-> f]
<1>1. /\ e.kind = "LIQUIDATED" /\ e.wallet = w /\ e.amount = p /\ e.seized = z /\ e.shortfall = f
  OBVIOUS
<1> HIDE DEF e
<1>2. ASSUME NEW db, Leaves(db, wallets, t, settled, row)
      PROVE  Leaves(Handle(db, e), wallets, SettledTotals(t, f),
                    Append(settled, SettledAs(w, p, z, f)), e)
  <2>1. IsDb(db) /\ db.wallets = wallets /\ db.totals = t /\ db.settled = settled /\ db.row = row
    BY <1>2 DEF Leaves
  <2>2. Joined(db, e)
    BY <1>1, <2>1 DEF Joined, LossRow
  <2>3. Settlement(db, e) = SettledAs(w, p, z, f)
    <3>1. CASE f > 0
      BY <1>1, <2>1, <3>1 DEF Settlement, SettledAs, LossRow
    <3>2. CASE ~(f > 0)
      <4>1. M!FromReserves(f) = 0 /\ M!Socialized(f) = 0
        BY <3>2, LossSplit
      <4> QED BY <1>1, <3>2, <4>1 DEF Settlement, SettledAs
    <3> QED BY <3>1, <3>2
  <2>4. Leaves(Handle(db, e), db.wallets,
               [db.totals EXCEPT !.liquidationCount = @ + 1,
                                 !.liquidationsWithShortfall =
                                     @ + (IF e.shortfall > 0 THEN 1 ELSE 0)],
               Append(db.settled, Settlement(db, e)), e)
    BY <1>1, <2>1, <2>2, LiquidatedHandled
  <2> QED BY <1>1, <2>1, <2>3, <2>4 DEF SettledTotals
<1>3. Emitted(logs \o <<e>>, 2 + 1, wallets, SettledTotals(t, f),
              Append(settled, SettledAs(w, p, z, f)), e)
  BY <1>2, OneMoreEmitted
<1> QED BY <1>3 DEF e

\* The wallet's row with its record.
RecordedWallets(ws, w, r) ==
    [ws EXCEPT ![w].liquidationCount = r.liquidationCount,
               ![w].shortfallCount = r.shortfallCount,
               ![w].totalShortfall = r.totalShortfall,
               ![w].lastLiquidatedAt = r.lastLiquidatedAt]

\* The registry's log overwrites the counts of the wallet's row
LEMMA RecordEmitted ==
    ASSUME NEW logs, NEW t, NEW s, NEW row, Emitted(logs, 3, wallets, t, s, row), NEW w, NEW r
    PROVE  \E e : Emitted(logs \o <<[kind |-> "LIQUIDATION_RECORDED", wallet |-> w, record |-> r]>>,
                          4, RecordedWallets(wallets, w, r), t, s, e)
<1> DEFINE e == [kind |-> "LIQUIDATION_RECORDED", wallet |-> w, record |-> r]
<1>1. e.kind = "LIQUIDATION_RECORDED" /\ e.wallet = w /\ e.record = r
  OBVIOUS
<1> HIDE DEF e
<1>2. ASSUME NEW db, Leaves(db, wallets, t, s, row)
      PROVE  Leaves(Handle(db, e), RecordedWallets(wallets, w, r), t, s, e)
  <2>1. IsDb(db) /\ db.wallets = wallets /\ db.totals = t /\ db.settled = s
    BY <1>2 DEF Leaves
  <2> QED BY <1>1, <2>1, RecordedHandled DEF RecordedWallets
<1>3. Emitted(logs \o <<e>>, 3 + 1, RecordedWallets(wallets, w, r), t, s, e)
  BY <1>2, OneMoreEmitted
<1> QED BY <1>3 DEF e

\* with those of the record.
LEMMA RecordedRow ==
    ASSUME NEW ws \in [Wallet -> [WalletField -> Int]], NEW w \in Wallet, NEW r \in R!LiquidationRecord
    PROVE  /\ RecordedWallets(ws, w, r) \in [Wallet -> [WalletField -> Int]]
           /\ \A u \in Wallet : u # w => RecordedWallets(ws, w, r)[u] = ws[u]
           /\ \A f \in DOMAIN r : RecordedWallets(ws, w, r)[w][f] = r[f]
           /\ \A f \in WalletField \ DOMAIN r : RecordedWallets(ws, w, r)[w][f] = ws[w][f]
<1> DEFINE y == ws[w]
           y1 == [y EXCEPT !.liquidationCount = r.liquidationCount]
           y2 == [y1 EXCEPT !.shortfallCount = r.shortfallCount]
           y3 == [y2 EXCEPT !.totalShortfall = r.totalShortfall]
           y4 == [y3 EXCEPT !.lastLiquidatedAt = r.lastLiquidatedAt]
<1>1. /\ r.liquidationCount \in Int /\ r.shortfallCount \in Int /\ r.totalShortfall \in Int
      /\ r.lastLiquidatedAt \in Int
      /\ DOMAIN r = {"liquidationCount", "shortfallCount", "totalShortfall", "lastLiquidatedAt"}
  BY DEF R!LiquidationRecord
<1>2. RecordedWallets(ws, w, r) = [ws EXCEPT ![w] = y4]
  BY DEF RecordedWallets
<1>3. y \in [WalletField -> Int]
  OBVIOUS
<1> HIDE DEF y
<1>4. /\ y1 \in [WalletField -> Int] /\ y1.liquidationCount = r.liquidationCount
      /\ \A f \in WalletField \ {"liquidationCount"} : y1[f] = y[f]
  BY <1>1, <1>3 DEF WalletField
<1> HIDE DEF y1
<1>5. /\ y2 \in [WalletField -> Int] /\ y2.shortfallCount = r.shortfallCount
      /\ \A f \in WalletField \ {"shortfallCount"} : y2[f] = y1[f]
  BY <1>1, <1>4 DEF WalletField
<1> HIDE DEF y2
<1>6. /\ y3 \in [WalletField -> Int] /\ y3.totalShortfall = r.totalShortfall
      /\ \A f \in WalletField \ {"totalShortfall"} : y3[f] = y2[f]
  BY <1>1, <1>5 DEF WalletField
<1> HIDE DEF y3
<1>7. /\ y4 \in [WalletField -> Int] /\ y4.lastLiquidatedAt = r.lastLiquidatedAt
      /\ \A f \in WalletField \ {"lastLiquidatedAt"} : y4[f] = y3[f]
  BY <1>1, <1>6 DEF WalletField
<1> HIDE DEF y4
<1>8. \A f \in DOMAIN r : y4[f] = r[f]
  BY <1>1, <1>4, <1>5, <1>6, <1>7 DEF WalletField
<1>9. \A f \in WalletField \ DOMAIN r : y4[f] = y[f]
  BY <1>1, <1>4, <1>5, <1>6, <1>7
<1> QED BY <1>2, <1>7, <1>8, <1>9 DEF y

----------------------------------------------------------------------------
(* A liquidation settled.                                                     *)

SameTerms(f, g, S) == \A y \in S : f[y] \in Nat /\ g[y] = f[y]

\* One term more.
LEMMA SumOneMore ==
    ASSUME NEW S, IsFiniteSet(S), NEW f, NEW g, NEW n, n \notin S,
           SameTerms(f, g, S), g[n] \in Nat
    PROVE  SumFunctionOnSet(g, S \cup {n}) = SumFunctionOnSet(f, S) + g[n]
<1> DEFINE T == S \cup {n}
<1>1. IsFiniteSet(T) /\ n \in T /\ T \ {n} = S /\ \A y \in T : g[y] \in Nat
  BY FS_AddElement DEF SameTerms
<1> HIDE DEF T
<1>2. SumFunctionOnSet(g, T) = g[n] + SumFunctionOnSet(g, T \ {n})
  BY <1>1, SumAdd
<1>3. SumFunctionOnSet(g, S) = SumFunctionOnSet(f, S)
  BY SumSame DEF SameTerms
<1>4. SumFunctionOnSet(f, S) \in Nat
  BY SumType DEF SameTerms
<1> QED BY <1>1, <1>2, <1>3, <1>4 DEF T

\* The same of what the liquidations repaid,
LEMMA RepaidOneMore ==
    ASSUME NEW S, NEW n, IsFiniteSet(S), n \notin S, SameTerms(repaidBy, repaidBy', S), repaidBy'[n] \in Nat
    PROVE  SumFunctionOnSet(repaidBy', S \cup {n}) = SumFunctionOnSet(repaidBy, S) + repaidBy'[n]
<1> DEFINE f == repaidBy
           g == repaidBy'
<1>1. SameTerms(f, g, S) /\ g[n] \in Nat
  OBVIOUS
<1> HIDE DEF f, g
<1>2. SumFunctionOnSet(g, S \cup {n}) = SumFunctionOnSet(f, S) + g[n]
  BY <1>1, SumOneMore
<1> QED BY <1>2 DEF f, g

\* and of what they left unpaid.
LEMMA UnpaidOneMore ==
    ASSUME NEW S, NEW n, IsFiniteSet(S), n \notin S, SameTerms(unpaidBy, unpaidBy', S), unpaidBy'[n] \in Nat
    PROVE  SumFunctionOnSet(unpaidBy', S \cup {n}) = SumFunctionOnSet(unpaidBy, S) + unpaidBy'[n]
<1> DEFINE f == unpaidBy
           g == unpaidBy'
<1>1. SameTerms(f, g, S) /\ g[n] \in Nat
  OBVIOUS
<1> HIDE DEF f, g
<1>2. SumFunctionOnSet(g, S \cup {n}) = SumFunctionOnSet(f, S) + g[n]
  BY <1>1, SumOneMore
<1> QED BY <1>2 DEF f, g

\* A liquidation more among those settled.
LEMMA SettledOneMore ==
    ASSUME BooksTyped, NEW v \in SettlementRow, settled' = Append(settled, v)
    PROVE  /\ settled' \in Seq(SettlementRow) /\ Len(settled') = Len(settled) + 1
           /\ SumFunctionOnSet(repaidBy', Settlements') = SumFunctionOnSet(repaidBy, Settlements) + v.repaid
           /\ \A w \in Wallet : w # v.wallet =>
                /\ Cardinality(SettledOf(w)') = Cardinality(SettledOf(w))
                /\ SumFunctionOnSet(unpaidBy', SettledOf(w)') = SumFunctionOnSet(unpaidBy, SettledOf(w))
           /\ Cardinality(SettledOf(v.wallet)') = Cardinality(SettledOf(v.wallet)) + 1
           /\ SumFunctionOnSet(unpaidBy', SettledOf(v.wallet)')
                = SumFunctionOnSet(unpaidBy, SettledOf(v.wallet)) + v.fromReserves + v.socialized
<1>0. PICK n, D : n = Len(settled) + 1 /\ D = Settlements
  OBVIOUS
<1>1. /\ settled \in Seq(SettlementRow) /\ Len(settled) \in Nat /\ D = 1 .. Len(settled)
  BY <1>0 DEF BooksTyped, Settlements
<1>2. /\ settled' \in Seq(SettlementRow) /\ Len(settled') = n
      /\ DOMAIN settled' = 1 .. n /\ settled'[n] = v
      /\ \A i \in D : settled'[i] = settled[i]
  BY <1>0, <1>1
<1>3. /\ v.wallet \in Wallet /\ v.repaid \in Nat /\ v.fromReserves \in Nat /\ v.socialized \in Nat
      /\ \A i \in D : /\ settled[i].wallet \in Wallet /\ settled[i].repaid \in Nat
                      /\ settled[i].fromReserves \in Nat /\ settled[i].socialized \in Nat
  <2>1. \A i \in D : settled[i] \in SettlementRow
    BY <1>1
  <2> QED BY <2>1 DEF SettlementRow
<1>4. n \notin D /\ Settlements' = D \cup {n} /\ IsFiniteSet(D)
  <2>1. n \notin D
    BY <1>0, <1>1
  <2>2. Settlements' = 1 .. n
    BY <1>2 DEF Settlements
  <2>3. 1 .. n = D \cup {n}
    BY <1>0, <1>1
  <2>4. 1 \in Int /\ Len(settled) \in Int
    BY <1>1
  <2>5. IsFiniteSet(1 .. Len(settled))
    BY <2>4, FS_Interval
  <2> QED BY <1>1, <2>1, <2>2, <2>3, <2>5
<1>5. /\ repaidBy'[n] = v.repaid /\ unpaidBy'[n] = v.fromReserves + v.socialized
      /\ \A i \in D : /\ repaidBy[i] \in Nat /\ repaidBy'[i] = repaidBy[i]
                      /\ unpaidBy[i] \in Nat /\ unpaidBy'[i] = unpaidBy[i]
  <2>1. /\ repaidBy' = [i \in D \cup {n} |-> settled'[i].repaid]
        /\ unpaidBy' = [i \in D \cup {n} |-> settled'[i].fromReserves + settled'[i].socialized]
    BY <1>4 DEF repaidBy, unpaidBy
  <2>2. /\ repaidBy = [i \in D |-> settled[i].repaid]
        /\ unpaidBy = [i \in D |-> settled[i].fromReserves + settled[i].socialized]
    BY <1>0 DEF repaidBy, unpaidBy
  <2>3. repaidBy'[n] = v.repaid /\ unpaidBy'[n] = v.fromReserves + v.socialized
    BY <1>2, <2>1
  <2>4. ASSUME NEW i \in D
        PROVE  /\ repaidBy[i] \in Nat /\ repaidBy'[i] = repaidBy[i]
               /\ unpaidBy[i] \in Nat /\ unpaidBy'[i] = unpaidBy[i]
    <3>1. repaidBy[i] = settled[i].repaid /\ unpaidBy[i] = settled[i].fromReserves + settled[i].socialized
      BY <2>2
    <3>2. repaidBy'[i] = settled'[i].repaid /\ unpaidBy'[i] = settled'[i].fromReserves + settled'[i].socialized
      BY <2>1
    <3>3. settled'[i] = settled[i]
      BY <1>2
    <3> QED BY <1>3, <3>1, <3>2, <3>3
  <2> QED BY <2>3, <2>4
<1>6. SumFunctionOnSet(repaidBy', D \cup {n}) = SumFunctionOnSet(repaidBy, D) + v.repaid
  <2>1. repaidBy'[n] \in Nat /\ SameTerms(repaidBy, repaidBy', D)
    BY <1>3, <1>5 DEF SameTerms
  <2>2. SumFunctionOnSet(repaidBy', D \cup {n}) = SumFunctionOnSet(repaidBy, D) + repaidBy'[n]
    BY <1>4, <2>1, RepaidOneMore
  <2> QED BY <1>5, <2>2
<1>7. /\ \A w \in Wallet : w # v.wallet => SettledOf(w)' = SettledOf(w)
      /\ SettledOf(v.wallet)' = SettledOf(v.wallet) \cup {n}
      /\ \A w \in Wallet : SettledOf(w) \subseteq D
  BY <1>0, <1>2, <1>4 DEF SettledOf
<1>8. ASSUME NEW w \in Wallet, w # v.wallet
      PROVE  /\ Cardinality(SettledOf(w)') = Cardinality(SettledOf(w))
             /\ SumFunctionOnSet(unpaidBy', SettledOf(w)') = SumFunctionOnSet(unpaidBy, SettledOf(w))
  <2> DEFINE S == SettledOf(w)
  <2>1. S \subseteq D /\ IsFiniteSet(S) /\ SettledOf(w)' = S
    BY <1>4, <1>7, <1>8, FS_Subset
  <2> HIDE DEF S
  <2>2. SumFunctionOnSet(unpaidBy, S) = SumFunctionOnSet(unpaidBy', S)
    BY <1>5, <2>1, SumSame
  <2> QED BY <2>1, <2>2 DEF S
<1>9. /\ Cardinality(SettledOf(v.wallet)') = Cardinality(SettledOf(v.wallet)) + 1
      /\ SumFunctionOnSet(unpaidBy', SettledOf(v.wallet)')
           = SumFunctionOnSet(unpaidBy, SettledOf(v.wallet)) + v.fromReserves + v.socialized
  <2> DEFINE S == SettledOf(v.wallet)
  <2>1. S \subseteq D /\ IsFiniteSet(S) /\ n \notin S /\ SettledOf(v.wallet)' = S \cup {n}
    BY <1>3, <1>4, <1>7, FS_Subset
  <2> HIDE DEF S
  <2>2. Cardinality(S \cup {n}) = Cardinality(S) + 1
    BY <2>1, FS_AddElement
  <2>3. SumFunctionOnSet(unpaidBy', S \cup {n}) = SumFunctionOnSet(unpaidBy, S) + (v.fromReserves + v.socialized)
    <3>1. unpaidBy'[n] \in Nat /\ SameTerms(unpaidBy, unpaidBy', S)
      BY <1>3, <1>5, <2>1 DEF SameTerms
    <3>2. SumFunctionOnSet(unpaidBy', S \cup {n}) = SumFunctionOnSet(unpaidBy, S) + unpaidBy'[n]
      BY <2>1, <3>1, UnpaidOneMore
    <3> QED BY <1>5, <3>2
  <2>4. SumFunctionOnSet(unpaidBy, S) \in Nat
    BY <1>5, <2>1, SumType
  <2> QED BY <1>3, <2>1, <2>2, <2>3, <2>4 DEF S
<1> QED BY <1>0, <1>2, <1>4, <1>6, <1>8, <1>9

\* What the two contracts keep of a liquidation.
LEMMA LiquidationEffects ==
    ASSUME BooksTyped, M!TypeOK, M!AmountsOK, NEW w \in Wallet, NEW x \in M!RepayInput(w),
           Liquidate(w, x)
    PROVE  /\ M!Repaid(w, x) \in Nat /\ M!Seized(w, x) \in Nat /\ M!Shortfall(w, x) \in Nat
           /\ M!Reserves \in Nat
           /\ UNCHANGED <<nonces, scores>>
           /\ liquidations' \in [Wallet -> R!LiquidationRecord]
           /\ \A u \in Wallet : u # w => liquidations'[u] = liquidations[u]
           /\ liquidations'[w].liquidationCount = liquidations[w].liquidationCount + 1
           /\ liquidations'[w].totalShortfall = liquidations[w].totalShortfall + M!Shortfall(w, x)
           /\ cash' = cash + M!Repaid(w, x) /\ borrowIndex' = M!Index
           /\ reserves' = M!Reserves - M!FromReserves(M!Shortfall(w, x))
           /\ totalBadDebt' = totalBadDebt + M!Shortfall(w, x)
           /\ totalReserveDrawn' = totalReserveDrawn + M!FromReserves(M!Shortfall(w, x))
           /\ totalSocializedLoss' = totalSocializedLoss + M!Socialized(M!Shortfall(w, x))
<1>1. /\ M!CanLiquidate(w, x) /\ R!RecordLiquidation(TheMarket, w, M!Shortfall(w, x))
      /\ M!Liquidate(w, x)
  BY DEF Liquidate, Record
<1>2. /\ M!Repaid(w, x) \in Nat /\ M!Seized(w, x) \in Nat /\ M!Shortfall(w, x) \in Nat
      /\ M!Reserves \in Nat
  BY <1>1 DEF M!AmountsOK
<1>3. /\ cash' = cash + M!Repaid(w, x) /\ borrowIndex' = M!Index
      /\ reserves' = M!Reserves - M!FromReserves(M!Shortfall(w, x))
      /\ totalBadDebt' = totalBadDebt + M!Shortfall(w, x)
      /\ totalReserveDrawn' = totalReserveDrawn + M!FromReserves(M!Shortfall(w, x))
      /\ totalSocializedLoss' = totalSocializedLoss + M!Socialized(M!Shortfall(w, x))
  BY <1>1, Zenon DEF M!Liquidate, M!StoreIndex
<1> DEFINE s == M!Shortfall(w, x)
           l == liquidations[w]
           r == [lastLiquidatedAt |-> now, liquidationCount |-> l.liquidationCount + 1,
                 shortfallCount |-> l.shortfallCount + (IF s > 0 THEN 1 ELSE 0),
                 totalShortfall |-> l.totalShortfall + s]
<1>4. UNCHANGED <<nonces, scores>> /\ liquidations' = [liquidations EXCEPT ![w] = r]
  BY <1>1 DEF R!RecordLiquidation, R!WithShortfall
<1>5. now \in Nat /\ l \in R!LiquidationRecord /\ s \in Nat /\ liquidations \in [Wallet -> R!LiquidationRecord]
  BY <1>2 DEF M!TypeOK, BooksTyped
<1> HIDE DEF s, l
<1>6. r \in R!LiquidationRecord /\ r.liquidationCount = l.liquidationCount + 1
      /\ r.totalShortfall = l.totalShortfall + s
  BY <1>5 DEF R!LiquidationRecord
<1> HIDE DEF r
<1>7. /\ liquidations' \in [Wallet -> R!LiquidationRecord] /\ liquidations'[w] = r
      /\ \A u \in Wallet : u # w => liquidations'[u] = liquidations[u]
  BY <1>4, <1>5, <1>6
<1> QED BY <1>2, <1>3, <1>4, <1>6, <1>7 DEF s, l

\* Its four logs, handled.
LEMMA LiquidationEmitted ==
    ASSUME BooksInv, M!TypeOK, M!AmountsOK, NEW w \in Wallet, NEW x,
           M!Shortfall(w, x) \in Nat, Emit(LiquidationLogs(w, x))
    PROVE  \E t, t2 :
             /\ Booked(t) /\ LossBooked(t, t2, M!Shortfall(w, x))
             /\ wallets' = RecordedWallets(wallets, w, liquidations'[w])
             /\ totals' = SettledTotals(t2, M!Shortfall(w, x))
             /\ settled' = Append(settled, SettledAs(w, M!Repaid(w, x), M!Seized(w, x),
                                                     M!Shortfall(w, x)))
             /\ halted' = FALSE
<1> DEFINE p == M!Repaid(w, x)
           z == M!Seized(w, x)
           f == M!Shortfall(w, x)
           r == liquidations'[w]
           three == Accrued \o BadDebt(w, f)
                      \o <<[kind |-> "LIQUIDATED", wallet |-> w, amount |-> p,
                            seized |-> z, shortfall |-> f]>>
           all == three \o <<[kind |-> "LIQUIDATION_RECORDED", wallet |-> w, record |-> r]>>
<1>1. f \in Nat /\ M!Reserves \in Nat
  BY DEF M!AmountsOK
<1>2. Emit(all)
  BY DEF LiquidationLogs, Liquidated, Recorded
<1> HIDE DEF p, z, f, r
<1>3. PICK t : Booked(t) /\ Emitted(Accrued, 1, wallets, t, settled, NoRow)
  BY AccrualEmitted
<1>4. t \in [TotalsField -> Int]
  BY <1>3 DEF Booked
<1>5. PICK t2, row : /\ LossBooked(t, t2, f) /\ LossRow(row, w, f)
                     /\ Emitted(Accrued \o BadDebt(w, f), 2, wallets, t2, settled, row)
  BY <1>1, <1>3, <1>4, BadDebtEmitted
<1> DEFINE t3 == SettledTotals(t2, f)
           s3 == Append(settled, SettledAs(w, p, z, f))
           w4 == RecordedWallets(wallets, w, r)
<1>6. PICK e : Emitted(three, 3, wallets, t3, s3, e)
  BY <1>1, <1>5, SettlementEmitted
<1> HIDE DEF three, t3, s3, w4
<1>7. PICK e2 : Emitted(all, 4, w4, t3, s3, e2)
  BY <1>6, RecordEmitted DEF w4
<1> HIDE DEF all
<1>8. wallets' = w4 /\ totals' = t3 /\ settled' = s3 /\ halted' = FALSE
  BY <1>2, <1>7, EmitIs
<1> QED BY <1>3, <1>5, <1>8 DEF p, z, f, r, t3, s3, w4

\* The totals after a liquidation, field by field.
LEMMA SettledTotalsFields ==
    ASSUME NEW t \in [TotalsField -> Int], NEW f \in Nat
    PROVE  /\ SettledTotals(t, f) \in [TotalsField -> Int]
           /\ SettledTotals(t, f).liquidationCount = t.liquidationCount + 1
           /\ \A a \in TotalsField \ {"liquidationCount", "liquidationsWithShortfall"} :
                SettledTotals(t, f)[a] = t[a]
<1> DEFINE t1 == [t EXCEPT !.liquidationCount = @ + 1]
           k == IF f > 0 THEN 1 ELSE 0
           t2 == [t1 EXCEPT !.liquidationsWithShortfall = @ + k]
<1>1. /\ t1 \in [TotalsField -> Int] /\ t1.liquidationCount = t.liquidationCount + 1
      /\ \A a \in TotalsField \ {"liquidationCount"} : t1[a] = t[a]
  BY DEF TotalsField
<1>2. SettledTotals(t, f) = t2 /\ k \in Int
  BY DEF SettledTotals
<1> HIDE DEF t1, k
<1>3. /\ t2 \in [TotalsField -> Int]
      /\ \A a \in TotalsField \ {"liquidationsWithShortfall"} : t2[a] = t1[a]
  BY <1>1, <1>2 DEF TotalsField
<1> HIDE DEF t2
<1> QED BY <1>1, <1>2, <1>3 DEF TotalsField

\* A liquidation keeps the books: what it repaid is in the pool, what it left unpaid is
\* booked as the log of it splits it, and the wallet's row is the record.
LEMMA LiquidationKeeps ==
    ASSUME BooksInv, M!TypeOK, M!TypeOK', M!AmountsOK, NEW w \in Wallet,
           NEW x \in M!RepayInput(w), Liquidate(w, x), Emit(LiquidationLogs(w, x))
    PROVE  BooksInv'
<1> DEFINE p == M!Repaid(w, x)
           z == M!Seized(w, x)
           f == M!Shortfall(w, x)
           fr == M!FromReserves(f)
           so == M!Socialized(f)
           r == liquidations'[w]
           v == SettledAs(w, p, z, f)
           res == M!Reserves
           index == M!Index
<1>1. BooksTyped /\ TotalsMatchTheMarket /\ WalletsMatchTheRegistry
  BY DEF BooksInv
<1>2. /\ p \in Nat /\ z \in Nat /\ f \in Nat /\ res \in Nat
      /\ UNCHANGED <<nonces, scores>>
      /\ liquidations' \in [Wallet -> R!LiquidationRecord]
      /\ \A u \in Wallet : u # w => liquidations'[u] = liquidations[u]
      /\ r.liquidationCount = liquidations[w].liquidationCount + 1
      /\ r.totalShortfall = liquidations[w].totalShortfall + f
      /\ cash' = cash + p /\ borrowIndex' = index /\ reserves' = res - fr
      /\ totalBadDebt' = totalBadDebt + f
      /\ totalReserveDrawn' = totalReserveDrawn + fr
      /\ totalSocializedLoss' = totalSocializedLoss + so
  BY <1>1, LiquidationEffects
<1>3. fr \in Nat /\ so \in Nat /\ fr + so = f
  BY <1>2, LossSplit
<1>4. PICK t, t2 :
        /\ Booked(t) /\ LossBooked(t, t2, f)
        /\ wallets' = RecordedWallets(wallets, w, r) /\ totals' = SettledTotals(t2, f)
        /\ settled' = Append(settled, v) /\ halted' = FALSE
  BY <1>2, LiquidationEmitted
<1>5. v \in SettlementRow /\ v.wallet = w /\ v.repaid = p /\ v.fromReserves = fr /\ v.socialized = so
  BY <1>2, <1>3 DEF SettledAs, SettlementRow
<1>6. /\ settled' \in Seq(SettlementRow) /\ Len(settled') = Len(settled) + 1
      /\ SumFunctionOnSet(repaidBy', Settlements') = SumFunctionOnSet(repaidBy, Settlements) + p
      /\ \A u \in Wallet : u # w =>
           /\ Cardinality(SettledOf(u)') = Cardinality(SettledOf(u))
           /\ SumFunctionOnSet(unpaidBy', SettledOf(u)') = SumFunctionOnSet(unpaidBy, SettledOf(u))
      /\ Cardinality(SettledOf(w)') = Cardinality(SettledOf(w)) + 1
      /\ SumFunctionOnSet(unpaidBy', SettledOf(w)') = SumFunctionOnSet(unpaidBy, SettledOf(w)) + fr + so
  <2> HIDE DEF p, z, f, fr, so, v
  <2>1. v \in SettlementRow /\ settled' = Append(settled, v)
    BY <1>4, <1>5
  <2> QED BY <1>1, <1>5, <2>1, SettledOneMore
<1>7. /\ t \in [TotalsField -> Int] /\ t.toReserves = totals.toReserves + (res - reserves)
      /\ t.lastBorrowIndex <= index
      /\ \A a \in TotalsField \ AccrualField : t[a] = totals[a]
  BY <1>4 DEF Booked
<1>8. /\ t2 \in [TotalsField -> Int] /\ t2.badDebt = t.badDebt + f
      /\ t2.badDebtFromReserves = t.badDebtFromReserves + fr
      /\ t2.badDebtSocialized = t.badDebtSocialized + so
      /\ \A a \in TotalsField \ {"badDebt", "badDebtFromReserves", "badDebtSocialized"} : t2[a] = t[a]
  BY <1>4 DEF LossBooked
<1> HIDE DEF p, z, f, fr, so, r, v, res, index
<1>9. /\ totals' \in [TotalsField -> Int] /\ totals'.liquidationCount = t2.liquidationCount + 1
      /\ \A a \in TotalsField \ {"liquidationCount", "liquidationsWithShortfall"} : totals'[a] = t2[a]
  BY <1>2, <1>4, <1>8, SettledTotalsFields
<1>10. wallets \in [Wallet -> [WalletField -> Int]] /\ r \in R!LiquidationRecord
  BY <1>1, <1>2 DEF BooksTyped, r
<1>11. /\ wallets' \in [Wallet -> [WalletField -> Int]]
       /\ \A u \in Wallet : u # w => wallets'[u] = wallets[u]
       /\ \A a \in DOMAIN r : wallets'[w][a] = r[a]
       /\ \A a \in WalletField \ DOMAIN r : wallets'[w][a] = wallets[w][a]
  BY <1>4, <1>10, RecordedRow
<1>12. DOMAIN r = {"liquidationCount", "shortfallCount", "totalShortfall", "lastLiquidatedAt"}
  BY <1>10 DEF R!LiquidationRecord
<1>13. BooksTyped'
  BY <1>1, <1>2, <1>4, <1>6, <1>9, <1>11 DEF BooksTyped
<1>14. TotalsMatchTheMarket'
  <2>1. \A a \in TotalsField : totals[a] \in Int /\ t[a] \in Int /\ t2[a] \in Int
    BY <1>1, <1>7, <1>8 DEF BooksTyped
  <2>2. /\ totals'.badDebt = totals.badDebt + f
        /\ totals'.badDebtFromReserves = totals.badDebtFromReserves + fr
        /\ totals'.badDebtSocialized = totals.badDebtSocialized + so
        /\ totals'.toReserves = totals.toReserves + (res - reserves)
        /\ totals'.lastBorrowIndex <= index
        /\ \A a \in {"lenderDeposits", "lenderWithdrawals", "borrowVolume", "repayVolume"} :
             totals'[a] = totals[a]
    BY <1>7, <1>8, <1>9 DEF TotalsField, AccrualField
  <2>3. <<totals'.badDebt, totals'.badDebtFromReserves, totals'.badDebtSocialized>>
          = <<totalBadDebt', totalReserveDrawn', totalSocializedLoss'>>
    BY <1>1, <1>2, <2>2 DEF TotalsMatchTheMarket
  <2>4. totals'.toReserves - totals'.badDebtFromReserves = reserves'
    <3>1. totals.toReserves \in Int /\ totals.badDebtFromReserves \in Int /\ reserves \in Int
      BY <2>1 DEF TotalsField, M!TypeOK
    <3>2. totals.toReserves - totals.badDebtFromReserves = reserves
      BY <1>1 DEF TotalsMatchTheMarket
    <3> QED BY <1>2, <1>3, <2>2, <3>1, <3>2
  <2>5. cash' = totals'.lenderDeposits - totals'.lenderWithdrawals - totals'.borrowVolume
                + totals'.repayVolume + SumFunctionOnSet(repaidBy', Settlements')
    <3> DEFINE sum == SumFunctionOnSet(repaidBy, Settlements)
    <3>1. sum \in Nat
      BY <1>1, RepaidType
    <3>2. cash = totals.lenderDeposits - totals.lenderWithdrawals - totals.borrowVolume
                 + totals.repayVolume + sum
      BY <1>1 DEF TotalsMatchTheMarket
    <3>3. SumFunctionOnSet(repaidBy', Settlements') = sum + p
      BY <1>6
    <3> HIDE DEF sum
    <3>4. /\ totals.lenderDeposits \in Int /\ totals.lenderWithdrawals \in Int
          /\ totals.borrowVolume \in Int /\ totals.repayVolume \in Int
      BY <2>1 DEF TotalsField
    <3> QED BY <1>2, <2>2, <3>1, <3>2, <3>3, <3>4
  <2> QED BY <1>2, <2>2, <2>3, <2>4, <2>5 DEF TotalsMatchTheMarket
<1>15. WalletsMatchTheRegistry'
  <2>1. ASSUME NEW u \in Wallet
        PROVE  /\ wallets'[u].attestationCount = nonces'[u]
               /\ wallets'[u].latestScore = scores'[u].score
               /\ wallets'[u].latestScoreIssuedAt = scores'[u].issuedAt
               /\ wallets'[u].latestScoreExpiresAt = scores'[u].expiresAt
    <3>1. \A a \in {"attestationCount", "latestScore", "latestScoreIssuedAt", "latestScoreExpiresAt"} :
            wallets'[u][a] = wallets[u][a]
      BY <1>11, <1>12 DEF WalletField
    <3> QED BY <1>1, <1>2, <3>1 DEF WalletsMatchTheRegistry
  <2>2. ASSUME NEW u \in Wallet, NEW a \in DOMAIN liquidations'[u]
        PROVE  wallets'[u][a] = liquidations'[u][a]
    <3>1. CASE u = w
      BY <1>11, <2>2, <3>1 DEF r
    <3>2. CASE u # w
      <4>1. liquidations'[u] = liquidations[u] /\ wallets'[u] = wallets[u]
        BY <1>2, <1>11, <3>2
      <4>2. a \in DOMAIN liquidations[u]
        BY <2>2, <4>1
      <4> QED BY <1>1, <4>1, <4>2 DEF WalletsMatchTheRegistry
    <3> QED BY <3>1, <3>2
  <2>3. Len(settled') = totals'.liquidationCount
    <3>1. t2.liquidationCount = totals.liquidationCount
      BY <1>7, <1>8 DEF TotalsField, AccrualField
    <3> QED BY <1>1, <1>6, <1>9, <3>1 DEF WalletsMatchTheRegistry
  <2>4. ASSUME NEW u \in Wallet
        PROVE  /\ Cardinality(SettledOf(u)') = wallets'[u].liquidationCount
               /\ SumFunctionOnSet(unpaidBy', SettledOf(u)') = wallets'[u].totalShortfall
    <3>1. /\ Cardinality(SettledOf(u)) = wallets[u].liquidationCount
          /\ SumFunctionOnSet(unpaidBy, SettledOf(u)) = wallets[u].totalShortfall
      BY <1>1 DEF WalletsMatchTheRegistry
    <3>2. CASE u # w
      BY <1>6, <1>11, <3>1, <3>2
    <3>3. CASE u = w
      <4>1. /\ wallets'[w].liquidationCount = r.liquidationCount
            /\ wallets'[w].totalShortfall = r.totalShortfall
        BY <1>11, <1>12
      <4>2. /\ wallets[w].liquidationCount = liquidations[w].liquidationCount
            /\ wallets[w].totalShortfall = liquidations[w].totalShortfall
        <5>1. liquidations[w] \in R!LiquidationRecord
          BY <1>1 DEF BooksTyped
        <5>2. {"liquidationCount", "totalShortfall"} \subseteq DOMAIN liquidations[w]
          BY <5>1 DEF R!LiquidationRecord
        <5> QED BY <1>1, <5>2 DEF WalletsMatchTheRegistry
      <4>3. wallets[w].totalShortfall \in Int
        BY <1>10 DEF WalletField
      <4>4. Cardinality(SettledOf(w)') = wallets'[w].liquidationCount
        BY <1>2, <1>6, <3>1, <3>3, <4>1, <4>2
      <4>5. r.totalShortfall = wallets[w].totalShortfall + f
        BY <1>2, <4>2
      <4>6. SumFunctionOnSet(unpaidBy', SettledOf(w)') = wallets[w].totalShortfall + fr + so
        BY <1>6, <3>1, <3>3
      <4>7. wallets[w].totalShortfall + fr + so = wallets[w].totalShortfall + f
        BY <1>3, <4>3
      <4> QED BY <3>3, <4>1, <4>4, <4>5, <4>6, <4>7
    <3> QED BY <3>2, <3>3
  <2> QED BY <2>1, <2>2, <2>3, <2>4 DEF WalletsMatchTheRegistry
<1> QED BY <1>13, <1>14, <1>15 DEF BooksInv

----------------------------------------------------------------------------
(* The transactions of the pool.                                              *)

\* What the deposits, withdrawals, loans and repayments are counted in.
PoolField == {"lenderDeposits", "lenderWithdrawals", "borrowVolume", "repayVolume", "borrowCount"}

\* A transaction that accrues, moves cash and settles nothing.
LEMMA AccruedKeeps ==
    ASSUME BooksInv, M!TypeOK, M!TypeOK', M!AmountsOK, NEW t, Booked(t),
           UNCHANGED <<nonces, scores, liquidations, totalBadDebt, totalReserveDrawn,
                       totalSocializedLoss>>,
           reserves' = M!Reserves, borrowIndex' = M!Index,
           settled' = settled, halted' = FALSE,
           wallets' \in [Wallet -> [WalletField -> Int]],
           \A w \in Wallet : \A f \in WalletField \ {"borrowCount"} : wallets'[w][f] = wallets[w][f],
           totals' \in [TotalsField -> Int],
           \A f \in TotalsField \ PoolField : totals'[f] = t[f],
           cash' = cash + (Net(totals') - Net(t))
    PROVE  BooksInv'
<1>1. /\ t \in [TotalsField -> Int] /\ t.toReserves = totals.toReserves + (M!Reserves - reserves)
      /\ t.lastBorrowIndex <= M!Index
      /\ \A f \in TotalsField \ AccrualField : t[f] = totals[f]
  BY DEF Booked
<1>2. \A f \in LossField : totals'[f] = totals[f]
  BY <1>1 DEF TotalsField, LossField, AccrualField, PoolField
<1>3. Net(t) = Net(totals)
  BY <1>1 DEF Net, TotalsField, AccrualField
<1>4. totals'.toReserves = t.toReserves /\ totals'.lastBorrowIndex = t.lastBorrowIndex
  BY DEF TotalsField, PoolField
<1>5. totals'.toReserves = totals.toReserves + (reserves' - reserves)
      /\ totals'.lastBorrowIndex <= borrowIndex'
  BY <1>1, <1>4
<1> QED BY <1>2, <1>3, <1>5, PoolKeeps

\* A transaction of the market's that calls nothing of the registry's.
LEMMA RegistryStays ==
    ASSUME RegistryUntouched PROVE UNCHANGED <<now, nonces, scores, liquidations>>
BY DEF RegistryUntouched, registry

\* One field of the totals moved.
LEMMA FieldMoved ==
    ASSUME NEW t \in [TotalsField -> Int], NEW a \in TotalsField, NEW x \in Int
    PROVE  /\ [t EXCEPT ![a] = @ + x] \in [TotalsField -> Int]
           /\ [t EXCEPT ![a] = @ + x][a] = t[a] + x
           /\ \A f \in TotalsField : f # a => [t EXCEPT ![a] = @ + x][f] = t[f]
OBVIOUS

\* The pool's transactions.  A deposit is in the cash and in the totals.
LEMMA DepositKeeps ==
    ASSUME BooksInv, M!TypeOK, M!TypeOK', M!AmountsOK, NEW l \in Lender, NEW x \in AssetInput,
           Deposit(l, x), Emit(Accrued \o <<[kind |-> "DEPOSIT", amount |-> x]>>)
    PROVE  BooksInv'
<1> DEFINE e == [kind |-> "DEPOSIT", amount |-> x]
<1>1. /\ UNCHANGED <<nonces, scores, liquidations, totalBadDebt, totalReserveDrawn,
                     totalSocializedLoss>>
      /\ reserves' = M!Reserves /\ borrowIndex' = M!Index /\ cash' = cash + x
  <2>1. RegistryUntouched /\ M!Enter(l, x, M!ToShares(x))
    BY DEF Deposit, OfMarket, M!Deposit
  <2>2. /\ UNCHANGED <<totalBadDebt, totalReserveDrawn, totalSocializedLoss>>
        /\ reserves' = M!Reserves /\ borrowIndex' = M!Index /\ cash' = cash + x
    BY <2>1 DEF M!Enter, M!losses, M!Accrue, M!StoreIndex
  <2> QED BY <2>1, <2>2, RegistryStays
<1>2. x \in Int
  BY InputTypes
<1>3. PICK t : Booked(t) /\ Emitted(Accrued, 1, wallets, t, settled, NoRow)
  BY AccrualEmitted
<1> DEFINE t2 == [t EXCEPT !.lenderDeposits = @ + x]
<1>4. ASSUME NEW db, Leaves(db, wallets, t, settled, NoRow)
      PROVE  Leaves(Handle(db, e), wallets, t2, settled, NoRow)
  <2>1. /\ IsDb(db) /\ db.wallets = wallets /\ db.totals = t /\ db.settled = settled
        /\ e.kind = "DEPOSIT" /\ e.amount = x
    BY <1>4 DEF Leaves
  <2> HIDE DEF e
  <2> QED BY <2>1, DepositHandled
<1>5. /\ t2 \in [TotalsField -> Int] /\ t2.lenderDeposits = t.lenderDeposits + x
      /\ \A f \in TotalsField : f # "lenderDeposits" => t2[f] = t[f]
  <2>1. t \in [TotalsField -> Int] /\ "lenderDeposits" \in TotalsField
    BY <1>3 DEF Booked, TotalsField
  <2> QED BY <1>2, <2>1, FieldMoved
<1> HIDE DEF e, t2
<1>6. Emitted(Accrued \o <<e>>, 1 + 1, wallets, t2, settled, NoRow)
  BY <1>3, <1>4, OneMoreEmitted
<1>7. wallets' = wallets /\ totals' = t2 /\ settled' = settled /\ halted' = FALSE
  BY <1>6, EmitIs DEF e
<1>8. cash' = cash + (Net(t2) - Net(t))
  <2>1. \A f \in TotalsField : t[f] \in Int
    BY <1>3 DEF Booked
  <2>2. Net(t2) = Net(t) + x /\ Net(t) \in Int
    BY <1>2, <1>5, <2>1 DEF Net, TotalsField
  <2> QED BY <1>1, <1>2, <2>2
<1>9. wallets' \in [Wallet -> [WalletField -> Int]]
  BY <1>7 DEF BooksInv, BooksTyped
<1>10. \A f \in TotalsField \ PoolField : t2[f] = t[f]
  BY <1>5 DEF PoolField
<1> QED BY <1>1, <1>3, <1>5, <1>7, <1>8, <1>9, <1>10, AccruedKeeps

\* A withdrawal is in neither.
LEMMA WithdrawKeeps ==
    ASSUME BooksInv, M!TypeOK, M!TypeOK', M!AmountsOK, NEW l \in Lender, NEW x \in AssetInput,
           Withdraw(l, x), Emit(Accrued \o <<[kind |-> "WITHDRAW", amount |-> x]>>)
    PROVE  BooksInv'
<1> DEFINE e == [kind |-> "WITHDRAW", amount |-> x]
<1>1. /\ UNCHANGED <<nonces, scores, liquidations, totalBadDebt, totalReserveDrawn,
                     totalSocializedLoss>>
      /\ reserves' = M!Reserves /\ borrowIndex' = M!Index /\ cash' = cash - x
  <2>1. RegistryUntouched /\ M!Leave(l, x, M!ToSharesUp(x))
    BY DEF Withdraw, OfMarket, M!Withdraw
  <2>2. /\ UNCHANGED <<totalBadDebt, totalReserveDrawn, totalSocializedLoss>>
        /\ reserves' = M!Reserves /\ borrowIndex' = M!Index /\ cash' = cash - x
    BY <2>1 DEF M!Leave, M!losses, M!Accrue, M!StoreIndex
  <2> QED BY <2>1, <2>2, RegistryStays
<1>2. x \in Int
  BY InputTypes
<1>3. PICK t : Booked(t) /\ Emitted(Accrued, 1, wallets, t, settled, NoRow)
  BY AccrualEmitted
<1> DEFINE t2 == [t EXCEPT !.lenderWithdrawals = @ + x]
<1>4. ASSUME NEW db, Leaves(db, wallets, t, settled, NoRow)
      PROVE  Leaves(Handle(db, e), wallets, t2, settled, NoRow)
  <2>1. /\ IsDb(db) /\ db.wallets = wallets /\ db.totals = t /\ db.settled = settled
        /\ e.kind = "WITHDRAW" /\ e.amount = x
    BY <1>4 DEF Leaves
  <2> HIDE DEF e
  <2> QED BY <2>1, WithdrawHandled
<1>5. /\ t2 \in [TotalsField -> Int] /\ t2.lenderWithdrawals = t.lenderWithdrawals + x
      /\ \A f \in TotalsField : f # "lenderWithdrawals" => t2[f] = t[f]
  <2>1. t \in [TotalsField -> Int] /\ "lenderWithdrawals" \in TotalsField
    BY <1>3 DEF Booked, TotalsField
  <2> QED BY <1>2, <2>1, FieldMoved
<1> HIDE DEF e, t2
<1>6. Emitted(Accrued \o <<e>>, 1 + 1, wallets, t2, settled, NoRow)
  BY <1>3, <1>4, OneMoreEmitted
<1>7. wallets' = wallets /\ totals' = t2 /\ settled' = settled /\ halted' = FALSE
  BY <1>6, EmitIs DEF e
<1>8. cash' = cash + (Net(t2) - Net(t))
  <2>1. \A f \in TotalsField : t[f] \in Int
    BY <1>3 DEF Booked
  <2>2. Net(t2) = Net(t) - x /\ Net(t) \in Int
    BY <1>2, <1>5, <2>1 DEF Net, TotalsField
  <2>3. cash \in Int
    BY DEF M!TypeOK
  <2> QED BY <1>1, <1>2, <2>2, <2>3
<1>9. wallets' \in [Wallet -> [WalletField -> Int]]
  BY <1>7 DEF BooksInv, BooksTyped
<1>10. \A f \in TotalsField \ PoolField : t2[f] = t[f]
  BY <1>5 DEF PoolField
<1> QED BY <1>1, <1>3, <1>5, <1>7, <1>8, <1>9, <1>10, AccruedKeeps

\* What a repayment pays, and moves of the cash.
LEMMA RepaidOfType ==
    ASSUME M!AmountsOK, NEW w \in Wallet, NEW x \in M!RepayInput(w)
    PROVE  RepaidOf(w, x) \in Nat
<1>1. x \in Nat /\ M!Debt(w) \in Nat
  BY InputTypes DEF M!RepayInput, M!AmountsOK
<1> QED BY <1>1 DEF RepaidOf, M!Lesser

\* A repayment counts what was owed, not what was offered.
LEMMA RepayKeeps ==
    ASSUME BooksInv, M!TypeOK, M!TypeOK', M!AmountsOK, NEW w \in Wallet,
           NEW x \in M!RepayInput(w), Repay(w, x), Emit(Accrued \o Moved("REPAID", w, RepaidOf(w, x)))
    PROVE  BooksInv'
<1> DEFINE p == RepaidOf(w, x)
           e == [kind |-> "REPAID", wallet |-> w, amount |-> p]
<1>1. /\ UNCHANGED <<nonces, scores, liquidations, totalBadDebt, totalReserveDrawn,
                     totalSocializedLoss>>
      /\ reserves' = M!Reserves /\ borrowIndex' = M!Index /\ cash' = cash + p
  <2>1. RegistryUntouched /\ M!Repay(w, x)
    BY DEF Repay, OfMarket
  <2>2. /\ UNCHANGED <<totalBadDebt, totalReserveDrawn, totalSocializedLoss>>
        /\ reserves' = M!Reserves /\ borrowIndex' = M!Index /\ cash' = cash + p
    BY <2>1 DEF M!Repay, M!losses, M!Accrue, M!StoreIndex, RepaidOf
  <2> QED BY <2>1, <2>2, RegistryStays
<1>2. p \in Int
  BY RepaidOfType
<1>3. PICK t : Booked(t) /\ Emitted(Accrued, 1, wallets, t, settled, NoRow)
  BY AccrualEmitted
<1> DEFINE t2 == [t EXCEPT !.repayVolume = @ + p]
<1>0. Emit(Accrued \o <<e>>)
  BY DEF Moved
<1> HIDE DEF p
<1>4. ASSUME NEW db, Leaves(db, wallets, t, settled, NoRow)
      PROVE  Leaves(Handle(db, e), wallets, t2, settled, e)
  <2>1. /\ IsDb(db) /\ db.wallets = wallets /\ db.totals = t /\ db.settled = settled
        /\ e.kind = "REPAID" /\ e.amount = p
    BY <1>4 DEF Leaves
  <2> HIDE DEF e
  <2> QED BY <2>1, RepaidHandled
<1>5. /\ t2 \in [TotalsField -> Int] /\ t2.repayVolume = t.repayVolume + p
      /\ \A f \in TotalsField : f # "repayVolume" => t2[f] = t[f]
  <2>1. t \in [TotalsField -> Int] /\ "repayVolume" \in TotalsField
    BY <1>3 DEF Booked, TotalsField
  <2> QED BY <1>2, <2>1, FieldMoved
<1> HIDE DEF e, t2
<1>6. Emitted(Accrued \o <<e>>, 1 + 1, wallets, t2, settled, e)
  BY <1>3, <1>4, OneMoreEmitted
<1>7. wallets' = wallets /\ totals' = t2 /\ settled' = settled /\ halted' = FALSE
  BY <1>0, <1>6, EmitIs
<1>8. cash' = cash + (Net(t2) - Net(t))
  <2>1. \A f \in TotalsField : t[f] \in Int
    BY <1>3 DEF Booked
  <2>2. Net(t2) = Net(t) + p /\ Net(t) \in Int
    BY <1>2, <1>5, <2>1 DEF Net, TotalsField
  <2> QED BY <1>1, <1>2, <2>2
<1>9. wallets' \in [Wallet -> [WalletField -> Int]]
  BY <1>7 DEF BooksInv, BooksTyped
<1>10. \A f \in TotalsField \ PoolField : t2[f] = t[f]
  BY <1>5 DEF PoolField
<1> QED BY <1>1, <1>3, <1>5, <1>7, <1>8, <1>9, <1>10, AccruedKeeps

\* The log of a re-tiering, if there is one, moves no total and no wallet's row.
LEMMA RetieredEmitted ==
    ASSUME NEW logs, NEW n \in 0 .. 3, NEW ws, NEW t, NEW s, NEW row,
           Emitted(logs, n, ws, t, s, row), NEW w
    PROVE  \E row2 : Emitted(logs \o Retiered(w), n + 1, ws, t, s, row2)
<1>1. CASE R!EffectiveTier(w) = tier[w]
  <2>1. Retiered(w) = <<>>
    BY <1>1 DEF Retiered
  <2>2. Emitted(logs \o <<>>, n + 1, ws, t, s, row)
    BY NoMoreEmitted
  <2> QED BY <2>1, <2>2
<1>2. CASE R!EffectiveTier(w) # tier[w]
  <2> DEFINE e == [kind |-> "RETIERED", wallet |-> w, tier |-> R!EffectiveTier(w)]
  <2>1. Retiered(w) = <<e>>
    BY <1>2 DEF Retiered
  <2>2. e.kind = "RETIERED"
    OBVIOUS
  <2> HIDE DEF e
  <2>3. ASSUME NEW db, Leaves(db, ws, t, s, row) PROVE Leaves(Handle(db, e), ws, t, s, e)
    <3>1. IsDb(db) /\ db.wallets = ws /\ db.totals = t /\ db.settled = s
      BY <2>3 DEF Leaves
    <3> QED BY <2>2, <3>1, UncountedHandled
  <2>4. Emitted(logs \o <<e>>, n + 1, ws, t, s, e)
    BY <2>3, OneMoreEmitted
  <2> QED BY <2>1, <2>4
<1> QED BY <1>1, <1>2

\* Nor does the log of a collateral transfer.
LEMMA MovedEmitted ==
    ASSUME NEW logs, NEW n \in 0 .. 3, NEW ws, NEW t, NEW s, NEW row,
           Emitted(logs, n, ws, t, s, row), NEW w, NEW x,
           NEW k \in {"COLLATERAL_IN", "COLLATERAL_OUT"}
    PROVE  \E row2 : Emitted(logs \o Moved(k, w, x), n + 1, ws, t, s, row2)
<1> DEFINE e == [kind |-> k, wallet |-> w, amount |-> x]
<1>1. Moved(k, w, x) = <<e>> /\ e.kind = k
  BY DEF Moved
<1> HIDE DEF e
<1>2. ASSUME NEW db, Leaves(db, ws, t, s, row) PROVE Leaves(Handle(db, e), ws, t, s, e)
  <2>1. IsDb(db) /\ db.wallets = ws /\ db.totals = t /\ db.settled = s
    BY <1>2 DEF Leaves
  <2> QED BY <1>1, <2>1, UncountedHandled
<1>3. Emitted(logs \o <<e>>, n + 1, ws, t, s, e)
  BY <1>2, OneMoreEmitted
<1> QED BY <1>1, <1>3

\* Collateral is in none of the books.
LEMMA CollateralInKeeps ==
    ASSUME BooksInv, M!TypeOK, M!TypeOK', NEW w \in Wallet, NEW x,
           DepositCollateral(w, x), Emit(Moved("COLLATERAL_IN", w, x))
    PROVE  BooksInv'
<1>1. /\ UNCHANGED <<nonces, scores, liquidations, totalBadDebt, totalReserveDrawn,
                     totalSocializedLoss>>
      /\ UNCHANGED <<reserves, borrowIndex, cash>>
  <2>1. RegistryUntouched /\ M!DepositCollateral(w, x)
    BY DEF DepositCollateral, OfMarket
  <2>2. UNCHANGED <<totalBadDebt, totalReserveDrawn, totalSocializedLoss, reserves, borrowIndex, cash>>
    BY <2>1 DEF M!DepositCollateral, M!losses, M!accrual
  <2> QED BY <2>1, <2>2, RegistryStays
<1>2. wallets' = wallets /\ totals' = totals /\ settled' = settled /\ halted' = FALSE
  <2>1. Emitted(<<>>, 0, wallets, totals, settled, NoRow)
    BY NothingEmitted DEF BooksInv, BooksTyped
  <2> DEFINE none == <<>>
             one == Moved("COLLATERAL_IN", w, x)
  <2>2. none \o one = one
    BY DEF Moved
  <2> HIDE DEF none, one
  <2>3. Emitted(none, 0, wallets, totals, settled, NoRow)
    BY <2>1 DEF none
  <2>4. PICK row2 : Emitted(none \o one, 0 + 1, wallets, totals, settled, row2)
    BY <2>3, MovedEmitted DEF one
  <2>5. Emitted(one, 0 + 1, wallets, totals, settled, row2)
    BY <2>2, <2>4
  <2> QED BY <2>5, EmitIs DEF one
<1> QED BY <1>1, <1>2, SettledSame
    DEF BooksInv, BooksTyped, TotalsMatchTheMarket, WalletsMatchTheRegistry

LEMMA CollateralOutKeeps ==
    ASSUME BooksInv, M!TypeOK, M!TypeOK', M!AmountsOK, NEW w \in Wallet, NEW x,
           WithdrawCollateral(w, x),
           Emit(Accrued \o Repriced(w) \o Moved("COLLATERAL_OUT", w, x))
    PROVE  BooksInv'
<1>1. /\ UNCHANGED <<nonces, scores, liquidations, totalBadDebt, totalReserveDrawn,
                     totalSocializedLoss>>
      /\ reserves' = M!Reserves /\ borrowIndex' = M!Index /\ cash' = cash
  <2>1. RegistryUntouched /\ M!WithdrawCollateral(w, x)
    BY DEF WithdrawCollateral, OfMarket
  <2>2. /\ UNCHANGED <<totalBadDebt, totalReserveDrawn, totalSocializedLoss>>
        /\ reserves' = M!Reserves /\ borrowIndex' = M!Index /\ cash' = cash
    BY <2>1 DEF M!WithdrawCollateral, M!losses, M!Accrue, M!StoreIndex
  <2> QED BY <2>1, <2>2, RegistryStays
<1>2. PICK t : Booked(t) /\ Emitted(Accrued, 1, wallets, t, settled, NoRow)
  BY AccrualEmitted
<1>3. PICK row : Emitted(Accrued \o Repriced(w), 1 + 1, wallets, t, settled, row)
  <2>1. CASE scaledDebt[w] > 0
    <3>1. Repriced(w) = Retiered(w)
      BY <2>1 DEF Repriced
    <3>2. \E row : Emitted(Accrued \o Retiered(w), 1 + 1, wallets, t, settled, row)
      BY <1>2, RetieredEmitted
    <3> QED BY <3>1, <3>2
  <2>2. CASE ~(scaledDebt[w] > 0)
    <3>1. Repriced(w) = <<>>
      BY <2>2 DEF Repriced
    <3>2. Emitted(Accrued \o <<>>, 1 + 1, wallets, t, settled, NoRow)
      BY <1>2, NoMoreEmitted
    <3> QED BY <3>1, <3>2
  <2> QED BY <2>1, <2>2
<1> DEFINE two == Accrued \o Repriced(w)
<1> HIDE DEF two
<1>4. PICK row2 : Emitted(two \o Moved("COLLATERAL_OUT", w, x), 2 + 1, wallets, t, settled, row2)
  <2>1. Emitted(two, 2, wallets, t, settled, row)
    BY <1>3 DEF two
  <2> QED BY <2>1, MovedEmitted
<1>5. wallets' = wallets /\ totals' = t /\ settled' = settled /\ halted' = FALSE
  BY <1>4, EmitIs DEF two
<1>6. cash' = cash + (Net(t) - Net(t))
  <2>1. \A f \in TotalsField : t[f] \in Int
    BY <1>2 DEF Booked
  <2>2. Net(t) \in Int /\ cash \in Int
    BY <2>1 DEF Net, TotalsField, M!TypeOK
  <2> QED BY <1>1, <2>2
<1>7. wallets' \in [Wallet -> [WalletField -> Int]] /\ t \in [TotalsField -> Int]
  BY <1>2, <1>5 DEF BooksInv, BooksTyped, Booked
<1> QED BY <1>1, <1>2, <1>5, <1>6, <1>7, AccruedKeeps

\* A loan.
LEMMA BorrowKeeps ==
    ASSUME BooksInv, M!TypeOK, M!TypeOK', M!AmountsOK, NEW w \in Wallet, NEW x \in Amount,
           Borrow(w, x), Emit(Accrued \o Retiered(w) \o Borrowed(w, x))
    PROVE  BooksInv'
<1>1. /\ UNCHANGED <<nonces, scores, liquidations, totalBadDebt, totalReserveDrawn,
                     totalSocializedLoss>>
      /\ reserves' = M!Reserves /\ borrowIndex' = M!Index /\ cash' = cash - x
  <2>1. RegistryUntouched /\ M!Borrow(w, x)
    BY DEF Borrow, OfMarket
  <2>2. /\ UNCHANGED <<totalBadDebt, totalReserveDrawn, totalSocializedLoss>>
        /\ reserves' = M!Reserves /\ borrowIndex' = M!Index /\ cash' = cash - x
    BY <2>1 DEF M!Borrow, M!losses, M!Accrue, M!StoreIndex
  <2> QED BY <2>1, <2>2, RegistryStays
<1>2. x \in Int
  BY InputTypes
<1>3. PICK t : Booked(t) /\ Emitted(Accrued, 1, wallets, t, settled, NoRow)
  BY AccrualEmitted
<1>4. PICK row : Emitted(Accrued \o Retiered(w), 1 + 1, wallets, t, settled, row)
  BY <1>3, RetieredEmitted
<1> DEFINE two == Accrued \o Retiered(w)
           e == [kind |-> "BORROWED", wallet |-> w, amount |-> x, tier |-> R!EffectiveTier(w),
                 price |-> M!Price("coll")]
           w2 == [wallets EXCEPT ![w].borrowCount = @ + 1]
           t1 == [t EXCEPT !.borrowVolume = @ + x]
           t2 == [t EXCEPT !.borrowVolume = @ + x, !.borrowCount = @ + 1]
<1>5. Borrowed(w, x) = <<e>> /\ e.kind = "BORROWED" /\ e.wallet = w /\ e.amount = x
  BY DEF Borrowed
<1>6. ASSUME NEW db, Leaves(db, wallets, t, settled, row)
      PROVE  Leaves(Handle(db, e), w2, t2, settled, e)
  <2>1. IsDb(db) /\ db.wallets = wallets /\ db.totals = t /\ db.settled = settled
    BY <1>6 DEF Leaves
  <2> HIDE DEF e
  <2> QED BY <1>5, <2>1, BorrowedHandled
<1>7. /\ t2 \in [TotalsField -> Int] /\ t2.borrowVolume = t.borrowVolume + x
      /\ \A f \in TotalsField \ {"borrowVolume", "borrowCount"} : t2[f] = t[f]
  <2>1. t \in [TotalsField -> Int] /\ "borrowVolume" \in TotalsField /\ "borrowCount" \in TotalsField
    BY <1>3 DEF Booked, TotalsField
  <2>2. /\ t1 \in [TotalsField -> Int] /\ t1.borrowVolume = t.borrowVolume + x
        /\ \A f \in TotalsField : f # "borrowVolume" => t1[f] = t[f]
    BY <1>2, <2>1, FieldMoved
  <2>3. t2 = [t1 EXCEPT !.borrowCount = @ + 1]
    OBVIOUS
  <2> HIDE DEF t1, t2
  <2>4. /\ t2 \in [TotalsField -> Int]
        /\ \A f \in TotalsField : f # "borrowCount" => t2[f] = t1[f]
    BY <2>1, <2>2, <2>3, FieldMoved
  <2> QED BY <2>1, <2>2, <2>4
<1>8. /\ w2 \in [Wallet -> [WalletField -> Int]]
      /\ \A u \in Wallet : \A f \in WalletField \ {"borrowCount"} : w2[u][f] = wallets[u][f]
  <2>1. wallets \in [Wallet -> [WalletField -> Int]]
    BY DEF BooksInv, BooksTyped
  <2> DEFINE y == [wallets[w] EXCEPT !.borrowCount = @ + 1]
  <2>2. y \in [WalletField -> Int] /\ \A f \in WalletField \ {"borrowCount"} : y[f] = wallets[w][f]
    BY <2>1 DEF WalletField
  <2>3. w2 = [wallets EXCEPT ![w] = y]
    OBVIOUS
  <2> HIDE DEF y, w2
  <2> QED BY <2>1, <2>2, <2>3
<1> HIDE DEF two, e, w2, t2
<1>9. Emitted(two \o <<e>>, 2 + 1, w2, t2, settled, e)
  <2>1. Emitted(two, 2, wallets, t, settled, row)
    BY <1>4 DEF two
  <2> QED BY <1>6, <2>1, OneMoreEmitted
<1>10. wallets' = w2 /\ totals' = t2 /\ settled' = settled /\ halted' = FALSE
  BY <1>5, <1>9, EmitIs DEF two
<1>11. cash' = cash + (Net(t2) - Net(t))
  <2>1. \A f \in TotalsField : t[f] \in Int
    BY <1>3 DEF Booked
  <2>2. Net(t2) = Net(t) - x /\ Net(t) \in Int
    BY <1>2, <1>7, <2>1 DEF Net, TotalsField
  <2>3. cash \in Int
    BY DEF M!TypeOK
  <2> QED BY <1>1, <1>2, <2>2, <2>3
<1>12. \A f \in TotalsField \ PoolField : t2[f] = t[f]
  BY <1>7 DEF PoolField
<1> QED BY <1>1, <1>3, <1>7, <1>8, <1>10, <1>11, <1>12, AccruedKeeps

\* Every transaction, with its logs handled, keeps the books.
LEMMA BooksStep ==
    BooksInv /\ M!TypeOK /\ M!TypeOK' /\ M!AmountsOK /\ [IndexedNext]_<<vars, tables>> => BooksInv'
<1> SUFFICES ASSUME BooksInv, M!TypeOK, M!TypeOK', M!AmountsOK, [IndexedNext]_<<vars, tables>>
             PROVE  BooksInv'
  OBVIOUS
<1>1. ASSUME NEW a \in Payload, NEW k \in Signer, SubmitAttestation(a, k), Emit(Attested(a))
      PROVE  BooksInv'
  BY <1>1, SubmissionKeeps
<1>2. ASSUME NEW l \in Lender, NEW x \in AssetInput, OfLenders(l, x) PROVE BooksInv'
  BY <1>2, DepositKeeps, WithdrawKeeps DEF OfLenders
<1>3. ASSUME NEW w \in Wallet, NEW x \in CollateralInput, OfCollateral(w, x) PROVE BooksInv'
  BY <1>3, CollateralInKeeps, CollateralOutKeeps DEF OfCollateral
<1>4. ASSUME NEW w \in Wallet, NEW x \in Amount, Borrow(w, x),
             Emit(Accrued \o Retiered(w) \o Borrowed(w, x))
      PROVE  BooksInv'
  BY <1>4, BorrowKeeps
<1>5. ASSUME NEW w \in Wallet, NEW x \in M!RepayInput(w), OfDebt(w, x) PROVE BooksInv'
  BY <1>5, RepayKeeps, LiquidationKeeps DEF OfDebt
<1>6. CASE Administration /\ UNCHANGED tables
  BY <1>6, AdministrationKeeps
<1>7. CASE UNCHANGED <<vars, tables>>
  BY <1>7, StutterKeeps
<1> QED BY <1>1, <1>2, <1>3, <1>4, <1>5, <1>6, <1>7 DEF IndexedNext

\* With the market's own books in balance, all of them are.
LEMMA BooksBalance == BooksInv /\ M!LossesAreBooked => BooksAgree
<1> SUFFICES ASSUME BooksInv, M!LossesAreBooked PROVE BooksAgree
  OBVIOUS
<1>1. JoinNeverThrows /\ TotalsMatchTheMarket /\ WalletsMatchTheRegistry
  BY DEF BooksInv, BooksTyped, JoinNeverThrows
<1>2. ShortfallsAddUp
  BY DEF M!LossesAreBooked, ShortfallsAddUp
<1> QED BY <1>1, <1>2 DEF BooksAgree

----------------------------------------------------------------------------
(* What the activity page adds up.                                            *)

\* The rows of a wallet: whatever set they are of, what they moved is a natural.
Rows(s) ==
    \E E : /\ s \in Seq(E)
           /\ \A i \in 1 .. Len(s) :
                s[i].kind \in {"COLLATERAL_IN", "COLLATERAL_OUT"} => s[i].amount \in Nat
AmountTyped(e) == e.kind \in {"COLLATERAL_IN", "COLLATERAL_OUT"} => e.amount \in Nat

LEMMA RowsAre ==
    ASSUME NEW s, Rows(s)
    PROVE  /\ Len(s) \in Nat /\ DOMAIN s = 1 .. Len(s)
           /\ \A i \in 1 .. Len(s) : AmountTyped(s[i])
<1>1. PICK E : s \in Seq(E)
  BY DEF Rows
<1>2. Len(s) \in Nat /\ DOMAIN s = 1 .. Len(s)
  BY <1>1
<1>3. \A i \in 1 .. Len(s) : AmountTyped(s[i])
  BY DEF Rows, AmountTyped
<1> QED BY <1>2, <1>3

LEMMA RowsOneMore ==
    ASSUME NEW s, Rows(s), NEW e, AmountTyped(e)
    PROVE  /\ Rows(Append(s, e)) /\ Len(Append(s, e)) = Len(s) + 1
           /\ Append(s, e)[Len(s) + 1] = e
           /\ \A i \in 1 .. Len(s) : Append(s, e)[i] = s[i]
<1>1. PICK E : s \in Seq(E)
  BY DEF Rows
<1> DEFINE F == E \cup {e}
           t == Append(s, e)
           n == Len(s)
<1>2. s \in Seq(F) /\ e \in F /\ n \in Nat
  BY <1>1
<1> HIDE DEF F
<1>3. t \in Seq(F) /\ Len(t) = n + 1 /\ t[n + 1] = e /\ \A i \in 1 .. n : t[i] = s[i]
  BY <1>2
<1>4. \A i \in 1 .. n : AmountTyped(s[i])
  BY RowsAre
<1> HIDE DEF t, n
<1>5. \A i \in 1 .. Len(t) : AmountTyped(t[i])
  <2> SUFFICES ASSUME NEW i \in 1 .. (n + 1) PROVE AmountTyped(t[i])
    BY <1>3
  <2>1. CASE i = n + 1
    BY <1>3, <2>1
  <2>2. CASE i # n + 1
    <3>1. i \in 1 .. n
      BY <1>2, <2>2
    <3> QED BY <1>3, <1>4, <3>1
  <2> QED BY <2>1, <2>2
<1>6. Rows(t)
  BY <1>3, <1>5 DEF Rows, AmountTyped
<1> QED BY <1>3, <1>6 DEF t, n

\* What a row moves, and the fold of netCollateral, unfolded.
Signed(r) == IF r.kind = "COLLATERAL_IN" THEN r.amount
             ELSE IF r.kind = "COLLATERAL_OUT" THEN - r.amount ELSE 0
NetFold(rows) ==
    CHOOSE iter : iter = [s \in SUBSET DOMAIN rows |->
        IF s = {} THEN 0 ELSE iter[s \ {Max(s)}] + Signed(rows[Max(s)])]
LEMMA NetIs == ASSUME NEW rows PROVE netCollateral(rows) = NetFold(rows)[DOMAIN rows]
BY Zenon DEF netCollateral, FoldLeft, MapThenFoldSet, NetFold, Signed

\* The last of some rows.
LEMMA MaxOf ==
    ASSUME NEW n \in Nat, NEW s \in SUBSET (1 .. n), s # {}
    PROVE  Max(s) \in s /\ \A i \in s : i <= Max(s)
<1> DEFINE Tops(T) == {x \in T : \A y \in T : x >= y}
           bad == {T \in SUBSET s : T # {} /\ Tops(T) = {}}
<1>1. IsFiniteSet(s)
  <2>1. IsFiniteSet(1 .. n)
    BY FS_Interval
  <2> QED BY <2>1, FS_Subset
<1>2. bad = {}
  <2> SUFFICES ASSUME bad # {} PROVE FALSE
    OBVIOUS
  <2>1. bad \subseteq FiniteSubsetsOf(s)
    BY <1>1, FS_FiniteSubsetsOfFinite
  <2>2. PICK T \in bad : \A U \in bad : <<U, T>> \notin StrictSubsetOrdering(s)
    BY <1>1, <2>1, FS_StrictSubsetOrderingWellFounded, WFMin
  <2>3. PICK x \in T : TRUE
    OBVIOUS
  <2>4. T \ {x} \notin bad
    BY <2>2, <2>3 DEF StrictSubsetOrdering
  <2>5. \A y \in T : y \in Int
    OBVIOUS
  <2>6. CASE T \ {x} = {}
    BY <2>2, <2>3, <2>5, <2>6
  <2>7. CASE T \ {x} # {}
    <3>1. PICK m \in T \ {x} : \A y \in T \ {x} : m >= y
      BY <2>2, <2>4, <2>7
    <3>2. CASE m >= x
      BY <2>2, <2>5, <3>1, <3>2
    <3>3. CASE x > m
      BY <2>2, <2>5, <3>1, <3>3
    <3> QED BY <2>3, <2>5, <3>1, <3>2, <3>3
  <2> QED BY <2>6, <2>7
<1>3. PICK x \in s : \A y \in s : x >= y
  BY <1>2
<1>4. Max(s) \in s /\ \A y \in s : Max(s) >= y
  BY <1>3 DEF Max
<1>5. \A y \in s : y \in 1 .. n
  OBVIOUS
<1> QED BY <1>4, <1>5

\* What was put in, and what was taken out.
InBy(rows) == [i \in DOMAIN rows |-> IF rows[i].kind = "COLLATERAL_IN" THEN rows[i].amount ELSE 0]
OutBy(rows) == [i \in DOMAIN rows |-> IF rows[i].kind = "COLLATERAL_OUT" THEN rows[i].amount ELSE 0]
Difference(rows, s) == SumFunctionOnSet(InBy(rows), s) - SumFunctionOnSet(OutBy(rows), s)

LEMMA MovesTyped ==
    ASSUME NEW rows, Rows(rows)
    PROVE  \A i \in DOMAIN rows : /\ InBy(rows)[i] \in Nat /\ OutBy(rows)[i] \in Nat
                                  /\ Signed(rows[i]) = InBy(rows)[i] - OutBy(rows)[i]
                                  /\ Signed(rows[i]) \in Int
BY RowsAre DEF InBy, OutBy, Signed, AmountTyped

LEMMA DifferenceStep ==
    ASSUME NEW rows, Rows(rows), NEW s \in SUBSET DOMAIN rows, NEW x \in s
    PROVE  /\ Difference(rows, s) = Difference(rows, s \ {x}) + Signed(rows[x])
           /\ Difference(rows, s \ {x}) \in Int
<1> DEFINE f == InBy(rows)  g == OutBy(rows)  r == s \ {x}
<1>1. IsFiniteSet(s)
  <2>1. IsFiniteSet(DOMAIN rows)
    BY RowsAre, FS_Interval
  <2> QED BY <2>1, FS_Subset
<1>2. /\ \A i \in s : f[i] \in Nat /\ g[i] \in Nat
      /\ Signed(rows[x]) = f[x] - g[x] /\ f[x] \in Nat /\ g[x] \in Nat
  BY MovesTyped
<1> HIDE DEF f, g
<1>3. SumFunctionOnSet(f, s) = f[x] + SumFunctionOnSet(f, r) /\ SumFunctionOnSet(f, r) \in Nat
  BY <1>1, <1>2, SumAdd
<1>4. SumFunctionOnSet(g, s) = g[x] + SumFunctionOnSet(g, r) /\ SumFunctionOnSet(g, r) \in Nat
  BY <1>1, <1>2, SumAdd
<1> HIDE DEF r
<1>5. Difference(rows, s) = SumFunctionOnSet(f, s) - SumFunctionOnSet(g, s)
      /\ Difference(rows, r) = SumFunctionOnSet(f, r) - SumFunctionOnSet(g, r)
  BY DEF Difference, f, g
<1> QED BY <1>2, <1>3, <1>4, <1>5 DEF r

\* The fold is a function, as the difference of the two sums takes its steps.
LEMMA NetFoldIs ==
    ASSUME NEW rows, Rows(rows)
    PROVE  NetFold(rows) = [s \in SUBSET DOMAIN rows |->
             IF s = {} THEN 0 ELSE NetFold(rows)[s \ {Max(s)}] + Signed(rows[Max(s)])]
<1> DEFINE G == [s \in SUBSET DOMAIN rows |-> Difference(rows, s)]
<1>1. ASSUME NEW s \in SUBSET DOMAIN rows
      PROVE  Difference(rows, s) = IF s = {} THEN 0 ELSE G[s \ {Max(s)}] + Signed(rows[Max(s)])
  <2>1. CASE s = {}
    BY <2>1, TotalOfNone DEF Difference
  <2>2. CASE s # {}
    <3>1. Max(s) \in s
      BY <2>2, RowsAre, MaxOf
    <3>2. Difference(rows, s) = Difference(rows, s \ {Max(s)}) + Signed(rows[Max(s)])
      BY <3>1, DifferenceStep
    <3> QED BY <2>2, <3>2
  <2> QED BY <2>1, <2>2
<1>2. G = [s \in SUBSET DOMAIN rows |->
             IF s = {} THEN 0 ELSE G[s \ {Max(s)}] + Signed(rows[Max(s)])]
  BY <1>1
<1> HIDE DEF G
<1> QED BY <1>2 DEF NetFold

\* It is that difference.
LEMMA NetIsDifference ==
    ASSUME NEW rows, Rows(rows)
    PROVE  netCollateral(rows) = Difference(rows, DOMAIN rows)
<1> DEFINE g == NetFold(rows)
           S == DOMAIN rows
           bad == {s \in SUBSET S : g[s] # Difference(rows, s)}
<1>1. g = [s \in SUBSET S |-> IF s = {} THEN 0 ELSE g[s \ {Max(s)}] + Signed(rows[Max(s)])]
  BY NetFoldIs
<1>2. IsFiniteSet(S)
  BY RowsAre, FS_Interval
<1> HIDE DEF g
<1>3. bad = {}
  <2> SUFFICES ASSUME bad # {} PROVE FALSE
    OBVIOUS
  <2>1. bad \subseteq FiniteSubsetsOf(S)
    BY <1>2, FS_FiniteSubsetsOfFinite
  <2>2. PICK T \in bad : \A U \in bad : <<U, T>> \notin StrictSubsetOrdering(S)
    BY <1>2, <2>1, FS_StrictSubsetOrderingWellFounded, WFMin
  <2>3. g[T] = IF T = {} THEN 0 ELSE g[T \ {Max(T)}] + Signed(rows[Max(T)])
    BY <1>1, <2>2
  <2>4. CASE T = {}
    BY <2>2, <2>3, <2>4, TotalOfNone DEF Difference
  <2>5. CASE T # {}
    <3> DEFINE x == Max(T)
    <3>1. x \in T
      BY <2>5, RowsAre, MaxOf
    <3> HIDE DEF x
    <3>2. <<T \ {x}, T>> \in StrictSubsetOrdering(S)
      BY <3>1 DEF StrictSubsetOrdering
    <3>3. g[T \ {x}] = Difference(rows, T \ {x})
      BY <2>2, <3>2
    <3>4. Difference(rows, T) = Difference(rows, T \ {x}) + Signed(rows[x])
      BY <3>1, DifferenceStep
    <3> QED BY <2>2, <2>3, <2>5, <3>3, <3>4 DEF x
  <2> QED BY <2>4, <2>5
<1>4. g[S] = Difference(rows, S)
  BY <1>3
<1> QED BY <1>4, NetIs DEF g

\* A row more adds what it moves,
LEMMA NetOneMore ==
    ASSUME NEW rows, Rows(rows), NEW e, AmountTyped(e)
    PROVE  /\ netCollateral(Append(rows, e)) = netCollateral(rows) + Signed(e)
           /\ netCollateral(rows) \in Int
<1> DEFINE more == Append(rows, e)
           n == Len(rows)
           S == 1 .. n
           f == InBy(rows)
           g == OutBy(rows)
           f2 == InBy(more)
           g2 == OutBy(more)
<1>1. /\ Rows(more) /\ Len(more) = n + 1 /\ more[n + 1] = e /\ \A i \in 1 .. n : more[i] = rows[i]
  BY RowsOneMore
<1> HIDE DEF more
<1>2. n \in Nat /\ DOMAIN rows = S /\ DOMAIN more = 1 .. (n + 1)
  BY <1>1, RowsAre
<1> HIDE DEF n
<1>3. DOMAIN more = S \cup {n + 1} /\ n + 1 \notin S /\ IsFiniteSet(S)
  <2>1. IsFiniteSet(S)
    BY <1>2, FS_Interval
  <2>2. DOMAIN more = S \cup {n + 1} /\ n + 1 \notin S
    BY <1>2
  <2> QED BY <2>1, <2>2
<1>4. \A i \in S : f[i] \in Nat /\ g[i] \in Nat /\ f2[i] = f[i] /\ g2[i] = g[i]
  <2> SUFFICES ASSUME NEW i \in S PROVE f[i] \in Nat /\ g[i] \in Nat /\ f2[i] = f[i] /\ g2[i] = g[i]
    OBVIOUS
  <2>1. i \in DOMAIN rows /\ i \in DOMAIN more /\ more[i] = rows[i]
    BY <1>1, <1>2, <1>3
  <2>2. f2[i] = f[i] /\ g2[i] = g[i]
    BY <2>1 DEF InBy, OutBy
  <2>3. f[i] \in Nat /\ g[i] \in Nat
    BY <2>1, MovesTyped
  <2> QED BY <2>2, <2>3
<1>5. f2[n + 1] \in Nat /\ g2[n + 1] \in Nat /\ Signed(e) = f2[n + 1] - g2[n + 1]
  <2>1. n + 1 \in DOMAIN more
    BY <1>3
  <2> QED BY <1>1, <2>1, MovesTyped
<1> HIDE DEF S, f, g, f2, g2
<1> DEFINE m == n + 1
<1>6. SameTerms(f, f2, S) /\ SameTerms(g, g2, S)
  BY <1>4 DEF SameTerms
<1>7. m \notin S /\ IsFiniteSet(S) /\ f2[m] \in Nat /\ g2[m] \in Nat
  BY <1>3, <1>5
<1> HIDE DEF m
<1>8. SumFunctionOnSet(f2, S \cup {m}) = SumFunctionOnSet(f, S) + f2[m]
  BY <1>6, <1>7, SumOneMore
<1>9. SumFunctionOnSet(g2, S \cup {m}) = SumFunctionOnSet(g, S) + g2[m]
  BY <1>6, <1>7, SumOneMore
<1>10. SumFunctionOnSet(f, S) \in Nat /\ SumFunctionOnSet(g, S) \in Nat
  BY <1>3, <1>4, SumType
<1>11. netCollateral(rows) = SumFunctionOnSet(f, S) - SumFunctionOnSet(g, S)
  BY <1>2, NetIsDifference DEF Difference, f, g
<1>12. netCollateral(more) = SumFunctionOnSet(f2, S \cup {m}) - SumFunctionOnSet(g2, S \cup {m})
  BY <1>1, <1>3, NetIsDifference DEF Difference, f2, g2, m
<1>13. f2[m] \in Nat /\ g2[m] \in Nat /\ Signed(e) = f2[m] - g2[m]
  BY <1>5 DEF m
<1> QED BY <1>8, <1>9, <1>10, <1>11, <1>12, <1>13 DEF more

\* and none adds nothing.
LEMMA NetOfNone == Rows(<<>>) /\ netCollateral(<<>>) = 0
<1>1. Rows(<<>>)
  <2>1. <<>> \in Seq({}) /\ Len(<<>>) = 0
    OBVIOUS
  <2> QED BY <2>1 DEF Rows
<1>2. DOMAIN <<>> = {}
  OBVIOUS
<1>3. netCollateral(<<>>) = Difference(<<>>, {})
  BY <1>1, <1>2, NetIsDifference
<1> QED BY <1>1, <1>3, TotalOfNone DEF Difference

----------------------------------------------------------------------------
(* How the page cuts a timeline at the first liquidation.                     *)

\* The first of some rows.
LEMMA LeastOf ==
    ASSUME NEW n \in Nat, NEW s \in SUBSET (1 .. n), s # {}
    PROVE  \E x \in s : \A y \in s : x <= y
<1> DEFINE Firsts(T) == {x \in T : \A y \in T : x <= y}
           bad == {T \in SUBSET s : T # {} /\ Firsts(T) = {}}
<1>1. IsFiniteSet(s)
  <2>1. IsFiniteSet(1 .. n)
    BY FS_Interval
  <2> QED BY <2>1, FS_Subset
<1>2. bad = {}
  <2> SUFFICES ASSUME bad # {} PROVE FALSE
    OBVIOUS
  <2>1. bad \subseteq FiniteSubsetsOf(s)
    BY <1>1, FS_FiniteSubsetsOfFinite
  <2>2. PICK T \in bad : \A U \in bad : <<U, T>> \notin StrictSubsetOrdering(s)
    BY <1>1, <2>1, FS_StrictSubsetOrderingWellFounded, WFMin
  <2>3. PICK x \in T : TRUE
    OBVIOUS
  <2>4. T \ {x} \notin bad
    BY <2>2, <2>3 DEF StrictSubsetOrdering
  <2>5. \A y \in T : y \in Int
    OBVIOUS
  <2>6. CASE T \ {x} = {}
    BY <2>2, <2>3, <2>5, <2>6
  <2>7. CASE T \ {x} # {}
    <3>1. PICK m \in T \ {x} : \A y \in T \ {x} : m <= y
      BY <2>2, <2>4, <2>7
    <3>2. CASE m <= x
      BY <2>2, <2>5, <3>1, <3>2
    <3>3. CASE x < m
      BY <2>2, <2>5, <3>1, <3>3
    <3> QED BY <2>3, <2>5, <3>1, <3>2, <3>3
  <2> QED BY <2>6, <2>7
<1> QED BY <1>2

\* The first row of a kind is that, and 0 says that there is none.
HasKind(s, i, k) == i \in 1 .. Len(s) /\ s[i].kind = k
LEMMA IndexOfKindIs ==
    ASSUME NEW s, Rows(s), NEW k
    PROVE  /\ IndexOfKind(s, k) \in 0 .. Len(s)
           /\ IndexOfKind(s, k) = 0 => \A i : ~HasKind(s, i, k)
           /\ IndexOfKind(s, k) # 0 => /\ HasKind(s, IndexOfKind(s, k), k)
                                       /\ \A i : HasKind(s, i, k) => IndexOfKind(s, k) <= i
<1> DEFINE at == {i \in 1 .. Len(s) : s[i].kind = k}
           x == CHOOSE i \in at : \A j \in at : i <= j
<1>1. IndexOfKind(s, k) = IF at = {} THEN 0 ELSE x
  BY DEF IndexOfKind
<1>2. Len(s) \in Nat /\ at \in SUBSET (1 .. Len(s)) /\ \A i : i \in at <=> HasKind(s, i, k)
  BY RowsAre DEF HasKind
<1>3. at # {} => x \in at /\ \A j \in at : x <= j
  <2> SUFFICES ASSUME at # {} PROVE \E i \in at : \A j \in at : i <= j
    OBVIOUS
  <2> HIDE DEF at
  <2> QED BY <1>2, LeastOf
<1> HIDE DEF at, x
<1>4. CASE at = {}
  BY <1>1, <1>2, <1>4
<1>5. CASE at # {}
  <2>1. IndexOfKind(s, k) = x /\ x \in at /\ x \in 1 .. Len(s)
    BY <1>1, <1>2, <1>3, <1>5
  <2>2. x \in 0 .. Len(s) /\ x # 0
    BY <1>2, <2>1
  <2>3. HasKind(s, x, k) /\ \A i : HasKind(s, i, k) => x <= i
    BY <1>2, <1>3, <2>1
  <2> QED BY <2>1, <2>2, <2>3
<1> QED BY <1>4, <1>5

\* An index with the two properties is the one.
LEMMA IndexOfKindAt ==
    ASSUME NEW s, Rows(s), NEW k, NEW n, HasKind(s, n, k), \A i : HasKind(s, i, k) => n <= i
    PROVE  IndexOfKind(s, k) = n
<1> DEFINE x == IndexOfKind(s, k)
<1>1. x \in 0 .. Len(s) /\ Len(s) \in Nat /\ n \in 1 .. Len(s)
  BY IndexOfKindIs, RowsAre DEF HasKind
<1>2. x # 0 /\ HasKind(s, x, k) /\ x <= n
  BY IndexOfKindIs
<1>3. n <= x
  BY <1>2
<1> HIDE DEF x
<1> QED BY <1>1, <1>2, <1>3 DEF x

LEMMA NoneOfKind ==
    ASSUME NEW s, Rows(s), NEW k, \A i : ~HasKind(s, i, k)
    PROVE  IndexOfKind(s, k) = 0
BY IndexOfKindIs

\* Consecutive rows of a timeline.
LEMMA PartOf ==
    ASSUME NEW s, Rows(s), NEW m \in 1 .. Len(s) + 1, NEW n \in 0 .. Len(s), m <= n + 1
    PROVE  /\ Rows(SubSeq(s, m, n)) /\ Len(SubSeq(s, m, n)) = (n + 1) - m
           /\ \A i \in 1 .. ((n + 1) - m) : SubSeq(s, m, n)[i] = s[(i + m) - 1]
<1>1. PICK E : s \in Seq(E)
  BY DEF Rows
<1>2. Len(s) \in Nat /\ m \in Int /\ n \in Int /\ \A i \in 1 .. Len(s) : s[i] \in E /\ AmountTyped(s[i])
  BY <1>1, RowsAre
<1> DEFINE t == SubSeq(s, m, n)
<1>3. t \in Seq(E) /\ Len(t) = (n + 1) - m /\ \A i \in 1 .. ((n + 1) - m) : t[i] = s[(i + m) - 1]
  <2>1. \A i \in m .. n : s[i] \in E
    BY <1>2
  <2>2. /\ t \in Seq(E) /\ Len(t) = IF m <= n THEN n - m + 1 ELSE 0
        /\ \A i \in 1 .. n - m + 1 : t[i] = s[m + i - 1]
    BY <1>2, <2>1
  <2> HIDE DEF t
  <2>3. Len(t) = (n + 1) - m
    BY <1>2, <2>2
  <2>4. \A i \in 1 .. ((n + 1) - m) : t[i] = s[(i + m) - 1]
    <3> SUFFICES ASSUME NEW i \in 1 .. ((n + 1) - m) PROVE t[i] = s[(i + m) - 1]
      OBVIOUS
    <3>1. i \in 1 .. n - m + 1 /\ m + i - 1 = (i + m) - 1
      BY <1>2
    <3> QED BY <2>2, <3>1
  <2> QED BY <2>2, <2>3, <2>4
<1> HIDE DEF t
<1>4. \A i \in 1 .. Len(t) : AmountTyped(t[i])
  <2> SUFFICES ASSUME NEW i \in 1 .. Len(t) PROVE AmountTyped(t[i])
    OBVIOUS
  <2>1. i \in 1 .. ((n + 1) - m) /\ (i + m) - 1 \in 1 .. Len(s)
    BY <1>2, <1>3
  <2> QED BY <1>2, <1>3, <2>1
<1>5. Rows(t)
  BY <1>3, <1>4 DEF Rows, AmountTyped
<1> QED BY <1>3, <1>5 DEF t

\* LiqIdx, RowsBefore and NewScore, of a timeline.
First(s) == IndexOfKind(s, "LIQUIDATED")
Before(s) == SubSeq(s, 1, First(s) - 1)
From(s) == SubSeq(s, First(s), Len(s))
Score(s) == IndexOfKind(From(s), "ATTESTED")

LEMMA ScoreIs ==
    ASSUME NEW s, Rows(s), First(s) > 0
    PROVE  /\ Score(s) \in Nat
           /\ Score(s) = 0 <=> \A i : HasKind(s, i, "ATTESTED") => i < First(s)
<1> DEFINE f == First(s)
           t == From(s)
           n == Len(s)
<1>1. n \in Nat /\ f \in 1 .. n
  BY RowsAre, IndexOfKindIs DEF First
<1>2. Rows(t) /\ Len(t) = (n + 1) - f /\ \A i \in 1 .. ((n + 1) - f) : t[i] = s[(i + f) - 1]
  <2> HIDE DEF f, n
  <2>1. f \in 1 .. n + 1 /\ n \in 0 .. n /\ f <= n + 1
    BY <1>1
  <2>2. t = SubSeq(s, f, n)
    BY DEF From, f, n
  <2> HIDE DEF t
  <2>3. f \in 1 .. Len(s) + 1 /\ n \in 0 .. Len(s)
    BY <2>1 DEF n
  <2> QED BY <2>1, <2>2, <2>3, PartOf
<1> HIDE DEF t, f, n
<1>3. \A i \in 1 .. ((n + 1) - f) : HasKind(t, i, "ATTESTED") <=> HasKind(s, (i + f) - 1, "ATTESTED")
  <2> SUFFICES ASSUME NEW i \in 1 .. ((n + 1) - f)
               PROVE  HasKind(t, i, "ATTESTED") <=> HasKind(s, (i + f) - 1, "ATTESTED")
    OBVIOUS
  <2>1. (i + f) - 1 \in 1 .. n
    BY <1>1
  <2> QED BY <1>2, <2>1 DEF HasKind, n
<1>4. (\A i : ~HasKind(t, i, "ATTESTED")) <=> \A i : HasKind(s, i, "ATTESTED") => i < f
  <2>1. ASSUME NEW i, HasKind(t, i, "ATTESTED"), \A j : HasKind(s, j, "ATTESTED") => j < f
        PROVE  FALSE
    <3>1. i \in 1 .. ((n + 1) - f)
      BY <1>2, <2>1 DEF HasKind
    <3>2. (i + f) - 1 < f
      BY <1>3, <2>1, <3>1
    <3> QED BY <1>1, <3>1, <3>2
  <2>2. ASSUME NEW j, HasKind(s, j, "ATTESTED"), ~(j < f), \A i : ~HasKind(t, i, "ATTESTED")
        PROVE  FALSE
    <3> DEFINE i == (j + 1) - f
    <3>1. j \in 1 .. n
      BY <2>2 DEF HasKind, n
    <3>2. i \in 1 .. ((n + 1) - f) /\ (i + f) - 1 = j
      BY <1>1, <2>2, <3>1
    <3> HIDE DEF i
    <3>3. HasKind(t, i, "ATTESTED")
      BY <1>3, <2>2, <3>2
    <3> QED BY <2>2, <3>3
  <2> QED BY <2>1, <2>2
<1>5. Score(s) \in Nat /\ (Score(s) = 0 <=> \A i : ~HasKind(t, i, "ATTESTED"))
  <2>1. IndexOfKind(t, "ATTESTED") \in 0 .. Len(t) /\ Len(t) \in Nat
    BY <1>2, RowsAre, IndexOfKindIs
  <2>2. IndexOfKind(t, "ATTESTED") = 0 => \A i : ~HasKind(t, i, "ATTESTED")
    BY <1>2, IndexOfKindIs
  <2>3. (\A i : ~HasKind(t, i, "ATTESTED")) => IndexOfKind(t, "ATTESTED") = 0
    BY <1>2, NoneOfKind
  <2> QED BY <2>1, <2>2, <2>3 DEF Score, t
<1> QED BY <1>4, <1>5 DEF f

----------------------------------------------------------------------------
(* What one more row does to the cut.                                         *)

LEMMA KindsOneMore ==
    ASSUME NEW s, Rows(s), NEW e, AmountTyped(e), NEW k
    PROVE  /\ \A i : HasKind(s, i, k) => HasKind(Append(s, e), i, k)
           /\ \A i : HasKind(Append(s, e), i, k) =>
                HasKind(s, i, k) \/ (i = Len(s) + 1 /\ e.kind = k)
           /\ e.kind = k => HasKind(Append(s, e), Len(s) + 1, k)
<1> DEFINE t == Append(s, e)
           n == Len(s)
<1>1. n \in Nat /\ Len(t) = n + 1 /\ t[n + 1] = e /\ \A i \in 1 .. n : t[i] = s[i]
  BY RowsAre, RowsOneMore
<1> HIDE DEF t
<1>2. \A i : i \in 1 .. Len(t) <=> i \in 1 .. n \/ i = n + 1
  BY <1>1
<1>3. ASSUME NEW i, HasKind(s, i, k) PROVE HasKind(t, i, k)
  BY <1>1, <1>2, <1>3 DEF HasKind
<1>4. ASSUME NEW i, HasKind(t, i, k) PROVE HasKind(s, i, k) \/ (i = n + 1 /\ e.kind = k)
  <2>1. CASE i = n + 1
    BY <1>1, <1>4, <2>1 DEF HasKind
  <2>2. CASE i # n + 1
    <3>1. i \in 1 .. Len(t) /\ t[i].kind = k
      BY <1>4 DEF HasKind
    <3>2. i \in 1 .. n
      BY <1>2, <2>2, <3>1
    <3>3. s[i].kind = k
      BY <1>1, <3>1, <3>2
    <3> QED BY <3>2, <3>3 DEF HasKind
  <2> QED BY <2>1, <2>2
<1>5. e.kind = k => HasKind(t, n + 1, k)
  <2> DEFINE m == n + 1
  <2> HIDE DEF n
  <2>1. m \in 1 .. Len(t)
    BY <1>1
  <2>2. t[m] = e
    BY <1>1
  <2> HIDE DEF m
  <2>3. e.kind = k => HasKind(t, m, k)
    BY <2>1, <2>2 DEF HasKind
  <2> QED BY <2>3 DEF m
<1> HIDE DEF n
<1> QED BY <1>3, <1>4, <1>5 DEF t, n

\* A cut there is stays, with what is before it.
LEMMA CutStays ==
    ASSUME NEW s, Rows(s), NEW e, AmountTyped(e), First(s) > 0
    PROVE  First(Append(s, e)) = First(s) /\ Before(Append(s, e)) = Before(s)
<1> DEFINE t == Append(s, e)
           f == First(s)
           n == Len(s)
<1>1. n \in Nat /\ Rows(t) /\ Len(t) = n + 1 /\ t[n + 1] = e /\ \A i \in 1 .. n : t[i] = s[i]
  BY RowsAre, RowsOneMore
<1>2. f \in 1 .. n /\ HasKind(s, f, "LIQUIDATED") /\ \A i : HasKind(s, i, "LIQUIDATED") => f <= i
  <2>1. f \in 0 .. n /\ f # 0
    BY <1>1, IndexOfKindIs DEF First
  <2> QED BY <1>1, <2>1, IndexOfKindIs DEF First
<1>3. HasKind(t, f, "LIQUIDATED") /\ \A i : HasKind(t, i, "LIQUIDATED") => f <= i
  <2> HIDE DEF t, f
  <2>1. HasKind(t, f, "LIQUIDATED")
    BY <1>2, KindsOneMore DEF t
  <2>2. ASSUME NEW i, HasKind(t, i, "LIQUIDATED") PROVE f <= i
    <3>1. HasKind(s, i, "LIQUIDATED") \/ i = n + 1
      BY <2>2, KindsOneMore DEF t
    <3> QED BY <1>1, <1>2, <3>1
  <2> QED BY <2>1, <2>2
<1> HIDE DEF t, f, n
<1>4. First(t) = f
  BY <1>1, <1>3, IndexOfKindAt DEF First
<1>5. SubSeq(t, 1, f - 1) = SubSeq(s, 1, f - 1)
  <2> DEFINE k == f - 1
             a == SubSeq(t, 1, k)
             b == SubSeq(s, 1, k)
  <2>1. k \in 0 .. n /\ k \in 0 .. n + 1 /\ 1 \in 1 .. n + 1 /\ 1 \in 1 .. (n + 1) + 1 /\ 1 <= k + 1
    BY <1>1, <1>2
  <2> HIDE DEF k
  <2>2. Rows(a) /\ Len(a) = (k + 1) - 1 /\ \A i \in 1 .. ((k + 1) - 1) : a[i] = t[(i + 1) - 1]
    BY <1>1, <2>1, PartOf
  <2>3. Rows(b) /\ Len(b) = (k + 1) - 1 /\ \A i \in 1 .. ((k + 1) - 1) : b[i] = s[(i + 1) - 1]
    BY <2>1, PartOf DEF n
  <2> HIDE DEF a, b
  <2>4. \A i \in 1 .. k : a[i] = b[i]
    <3> SUFFICES ASSUME NEW i \in 1 .. k PROVE a[i] = b[i]
      OBVIOUS
    <3>1. i \in 1 .. ((k + 1) - 1) /\ (i + 1) - 1 = i /\ i \in 1 .. n
      BY <1>1, <2>1
    <3> QED BY <1>1, <2>2, <2>3, <3>1
  <2>5. Len(a) = k /\ Len(b) = k
    BY <2>1, <2>2, <2>3
  <2>6. PICK E, F : a \in Seq(E) /\ b \in Seq(F)
    BY <2>2, <2>3 DEF Rows
  <2>7. a = b
    <3>1. a \in Seq(E \cup F) /\ b \in Seq(E \cup F)
      BY <2>6
    <3> QED BY <2>4, <2>5, <3>1
  <2> QED BY <2>7 DEF a, b, k
<1> QED BY <1>4, <1>5 DEF Before, f, t

\* A timeline is none the wiser for a row: the cut, what is before it, and no score after
\* it where there was none.
Passes(s, t) ==
    /\ Rows(s) /\ Rows(t) /\ First(t) = First(s)
    /\ First(s) > 0 => Before(t) = Before(s) /\ (Score(s) = 0 => Score(t) = 0)

LEMMA ScoreStays ==
    ASSUME NEW s, Rows(s), NEW e, AmountTyped(e), e.kind # "ATTESTED", First(s) > 0, Score(s) = 0
    PROVE  Score(Append(s, e)) = 0
<1> DEFINE t == Append(s, e)
<1>1. Rows(t) /\ First(t) = First(s)
  BY RowsOneMore, CutStays
<1>2. \A i : HasKind(s, i, "ATTESTED") => i < First(s)
  BY ScoreIs
<1>3. \A i : HasKind(t, i, "ATTESTED") => HasKind(s, i, "ATTESTED")
  BY KindsOneMore
<1> HIDE DEF t
<1> QED BY <1>1, <1>2, <1>3, ScoreIs DEF t

LEMMA PassesOneMore ==
    ASSUME NEW s, Rows(s), NEW e, AmountTyped(e), e.kind \notin {"LIQUIDATED", "ATTESTED"}
    PROVE  Passes(s, Append(s, e))
<1> DEFINE t == Append(s, e)
<1>1. Rows(t)
  BY RowsOneMore
<1>2. CASE First(s) > 0
  BY <1>1, <1>2, CutStays, ScoreStays DEF Passes
<1>3. CASE ~(First(s) > 0)
  <2>1. First(s) = 0 /\ \A i : ~HasKind(s, i, "LIQUIDATED")
    <3>1. First(s) \in 0 .. Len(s) /\ Len(s) \in Nat
      BY RowsAre, IndexOfKindIs DEF First
    <3>2. First(s) = 0
      BY <1>3, <3>1
    <3> QED BY <3>2, IndexOfKindIs DEF First
  <2>2. \A i : ~HasKind(t, i, "LIQUIDATED")
    BY <2>1, KindsOneMore
  <2> HIDE DEF t
  <2>3. First(t) = 0
    BY <1>1, <2>2, NoneOfKind DEF First
  <2> QED BY <1>1, <1>3, <2>1, <2>3 DEF Passes, t
<1> QED BY <1>2, <1>3

\* A new score does not move the cut.
LEMMA CutUnmoved ==
    ASSUME NEW s, Rows(s), NEW e, e.kind = "ATTESTED"
    PROVE  First(Append(s, e)) = First(s)
<1> DEFINE t == Append(s, e)
<1>1. AmountTyped(e)
  BY DEF AmountTyped
<1>2. Rows(t)
  BY <1>1, RowsOneMore
<1>3. CASE First(s) > 0
  BY <1>1, <1>3, CutStays
<1>4. CASE ~(First(s) > 0)
  <2>1. First(s) = 0 /\ \A i : ~HasKind(s, i, "LIQUIDATED")
    <3>1. First(s) \in 0 .. Len(s) /\ Len(s) \in Nat
      BY RowsAre, IndexOfKindIs DEF First
    <3>2. First(s) = 0
      BY <1>4, <3>1
    <3> QED BY <3>2, IndexOfKindIs DEF First
  <2>2. \A i : ~HasKind(t, i, "LIQUIDATED")
    BY <1>1, <2>1, KindsOneMore
  <2> HIDE DEF t
  <2>3. First(t) = 0
    BY <1>2, <2>2, NoneOfKind DEF First
  <2> QED BY <2>1, <2>3 DEF t
<1> QED BY <1>3, <1>4

\* The first liquidation cuts the timeline where it is.
LEMMA FirstCut ==
    ASSUME NEW s, Rows(s), NEW e, e.kind = "LIQUIDATED", First(s) = 0
    PROVE  /\ First(Append(s, e)) > 0 /\ Before(Append(s, e)) = s
           /\ Score(Append(s, e)) = 0
<1> DEFINE t == Append(s, e)
           n == Len(s)
<1>1. AmountTyped(e)
  BY DEF AmountTyped
<1>2. n \in Nat /\ Rows(t) /\ Len(t) = n + 1 /\ \A i \in 1 .. n : t[i] = s[i]
  BY <1>1, RowsAre, RowsOneMore
<1>3. \A i : ~HasKind(s, i, "LIQUIDATED")
  BY IndexOfKindIs DEF First
<1>4. HasKind(t, n + 1, "LIQUIDATED") /\ \A i : HasKind(t, i, "LIQUIDATED") => n + 1 <= i
  <2>1. HasKind(t, n + 1, "LIQUIDATED")
    BY <1>1, KindsOneMore
  <2>2. \A i : HasKind(t, i, "LIQUIDATED") => i = n + 1
    BY <1>1, <1>3, KindsOneMore
  <2> QED BY <1>2, <2>1, <2>2
<1>5. First(t) = n + 1
  <2> DEFINE m == n + 1
  <2>1. HasKind(t, m, "LIQUIDATED") /\ \A i : HasKind(t, i, "LIQUIDATED") => m <= i
    BY <1>4
  <2> HIDE DEF t, m
  <2>2. First(t) = m
    BY <1>2, <2>1, IndexOfKindAt DEF First
  <2> QED BY <2>2 DEF m
<1>6. Before(t) = s
  <2> DEFINE b == SubSeq(t, 1, n)
  <2> HIDE DEF t, n
  <2>1. n \in 0 .. Len(t) /\ 1 \in 1 .. Len(t) + 1 /\ 1 <= n + 1
    BY <1>2
  <2>2. Rows(b) /\ Len(b) = (n + 1) - 1 /\ \A i \in 1 .. ((n + 1) - 1) : b[i] = t[(i + 1) - 1]
    BY <1>2, <2>1, PartOf
  <2> HIDE DEF b
  <2>3. Len(b) = n
    BY <1>2, <2>2
  <2>4. \A i \in 1 .. n : b[i] = s[i]
    <3> SUFFICES ASSUME NEW i \in 1 .. n PROVE b[i] = s[i]
      OBVIOUS
    <3>1. i \in 1 .. ((n + 1) - 1) /\ (i + 1) - 1 = i
      BY <1>2
    <3> QED BY <1>2, <2>2, <3>1
  <2>5. PICK E, F : b \in Seq(E) /\ s \in Seq(F)
    BY <2>2 DEF Rows
  <2>6. b = s
    <3>1. b \in Seq(E \cup F) /\ s \in Seq(E \cup F)
      BY <2>5
    <3> QED BY <2>3, <2>4, <3>1 DEF n
  <2>7. First(t) - 1 = n
    BY <1>2, <1>5
  <2> QED BY <2>6, <2>7 DEF Before, b
<1>7. Score(t) = 0
  <2>1. \A i : HasKind(t, i, "ATTESTED") => HasKind(s, i, "ATTESTED")
    BY <1>1, KindsOneMore
  <2> HIDE DEF t
  <2>2. \A i : HasKind(t, i, "ATTESTED") => i < First(t)
    <3> SUFFICES ASSUME NEW i, HasKind(t, i, "ATTESTED") PROVE i < First(t)
      OBVIOUS
    <3>1. i \in 1 .. n
      BY <2>1 DEF HasKind, n
    <3> QED BY <1>2, <1>5, <3>1
  <2>3. First(t) > 0
    BY <1>2, <1>5
  <2> QED BY <1>2, <2>2, <2>3, ScoreIs
<1> QED BY <1>2, <1>5, <1>6, <1>7

----------------------------------------------------------------------------
(* What a transaction's logs write to the timeline.                           *)

Written(t, e) == IF e.kind \in Rowless THEN t ELSE [t EXCEPT ![e.wallet] = Append(@, e)]

\* Tables whose timeline is t, unless a handler has thrown.
Shows(db, t) ==
    /\ db = [f \in Table |-> db[f]] /\ db.halted \in BOOLEAN
    /\ db.halted = FALSE => db.timeline = t

\* No handler but a liquidation's touches anything but the counts.
LEMMA CountedShows ==
    ASSUME NEW db, db = [f \in Table |-> db[f]], db.halted \in BOOLEAN, NEW e
    PROVE  Shows(Counted(db, e), db.timeline)
<1>1. Shows(OnAttested(db, e), db.timeline)
  <2> DEFINE u == [db EXCEPT !.wallets[e.wallet].attestationCount = @ + 1,
                             !.wallets[e.wallet].latestScore = e.score,
                             !.wallets[e.wallet].latestScoreIssuedAt = e.issuedAt,
                             !.wallets[e.wallet].latestScoreExpiresAt = e.expiresAt]
  <2>1. Shows(u, db.timeline) /\ u.timeline = db.timeline
    BY DEF Shows, Table
  <2>2. OnAttested(db, e) = [u EXCEPT !.totals.attestationCount = @ + 1]
    BY DEF OnAttested, Table
  <2> HIDE DEF u
  <2>3. Shows([u EXCEPT !.totals.attestationCount = @ + 1], db.timeline)
    BY <2>1 DEF Shows, Table
  <2> QED BY <2>2, <2>3
<1>2. Shows(OnLiquidationRecorded(db, e), db.timeline)
  BY DEF OnLiquidationRecorded, Shows, Table
<1>3. Shows(OnBorrowed(db, e), db.timeline)
  BY DEF OnBorrowed, Shows, Table
<1>4. Shows(OnBadDebt(db, e), db.timeline)
  BY DEF OnBadDebt, Shows, Table
<1>5. Shows(OnLiquidated(db, e), db.timeline)
  BY DEF OnLiquidated, Shows, Table
<1>6. /\ Shows([db EXCEPT !.totals.repayVolume = @ + e.amount], db.timeline)
      /\ Shows([db EXCEPT !.totals.lenderDeposits = @ + e.amount], db.timeline)
      /\ Shows([db EXCEPT !.totals.lenderWithdrawals = @ + e.amount], db.timeline)
  BY DEF Shows, Table
<1>7. Shows(OnInterestAccrued(db, e), db.timeline)
  BY DEF OnInterestAccrued, Shows, Table
<1>8. Shows(db, db.timeline)
  BY DEF Shows
<1> QED BY <1>1, <1>2, <1>3, <1>4, <1>5, <1>6, <1>7, <1>8 DEF Counted

\* A log is written, or an earlier handler has thrown.
LEMMA HandledShows ==
    ASSUME NEW db, NEW t, Shows(db, t), NEW e
    PROVE  Shows(Handle(db, e), Written(t, e))
<1> DEFINE c == Counted(db, e)
<1>1. db = [f \in Table |-> db[f]] /\ db.halted \in BOOLEAN
  BY DEF Shows
<1>2. Shows(c, db.timeline)
  BY <1>1, CountedShows
<1> HIDE DEF c
<1>3. CASE db.halted = TRUE
  <2>1. Handle(db, e) = db
    BY <1>3 DEF Handle
  <2> QED BY <1>1, <1>3, <2>1 DEF Shows
<1>4. CASE db.halted = FALSE /\ c.halted = TRUE
  <2>1. Handle(db, e) = c
    BY <1>4 DEF Handle, c
  <2> QED BY <1>2, <1>4, <2>1 DEF Shows
<1>5. CASE db.halted = FALSE /\ c.halted = FALSE
  <2>1. db.timeline = t /\ c.timeline = t /\ c = [f \in Table |-> c[f]]
    BY <1>2, <1>5 DEF Shows
  <2>2. CASE e.kind \in Rowless
    <3>1. Handle(db, e) = [c EXCEPT !.row = NoRow] /\ Written(t, e) = t
      BY <1>5, <2>2 DEF Handle, c, Written
    <3>2. Shows([c EXCEPT !.row = NoRow], t)
      BY <1>5, <2>1 DEF Shows, Table
    <3> QED BY <3>1, <3>2
  <2>3. CASE e.kind \notin Rowless
    <3>1. Handle(db, e) = WriteRow(c, e)
      BY <1>5, <2>3 DEF Handle, c
    <3>2. Written(t, e) = [t EXCEPT ![e.wallet] = Append(@, e)]
      BY <2>3 DEF Written
    <3>3. Shows(WriteRow(c, e), [t EXCEPT ![e.wallet] = Append(@, e)])
      BY <1>5, <2>1 DEF Shows, WriteRow, Table
    <3> QED BY <3>1, <3>2, <3>3
  <2> QED BY <2>2, <2>3
<1> QED BY <1>1, <1>2, <1>3, <1>4, <1>5 DEF Shows

\* The timeline at most n logs leave.
Writes(logs, n, t) == \E E : logs \in Seq(E) /\ Len(logs) <= n /\ Shows(AfterLogs(logs), t)

LEMMA NothingWritten == halted \in BOOLEAN => Writes(<<>>, 0, timeline)
<1> SUFFICES ASSUME halted \in BOOLEAN PROVE Writes(<<>>, 0, timeline)
  OBVIOUS
<1>1. <<>> \in Seq({}) /\ Len(<<>>) <= 0
  OBVIOUS
<1>2. Shows(AsDb, timeline)
  BY DEF AsDb, Shows, Table
<1> QED BY <1>1, <1>2, AfterNone DEF Writes

LEMMA OneMoreWritten ==
    ASSUME NEW logs, NEW n \in 0 .. 3, NEW t, Writes(logs, n, t), NEW e
    PROVE  Writes(logs \o <<e>>, n + 1, Written(t, e))
<1>1. PICK E : logs \in Seq(E) /\ Len(logs) <= n /\ Shows(AfterLogs(logs), t)
  BY DEF Writes
<1> DEFINE F == E \cup {e}
<1>2. logs \in Seq(F) /\ e \in F /\ <<e>> \in Seq(F)
  BY <1>1
<1> HIDE DEF F
<1>3. Len(logs) <= 3
  BY <1>1
<1>4. AfterLogs(logs \o <<e>>) = Handle(AfterLogs(logs), e)
  BY <1>2, <1>3, AfterOneMore
<1>5. logs \o <<e>> \in Seq(F) /\ Len(logs \o <<e>>) <= n + 1
  <2> DEFINE last == <<e>>
  <2>1. Len(last) = 1
    OBVIOUS
  <2> HIDE DEF last
  <2>2. logs \o last \in Seq(F) /\ Len(logs \o last) = Len(logs) + Len(last)
    BY <1>2 DEF last
  <2>3. Len(logs) \in Nat
    BY <1>2
  <2> QED BY <1>1, <2>1, <2>2, <2>3 DEF last
<1>6. Shows(Handle(AfterLogs(logs), e), Written(t, e))
  BY <1>1, HandledShows
<1> QED BY <1>4, <1>5, <1>6 DEF Writes

\* A log that may not be there.
LEMMA MaybeWritten ==
    ASSUME NEW logs, NEW n \in 0 .. 3, NEW t, Writes(logs, n, t), NEW more,
           NEW e, more = <<>> \/ more = <<e>>
    PROVE  Writes(logs \o more, n + 1, t) \/ Writes(logs \o more, n + 1, Written(t, e))
<1>1. CASE more = <<>>
  <2>1. PICK E : logs \in Seq(E) /\ Len(logs) <= n /\ Shows(AfterLogs(logs), t)
    BY DEF Writes
  <2>2. logs \o <<>> = logs /\ Len(logs) \in Nat
    BY <2>1
  <2>3. Len(logs) <= n + 1
    BY <2>1, <2>2
  <2>4. Writes(logs \o <<>>, n + 1, t)
    BY <2>1, <2>2, <2>3 DEF Writes
  <2> QED BY <1>1, <2>4
<1>2. CASE more = <<e>>
  BY <1>2, OneMoreWritten
<1> QED BY <1>1, <1>2

LEMMA TimelineIs ==
    ASSUME NEW logs, NEW n, NEW t, Writes(logs, n, t), Emit(logs), halted' = FALSE
    PROVE  timeline' = t
BY DEF Emit, Writes, Shows, AfterLogs

\* Interest has no row.
LEMMA InterestWritten == halted \in BOOLEAN => Writes(Accrued, 1, timeline)
<1> SUFFICES ASSUME halted \in BOOLEAN PROVE Writes(Accrued, 1, timeline)
  OBVIOUS
<1> DEFINE none == <<>>
           e == [kind |-> "INTEREST", borrowIndex |-> M!Index, interest |-> M!Interest,
                 toReserves |-> M!Reserves - reserves]
<1>1. Writes(none, 0, timeline)
  BY NothingWritten
<1>2. Accrued = <<>> \/ Accrued = <<e>>
  BY DEF Accrued
<1>3. none \o Accrued = Accrued
  <2>1. <<>> \o <<>> = <<>> /\ <<>> \o <<e>> = <<e>>
    OBVIOUS
  <2> QED BY <1>2, <2>1
<1>4. Written(timeline, e) = timeline
  BY DEF Written, Rowless
<1> HIDE DEF none, e
<1>5. Writes(none \o Accrued, 0 + 1, timeline) \/ Writes(none \o Accrued, 0 + 1, Written(timeline, e))
  BY <1>1, <1>2, MaybeWritten
<1> QED BY <1>4, <1>5, <1>3

----------------------------------------------------------------------------
(* What a transaction writes to each wallet's timeline.                       *)

OneRow(t, t2, w, e) == t2 = [t EXCEPT ![w] = Append(@, e)]

\* A transaction of the pool writes nothing.
LEMMA PoolWrites ==
    ASSUME halted \in BOOLEAN, halted' = FALSE, NEW e, e.kind \in Rowless, Emit(Accrued \o <<e>>)
    PROVE  timeline' = timeline
<1>1. Writes(Accrued \o <<e>>, 1 + 1, Written(timeline, e))
  BY InterestWritten, OneMoreWritten
<1>2. Written(timeline, e) = timeline
  BY DEF Written
<1> QED BY <1>1, <1>2, TimelineIs

\* A score and a deposit of collateral write one row.
LEMMA SingleWrites ==
    ASSUME halted \in BOOLEAN, halted' = FALSE, NEW e, e.kind \notin Rowless, Emit(<<e>>)
    PROVE  OneRow(timeline, timeline', e.wallet, e)
<1> DEFINE none == <<>>
<1>1. none \o <<e>> = <<e>>
  OBVIOUS
<1>2. Writes(none, 0, timeline)
  BY NothingWritten
<1> HIDE DEF none
<1>3. Writes(none \o <<e>>, 0 + 1, Written(timeline, e))
  BY <1>2, OneMoreWritten
<1>4. timeline' = Written(timeline, e)
  BY <1>1, <1>3, TimelineIs
<1> QED BY <1>4 DEF Written, OneRow

\* So does a repayment.
LEMMA AccruedWrites ==
    ASSUME halted \in BOOLEAN, halted' = FALSE, NEW e, e.kind \notin Rowless, Emit(Accrued \o <<e>>)
    PROVE  OneRow(timeline, timeline', e.wallet, e)
<1>1. Writes(Accrued \o <<e>>, 1 + 1, Written(timeline, e))
  BY InterestWritten, OneMoreWritten
<1>2. timeline' = Written(timeline, e)
  BY <1>1, TimelineIs
<1> QED BY <1>2 DEF Written, OneRow

\* A loan and a withdrawal of collateral may write the re-tiering before.
LEMMA RetieredWrites ==
    ASSUME halted \in BOOLEAN, halted' = FALSE, NEW more, NEW d, more = <<>> \/ more = <<d>>,
           d.kind \notin Rowless, NEW e, e.kind \notin Rowless, Emit(Accrued \o more \o <<e>>)
    PROVE  \E t : /\ t = timeline \/ OneRow(timeline, t, d.wallet, d)
                  /\ OneRow(t, timeline', e.wallet, e)
<1> DEFINE two == Accrued \o more
<1>1. Writes(two, 1 + 1, timeline) \/ Writes(two, 1 + 1, Written(timeline, d))
  BY InterestWritten, MaybeWritten
<1> HIDE DEF two
<1>2. PICK t : t \in {timeline, Written(timeline, d)} /\ Writes(two, 2, t)
  BY <1>1
<1>3. Writes(two \o <<e>>, 2 + 1, Written(t, e))
  BY <1>2, OneMoreWritten
<1>4. timeline' = Written(t, e)
  BY <1>3, TimelineIs DEF two
<1> QED BY <1>2, <1>4 DEF Written, OneRow

\* A liquidation may write the loss before it, and writes the registry's record after it.
LEMMA LiquidationWrites ==
    ASSUME halted \in BOOLEAN, halted' = FALSE, NEW more, NEW d, more = <<>> \/ more = <<d>>,
           d.kind \notin Rowless, NEW e, e.kind \notin Rowless, NEW r, r.kind \notin Rowless,
           Emit(Accrued \o more \o <<e>> \o <<r>>)
    PROVE  \E t, u : /\ t = timeline \/ OneRow(timeline, t, d.wallet, d)
                     /\ OneRow(t, u, e.wallet, e)
                     /\ OneRow(u, timeline', r.wallet, r)
<1> DEFINE two == Accrued \o more
           three == two \o <<e>>
<1>1. Writes(two, 1 + 1, timeline) \/ Writes(two, 1 + 1, Written(timeline, d))
  BY InterestWritten, MaybeWritten
<1> HIDE DEF two
<1>2. PICK t : t \in {timeline, Written(timeline, d)} /\ Writes(two, 2, t)
  BY <1>1
<1>3. Writes(three, 2 + 1, Written(t, e))
  BY <1>2, OneMoreWritten
<1> HIDE DEF three
<1>4. Writes(three \o <<r>>, 3 + 1, Written(Written(t, e), r))
  <2>1. Writes(three, 3, Written(t, e))
    BY <1>3
  <2> QED BY <2>1, OneMoreWritten
<1>5. timeline' = Written(Written(t, e), r)
  BY <1>4, TimelineIs DEF two, three
<1> QED BY <1>2, <1>5 DEF Written, OneRow

----------------------------------------------------------------------------
(* The inductive invariant of LoopIsTrue: until a wallet is liquidated, what   *)
(* its rows put in and took out is the collateral it holds.                   *)

ByWallet(t) == t = [w \in Wallet |-> t[w]]
Held(s, c) == First(s) = 0 => netCollateral(s) = c
LoopInv ==
    /\ ByWallet(timeline)
    /\ \A w \in Wallet : Rows(timeline[w]) /\ Held(timeline[w], collateral[w])

\* What LoopIsTrue says of a step and a wallet: the page's two claims.
Told(w) ==
    First(timeline'[w]) > 0 =>
      /\ First(timeline[w]) = 0 => netCollateral(Before(timeline'[w])) = collateral[w]
      /\ (Score(timeline'[w]) > 0 /\ Score(timeline[w]) = 0) =>
           Last(timeline'[w]).issuedAt > liquidations[w].lastLiquidatedAt
Kept(w) == Rows(timeline'[w]) /\ Held(timeline'[w], collateral'[w]) /\ Told(w)
Step == ByWallet(timeline') /\ \A w \in Wallet : Kept(w)

\* Rows that neither liquidate nor score, and that moved d of collateral in all.
Adds(s, t, d) == Passes(s, t) /\ d \in Int /\ netCollateral(t) = netCollateral(s) + d
                 /\ netCollateral(s) \in Int

LEMMA NetType == ASSUME NEW s, Rows(s) PROVE netCollateral(s) \in Int
<1> DEFINE e == [kind |-> "REPAID"]
<1>1. AmountTyped(e)
  BY DEF AmountTyped
<1> HIDE DEF e
<1> QED BY <1>1, NetOneMore

LEMMA AddsNone == ASSUME NEW s, Rows(s) PROVE Adds(s, s, 0)
<1>1. netCollateral(s) \in Int
  BY NetType
<1> QED BY <1>1 DEF Adds, Passes

LEMMA AddsOne ==
    ASSUME NEW s, Rows(s), NEW e, AmountTyped(e), e.kind \notin {"LIQUIDATED", "ATTESTED"}
    PROVE  Adds(s, Append(s, e), Signed(e))
<1>1. Passes(s, Append(s, e))
  BY PassesOneMore
<1>2. netCollateral(Append(s, e)) = netCollateral(s) + Signed(e) /\ netCollateral(s) \in Int
  BY NetOneMore
<1>3. Signed(e) \in Int
  BY DEF Signed, AmountTyped
<1> QED BY <1>1, <1>2, <1>3 DEF Adds

LEMMA AddsBoth ==
    ASSUME NEW s, NEW t, NEW u, NEW c, NEW d, Adds(s, t, c), Adds(t, u, d)
    PROVE  Adds(s, u, c + d)
<1>1. Passes(s, u)
  BY DEF Adds, Passes
<1>2. c + d \in Int /\ netCollateral(u) = netCollateral(s) + (c + d) /\ netCollateral(s) \in Int
  BY DEF Adds
<1> QED BY <1>1, <1>2 DEF Adds

\* A wallet whose rows are those, and whose collateral moved by as much.
LEMMA KeptBy ==
    ASSUME LoopInv, NEW w \in Wallet, NEW d, Adds(timeline[w], timeline'[w], d),
           collateral[w] \in Int, collateral'[w] = collateral[w] + d
    PROVE  Kept(w)
<1> DEFINE s == timeline[w]
           t == timeline'[w]
<1>1. Rows(s) /\ Held(s, collateral[w])
  BY DEF LoopInv
<1>2. Passes(s, t) /\ netCollateral(t) = netCollateral(s) + d
  BY DEF Adds
<1>3. First(s) \in Nat
  BY <1>1, IndexOfKindIs, RowsAre DEF First
<1>4. Held(t, collateral'[w])
  BY <1>1, <1>2 DEF Held, Passes
<1>5. First(t) > 0 =>
        /\ First(s) = 0 => netCollateral(Before(t)) = collateral[w]
        /\ (Score(t) > 0 /\ Score(s) = 0) => Last(t).issuedAt > liquidations[w].lastLiquidatedAt
  BY <1>2, <1>3 DEF Passes
<1> QED BY <1>2, <1>4, <1>5 DEF Kept, Told, Passes

\* A wallet the step does not concern.
LEMMA KeptSame ==
    ASSUME LoopInv, NEW w \in Wallet, timeline'[w] = timeline[w], collateral'[w] = collateral[w],
           collateral[w] \in Int
    PROVE  Kept(w)
<1>1. Adds(timeline[w], timeline'[w], 0)
  BY AddsNone DEF LoopInv
<1>2. collateral'[w] = collateral[w] + 0
  OBVIOUS
<1> QED BY <1>1, <1>2, KeptBy

\* A step that writes nothing.
LEMMA SilentKeeps ==
    ASSUME LoopInv, collateral \in [Wallet -> Nat], timeline' = timeline, collateral' = collateral
    PROVE  Step
<1>1. \A w \in Wallet : Kept(w)
  <2> SUFFICES ASSUME NEW w \in Wallet PROVE Kept(w)
    OBVIOUS
  <2>1. timeline'[w] = timeline[w] /\ collateral'[w] = collateral[w] /\ collateral[w] \in Int
    OBVIOUS
  <2> QED BY <2>1, KeptSame
<1> QED BY <1>1 DEF Step, LoopInv

\* A row of one wallet leaves the others' alone.
LEMMA OneRowIs ==
    ASSUME NEW t, ByWallet(t), NEW t2, NEW w \in Wallet, NEW e, OneRow(t, t2, w, e)
    PROVE  /\ ByWallet(t2) /\ t2[w] = Append(t[w], e)
           /\ \A u \in Wallet : u # w => t2[u] = t[u]
BY DEF OneRow, ByWallet

\* A step of one wallet.
LEMMA StepOf ==
    ASSUME LoopInv, collateral \in [Wallet -> Nat], NEW w \in Wallet,
           ByWallet(timeline'),
           \A u \in Wallet : u # w => timeline'[u] = timeline[u] /\ collateral'[u] = collateral[u],
           Kept(w)
    PROVE  Step
<1>1. ASSUME NEW u \in Wallet, u # w PROVE Kept(u)
  <2>1. timeline'[u] = timeline[u] /\ collateral'[u] = collateral[u] /\ collateral[u] \in Int
    BY <1>1
  <2> QED BY <2>1, KeptSame
<1> QED BY <1>1 DEF Step

\* A transaction of w that may write d, which moves nothing, and writes e.
LEMMA RowsKeep ==
    ASSUME LoopInv, collateral \in [Wallet -> Nat], NEW w \in Wallet,
           NEW t, NEW d, t = timeline \/ OneRow(timeline, t, w, d), AmountTyped(d), Signed(d) = 0,
           d.kind \notin {"LIQUIDATED", "ATTESTED"},
           NEW e, OneRow(t, timeline', w, e), AmountTyped(e),
           e.kind \notin {"LIQUIDATED", "ATTESTED"},
           collateral' = [collateral EXCEPT ![w] = @ + Signed(e)]
    PROVE  Step
<1>1. ByWallet(timeline) /\ Rows(timeline[w])
  BY DEF LoopInv
<1>2. /\ ByWallet(t) /\ Adds(timeline[w], t[w], 0)
      /\ \A u \in Wallet : u # w => t[u] = timeline[u]
  <2>1. CASE t = timeline
    BY <1>1, <2>1, AddsNone
  <2>2. CASE OneRow(timeline, t, w, d)
    <3>1. /\ ByWallet(t) /\ t[w] = Append(timeline[w], d)
          /\ \A u \in Wallet : u # w => t[u] = timeline[u]
      BY <1>1, <2>2, OneRowIs
    <3>2. Adds(timeline[w], Append(timeline[w], d), Signed(d))
      BY <1>1, AddsOne
    <3> QED BY <3>1, <3>2
  <2> QED BY <2>1, <2>2
<1> DEFINE t2 == timeline'
<1> HIDE DEF t2
<1>3. /\ ByWallet(t2) /\ t2[w] = Append(t[w], e)
      /\ \A u \in Wallet : u # w => t2[u] = t[u]
  <2>1. OneRow(t, t2, w, e)
    BY DEF t2
  <2> QED BY <1>2, <2>1, OneRowIs
<1>4. Rows(t[w])
  BY <1>2 DEF Adds, Passes
<1>5. Adds(t[w], t2[w], Signed(e))
  BY <1>3, <1>4, AddsOne
<1>6. Adds(timeline[w], t2[w], 0 + Signed(e))
  BY <1>2, <1>5, AddsBoth
<1>7. Signed(e) \in Int /\ collateral'[w] = collateral[w] + Signed(e) /\ collateral[w] \in Int
      /\ \A u \in Wallet : u # w => collateral'[u] = collateral[u]
  BY <1>5 DEF Adds
<1>8. 0 + Signed(e) = Signed(e)
  BY <1>7
<1>9. Kept(w)
  BY <1>6, <1>7, <1>8, KeptBy DEF t2
<1> QED BY <1>2, <1>3, <1>7, <1>9, StepOf DEF t2

\* A score: the row says when its data is from, after the last liquidation.
LEMMA ScoreKeeps ==
    ASSUME LoopInv, collateral \in [Wallet -> Nat], NEW w \in Wallet, NEW e, e.kind = "ATTESTED",
           OneRow(timeline, timeline', w, e), collateral' = collateral,
           e.issuedAt > liquidations[w].lastLiquidatedAt
    PROVE  Step
<1> DEFINE s == timeline[w]
           t == timeline'[w]
<1>1. ByWallet(timeline) /\ Rows(s) /\ Held(s, collateral[w])
  BY DEF LoopInv
<1>2. AmountTyped(e) /\ Signed(e) = 0
  BY DEF AmountTyped, Signed
<1> DEFINE t2 == timeline'
<1> HIDE DEF t2
<1>3. /\ ByWallet(t2) /\ t2[w] = Append(timeline[w], e)
      /\ \A u \in Wallet : u # w => t2[u] = timeline[u]
  <2>1. OneRow(timeline, t2, w, e)
    BY DEF t2
  <2> QED BY <1>1, <2>1, OneRowIs
<1>4. t = Append(s, e)
  BY <1>3 DEF t2
<1> HIDE DEF s, t
<1>5. Rows(t) /\ First(t) = First(s) /\ netCollateral(t) = netCollateral(s) + Signed(e)
      /\ netCollateral(s) \in Int
  BY <1>1, <1>2, <1>4, RowsOneMore, CutUnmoved, NetOneMore
<1>6. Last(t) = e
  <2>1. Len(t) = Len(s) + 1 /\ t[Len(s) + 1] = e
    BY <1>1, <1>2, <1>4, RowsOneMore
  <2> QED BY <2>1 DEF Last
<1>7. First(s) \in Nat
  BY <1>1, IndexOfKindIs, RowsAre DEF First
<1>8. Held(t, collateral[w])
  BY <1>1, <1>2, <1>5 DEF Held
<1>9. Kept(w)
  BY <1>5, <1>6, <1>7, <1>8 DEF Kept, Told, s, t
<1> QED BY <1>3, <1>9, StepOf DEF t2

\* The rows of a liquidation, where s is the timeline with the row of the loss, and t with
\* that of the registry's record: the cut is there, and no score after it that was not.
Cuts(s0, s, t) ==
    /\ Rows(t) /\ First(t) > 0
    /\ First(s0) = 0 => Before(t) = s /\ Score(t) = 0
    /\ First(s0) # 0 /\ Score(s0) = 0 => Score(t) = 0

LEMMA CutRows ==
    ASSUME NEW s0, Rows(s0), NEW s1, Adds(s0, s1, 0), NEW e, e.kind = "LIQUIDATED",
           NEW r, AmountTyped(r), r.kind \notin {"LIQUIDATED", "ATTESTED"},
           NEW s3, s3 = Append(Append(s1, e), r)
    PROVE  Cuts(s0, s1, s3)
<1> DEFINE s2 == Append(s1, e)
<1>1. Rows(s1) /\ First(s1) = First(s0) /\ (First(s0) > 0 => (Score(s0) = 0 => Score(s1) = 0))
  BY DEF Adds, Passes
<1>2. AmountTyped(e)
  BY DEF AmountTyped
<1>3. Rows(s2)
  BY <1>1, <1>2, RowsOneMore
<1>4. First(s1) = 0 => First(s2) > 0 /\ Before(s2) = s1 /\ Score(s2) = 0
  BY <1>1, FirstCut
<1>5. First(s1) > 0 => First(s2) = First(s1) /\ (Score(s1) = 0 => Score(s2) = 0)
  BY <1>1, <1>2, CutStays, ScoreStays
<1> HIDE DEF s2
<1>6. Passes(s2, s3)
  BY <1>3, PassesOneMore DEF s2
<1>7. First(s1) = 0 \/ First(s1) > 0
  <2>1. First(s1) \in 0 .. Len(s1) /\ Len(s1) \in Nat
    BY <1>1, IndexOfKindIs, RowsAre DEF First
  <2> QED BY <2>1
<1>8. CASE First(s1) = 0
  BY <1>1, <1>4, <1>6, <1>8 DEF Passes, Cuts
<1>9. CASE First(s1) > 0
  <2>1. First(s2) > 0 /\ Rows(s3) /\ First(s3) = First(s2) /\ (Score(s2) = 0 => Score(s3) = 0)
    BY <1>5, <1>6, <1>9 DEF Passes
  <2>2. First(s0) # 0 /\ First(s0) > 0
    BY <1>1, <1>9
  <2> QED BY <1>1, <1>5, <1>9, <2>1, <2>2 DEF Cuts
<1> QED BY <1>7, <1>8, <1>9

\* A liquidation: the rows before it hold what the wallet held.
LEMMA CutKeeps ==
    ASSUME LoopInv, collateral \in [Wallet -> Nat], NEW w \in Wallet,
           NEW t, NEW u, NEW d, t = timeline \/ OneRow(timeline, t, w, d), AmountTyped(d),
           Signed(d) = 0, d.kind \notin {"LIQUIDATED", "ATTESTED"},
           NEW e, OneRow(t, u, w, e), e.kind = "LIQUIDATED",
           NEW r, OneRow(u, timeline', w, r), AmountTyped(r), r.kind \notin {"LIQUIDATED", "ATTESTED"},
           \A v \in Wallet : v # w => collateral'[v] = collateral[v]
    PROVE  Step
<1>1. ByWallet(timeline) /\ Rows(timeline[w]) /\ Held(timeline[w], collateral[w])
  BY DEF LoopInv
<1>2. /\ ByWallet(t) /\ Adds(timeline[w], t[w], 0)
      /\ \A v \in Wallet : v # w => t[v] = timeline[v]
  <2>1. CASE t = timeline
    BY <1>1, <2>1, AddsNone
  <2>2. CASE OneRow(timeline, t, w, d)
    <3>1. /\ ByWallet(t) /\ t[w] = Append(timeline[w], d)
          /\ \A v \in Wallet : v # w => t[v] = timeline[v]
      BY <1>1, <2>2, OneRowIs
    <3>2. Adds(timeline[w], Append(timeline[w], d), Signed(d))
      BY <1>1, AddsOne
    <3> QED BY <3>1, <3>2
  <2> QED BY <2>1, <2>2
<1>3. /\ ByWallet(u) /\ u[w] = Append(t[w], e)
      /\ \A v \in Wallet : v # w => u[v] = t[v]
  BY <1>2, OneRowIs
<1> DEFINE t3 == timeline'
<1> HIDE DEF t3
<1>4. /\ ByWallet(t3) /\ t3[w] = Append(u[w], r)
      /\ \A v \in Wallet : v # w => t3[v] = u[v]
  <2>1. OneRow(u, t3, w, r)
    BY DEF t3
  <2> QED BY <1>3, <2>1, OneRowIs
<1>5. Told(w) /\ Rows(t3[w]) /\ First(t3[w]) > 0
  <2> DEFINE s0 == timeline[w]  s1 == t[w]  s3 == t3[w]
  <2>1. /\ Rows(s0) /\ Adds(s0, s1, 0) /\ Held(s0, collateral[w])
        /\ s3 = Append(Append(s1, e), r)
    BY <1>1, <1>2, <1>3, <1>4
  <2> HIDE DEF s0, s1, s3
  <2>2. /\ Rows(s3) /\ First(s3) > 0
        /\ First(s0) = 0 => Before(s3) = s1 /\ Score(s3) = 0
        /\ First(s0) # 0 /\ Score(s0) = 0 => Score(s3) = 0
    <3>1. Cuts(s0, s1, s3)
      BY <2>1, CutRows
    <3> QED BY <3>1 DEF Cuts
  <2>3. netCollateral(s1) = netCollateral(s0)
    BY <2>1 DEF Adds
  <2>4. First(s0) = 0 => netCollateral(Before(s3)) = collateral[w]
    BY <2>1, <2>2, <2>3 DEF Held
  <2>5. ~(Score(s3) > 0 /\ Score(s0) = 0)
    BY <2>2
  <2>6. Told(w)
    BY <2>4, <2>5 DEF Told, s0, s3, t3
  <2> QED BY <2>2, <2>6 DEF s3
<1>6. Kept(w)
  BY <1>5 DEF Kept, Held, t3
<1>7. \A v \in Wallet : v # w => timeline'[v] = timeline[v] /\ collateral'[v] = collateral[v]
  BY <1>2, <1>3, <1>4 DEF t3
<1>8. ByWallet(timeline')
  BY <1>4 DEF t3
<1> QED BY <1>6, <1>7, <1>8, StepOf

----------------------------------------------------------------------------
(* Every transaction keeps it.                                                *)

\* Transactions that move no collateral.
LEMMA PoolStays ==
    ASSUME NEW l, NEW x, Deposit(l, x) \/ Withdraw(l, x) PROVE collateral' = collateral
BY DEF Deposit, Withdraw, OfMarket, M!Deposit, M!Withdraw, M!Enter, M!Leave, M!pledge

LEMMA DebtStays ==
    ASSUME NEW w, NEW x, Borrow(w, x) \/ Repay(w, x) PROVE collateral' = collateral
BY DEF Borrow, Repay, OfMarket, M!Borrow, M!Repay, M!pledge

LEMMA SubmissionStays ==
    ASSUME NEW a, NEW k, SubmitAttestation(a, k) PROVE collateral' = collateral
BY DEF SubmitAttestation, MarketUntouched, book

LEMMA SubmissionLoops ==
    ASSUME LoopInv, collateral \in [Wallet -> Nat], halted = FALSE, halted' = FALSE,
           NEW a \in Payload, NEW k \in Signer, SubmitAttestation(a, k), Emit(Attested(a))
    PROVE  Step
<1> DEFINE w == a.wallet
           e == [kind |-> "ATTESTED", wallet |-> a.wallet, score |-> a.score,
                 issuedAt |-> a.issuedAt, expiresAt |-> a.expiresAt]
<1>1. w \in Wallet /\ a.issuedAt > liquidations[w].lastLiquidatedAt
  BY DEF Payload, R!Attestation, SubmitAttestation, R!SubmitAttestation, R!Submittable
<1>2. Attested(a) = <<e>> /\ e.kind = "ATTESTED" /\ e.wallet = w /\ e.issuedAt = a.issuedAt
  BY DEF Attested
<1>3. collateral' = collateral
  BY SubmissionStays
<1> HIDE DEF w, e
<1>4. e.kind \notin Rowless
  BY <1>2 DEF Rowless
<1>5. OneRow(timeline, timeline', w, e)
  <2>1. halted \in BOOLEAN /\ Emit(<<e>>)
    BY <1>2
  <2> QED BY <1>2, <1>4, <2>1, SingleWrites
<1> QED BY <1>1, <1>2, <1>3, <1>5, ScoreKeeps

LEMMA PoolLoops ==
    ASSUME LoopInv, collateral \in [Wallet -> Nat], halted = FALSE, halted' = FALSE,
           NEW l, NEW x, OfLenders(l, x)
    PROVE  Step
<1>1. ASSUME NEW kind \in {"DEPOSIT", "WITHDRAW"}, Emit(Accrued \o <<[kind |-> kind, amount |-> x]>>),
             collateral' = collateral
      PROVE  Step
  <2> DEFINE e == [kind |-> kind, amount |-> x]
  <2>1. e.kind \in Rowless
    BY DEF Rowless
  <2>2. Emit(Accrued \o <<e>>) /\ halted \in BOOLEAN
    BY <1>1
  <2> HIDE DEF e
  <2>3. timeline' = timeline
    BY <2>1, <2>2, PoolWrites
  <2> QED BY <1>1, <2>3, SilentKeeps
<1>2. CASE Deposit(l, x) /\ Emit(Accrued \o <<[kind |-> "DEPOSIT", amount |-> x]>>)
  BY <1>1, <1>2, PoolStays
<1>3. CASE Withdraw(l, x) /\ Emit(Accrued \o <<[kind |-> "WITHDRAW", amount |-> x]>>)
  BY <1>1, <1>3, PoolStays
<1> QED BY <1>2, <1>3 DEF OfLenders

\* A row of w alone, with the collateral it moved.
LEMMA RowKeeps ==
    ASSUME LoopInv, collateral \in [Wallet -> Nat], NEW w \in Wallet,
           NEW e, OneRow(timeline, timeline', w, e), AmountTyped(e),
           e.kind \notin {"LIQUIDATED", "ATTESTED"},
           collateral' = [collateral EXCEPT ![w] = @ + Signed(e)]
    PROVE  Step
<1> DEFINE d == [kind |-> "RETIERED"]
<1>1. AmountTyped(d) /\ Signed(d) = 0 /\ d.kind \notin {"LIQUIDATED", "ATTESTED"}
  BY DEF AmountTyped, Signed
<1> HIDE DEF d
<1>2. timeline = timeline \/ OneRow(timeline, timeline, w, d)
  OBVIOUS
<1> QED BY <1>1, <1>2, RowsKeep

\* The re-tiering's row, if there is one.
Tiering(w) == [kind |-> "RETIERED", wallet |-> w, tier |-> R!EffectiveTier(w)]
LEMMA TieringIs ==
    ASSUME NEW w
    PROVE  /\ Tiering(w).kind \notin Rowless /\ Tiering(w).wallet = w
           /\ AmountTyped(Tiering(w)) /\ Signed(Tiering(w)) = 0
           /\ Tiering(w).kind \notin {"LIQUIDATED", "ATTESTED"}
           /\ Retiered(w) = <<>> \/ Retiered(w) = <<Tiering(w)>>
           /\ Repriced(w) = <<>> \/ Repriced(w) = <<Tiering(w)>>
BY DEF Tiering, Rowless, AmountTyped, Signed, Retiered, Repriced

\* A row after it.
LEMMA TieredKeeps ==
    ASSUME LoopInv, collateral \in [Wallet -> Nat], halted = FALSE, halted' = FALSE,
           NEW w \in Wallet, NEW more, more = <<>> \/ more = <<Tiering(w)>>,
           NEW e, e.wallet = w, e.kind \in {"BORROWED", "COLLATERAL_OUT"}, AmountTyped(e),
           Emit(Accrued \o more \o <<e>>),
           collateral' = [collateral EXCEPT ![w] = @ + Signed(e)]
    PROVE  Step
<1> DEFINE d == Tiering(w)
<1>1. /\ d.kind \notin Rowless /\ d.wallet = w /\ AmountTyped(d) /\ Signed(d) = 0
      /\ d.kind \notin {"LIQUIDATED", "ATTESTED"}
  BY TieringIs
<1>2. more = <<>> \/ more = <<d>>
  OBVIOUS
<1> HIDE DEF d
<1>3. e.kind \notin Rowless /\ e.kind \notin {"LIQUIDATED", "ATTESTED"} /\ halted \in BOOLEAN
  BY DEF Rowless
<1>4. PICK t : (t = timeline \/ OneRow(timeline, t, w, d)) /\ OneRow(t, timeline', w, e)
  <2>1. PICK t : /\ t = timeline \/ OneRow(timeline, t, d.wallet, d)
                 /\ OneRow(t, timeline', e.wallet, e)
    BY <1>1, <1>2, <1>3, RetieredWrites
  <2> QED BY <1>1, <2>1
<1> QED BY <1>1, <1>3, <1>4, RowsKeep

LEMMA CollateralLoops ==
    ASSUME LoopInv, collateral \in [Wallet -> Nat], halted = FALSE, halted' = FALSE,
           NEW w \in Wallet, NEW x \in CollateralInput, OfCollateral(w, x)
    PROVE  Step
<1> DEFINE in == [kind |-> "COLLATERAL_IN", wallet |-> w, amount |-> x]
           out == [kind |-> "COLLATERAL_OUT", wallet |-> w, amount |-> x]
<1>1. x \in Nat /\ collateral[w] \in Nat /\ halted \in BOOLEAN
  BY TenorAssumption
<1>2. /\ in.kind = "COLLATERAL_IN" /\ in.wallet = w /\ in.amount = x
      /\ Moved("COLLATERAL_IN", w, x) = <<in>>
      /\ out.kind = "COLLATERAL_OUT" /\ out.wallet = w /\ out.amount = x
      /\ Moved("COLLATERAL_OUT", w, x) = <<out>>
  BY DEF Moved
<1> HIDE DEF in, out
<1>3. /\ AmountTyped(in) /\ Signed(in) = x /\ in.kind \notin Rowless
      /\ in.kind \notin {"LIQUIDATED", "ATTESTED"}
      /\ AmountTyped(out) /\ Signed(out) = - x
  BY <1>1, <1>2 DEF AmountTyped, Signed, Rowless
<1>4. CASE DepositCollateral(w, x) /\ Emit(Moved("COLLATERAL_IN", w, x))
  <2>1. collateral' = [collateral EXCEPT ![w] = @ + x]
    BY <1>4 DEF DepositCollateral, OfMarket, M!DepositCollateral
  <2>2. OneRow(timeline, timeline', w, in)
    <3>1. Emit(<<in>>)
      BY <1>2, <1>4
    <3> QED BY <1>1, <1>2, <1>3, <3>1, SingleWrites
  <2>3. collateral' = [collateral EXCEPT ![w] = @ + Signed(in)]
    BY <1>3, <2>1
  <2> QED BY <1>3, <2>2, <2>3, RowKeeps
<1>5. CASE WithdrawCollateral(w, x) /\ Emit(Accrued \o Repriced(w) \o Moved("COLLATERAL_OUT", w, x))
  <2>1. collateral' = [collateral EXCEPT ![w] = @ - x]
    BY <1>5 DEF WithdrawCollateral, OfMarket, M!WithdrawCollateral
  <2>2. collateral[w] - x = collateral[w] + Signed(out)
    BY <1>1, <1>3
  <2>3. collateral' = [collateral EXCEPT ![w] = @ + Signed(out)]
    BY <2>1, <2>2
  <2> DEFINE more == Repriced(w)
  <2>4. (more = <<>> \/ more = <<Tiering(w)>>) /\ Emit(Accrued \o more \o <<out>>)
    BY <1>2, <1>5, TieringIs
  <2> HIDE DEF more
  <2>5. out.wallet = w /\ out.kind \in {"BORROWED", "COLLATERAL_OUT"}
    BY <1>2
  <2> QED BY <1>3, <2>3, <2>4, <2>5, TieredKeeps
<1> QED BY <1>4, <1>5 DEF OfCollateral

\* Collateral that does not move.
LEMMA NoneMoved ==
    ASSUME collateral \in [Wallet -> Nat], NEW w \in Wallet, collateral' = collateral, NEW n, n = 0
    PROVE  collateral' = [collateral EXCEPT ![w] = @ + n]
<1>1. collateral[w] \in Nat /\ collateral[w] + n = collateral[w]
  OBVIOUS
<1> QED BY <1>1

LEMMA BorrowLoops ==
    ASSUME LoopInv, collateral \in [Wallet -> Nat], halted = FALSE, halted' = FALSE,
           NEW w \in Wallet, NEW x, Borrow(w, x), Emit(Accrued \o Retiered(w) \o Borrowed(w, x))
    PROVE  Step
<1> DEFINE e == [kind |-> "BORROWED", wallet |-> w, amount |-> x, tier |-> R!EffectiveTier(w),
                 price |-> M!Price("coll")]
           more == Retiered(w)
<1>1. Borrowed(w, x) = <<e>> /\ e.kind = "BORROWED" /\ e.wallet = w
  BY DEF Borrowed
<1>2. (more = <<>> \/ more = <<Tiering(w)>>) /\ Emit(Accrued \o more \o <<e>>)
  BY <1>1, TieringIs
<1> HIDE DEF e, more
<1>3. AmountTyped(e) /\ Signed(e) = 0 /\ e.kind \in {"BORROWED", "COLLATERAL_OUT"}
  BY <1>1 DEF AmountTyped, Signed
<1>4. collateral' = [collateral EXCEPT ![w] = @ + Signed(e)]
  BY <1>3, DebtStays, NoneMoved
<1> QED BY <1>1, <1>2, <1>3, <1>4, TieredKeeps

LEMMA RepayLoops ==
    ASSUME LoopInv, collateral \in [Wallet -> Nat], halted = FALSE, halted' = FALSE,
           NEW w \in Wallet, NEW x, Repay(w, x), Emit(Accrued \o Moved("REPAID", w, RepaidOf(w, x)))
    PROVE  Step
<1> DEFINE e == [kind |-> "REPAID", wallet |-> w, amount |-> RepaidOf(w, x)]
<1>1. Moved("REPAID", w, RepaidOf(w, x)) = <<e>> /\ e.kind = "REPAID" /\ e.wallet = w
  BY DEF Moved
<1> HIDE DEF e
<1>2. /\ AmountTyped(e) /\ Signed(e) = 0 /\ e.kind \notin Rowless
      /\ e.kind \notin {"LIQUIDATED", "ATTESTED"}
  BY <1>1 DEF AmountTyped, Signed, Rowless
<1>3. OneRow(timeline, timeline', w, e)
  <2>1. Emit(Accrued \o <<e>>) /\ halted \in BOOLEAN
    BY <1>1
  <2> QED BY <1>1, <1>2, <2>1, AccruedWrites
<1>4. collateral' = [collateral EXCEPT ![w] = @ + Signed(e)]
  BY <1>2, DebtStays, NoneMoved
<1> QED BY <1>2, <1>3, <1>4, RowKeeps

LEMMA LiquidationLoops ==
    ASSUME LoopInv, collateral \in [Wallet -> Nat], halted = FALSE, halted' = FALSE,
           NEW w \in Wallet, NEW x, Liquidate(w, x), Emit(LiquidationLogs(w, x))
    PROVE  Step
<1> DEFINE f == M!Shortfall(w, x)
           d == [kind |-> "BAD_DEBT", wallet |-> w, amount |-> f,
                 fromReserves |-> M!FromReserves(f), socialized |-> M!Socialized(f)]
           e == [kind |-> "LIQUIDATED", wallet |-> w, amount |-> M!Repaid(w, x),
                 seized |-> M!Seized(w, x), shortfall |-> f]
           r == [kind |-> "LIQUIDATION_RECORDED", wallet |-> w, record |-> liquidations'[w]]
           more == BadDebt(w, f)
<1>1. /\ more = <<>> \/ more = <<d>>
      /\ d.kind = "BAD_DEBT" /\ d.wallet = w
      /\ e.kind = "LIQUIDATED" /\ e.wallet = w
      /\ r.kind = "LIQUIDATION_RECORDED" /\ r.wallet = w
  BY DEF BadDebt
<1>2. Emit(Accrued \o more \o <<e>> \o <<r>>)
  BY DEF LiquidationLogs, Liquidated, Recorded
<1>3. \A v \in Wallet : v # w => collateral'[v] = collateral[v]
  <2>1. collateral' = [collateral EXCEPT ![w] = @ - M!Seized(w, x)]
    BY DEF Liquidate, M!Liquidate
  <2> QED BY <2>1
<1> HIDE DEF d, e, r, more
<1>4. /\ AmountTyped(d) /\ Signed(d) = 0 /\ d.kind \notin {"LIQUIDATED", "ATTESTED"}
      /\ AmountTyped(r) /\ r.kind \notin {"LIQUIDATED", "ATTESTED"}
      /\ d.kind \notin Rowless /\ e.kind \notin Rowless /\ r.kind \notin Rowless
      /\ halted \in BOOLEAN
  BY <1>1 DEF AmountTyped, Signed, Rowless
<1>5. PICK t, u : /\ t = timeline \/ OneRow(timeline, t, w, d)
                  /\ OneRow(t, u, w, e) /\ OneRow(u, timeline', w, r)
  <2>1. PICK t, u : /\ t = timeline \/ OneRow(timeline, t, d.wallet, d)
                    /\ OneRow(t, u, e.wallet, e)
                    /\ OneRow(u, timeline', r.wallet, r)
    BY <1>1, <1>2, <1>4, LiquidationWrites
  <2> QED BY <1>1, <2>1
<1> QED BY <1>1, <1>3, <1>4, <1>5, CutKeeps

LEMMA AdministrationLoops ==
    ASSUME LoopInv, collateral \in [Wallet -> Nat], Administration, UNCHANGED tables
    PROVE  Step
<1>1. collateral' = collateral
  <2>1. CASE \E k \in Signer : SetAttestor(k)
    BY <2>1 DEF SetAttestor, MarketUntouched, book
  <2>2. CASE \E b \in BOOLEAN : SetMarket(b)
    BY <2>2 DEF SetMarket, MarketUntouched, book
  <2>3. CASE \E b \in BOOLEAN : PauseMarket(b)
    BY <2>3 DEF PauseMarket, OfMarket, M!SetPaused, M!pledge
  <2>4. CASE PauseRegistry
    BY <2>4 DEF PauseRegistry, MarketUntouched, book
  <2>5. CASE \E a \in M!Asset : \E p \in PriceInput[a] : SetPrice(a, p)
    BY <2>5 DEF SetPrice, M!SetPrice, M!market, M!pledge
  <2>6. CASE Tick
    BY <2>6 DEF Tick, MarketUntouched, book
  <2> QED BY <2>1, <2>2, <2>3, <2>4, <2>5, <2>6 DEF Administration
<1>2. timeline' = timeline
  BY DEF tables
<1> QED BY <1>1, <1>2, SilentKeeps

LEMMA LoopStep ==
    LoopInv /\ M!TypeOK /\ BooksInv /\ BooksInv' /\ [IndexedNext]_<<vars, tables>> => Step
<1> SUFFICES ASSUME LoopInv, M!TypeOK, BooksInv, BooksInv', [IndexedNext]_<<vars, tables>>
             PROVE  Step
  OBVIOUS
<1>1. collateral \in [Wallet -> Nat] /\ halted = FALSE /\ halted' = FALSE
  BY DEF M!TypeOK, BooksInv, BooksTyped
<1>2. ASSUME NEW a \in Payload, NEW k \in Signer, SubmitAttestation(a, k), Emit(Attested(a))
      PROVE  Step
  BY <1>1, <1>2, SubmissionLoops
<1>3. ASSUME NEW l \in Lender, NEW x \in AssetInput, OfLenders(l, x) PROVE Step
  BY <1>1, <1>3, PoolLoops
<1>4. ASSUME NEW w \in Wallet, NEW x \in CollateralInput, OfCollateral(w, x) PROVE Step
  BY <1>1, <1>4, CollateralLoops
<1>5. ASSUME NEW w \in Wallet, NEW x \in Amount, Borrow(w, x),
             Emit(Accrued \o Retiered(w) \o Borrowed(w, x))
      PROVE  Step
  BY <1>1, <1>5, BorrowLoops
<1>6. ASSUME NEW w \in Wallet, NEW x \in M!RepayInput(w), OfDebt(w, x) PROVE Step
  BY <1>1, <1>6, RepayLoops, LiquidationLoops DEF OfDebt
<1>7. CASE Administration /\ UNCHANGED tables
  BY <1>1, <1>7, AdministrationLoops
<1>8. CASE UNCHANGED <<vars, tables>>
  <2>1. timeline' = timeline /\ collateral' = collateral
    BY <1>8 DEF vars, tables, book
  <2> QED BY <1>1, <2>1, SilentKeeps
<1> QED BY <1>2, <1>3, <1>4, <1>5, <1>6, <1>7, <1>8 DEF IndexedNext

LEMMA LoopInit == IndexInit => LoopInv
<1> SUFFICES ASSUME IndexInit PROVE LoopInv
  OBVIOUS
<1>1. timeline = [w \in Wallet |-> <<>>] /\ collateral = [w \in Wallet |-> 0]
  BY DEF IndexInit, Init, M!Init
<1>2. Rows(<<>>) /\ netCollateral(<<>>) = 0
  BY NetOfNone
<1>3. ByWallet(timeline)
  BY <1>1 DEF ByWallet
<1>4. \A w \in Wallet : timeline[w] = <<>> /\ collateral[w] = 0
  BY <1>1
<1> DEFINE none == <<>>
<1> HIDE DEF none
<1>5. Rows(none) /\ netCollateral(none) = 0 /\ \A w \in Wallet : timeline[w] = none /\ collateral[w] = 0
  BY <1>2, <1>4 DEF none
<1> QED BY <1>3, <1>5 DEF LoopInv, Held

LEMMA StepKeeps == Step => LoopInv'
BY DEF Step, Kept, LoopInv

----------------------------------------------------------------------------
(* Theorems. *)

\* What Market_proofs proves of the market (TypeCorrect, AmountsAreSound, LossesBooked
\* and TermsAreTodays), said of the market of this composition.
MarketIsSound ==
    M!Spec => [](M!TypeOK /\ M!AmountsOK /\ M!LossesAreBooked) /\ M!RiskPricedToday

\* Registry and market together behave as the market's own module says: every
\* transaction of either is one of the market's or a change of the environment the
\* module allows, and a liquidation is in both or in neither (effectiveTier,
\* liquidate, recordLiquidation, Deploy.s.sol).
THEOREM CompositionImplementsMarket == Spec => ImplementsMarket
<1>1. Init => M!Init
  BY DEF Init
<1>2. RInv /\ [Next]_vars => [M!Next]_(M!vars)
  BY RStep DEF Refines
<1> QED BY <1>1, <1>2, RInvariance, PTL DEF Spec, ImplementsMarket, M!Spec

\* The same of the behaviours the indexer follows.
THEOREM IndexedImplementsMarket == IndexedSpec => ImplementsMarket
BY CompositionImplementsMarket, IndexFollows, PTL

LEMMA Vouched == RInv => R!FreshIsVouched
<1> SUFFICES ASSUME RInv, NEW w \in Wallet, ~R!IsStale(w)
             PROVE  /\ accepted[w] # <<>>
                    /\ R!LastAccepted(w).signer = attestor
                    /\ R!LastAccepted(w).epoch = attestorEpoch
                    /\ R!LastAccepted(w).issuedAt > liquidations[w].lastLiquidatedAt
                    /\ now < R!LastAccepted(w).issuedAt + MAX_TTL
  BY DEF R!FreshIsVouched
<1> DEFINE s == scores[w]
<1>1. /\ s.score # 0 /\ ~(now >= s.expiresAt) /\ s.attestorEpoch = attestorEpoch
      /\ ~(s.issuedAt <= liquidations[w].lastLiquidatedAt)
  BY DEF R!IsStale
<1>2. ScoreOK(s, accepted[w], attestorEpoch, attestor)
  BY DEF RInv
<1>3. /\ s.expiresAt \in Nat /\ s.issuedAt \in Nat /\ now \in Nat
      /\ liquidations[w].lastLiquidatedAt \in Nat
  BY DEF RInv, RTypes, R!ScoreRecord
<1> HIDE DEF s
<1>4. /\ accepted[w] # <<>> /\ R!LastAccepted(w).issuedAt = s.issuedAt
      /\ s.expiresAt <= s.issuedAt + MAX_TTL
      /\ R!LastAccepted(w).signer = attestor /\ R!LastAccepted(w).epoch = attestorEpoch
  BY <1>1, <1>2 DEF ScoreOK, R!LastAccepted
<1>5. now < s.issuedAt + MAX_TTL
  <2>1. MAX_TTL \in Nat
    BY TenorAssumption
  <2> QED BY <1>1, <1>3, <1>4, <2>1
<1> QED BY <1>1, <1>3, <1>4, <1>5

\* In the market's company too, a score that counts was signed by the key in office and
\* is younger than the wallet's last liquidation and than MAX_TTL (getScore).
THEOREM FreshnessIsVouched == Spec => []R!FreshIsVouched
BY Vouched, RInvariance, PTL

\* The penalty, end to end: where the market prices risk by the tier of today, as its
\* own module proves it does (TermsAreTodays, TypeCorrect), what it lends at better than
\* floor terms it lends on a score that is vouched for.
THEOREM TermsAreVouched ==
    MarketIsSound /\ IndexedSpec => BetterTermsAreVouched
<1>1. ASSUME RInv, M!TypeOK, [Next]_vars,
             [\A w \in Wallet :
                /\ scaledDebt'[w] > scaledDebt[w] => tier'[w] = Effective[w]
                /\ tier'[w] # tier[w] =>
                     /\ tier'[w] = Effective[w]
                     /\ scaledDebt'[w] > scaledDebt[w] \/ collateral'[w] < collateral[w]]_(M!vars)
      PROVE  [\A w \in Wallet : scaledDebt'[w] > scaledDebt[w] /\ tier'[w] # FLOOR =>
                /\ accepted[w] # <<>>
                /\ R!LastAccepted(w).signer = attestor
                /\ R!LastAccepted(w).epoch = attestorEpoch
                /\ R!LastAccepted(w).issuedAt > liquidations[w].lastLiquidatedAt
                /\ now < R!LastAccepted(w).issuedAt + MAX_TTL]_vars
  <2> SUFFICES ASSUME NEW w \in Wallet, scaledDebt'[w] > scaledDebt[w], tier'[w] # FLOOR
               PROVE  ~R!IsStale(w)
    BY <1>1, Vouched DEF R!FreshIsVouched
  <2>1. scaledDebt[w] \in Nat
    BY <1>1 DEF M!TypeOK
  <2>2. scaledDebt'[w] # scaledDebt[w]
    BY <2>1
  <2>3. tier'[w] = Effective[w]
    BY <1>1, <2>2 DEF M!vars, M!market, M!debts
  <2> QED BY <2>3 DEF Effective, R!EffectiveTier, R!FLOOR, FLOOR
<1>2. MarketIsSound /\ IndexedSpec => []M!TypeOK /\ M!RiskPricedToday
  BY IndexedImplementsMarket, PTL DEF MarketIsSound, ImplementsMarket
<1> QED BY <1>1, <1>2, RInvariance, IndexFollows, PTL
     DEF Spec, BetterTermsAreVouched, M!RiskPricedToday, Effective

\* The books the index keeps are the contracts' own, for any wallets, prices and inputs
\* and however many transactions: no liquidation's logs make the join throw, the totals
\* are the market's books and its cash to the unit, and every wallet's row and every
\* settlement is what the registry has on record (indexer/src/handlers).
THEOREM BooksAreOne == MarketIsSound /\ IndexedSpec => []BooksAgree
<1> DEFINE Sound == M!TypeOK /\ M!AmountsOK /\ M!LossesAreBooked
<1>1. MarketIsSound /\ IndexedSpec => []Sound
  BY IndexedImplementsMarket, PTL DEF MarketIsSound, ImplementsMarket
<1>2. IndexInit /\ M!TypeOK => BooksInv
  BY BooksInit
<1>3. BooksInv /\ Sound /\ Sound' /\ [IndexedNext]_<<vars, tables>> => BooksInv'
  BY BooksStep
<1>4. BooksInv /\ Sound => BooksAgree
  BY BooksBalance
<1>5. Sound => M!TypeOK
  OBVIOUS
<1> HIDE DEF Sound
<1> QED BY <1>1, <1>2, <1>3, <1>4, <1>5, PTL DEF IndexedSpec

\* "The collateral the wallet held going into the liquidation", and the new score after
\* it: what the activity page says of a wallet is so, however long its timeline and
\* whatever it did before (activity/page.tsx).
THEOREM PageTellsTheTruth == MarketIsSound /\ IndexedSpec => LoopIsTrue
<1> DEFINE Sound == M!TypeOK /\ M!AmountsOK /\ M!LossesAreBooked
<1>1. MarketIsSound /\ IndexedSpec => []Sound
  BY IndexedImplementsMarket, PTL DEF MarketIsSound, ImplementsMarket
<1>2. IndexInit /\ Sound => BooksInv /\ LoopInv
  BY BooksInit, LoopInit
<1>3. BooksInv /\ Sound /\ Sound' /\ [IndexedNext]_<<vars, tables>> => BooksInv'
  BY BooksStep
<1>4. LoopInv /\ Sound /\ BooksInv /\ BooksInv' /\ [IndexedNext]_<<vars, tables>> => LoopInv'
  BY LoopStep, StepKeeps
<1>5. LoopInv /\ Sound /\ BooksInv /\ BooksInv' /\ [IndexedNext]_<<vars, tables>> =>
        [\A w \in Wallet :
           LiqIdx(w)' > 0 =>
             /\ LiqIdx(w) = 0 => netCollateral(RowsBefore(w)') = collateral[w]
             /\ NewScore(w)' > 0 /\ NewScore(w) = 0 =>
                  Last(timeline'[w]).issuedAt > liquidations[w].lastLiquidatedAt]_<<vars, tables>>
  <2> SUFFICES ASSUME Step, NEW w \in Wallet, LiqIdx(w)' > 0
               PROVE  /\ LiqIdx(w) = 0 => netCollateral(RowsBefore(w)') = collateral[w]
                      /\ NewScore(w)' > 0 /\ NewScore(w) = 0 =>
                           Last(timeline'[w]).issuedAt > liquidations[w].lastLiquidatedAt
    BY LoopStep
  <2>1. Told(w)
    BY DEF Step, Kept
  <2> QED BY <2>1 DEF Told, First, Before, From, Score, LiqIdx, RowsBefore, RowsFrom, NewScore
<1> HIDE DEF Sound
<1> QED BY <1>1, <1>2, <1>3, <1>4, <1>5, PTL DEF IndexedSpec, LoopIsTrue
=============================================================================
