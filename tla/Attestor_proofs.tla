--------------------------- MODULE Attestor_proofs ---------------------------
(***************************************************************************)
(* Proofs about Attestor: for any number of requests, processes, chains    *)
(* and nonces, any clock resolution and lifetimes, and any answers of the  *)
(* sources, of ChainScore and of the chain.                                *)
(*                                                                         *)
(* What must be kept is said of values, by operators without variables, so *)
(* that it can be said of a request before a step and after it alike: `ms` *)
(* stands for the service's clock, `t` for the chain's, `rec` for the      *)
(* wallet's liquidation record and `res` for the reservations.             *)
(***************************************************************************)
EXTENDS Attestor, Sequences, WellFoundedInduction, TLAPS

----------------------------------------------------------------------------
(* The inductive invariant. *)

\* By how many seconds a data time can be ahead of the clock: not at all if ChainScore
\* dates no answer ahead, else by the drift that validation lets pass.
NoLead == \A d \in UpstreamOffset : d <= 0
Lead == IF NoLead THEN 0 ELSE (MAX_DRIFT + MS - 1) \div MS
LeadMs == Lead * MS

Evaluating == {"history", "sources", "putHistory", "clear", "scores", "chainscore", "put"}
Holding == {"onChain", "timeLeft", "nonce", "before", "reserve", "sign"}

ScoreEntry == [score : Nat, at : Nat, until : Nat]
HistoryEntry == [answer : [Chain -> HistoryAnswer], until : Nat]
CountedChain == [chain : Scoreable, score : MIN_SCORE .. MAX_SCORE, at : Nat]

Call == [kind : {"none", "score", "attest", "fresh"}, bypass : BOOLEAN,
         stage : {"none", "first", "stale", "window"}, nowSec : Nat, nowMs : Nat,
         history : [Chain -> HistoryAnswer], todo : SUBSET Scoreable, failed : SUBSET Chain,
         counted : SUBSET CountedChain, found : ScoreEntry, payload : Payload, last : Nat]

\* The chain's time is the service's, in whole seconds, and no liquidation is later.
WorldOK(ms, t, rec) ==
    /\ ms \in Nat /\ t \in Nat /\ rec \in R!LiquidationRecord
    /\ MS <= ms /\ t * MS <= ms /\ ms < t * MS + MS
    /\ rec.lastLiquidatedAt <= t

\* A payload knows of the liquidation record what it must: it is not newer than the
\* clock allows, and if it is newer than the last liquidation the policy is in it.
Reflects(a, t, rec) ==
    /\ a.issuedAt <= t + Lead
    /\ Recent(rec, t, WINDOW) /\ a.issuedAt > rec.lastLiquidatedAt + Lead =>
         /\ a.score <= LIQUIDATION_TIER_CAP
         /\ rec.shortfallCount > 0 => a.score <= SHORTFALL_CAP

\* A payload that was handed out is the reservation of its nonce, or can be used for
\* the rest of this second at most, or never again.
Spent(a, res, t, rec) ==
    \/ a = res[a.nonce]
    \/ a.deadline <= t
    \/ a.issuedAt <= rec.lastLiquidatedAt

EntryOK(e, ms) == e.at <= ms + LeadMs /\ (e.until > 0 => ScoreInRange(e.score))

\* What a request may hold where it is.
CallOK(place, c, ms, t, rec, res) ==
    /\ place \in Evaluating => c.stage # "none"
    /\ place \in {"chainscore", "put"} => c.todo # {}
    /\ place = "put" => ScoreInRange(c.found.score)
    /\ place \in Holding => ScoreInRange(c.payload.score)
    /\ c.nowMs <= ms /\ c.last <= rec.lastLiquidatedAt
    /\ c.found.at <= ms + LeadMs
    /\ \A e \in c.counted : e.at <= ms + LeadMs
    /\ Reflects(c.payload, t, rec)
    /\ place = "sign" => Spent(c.payload, res, t, rec)

ReservedOK(n, a, t, rec) ==
    /\ a.deadline > 0 => a.nonce = n /\ ScoreInRange(a.score)
    /\ Reflects(a, t, rec)

SignedOK(a, res, t, rec) ==
    /\ ScoreInRange(a.score)
    /\ Reflects(a, t, rec)
    /\ Spent(a, res, t, rec)

Requests ==
    /\ pc \in [Worker -> Places] /\ call \in [Worker -> Call]
    /\ \A p \in Worker : CallOK(pc[p], call[p], clock, now, Rec, reservations)

Caches ==
    /\ scoreCache \in [Scoreable -> ScoreEntry] /\ historyCache \in HistoryEntry
    /\ \A c \in Scoreable : EntryOK(scoreCache[c], clock)

Reservations ==
    /\ reservations \in [0 .. MaxNonce -> Payload]
    /\ \A n \in 0 .. MaxNonce : ReservedOK(n, reservations[n], now, Rec)

Signatures ==
    /\ signed \subseteq Payload
    /\ \A a \in signed : SignedOK(a, reservations, now, Rec)

OnChain == R!TypeOK /\ WorldOK(clock, now, Rec) /\ Reflects(Score, now, Rec)

IInv == Requests /\ Caches /\ Reservations /\ Signatures /\ OnChain

----------------------------------------------------------------------------
(* Arithmetic of the two clocks. *)

\* What Euclid's division gives.
LEMMA Seconds ==
    ASSUME NEW a \in Nat
    PROVE  /\ a \div MS \in Nat
           /\ (a \div MS) * MS <= a
           /\ a < (a \div MS) * MS + MS
BY AttestorAssumption

LEMMA MoreSeconds ==
    ASSUME NEW a \in Nat, NEW b \in Nat, a < b
    PROVE  a * MS + MS <= b * MS
<1>1. MS \in Nat /\ a + 1 <= b
  BY AttestorAssumption
<1>2. (a + 1) * MS <= b * MS
  BY <1>1
<1> QED BY <1>1, <1>2

LEMMA LeadType == Lead \in Nat /\ LeadMs \in Nat
<1>1. MS \in Nat \ {0} /\ MAX_DRIFT \in Nat
  BY AttestorAssumption, ScoringAssumption
<1>2. MAX_DRIFT + MS - 1 \in Nat
  BY <1>1
<1>3. Lead \in Nat
  BY <1>2, Seconds DEF Lead
<1> QED BY <1>1, <1>3 DEF LeadMs

\* Validation lets no answer pass that is dated further ahead than that.
LEMMA DriftWithinLead == ~NoLead => MAX_DRIFT <= LeadMs
<1>1. MS \in Nat \ {0} /\ MAX_DRIFT \in Nat
  BY AttestorAssumption, ScoringAssumption
<1> DEFINE n == MAX_DRIFT + MS - 1
<1>2. n \in Nat
  BY <1>1
<1>3. n < (n \div MS) * MS + MS /\ n \div MS \in Nat
  BY <1>2, Seconds
<1>4. ~NoLead => LeadMs = (n \div MS) * MS
  BY DEF Lead, LeadMs
<1> DEFINE m == (n \div MS) * MS
<1>5. m \in Nat /\ n < m + MS
  BY <1>1, <1>3
<1> HIDE DEF m
<1> QED BY <1>1, <1>4, <1>5 DEF m

\* A time is at most the second the clock is in, plus what it may be ahead.
LEMMA SecondOf ==
    ASSUME NEW at \in Nat, NEW ms \in Nat, NEW t \in Nat, NEW k \in Nat,
           at <= ms + k * MS, ms < t * MS + MS
    PROVE  at \div MS <= t + k
<1> DEFINE q == at \div MS
<1>1. q \in Nat /\ q * MS <= at
  BY Seconds
<1> HIDE DEF q
<1>2. SUFFICES ASSUME t + k < q PROVE FALSE
  BY <1>1 DEF q
<1>3. (t + k) * MS + MS <= q * MS
  BY <1>1, <1>2, MoreSeconds
<1>4. (t + k) * MS = t * MS + k * MS /\ t * MS \in Nat /\ k * MS \in Nat /\ q * MS \in Nat /\ MS \in Nat
  BY <1>1, AttestorAssumption
<1> QED BY <1>1, <1>3, <1>4

\* The clock goes on by a tick, and with it, now and then, the chain's.
LEMMA TickAgrees ==
    ASSUME NEW ms \in Nat, NEW t \in Nat, t * MS <= ms, ms < t * MS + MS
    PROVE  LET u == IF (ms + 1) \div MS > t THEN t + 1 ELSE t
           IN  u * MS <= ms + 1 /\ ms + 1 < u * MS + MS
<1> DEFINE q == (ms + 1) \div MS
<1>1. q \in Nat /\ q * MS <= ms + 1 /\ ms + 1 < q * MS + MS
  BY Seconds
<1> HIDE DEF q
<1>2. MS \in Nat \ {0} /\ t * MS \in Nat /\ (t + 1) * MS = t * MS + MS
  BY AttestorAssumption
<1>3. q * MS \in Nat
  BY <1>1, <1>2
<1>4. CASE q > t
  <2>1. t * MS + MS <= q * MS
    BY <1>1, <1>4, MoreSeconds
  <2>2. t * MS + MS <= ms + 1
    BY <1>1, <1>2, <1>3, <2>1
  <2> QED BY <1>2, <1>4, <2>2 DEF q
<1>5. CASE ~(q > t)
  <2>1. q * MS <= t * MS
    <3>1. CASE q = t
      BY <3>1, <1>2
    <3>2. CASE q < t
      BY <3>2, <1>1, <1>2, <1>3, MoreSeconds
    <3> QED BY <1>1, <1>5, <3>1, <3>2
  <2> QED BY <1>1, <1>2, <1>3, <1>5, <2>1 DEF q
<1> QED BY <1>4, <1>5

----------------------------------------------------------------------------
(* Least of a set, and the policy. *)

LEMMA LeastIs ==
    ASSUME NEW S, \E s \in S : \A x \in S : s <= x
    PROVE  Least(S) \in S /\ \A x \in S : Least(S) <= x
BY Zenon DEF Least

\* A set of naturals has a least element.
LEMMA LeastNat ==
    ASSUME NEW S, S \subseteq Nat, S # {}
    PROVE  Least(S) \in S /\ \A x \in S : Least(S) <= x
<1>1. PICK s \in S : \A x \in S : <<x, s>> \notin OpToRel(<, Nat)
  BY NatLessThanWellFounded, WFMin
<1>2. ASSUME NEW x \in S PROVE s <= x
  <2>1. x \in Nat /\ s \in Nat
    OBVIOUS
  <2>2. ~(x < s)
    BY <1>1, <2>1 DEF OpToRel
  <2> QED BY <2>1, <2>2
<1> QED BY <1>2, LeastIs

LEMMA LeastPair ==
    ASSUME NEW a \in Int, NEW b \in Int
    PROVE  Least({a, b}) = IF a <= b THEN a ELSE b
<1>1. \E s \in {a, b} : \A x \in {a, b} : s <= x
  BY a <= b \/ b <= a, a <= a, b <= b
<1>2. Least({a, b}) \in {a, b} /\ \A x \in {a, b} : Least({a, b}) <= x
  BY <1>1, LeastIs
<1> QED BY <1>2

\* What a recent liquidation leaves of a score: within the caps, and in the table.
LEMMA PolicyCaps ==
    ASSUME NEW m \in MIN_SCORE .. MAX_SCORE, NEW rec \in R!LiquidationRecord, NEW t
    PROVE  /\ ApplyTenorPolicy(m, rec, t, WINDOW) \in MIN_SCORE .. MAX_SCORE
           /\ Recent(rec, t, WINDOW) =>
                /\ ApplyTenorPolicy(m, rec, t, WINDOW) <= LIQUIDATION_TIER_CAP
                /\ rec.shortfallCount > 0 => ApplyTenorPolicy(m, rec, t, WINDOW) <= SHORTFALL_CAP
<1> DEFINE S == {m - Penalty(rec)} \cup Caps(rec)
           low == Least(S)
<1>1. rec.liquidationCount \in Nat /\ rec.shortfallCount \in Nat
  BY DEF R!LiquidationRecord
<1>2. Penalty(rec) \in Nat /\ m \in Int /\ MIN_SCORE <= m /\ m <= MAX_SCORE /\ m - Penalty(rec) \in Int
  BY <1>1 DEF Penalty, POINTS_PER_DOUBLED_ODDS, MAX_PENALIZED_LIQUIDATIONS, MIN_SCORE, MAX_SCORE
<1>3. /\ LIQUIDATION_TIER_CAP \in S
      /\ rec.shortfallCount > 0 => SHORTFALL_CAP \in S
      /\ m - Penalty(rec) \in S
      /\ \A x \in S : x = m - Penalty(rec) \/ x = LIQUIDATION_TIER_CAP \/ x = SHORTFALL_CAP
  BY DEF Caps
<1> HIDE DEF S
<1>4. \E s \in S : \A x \in S : s <= x
  <2> DEFINE p == m - Penalty(rec)
  <2>1. p \in Int /\ p \in S /\ LIQUIDATION_TIER_CAP \in S
        /\ \A x \in S : x = p \/ x = LIQUIDATION_TIER_CAP \/ x = SHORTFALL_CAP
    BY <1>2, <1>3
  <2> HIDE DEF p
  <2>2. CASE SHORTFALL_CAP \in S
    <3>1. CASE p <= SHORTFALL_CAP
      BY <2>1, <3>1 DEF LIQUIDATION_TIER_CAP, SHORTFALL_CAP
    <3>2. CASE ~(p <= SHORTFALL_CAP)
      <4>1. \A x \in S : SHORTFALL_CAP <= x
        BY <2>1, <3>2 DEF LIQUIDATION_TIER_CAP, SHORTFALL_CAP
      <4> QED BY <2>2, <4>1
    <3> QED BY <3>1, <3>2
  <2>3. CASE SHORTFALL_CAP \notin S
    <3>1. CASE p <= LIQUIDATION_TIER_CAP
      <4>1. \A x \in S : p <= x
        BY <2>1, <2>3, <3>1 DEF LIQUIDATION_TIER_CAP
      <4> QED BY <2>1, <4>1
    <3>2. CASE ~(p <= LIQUIDATION_TIER_CAP)
      <4>1. \A x \in S : LIQUIDATION_TIER_CAP <= x
        BY <2>1, <2>3, <3>2 DEF LIQUIDATION_TIER_CAP
      <4> QED BY <2>1, <4>1
    <3> QED BY <3>1, <3>2
  <2> QED BY <2>2, <2>3
<1>5. low \in S /\ \A x \in S : low <= x
  BY <1>4, LeastIs
<1>6. low \in Int /\ low <= LIQUIDATION_TIER_CAP /\ (rec.shortfallCount > 0 => low <= SHORTFALL_CAP)
  BY <1>2, <1>3, <1>5 DEF LIQUIDATION_TIER_CAP, SHORTFALL_CAP
<1> DEFINE signed1 == IF Recent(rec, t, WINDOW) THEN low ELSE m
<1>7. ApplyTenorPolicy(m, rec, t, WINDOW) = IF signed1 < MIN_SCORE THEN MIN_SCORE ELSE signed1
  BY DEF ApplyTenorPolicy, S
<1> HIDE DEF low
<1> QED BY <1>2, <1>6, <1>7 DEF LIQUIDATION_TIER_CAP, SHORTFALL_CAP, MIN_SCORE, MAX_SCORE

----------------------------------------------------------------------------
(* The world goes on. *)

\* The clocks have not gone back, and the record is the same or that of a liquidation now.
Later(ms, t, rec, ms2, t2, rec2) ==
    /\ ms <= ms2 /\ t <= t2
    /\ \/ rec2 = rec
       \/ t2 = t /\ rec2.lastLiquidatedAt = t

\* What a payload knows stays true of it: a later liquidation is one its data precede.
LEMMA ReflectsLater ==
    ASSUME NEW a \in Payload, NEW ms, NEW t, NEW rec, NEW ms2, NEW t2, NEW rec2,
           WorldOK(ms, t, rec), WorldOK(ms2, t2, rec2), Later(ms, t, rec, ms2, t2, rec2),
           Reflects(a, t, rec)
    PROVE  Reflects(a, t2, rec2)
<1>1. t \in Nat /\ t2 \in Nat /\ t <= t2 /\ a.issuedAt \in Nat /\ Lead \in Nat /\ WINDOW \in Nat
  BY LeadType, AttestorAssumption DEF WorldOK, Later, Payload
<1>2. rec.lastLiquidatedAt \in Nat /\ rec2.lastLiquidatedAt \in Nat
  BY DEF WorldOK, R!LiquidationRecord
<1>3. a.issuedAt <= t2 + Lead
  BY <1>1 DEF Reflects
<1>4. CASE rec2 = rec
  <2>1. Recent(rec, t2, WINDOW) => Recent(rec, t, WINDOW)
    BY <1>1, <1>2 DEF Recent
  <2> QED BY <1>3, <1>4, <2>1 DEF Reflects
<1>5. CASE t2 = t /\ rec2.lastLiquidatedAt = t
  <2>1. ~(a.issuedAt > rec2.lastLiquidatedAt + Lead)
    BY <1>1, <1>2, <1>3, <1>5
  <2> QED BY <1>3, <2>1 DEF Reflects
<1> QED BY <1>4, <1>5 DEF Later

LEMMA SpentLater ==
    ASSUME NEW a \in Payload, NEW res, NEW ms, NEW t, NEW rec, NEW ms2, NEW t2, NEW rec2,
           WorldOK(ms, t, rec), WorldOK(ms2, t2, rec2), Later(ms, t, rec, ms2, t2, rec2),
           Spent(a, res, t, rec)
    PROVE  Spent(a, res, t2, rec2)
<1>1. t \in Nat /\ t2 \in Nat /\ t <= t2 /\ a.issuedAt \in Nat /\ a.deadline \in Int
  BY DEF WorldOK, Later, Payload
<1>2. rec.lastLiquidatedAt \in Nat /\ rec2.lastLiquidatedAt \in Nat /\ rec.lastLiquidatedAt <= rec2.lastLiquidatedAt
  BY DEF WorldOK, R!LiquidationRecord, Later
<1> QED BY <1>1, <1>2 DEF Spent

LEMMA CallLater ==
    ASSUME NEW place, NEW c \in Call, NEW res, NEW ms, NEW t, NEW rec, NEW ms2, NEW t2, NEW rec2,
           WorldOK(ms, t, rec), WorldOK(ms2, t2, rec2), Later(ms, t, rec, ms2, t2, rec2),
           CallOK(place, c, ms, t, rec, res)
    PROVE  CallOK(place, c, ms2, t2, rec2, res)
<1>1. c.payload \in Payload /\ c.nowMs \in Nat /\ c.last \in Nat /\ c.found.at \in Nat
      /\ \A e \in c.counted : e.at \in Nat
  BY DEF Call, ScoreEntry, CountedChain
<1>2. Reflects(c.payload, t2, rec2)
  BY <1>1, ReflectsLater DEF CallOK
<1>3. place = "sign" => Spent(c.payload, res, t2, rec2)
  BY <1>1, SpentLater DEF CallOK
<1>4. /\ ms \in Nat /\ ms2 \in Nat /\ ms <= ms2 /\ LeadMs \in Nat
      /\ rec.lastLiquidatedAt \in Nat /\ rec2.lastLiquidatedAt \in Nat
      /\ rec.lastLiquidatedAt <= rec2.lastLiquidatedAt
  BY LeadType DEF WorldOK, R!LiquidationRecord, Later
<1>5. /\ c.nowMs <= ms2 /\ c.last <= rec2.lastLiquidatedAt /\ c.found.at <= ms2 + LeadMs
      /\ \A e \in c.counted : e.at <= ms2 + LeadMs
  BY <1>1, <1>4 DEF CallOK
<1> QED BY <1>2, <1>3, <1>5 DEF CallOK

\* Only time, liquidations and submissions concern the world.
World == <<clock, registry>>

\* What happens on the chain leaves the service's invariant as it is.
LEMMA WorldKeeps ==
    ASSUME IInv, UNCHANGED <<pc, call, store, signed>>, OnChain',
           Later(clock, now, Rec, clock', now', Rec')
    PROVE  IInv'
<1>1. WorldOK(clock, now, Rec) /\ WorldOK(clock', now', Rec')
  BY DEF IInv, OnChain
<1>2. UNCHANGED <<pc, call, scoreCache, historyCache, reservations, signed>>
  BY DEF store
<1>3. Requests'
  <2>1. ASSUME NEW p \in Worker PROVE CallOK(pc[p], call[p], clock', now', Rec', reservations)
    <3>1. call[p] \in Call /\ CallOK(pc[p], call[p], clock, now, Rec, reservations)
      BY DEF IInv, Requests
    <3> QED BY <1>1, <3>1, CallLater
  <2> QED BY <1>2, <2>1 DEF IInv, Requests
<1>4. Caches'
  <2>1. clock \in Nat /\ clock' \in Nat /\ clock <= clock' /\ LeadMs \in Nat
    BY <1>1, LeadType DEF WorldOK, Later
  <2>2. ASSUME NEW c \in Scoreable PROVE EntryOK(scoreCache[c], clock')
    <3>1. scoreCache[c] \in ScoreEntry /\ EntryOK(scoreCache[c], clock)
      BY DEF IInv, Caches
    <3>2. scoreCache[c].at \in Nat
      BY <3>1 DEF ScoreEntry
    <3> QED BY <2>1, <3>1, <3>2 DEF EntryOK
  <2> QED BY <1>2, <2>2 DEF IInv, Caches
<1>5. Reservations'
  <2>1. ASSUME NEW n \in 0 .. MaxNonce PROVE ReservedOK(n, reservations[n], now', Rec')
    <3>1. reservations[n] \in Payload /\ ReservedOK(n, reservations[n], now, Rec)
      BY DEF IInv, Reservations
    <3>2. Reflects(reservations[n], now', Rec')
      BY <1>1, <3>1, ReflectsLater DEF ReservedOK
    <3> QED BY <3>1, <3>2 DEF ReservedOK
  <2> QED BY <1>2, <2>1 DEF IInv, Reservations
<1>6. Signatures'
  <2>1. ASSUME NEW a \in signed PROVE SignedOK(a, reservations, now', Rec')
    <3>1. a \in Payload /\ SignedOK(a, reservations, now, Rec)
      BY DEF IInv, Signatures
    <3> QED BY <1>1, <3>1, ReflectsLater, SpentLater DEF SignedOK
  <2> QED BY <1>2, <2>1 DEF IInv, Signatures
<1> QED BY <1>3, <1>4, <1>5, <1>6 DEF IInv

----------------------------------------------------------------------------
(* The steps of the chain and of time. *)

LEMMA PayloadType ==
    ASSUME NEW a \in Payload
    PROVE  /\ a.wallet = wallet /\ a.score \in Nat /\ a.issuedAt \in Nat /\ a.expiresAt \in Nat
           /\ a.deadline \in Int /\ a.nonce \in 0 .. MaxNonce
BY DEF Payload

LEMMA RegistryType ==
    ASSUME R!TypeOK
    PROVE  /\ Score \in R!ScoreRecord /\ Rec \in R!LiquidationRecord
           /\ Score.score \in Nat /\ Score.issuedAt \in Nat /\ Score.expiresAt \in Nat
           /\ Rec.lastLiquidatedAt \in Nat /\ Rec.liquidationCount \in Nat /\ Rec.shortfallCount \in Nat
           /\ now \in Nat /\ attestorEpoch \in Nat \ {0}
<1>1. Score \in R!ScoreRecord /\ Rec \in R!LiquidationRecord
  BY DEF R!TypeOK, Score, Rec
<1>2. Score.score \in (MIN_SCORE .. MAX_SCORE) \cup {0}
  BY <1>1 DEF R!ScoreRecord
<1>3. Score.score \in Nat
  BY <1>2 DEF MIN_SCORE, MAX_SCORE
<1> QED BY <1>1, <1>3 DEF R!TypeOK, R!ScoreRecord, R!LiquidationRecord

\* A signature that reaches the chain puts there what the service knew.
LEMMA SubmitKeeps == ASSUME IInv, NEW a \in signed, Submit(a) PROVE IInv'
<1>1. a \in Payload /\ SignedOK(a, reservations, now, Rec)
  BY DEF IInv, Signatures
<1>2. a.wallet = wallet /\ a.score \in MIN_SCORE .. MAX_SCORE /\ a.issuedAt \in Nat /\ a.expiresAt \in Nat
      /\ a.nonce \in Nat
  BY <1>1, PayloadType, AttestorAssumption DEF SignedOK, ScoreInRange, MIN_SCORE, MAX_SCORE
<1>3. R!TypeOK /\ WorldOK(clock, now, Rec)
  BY DEF IInv, OnChain
<1>4. /\ nonces' = [nonces EXCEPT ![wallet] = a.nonce + 1]
      /\ scores' = [scores EXCEPT ![wallet] = [score |-> a.score, issuedAt |-> a.issuedAt,
                                               expiresAt |-> a.expiresAt, attestorEpoch |-> attestorEpoch]]
      /\ accepted' = [accepted EXCEPT ![wallet] = Append(@, R!EntryOf(a, Key))]
      /\ nonces[wallet] < MaxNonce /\ a.nonce = nonces[wallet] /\ Key = attestor
      /\ UNCHANGED <<now, attestor, attestorEpoch, isMarket, paused, liquidations>>
  BY <1>2 DEF Submit, R!SubmitAttestation, R!Submittable, R!admin
<1>5. nonces' \in [{wallet} -> 0 .. MaxNonce]
  <2>1. nonces[wallet] \in 0 .. MaxNonce /\ MaxNonce \in Nat
    BY <1>3, AttestorAssumption DEF R!TypeOK
  <2>2. a.nonce + 1 \in 0 .. MaxNonce
    BY <1>4, <2>1
  <2> QED BY <1>3, <1>4, <2>2 DEF R!TypeOK
<1>6. scores' \in [{wallet} -> R!ScoreRecord]
  BY <1>2, <1>3, <1>4, RegistryType DEF R!TypeOK, R!ScoreRecord
<1>7. accepted' \in [{wallet} -> Seq(R!Entry)]
  <2>1. R!EntryOf(a, Key) \in R!Entry
    BY <1>2, <1>3, RegistryType, AttestorAssumption DEF R!EntryOf, R!Entry
  <2>2. accepted[wallet] \in Seq(R!Entry)
    BY <1>3 DEF R!TypeOK
  <2>3. Append(accepted[wallet], R!EntryOf(a, Key)) \in Seq(R!Entry)
    BY <2>1, <2>2
  <2> QED BY <1>3, <1>4, <2>3 DEF R!TypeOK
<1>8. R!TypeOK'
  BY <1>3, <1>4, <1>5, <1>6, <1>7 DEF R!TypeOK
<1>9. UNCHANGED <<clock, pc, call, store, signed>> /\ Rec' = Rec
  BY <1>4 DEF Submit, Service, Rec
<1>10. Reflects(Score', now', Rec')
  <2>1. Score'.issuedAt = a.issuedAt /\ Score'.score = a.score
    BY <1>3, <1>4 DEF Score, R!TypeOK
  <2> QED BY <1>1, <1>4, <1>9, <2>1 DEF SignedOK, Reflects
<1>11. OnChain'
  BY <1>3, <1>4, <1>8, <1>9, <1>10 DEF OnChain
<1>12. Later(clock, now, Rec, clock', now', Rec')
  BY <1>3, <1>4, <1>9, RegistryType DEF Later, WorldOK
<1> QED BY <1>9, <1>11, <1>12, WorldKeeps

\* A liquidation puts every payload there is behind it.
LEMMA LiquidationKeeps == ASSUME IInv, NEW s \in Shortfall, Liquidation(s) PROVE IInv'
<1>1. R!TypeOK /\ WorldOK(clock, now, Rec) /\ Reflects(Score, now, Rec)
  BY DEF IInv, OnChain
<1>2. /\ liquidations' = [liquidations EXCEPT ![wallet] =
            [lastLiquidatedAt |-> now,
             liquidationCount |-> Rec.liquidationCount + 1,
             shortfallCount |-> Rec.shortfallCount + (IF s > 0 THEN 1 ELSE 0),
             totalShortfall |-> Rec.totalShortfall + s]]
      /\ UNCHANGED <<now, attestor, attestorEpoch, isMarket, paused, scores, nonces, accepted>>
  BY DEF Liquidation, R!RecordLiquidation, R!WithShortfall, R!admin, Rec
<1>3. s \in Nat
  BY AttestorAssumption
<1>4. /\ Rec' = [lastLiquidatedAt |-> now,
                 liquidationCount |-> Rec.liquidationCount + 1,
                 shortfallCount |-> Rec.shortfallCount + (IF s > 0 THEN 1 ELSE 0),
                 totalShortfall |-> Rec.totalShortfall + s]
      /\ liquidations' = [liquidations EXCEPT ![wallet] = Rec']
  BY <1>1, <1>2 DEF R!TypeOK, Rec
<1>5. Rec' \in R!LiquidationRecord
  <2>1. Rec.totalShortfall \in Nat
    BY <1>1, RegistryType DEF R!LiquidationRecord
  <2> QED BY <1>1, <1>3, <1>4, <2>1, RegistryType DEF R!LiquidationRecord
<1>6. R!TypeOK'
  <2> DEFINE r == Rec'
  <2>1. r \in R!LiquidationRecord /\ liquidations' = [liquidations EXCEPT ![wallet] = r]
    BY <1>4, <1>5
  <2> HIDE DEF r
  <2>2. liquidations' \in [{wallet} -> R!LiquidationRecord]
    BY <1>1, <2>1 DEF R!TypeOK
  <2> QED BY <1>1, <1>2, <2>2 DEF R!TypeOK
<1>7. UNCHANGED <<clock, pc, call, store, signed>> /\ Rec'.lastLiquidatedAt = now
  BY <1>4 DEF Liquidation, Service
<1>8. WorldOK(clock', now', Rec')
  BY <1>1, <1>2, <1>5, <1>7, RegistryType DEF WorldOK
<1>9. Later(clock, now, Rec, clock', now', Rec')
  BY <1>1, <1>2, <1>7, RegistryType DEF Later, WorldOK
<1>10. Reflects(Score', now', Rec')
  <2>1. Score' = Score
    BY <1>2 DEF Score
  <2>2. Score.issuedAt <= now + Lead /\ Score.issuedAt \in Nat /\ now \in Nat
    BY <1>1, RegistryType DEF Reflects
  <2>3. ~(Score.issuedAt > Rec'.lastLiquidatedAt + Lead)
    BY <1>7, <2>2, LeadType
  <2> QED BY <1>2, <2>1, <2>2, <2>3 DEF Reflects
<1> QED BY <1>6, <1>7, <1>8, <1>9, <1>10, WorldKeeps DEF OnChain

LEMMA RotateKeeps == ASSUME IInv, NEW k \in Signer, Rotate(k) PROVE IInv'
<1>1. R!TypeOK /\ WorldOK(clock, now, Rec) /\ Reflects(Score, now, Rec)
  BY DEF IInv, OnChain
<1>2. /\ attestor' = k /\ attestorEpoch' = attestorEpoch + 1
      /\ UNCHANGED <<now, scores, liquidations, nonces, accepted, isMarket, paused>>
  BY DEF Rotate, R!SetAttestor, R!NextEpoch, R!tables
<1>3. R!TypeOK'
  BY <1>1, <1>2, RegistryType DEF R!TypeOK
<1>4. UNCHANGED <<clock, pc, call, store, signed>> /\ Rec' = Rec /\ Score' = Score
  BY <1>2 DEF Rotate, Service, Rec, Score
<1>5. Later(clock, now, Rec, clock', now', Rec')
  BY <1>1, <1>2, <1>4 DEF Later, WorldOK
<1> QED BY <1>1, <1>2, <1>3, <1>4, <1>5, WorldKeeps DEF OnChain

LEMMA TickKeeps == ASSUME IInv, Tick PROVE IInv'
<1>1. R!TypeOK /\ WorldOK(clock, now, Rec) /\ Reflects(Score, now, Rec)
  BY DEF IInv, OnChain
<1>2. /\ now' = IF (clock + 1) \div MS > now THEN now + 1 ELSE now
      /\ clock' = clock + 1
      /\ UNCHANGED <<scores, liquidations, nonces, accepted, attestor, attestorEpoch, isMarket, paused>>
  BY DEF Tick, R!Tick, R!tables, R!admin, registry
<1>3. /\ clock \in Nat /\ now \in Nat /\ now' \in Nat /\ clock' \in Nat
      /\ now <= now' /\ clock <= clock'
  BY <1>1, <1>2 DEF WorldOK
<1>4. now' * MS <= clock' /\ clock' < now' * MS + MS
  BY <1>1, <1>2, TickAgrees DEF WorldOK
<1>5. UNCHANGED <<pc, call, store, signed>> /\ Rec' = Rec /\ Score' = Score
  BY <1>2 DEF Tick, Rec, Score
<1>6. Later(clock, now, Rec, clock', now', Rec')
  BY <1>3, <1>5 DEF Later
<1>7. WorldOK(clock', now', Rec')
  <2>1. MS <= clock' /\ Rec.lastLiquidatedAt <= now'
    BY <1>1, <1>2, <1>3, RegistryType, AttestorAssumption DEF WorldOK
  <2> QED BY <1>1, <1>3, <1>4, <1>5, <2>1 DEF WorldOK
<1>8. R!TypeOK'
  BY <1>1, <1>2, <1>3 DEF R!TypeOK
<1>9. Reflects(Score', now', Rec')
  <2>1. Score.issuedAt \in Nat /\ Rec.lastLiquidatedAt \in Nat
    BY <1>1, RegistryType
  <2>2. Recent(Rec, now', WINDOW) => Recent(Rec, now, WINDOW)
    BY <1>3, <2>1, AttestorAssumption DEF Recent
  <2>3. Score.issuedAt <= now' + Lead
    BY <1>1, <1>3, <2>1, LeadType DEF Reflects
  <2> QED BY <1>1, <1>5, <2>2, <2>3 DEF Reflects
<1> QED BY <1>5, <1>6, <1>7, <1>8, <1>9, WorldKeeps DEF OnChain

----------------------------------------------------------------------------
(* The start. *)

LEMMA NoCallIs ==
    /\ NoCall.kind = "none" /\ NoCall.bypass = FALSE /\ NoCall.stage = "none"
    /\ NoCall.nowSec = 0 /\ NoCall.nowMs = 0 /\ NoCall.history = NoHistory
    /\ NoCall.todo = {} /\ NoCall.failed = {} /\ NoCall.counted = {}
    /\ NoCall.found = NoCachedScore /\ NoCall.payload = NoPayload /\ NoCall.last = 0
BY DEF NoCall, Begin

LEMMA Nothings ==
    /\ NoHistory \in [Chain -> HistoryAnswer] /\ NoCachedScore \in ScoreEntry
    /\ NoPayload \in Payload /\ NoCall \in Call
<1>1. NoHistory \in [Chain -> HistoryAnswer]
  BY DEF NoHistory, HistoryAnswer
<1>2. NoCachedScore \in ScoreEntry
  BY DEF NoCachedScore, ScoreEntry
<1>3. NoPayload \in Payload
  BY AttestorAssumption DEF NoPayload, Payload
<1>4. NoCall \in Call
  BY <1>1, <1>2, <1>3 DEF NoCall, Begin, Call
<1> QED BY <1>1, <1>2, <1>3, <1>4

LEMMA NothingReflects ==
    ASSUME NEW a, a.issuedAt = 0, NEW ms, NEW t, NEW rec, WorldOK(ms, t, rec)
    PROVE  Reflects(a, t, rec)
BY LeadType DEF Reflects, WorldOK, R!LiquidationRecord

\* A request that holds nothing can be anywhere it has nothing to hold.
LEMMA EmptyCall ==
    ASSUME NEW place \in {"idle", "drop"}, NEW c, c.payload = NoPayload, c.nowMs = 0, c.last = 0,
           c.counted = {}, c.found = NoCachedScore,
           NEW ms, NEW t, NEW rec, NEW res, WorldOK(ms, t, rec)
    PROVE  CallOK(place, c, ms, t, rec, res)
<1>1. Reflects(c.payload, t, rec)
  BY NothingReflects DEF NoPayload
<1>2. ms \in Nat /\ LeadMs \in Nat /\ rec.lastLiquidatedAt \in Nat
  BY LeadType DEF WorldOK, R!LiquidationRecord
<1> QED BY <1>1, <1>2 DEF CallOK, Evaluating, Holding, NoCachedScore

LEMMA InvInit == Init => IInv
<1> SUFFICES ASSUME Init PROVE IInv
  OBVIOUS
<1>1. Rec = R!NoLiquidation /\ Score = R!NoScore /\ now = 1 /\ clock = MS
  BY DEF Init, Rec, Score
<1>2. WorldOK(clock, now, Rec)
  BY <1>1, AttestorAssumption DEF WorldOK, R!NoLiquidation, R!LiquidationRecord
<1>3. R!TypeOK
  <2>1. R!NoScore \in R!ScoreRecord /\ R!NoLiquidation \in R!LiquidationRecord
    BY DEF R!NoScore, R!ScoreRecord, R!NoLiquidation, R!LiquidationRecord
  <2>2. accepted \in [{wallet} -> Seq(R!Entry)] /\ nonces \in [{wallet} -> 0 .. MaxNonce]
    BY AttestorAssumption DEF Init
  <2>3. scores \in [{wallet} -> R!ScoreRecord] /\ liquidations \in [{wallet} -> R!LiquidationRecord]
    BY <2>1 DEF Init
  <2>4. isMarket \in [{market} -> BOOLEAN] /\ paused \in BOOLEAN
    BY DEF Init
  <2>5. now \in Nat /\ attestor \in Signer /\ attestorEpoch \in Nat \ {0}
    BY AttestorAssumption DEF Init
  <2> QED BY <2>2, <2>3, <2>4, <2>5 DEF R!TypeOK
<1>4. OnChain
  BY <1>1, <1>2, <1>3, NothingReflects DEF OnChain, R!NoScore
<1>5. Requests
  <2>1. ASSUME NEW p \in Worker PROVE CallOK(pc[p], call[p], clock, now, Rec, reservations)
    BY <1>2, EmptyCall, NoCallIs DEF Init
  <2> QED BY <2>1, Nothings DEF Init, Requests, Places
<1>6. Caches
  <2>1. EntryOK(NoCachedScore, clock)
    BY <1>1, LeadType, AttestorAssumption DEF EntryOK, NoCachedScore
  <2> QED BY <2>1, Nothings DEF Init, Caches, EmptyScoreCache, HistoryEntry
<1>7. Reservations
  <2>1. ASSUME NEW n \in 0 .. MaxNonce PROVE ReservedOK(n, NoPayload, now, Rec)
    BY <1>2, NothingReflects DEF ReservedOK, NoPayload
  <2> QED BY <2>1, Nothings DEF Init, Reservations
<1>8. Signatures
  BY DEF Init, Signatures
<1> QED BY <1>4, <1>5, <1>6, <1>7, <1>8 DEF IInv

----------------------------------------------------------------------------
(* The steps of a request.  Each goes somewhere it may be, with what it may   *)
(* hold there.                                                                *)

Moves(p) ==
    \E place \in Places, c \in Call :
        Goes(p, place, c) /\ CallOK(place, c, clock, now, Rec, reservations)

LEMMA Held ==
    ASSUME IInv, NEW p \in Worker
    PROVE  /\ pc[p] \in Places /\ call[p] \in Call
           /\ CallOK(pc[p], call[p], clock, now, Rec, reservations)
           /\ WorldOK(clock, now, Rec) /\ R!TypeOK
BY DEF IInv, Requests, OnChain

LEMMA Moved ==
    ASSUME IInv, NEW p \in Worker, Moves(p), UNCHANGED <<clock, registry, reservations>>
    PROVE  Requests'
<1>1. PICK place \in Places, c \in Call :
          Goes(p, place, c) /\ CallOK(place, c, clock, now, Rec, reservations)
  BY DEF Moves
<1>2. pc' \in [Worker -> Places] /\ call' \in [Worker -> Call]
  BY <1>1 DEF IInv, Requests, Goes
<1>3. clock' = clock /\ now' = now /\ Rec' = Rec /\ reservations' = reservations
  BY DEF registry, Rec
<1>4. ASSUME NEW q \in Worker PROVE CallOK(pc'[q], call'[q], clock, now, Rec, reservations)
  <2>1. CASE q = p
    BY <1>1, <2>1 DEF IInv, Requests, Goes
  <2>2. CASE q # p
    BY <1>1, <2>2, Held DEF IInv, Requests, Goes
  <2> QED BY <2>1, <2>2
<1> QED BY <1>2, <1>3, <1>4 DEF Requests

\* The chain, the clock, the reservations and the signatures are what they were.
Aside == UNCHANGED <<clock, registry, reservations, signed>>

LEMMA AsideKeeps == ASSUME IInv, Aside, Requests', Caches' PROVE IInv'
<1>1. /\ UNCHANGED <<clock, reservations, signed, now, Rec, Score>>
      /\ UNCHANGED <<attestor, attestorEpoch, scores, liquidations, nonces, isMarket, paused, accepted>>
  BY DEF Aside, registry, Rec, Score
<1>2. Reservations' /\ Signatures'
  BY <1>1 DEF IInv, Reservations, Signatures
<1>3. OnChain'
  BY <1>1 DEF IInv, OnChain, R!TypeOK
<1> QED BY <1>2, <1>3 DEF IInv

LEMMA MoveKeeps ==
    ASSUME IInv, NEW p \in Worker, Moves(p), UNCHANGED <<clock, store, signed, registry>>
    PROVE  IInv'
<1>1. Aside /\ UNCHANGED <<scoreCache, historyCache>>
  BY DEF Aside, store
<1>2. Requests'
  BY <1>1, Moved DEF Aside
<1>3. Caches'
  BY <1>1 DEF IInv, Caches, Aside
<1> QED BY <1>1, <1>2, <1>3, AsideKeeps

LEMMA EndMoves == ASSUME IInv, NEW p \in Worker, Ends(p) PROVE Moves(p)
<1>1. CallOK("idle", NoCall, clock, now, Rec, reservations)
  BY Held, EmptyCall, NoCallIs
<1> QED BY <1>1, Nothings DEF Ends, Moves, Places

\* An evaluation begins with nothing.
LEMMA Beginning ==
    ASSUME IInv, NEW p \in Worker,
           NEW kind \in {"none", "score", "attest", "fresh"}, NEW bypass \in BOOLEAN,
           NEW stage \in {"first", "stale", "window"}, NEW nowSec \in Nat,
           Goes(p, "history", Begin(kind, bypass, stage, nowSec))
    PROVE  Moves(p)
<1> DEFINE c == Begin(kind, bypass, stage, nowSec)
<1>1. WorldOK(clock, now, Rec) /\ clock \in Nat /\ Rec.lastLiquidatedAt \in Nat
  BY Held DEF WorldOK, R!LiquidationRecord
<1>2. /\ c.stage = stage /\ c.nowMs = clock /\ c.last = 0 /\ c.counted = {}
      /\ c.found = NoCachedScore /\ c.payload = NoPayload
  BY DEF Begin
<1>3. c \in Call
  BY <1>1, Nothings DEF Begin, Call
<1> HIDE DEF c
<1>4. Reflects(c.payload, now, Rec)
  BY <1>1, <1>2, NothingReflects DEF NoPayload
<1>5. CallOK("history", c, clock, now, Rec, reservations)
  BY <1>1, <1>2, <1>4, LeadType DEF CallOK, Holding, NoCachedScore
<1> QED BY <1>3, <1>5 DEF Moves, Places, c

LEMMA RestartMoves ==
    ASSUME IInv, NEW p \in Worker, NEW stage \in {"first", "stale", "window"}, Restarts(p, stage)
    PROVE  Moves(p)
<1>1. call[p].kind \in {"none", "score", "attest", "fresh"} /\ call[p].nowSec \in Nat
  BY Held DEF Call
<1> QED BY <1>1, Beginning DEF Restarts

LEMMA StartKeeps == ASSUME IInv, NEW p \in Worker, NEW k \in Kind, Start(p, k) PROVE IInv'
<1>1. k \in {"none", "score", "attest", "fresh"} /\ (k = "fresh") \in BOOLEAN
  BY AttestorAssumption
<1>2. Goes(p, "history", Begin(k, k = "fresh", "first", 0))
  BY DEF Start
<1> DEFINE b == k = "fresh"
<1>3. b \in BOOLEAN /\ Goes(p, "history", Begin(k, b, "first", 0))
  BY <1>1, <1>2
<1> HIDE DEF b
<1>4. Moves(p)
  BY <1>1, <1>3, Beginning
<1> QED BY <1>4, MoveKeeps DEF Start

\* What was found out of the history, whatever it is, chooses chains that can be scored.
LEMMA ClassifiedMoves ==
    ASSUME IInv, NEW p \in Worker, NEW h \in [Chain -> HistoryAnswer], pc[p] \in Evaluating, Classified(p, h)
    PROVE  Moves(p)
<1> DEFINE c == [call[p] EXCEPT !.history = h, !.todo = ToScore(h), !.failed = Unscoreable(h)]
<1>1. CASE Ends(p)
  BY <1>1, EndMoves
<1>2. CASE \E place \in {"clear", "scores"} : Goes(p, place, c)
  <2>1. PICK place \in {"clear", "scores"} : Goes(p, place, c)
    BY <1>2
  <2>2. ToScore(h) \in SUBSET Scoreable /\ Unscoreable(h) \in SUBSET Chain
    BY DEF ToScore, Unscoreable
  <2>3. c \in Call
    BY <2>2, Held DEF Call
  <2>4. /\ c.stage = call[p].stage /\ c.nowMs = call[p].nowMs /\ c.last = call[p].last
        /\ c.counted = call[p].counted /\ c.found = call[p].found /\ c.payload = call[p].payload
    BY Held DEF Call
  <2> HIDE DEF c
  <2>5. CallOK(place, c, clock, now, Rec, reservations)
    BY <2>4, Held DEF CallOK, Evaluating, Holding
  <2> QED BY <2>1, <2>3, <2>5 DEF Moves, Places
<1> QED BY <1>1, <1>2 DEF Classified

\* A request that goes on with what it holds may, where it need hold no more.
LEMMA SameCallMoves ==
    ASSUME IInv, NEW p \in Worker, NEW place \in Places, Goes(p, place, call[p]),
           place \in Evaluating => pc[p] \in Evaluating,
           place \in {"chainscore", "put"} => call[p].todo # {},
           place \in Holding => pc[p] \in Holding,
           place \notin {"put", "sign"}
    PROVE  Moves(p)
<1>1. CallOK(place, call[p], clock, now, Rec, reservations)
  BY Held DEF CallOK
<1> QED BY <1>1, Held DEF Moves

LEMMA ReadHistoryCacheKeeps == ASSUME IInv, NEW p \in Worker, ReadHistoryCache(p) PROVE IInv'
<1>1. historyCache.answer \in [Chain -> HistoryAnswer]
  BY DEF IInv, Caches, HistoryEntry
<1>2. pc[p] \in Evaluating /\ UNCHANGED <<clock, store, signed, requests, registry>>
  BY DEF ReadHistoryCache, Evaluating
<1>3. Classified(p, historyCache.answer) \/ Goes(p, "sources", call[p])
  BY DEF ReadHistoryCache
<1>4. Moves(p)
  BY <1>1, <1>2, <1>3, ClassifiedMoves, SameCallMoves DEF Places, Evaluating, Holding
<1> QED BY <1>2, <1>4, MoveKeeps

LEMMA CheckHistoryKeeps == ASSUME IInv, NEW p \in Worker, NEW h \in HistoryInput, CheckHistory(p, h) PROVE IInv'
<1>1. h \in [Chain -> HistoryAnswer]
  BY AttestorAssumption
<1>2. pc[p] \in Evaluating /\ UNCHANGED <<clock, store, signed, requests, registry>>
  BY DEF CheckHistory, Evaluating
<1> DEFINE c == [call[p] EXCEPT !.history = h]
<1>3. Classified(p, h) \/ Goes(p, "putHistory", c)
  BY DEF CheckHistory
<1>4. ASSUME Goes(p, "putHistory", c) PROVE Moves(p)
  <2>1. c \in Call
    BY <1>1, Held DEF Call
  <2>2. /\ c.stage = call[p].stage /\ c.nowMs = call[p].nowMs /\ c.last = call[p].last
        /\ c.counted = call[p].counted /\ c.found = call[p].found /\ c.payload = call[p].payload
    BY Held DEF Call
  <2> HIDE DEF c
  <2>3. CallOK("putHistory", c, clock, now, Rec, reservations)
    BY <1>2, <2>2, Held DEF CallOK, Evaluating, Holding
  <2> QED BY <1>4, <2>1, <2>3 DEF Moves, Places
<1> HIDE DEF c
<1>5. Moves(p)
  BY <1>1, <1>2, <1>3, <1>4, ClassifiedMoves
<1> QED BY <1>2, <1>5, MoveKeeps

LEMMA PutHistoryKeeps == ASSUME IInv, NEW p \in Worker, PutHistory(p) PROVE IInv'
<1>1. /\ historyCache' = [answer |-> call[p].history, until |-> call[p].nowMs + TTL * MS]
      /\ Classified(p, call[p].history) /\ pc[p] \in Evaluating
      /\ Aside /\ scoreCache' = scoreCache /\ clock' = clock
  BY DEF PutHistory, Aside, Evaluating
<1>2. call[p].history \in [Chain -> HistoryAnswer] /\ call[p].nowMs \in Nat
  BY Held DEF Call
<1>3. TTL * MS \in Nat
  BY AttestorAssumption
<1>4. historyCache' \in HistoryEntry
  BY <1>1, <1>2, <1>3 DEF HistoryEntry
<1>5. Caches'
  BY <1>1, <1>4 DEF IInv, Caches
<1>6. Requests'
  BY <1>1, <1>2, ClassifiedMoves, Moved DEF Aside
<1> QED BY <1>1, <1>5, <1>6, AsideKeeps

\* Clearing the cache leaves entries that never lived.
LEMMA Emptied == ASSUME IInv, Aside, historyCache' = historyCache, scoreCache' = EmptyScoreCache PROVE Caches'
<1>1. clock' = clock /\ clock \in Nat
  BY DEF Aside, IInv, OnChain, WorldOK
<1>2. EntryOK(NoCachedScore, clock)
  BY <1>1, LeadType DEF EntryOK, NoCachedScore
<1>3. EmptyScoreCache \in [Scoreable -> ScoreEntry] /\ \A c \in Scoreable : EntryOK(EmptyScoreCache[c], clock)
  BY <1>2, Nothings DEF EmptyScoreCache
<1> QED BY <1>1, <1>3 DEF IInv, Caches

LEMMA ClearScoresKeeps == ASSUME IInv, NEW p \in Worker, ClearScores(p) PROVE IInv'
<1>1. /\ Aside /\ historyCache' = historyCache /\ scoreCache' = EmptyScoreCache
      /\ pc[p] = "clear" /\ Goes(p, "scores", call[p])
  BY DEF ClearScores, Aside
<1>2. Moves(p)
  BY <1>1, SameCallMoves DEF Places, Evaluating, Holding
<1> QED BY <1>1, <1>2, Emptied, Moved, AsideKeeps DEF Aside

LEMMA DropKeeps == ASSUME IInv, NEW p \in Worker, Drop(p) PROVE IInv'
<1>1. Aside /\ historyCache' = historyCache /\ scoreCache' = EmptyScoreCache /\ Ends(p)
  BY DEF Drop, Aside
<1> QED BY <1>1, EndMoves, Emptied, Moved, AsideKeeps DEF Aside

LEMMA AbortKeeps == ASSUME IInv, NEW p \in Worker, Abort(p) \/ Refuse(p) PROVE IInv'
<1>1. Ends(p) /\ UNCHANGED <<clock, store, signed, registry>>
  BY DEF Abort, Refuse
<1> QED BY <1>1, EndMoves, MoveKeeps

\* A process that dies leaves its requests with nothing.
LEMMA CrashKeeps == ASSUME IInv, NEW i \in Process, Crash(i) PROVE IInv'
<1>1. /\ pc' = [p \in Worker |-> IF ProcessOf[p] = i THEN "idle" ELSE pc[p]]
      /\ call' = [p \in Worker |-> IF ProcessOf[p] = i THEN NoCall ELSE call[p]]
      /\ Aside /\ UNCHANGED <<scoreCache, historyCache, clock, now, Rec, reservations>>
  BY DEF Crash, Aside, store, registry, Rec
<1>2. pc' \in [Worker -> Places] /\ call' \in [Worker -> Call]
  BY <1>1, Nothings DEF IInv, Requests, Places
<1>3. ASSUME NEW p \in Worker PROVE CallOK(pc'[p], call'[p], clock, now, Rec, reservations)
  <2>1. CASE ProcessOf[p] = i
    <3>1. CallOK("idle", NoCall, clock, now, Rec, reservations)
      BY Held, EmptyCall, NoCallIs
    <3> QED BY <1>1, <2>1, <3>1
  <2>2. CASE ProcessOf[p] # i
    BY <1>1, <2>2, Held
  <2> QED BY <2>1, <2>2
<1>4. Requests'
  BY <1>1, <1>2, <1>3 DEF Requests
<1>5. Caches'
  BY <1>1 DEF IInv, Caches
<1> QED BY <1>1, <1>4, <1>5, AsideKeeps

----------------------------------------------------------------------------
(* The loop over the chains to score. *)

\* The chain a request is at is one of those it has to do.
LEMMA CurrentIs ==
    ASSUME IInv, NEW p \in Worker, call[p].todo # {}
    PROVE  Current(p) \in call[p].todo /\ Current(p) \in Scoreable
<1> DEFINE S == call[p].todo
           T == {Position[c] : c \in S}
<1>1. S \subseteq Scoreable /\ S # {}
  BY Held DEF Call
<1>2. \A c \in S : Position[c] \in Nat
  BY <1>1, AttestorAssumption, ScoringAssumption
<1>3. T \subseteq Nat /\ T # {}
  BY <1>1, <1>2
<1>4. PICK n \in T : \A m \in T : n <= m
  BY <1>3, LeastNat
<1>5. \E c \in S : \A d \in S : Position[c] <= Position[d]
  BY <1>4
<1>6. First(S) \in S
  BY <1>5, Zenon DEF First
<1> QED BY <1>1, <1>6 DEF Current

\* One chain done: what is left of the request.
LEMMA Without ==
    ASSUME IInv, NEW p \in Worker
    PROVE  LET c == WithoutCurrent(p) IN
           /\ c \in Call /\ c.todo \subseteq call[p].todo /\ c.found = NoCachedScore
           /\ c.stage = call[p].stage /\ c.nowMs = call[p].nowMs /\ c.last = call[p].last
           /\ c.counted = call[p].counted /\ c.payload = call[p].payload /\ c.failed = call[p].failed
<1> DEFINE c == WithoutCurrent(p)
<1>1. call[p] \in Call
  BY Held
<1>2. call[p].todo \ {Current(p)} \in SUBSET Scoreable
  BY <1>1 DEF Call
<1>3. c \in Call
  BY <1>1, <1>2, Nothings DEF WithoutCurrent, Call
<1>4. /\ c.todo \subseteq call[p].todo /\ c.found = NoCachedScore
      /\ c.stage = call[p].stage /\ c.nowMs = call[p].nowMs /\ c.last = call[p].last
      /\ c.counted = call[p].counted /\ c.payload = call[p].payload /\ c.failed = call[p].failed
  BY <1>1 DEF WithoutCurrent, Call
<1> QED BY <1>3, <1>4

LEMMA WithoutMoves ==
    ASSUME IInv, NEW p \in Worker, pc[p] \in Evaluating, NEW f \in SUBSET Chain,
           Goes(p, "scores", [WithoutCurrent(p) EXCEPT !.failed = f])
    PROVE  Moves(p)
<1> DEFINE w == WithoutCurrent(p)
           c == [w EXCEPT !.failed = f]
<1>1. /\ w \in Call /\ w.found = NoCachedScore
      /\ w.stage = call[p].stage /\ w.nowMs = call[p].nowMs /\ w.last = call[p].last
      /\ w.counted = call[p].counted /\ w.payload = call[p].payload
  BY Without
<1>2. Goes(p, "scores", c)
  OBVIOUS
<1> HIDE DEF w
<1>3. /\ c \in Call /\ c.found = NoCachedScore
      /\ c.stage = call[p].stage /\ c.nowMs = call[p].nowMs /\ c.last = call[p].last
      /\ c.counted = call[p].counted /\ c.payload = call[p].payload
  BY <1>1 DEF Call
<1> HIDE DEF c
<1>4. 0 <= clock + LeadMs
  BY Held, LeadType DEF WorldOK
<1>5. CallOK("scores", c, clock, now, Rec, reservations)
  BY <1>3, <1>4, Held DEF CallOK, Evaluating, Holding, NoCachedScore
<1> QED BY <1>2, <1>3, <1>5 DEF Moves, Places

\* A score that may be counted, from the cache or from ChainScore.
LEMMA CountingMoves ==
    ASSUME IInv, NEW p \in Worker, pc[p] \in Evaluating, call[p].todo # {}, NEW e \in ScoreEntry,
           ScoreInRange(e.score), e.at <= clock + LeadMs, Goes(p, "scores", Counting(p, e))
    PROVE  Moves(p)
<1> DEFINE w == WithoutCurrent(p)
           x == [chain |-> Current(p), score |-> e.score, at |-> e.at]
           c == [w EXCEPT !.counted = @ \cup {x}]
<1>1. /\ w \in Call /\ w.found = NoCachedScore
      /\ w.stage = call[p].stage /\ w.nowMs = call[p].nowMs /\ w.last = call[p].last
      /\ w.counted = call[p].counted /\ w.payload = call[p].payload
  BY Without
<1>2. Goes(p, "scores", c)
  BY DEF Counting
<1>3. x \in CountedChain /\ x.at = e.at
  BY CurrentIs DEF ScoreEntry, CountedChain, ScoreInRange, MIN_SCORE, MAX_SCORE
<1> HIDE DEF w, x
<1>4. w.counted \cup {x} \in SUBSET CountedChain
  BY <1>1, <1>3 DEF Call
<1>5. /\ c \in Call /\ c.found = NoCachedScore
      /\ c.stage = call[p].stage /\ c.nowMs = call[p].nowMs /\ c.last = call[p].last
      /\ c.counted = call[p].counted \cup {x} /\ c.payload = call[p].payload
  BY <1>1, <1>4 DEF Call
<1> HIDE DEF c
<1>6. 0 <= clock + LeadMs
  BY Held, LeadType DEF WorldOK
<1>7. \A y \in c.counted : y.at <= clock + LeadMs
  BY <1>3, <1>5, Held DEF CallOK
<1>8. CallOK("scores", c, clock, now, Rec, reservations)
  BY <1>5, <1>6, <1>7, Held DEF CallOK, Evaluating, Holding, NoCachedScore
<1> QED BY <1>2, <1>5, <1>8 DEF Moves, Places

LEMMA ReadScoreCacheKeeps == ASSUME IInv, NEW p \in Worker, ReadScoreCache(p) PROVE IInv'
<1> DEFINE e == scoreCache[Current(p)]
<1>1. /\ pc[p] \in Evaluating /\ call[p].todo # {}
      /\ UNCHANGED <<clock, store, signed, requests, registry>>
      /\ \/ Cached(e, call[p].nowMs) /\ Goes(p, "scores", Counting(p, e))
         \/ Goes(p, "chainscore", call[p])
  BY DEF ReadScoreCache, Evaluating
<1>2. Current(p) \in Scoreable
  BY <1>1, CurrentIs
<1>3. e \in ScoreEntry /\ EntryOK(e, clock)
  BY <1>2 DEF IInv, Caches
<1>4. call[p].nowMs \in Nat /\ e.until \in Nat
  BY <1>3, Held DEF Call, ScoreEntry
<1>5. Cached(e, call[p].nowMs) => ScoreInRange(e.score) /\ e.at <= clock + LeadMs
  BY <1>3, <1>4 DEF Cached, EntryOK
<1> HIDE DEF e
<1>6. Moves(p)
  BY <1>1, <1>3, <1>5, CountingMoves, SameCallMoves DEF Places, Evaluating, Holding
<1> QED BY <1>1, <1>6, MoveKeeps

\* An answer of ChainScore that passes validation is dated no further ahead than Lead.
LEMMA AnswerDated ==
    ASSUME IInv, NEW p \in Worker, NEW u \in Answers
    PROVE  /\ u.score \in Int /\ u.timestamp \in Nat
           /\ \A only \in BOOLEAN :
                 ValidateChain(u, only, call[p].nowMs) =>
                     u.timestamp <= clock + LeadMs /\ u.score \in Nat /\ ScoreInRange(u.score)
<1>1. PICK v \in UpstreamAnswer, d \in UpstreamOffset : u = [v EXCEPT !.timestamp = clock + d]
  BY DEF Answers
<1>2. v \in ChainScoreAnswer /\ d \in Int /\ MS + d >= 0 /\ MS \in Nat
  BY AttestorAssumption
<1>3. u.score = v.score /\ u.timestamp = clock + d /\ u.score \in Int
  BY <1>1, <1>2 DEF ChainScoreAnswer
<1>4. clock \in Nat /\ MS <= clock
  BY Held DEF WorldOK
<1>5. u.timestamp \in Nat
  BY <1>2, <1>3, <1>4
<1>6. ASSUME NEW only \in BOOLEAN, ValidateChain(u, only, call[p].nowMs)
      PROVE  u.timestamp <= clock + LeadMs /\ u.score \in Nat /\ ScoreInRange(u.score)
  <2>1. ScoreInRange(u.score) /\ Distance(call[p].nowMs, u.timestamp) <= MAX_DRIFT
    BY <1>6 DEF ValidateChain
  <2>2. u.score \in Nat
    BY <1>3, <2>1 DEF ScoreInRange, MIN_SCORE
  <2>3. call[p].nowMs \in Nat /\ call[p].nowMs <= clock
    BY Held DEF Call, CallOK
  <2>4. u.timestamp <= clock + MAX_DRIFT
    BY <1>4, <1>5, <2>1, <2>3, ScoringAssumption DEF Distance
  <2>5. NoLead => d <= 0
    BY DEF NoLead
  <2>6. u.timestamp <= clock + LeadMs
    BY <1>2, <1>3, <1>4, <1>5, <2>4, <2>5, LeadType, DriftWithinLead, ScoringAssumption
  <2> QED BY <2>1, <2>2, <2>6
<1> QED BY <1>3, <1>5, <1>6

LEMMA AskChainScoreKeeps == ASSUME IInv, NEW p \in Worker, NEW u \in Answers, AskChainScore(p, u) PROVE IInv'
<1> DEFINE only == ChainScoreOnly(call[p].history, Current(p))
           c == [call[p] EXCEPT !.found = [score |-> u.score, at |-> u.timestamp, until |-> u.timestamp + TTL * MS]]
<1>1. /\ pc[p] \in Evaluating /\ pc[p] = "chainscore"
      /\ UNCHANGED <<clock, store, signed, requests, registry>>
      /\ \/ Goes(p, "scores", WithoutCurrent(p))
         \/ Goes(p, "scores", [WithoutCurrent(p) EXCEPT !.failed = @ \cup {Current(p)}])
         \/ ValidateChain(u, only, call[p].nowMs) /\ Goes(p, "put", c)
  BY DEF AskChainScore, Evaluating
<1>2. call[p].todo # {} /\ Current(p) \in Scoreable
  BY <1>1, Held, CurrentIs DEF CallOK
<1>3. ASSUME Goes(p, "scores", WithoutCurrent(p)) PROVE Moves(p)
  <2> DEFINE w == WithoutCurrent(p)
  <2>1. /\ w \in Call /\ w.found = NoCachedScore
        /\ w.stage = call[p].stage /\ w.nowMs = call[p].nowMs /\ w.last = call[p].last
        /\ w.counted = call[p].counted /\ w.payload = call[p].payload
    BY Without
  <2> HIDE DEF w
  <2>2. 0 <= clock + LeadMs
    BY Held, LeadType DEF WorldOK
  <2>3. CallOK("scores", w, clock, now, Rec, reservations)
    BY <1>1, <2>1, <2>2, Held DEF CallOK, Evaluating, Holding, NoCachedScore
  <2> QED BY <1>3, <2>1, <2>3 DEF Moves, Places, w
<1>4. ASSUME Goes(p, "scores", [WithoutCurrent(p) EXCEPT !.failed = @ \cup {Current(p)}]) PROVE Moves(p)
  <2> DEFINE f == call[p].failed \cup {Current(p)}
  <2>1. f \in SUBSET Chain
    BY <1>2, Held, ScoringAssumption DEF Call
  <2>2. WithoutCurrent(p).failed = call[p].failed
    BY Without
  <2>3. Goes(p, "scores", [WithoutCurrent(p) EXCEPT !.failed = f])
    BY <1>4, <2>2
  <2> HIDE DEF f
  <2> QED BY <1>1, <2>1, <2>3, WithoutMoves
<1>5. ASSUME ValidateChain(u, only, call[p].nowMs), Goes(p, "put", c) PROVE Moves(p)
  <2> DEFINE e == [score |-> u.score, at |-> u.timestamp, until |-> u.timestamp + TTL * MS]
  <2>1. only \in BOOLEAN
    BY DEF ChainScoreOnly
  <2> HIDE DEF only
  <2>2. u.timestamp \in Nat /\ u.timestamp <= clock + LeadMs /\ u.score \in Nat /\ ScoreInRange(u.score)
    BY <1>5, <2>1, AnswerDated
  <2>3. TTL * MS \in Nat
    BY AttestorAssumption
  <2>4. e \in ScoreEntry /\ e.score = u.score /\ e.at = u.timestamp
    BY <2>2, <2>3 DEF ScoreEntry
  <2> HIDE DEF e
  <2>5. c = [call[p] EXCEPT !.found = e]
    BY DEF e
  <2>6. /\ c \in Call /\ c.found = e /\ c.todo = call[p].todo
        /\ c.stage = call[p].stage /\ c.nowMs = call[p].nowMs /\ c.last = call[p].last
        /\ c.counted = call[p].counted /\ c.payload = call[p].payload
    BY <2>4, <2>5, Held DEF Call
  <2> HIDE DEF c
  <2>7. CallOK("put", c, clock, now, Rec, reservations)
    BY <1>1, <1>2, <2>2, <2>4, <2>6, Held DEF CallOK, Evaluating, Holding
  <2> QED BY <1>5, <2>6, <2>7 DEF Moves, Places
<1>6. Moves(p)
  BY <1>1, <1>3, <1>4, <1>5
<1> QED BY <1>1, <1>6, MoveKeeps

LEMMA PutScoreKeeps == ASSUME IInv, NEW p \in Worker, PutScore(p) PROVE IInv'
<1> DEFINE e == call[p].found
<1>1. /\ pc[p] = "put" /\ scoreCache' = [scoreCache EXCEPT ![Current(p)] = e]
      /\ Goes(p, "scores", Counting(p, e))
      /\ Aside /\ historyCache' = historyCache /\ clock' = clock
  BY DEF PutScore, Aside
<1>2. /\ call[p].todo # {} /\ e \in ScoreEntry /\ ScoreInRange(e.score) /\ e.at <= clock + LeadMs
  BY <1>1, Held DEF CallOK, Call
<1>3. Current(p) \in Scoreable
  BY <1>2, CurrentIs
<1> HIDE DEF e
<1>4. Moves(p)
  BY <1>1, <1>2, CountingMoves DEF Evaluating
<1>5. EntryOK(e, clock)
  BY <1>2 DEF EntryOK
<1>6. Caches'
  BY <1>1, <1>2, <1>3, <1>5 DEF IInv, Caches
<1> QED BY <1>1, <1>4, <1>6, Moved, AsideKeeps DEF Aside

----------------------------------------------------------------------------
(* The score, and what attestInner does with it. *)

\* The score an evaluation returns is in the table, within what its liquidation record
\* allows, and dated like the oldest answer in it.
LEMMA ScoredPayload ==
    ASSUME IInv, NEW p \in Worker, Verdict(p) = "SCORED"
    PROVE  /\ Scored(p).payload \in Payload
           /\ ScoreInRange(Scored(p).payload.score)
           /\ Reflects(Scored(p).payload, now, Rec)
<1> DEFINE C == call[p].counted
           T == {e.at : e \in C}
           S == {e.score : e \in C}
           sec == call[p].nowMs \div MS
           m == MinimumRule(S)
           score == ApplyTenorPolicy(m, Rec, sec, WINDOW)
           issued == OldestTime(C)
<1>1. C \subseteq CountedChain /\ call[p].nowMs \in Nat /\ call[p].nowMs <= clock
  BY Held DEF Call, CallOK
<1>2. C # {}
  BY Zenon DEF Verdict, Outcome
<1>3. T \subseteq Nat /\ T # {} /\ S \subseteq MIN_SCORE .. MAX_SCORE /\ S # {}
  BY <1>1, <1>2 DEF CountedChain
<1>4. S \subseteq Nat
  BY <1>3 DEF MIN_SCORE, MAX_SCORE
<1>5. m \in MIN_SCORE .. MAX_SCORE
  BY <1>3, <1>4, LeastNat DEF MinimumRule
<1>6. Least(T) \in T
  BY <1>3, LeastNat
<1>7. Least(T) \in Nat /\ Least(T) <= clock + LeadMs
  BY <1>1, <1>6, Held DEF CallOK, CountedChain
<1>8. WorldOK(clock, now, Rec) /\ R!TypeOK /\ clock \in Nat /\ now \in Nat /\ clock < now * MS + MS
  BY Held DEF WorldOK
<1>9. issued \in Nat /\ issued <= now + Lead
  <2> DEFINE at == Least(T)
  <2>1. at \in Nat /\ at <= clock + Lead * MS
    BY <1>7 DEF LeadMs
  <2>2. issued = at \div MS
    BY DEF OldestTime
  <2> HIDE DEF at
  <2> QED BY <1>8, <2>1, <2>2, LeadType, Seconds, SecondOf
<1>10. sec \in Nat /\ sec <= now
  <2> DEFINE ms == call[p].nowMs
  <2>1. ms \in Nat /\ ms <= clock + 0 * MS
    BY <1>1, <1>8, AttestorAssumption
  <2> HIDE DEF ms
  <2>2. ms \div MS \in Nat /\ ms \div MS <= now + 0
    BY <1>8, <2>1, Seconds, SecondOf
  <2> QED BY <1>8, <2>2 DEF ms
<1>11. Recent(Rec, now, WINDOW) => Recent(Rec, sec, WINDOW)
  BY <1>8, <1>10, RegistryType, AttestorAssumption DEF Recent
<1> HIDE DEF m, sec
<1>12. /\ score \in MIN_SCORE .. MAX_SCORE
       /\ Recent(Rec, sec, WINDOW) =>
            score <= LIQUIDATION_TIER_CAP /\ (Rec.shortfallCount > 0 => score <= SHORTFALL_CAP)
  BY <1>5, <1>8, PolicyCaps, RegistryType
<1> DEFINE a == [NoPayload EXCEPT !.score = score, !.issuedAt = issued, !.expiresAt = issued + TTL]
<1>13. Scored(p).payload = a
  BY DEF Scored, Begin, m, sec
<1> HIDE DEF score, issued
<1>14. score \in Nat /\ TTL \in Nat /\ ScoreInRange(score)
  BY <1>12, AttestorAssumption DEF MIN_SCORE, MAX_SCORE, ScoreInRange
<1>15. a \in Payload /\ a.score = score /\ a.issuedAt = issued
  <2>1. issued \in Nat /\ issued + TTL \in Nat
    BY <1>9, <1>14
  <2> QED BY <1>14, <2>1, Nothings DEF Payload
<1> HIDE DEF a
<1>16. Reflects(a, now, Rec)
  BY <1>9, <1>11, <1>12, <1>15 DEF Reflects
<1> QED BY <1>13, <1>14, <1>15, <1>16

LEMMA ScoredMoves ==
    ASSUME IInv, NEW p \in Worker, pc[p] \in Evaluating, Verdict(p) = "SCORED",
           NEW place \in {"onChain", "timeLeft", "nonce"}, Goes(p, place, Scored(p))
    PROVE  Moves(p)
<1> DEFINE c == Scored(p)
<1>1. /\ c.payload \in Payload /\ ScoreInRange(c.payload.score) /\ Reflects(c.payload, now, Rec)
  BY ScoredPayload
<1>2. call[p].kind \in {"none", "score", "attest", "fresh"} /\ call[p].nowSec \in Nat
      /\ call[p].stage \in {"none", "first", "stale", "window"}
  BY Held DEF Call
<1>3. c = [Begin(call[p].kind, FALSE, call[p].stage, call[p].nowSec) EXCEPT
             !.nowMs = 0, !.payload = c.payload]
  BY DEF Scored, Begin
<1> DEFINE a == c.payload
<1>4. c = [Begin(call[p].kind, FALSE, call[p].stage, call[p].nowSec) EXCEPT !.nowMs = 0, !.payload = a]
      /\ a \in Payload
  BY <1>1, <1>3
<1> HIDE DEF c, a
<1>5. /\ c \in Call /\ c.nowMs = 0 /\ c.last = 0 /\ c.counted = {} /\ c.found = NoCachedScore
  BY <1>2, <1>4, Nothings DEF Begin, Call
<1>6. 0 <= clock + LeadMs /\ 0 <= clock /\ 0 <= Rec.lastLiquidatedAt
  BY Held, RegistryType, LeadType DEF WorldOK
<1>7. CallOK(place, c, clock, now, Rec, reservations)
  BY <1>1, <1>5, <1>6 DEF CallOK, Evaluating, Holding, NoCachedScore, a
<1> QED BY <1>5, <1>7 DEF Moves, Places, c

LEMMA ReadRecordKeeps == ASSUME IInv, NEW p \in Worker, ReadRecord(p) PROVE IInv'
<1>1. /\ pc[p] \in Evaluating /\ Verdict(p) = "SCORED"
      /\ UNCHANGED <<clock, store, signed, requests, registry>>
      /\ \/ Restarts(p, call[p].stage)
         \/ Ends(p)
         \/ call[p].stage = "first" /\ Goes(p, "onChain", Scored(p))
         \/ call[p].stage = "stale" /\ Goes(p, "timeLeft", Scored(p))
         \/ call[p].stage = "window" /\ Goes(p, "nonce", Scored(p))
  <2>1. /\ pc[p] = "scores" /\ Verdict(p) = "SCORED"
        /\ UNCHANGED <<clock, store, signed, requests, registry>>
    BY DEF ReadRecord
  <2>2. call[p].stage \in {"first", "stale", "window"}
    BY <2>1, Held DEF Call, CallOK, Evaluating
  <2>3. \/ Restarts(p, call[p].stage)
        \/ Ends(p)
        \/ CASE call[p].stage = "first" -> Goes(p, "onChain", Scored(p))
             [] call[p].stage = "stale" -> Goes(p, "timeLeft", Scored(p))
             [] call[p].stage = "window" -> Goes(p, "nonce", Scored(p))
    BY Zenon DEF ReadRecord
  <2>4. (CASE call[p].stage = "first" -> Goes(p, "onChain", Scored(p))
           [] call[p].stage = "stale" -> Goes(p, "timeLeft", Scored(p))
           [] call[p].stage = "window" -> Goes(p, "nonce", Scored(p))) =>
          \/ call[p].stage = "first" /\ Goes(p, "onChain", Scored(p))
          \/ call[p].stage = "stale" /\ Goes(p, "timeLeft", Scored(p))
          \/ call[p].stage = "window" /\ Goes(p, "nonce", Scored(p))
    BY <2>2
  <2> QED BY <2>1, <2>3, <2>4 DEF Evaluating
<1>2. call[p].stage \in {"first", "stale", "window"}
  BY <1>1, Held DEF Call, CallOK
<1>3. Moves(p)
  BY <1>1, <1>2, RestartMoves, EndMoves, ScoredMoves
<1> QED BY <1>1, <1>3, MoveKeeps

LEMMA ReadOnChainKeeps == ASSUME IInv, NEW p \in Worker, ReadOnChain(p) PROVE IInv'
<1>1. /\ pc[p] \in Holding /\ UNCHANGED <<clock, store, signed, requests, registry>>
      /\ Ends(p) \/ Restarts(p, "stale") \/ Goes(p, "timeLeft", call[p])
  BY DEF ReadOnChain, Holding
<1>2. Moves(p)
  BY <1>1, RestartMoves, EndMoves, SameCallMoves DEF Places, Evaluating
<1> QED BY <1>1, <1>2, MoveKeeps

\* A request that goes on with the same payload but for its nonce and deadline.
LEMMA PayloadMoves ==
    ASSUME IInv, NEW p \in Worker, pc[p] \in Holding, NEW place \in {"nonce", "before", "reserve"},
           NEW c \in Call, Goes(p, place, c),
           c.nowMs <= clock, c.last <= Rec.lastLiquidatedAt,
           c.found = call[p].found, c.counted = call[p].counted,
           c.payload.score = call[p].payload.score, c.payload.issuedAt = call[p].payload.issuedAt
    PROVE  Moves(p)
<1>1. Reflects(c.payload, now, Rec)
  BY Held DEF CallOK, Reflects
<1>2. CallOK(place, c, clock, now, Rec, reservations)
  BY <1>1, Held DEF CallOK, Evaluating, Holding
<1> QED BY <1>2 DEF Moves, Places

LEMMA CheckTimeLeftKeeps == ASSUME IInv, NEW p \in Worker, CheckTimeLeft(p) PROVE IInv'
<1> DEFINE nowSec == clock \div MS
           c == [call[p] EXCEPT !.nowSec = nowSec]
<1>1. /\ pc[p] \in Holding /\ UNCHANGED <<clock, store, signed, requests, registry>>
      /\ Goes(p, "history", Begin(call[p].kind, TRUE, "window", nowSec)) \/ Goes(p, "nonce", c)
  BY DEF CheckTimeLeft, Holding
<1>2. nowSec \in Nat
  BY Held, Seconds DEF WorldOK
<1> HIDE DEF nowSec
<1>3. /\ c \in Call /\ c.nowMs = call[p].nowMs /\ c.last = call[p].last
      /\ c.counted = call[p].counted /\ c.found = call[p].found /\ c.payload = call[p].payload
  BY <1>2, Held DEF Call
<1> HIDE DEF c
<1>4. call[p].kind \in {"none", "score", "attest", "fresh"}
  BY Held DEF Call
<1>5. c.nowMs <= clock /\ c.last <= Rec.lastLiquidatedAt
  BY <1>3, Held DEF CallOK
<1>6. Goes(p, "nonce", c) => Moves(p)
  BY <1>1, <1>3, <1>5, PayloadMoves
<1>7. Moves(p)
  BY <1>1, <1>2, <1>4, <1>6, Beginning
<1> QED BY <1>1, <1>7, MoveKeeps

LEMMA ReadNonceKeeps == ASSUME IInv, NEW p \in Worker, ReadNonce(p) PROVE IInv'
<1> DEFINE d == Least({call[p].nowSec + SUBMIT_WINDOW, call[p].payload.expiresAt - 1})
           n == nonces[wallet]
           a == [call[p].payload EXCEPT !.nonce = n, !.deadline = d]
           c == [call[p] EXCEPT !.payload.nonce = n, !.payload.deadline = d]
<1>1. /\ pc[p] \in Holding /\ UNCHANGED <<clock, store, signed, requests, registry>>
      /\ Goes(p, "before", c)
  BY DEF ReadNonce, Holding
<1>2. call[p].payload \in Payload /\ call[p].nowSec \in Nat
  BY Held DEF Call
<1>3. d \in Int
  BY <1>2, PayloadType, LeastPair, AttestorAssumption
<1>4. n \in 0 .. MaxNonce
  BY Held DEF R!TypeOK
<1> HIDE DEF d, n
<1>5. a \in Payload /\ a.score = call[p].payload.score /\ a.issuedAt = call[p].payload.issuedAt
  BY <1>2, <1>3, <1>4 DEF Payload
<1>6. /\ c \in Call /\ c.nowMs = call[p].nowMs /\ c.last = call[p].last
      /\ c.counted = call[p].counted /\ c.found = call[p].found /\ c.payload = a
  <2>1. c = [call[p] EXCEPT !.payload = a]
    BY Held DEF Call
  <2> HIDE DEF a, c
  <2> QED BY <1>5, <2>1, Held DEF Call
<1> HIDE DEF a, c
<1>7. c.nowMs <= clock /\ c.last <= Rec.lastLiquidatedAt
  BY <1>6, Held DEF CallOK
<1>8. Moves(p)
  BY <1>1, <1>5, <1>6, <1>7, PayloadMoves
<1> QED BY <1>1, <1>8, MoveKeeps

LEMMA ReadBeforeKeeps == ASSUME IInv, NEW p \in Worker, ReadBefore(p) PROVE IInv'
<1> DEFINE c == [call[p] EXCEPT !.last = Rec.lastLiquidatedAt, !.nowMs = clock]
<1>1. /\ pc[p] \in Holding /\ UNCHANGED <<clock, store, signed, requests, registry>>
      /\ Goes(p, "reserve", c)
  BY DEF ReadBefore, Holding
<1>2. clock \in Nat /\ Rec.lastLiquidatedAt \in Nat
  BY Held, RegistryType DEF WorldOK
<1>3. /\ c \in Call /\ c.nowMs = clock /\ c.last = Rec.lastLiquidatedAt
      /\ c.counted = call[p].counted /\ c.found = call[p].found /\ c.payload = call[p].payload
  BY <1>2, Held DEF Call
<1> HIDE DEF c
<1>4. Moves(p)
  BY <1>1, <1>2, <1>3, PayloadMoves
<1> QED BY <1>1, <1>4, MoveKeeps

\* A reservation that gives way to another can be used no longer than this second.
LEMMA SpentAfter ==
    ASSUME NEW a \in Payload, NEW res \in [0 .. MaxNonce -> Payload], NEW t, NEW rec,
           NEW n \in 0 .. MaxNonce, NEW kept,
           kept = res[n] \/ res[n].deadline <= t \/ res[n].issuedAt <= rec.lastLiquidatedAt,
           Spent(a, res, t, rec)
    PROVE  Spent(a, [res EXCEPT ![n] = kept], t, rec)
<1>1. a.nonce \in 0 .. MaxNonce
  BY PayloadType
<1>2. CASE a.nonce = n /\ a = res[n]
  BY <1>1, <1>2 DEF Spent
<1>3. CASE a.nonce # n
  BY <1>1, <1>3 DEF Spent
<1>4. CASE a.nonce = n /\ a # res[n]
  BY <1>1, <1>4 DEF Spent
<1> QED BY <1>2, <1>3, <1>4

LEMMA ReserveKeeps ==
    ASSUME IInv, NEW p \in Worker, NEW t \in call[p].nowMs .. clock, Reserve(p, t)
    PROVE  IInv'
<1> DEFINE mine == call[p].payload
           n == mine.nonce
           existing == reservations[n]
           live == Live(existing, mine, t, call[p].last)
           kept == IF live THEN existing ELSE mine
           res == [reservations EXCEPT ![n] = kept]
           c == [NoCall EXCEPT !.kind = call[p].kind, !.payload = kept]
<1>1. /\ pc[p] = "reserve" /\ reservations' = res /\ Goes(p, "sign", c)
      /\ UNCHANGED <<clock, scoreCache, historyCache, signed, requests, registry>>
  BY DEF Reserve
<1>2. /\ mine \in Payload /\ ScoreInRange(mine.score) /\ Reflects(mine, now, Rec)
      /\ call[p].nowMs \in Nat /\ call[p].last \in Nat /\ call[p].last <= Rec.lastLiquidatedAt
      /\ call[p].kind \in {"none", "score", "attest", "fresh"}
  BY <1>1, Held DEF Call, CallOK, Holding
<1>3. n \in 0 .. MaxNonce
  BY <1>2, PayloadType
<1>4. /\ existing \in Payload /\ ReservedOK(n, existing, now, Rec)
      /\ reservations \in [0 .. MaxNonce -> Payload]
  BY <1>3 DEF IInv, Reservations
<1>5. /\ clock \in Nat /\ now \in Nat /\ clock < now * MS + MS /\ Rec.lastLiquidatedAt \in Nat
      /\ WorldOK(clock, now, Rec) /\ R!TypeOK
  BY Held, RegistryType DEF WorldOK
<1>6. t \in Nat /\ t <= clock
  BY <1>2, <1>5
<1>7. existing.deadline \in Int /\ existing.issuedAt \in Nat
  BY <1>4, PayloadType
<1> HIDE DEF existing
<1>8. live => existing.deadline > 0
  <2>1. ASSUME existing.deadline * MS > t, ~(existing.deadline > 0) PROVE FALSE
    <3> DEFINE d == existing.deadline
    <3>1. d \in Int /\ d <= 0 /\ MS \in Nat /\ d * MS > t
      BY <1>7, <2>1, AttestorAssumption
    <3> HIDE DEF d
    <3>2. d * MS <= 0
      BY <3>1
    <3> QED BY <1>6, <3>1, <3>2
  <2> QED BY <2>1 DEF Live
<1>9. ~live => existing.deadline <= now \/ existing.issuedAt <= Rec.lastLiquidatedAt
  <2>1. ASSUME ~(existing.deadline * MS > t) PROVE existing.deadline <= now
    <3> DEFINE d == existing.deadline
    <3>1. d \in Int /\ d * MS <= t /\ MS \in Nat
      BY <1>6, <1>7, <2>1, AttestorAssumption
    <3> HIDE DEF d
    <3>2. SUFFICES ASSUME now < d PROVE FALSE
      BY <1>5, <3>1 DEF d
    <3>3. now * MS + MS <= d * MS /\ d * MS \in Int /\ now * MS \in Nat
      BY <1>5, <3>1, <3>2, MoreSeconds
    <3> QED BY <1>5, <1>6, <3>1, <3>3
  <2>2. ASSUME ~(existing.issuedAt > call[p].last) PROVE existing.issuedAt <= Rec.lastLiquidatedAt
    BY <1>2, <1>5, <1>7, <2>2
  <2> QED BY <2>1, <2>2 DEF Live
<1>10. kept = existing \/ existing.deadline <= now \/ existing.issuedAt <= Rec.lastLiquidatedAt
  BY <1>9
<1>11. kept \in Payload /\ kept.nonce = n /\ ScoreInRange(kept.score) /\ Reflects(kept, now, Rec)
  BY <1>2, <1>4, <1>8 DEF ReservedOK
<1> HIDE DEF live, kept, n
<1>12. res \in [0 .. MaxNonce -> Payload] /\ res[n] = kept
  BY <1>3, <1>4, <1>11
<1>13. ASSUME NEW a \in Payload, Spent(a, reservations, now, Rec) PROVE Spent(a, res, now, Rec)
  <2>1. \/ kept = reservations[n] \/ reservations[n].deadline <= now
        \/ reservations[n].issuedAt <= Rec.lastLiquidatedAt
    BY <1>10 DEF existing
  <2> QED BY <1>3, <1>4, <1>13, <2>1, SpentAfter
<1>14. Spent(kept, res, now, Rec)
  BY <1>11, <1>12 DEF Spent
<1>15. \A m \in 0 .. MaxNonce : ReservedOK(m, res[m], now, Rec)
  <2>1. ReservedOK(n, kept, now, Rec)
    BY <1>11 DEF ReservedOK
  <2>2. ASSUME NEW m \in 0 .. MaxNonce, m # n PROVE ReservedOK(m, reservations[m], now, Rec)
    BY DEF IInv, Reservations
  <2> QED BY <1>4, <2>1, <2>2
<1> HIDE DEF res
<1>16. /\ c \in Call /\ c.nowMs = 0 /\ c.last = 0 /\ c.counted = {} /\ c.found = NoCachedScore
       /\ c.payload = kept
  BY <1>2, <1>11, Nothings, NoCallIs DEF Call
<1> HIDE DEF c
<1>17. CallOK("sign", c, clock, now, Rec, res)
  <2>1. 0 <= clock + LeadMs /\ 0 <= clock /\ 0 <= Rec.lastLiquidatedAt
    BY <1>5, LeadType
  <2> QED BY <1>11, <1>14, <1>16, <2>1 DEF CallOK, Evaluating, Holding, NoCachedScore
<1>18. ASSUME NEW q \in Worker, q # p PROVE CallOK(pc[q], call[q], clock, now, Rec, res)
  <2>1. CallOK(pc[q], call[q], clock, now, Rec, reservations) /\ call[q].payload \in Payload
    BY Held DEF Call
  <2>2. pc[q] = "sign" => Spent(call[q].payload, res, now, Rec)
    BY <1>13, <2>1 DEF CallOK
  <2> QED BY <2>1, <2>2 DEF CallOK
<1>19. UNCHANGED <<clock, now, Rec, Score, signed, scoreCache, historyCache>>
       /\ UNCHANGED <<attestor, attestorEpoch, scores, liquidations, nonces, isMarket, paused, accepted>>
  BY <1>1 DEF registry, Rec, Score
<1>20. Requests'
  <2>1. pc' \in [Worker -> Places] /\ call' \in [Worker -> Call]
    BY <1>1, <1>16 DEF IInv, Requests, Goes, Places
  <2>2. ASSUME NEW q \in Worker PROVE CallOK(pc'[q], call'[q], clock, now, Rec, res)
    <3>1. CASE q = p
      BY <1>1, <1>17, <3>1 DEF IInv, Requests, Goes
    <3>2. CASE q # p
      BY <1>1, <1>18, <3>2 DEF IInv, Requests, Goes
    <3> QED BY <3>1, <3>2
  <2> QED BY <1>1, <1>19, <2>1, <2>2 DEF Requests
<1>21. Reservations'
  BY <1>1, <1>12, <1>15, <1>19 DEF Reservations
<1>22. Signatures'
  <2>1. ASSUME NEW a \in signed PROVE SignedOK(a, res, now, Rec)
    BY <1>13 DEF IInv, Signatures, SignedOK
  <2> QED BY <1>1, <1>19, <2>1 DEF IInv, Signatures
<1>23. Caches'
  BY <1>19 DEF IInv, Caches
<1>24. OnChain'
  BY <1>19 DEF IInv, OnChain, R!TypeOK
<1> QED BY <1>20, <1>21, <1>22, <1>23, <1>24 DEF IInv

LEMMA SignKeeps == ASSUME IInv, NEW p \in Worker, Sign(p) PROVE IInv'
<1> DEFINE a == call[p].payload
           c == [NoCall EXCEPT !.kind = call[p].kind]
<1>1. /\ pc[p] = "sign" /\ UNCHANGED <<clock, store, registry>>
      /\ \/ Goes(p, "drop", c) /\ signed' = signed
         \/ signed' = signed \cup {a} /\ Ends(p)
  BY DEF Sign
<1>2. a \in Payload /\ SignedOK(a, reservations, now, Rec)
  BY <1>1, Held DEF Call, CallOK, Holding, SignedOK
<1>3. ASSUME Goes(p, "drop", c) PROVE Moves(p)
  <2>1. call[p].kind \in {"none", "score", "attest", "fresh"}
    BY Held DEF Call
  <2>2. /\ c \in Call /\ c.nowMs = 0 /\ c.last = 0 /\ c.counted = {} /\ c.found = NoCachedScore
        /\ c.payload = NoPayload
    BY <2>1, Nothings, NoCallIs DEF Call
  <2> HIDE DEF c
  <2>3. CallOK("drop", c, clock, now, Rec, reservations)
    BY <2>2, Held, EmptyCall
  <2> QED BY <1>3, <2>2, <2>3 DEF Moves, Places
<1>4. Moves(p)
  BY <1>1, <1>3, EndMoves
<1> HIDE DEF a, c
<1>5. UNCHANGED <<clock, reservations, now, Rec, Score, scoreCache, historyCache>>
       /\ UNCHANGED <<attestor, attestorEpoch, scores, liquidations, nonces, isMarket, paused, accepted>>
  BY <1>1 DEF registry, store, Rec, Score
<1>6. Requests'
  BY <1>1, <1>4, <1>5, Moved
<1>7. Signatures'
  <2>1. signed' \subseteq Payload /\ \A x \in signed' : SignedOK(x, reservations, now, Rec)
    BY <1>1, <1>2 DEF IInv, Signatures
  <2> QED BY <1>5, <2>1 DEF Signatures
<1>8. Reservations' /\ Caches'
  BY <1>5 DEF IInv, Reservations, Caches
<1>9. OnChain'
  BY <1>5 DEF IInv, OnChain, R!TypeOK
<1> QED BY <1>6, <1>7, <1>8, <1>9 DEF IInv

----------------------------------------------------------------------------
(* The invariant, and what it is for. *)

LEMMA InvStep == IInv /\ [Next]_vars => IInv'
<1> SUFFICES ASSUME IInv, [Next]_vars PROVE IInv'
  OBVIOUS
<1>1. CASE UNCHANGED vars
  <2>1. /\ UNCHANGED <<clock, pc, call, scoreCache, historyCache, reservations, signed, now, Rec, Score>>
        /\ UNCHANGED <<attestor, attestorEpoch, scores, liquidations, nonces, isMarket, paused, accepted>>
    BY <1>1 DEF vars, store, registry, Rec, Score
  <2> QED BY <2>1 DEF IInv, Requests, Caches, Reservations, Signatures, OnChain, R!TypeOK
<1>2. ASSUME NEW p \in Worker, Step(p) PROVE IInv'
  BY <1>2, ReadHistoryCacheKeeps, CheckHistoryKeeps, PutHistoryKeeps, ClearScoresKeeps,
     ReadScoreCacheKeeps, AskChainScoreKeeps, PutScoreKeeps, AbortKeeps, ReadRecordKeeps,
     ReadOnChainKeeps, CheckTimeLeftKeeps, ReadNonceKeeps, ReadBeforeKeeps, ReserveKeeps,
     SignKeeps, DropKeeps DEF Step
<1> QED BY <1>1, <1>2, StartKeeps, AbortKeeps, CrashKeeps, SubmitKeeps, LiquidationKeeps,
           RotateKeeps, TickKeeps DEF Next

LEMMA Invariance == Spec => []IInv
BY InvInit, InvStep, PTL DEF Spec

LEMMA Typed == IInv => TypeOK
<1> SUFFICES ASSUME IInv PROVE TypeOK
  OBVIOUS
<1>1. ASSUME NEW p \in Worker PROVE call[p].todo \cup call[p].failed \subseteq Chain /\ call[p].payload \in Payload
  <2>1. call[p] \in Call
    BY Held
  <2> QED BY <2>1, ScoringAssumption DEF Call
<1>2. \A a \in signed : a \in Payload /\ ScoreInRange(a.score)
  BY DEF IInv, Signatures, SignedOK
<1> QED BY <1>1, <1>2 DEF IInv, Requests, Caches, Reservations, OnChain, TypeOK, ScoreEntry

\* Whatever is cached, reserved and signed has its type, and a signature is only ever on
\* a score the registry has a tier for (service.ts, store.ts).
THEOREM TypeCorrect == Spec => []TypeOK
BY Typed, Invariance, PTL

LEMMA OnePayload == IInv => OnePayloadBeforeDeadline
<1> SUFFICES ASSUME IInv, NEW a \in signed, NEW b \in signed,
                    a.nonce = b.nonce, Acceptable(a), Acceptable(b), a # b
             PROVE  now = Least({a.deadline, b.deadline})
  BY DEF OnePayloadBeforeDeadline
<1>1. ASSUME NEW x \in signed, Acceptable(x)
      PROVE  /\ x.deadline \in Int /\ now <= x.deadline
             /\ x = reservations[x.nonce] \/ x.deadline <= now
  <2>1. x \in Payload /\ Spent(x, reservations, now, Rec)
    BY DEF IInv, Signatures, SignedOK
  <2>2. x.wallet = wallet /\ x.deadline \in Int /\ x.issuedAt \in Nat
    BY <2>1, PayloadType
  <2>3. now <= x.deadline /\ x.issuedAt > Rec.lastLiquidatedAt
    BY <1>1, <2>2 DEF Acceptable, R!Submittable, Rec
  <2>4. Rec.lastLiquidatedAt \in Nat
    BY RegistryType DEF IInv, OnChain
  <2> QED BY <2>1, <2>2, <2>3, <2>4 DEF Spent
<1>2. now \in Nat
  BY RegistryType DEF IInv, OnChain
<1>3. a.deadline = now \/ b.deadline = now
  BY <1>1, <1>2
<1>4. Least({a.deadline, b.deadline}) = IF a.deadline <= b.deadline THEN a.deadline ELSE b.deadline
  BY <1>1, LeastPair
<1> QED BY <1>1, <1>2, <1>3, <1>4

\* No two payloads for one nonce can both be accepted before the second the earlier of
\* them ends in, whatever requests, crashes and liquidations come between (store.ts).
THEOREM OneUsablePayload == Spec => []OnePayloadBeforeDeadline
BY OnePayload, Invariance, PTL

\* The policy reaches the chain for every score dated later than the last liquidation by
\* more than an answer of ChainScore can be ahead of the clock.
PolicyReachesPastLead ==
    /\ ~R!IsStale(wallet) /\ Recent(Rec, now, WINDOW)
    /\ Score.issuedAt > Rec.lastLiquidatedAt + Lead
    => /\ Rank[R!EffectiveTier(wallet)] <= Rank["C"]
       /\ Rec.shortfallCount > 0 => R!EffectiveTier(wallet) = FLOOR

LEMMA PastLead == IInv => PolicyReachesPastLead
<1> SUFFICES ASSUME IInv, ~R!IsStale(wallet), Recent(Rec, now, WINDOW),
                    Score.issuedAt > Rec.lastLiquidatedAt + Lead
             PROVE  /\ Rank[R!EffectiveTier(wallet)] <= Rank["C"]
                    /\ Rec.shortfallCount > 0 => R!EffectiveTier(wallet) = FLOOR
  BY DEF PolicyReachesPastLead
<1> DEFINE s == Score.score
<1>1. /\ s <= LIQUIDATION_TIER_CAP /\ (Rec.shortfallCount > 0 => s <= SHORTFALL_CAP)
      /\ s \in Nat
  BY RegistryType DEF IInv, OnChain, Reflects
<1>2. R!EffectiveTier(wallet) = ScoreToTier(s)
  BY DEF R!EffectiveTier, R!ScoreToTier, ScoreToTier, R!A_MIN, R!B_MIN, R!C_MIN, R!D_MIN, R!FLOOR,
         A_MIN, B_MIN, C_MIN, D_MIN, FLOOR, Score
<1> HIDE DEF s
<1>3. ScoreToTier(s) \in {"C", "D", FLOOR}
  BY <1>1 DEF ScoreToTier, LIQUIDATION_TIER_CAP, A_MIN, B_MIN, C_MIN, D_MIN
<1>4. Rec.shortfallCount > 0 => ScoreToTier(s) = FLOOR
  BY <1>1 DEF ScoreToTier, SHORTFALL_CAP, A_MIN, B_MIN, C_MIN, D_MIN
<1>5. Rank[ScoreToTier(s)] <= Rank["C"]
  BY <1>3 DEF Rank, Tier, FLOOR
<1> QED BY <1>2, <1>4, <1>5

\* For any answers of ChainScore: validation bounds how far ahead one can be dated, and
\* only a score no newer than the liquidation by more than that may be without the policy
\* (validate.ts, policy.ts, service.ts).
THEOREM PolicyReachesUpToDrift == Spec => []PolicyReachesPastLead
BY PastLead, Invariance, PTL

LEMMA Reaches == NoLead /\ IInv => PolicyReachesTheChain
<1> SUFFICES ASSUME NoLead, IInv, ~R!IsStale(wallet), Recent(Rec, now, WINDOW)
             PROVE  /\ Rank[R!EffectiveTier(wallet)] <= Rank["C"]
                    /\ Rec.shortfallCount > 0 => R!EffectiveTier(wallet) = FLOOR
  BY DEF PolicyReachesTheChain
<1>1. Rec.lastLiquidatedAt \in Nat /\ Score.issuedAt \in Nat
  BY RegistryType DEF IInv, OnChain
<1>2. Score.issuedAt > Rec.lastLiquidatedAt
  BY <1>1 DEF R!IsStale, Score, Rec
<1>3. Score.issuedAt > Rec.lastLiquidatedAt + Lead
  BY <1>1, <1>2 DEF Lead
<1> QED BY <1>3, PastLead DEF PolicyReachesPastLead

\* Where ChainScore dates no answer ahead of the service's clock, the policy reaches the
\* chain whole: a wallet liquidated within the window has at most tier C there, and the
\* floor tier after bad debt, whatever was cached, reserved or signed meanwhile.
THEOREM PolicyIsOnChain == ASSUME NoLead PROVE Spec => []PolicyReachesTheChain
<1>1. IInv => PolicyReachesTheChain
  BY Reaches
<1> QED BY <1>1, Invariance, PTL

\* The same through several chains and rotations, with the types of all that is cached,
\* reserved and signed.
THEOREM PolicyReaches == ASSUME NoLead PROVE Spec => []ServesWhatHolds
<1>1. IInv => ServesWhatHolds
  BY Typed, Reaches DEF ServesWhatHolds
<1> QED BY <1>1, Invariance, PTL
=============================================================================
