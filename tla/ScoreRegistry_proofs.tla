----------------------- MODULE ScoreRegistry_proofs -----------------------
(***************************************************************************)
(* Proofs about ScoreRegistry, for every set of wallets, keys and markets, *)
(* every skew and time to live, and every value of the bounds.             *)
(*                                                                         *)
(* NoReplayNoRollback is not inductive by itself: that a new attestation   *)
(* is newer than all before it needs that the stored score is the last     *)
(* accepted one.  Bookkeeping says so, ties the last attestation to the    *)
(* key that was in office, and orders the liquidation record and the clock.*)
(***************************************************************************)
EXTENDS ScoreRegistry, TLAPS

\* The stored score is the last accepted attestation, accepted under its limits.
ScoreIsLast(w) ==
    /\ scores[w].issuedAt = LastAccepted(w).issuedAt
    /\ scores[w].attestorEpoch = LastAccepted(w).epoch
    /\ scores[w].expiresAt <= LastAccepted(w).issuedAt + MAX_TTL
    /\ LastAccepted(w).issuedAt <= LastAccepted(w).at + MAX_CLOCK_SKEW

\* Whoever signed in the current epoch is in office.
SignedInOffice(w) ==
    /\ LastAccepted(w).epoch <= attestorEpoch
    /\ LastAccepted(w).epoch = attestorEpoch => LastAccepted(w).signer = attestor

Bookkeeping ==
    \A w \in Wallet :
        /\ liquidations[w].lastLiquidatedAt <= now
        /\ accepted[w] = <<>> => scores[w] = NoScore
        /\ accepted[w] # <<>> => ScoreIsLast(w) /\ SignedInOffice(w)

IInv == TypeOK /\ NoReplayNoRollback /\ Bookkeeping

----------------------------------------------------------------------------
(* Type correctness. *)

\* A payload's numbers are natural and its score is a possible one.
LEMMA AttestationType ==
    ASSUME NEW a \in Attestation
    PROVE  /\ a.wallet \in Wallet /\ a.score \in ScoreInput /\ a.nonce \in Nat
           /\ a.issuedAt \in Nat /\ a.expiresAt \in Nat /\ a.deadline \in Nat
BY RegistryAssumption DEF Attestation, Timestamp

\* The constructor leaves every variable in its type.
LEMMA TypeInit == Init => TypeOK
<1> SUFFICES ASSUME Init PROVE TypeOK
    OBVIOUS
<1>1. NoScore \in ScoreRecord /\ NoLiquidation \in LiquidationRecord
  BY DEF NoScore, ScoreRecord, NoLiquidation, LiquidationRecord
<1>2. 0 \in 0 .. MaxNonce /\ 1 \in Nat \ {0}
  BY RegistryAssumption
<1>3. << >> \in Seq(Entry)
  OBVIOUS
<1> QED BY <1>1, <1>2, <1>3 DEF Init, TypeOK

\* Every transaction of ScoreRegistry keeps its types.
LEMMA TypeStep == TypeOK /\ [Next]_vars => TypeOK'
<1> SUFFICES ASSUME TypeOK, [Next]_vars PROVE TypeOK'
    OBVIOUS
<1>1. ASSUME NEW a \in Attestation, NEW k \in Signer, SubmitAttestation(a, k)
      PROVE  TypeOK'
  <2>1. /\ a.wallet \in Wallet /\ a.score \in ScoreInput /\ a.nonce \in Nat
        /\ a.issuedAt \in Nat /\ a.expiresAt \in Nat
    BY AttestationType
  <2>2. [score |-> a.score, issuedAt |-> a.issuedAt, expiresAt |-> a.expiresAt,
         attestorEpoch |-> attestorEpoch] \in ScoreRecord
    BY <2>1 DEF TypeOK, ScoreRecord
  <2>3. a.nonce + 1 \in 0 .. MaxNonce
    BY <1>1, <2>1, RegistryAssumption DEF TypeOK, SubmitAttestation, Submittable
  <2>4. Append(accepted[a.wallet], EntryOf(a, k)) \in Seq(Entry)
    <3>1. EntryOf(a, k) \in Entry
      BY <2>1 DEF TypeOK, Entry, EntryOf
    <3> QED BY <2>1, <3>1 DEF TypeOK
  <2> QED BY <1>1, <2>1, <2>2, <2>3, <2>4 DEF TypeOK, SubmitAttestation, admin
<1>2. ASSUME NEW m \in Market, NEW w \in Wallet, NEW s \in Shortfall, RecordLiquidation(m, w, s)
      PROVE  TypeOK'
  <2> DEFINE r == liquidations[w]
             new == [lastLiquidatedAt |-> now,
                     liquidationCount |-> r.liquidationCount + 1,
                     shortfallCount |-> r.shortfallCount + (IF s > 0 THEN 1 ELSE 0),
                     totalShortfall |-> WithShortfall(r.totalShortfall, s)]
  <2>1. new \in LiquidationRecord
    BY RegistryAssumption DEF TypeOK, LiquidationRecord, WithShortfall
  <2>2. liquidations' = [liquidations EXCEPT ![w] = new]
    BY <1>2 DEF RecordLiquidation
  <2> QED BY <1>2, <2>1, <2>2 DEF TypeOK, RecordLiquidation, admin
<1>3. ASSUME NEW k \in Signer, SetAttestor(k) PROVE TypeOK'
  <2>1. attestorEpoch' \in Nat \ {0}
    BY <1>3 DEF TypeOK, SetAttestor, NextEpoch
  <2> QED BY <1>3, <2>1 DEF TypeOK, SetAttestor, tables
<1>4. ASSUME NEW m \in Market, NEW b \in BOOLEAN, SetMarket(m, b) PROVE TypeOK'
  BY <1>4 DEF TypeOK, SetMarket, tables
<1>5. CASE Pause
  BY <1>5 DEF TypeOK, Pause, tables
<1>6. CASE Unpause
  BY <1>6 DEF TypeOK, Unpause, tables
<1>7. CASE Tick
  <2>1. now' \in Nat
    BY <1>7 DEF TypeOK, Tick
  <2> QED BY <1>7, <2>1 DEF TypeOK, Tick, tables, admin
<1>8. CASE UNCHANGED vars
  BY <1>8 DEF TypeOK, vars, tables, admin
<1> QED BY <1>1, <1>2, <1>3, <1>4, <1>5, <1>6, <1>7, <1>8 DEF Next

\* Every variable of the registry keeps the type of its Solidity declaration.
THEOREM TypeCorrect == Spec => []TypeOK
BY TypeInit, TypeStep, PTL DEF Spec

----------------------------------------------------------------------------
(* The inductive invariant. *)

\* The constructor's state.
LEMMA InvInit == Init => IInv
<1> SUFFICES ASSUME Init PROVE IInv
    OBVIOUS
<1>1. TypeOK
  BY TypeInit
<1>2. NoReplayNoRollback
  BY DEF Init, NoReplayNoRollback
<1>3. Bookkeeping
  BY DEF Init, Bookkeeping, NoLiquidation
<1> QED BY <1>1, <1>2, <1>3 DEF IInv

\* An accepted attestation is the next one in its wallet's history, and newer
\* than all of them.
LEMMA SubmitKeepsHistory ==
    ASSUME IInv, NEW a \in Attestation, NEW k \in Signer, SubmitAttestation(a, k)
    PROVE  NoReplayNoRollback'
<1> DEFINE s == accepted[a.wallet]
           n == Len(s)
           e == EntryOf(a, k)
<1>1. a.wallet \in Wallet /\ a.nonce \in Nat /\ a.issuedAt \in Nat
  BY AttestationType
<1>2. s \in Seq(Entry) /\ n \in Nat
  BY <1>1 DEF IInv, TypeOK
<1>3. /\ accepted' = [accepted EXCEPT ![a.wallet] = Append(s, e)]
      /\ nonces' = [nonces EXCEPT ![a.wallet] = a.nonce + 1]
      /\ a.nonce = nonces[a.wallet]
      /\ a.issuedAt > scores[a.wallet].issuedAt
  BY DEF SubmitAttestation, Submittable, Newer
<1>4. /\ nonces[a.wallet] = n
      /\ \A i \in 1 .. n : s[i].nonce = i - 1
      /\ \A i, j \in 1 .. n : i < j => s[i].issuedAt < s[j].issuedAt
  BY <1>1 DEF IInv, NoReplayNoRollback
<1>5. e.nonce = n /\ e.issuedAt = a.issuedAt
  BY <1>3, <1>4 DEF EntryOf
<1>6. \A i \in 1 .. n : s[i].issuedAt < e.issuedAt
  <2> SUFFICES ASSUME NEW i \in 1 .. n PROVE s[i].issuedAt < e.issuedAt
      OBVIOUS
  <2>1. n \in 1 .. n /\ s # << >>
    BY <1>2
  <2>2. s[i].issuedAt \in Nat /\ s[n].issuedAt \in Nat
    <3>1. s[i] \in Entry /\ s[n] \in Entry
      BY <1>2, <2>1
    <3> QED BY <3>1 DEF Entry
  <2>3. s[n].issuedAt = scores[a.wallet].issuedAt
    BY <1>1, <2>1 DEF IInv, Bookkeeping, ScoreIsLast, LastAccepted
  <2>4. s[i].issuedAt <= s[n].issuedAt
    <3>1. CASE i = n
      BY <2>2, <3>1
    <3>2. CASE i < n
      BY <1>4, <2>1, <2>2, <3>2
    <3> QED BY <1>2, <3>1, <3>2
  <2> QED BY <1>1, <1>3, <1>5, <2>2, <2>3, <2>4
<1>7. /\ Len(Append(s, e)) = n + 1
      /\ \A i \in 1 .. n : Append(s, e)[i] = s[i]
      /\ Append(s, e)[n + 1] = e
  BY <1>2
<1>8. SUFFICES ASSUME NEW w \in Wallet
      PROVE /\ Len(accepted'[w]) = nonces'[w]
            /\ \A i \in 1 .. Len(accepted'[w]) : accepted'[w][i].nonce = i - 1
            /\ \A i, j \in 1 .. Len(accepted'[w]) :
                  i < j => accepted'[w][i].issuedAt < accepted'[w][j].issuedAt
  BY DEF NoReplayNoRollback
<1>9. CASE w # a.wallet
  <2>1. accepted'[w] = accepted[w] /\ nonces'[w] = nonces[w]
    BY <1>3, <1>9 DEF IInv, TypeOK
  <2> QED BY <2>1 DEF IInv, NoReplayNoRollback
<1>10. CASE w = a.wallet
  <2>1. accepted'[w] = Append(s, e) /\ nonces'[w] = n + 1
    BY <1>1, <1>3, <1>4, <1>10 DEF IInv, TypeOK
  <2>2. \A i \in 1 .. n + 1 : i \in 1 .. n \/ i = n + 1
    BY <1>2
  <2>3. \A i \in 1 .. n + 1 : Append(s, e)[i].nonce = i - 1
    BY <1>2, <1>4, <1>5, <1>7, <2>2
  <2>4. \A i, j \in 1 .. n + 1 : i < j => Append(s, e)[i].issuedAt < Append(s, e)[j].issuedAt
    <3> SUFFICES ASSUME NEW i \in 1 .. n + 1, NEW j \in 1 .. n + 1, i < j
                 PROVE  Append(s, e)[i].issuedAt < Append(s, e)[j].issuedAt
        OBVIOUS
    <3>1. i \in 1 .. n
      BY <1>2
    <3>2. CASE j = n + 1
      BY <1>6, <1>7, <3>1, <3>2
    <3>3. CASE j \in 1 .. n
      BY <1>4, <1>7, <3>1, <3>3
    <3> QED BY <2>2, <3>2, <3>3
  <2> QED BY <1>7, <2>1, <2>3, <2>4
<1> QED BY <1>9, <1>10

\* A submission keeps the score table in step with the history and the books.
LEMMA SubmitKeepsBooks ==
    ASSUME IInv, NEW a \in Attestation, NEW k \in Signer, SubmitAttestation(a, k)
    PROVE  Bookkeeping'
<1> DEFINE s == accepted[a.wallet]
           e == EntryOf(a, k)
<1>1. a.wallet \in Wallet
  BY AttestationType
<1>2. s \in Seq(Entry)
  BY <1>1 DEF IInv, TypeOK
<1>3. /\ accepted' = [accepted EXCEPT ![a.wallet] = Append(s, e)]
      /\ scores' = [scores EXCEPT ![a.wallet] =
                      [score |-> a.score, issuedAt |-> a.issuedAt, expiresAt |-> a.expiresAt,
                       attestorEpoch |-> attestorEpoch]]
      /\ a.expiresAt <= a.issuedAt + MAX_TTL /\ a.issuedAt <= now + MAX_CLOCK_SKEW
      /\ k = attestor
      /\ UNCHANGED <<now, liquidations, attestor, attestorEpoch>>
  BY DEF SubmitAttestation, Submittable, NotInFuture, admin
<1>4. SUFFICES ASSUME NEW w \in Wallet
      PROVE /\ liquidations'[w].lastLiquidatedAt <= now'
            /\ accepted'[w] = <<>> => scores'[w] = NoScore
            /\ accepted'[w] # <<>> => ScoreIsLast(w)' /\ SignedInOffice(w)'
  BY DEF Bookkeeping
<1>5. liquidations'[w].lastLiquidatedAt <= now'
  BY <1>3 DEF IInv, Bookkeeping
<1>6. CASE w # a.wallet
  <2>1. accepted'[w] = accepted[w] /\ scores'[w] = scores[w]
    BY <1>3, <1>6 DEF IInv, TypeOK
  <2> QED BY <1>3, <1>5, <2>1
          DEF IInv, Bookkeeping, ScoreIsLast, SignedInOffice, LastAccepted
<1>7. CASE w = a.wallet
  <2>1. accepted'[w] = Append(s, e)
    BY <1>1, <1>3, <1>7 DEF IInv, TypeOK
  <2>2. accepted'[w] # << >> /\ LastAccepted(w)' = e
    BY <1>2, <2>1 DEF LastAccepted
  <2>3. scores'[w] = [score |-> a.score, issuedAt |-> a.issuedAt, expiresAt |-> a.expiresAt,
                      attestorEpoch |-> attestorEpoch]
    BY <1>1, <1>3, <1>7 DEF IInv, TypeOK
  <2>4. ScoreIsLast(w)'
    BY <1>3, <2>2, <2>3 DEF ScoreIsLast, EntryOf
  <2>5. SignedInOffice(w)'
    BY <1>3, <2>2 DEF SignedInOffice, EntryOf, IInv, TypeOK
  <2> QED BY <1>5, <2>2, <2>4, <2>5
<1> QED BY <1>6, <1>7

\* No transaction and no passing of time disturbs the history or the books.
LEMMA InvStep == IInv /\ [Next]_vars => IInv'
<1> SUFFICES ASSUME IInv, [Next]_vars PROVE IInv'
    OBVIOUS
<1>1. TypeOK'
  BY TypeStep DEF IInv
<1>2. ASSUME NEW a \in Attestation, NEW k \in Signer, SubmitAttestation(a, k)
      PROVE  IInv'
  BY <1>1, <1>2, SubmitKeepsHistory, SubmitKeepsBooks DEF IInv
<1>3. ASSUME UNCHANGED <<nonces, accepted>> PROVE NoReplayNoRollback'
  BY <1>3 DEF IInv, NoReplayNoRollback
<1>4. ASSUME NEW m \in Market, NEW w \in Wallet, NEW s \in Shortfall, RecordLiquidation(m, w, s)
      PROVE  IInv'
  <2>1. NoReplayNoRollback'
    BY <1>3, <1>4 DEF RecordLiquidation
  <2>2. \A v \in Wallet : liquidations'[v].lastLiquidatedAt <= now'
    BY <1>4 DEF IInv, Bookkeeping, RecordLiquidation, TypeOK, LiquidationRecord
  <2>3. Bookkeeping'
    BY <1>4, <2>2 DEF IInv, Bookkeeping, RecordLiquidation, admin,
                      ScoreIsLast, SignedInOffice, LastAccepted
  <2> QED BY <1>1, <2>1, <2>3 DEF IInv
<1>5. ASSUME NEW k \in Signer, SetAttestor(k) PROVE IInv'
  <2>1. UNCHANGED <<now, scores, liquidations, nonces, accepted>> /\ attestorEpoch' = attestorEpoch + 1
    BY <1>5 DEF SetAttestor, NextEpoch, tables
  <2>2. \A w \in Wallet : accepted[w] # <<>> =>
           LastAccepted(w).epoch \in Nat /\ LastAccepted(w).epoch < attestorEpoch'
    <3> SUFFICES ASSUME NEW w \in Wallet, accepted[w] # <<>>
                 PROVE  LastAccepted(w).epoch \in Nat /\ LastAccepted(w).epoch < attestorEpoch'
        OBVIOUS
    <3>1. LastAccepted(w) \in Entry
      <4>1. accepted[w] \in Seq(Entry)
        BY DEF IInv, TypeOK
      <4> QED BY <4>1 DEF LastAccepted
    <3>2. LastAccepted(w).epoch <= attestorEpoch
      BY DEF IInv, Bookkeeping, SignedInOffice
    <3> QED BY <2>1, <3>1, <3>2 DEF Entry, IInv, TypeOK
  <2>3. Bookkeeping'
    <3> SUFFICES ASSUME NEW w \in Wallet
                 PROVE /\ liquidations'[w].lastLiquidatedAt <= now'
                       /\ accepted'[w] = <<>> => scores'[w] = NoScore
                       /\ accepted'[w] # <<>> => ScoreIsLast(w)' /\ SignedInOffice(w)'
        BY DEF Bookkeeping
    <3>1. accepted[w] # <<>> => SignedInOffice(w)'
      BY <1>1, <2>1, <2>2 DEF SignedInOffice, LastAccepted, TypeOK
    <3> QED BY <2>1, <3>1 DEF IInv, Bookkeeping, ScoreIsLast, LastAccepted
  <2> QED BY <1>1, <1>3, <2>1, <2>3 DEF IInv
<1>6. ASSUME UNCHANGED <<tables, attestor, attestorEpoch>>, now' = now \/ now' = now + 1
      PROVE  IInv'
  <2>1. Bookkeeping'
    <3>1. \A w \in Wallet : liquidations'[w].lastLiquidatedAt <= now'
      BY <1>6 DEF IInv, Bookkeeping, TypeOK, LiquidationRecord, tables
    <3> QED BY <1>6, <3>1 DEF IInv, Bookkeeping, ScoreIsLast, SignedInOffice, LastAccepted, tables
  <2>2. NoReplayNoRollback'
    BY <1>3, <1>6 DEF tables
  <2> QED BY <1>1, <2>1, <2>2 DEF IInv
<1>7. ASSUME NEW m \in Market, NEW b \in BOOLEAN, SetMarket(m, b) PROVE IInv'
  BY <1>6, <1>7 DEF SetMarket
<1>8. CASE Pause
  BY <1>6, <1>8 DEF Pause
<1>9. CASE Unpause
  BY <1>6, <1>9 DEF Unpause
<1>10. CASE Tick
  BY <1>6, <1>10 DEF Tick, admin
<1>11. CASE UNCHANGED vars
  BY <1>6, <1>11 DEF vars, admin
<1> QED BY <1>2, <1>4, <1>5, <1>7, <1>8, <1>9, <1>10, <1>11 DEF Next

\* The registry never reaches a state outside the invariant.
LEMMA Invariance == Spec => []IInv
BY InvInit, InvStep, PTL DEF Spec

\* For any history of submissions, rotations and liquidations: one use per
\* nonce, and data times that only grow.
THEOREM HistoryIsLinear == Spec => []NoReplayNoRollback
<1>1. IInv => NoReplayNoRollback
  BY DEF IInv
<1> QED BY <1>1, Invariance, PTL

----------------------------------------------------------------------------
(* Freshness and the penalty of a liquidation. *)

\* The numbers of a wallet's records and of its last attestation are natural.
LEMMA Numbers ==
    ASSUME TypeOK, NEW w \in Wallet
    PROVE  /\ now \in Nat /\ attestorEpoch \in Nat
           /\ scores[w].score \in Nat /\ scores[w].issuedAt \in Nat
           /\ scores[w].expiresAt \in Nat /\ scores[w].attestorEpoch \in Nat
           /\ liquidations[w].lastLiquidatedAt \in Nat
           /\ accepted[w] # <<>> => LastAccepted(w) \in Entry
<1>1. scores[w] \in ScoreRecord /\ liquidations[w] \in LiquidationRecord
  BY DEF TypeOK
<1>2. accepted[w] \in Seq(Entry)
  BY DEF TypeOK
<1>3. accepted[w] # <<>> => LastAccepted(w) \in Entry
  BY <1>2 DEF LastAccepted
<1>4. scores[w].score \in Nat
  <2>1. scores[w].score \in ScoreInput \cup {0}
    BY <1>1 DEF ScoreRecord
  <2>2. ScoreInput \subseteq Nat
    BY RegistryAssumption
  <2>3. CASE scores[w].score = 0
    BY <2>3
  <2>4. CASE scores[w].score \in ScoreInput
    BY <2>2, <2>4, Zenon
  <2> QED BY <2>1, <2>3, <2>4
<1> QED BY <1>1, <1>3, <1>4 DEF TypeOK, ScoreRecord, LiquidationRecord

\* At every moment a fresh score rests on a signature of the key in office over
\* data younger than the last liquidation and than MAX_TTL.
THEOREM FreshnessIsVouched == Spec => []FreshIsVouched
<1>1. IInv => FreshIsVouched
  <2> SUFFICES ASSUME IInv, NEW w \in Wallet, ~IsStale(w)
               PROVE  /\ accepted[w] # <<>>
                      /\ LastAccepted(w).signer = attestor
                      /\ LastAccepted(w).epoch = attestorEpoch
                      /\ LastAccepted(w).issuedAt > liquidations[w].lastLiquidatedAt
                      /\ now < LastAccepted(w).issuedAt + MAX_TTL
      BY DEF FreshIsVouched
  <2>1. TypeOK
    BY DEF IInv
  <2>2. accepted[w] # <<>>
    BY DEF IInv, Bookkeeping, IsStale, NoScore
  <2>3. ScoreIsLast(w) /\ SignedInOffice(w)
    BY <2>2 DEF IInv, Bookkeeping
  <2>4. LastAccepted(w).issuedAt \in Nat
    BY <2>1, <2>2, Numbers DEF Entry
  <2>5. /\ now < scores[w].expiresAt
        /\ scores[w].attestorEpoch = attestorEpoch
        /\ scores[w].issuedAt > liquidations[w].lastLiquidatedAt
    BY <2>1, Numbers DEF IsStale
  <2>6. now < LastAccepted(w).issuedAt + MAX_TTL
    BY <2>1, <2>3, <2>4, <2>5, Numbers, RegistryAssumption DEF ScoreIsLast
  <2> QED BY <2>2, <2>3, <2>5, <2>6 DEF ScoreIsLast, SignedInOffice
<1> QED BY <1>1, Invariance, PTL

\* Every liquidation makes the wallet's score stale in the same transaction,
\* unless the score was dated ahead of the chain, within the clock skew.
THEOREM PenaltyIsImmediate == Spec => LiquidationInvalidatesUpToSkew
<1> DEFINE Penalty(w) == \/ IsStale(w)'
                         \/ /\ scores[w].issuedAt > now
                            /\ scores[w].issuedAt <= LastAccepted(w).at + MAX_CLOCK_SKEW
<1>1. ASSUME IInv, [Next]_vars, NEW w \in Wallet,
             liquidations'[w].liquidationCount > liquidations[w].liquidationCount
      PROVE  Penalty(w)
  <2>1. PICK m \in Market, v \in Wallet, s \in Shortfall : RecordLiquidation(m, v, s)
    <3>1. ASSUME liquidations' = liquidations PROVE FALSE
      <4>1. liquidations[w].liquidationCount \in Nat
        BY <1>1 DEF IInv, TypeOK, LiquidationRecord
      <4> QED BY <1>1, <3>1, <4>1
    <3> QED BY <1>1, <3>1 DEF Next, SubmitAttestation, SetAttestor, SetMarket, Pause, Unpause,
                              Tick, vars, tables
  <2>2. v = w
    <3>1. ASSUME v # w PROVE FALSE
      <4>1. liquidations'[w] = liquidations[w]
        BY <1>1, <2>1, <3>1 DEF RecordLiquidation, IInv, TypeOK
      <4>2. liquidations[w].liquidationCount \in Nat
        BY <1>1 DEF IInv, TypeOK, LiquidationRecord
      <4> QED BY <1>1, <4>1, <4>2
    <3> QED BY <3>1
  <2>3. liquidations'[w].lastLiquidatedAt = now /\ UNCHANGED <<scores, accepted>>
    BY <1>1, <2>1, <2>2 DEF RecordLiquidation, IInv, TypeOK
  <2>4. CASE scores[w].issuedAt <= now
    BY <2>3, <2>4 DEF IsStale
  <2>5. CASE scores[w].issuedAt > now
    <3>1. accepted[w] # <<>>
      BY <1>1, <2>5 DEF IInv, Bookkeeping, NoScore, TypeOK
    <3>2. ScoreIsLast(w)
      BY <1>1, <3>1 DEF IInv, Bookkeeping
    <3> QED BY <2>5, <3>2 DEF ScoreIsLast
  <2> QED BY <1>1, <2>4, <2>5, Numbers DEF IInv
<1>2. IInv /\ [Next]_vars =>
        [\A w \in Wallet :
           liquidations'[w].liquidationCount > liquidations[w].liquidationCount => Penalty(w)]_vars
  BY <1>1
<1> QED BY <1>2, Invariance, PTL DEF Spec, LiquidationInvalidatesUpToSkew

----------------------------------------------------------------------------
(* The registry implements ScoreView. *)

ViewOf(w) == IF IsStale(w) THEN 0 ELSE scores[w].score

\* A step that stores no score and freshens none is a withdrawal.
LEMMA LosingIsWithdrawal ==
    ASSUME UNCHANGED <<scores, nonces, paused>>,
           \A w \in Wallet : IsStale(w) => IsStale(w)'
    PROVE  \E W \in SUBSET Wallet : View!Withdraw(W)
<1> DEFINE W == {w \in Wallet : IsStale(w)'}
<1>1. [w \in Wallet |-> ViewOf(w)]' = [w \in Wallet |-> IF w \in W THEN 0 ELSE ViewOf(w)]
  BY DEF ViewOf, IsStale
<1>2. View!Withdraw(W)
  <2>1. [w \in Wallet |-> IF w \in W THEN 0 ELSE [v \in Wallet |-> ViewOf(v)][w]]
          = [w \in Wallet |-> IF w \in W THEN 0 ELSE ViewOf(w)]
    BY DEF ViewOf, IsStale
  <2> QED BY <1>1, <2>1 DEF View!Withdraw, View!None, ViewOf, IsStale
<1>3. W \in SUBSET Wallet
  BY DEF IsStale
<1> HIDE DEF W
<1> QED BY <1>2, <1>3 DEF View!Withdraw, IsStale

\* An accepted attestation is a publication: its score is fresh at once.
LEMMA SubmitIsPublication ==
    ASSUME IInv, NEW a \in Attestation, NEW k \in Signer, SubmitAttestation(a, k)
    PROVE  \E w \in Wallet, s \in {s \in ScoreInput : ScoreInRange(s)} : View!Publish(w, s)
<1>1. /\ a.wallet \in Wallet /\ a.score \in ScoreInput /\ a.issuedAt \in Nat /\ a.expiresAt \in Nat
  BY AttestationType
<1>2. TypeOK
  BY DEF IInv
<1>3. /\ ScoreInRange(a.score) /\ now < a.expiresAt
      /\ a.issuedAt > liquidations[a.wallet].lastLiquidatedAt
      /\ a.nonce = nonces[a.wallet]
      /\ nonces' = [nonces EXCEPT ![a.wallet] = a.nonce + 1]
      /\ scores' = [scores EXCEPT ![a.wallet] =
                      [score |-> a.score, issuedAt |-> a.issuedAt, expiresAt |-> a.expiresAt,
                       attestorEpoch |-> attestorEpoch]]
      /\ UNCHANGED <<now, attestorEpoch, liquidations, paused>> /\ ~paused
  BY DEF SubmitAttestation, Submittable, WhenNotPaused, admin
<1>4. scores'[a.wallet] = [score |-> a.score, issuedAt |-> a.issuedAt, expiresAt |-> a.expiresAt,
                           attestorEpoch |-> attestorEpoch]
  BY <1>1, <1>2, <1>3 DEF TypeOK
<1>5. ViewOf(a.wallet)' = a.score
  <2>1. a.score # 0 /\ a.score \in Nat
    <3>1. a.score \in Nat
      <4>1. ScoreInput \subseteq Nat
        BY RegistryAssumption
      <4> QED BY <1>1, <4>1, Zenon
    <3>2. a.score >= 300
      BY <1>3 DEF ScoreInRange, MIN_SCORE
    <3> QED BY <3>1, <3>2
  <2>2. ~IsStale(a.wallet)'
    BY <1>1, <1>2, <1>3, <1>4, <2>1, Numbers DEF IsStale
  <2> QED BY <1>4, <2>2 DEF ViewOf
<1>6. ASSUME NEW w \in Wallet, w # a.wallet PROVE ViewOf(w)' = ViewOf(w)
  <2>1. scores'[w] = scores[w]
    BY <1>2, <1>3, <1>6 DEF TypeOK
  <2> QED BY <1>3, <2>1 DEF ViewOf, IsStale
<1>7. [w \in Wallet |-> ViewOf(w)]' = [[w \in Wallet |-> ViewOf(w)] EXCEPT ![a.wallet] = a.score]
  BY <1>1, <1>5, <1>6
<1>8. nonces' = [nonces EXCEPT ![a.wallet] = @ + 1]
  BY <1>1, <1>3
<1>9. View!Publish(a.wallet, a.score)
  BY <1>3, <1>7, <1>8 DEF View!Publish, ViewOf
<1> QED BY <1>1, <1>3, <1>9

\* A stale score stays stale until a submission: time, rotations and
\* liquidations never make one fresh again.
LEMMA StaleStaysStale ==
    ASSUME IInv, [Next]_vars, UNCHANGED scores, NEW w \in Wallet, IsStale(w)
    PROVE  IsStale(w)'
<1> USE Numbers
<1>1. TypeOK
  BY DEF IInv
<1>2. liquidations[w].lastLiquidatedAt <= now
  BY DEF IInv, Bookkeeping
<1>3. scores[w].attestorEpoch <= attestorEpoch \/ scores[w].score = 0
  BY DEF IInv, Bookkeeping, ScoreIsLast, SignedInOffice, NoScore
<1>4. ASSUME NEW m \in Market, NEW v \in Wallet, NEW s \in Shortfall, RecordLiquidation(m, v, s)
      PROVE  IsStale(w)'
  <2>1. \/ liquidations'[w].lastLiquidatedAt = now
        \/ liquidations'[w].lastLiquidatedAt = liquidations[w].lastLiquidatedAt
    BY <1>1, <1>4 DEF RecordLiquidation, TypeOK
  <2>2. UNCHANGED <<now, attestorEpoch>>
    BY <1>4 DEF RecordLiquidation, admin
  <2> QED BY <1>1, <1>2, <2>1, <2>2, Numbers DEF IsStale
<1>5. ASSUME NEW k \in Signer, SetAttestor(k) PROVE IsStale(w)'
  <2>1. attestorEpoch' = attestorEpoch + 1 /\ UNCHANGED <<now, scores, liquidations>>
    BY <1>5 DEF SetAttestor, NextEpoch, tables
  <2> QED BY <1>1, <1>3, <2>1, Numbers DEF IsStale
<1>6. CASE Tick
  BY <1>1, <1>6, Numbers DEF Tick, IsStale, tables, admin
<1>7. CASE UNCHANGED <<now, attestorEpoch, liquidations>>
  BY <1>7 DEF IsStale
<1>8. ASSUME NEW a \in Attestation, NEW k \in Signer, SubmitAttestation(a, k)
      PROVE  UNCHANGED <<now, attestorEpoch, liquidations>>
  BY <1>8 DEF SubmitAttestation, admin
<1>9. ASSUME NEW m \in Market, NEW b \in BOOLEAN, SetMarket(m, b)
      PROVE  UNCHANGED <<now, attestorEpoch, liquidations>>
  BY <1>9 DEF SetMarket, tables
<1>10. Pause \/ Unpause \/ UNCHANGED vars => UNCHANGED <<now, attestorEpoch, liquidations>>
  BY DEF Pause, Unpause, vars, tables, admin
<1> QED BY <1>4, <1>5, <1>6, <1>7, <1>8, <1>9, <1>10 DEF Next

\* A consumer that sees of each wallet only its fresh score sees ScoreView:
\* publications one at a time, and otherwise only losses.
THEOREM RegistryImplementsView == Spec => ImplementsView
<1>1. Init => View!Init
  <2> SUFFICES ASSUME Init PROVE View!Init
      OBVIOUS
  <2>1. \A w \in Wallet : ViewOf(w) = 0
    BY DEF Init, ViewOf, IsStale, NoScore
  <2>2. [w \in Wallet |-> ViewOf(w)] = [w \in Wallet |-> 0]
    BY <2>1
  <2> QED BY <2>2 DEF View!Init, View!None, Init, ViewOf
<1>2. ASSUME IInv, [Next]_vars PROVE [View!Next]_View!vars
  <2>1. ASSUME NEW a \in Attestation, NEW k \in Signer, SubmitAttestation(a, k)
        PROVE  View!Next
    BY <1>2, <2>1, SubmitIsPublication DEF View!Next, View!Publish
  <2>2. ASSUME UNCHANGED <<scores, nonces, paused>> PROVE View!Next
    <3>1. \A w \in Wallet : IsStale(w) => IsStale(w)'
      BY <1>2, <2>2, StaleStaysStale DEF IsStale
    <3>2. \E W \in SUBSET Wallet : View!Withdraw(W)
      BY <2>2, <3>1, LosingIsWithdrawal DEF IsStale
    <3> QED BY <3>2 DEF View!Next
  <2>3. ASSUME paused' = ~paused, UNCHANGED <<now, attestorEpoch, scores, liquidations, nonces>>
        PROVE  View!Next
    <3>1. [w \in Wallet |-> ViewOf(w)]' = [w \in Wallet |-> ViewOf(w)]
      BY <2>3 DEF ViewOf, IsStale
    <3> QED BY <2>3, <3>1 DEF View!Next, View!Toggle, ViewOf
  <2>4. Pause \/ Unpause => View!Next
    BY <1>2, <2>3 DEF Pause, Unpause, tables, IInv, TypeOK
  <2>5. ASSUME NEW m \in Market, NEW w \in Wallet, NEW s \in Shortfall, RecordLiquidation(m, w, s)
        PROVE  View!Next
    BY <2>2, <2>5 DEF RecordLiquidation, admin
  <2>6. ASSUME NEW k \in Signer, SetAttestor(k) PROVE View!Next
    BY <2>2, <2>6 DEF SetAttestor, tables
  <2>7. ASSUME NEW m \in Market, NEW b \in BOOLEAN, SetMarket(m, b) PROVE View!Next
    BY <2>2, <2>7 DEF SetMarket, tables
  <2>8. Tick \/ UNCHANGED vars => View!Next
    BY <2>2 DEF Tick, vars, tables, admin
  <2> QED BY <1>2, <2>1, <2>4, <2>5, <2>6, <2>7, <2>8 DEF Next
<1> QED BY <1>1, <1>2, Invariance, PTL DEF Spec, ImplementsView, View!Spec
=============================================================================
