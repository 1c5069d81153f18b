--------------------------- MODULE ScoreRegistry ---------------------------
(***************************************************************************)
(* contracts/src/ScoreRegistry.sol: signed ChainScore scores, and Tenor's  *)
(* own liquidation history, for each wallet.                               *)
(*                                                                         *)
(* One action is one transaction: it either runs whole or reverts, so a    *)
(* guard is a revert that did not happen.  Time is the block timestamp;    *)
(* several transactions may share one.                                     *)
(*                                                                         *)
(* submitAttestation is permissionless and the registry cannot see who     *)
(* signed what when, so every payload under every key may arrive at any    *)
(* time: signatures held back, replayed, reordered or made by a former key *)
(* are all among the inputs.                                               *)
(***************************************************************************)
EXTENDS Integers, Sequences, RiskParams

CONSTANTS
    Wallet,          \* the wallets with a score or a liquidation
    Signer,          \* the keys a payload may be signed with
    Market,          \* the addresses that may call recordLiquidation
    ScoreInput,      \* the scores a payload may carry, valid or not
    Shortfall,       \* the shortfalls a market may report
    MAX_TTL,         \* 2 days in the code
    MAX_CLOCK_SKEW,  \* 60 seconds in the code
    MaxTime,         \* bound: the last block timestamp
    MaxNonce,        \* bound: attestations stored per wallet
    MaxEpoch,        \* bound: attestor rotations
    MaxLiquidations  \* bound: liquidations recorded per wallet

ASSUME RegistryAssumption ==
    /\ ScoreInput \subseteq Nat /\ Shortfall \subseteq Nat
    /\ MAX_TTL \in Nat /\ MAX_CLOCK_SKEW \in Nat
    /\ MaxTime \in Nat /\ MaxNonce \in Nat /\ MaxEpoch \in Nat /\ MaxLiquidations \in Nat

VARIABLES
    now,           \* block.timestamp
    attestor,      \* the key in office
    attestorEpoch,
    scores,        \* _scores
    liquidations,  \* _liquidations
    nonces,
    isMarket,
    paused,
    accepted       \* history: per wallet, the nonce, data time and signer of each stored
                   \* attestation, with the epoch and the block time it was stored at

tables == <<scores, liquidations, nonces, accepted>>
admin == <<attestor, attestorEpoch, isMarket, paused>>
vars == <<now, tables, admin>>

\* Timestamps a payload may carry: past the bound, so that skew and expiry are met.
Timestamp == 0 .. MaxTime + MAX_CLOCK_SKEW + MAX_TTL + 1

Attestation == [wallet : Wallet, score : ScoreInput, issuedAt : Timestamp,
                expiresAt : Timestamp, deadline : Timestamp, nonce : 0 .. MaxNonce]

ScoreRecord == [score : ScoreInput \cup {0}, issuedAt : Nat, expiresAt : Nat, attestorEpoch : Nat]
LiquidationRecord == [lastLiquidatedAt : Nat, liquidationCount : Nat,
                      shortfallCount : Nat, totalShortfall : Nat]
Entry == [nonce : Nat, issuedAt : Nat, signer : Signer, epoch : Nat, at : Nat]

NoScore == [score |-> 0, issuedAt |-> 0, expiresAt |-> 0, attestorEpoch |-> 0]
NoLiquidation == [lastLiquidatedAt |-> 0, liquidationCount |-> 0,
                  shortfallCount |-> 0, totalShortfall |-> 0]

Init ==
    /\ now = 1
    /\ attestor \in Signer /\ attestorEpoch = 1
    /\ scores = [w \in Wallet |-> NoScore]
    /\ liquidations = [w \in Wallet |-> NoLiquidation]
    /\ nonces = [w \in Wallet |-> 0]
    /\ isMarket = [m \in Market |-> FALSE]
    /\ paused = FALSE
    /\ accepted = [w \in Wallet |-> <<>>]

----------------------------------------------------------------------------
(* Reads.  An operator named Mutant... is a plausible slip in the operator    *)
(* after it; no specification uses it.                                        *)

MutantLiquidationForgotten(w) ==
    \/ scores[w].score = 0
    \/ now >= scores[w].expiresAt
    \/ scores[w].attestorEpoch # attestorEpoch
MutantEpochForgotten(w) ==
    \/ scores[w].score = 0
    \/ now >= scores[w].expiresAt
    \/ scores[w].issuedAt <= liquidations[w].lastLiquidatedAt
MutantNeverExpires(w) ==
    \/ scores[w].score = 0
    \/ scores[w].attestorEpoch # attestorEpoch
    \/ scores[w].issuedAt <= liquidations[w].lastLiquidatedAt
IsStale(w) ==
    \/ scores[w].score = 0
    \/ now >= scores[w].expiresAt
    \/ scores[w].attestorEpoch # attestorEpoch
    \/ scores[w].issuedAt <= liquidations[w].lastLiquidatedAt

EffectiveTier(w) == IF IsStale(w) THEN FLOOR ELSE ScoreToTier(scores[w].score)

----------------------------------------------------------------------------
(* Transactions. *)

MutantAnyAge(a) == TRUE
Newer(a) == a.issuedAt > scores[a.wallet].issuedAt

MutantAnyFuture(a) == TRUE
NotInFuture(a) == a.issuedAt <= now + MAX_CLOCK_SKEW

MutantPauseIgnored == TRUE
WhenNotPaused == ~paused

MutantSameEpoch == attestorEpoch
NextEpoch == attestorEpoch + 1

WithShortfall(total, shortfall) == total + shortfall

\* The checks of submitAttestation that do not need the signature.
Submittable(a) ==
    /\ a.nonce = nonces[a.wallet]
    /\ now <= a.deadline
    /\ now < a.expiresAt
    /\ NotInFuture(a)
    /\ a.expiresAt <= a.issuedAt + MAX_TTL
    /\ ScoreInRange(a.score)
    /\ Newer(a)
    /\ a.issuedAt > liquidations[a.wallet].lastLiquidatedAt

\* What the history remembers of an attestation stored now.
EntryOf(a, signer) == [nonce |-> a.nonce, issuedAt |-> a.issuedAt, signer |-> signer,
                       epoch |-> attestorEpoch, at |-> now]

SubmitAttestation(a, signer) ==
    /\ WhenNotPaused
    /\ nonces[a.wallet] < MaxNonce
    /\ Submittable(a)
    /\ signer = attestor
    /\ nonces' = [nonces EXCEPT ![a.wallet] = a.nonce + 1]
    /\ scores' = [scores EXCEPT ![a.wallet] =
                    [score |-> a.score, issuedAt |-> a.issuedAt,
                     expiresAt |-> a.expiresAt, attestorEpoch |-> attestorEpoch]]
    /\ accepted' = [accepted EXCEPT ![a.wallet] =
                      Append(@, EntryOf(a, signer))]
    /\ UNCHANGED <<now, admin, liquidations>>

\* Not blocked by pause.
RecordLiquidation(m, w, shortfall) ==
    /\ isMarket[m]
    /\ liquidations[w].liquidationCount < MaxLiquidations
    /\ liquidations' =
         [liquidations EXCEPT ![w] =
            [lastLiquidatedAt |-> now,
             liquidationCount |-> @.liquidationCount + 1,
             shortfallCount |-> @.shortfallCount + (IF shortfall > 0 THEN 1 ELSE 0),
             totalShortfall |-> WithShortfall(@.totalShortfall, shortfall)]]
    /\ UNCHANGED <<now, admin, scores, nonces, accepted>>

\* The new key may be the key in office or a former one.
SetAttestor(k) ==
    /\ attestorEpoch < MaxEpoch
    /\ attestor' = k
    /\ attestorEpoch' = NextEpoch
    /\ UNCHANGED <<now, tables, isMarket, paused>>

SetMarket(m, authorized) ==
    /\ isMarket' = [isMarket EXCEPT ![m] = authorized]
    /\ UNCHANGED <<now, tables, attestor, attestorEpoch, paused>>

Pause == /\ ~paused
         /\ paused' = TRUE
         /\ UNCHANGED <<now, tables, attestor, attestorEpoch, isMarket>>

Unpause == /\ paused
           /\ paused' = FALSE
           /\ UNCHANGED <<now, tables, attestor, attestorEpoch, isMarket>>

Tick == /\ now < MaxTime
        /\ now' = now + 1
        /\ UNCHANGED <<tables, admin>>

Next ==
    \/ \E a \in Attestation, k \in Signer : SubmitAttestation(a, k)
    \/ \E m \in Market, w \in Wallet, s \in Shortfall : RecordLiquidation(m, w, s)
    \/ \E k \in Signer : SetAttestor(k)
    \/ \E m \in Market, b \in BOOLEAN : SetMarket(m, b)
    \/ Pause
    \/ Unpause
    \/ Tick

Spec == Init /\ [][Next]_vars

----------------------------------------------------------------------------
(* Properties. *)

LastAccepted(w) == accepted[w][Len(accepted[w])]

\* Every variable of the registry has the type its Solidity declaration gives it.
TypeOK ==
    /\ now \in Nat
    /\ attestor \in Signer /\ attestorEpoch \in Nat \ {0}
    /\ scores \in [Wallet -> ScoreRecord]
    /\ liquidations \in [Wallet -> LiquidationRecord]
    /\ nonces \in [Wallet -> 0 .. MaxNonce]
    /\ isMarket \in [Market -> BOOLEAN] /\ paused \in BOOLEAN
    /\ accepted \in [Wallet -> Seq(Entry)]

\* A signature is spent by its first use and a later one never rolls the score
\* back: the attestations stored for a wallet have pairwise different nonces,
\* numbered without a gap, and strictly increasing data times, whatever was
\* replayed, held back or reordered in between (submitAttestation).
NoReplayNoRollback ==
    \A w \in Wallet :
        /\ Len(accepted[w]) = nonces[w]
        /\ \A i \in 1 .. Len(accepted[w]) : accepted[w][i].nonce = i - 1
        /\ \A i, j \in 1 .. Len(accepted[w]) :
              i < j => accepted[w][i].issuedAt < accepted[w][j].issuedAt

\* A fresh score rests on a signature of the key in office, stored since that
\* key took office, over data younger than the wallet's last liquidation and
\* than MAX_TTL (getScore, setAttestor, recordLiquidation).
FreshIsVouched ==
    \A w \in Wallet : ~IsStale(w) =>
        /\ accepted[w] # <<>>
        /\ LastAccepted(w).signer = attestor
        /\ LastAccepted(w).epoch = attestorEpoch
        /\ LastAccepted(w).issuedAt > liquidations[w].lastLiquidatedAt
        /\ now < LastAccepted(w).issuedAt + MAX_TTL

\* "A Tenor liquidation immediately invalidates the wallet's current score" (comment
\* of the contract), to within the clock skew: a score that survives one was dated
\* ahead of the chain, by no more than the tolerated skew.
LiquidationInvalidatesUpToSkew ==
    [][\A w \in Wallet :
         liquidations'[w].liquidationCount > liquidations[w].liquidationCount =>
           \/ IsStale(w)'
           \/ /\ scores[w].issuedAt > now
              /\ scores[w].issuedAt <= LastAccepted(w).at + MAX_CLOCK_SKEW]_vars

\* What a consumer sees of the registry: the fresh score, or none.
View == INSTANCE ScoreView WITH
    Score <- {s \in ScoreInput : ScoreInRange(s)},
    view <- [w \in Wallet |-> IF IsStale(w) THEN 0 ELSE scores[w].score],
    serial <- nonces,
    open <- ~paused

\* The registry implements ScoreView: a wallet's price source improves only by
\* an accepted attestation while unpaused; rotations, liquidations, expiry and
\* administration only ever take scores away, and none of them gives one back.
ImplementsView == View!Spec
=============================================================================
