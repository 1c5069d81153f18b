----------------------------- MODULE Attestor -----------------------------
(***************************************************************************)
(* The attestation service (packages/attestor/src/service.ts) over its     *)
(* shared store (store.ts, pgStore.ts) and the registry, for one wallet.   *)
(*                                                                         *)
(* A request is a sequence of awaits.  Each action runs one request from   *)
(* one await to the next, so everything read is used after other requests, *)
(* other processes and the chain have moved on.  Requests of one process   *)
(* that may sign are serialized by withWalletLock; evaluate() is not.      *)
(*                                                                         *)
(* `clock` is the service's clock, MS ticks to the second; the chain's     *)
(* `now` is in whole seconds and agrees with it.                           *)
(***************************************************************************)
EXTENDS Scoring

CONSTANTS
    wallet, market,
    Worker,          \* the requests that can be under way at once
    Process,         \* the instances of the service
    ProcessOf,       \* which of them serves each worker
    Position,        \* the order of COVERED_CHAINS
    Signer, Key,     \* the attestor keys, and the one the service signs with
    MS,              \* ticks of the clock to the second
    TTL,             \* scoreTtlSeconds
    SUBMIT_WINDOW,   \* submitWindowSeconds
    MIN_LEFT,        \* 60 seconds in the code
    WINDOW,          \* PENALTY_WINDOW_SECONDS
    MAX_TTL, MAX_CLOCK_SKEW,
    Shortfall,       \* the shortfalls a liquidation may leave
    HistoryInput,    \* the answers of the history check
    UpstreamAnswer,  \* the answers of ChainScore, but for their computation time
    UpstreamOffset,  \* by how much that time may differ from the clock
    Kind,            \* the requests that are made
    MaxRequests, MaxTime, MaxNonce, MaxEpoch, MaxLiquidations  \* bounds

\* The service checks a chain's answer against its own clock; none is dated before
\* the epoch, which the first second of the model stands for.
ASSUME AttestorAssumption ==
    /\ ProcessOf \in [Worker -> Process]
    /\ Position \in [Chain -> Nat] /\ Key \in Signer
    /\ MS \in Nat \ {0} /\ MAX_TTL \in Nat /\ TTL \in 1 .. MAX_TTL
    /\ SUBMIT_WINDOW \in Nat \ {0} /\ MIN_LEFT \in Nat /\ WINDOW \in Nat
    /\ MAX_CLOCK_SKEW \in Nat /\ Shortfall \subseteq Nat
    /\ HistoryInput \subseteq [Chain -> HistoryAnswer]
    /\ UpstreamAnswer \subseteq ChainScoreAnswer
    /\ UpstreamOffset \subseteq Int /\ \A d \in UpstreamOffset : MS + d >= 0
    /\ Kind \subseteq {"score", "attest", "fresh"}
    /\ MaxRequests \in Nat /\ MaxTime \in Nat /\ MaxNonce \in Nat
    /\ MaxEpoch \in Nat /\ MaxLiquidations \in Nat

VARIABLES
    clock,         \* Date.now()
    pc, call,      \* where each request is, and what it holds
    scoreCache, historyCache, reservations,  \* the shared store
    signed,        \* history: the payloads a signature was given for
    requests,      \* how many requests have started, for the bound
    \* the registry
    now, attestor, attestorEpoch, scores, liquidations, nonces, isMarket, paused, accepted

R == INSTANCE ScoreRegistry WITH
    Wallet <- {wallet}, Market <- {market}, ScoreInput <- MIN_SCORE .. MAX_SCORE

registry == <<now, attestor, attestorEpoch, scores, liquidations, nonces, isMarket, paused, accepted>>
store == <<scoreCache, historyCache, reservations>>
vars == <<clock, pc, call, store, signed, requests, registry>>

Score == scores[wallet]
Rec == liquidations[wallet]

----------------------------------------------------------------------------
(* The store.  An entry is dead from the time it carries on; the first entry  *)
(* of every table is one that never lived.                                    *)

NoCachedScore == [score |-> 0, at |-> 0, until |-> 0]
NoHistory == [c \in Chain |-> [ok |-> FALSE, borrows |-> FALSE, gap |-> FALSE]]
NoPayload == [wallet |-> wallet, score |-> 0, issuedAt |-> 0, expiresAt |-> 0, deadline |-> 0, nonce |-> 0]

Cached(entry, nowMs) == entry.until > nowMs

EmptyScoreCache == [c \in Scoreable |-> NoCachedScore]

MutantNewestWins(existing, payload, nowMs, last) ==
    existing.deadline * MS > nowMs /\ existing.issuedAt >= payload.issuedAt
\* The reservation there is goes before the payload asked for.
Live(existing, payload, nowMs, last) ==
    existing.deadline * MS > nowMs /\ existing.issuedAt > last

----------------------------------------------------------------------------
(* What a request holds. *)

\* The state of one evaluateInner, begun now; `stage` is the place in attestInner
\* it was called from, nowSec what attestInner read the clock as.
Begin(kind, bypass, stage, nowSec) ==
    [kind |-> kind, bypass |-> bypass, stage |-> stage, nowSec |-> nowSec, nowMs |-> clock,
     history |-> NoHistory, todo |-> {}, failed |-> {}, counted |-> {}, found |-> NoCachedScore,
     payload |-> NoPayload, last |-> 0]

NoCall == [Begin("none", FALSE, "none", 0) EXCEPT !.nowMs = 0]

First(S) == CHOOSE c \in S : \A d \in S : Position[c] <= Position[d]

\* The chain of the loop over toScore a request is at.
Current(p) == First(call[p].todo)

OldestTime(counted) == Least({e.at : e \in counted}) \div MS

Signs(kind) == kind \in {"attest", "fresh"}

Locked(p) == \E q \in Worker \ {p} : ProcessOf[q] = ProcessOf[p] /\ pc[q] # "idle" /\ Signs(call[q].kind)

\* A request moves on, with everything outside it unchanged but what `rest` says.
Goes(p, place, c) == pc' = [pc EXCEPT ![p] = place] /\ call' = [call EXCEPT ![p] = c]

Ends(p) == Goes(p, "idle", NoCall)

Restarts(p, stage) == Goes(p, "history", Begin(call[p].kind, TRUE, stage, call[p].nowSec))

----------------------------------------------------------------------------
(* evaluateInner. *)

Start(p, kind) ==
    /\ pc[p] = "idle"
    /\ requests < MaxRequests
    /\ Signs(kind) => ~Locked(p)
    /\ requests' = requests + 1
    /\ Goes(p, "history", Begin(kind, kind = "fresh", "first", 0))
    /\ UNCHANGED <<clock, store, signed, registry>>

\* Which chains to score; without any, or without a source, the request is refused.
Classified(p, h) ==
    IF SourcesOut(h) \/ (ToScore(h) = {} /\ Unscoreable(h) = {})
    THEN Ends(p)
    ELSE Goes(p, IF call[p].bypass THEN "clear" ELSE "scores",
              [call[p] EXCEPT !.history = h, !.todo = ToScore(h), !.failed = Unscoreable(h)])

ReadHistoryCache(p) ==
    /\ pc[p] = "history"
    /\ IF ~call[p].bypass /\ Cached(historyCache, call[p].nowMs)
       THEN Classified(p, historyCache.answer)
       ELSE Goes(p, "sources", call[p])
    /\ UNCHANGED <<clock, store, signed, requests, registry>>

\* The sources answer; a complete answer is cached.
CheckHistory(p, h) ==
    /\ pc[p] = "sources"
    /\ IF \A c \in Chain : h[c].ok
       THEN Goes(p, "putHistory", [call[p] EXCEPT !.history = h])
       ELSE Classified(p, h)
    /\ UNCHANGED <<clock, store, signed, requests, registry>>

PutHistory(p) ==
    /\ pc[p] = "putHistory"
    /\ historyCache' = [answer |-> call[p].history, until |-> call[p].nowMs + TTL * MS]
    /\ Classified(p, call[p].history)
    /\ UNCHANGED <<clock, scoreCache, reservations, signed, requests, registry>>

ClearScores(p) ==
    /\ pc[p] = "clear"
    /\ scoreCache' = EmptyScoreCache
    /\ Goes(p, "scores", call[p])
    /\ UNCHANGED <<clock, historyCache, reservations, signed, requests, registry>>

WithoutCurrent(p) == [call[p] EXCEPT !.todo = @ \ {Current(p)}, !.found = NoCachedScore]

Counting(p, e) ==
    [WithoutCurrent(p) EXCEPT !.counted = @ \cup {[chain |-> Current(p), score |-> e.score, at |-> e.at]}]

ReadScoreCache(p) ==
    /\ pc[p] = "scores" /\ call[p].todo # {}
    /\ LET e == scoreCache[Current(p)]
       IN  IF Cached(e, call[p].nowMs)
           THEN Goes(p, "scores", Counting(p, e))
           ELSE Goes(p, "chainscore", call[p])
    /\ UNCHANGED <<clock, store, signed, requests, registry>>

\* ChainScore answers: the chain is left out, fails, or has a score to be cached.
AskChainScore(p, u) ==
    /\ pc[p] = "chainscore"
    /\ LET only == ChainScoreOnly(call[p].history, Current(p))
       IN  \/ /\ LeftOut(u, only)
              /\ Goes(p, "scores", WithoutCurrent(p))
           \/ /\ ~LeftOut(u, only) /\ ~ValidateChain(u, only, call[p].nowMs)
              /\ Goes(p, "scores", [WithoutCurrent(p) EXCEPT !.failed = @ \cup {Current(p)}])
           \/ /\ ~LeftOut(u, only) /\ ValidateChain(u, only, call[p].nowMs)
              /\ Goes(p, "put", [call[p] EXCEPT !.found =
                                   [score |-> u.score, at |-> u.timestamp, until |-> u.timestamp + TTL * MS]])
    /\ UNCHANGED <<clock, store, signed, requests, registry>>

PutScore(p) ==
    /\ pc[p] = "put"
    /\ scoreCache' = [scoreCache EXCEPT ![Current(p)] = call[p].found]
    /\ Goes(p, "scores", Counting(p, call[p].found))
    /\ UNCHANGED <<clock, historyCache, reservations, signed, requests, registry>>

Verdict(p) ==
    Outcome(call[p].history, {e.chain : e \in call[p].counted}, call[p].failed)

\* Every chain is done: anything but a score ends the request.
Refuse(p) ==
    /\ pc[p] = "scores" /\ call[p].todo = {}
    /\ Verdict(p) # "SCORED"
    /\ Ends(p)
    /\ UNCHANGED <<clock, store, signed, requests, registry>>

\* What is known once the evaluation returns: the score, and no more of how.
Scored(p) ==
    LET issuedAt == OldestTime(call[p].counted)
    IN  [Begin(call[p].kind, FALSE, call[p].stage, call[p].nowSec) EXCEPT
            !.nowMs = 0,
            !.payload = [NoPayload EXCEPT
               !.score = ApplyTenorPolicy(MinimumRule({e.score : e \in call[p].counted}), Rec,
                                          call[p].nowMs \div MS, WINDOW),
               !.issuedAt = issuedAt,
               !.expiresAt = issuedAt + TTL]]

MutantCanRetry(c) == TRUE
\* Data that a liquidation overtook is fetched again, once.
CanRetry(c) == ~c.bypass

\* The liquidation record, the policy, and the return to the caller.
ReadRecord(p) ==
    /\ pc[p] = "scores" /\ call[p].todo = {}
    /\ Verdict(p) = "SCORED"
    /\ LET predates == Rec.lastLiquidatedAt >= OldestTime(call[p].counted)
       IN  \/ /\ predates /\ CanRetry(call[p])
              /\ Restarts(p, call[p].stage)
           \/ /\ predates /\ ~CanRetry(call[p])
              /\ Ends(p)
           \/ /\ ~predates /\ ~Signs(call[p].kind)
              /\ Ends(p)
           \/ /\ ~predates /\ Signs(call[p].kind)
              /\ CASE call[p].stage = "first" -> Goes(p, "onChain", Scored(p))
                   [] call[p].stage = "stale" -> Goes(p, "timeLeft", Scored(p))
                   [] call[p].stage = "window" -> Goes(p, "nonce", Scored(p))
    /\ UNCHANGED <<clock, store, signed, requests, registry>>

----------------------------------------------------------------------------
(* attestInner, from the score on. *)

\* The score on-chain: as new and fresh, nothing to sign; as new and stale, the
\* registry would refuse this one as not newer.
ReadOnChain(p) ==
    /\ pc[p] = "onChain"
    /\ \/ /\ Score.issuedAt >= call[p].payload.issuedAt /\ ~R!IsStale(wallet)
          /\ Ends(p)
       \/ /\ Score.issuedAt >= call[p].payload.issuedAt /\ R!IsStale(wallet)
          /\ Restarts(p, "stale")
       \/ /\ Score.issuedAt < call[p].payload.issuedAt
          /\ Goes(p, "timeLeft", call[p])
    /\ UNCHANGED <<clock, store, signed, requests, registry>>

\* The clock is read again: with too little left of a score to be submitted in
\* time, fresh data is fetched once more.
CheckTimeLeft(p) ==
    /\ pc[p] = "timeLeft"
    /\ LET nowSec == clock \div MS
       IN  IF call[p].payload.expiresAt - nowSec < MIN_LEFT
           THEN Goes(p, "history", Begin(call[p].kind, TRUE, "window", nowSec))
           ELSE Goes(p, "nonce", [call[p] EXCEPT !.nowSec = nowSec])
    /\ UNCHANGED <<clock, store, signed, requests, registry>>

ReadNonce(p) ==
    /\ pc[p] = "nonce"
    /\ Goes(p, "before",
            [call[p] EXCEPT !.payload.nonce = nonces[wallet],
                            !.payload.deadline = Least({call[p].nowSec + SUBMIT_WINDOW,
                                                        call[p].payload.expiresAt - 1})])
    /\ UNCHANGED <<clock, store, signed, requests, registry>>

ReadBefore(p) ==
    /\ pc[p] = "before"
    /\ Goes(p, "reserve", [call[p] EXCEPT !.last = Rec.lastLiquidatedAt, !.nowMs = clock])
    /\ UNCHANGED <<clock, store, signed, requests, registry>>

\* `t` is when reserve was called: after the read before it, and before the database
\* gets to it.
Reserve(p, t) ==
    /\ pc[p] = "reserve"
    /\ LET mine == call[p].payload
           existing == reservations[mine.nonce]
           kept == IF Live(existing, mine, t, call[p].last) THEN existing ELSE mine
       IN  /\ reservations' = [reservations EXCEPT ![mine.nonce] = kept]
           /\ Goes(p, "sign", [NoCall EXCEPT !.kind = call[p].kind, !.payload = kept])
    /\ UNCHANGED <<clock, scoreCache, historyCache, signed, requests, registry>>

\* The record is read again, and the payload signed or dropped; signing reads nothing
\* more.
Sign(p) ==
    /\ pc[p] = "sign"
    /\ IF Rec.lastLiquidatedAt >= call[p].payload.issuedAt
       THEN Goes(p, "drop", [NoCall EXCEPT !.kind = call[p].kind]) /\ UNCHANGED signed
       ELSE signed' = signed \cup {call[p].payload} /\ Ends(p)
    /\ UNCHANGED <<clock, store, requests, registry>>

Drop(p) ==
    /\ pc[p] = "drop"
    /\ scoreCache' = EmptyScoreCache
    /\ Ends(p)
    /\ UNCHANGED <<clock, historyCache, reservations, signed, requests, registry>>

\* An await that rejects: the request ends with an error and no signature.
Abort(p) ==
    /\ pc[p] # "idle"
    /\ Ends(p)
    /\ UNCHANGED <<clock, store, signed, requests, registry>>

\* A process dies with all its requests; the store is the database's.
Crash(i) ==
    /\ \E p \in Worker : ProcessOf[p] = i /\ pc[p] # "idle"
    /\ pc' = [p \in Worker |-> IF ProcessOf[p] = i THEN "idle" ELSE pc[p]]
    /\ call' = [p \in Worker |-> IF ProcessOf[p] = i THEN NoCall ELSE call[p]]
    /\ UNCHANGED <<clock, store, signed, requests, registry>>

----------------------------------------------------------------------------
(* The rest of the world. *)

Answers == {[u EXCEPT !.timestamp = clock + d] : u \in UpstreamAnswer, d \in UpstreamOffset}

Service == <<clock, pc, call, store, signed, requests>>

\* Whoever holds a signature may submit it, at any time and more than once.
Submit(a) == R!SubmitAttestation(a, Key) /\ UNCHANGED Service

Liquidation(shortfall) == R!RecordLiquidation(market, wallet, shortfall) /\ UNCHANGED Service

Rotate(k) == R!SetAttestor(k) /\ UNCHANGED Service

Tick ==
    /\ clock' = clock + 1
    /\ IF clock' \div MS > now
       THEN R!Tick
       ELSE UNCHANGED registry
    /\ UNCHANGED <<pc, call, store, signed, requests>>

Init ==
    /\ clock = MS
    /\ pc = [p \in Worker |-> "idle"]
    /\ call = [p \in Worker |-> NoCall]
    /\ scoreCache = EmptyScoreCache
    /\ historyCache = [answer |-> NoHistory, until |-> 0]
    /\ reservations = [n \in 0 .. MaxNonce |-> NoPayload]
    /\ signed = {}
    /\ requests = 0
    \* the registry as deployed: the service's key in office, the market authorized
    /\ now = 1 /\ attestor = Key /\ attestorEpoch = 1
    /\ scores = [w \in {wallet} |-> R!NoScore]
    /\ liquidations = [w \in {wallet} |-> R!NoLiquidation]
    /\ nonces = [w \in {wallet} |-> 0]
    /\ isMarket = [m \in {market} |-> TRUE]
    /\ paused = FALSE
    /\ accepted = [w \in {wallet} |-> <<>>]

Step(p) ==
    \/ ReadHistoryCache(p)
    \/ \E h \in HistoryInput : CheckHistory(p, h)
    \/ PutHistory(p)
    \/ ClearScores(p)
    \/ ReadScoreCache(p)
    \/ \E u \in Answers : AskChainScore(p, u)
    \/ PutScore(p)
    \/ Refuse(p)
    \/ ReadRecord(p)
    \/ ReadOnChain(p)
    \/ CheckTimeLeft(p)
    \/ ReadNonce(p)
    \/ ReadBefore(p)
    \/ \E t \in call[p].nowMs .. clock : Reserve(p, t)
    \/ Sign(p)
    \/ Drop(p)

Next ==
    \/ \E p \in Worker, k \in Kind : Start(p, k)
    \/ \E p \in Worker : Step(p) \/ Abort(p)
    \/ \E i \in Process : Crash(i)
    \/ \E a \in signed : Submit(a)
    \/ \E s \in Shortfall : Liquidation(s)
    \/ \E k \in Signer : Rotate(k)
    \/ Tick

Spec == Init /\ [][Next]_vars

\* Every await settles: the clients of the sources, of ChainScore, of the database
\* and of the RPC node answer or time out.
Fairness == \A p \in Worker : WF_vars(Step(p))

FairSpec == Spec /\ Fairness

----------------------------------------------------------------------------
(* Properties. *)

Places == {"idle", "history", "sources", "putHistory", "clear", "scores", "chainscore", "put",
           "onChain", "timeLeft", "nonce", "before", "reserve", "sign", "drop"}

Payload == [wallet : {wallet}, score : Nat, issuedAt : Nat, expiresAt : Nat, deadline : Int, nonce : 0 .. MaxNonce]

\* The store holds what was put there, and a signature is only ever on a payload
\* that fits the registry's table.
TypeOK ==
    /\ pc \in [Worker -> Places]
    /\ \A p \in Worker : /\ call[p].todo \cup call[p].failed \subseteq Chain
                         /\ call[p].payload \in Payload
    /\ scoreCache \in [Scoreable -> [score : Nat, at : Nat, until : Nat]]
    /\ reservations \in [0 .. MaxNonce -> Payload]
    /\ signed \subseteq {a \in Payload : ScoreInRange(a.score)}
    /\ R!TypeOK

Acceptable(a) == R!Submittable(a) /\ attestor = Key

\* "A repeated request cannot produce a second, different attestation for the same
\* nonce" (store.ts), to within a second: whatever requests, processes, crashes and
\* liquidations come between, two payloads for one nonce can both be accepted only
\* in the second the earlier of them ends in.
OnePayloadBeforeDeadline ==
    \A a, b \in signed :
        a.nonce = b.nonce /\ Acceptable(a) /\ Acceptable(b) /\ a # b => now = Least({a.deadline, b.deadline})

\* The policy reaches the chain: "at most tier C for 180 days after a Tenor
\* liquidation", the floor tier if it left bad debt (policy.ts), for the score that
\* counts on-chain, whatever was cached, reserved, signed or held back meanwhile.
PolicyReachesTheChain ==
    ~R!IsStale(wallet) /\ Recent(Rec, now, WINDOW) =>
        /\ Rank[R!EffectiveTier(wallet)] <= Rank["C"]
        /\ Rec.shortfallCount > 0 => R!EffectiveTier(wallet) = FLOOR

ServesWhatHolds == TypeOK /\ PolicyReachesTheChain

\* "The registry would reject this data time as not newer": a payload for the
\* wallet's next nonce is newer than the score on-chain (attestInner).
SignedIsNewer ==
    \A a \in signed : a.nonce = nonces[wallet] => a.issuedAt > Score.issuedAt

\* Every request ends, through every retry the liquidations and the caches cause.
EveryRequestEnds == \A p \in Worker : pc[p] # "idle" ~> pc[p] = "idle"
=============================================================================
