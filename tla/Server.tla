------------------------------ MODULE Server ------------------------------
(***************************************************************************)
(* The process of the attestation service (packages/attestor/src/server.ts *)
(* and config.ts): what it refuses to start with, what it wires together   *)
(* from its configuration, the keeper and the rate limit at work in it,    *)
(* and GET /health (http.ts).                                              *)
(*                                                                         *)
(* The keeper and the requests share no state, so one of them moves in a   *)
(* configuration, and the others are only started: KeeperAt and RequestsAt *)
(* bound the model.                                                        *)
(***************************************************************************)
EXTENDS Keeper

CONSTANTS
    Config,                  \* the configurations that are tried
    KeeperAt, RequestsAt,    \* those whose keeper runs, those that serve requests
    Ip, Wallet, RATE_PER_IP, RATE_PER_ADDRESS, WINDOW, Request, DELAY

ASSUME ServerAssumption ==
    /\ KeeperAt \cap RequestsAt = {} /\ Ip \cap Wallet = {}
    /\ {RATE_PER_IP, RATE_PER_ADDRESS, WINDOW} \subseteq Nat \ {0} /\ DELAY \in 0 .. WINDOW - 1

VARIABLES
    cfg,     \* the environment and the deployment file
    server,  \* "down", "starting", "serving" or "exited"
    sliding, offset, hits, rows, request, passed, quiet

RL == INSTANCE RateLimit

rateVars == <<sliding, offset, hits, rows, request, passed, quiet>>
serverVars == <<cfg, server, keeperVars, rateVars>>

\* loadConfig: an empty variable is an unset one; the oracle counts as deployed only
\* with all of its fields.
ConfigType == [
    chain : {"local", "testnet"}, deployment : {"local", "testnet"},
    signer : BOOLEAN,       \* the attestor key is the deployment's attestor
    fixture : BOOLEAN,      \* HISTORY_FIXTURE
    primaryOff : BOOLEAN,   \* HISTORY_PRIMARY=off
    alchemy : BOOLEAN,      \* ALCHEMY_API_KEY
    database : BOOLEAN,     \* DATABASE_URL
    keeperKey : BOOLEAN,    \* ORACLE_KEEPER_PRIVATE_KEY
    oracle : BOOLEAN,
    indexer : BOOLEAN,      \* INDEXER_URL
    relay : BOOLEAN]        \* RELAY_WALLETS

Local(c) == c.chain = "local"

\* Why the process refuses to start.
Refusals(c) ==
    {why \in {"other chain", "signer", "fixture", "production config"} :
        \/ why = "other chain" /\ c.deployment # c.chain
        \/ why = "signer" /\ ~c.signer
        \/ why = "fixture" /\ c.fixture /\ ~Local(c)
        \/ why = "production config" /\ ~Local(c) /\ ~(c.database /\ c.keeperKey /\ c.oracle)}

MutantSwitchIgnored(c) ==
    CASE c.fixture -> <<"fixture">>
      [] ~c.fixture /\ c.alchemy -> <<"hypersync", "alchemy">>
      [] OTHER -> <<"hypersync">>
\* What the history check asks, in order.
Sources(c) ==
    CASE c.fixture -> <<"fixture">>
      [] ~c.fixture /\ c.alchemy -> IF c.primaryOff THEN <<"alchemy">> ELSE <<"hypersync", "alchemy">>
      [] OTHER -> <<"hypersync">>

StepsOf(c) ==
    (IF c.keeperKey /\ c.oracle THEN <<"oracle-restamp">> ELSE <<>>)
    \o (IF c.indexer THEN <<"indexer-ping">> ELSE <<>>)
    \o (IF c.keeperKey /\ c.relay THEN <<"demo-relay">> ELSE <<>>)

----------------------------------------------------------------------------

Exit ==
    /\ server = "down" /\ Refusals(cfg) # {}
    /\ server' = "exited"
    /\ UNCHANGED <<cfg, keeperVars, rateVars>>

Boot ==
    /\ server = "down" /\ Refusals(cfg) = {}
    /\ server' = "starting"
    /\ IF StepsOf(cfg) = <<>> THEN UNCHANGED keeperVars ELSE Start
    /\ UNCHANGED <<cfg, rateVars>>

\* serve(), once the keeper has its timer.
Serve ==
    /\ server = "starting" /\ (StepsOf(cfg) # <<>> => Up)
    /\ server' = "serving"
    /\ UNCHANGED <<cfg, keeperVars, rateVars>>

\* The process dies, of the database that does not migrate or of anything else.
Die ==
    /\ server \in {"starting", "serving"}
    /\ server' = "down"
    /\ IF pc = "down" THEN UNCHANGED keeperVars ELSE Crash
    /\ RL!RateRestart
    /\ UNCHANGED cfg

KeeperMoves ==
    /\ cfg \in KeeperAt /\ server # "exited"
    /\ \/ Step \/ Tick
       \/ cfg.oracle /\ OracleMoves
       \/ \E w \in RelayWallet : Liquidation(w)
    /\ UNCHANGED <<cfg, server, rateVars>>

RequestsMove ==
    /\ cfg \in RequestsAt
    /\ \/ server = "serving" /\ RL!RateNext
       \/ server = "down" /\ RL!RateTick
    /\ UNCHANGED <<cfg, server, keeperVars>>

ServerInit ==
    /\ cfg \in Config /\ server = "down"
    /\ KeeperInit(StepsOf(cfg))
    /\ RL!RateInit(~cfg.database)

ServerNext == Exit \/ Boot \/ Serve \/ Die \/ KeeperMoves \/ RequestsMove

Spec == ServerInit /\ [][ServerNext]_serverVars

\* Every await settles, the timer fires and time passes; what is sent is mined.
Fairness ==
    /\ WF_serverVars(cfg \in KeeperAt /\ Step /\ UNCHANGED <<cfg, server, rateVars>>)
    /\ WF_serverVars(cfg \in KeeperAt /\ server # "exited" /\ Tick /\ UNCHANGED <<cfg, server, rateVars>>)
    /\ WF_serverVars((\E tx \in pending : Mine(tx)) /\ UNCHANGED <<cfg, server, rateVars>>)

FairSpec == Spec /\ Fairness

----------------------------------------------------------------------------
(* GET /health: 200 when every check passes, of those the configuration has; *)
(* `broken` are the dependencies that do not answer as they should.          *)

Dependency == {"rpc", "registry-attestor", "hypersync", "chainscore"}

HealthOk(broken) ==
    /\ broken = {}
    /\ cfg.alchemy /\ ~cfg.primaryOff
    /\ StepsOf(cfg) # <<>> => KeeperOk
    /\ cfg.indexer \/ Local(cfg)
    /\ cfg.oracle => OracleOk

Has(seq, x) == \E i \in DOMAIN seq : seq[i] = x
Restamps == Has(steps, "oracle-restamp")

----------------------------------------------------------------------------
(* Properties. *)

TypeOK ==
    /\ cfg \in Config /\ server \in {"down", "starting", "serving", "exited"}
    /\ timer \in 0 .. INTERVAL /\ lastRun \in [age : 0 .. AGE_CAP, ok : BOOLEAN]
    /\ run.took \in 0 .. RUN_MAX /\ pending \subseteq [asset : Asset, price : Price]
    /\ oracle \in [Asset -> [price : Price, age : 0 .. AGE_CAP]]
    /\ left \in [RelayWallet -> 0 .. TTL]

\* "Refuse to start with a key the registry will not accept"; off the local chain,
\* with a store that forgets reservations, with prices nobody re-stamps (server.ts)
\* or with a recorded history.  With HISTORY_PRIMARY=off and a fallback to answer,
\* HyperSync is not asked (config.ts).
StartsOnlyAsPromised ==
    server \in {"starting", "serving"} =>
        /\ cfg.signer /\ cfg.deployment = cfg.chain
        /\ ~Local(cfg) => cfg.database /\ Restamps /\ ~Has(Sources(cfg), "fixture")
        /\ cfg.primaryOff /\ cfg.alchemy => ~Has(Sources(cfg), "hypersync")

\* The freshness alarm has a cause the keeper's own check shows: while the last
\* recorded run is good and recent, no price is past the alarm by more than the time
\* a run takes, through crashes, unrecorded runs and transactions mined late.
AlarmHasACause ==
    Up /\ Restamps /\ KeeperOk => \A a \in Asset : oracle[a].age < WARN_AFTER + RUN_MAX

\* A stalled keeper shows: while /health is green, a run has ended within the interval
\* and its grace, and the market takes every price.
GreenMeansKept ==
    server = "serving" /\ HealthOk({}) /\ Restamps =>
        /\ sinceRun <= INTERVAL + GRACE
        /\ \A a \in Asset : oracle[a].age < MAX_AGE

\* The health report says neither more nor less than what is true.
HealthIsTrue == AlarmHasACause /\ GreenMeansKept

\* "Survives restarts via the store" (keeper.ts): whatever crashes and failures of
\* the store come between, a waiting keeper is never later than INTERVAL after the
\* end of a run.
NoRunSkipped == pc = "wait" => timer = 0 \/ timer + sinceRun <= INTERVAL

\* And none is repeated: a run begins INTERVAL after the recorded one, or when that
\* one failed.
NoRunRepeated == [][pc = "wait" /\ pc' # "wait" /\ server' # "down" => lastRun.age >= INTERVAL \/ ~lastRun.ok]_serverVars

RunsOnTime == [](TypeOK /\ NoRunSkipped) /\ NoRunRepeated

\* While the process lives and the oracle takes its transactions, prices are fresh
\* for the market and for the alarm in the end and from then on, whatever the other
\* steps and the store throw.
PricesComeBack ==
    <>[](Up /\ Restamps) /\ <>[][~OracleThrows]_serverVars => <>[]OracleOk

\* "With a check every few hours, no gap" (server.ts): once every step of the relay
\* succeeds, no relayed score lapses for want of a new one.
ScoresStayFresh ==
    /\ <>[](Up /\ Has(steps, "demo-relay"))
    /\ <>[][~(OracleThrows \/ RelayThrows \/ NotAttested \/ \E w \in RelayWallet : Liquidation(w))]_serverVars
    => <>[](\A w \in RelayWallet : left[w] > 0)

\* The rate limit (RateLimit.tla) of the service, with whichever store it was given.
WithinLimit == RL!WithinLimit
QuietKeyPasses == RL!QuietKeyPasses
LimitIsKept == WithinLimit /\ QuietKeyPasses
=============================================================================
