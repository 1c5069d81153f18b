# Tenor: specifications and proofs

Tenor lends one asset against one collateral, at terms that depend on a wallet's ChainScore
credit score. This directory holds TLA+ models of the repository, from the two contracts to the
service that signs scores, the keeper, the index of events and the page a borrower uses; TLC
configurations that check them on small instances; and TLAPS proofs of the properties that matter
most, for every value of the constants. `PROJECT.json` lists, for every definition that models
code, the lines it stands for, and the hazards of the code with the properties about each.

To parse a module run `tlasany M.tla`, to check one `tlc -config <run>.cfg <module>`, to prove one
`tlapm M_proofs.tla`.

## The system

| Component | State | Operations | Talks to |
|---|---|---|---|
| `contracts/src/ScoreRegistry.sol` | per wallet: score record, nonce, liquidation record; attestor key and epoch; authorized markets; pause | `submitAttestation` (anyone), `recordLiquidation` (market), `setAttestor`, `setMarket`, pause | read by the market (`effectiveTier`), the service and the keeper; written by markets |
| `contracts/src/TenorMarket.sol` | per wallet: collateral, scaled debt, tier; totals and tier buckets; index, reserves, losses; caps; ERC-4626 shares; pause | lender entry and exit, collateral in and out, `borrow`, `repay`, `liquidate`, `setCaps`, pause | calls the registry and the oracle inside its own transaction |
| `contracts/src/RiskParams.sol` | none | tier thresholds, terms per tier, rate curve, `validate()` | used by both contracts |
| `contracts/src/mocks/MockPriceOracle.sol` | price and update time per asset | `setPrice` | read by the market, re-stamped by the keeper |
| `contracts/script/Deploy.s.sol` | none | creates registry and market and authorizes one in the other | |
| `packages/attestor/src/service.ts` | none of its own: each request is a chain of awaits over the store, the sources and the RPC node | `evaluate` (score only), `attest` (score and signature), both restarted when a liquidation or the clock overtakes them | store, history sources, ChainScore, RPC node; its signatures go to the registry by any hand |
| `store.ts`, `pgStore.ts` | score cache, history cache, reservation per wallet and nonce, rate-limit hits, refusal log, keeper metadata | get, put, clear, `reserve`, `allow`, ... each one await | shared by all processes of the service and the keeper (PostgreSQL), or one process's own (memory, local chain only) |
| `history.ts` | per client: time of the last request to HyperSync | borrowing check of a wallet, chain after chain: pages through HyperSync, retries, then Alchemy | external services; called by the service |
| `chainscore.ts` | none | one ChainScore request per chain | external service |
| `validate.ts`, `policy.ts`, `tiers` | none | reject an unusable answer, minimum over chains, penalties, caps and floor | called by the service |
| `keeper.ts`, started by `server.ts` | timer; the last run, in the store | every interval: re-stamp prices, ping the indexer, relay attestations, record the run; two health checks | RPC node, oracle, registry, store |
| `server.ts`, `config.ts`, `http.ts` | the configuration of the process | refusals to start, wiring of stores, sources and keeper, HTTP routes with rate limits, `/health` | service, store, keeper |
| `indexer/` | tables: `Wallet`, `MarketTotals`, `WalletEvent`, `LiquidationEvent` | one handler per contract event | events of both contracts |
| `apps/web`, market and score pages | snapshot of the chain, typed amount, flow of the transaction under way | offer, approve, simulate, sign, await a receipt; request and submit an attestation; poll | contracts, service |
| `apps/web`, activity page | none | works the wallet's story out of its timeline | indexer |
| `apps/web`, other pages | none | display | contracts, service, indexer |
| `scripts`, `docs`, `deployments` | recorded data | distribution checks of the score model, deployment outputs | |

### What is hard about it

*Contracts.* Transactions are atomic, so the difficulty is in sequences: signatures that are held
back, replayed or made under a former key; a score that lapses between two transactions, so that
a position was priced at terms its wallet no longer has; debt moved between tier buckets at every
such change; five roundings between an amount and its scaled debt; bad debt split between
reserves and lenders; a loss written in two contracts.

*Service.* Every value a request reads is used some awaits later. Two requests for one wallet are
serialized inside a process only, and requests that only evaluate are not serialized at all. What
keeps two processes from signing two different payloads for one nonce is one atomic statement of
the database; what keeps a liquidation from being outrun by a score is a pair of reads around it.

*Sources.* Any of them may fail, lag or be incomplete, per chain. "No borrowing", "not checked"
and "bad answer" must stay three different things until the end. An answer is put together from
pages, with a head that moves meanwhile, a pace that other checks share, retries, and a fallback
that sees less.

*Process.* The keeper must neither skip a run nor repeat one over any number of restarts, and
prices must come back whatever a step throws; `/health` must show what has stopped, and only that.
One program serves a developer's chain and the testnet, and must not bring the shortcuts of the
one to the other. The rate limit is kept in two ways that count differently.

*Index and pages.* A join between two events of one transaction; counts kept in two contracts and
two tables; a page that reckons again what the contract reckons, from a snapshot that is out of
date, while a transaction is under way and the user goes on clicking.

## Modules

| Module | Models | Extends or instantiates |
|---|---|---|
| `RiskParams` | the tables, thresholds, `validate()` and the rate curve | |
| `ScoreRegistry` | the registry contract | `RiskParams`, `ScoreView` (refinement) |
| `ScoreView` | abstract: what a consumer of the registry may rely on | `RiskParams` |
| `TenorMarket` | the market contract over an environment of time, prices and tiers | `RiskParams` |
| `Tenor` | registry and market together, as deployed | instances of both |
| `Indexer` | the indexer's handlers and the activity page, over `Tenor` | `Tenor` |
| `Scoring` | pure part of the service: which chains count, validation, minimum rule, policy | `RiskParams` |
| `Evaluation` | one evaluation while sources fail, recover and change their answers | `Scoring` |
| `HistoryClient` | the clients behind the history check, page by page | instance of `Evaluation` |
| `Attestor` | requests of several processes over the shared store, with the registry and the clock | `Scoring`, instance of `ScoreRegistry` |
| `Keeper` | the keeper's loop, steps, record and health checks | |
| `RateLimit` | the two stores' windows under the limit of the HTTP routes | |
| `Server` | the process: refusals, wiring, restarts, `/health`, with the keeper and the limit in it | `Keeper`, instance of `RateLimit` |
| `MarketPage` | the market and score pages of the web application over the market | `TenorMarket` |
| `MC...` | constants of the runs, too structured for a `.cfg` | the module named |
| `ScoreRegistry_proofs`, `Indexer_proofs`, `Attestor_proofs`, `Evaluation_proofs`, `HistoryClient_proofs`, `Server_proofs` | theorems: invariants, steps, refinements | the module named, `TLAPS` |
| `Market_proofs` | the same of `TenorMarket` and of `MarketPage`, whose proofs cite the market's | `MarketPage`, `Sums_proofs` |
| `Sums_proofs` | lemmas on sums over finite sets | `Functions`, `TLAPS` |

A name that starts with `Mutant` is a plausible slip in the operator written after it, kept so
that each property can be seen to fail; no specification uses one.

### RiskParams

`Tier`, `ScoreToTier`, the tables `TierToMaxLtv` and `TierToWalletCap`, and `ValidTerms`, which is
`validate()`. The market takes its tables as constants under the assumption `ValidTerms`, so that
what is proved of it holds of every table the contract's constructor would accept.

### ScoreRegistry

State: `scores`, `liquidations`, `nonces`, `attestor`, `attestorEpoch`, `isMarket`, `paused` are the
contract's storage under its names; `now` is `block.timestamp`. `accepted` is a history variable:
the attestations stored so far, with signer, epoch and block time.

Actions: one per transaction, where a guard is a revert that did not happen. `SubmitAttestation`
takes *any* payload in the range of its fields under *any* key: that covers signatures replayed,
held back, reordered, or made by a key rotated away. Block time is a step of its own, so any number
of transactions share a timestamp.

### TenorMarket

State: the contract's storage under its names, `cash` for the market's balance of the borrowed
asset, `shares` and `totalSupply` for the ERC-20 side of the vault. The environment is the oracle
(`SetPrice`), the clock (`Tick`), and `effective`, the tier the registry answers for each borrower:
it changes by `Rescore` and falls to the floor by `Lapse`, when a `Tick` expires scores, or by a
liquidation. `recorded` is what the market reported to `recordLiquidation`. `entries` and `loans`
only count towards the bounds.

Actions: `Deposit`, `Mint`, `Withdraw`, `Redeem`, `Donate` (a plain transfer to the market),
`DepositCollateral`, `WithdrawCollateral`, `Borrow`, `Repay`, `LiquidateAndReport`, `SetCaps`,
`SetPaused`. Each does everything its transaction does: accrual, retiering with the move between
buckets, the change itself, the check of the terms. Fixed-point units, the length of a year and the
virtual-share offset are constants: with `RAY = WAD = 10` TLC meets in a few steps every rounding
that 10^27 makes rare, and the proofs hold for all of them.

### Tenor

`R` and `M` are the two contracts; `effective` of the market is `R!EffectiveTier`, and
`Liquidate` conjoins the market's step with `R!RecordLiquidation`, so it happens in both or, when
the authorization has been revoked, in neither. Every other action is a transaction of one contract
that leaves the other alone, under the name it has there. `ImplementsMarket == M!Spec` says that the
market module's environment is general enough for the real registry: everything checked or proved
of `TenorMarket` alone holds in the composition. It is checked by `indexer` and proved in
`Indexer_proofs`.

### Indexer

Each step of `Tenor` emits the logs its transaction emits, in their order (`LiquidationLogs`,
`Repriced`, ...), and `Handle` folds them through the handlers. A handler reads the log and the
tables, never the chain, so the tables are a function of the logs handled, and the model moves them
in the step of the transaction; what it says holds of the block the index has reached.

| State or operator | Code |
|---|---|
| `wallets`, `totals`, `timeline`, `settled` | `Wallet`, `MarketTotals`, `WalletEvent`, `LiquidationEvent` |
| `OnAttested`, `OnLiquidationRecorded` | `handlers/ScoreRegistry.ts` |
| `OnBorrowed`, `OnBadDebt`, `OnInterestAccrued`, `OnLiquidated`, `Counted` | `handlers/TenorMarket.ts` |
| `Joined`, `Settlement` | the join of a liquidation with the bad debt just before it; where it fails the handler throws and the index halts (`halted`) |
| `netCollateral`, `LiqIdx`, `NewScore` | the activity page (`apps/web`), which tells the loop from a score to a liquidation and back |

### Scoring and Evaluation

`Scoring` has the service's pure functions as operators on what the sources answered: `ToScore`,
`Unscoreable`, `ChainScoreOnly`, `LeftOut`, `ValidateChain`, `Outcome`, `MinimumRule`,
`ApplyTenorPolicy`. An answer is a record of the fields that decide anything.

`Evaluation` checks them against the truth. `borrowed` is the set of loans the wallet has, `down`
the sources that cannot be asked; `history` is derived from both as `history.ts` does it, the
primary for each chain and the fallback where it fails. The fallback sees less: it reports Compound as
unchecked, and says nothing of Aave loans at a stable rate, which it does not see either. A chain it
answers for alone, without Compound, with no loan but such ones, is `Overlooked`: to the service it is
clean, the properties say that nothing else with a loan on it is, and hold for everything else.
`upstream` is what ChainScore answers, unconstrained. `rec` is the liquidation record. The state of
the program is a function of these four, so the invariants are statements about every combination
of outages and answers and the action properties compare two neighbouring ones.

### HistoryClient

`Evaluation` takes the answers of the sources as given; here they are made. A `check` is the
state of one wallet's check between two awaits: which chain and protocol, the page, what is counted,
the target, the attempts. `since` is the pace, shared by all checks of the client: those of other
wallets are the environment's `OthersSend`. `loans` is what the wallet borrows on every block to come,
of either protocol and at either rate, `head` the last block. An answer keeps its source.

| Action | Code |
|---|---|
| `Start`, `BeginChain`, `Answer` | `checkAllSerial`, one chain after the other, and the answer of each |
| `Pace`, `Wake` | `query()`: read the pace, sleep over it, send and write it |
| `Throttled`, `BackedOff` | HTTP 429: back off and go round, or give up |
| `Page` | `count()`: a page up to any block; target from the first response; no progress or too many pages is an error |
| `Throws` | timeout, HTTP error, unexpected shape, of either client |
| `FallBack`, `Transfers` | `FallbackHistoryChecker` and Alchemy's pages |
| `Deliver` | the service takes the answers |
| `OthersSend`, `Grow`, `Tick` | a request of another check through the client; blocks; time |

`CompleteOrError` says for each source what an answer leaves out: HyperSync's nothing, Alchemy's Compound
(reported) and stable-rate loans (not reported). `AnswersAsEvaluated` ties the two models: each answer is one that `Evaluation` derives from the
loans of some block between the beginning of the chain's check and now, with a set of sources out of
reach.

### Attestor

State: `pc` and `call` per request (the place between two awaits, and the local variables that are
still needed), the three tables of the store, `signed` (every payload a signature was given for),
`clock` in ticks of which `MS` make a second, and the registry's variables through `R`. `Worker` is
the set of requests that can be under way at once, `ProcessOf` the process that serves each.

| Action | Code |
|---|---|
| `Start` | an HTTP request passes `withWalletLock` |
| `ReadHistoryCache`, `CheckHistory`, `PutHistory` | `historyFor`, and `evaluateInner` up to the classification of the chains |
| `ClearScores`, `ReadScoreCache`, `AskChainScore`, `PutScore` | the loop over the chains to score |
| `Refuse`, `ReadRecord` | the outcome, the liquidation record, the policy, the restart |
| `ReadOnChain`, `CheckTimeLeft`, `ReadNonce`, `ReadBefore`, `Reserve`, `Sign`, `Drop` | `attestInner`, one action per await |
| `Abort`, `Crash` | an await that rejects; a process that dies |
| `Submit`, `Liquidation`, `Rotate`, `Tick` | the rest of the world: any signature, any time, any number of times |

A payload that is signed stays in `signed` for ever: its holder may submit it late, twice or never.
Signing is deterministic, so a signature is the payload and the key.

### Keeper, RateLimit and Server

`Keeper` is `keeper.ts`, one action per await of a run. Its state: `pc` (the place in the run),
`steps` (those the configuration has), `timer`, `lastRun` (the record in the store), `run` (local
variables of `runOnce`), `oracle`, `pending` (transactions sent and not mined), `left` (the time a
relayed score has left), and `sinceRun`, history. Time is kept as ages and countdowns that stop past
every threshold, so behaviours are infinite and liveness is about all of them.

| Action | Code |
|---|---|
| `Start`, `Schedule`, `Begin`, `Finish`, `Record`, `Crash` | `start()`, the first delay, `runOnce()` with its steps, the record, the process's death |
| `CheckOwner`, `ReadPrice`, `SendPrice`, `AwaitReceipt`, `OracleThrows` | `restampStep` |
| `Ping` | `indexerPingStep` |
| `ReadScore`, `Attest`, `NotAttested`, `Submit`, `RelayThrows` | `relayStep` |
| `Mine`, `Lose`, `OwnerSetsPrice`, `Liquidation`, `Tick` | the chain and its clock |
| `KeeperOk`, `OracleOk` | the two health checks |

`RateLimit` has `hit()` of both stores under `limited()` of the routes: two keys per request, one
reading of the clock, an await between them. `sliding` holds the memory store's hits by age, `rows`
the two last windows of the database and `offset` the clock's place in the window; `passed` and
`quiet` are history.

`Server` is the process around them. `ConfigType` has what `loadConfig` tells apart; `Refusals`,
`Sources` and `StepsOf` are what `server.ts` makes of it; `Exit`, `Boot`, `Serve`, `Die` its life. The
keeper and the requests share no variable, so their interleavings add nothing: the keeper moves in
the configurations `KeeperAt`, requests in `RequestsAt`, and the rest only start.

### MarketPage

The market's state by `TenorMarket`, and of the page: `snap` (the last poll), `tab`, `input`, `flow`
(the transaction under way: ready, requested, to be signed, awaited) and `aside` (one that goes on in
a panel that was left). `granted`, `spent`, `unsure` and `signed` are history.

| Action | Code |
|---|---|
| `Open`, `Type`, `PressMax`, `PressAll` | the panels and inputs of `market/page.tsx` |
| `Sign`, `Submit`, `Sent`, `Receive`, `TimeOut` | `TxFlow.tsx`, `AttestPanel.tsx` and `gas.ts`: simulation, signature, receipt |
| `Request`, `Answered` | the attestation asked of the service |
| `MineFlow`, `MineAside`, `ReceiveAside` | what becomes of what was sent |
| `Poll` | `useTenorState` |
| `Elsewhere` | time, with prices growing stale and the score lapsing, and pauses |

`Offer` is what the button of each panel would sign, `Accepts` and `Execute` what the contract
makes of it.

## Runs

Every run either passes or shows one statement of the repository to be false. Some checked
properties are conjunctions of named parts, which are listed after an equals sign.

| Run | Instance | Checks | Shows |
|---|---|---|---|
| `registry` | 1 wallet, 2 keys (symmetric), TTL 2, skew 1, 3 seconds, 2 attestations, 3 epochs, 1 liquidation | `NoReplayNoRollback`, `FreshIsVouched`, `ImplementsView`, `LiquidationInvalidatesUpToSkew` | no replay, no rollback; a fresh score is vouched for by the key in office over data younger than the last liquidation and the TTL; the registry implements `ScoreView`; a score survives a liquidation only if it was dated ahead of the chain within the skew |
| `market` | 2 symmetric borrowers, 2 lenders, 2 loans, 1 second, price 5 or 10, a cap on tier A | `TypeOK`, `TotalsAreSums`, `OnlyPriceOrTimeUnwinds`, `RiskPricedToday`, `GrowsWithinCaps` | totals and buckets, who may be liquidated, at which tier risk is priced, how a capped tier may grow |
| `market_interest` | 1 borrower, 3 seconds, loans of 15 and 100, mints of 500 shares, 1 liquidation | `NoZombieDebt`, `LossesAreBooked`, `ReservesBacked`, `QuotesAreKept` = `ExitsStayOpen`, `MaxBorrowSucceedsAtPar`; `SharePriceFallsOnlyBySocialization`, `LossOnlyUnderwater` | interest, reserves, losses, exits, share price, `maxBorrow` at par |
| `indexer` | 1 wallet, score 800, 2 seconds, 2 loans, prices 5 and 1000, 7 rows, 1 liquidation, 1 rotation (of the epoch), one switch off at a time (a contract paused, the market deauthorized) | `BooksAgree` = `JoinNeverThrows`, `TotalsMatchTheMarket`, `WalletsMatchTheRegistry`, `ShortfallsAddUp`; `ImplementsMarket`, `BetterTermsAreVouched`, `LoopIsTrue` | the composition implements the market; the contracts and the tables agree on counts and losses and the join never halts the index; a loan after a liquidation, an expiry or a rotation is at the floor's terms unless the wallet was attested anew; the story the activity page tells is what happened |
| `evaluation` | 3 chains (one with Compound, one without, one that ChainScore does not score and the fallback does not cover), loans at variable and stable rates, 10 answers, 2 liquidations | `ScoredAsTheWorst` = `WorstChainRules`, `OutcomesKeptApart`; `LiquidationNeverHelps`, `OutageNeverHelps` | the worst chain rules, the three outcomes stay apart, neither a liquidation nor an outage buys a better score, apart from the silent gap of the fallback |
| `history` | Ethereum (Aave, Compound, fallback), Polygon (Aave, fallback) and Scroll (Aave alone), 4 blocks, 3 pages, 1 retry, interval 2; two sets of loans | `AnswersAreHonest` = `CompleteOrError`, `AnswersAsEvaluated`; `OneWalletNeverBursts`, `EveryCheckEnds` | every answer has all its source can see or is an error; the answers are those `Evaluation` assumes; the pace holds; every check ends |
| `attestor_races` | 2 processes, 2 requests, 1 chain, TTL 3, submit window 1, 3 seconds, 1 liquidation | `OnePayloadBeforeDeadline`, `PolicyReachesTheChain`, `EveryRequestEnds` | one payload per nonce up to the instant of its deadline; the policy reaches the chain; every request ends |
| `attestor_sources` | 1 process, 2 requests, 2 chains, half-second ticks, 2 keys, ChainScore 1 tick behind | `ServesWhatHolds` = `TypeOK`, `PolicyReachesTheChain` | the same policy through caches, partial answers and rotations |
| `server` | all 2048 configurations; interval 2, grace 1, re-stamp after 1, a run of at most 1, maximum price age 6, TTL 7; window 3, limits 3 and 2, 2 requests under way | `StartsOnlyAsPromised`, `HealthIsTrue` = `AlarmHasACause`, `GreenMeansKept`; `LimitIsKept` = `WithinLimit`, `QuietKeyPasses`; `RunsOnTime` = `TypeOK`, `NoRunSkipped`, `NoRunRepeated`; `PricesComeBack`, `ScoresStayFresh` | what starts and with what; runs on time through crashes; health is green only when kept and red only with a cause; limits up to twice at an edge; prices and scores come back |
| `web` | 1 user, 3 seconds, typed amount 50, positions empty, collateral only, and 100 against 30; 2 signed transactions | `ReckonsAsTheMarket` = `OfferedGoesThrough`, `ComparesAsTheMarket`; `HeadroomLasts` = `MaxStillFits`, `AllStaysFull`; `PartCarriesOn`, `ExecutedOnce` = `ClearedOnceExecuted`, `NothingSignedTwice` | the page offers what the contract accepts; Max and All hold for their headroom; approvals carry on in part; nothing is executed twice unknowingly |
| `attestor_not_newer` (violation) | 2 processes, 2 requests | `SignedIsNewer` | see Findings |
| `web_approve` (violation) | as `web` | `ApprovalCarriesOn` | see Findings |

### Why the bounds are enough

*Registry.* The checks compare at most two attestations, one rotation (two, so that a former key
can come back) and one liquidation with the clock. Timestamps range past the last block time by the
skew and the TTL, so that expiry, future dates and deadlines are met from both sides.

*Market.* One second more than a price's age makes a price stale; three seconds give three accruals
at different utilizations. Two tiers, the floor and another, are what retiering distinguishes: terms
are compared, never enumerated. Two prices, one of which makes the position unhealthy and, with a
loan at the limit, under water. Two borrowers are needed for the sums and the buckets, two lenders
for leaks between lenders; each has a run of its own with the rest kept small.

*Indexer.* Two loans, so that the second may follow a liquidation, an expiry or a rotation, with or
without a new attestation. A timeline of seven rows has room for a deposit, a loan, a liquidation, a
new score and that second loan. At a collateral price of 5 a loan is under water as soon as it bears
interest, so that bad debt and its join take place; at 1000 what the liquidation leaves carries another
loan. A rotation keeps the one key and raises the epoch, which is what withdraws a score; two keys are
in `registry`, and `TermsAreVouched` is proved for any.

*Evaluation.* There are three kinds of chain: with a full fallback, with a partial one, and one that
is not scoreable. The loans have each kind on which the sources differ, and a stable-rate loan alone
on the chain where nothing is said of it. The answers have one for each way `validate.ts` tells a bad
one from a good one.

*History.* The three chains are the three kinds: two protocols with a partial fallback, one protocol
with a fallback, one with none. A page may end anywhere and the head may move three times, so a second
page of HyperSync may be short of a target that is itself behind the head, a third may meet it or the
page limit, and loans come before, at and after the head of the first page; the same of Alchemy's
pages. The second set of loans is one of which the fallback sees nothing. One check is followed, since
checks share nothing but the pace, and others' requests may come at any moment (`OthersSend`). The
proofs hold for any of these numbers, and for several checks.

*Attestor.* Races need two requests; two processes are the general case of one, as only the lock is
lost. A TTL of 3 with a window of 1 lets a payload's deadline pass before the score expires, which is
where a second payload may be signed. `attestor_sources` has two chains so that one may be cached and
the other not, and two ticks to the second so that truncation to seconds is met.

*Server.* The thresholds keep the order of the shipped ones: re-stamp before interval, interval and
grace before the alarm, the alarm before the market's limit. Two assets, so that a run may fail
between them, and one relayed wallet. A TTL of 7 against an interval of 2 has the slack of the deployment
(24 h and 4 h); with the defaults of `config.ts` (lines 20 and 35: both 24 h) scores lapse between runs
and `ScoresStayFresh` does not hold. A window of three ticks with limits of three per address of
origin and two per wallet makes either the one that refuses.

*Web.* Interest at these rates is visible within one second, so that three seconds move the debt past
every margin of the page; an approval and its action are two transactions. The run was also made
once with three (4.1 million states).

`CHECK_DEADLOCK FALSE` is stated where a model may stop: in the `attestor` and `web` runs the
clock, the requests, nonces and signed transactions are bounded and may be used up; in `server` a
process that refuses its configuration exits, and one without keeper or requests only starts. The
other models never stop.

### Fairness

- `attestor_races` (`EveryRequestEnds`): weak fairness of each request's own step. The fetches of the
  sources and ChainScore have time limits, and so have the RPC client's requests by default, so those
  awaits settle, with an answer or by `Abort`. `pgStore.ts` sets no time limit on a statement: that the
  database answers or the connection breaks is an assumption. Nothing is assumed of the clock, of the chain, of
  liquidations or of other requests, and no fairness is assumed of `Abort`.
- `server` (`PricesComeBack`, `ScoresStayFresh`): the keeper's awaits settle and its timer fires, for
  the same reasons and under the same assumption; time passes; a transaction sent is mined or lost. What may throw for ever is a
  premise of each property, not an assumption: prices come back if the process stays up and the
  oracle's calls stop throwing, whatever the other steps and the store do.
- `history` (`EveryCheckEnds`): each check's own step, as requests are answered or time out
  (`AbortSignal.timeout`), and the clock, so that sleeps end. Nothing is assumed of which answer: the
  server may refuse with 429 for ever, and the head may grow at every step.

### Assumptions about the environment

- The service's clock and the chain's agree to the second. A lag would widen the window of
  *Second of the deadline* (see Observations).
- The history sources may fail, and the fallback is incomplete as `history.ts` (lines 12-18) documents:
  chains it does not cover, Compound, stable-rate Aave loans. Apart from that they do not lie. ChainScore may answer anything.
- The database's statements are atomic and survive a crash of any process.

## Findings

| Run | Statement | What the code does |
|---|---|---|
| `attestor_not_newer` | a payload is newer than the score on-chain | the score is read before the nonce; one stored in between makes the new payload one to be refused, and the reservation hands it to later requests |
| `web_approve` | "After an approval the same amount carries on to the real action" | for a full repayment the allowance needed is recomputed from the debt, with the same margin as was approved; once interest accrues the page asks for another approval, though the allowance covers the debt |

The exact quotations are in `PROJECT.json`.

### Observations

Met while modelling, without a run of their own; each follows from the module named.

Contracts:

- *Skew* (`ScoreRegistry`): a liquidation does not always invalidate the score
  (`ScoreRegistry.sol:18-19`): one dated up to the skew of 60 s ahead of the chain is younger than the
  liquidation and stays fresh. `LiquidationInvalidatesUpToSkew` is the part that holds.
- *maxBorrow* (`TenorMarket`): "always succeeds" (`TenorMarket.sol:425-427`) needs a debt price that is
  a whole number of units of account, or two units at least. Collateral value is rounded down and
  the value of the debt up in units of account, so at other prices the roundings may exceed the
  margin. With `RAY = WAD = 10`, both prices 11, collateral 15, an LTV of 80% and an index of 17,
  `maxBorrow` answers 9; the debt becomes 11, worth 13 against a limit of 12.8, and `borrow` reverts.
  `MaxBorrowSucceedsAtPar` is the part that holds; its condition (`RoundingFits`) was found by the
  proof.
- *Dust* (`TenorMarket`): if the collateral pays for less than one unit of scaled debt and more than
  nothing, `repayCap` is positive and every repayment up to it rounds to no reduction, so `liquidate`
  reverts. The amounts are below one unit of debt times the index.
- *Rate of an interval* (`TenorMarket`): `_utilization` reads the balance at the end of the interval, so
  a plain transfer to the market lowers the rate of the whole interval since the last accrual.
  `SharePriceFallsOnlyBySocialization` leaves such a transfer out for that reason. One transfer
  raises the rate instead: `_utilization` answers zero where cash and debt equal the reserves, so a
  pool in which lenders own nothing but in which there is debt leaves that case by a donation, and a
  position at the edge may become unhealthy. `OnlyPriceOrTimeUnwinds` excepts just that case.

Index:

- *Last index* (`Indexer`): `_accrue` stores the grown index and logs it only when interest is positive
  (`TenorMarket.sol:495-498`). While the debt is so small that an interval's interest rounds to
  nothing, `lastBorrowIndex` stays behind the market's index. `TotalsMatchTheMarket` therefore says
  that it never runs ahead. No page reads the column.

Service:

- *Second of the deadline* (`Attestor`): at the second of its deadline a reservation is dead
  (`store.ts:8-10, 41-42, 98`) and the registry still takes its payload (`ScoreRegistry.sol:122`), so
  two payloads for one nonce may be valid in that second. `OnePayloadBeforeDeadline` holds up to it.
- *fresh* (`Attestor`): `ClearScores` and `ReadScoreCache` are separate awaits, so another request may
  put an older score back in between, and an evaluation that was to skip the caches uses it.
- *Dates ahead* (`Attestor`): `PolicyReachesTheChain` is checked with ChainScore never ahead of the
  clock. Validation and registry accept dates slightly ahead, and a score so dated passes as younger
  than a liquidation that preceded its date, as under *Skew*.
- *Silent gap* (`HistoryClient`, `Evaluation`): the fallback counts mints of variable debt tokens, so a
  stable-rate Aave loan is invisible to it, which `history.ts:17-18` says and its answer does not:
  `unverified` has Compound only (`history.ts:254`). With HyperSync out, a chain with no other loan and
  no Compound reads clean and is left out of the minimum as if verified, although "never silently
  counts something unverified as verified" is the rule (`OBJECTIONS.md:960-961`). `Overlooked` is exactly
  that case: `WorstChainRules` says that no other chain with a loan is excluded, `OutcomesKeptApart` and
  `OutageNeverHelps` except it.
- *Degraded answers* (`Evaluation`): on a chain no source could clear, an answer of ChainScore that is
  degraded and sees no borrowing drops the chain (`service.ts:273-275`) instead of failing it.
  `OutageNeverHelps` therefore asks that ChainScore see the borrowing there is.
- *Pace* (`HistoryClient`): the pace is read before a sleep and written after it
  (`history.ts:79, 160-162`), so several checks that sleep on the same reading send together; one
  check alone never does (`OneWalletNeverBursts`).
- *Archive height* (`HistoryClient`): the head is `archive_height` of the first response. If its block
  is not itself in the archive the count ends one block earlier; the model takes it to be.

Process:

- *Re-stamp* (`Keeper`): a price read before the re-stamp is sent after it (`keeper.ts:168, 198-205`,
  "Same value; only updatedAt moves"): a price the owner sets in between is undone.
- *Strictness* (`Keeper`): the health report calls a price stale at the age at which the market still
  takes it. The single run of `keeper-once` re-stamps whatever the age.
- *HISTORY_PRIMARY=off* (`Server`): without `ALCHEMY_API_KEY` there is no fallback to switch to and
  HyperSync is asked all the same (`server.ts:34-39`, `config.ts:38`), while `/health` reports it
  disabled.
- *Limits* (`RateLimit`): a request refused for its wallet has already spent the budget of its address
  of origin; the memory store's limit is per process and starts anew with it.

Web (`MarketPage`):

- A transaction whose receipt times out is reported as failed and may still be mined; signed again,
  it is executed twice. `NothingSignedTwice` excepts just that case.
- A flow left behind by a change of tab clears the input that is there when it ends; a late approval
  overwrites a newer one.
- A withdrawal is offered down to the liquidation threshold and refused by the contract above the
  maximum LTV.
- A repayment in part of less than one unit of scaled debt is offered (`market/page.tsx:313-328` compares
  it with the balance and the allowance only) and reverts with `ZeroAmount` (`TenorMarket.sol:550`).
  `OfferedGoesThrough` excepts just that (`TakesNothingOff`).
- The compare page and the projected health factor leave the debt asset's price out
  (`market/page.tsx:32`, `compare/page.tsx:19`): they are right at par.
- Max keeps its promise as long as the wallet's own terms bind it; where a tier's or the market's cap
  binds, other borrowers' interest eats the room. An All input older than its ten minutes becomes a
  repayment in part.
- The liquidation card does not check the balance of the liquidator, and the attestation panel keeps
  its state when another wallet connects.

## Proofs

Nothing is assumed but the named assumptions on the constants, which TLC evaluates in the runs.

`ScoreRegistry_proofs`:

- `TypeCorrect`: `TypeOK` is inductive, one step per action.
- `HistoryIsLinear` (`NoReplayNoRollback`): the invariant is strengthened with the link between the
  history and the storage: the last entry of `accepted` is the stored score, with its data time and
  epoch. Without it nothing ties the comparison the contract makes, with `scores[w].issuedAt`, to
  the sequence the property speaks of.
- `FreshnessIsVouched` (`FreshIsVouched`): from the same link, with entries of the current epoch
  signed by the key in office and expiries at most `MAX_TTL` after the data time.
- `PenaltyIsImmediate` (`LiquidationInvalidatesUpToSkew`): as an action property, with the bound
  that a stored data time is at most the skew after the time of storing.
- `RegistryImplementsView` (`ImplementsView`): every transaction is a `Publish`, a `Withdraw` of the
  wallets whose score it takes away, a `Toggle` or a stutter.

`Market_proofs`, first of the market: the inductive invariant is `TypeOK`, and `Solvent`: the index never falls below
`RAY`, accruals are not in the future, and `Backed`, that reserves never exceed cash and debt
together. The last is needed for type correctness itself: total assets are a difference, and only
`Backed` keeps it from being negative. From it:

- `TypeCorrect`, `SolvencyOfReserves` (`ReservesBacked`),
- `DebtIsSecured` (`NoZombieDebt`): a position without collateral has no debt.

The lemmas on `MulDiv` and `MulDivUp` come first in that module: monotonicity, the bound of one unit
between them, and what a reduction rounded down leaves.

Three invariants need more:

- `TotalsAreTheSums` (`TotalsAreSums`): total debt, each tier's debt and total collateral are the sums
  over positions. A step changes one summand, or moves one from a tier's sum to another's; that
  there are finitely many borrowers is an assumption of the module for this. The sum is a fold, and
  induction over its data is not available, so `Sums_proofs` shows it to be the number of elements of
  a finite set with one element for each unit (`SumUnits`), by a least counterexample, and derives the
  rest of what is known of sums from cardinalities.
- `LossesBooked` (`LossesAreBooked`): the shortfalls reported, wallet by wallet, add up to the bad debt,
  and that to what reserves and lenders bore; one summand changes in a liquidation and no other step.
- `AmountsAreSound` (`AmountsOK`): no subtraction in the accrual or a liquidation goes below zero, so
  that the index, the reserves, every debt and what a liquidation repays, seizes and leaves unpaid are
  naturals. The index relies on it for what it adds up.
- `QuotesKept` (`QuotesAreKept`): from the three invariants above, that a full repayment always reduces
  something and no more than a bucket holds, that what `maxWithdraw` and `maxRedeem` promise is there,
  and that the margin of `maxBorrow` covers the roundings between its answer and `_enforceTerms`.

The action properties are proved of every step from a state of that invariant. A step shrinks the
debt, withdraws collateral, borrows, or leaves the books of the debt alone (`DebtSteps`), and each
theorem has a case for each.

- `OnlyPriceOrTime` (`OnlyPriceOrTimeUnwinds`): within a block the index is settled by the first
  accrual (`IndexSettled`), what passes `_enforceTerms` is below the liquidation threshold
  (`TermsAreHealthy`, the use of `ValidTerms`), and nobody else's transaction adds to a debt. The
  remaining step is a plain transfer, which lowers the rate by monotonicity of the curve, except
  where lenders own nothing; the proof is how that exception was found (see Observations).
- `LossesAreUnderwater` (`LossOnlyUnderwater`): a repayment below the cap never seizes all of the
  collateral (`PartialSeizure`), and a cap below the debt means a debt worth more than the collateral
  pays for (`CapBelowDebt`).
- `SharePriceHolds` (`SharePriceFallsOnlyBySocialization`): the accrual adds at least as much to the
  assets as to the reserves; then an entry or exit rounds against the one who makes it, a loan or
  repayment changes cash and debt by amounts whose difference is no less than zero, and a loss takes
  from the lenders exactly what is socialized.
- `CapsBindGrowth` (`GrowsWithinCaps`), `TermsAreTodays` (`RiskPricedToday`), `PauseHolds`
  (`PauseFreezesRisk`, which no run checks any more).

`Market_proofs`, then of the page, for every table of terms, amount, headroom and approval, and with
any number of transactions signed. `PageSound` is the market's invariant with its sums, prices at par
and the types of the page: what the page sends are the market's transactions, so the market's lemmas
say what each does.

- `PageKeepsTheMarket`: types, reserves and sums hold under `PageSpec` as they do under `Spec`.
- `AmountsExecutedOnce` (`ExecutedOnce`): from `OnceInv`. A flow whose transaction of the present input
  was mined has `spent` recorded (`Recorded`); while no receipt timed out, a spent input is empty or its
  flow is about to empty it (`SpentIsOver`); and a flow left behind carries an earlier input, unless a
  receipt timed out (`LeftBehind`).
- `ReckonedAsTheMarket` (`ReckonsAsTheMarket`): for a loan the margin of `maxBorrow` covers every smaller
  amount too (`MaxBorrowFits`, which is also what `QuotesKept` rests on); for a repayment, that what the
  page asks to be approved is what is moved; for the comparison, that the larger of two roundings is
  reached exactly. The first attempt failed on a repayment in part, see Observations.
- `ApprovalsCarryOn` (`PartCarriesOn`): from `CarryInv`, that an approval of the input as it is, signed,
  mined or seen, is one of that amount or of a whole debt no larger. It leaves `PartCarriesOn` one
  exception, `Outgrown`: an approval that stayed pending until interest made the debt more than the
  approval's room. It takes `1 / APPROVE_DIV` of interest, which the run's times do not allow.
- `HeadroomIsEnough` (`HeadroomLasts`): only the user owes (`OnlyUserOwes`), so what binds is the user's own
  debt. The index of `k` seconds from now is at most that of now, the growth the headroom reckons with
  and a unit (`IndexGrows`); of that the debt gains no more than the page's estimate and a unit
  (`InterestFits`, `DebtLasts`), the loan no more than the margin (`LoanLasts`). The hypothesis `MarginsFit`
  is that the dust is more than the roundings, one for each unit of scaled debt and of the index's
  growth: with the code's scales the one side is `10^39` and the other of the order of the debt in
  its smallest units, and it holds in every state of the run `web`. Without it the theorem is false, as
  the headroom is then smaller than the error of its own division.

`Indexer_proofs`, for any wallets, keys, prices, units and bounds; assumed is only that scores,
amounts, collateral and `MAX_TTL` are numbers (`TenorAssumption`):

- `CompositionImplementsMarket` and `IndexedImplementsMarket` (`ImplementsMarket`): the composition, and
  with it what the indexer follows, refines `TenorMarket`, with the tiers the registry answers and its
  liquidation records in the place of the market's environment. Transactions of the market are its
  own steps; a submission is a `Rescore`; a rotation lapses everybody, as no stored score is of a
  later epoch; time lapses those whose score expires, and what is stale stays so; a liquidation is
  one step of both contracts (`LiquidateAndReport`); authorizing a market or pausing the registry is a
  stutter. The invariant `RInv` is what the registry keeps for this.
- `FreshnessIsVouched`: the registry's `FreshIsVouched` in the composition, from the same invariant.
- `TermsAreVouched` (`BetterTermsAreVouched`): the penalty end to end, for any keys, rotations, liquidations
  and number of loans: better terms rest on a score of the epoch and key in office, from data later than
  the last liquidation, and not expired.
- `BooksAreOne` (`BooksAgree`): registry, market and index keep one set of books, and the join of the
  indexer never throws. The proof has four layers. The fold over the logs of a transaction is
  unfolded for at most four logs, as many as any transaction emits (`AfterOneMore`), so that it handles
  them one by one. Each handler is worked out by itself (`InterestHandled` and its like). A chain of
  lemmas (`AccrualEmitted`, `BadDebtEmitted`, `SettlementEmitted`, `RecordEmitted`) says what the logs of a
  transaction leave of the tables. Last, `BooksInv`, which is `BooksAgree` without the sum over the
  wallets but with types, is kept by every transaction: in `LiquidationKeeps` the row the join looks up
  is there because `BadDebt` is the log just before, and it splits the loss as the market did
  (`LossSplit`); the sums over settlements gain one term (`SettledOneMore`).
- `PageTellsTheTruth` (`LoopIsTrue`): what the activity page says of a wallet is so, however long its
  timeline. The invariant `LoopInv` is that, until the wallet is liquidated, what its rows put in and
  took out is the collateral it holds (`Held`). The page's sum is a fold over the timeline, where no
  induction is available: a least counterexample shows it to be the difference of two sums over the
  rows (`NetIsDifference`), and a row more adds what it moves (`NetOneMore`). What a transaction writes
  to a timeline is worked out log by log (`RetieredWrites`, `LiquidationWrites` and their like) from what
  `BooksAreOne` established, that no handler throws; rows that neither liquidate nor score leave the
  cut where it is (`Passes`); and at the first liquidation the rows before the cut are those there were,
  with that of the loss at most, which moves no collateral (`CutRows`). The new score is later than the
  liquidation because the registry refuses an older one (`ScoreKeeps`).

The last three are implications. Their hypothesis `MarketIsSound` says of the market in the composition
what `TypeCorrect`, `AmountsAreSound`, `LossesBooked` and `TermsAreTodays` prove of `TenorMarket`: of any
behaviour that is one of `M!Spec`. The composition's are (`IndexedImplementsMarket`), and this is proved;
that the four theorems hold of the instance is substitution, done by hand, as the prover cannot cite
a theorem of an instantiated module.

`Attestor_proofs`, for any number of requests, processes, chains and nonces, any resolution of the
clock, any lifetimes and any answers. The invariant is said of values, so that the same operator
speaks of a request before a step and after it.

- `OneUsablePayload` (`OnePayloadBeforeDeadline`): the strengthening is `Spent`, that a payload with a
  signature *is* the reservation of its nonce, or has reached its deadline, or is no younger than the
  last liquidation. A request about to sign holds a payload of which the same is true, since it came
  from the reservation, and a reservation is replaced only after one of the other two.
- `PolicyIsOnChain` (`PolicyReachesTheChain`) and `PolicyReaches` (`ServesWhatHolds`): the strengthening is
  `Reflects`, that a payload or score dated later than the last liquidation carries the caps of that
  liquidation while it is recent; it has to be said of the requests, the reservations, the
  signatures and the chain alike, with the caches' dates bounded by the clock. The hypothesis `NoLead`
  is that ChainScore dates no answer ahead of the service's clock (see *Dates ahead*).
- `PolicyReachesUpToDrift`: the same without that hypothesis. Validation bounds the drift, so only a
  score dated within that bound (`Lead`) of the liquidation can be without the policy.
- `TypeCorrect`.

`Server_proofs`, for every configuration, every number of assets and relayed wallets, all
thresholds in the order `KeeperAssumption` states, and any window, limits and number of requests
under way:

- `RunsAreOnTime` (`RunsOnTime`), `HealthReportIsTrue` (`HealthIsTrue`), `StartsAsPromised`
  (`StartsOnlyAsPromised`). The inductive invariant `SInv` adds to the types what a run knows of
  itself: `Timed`, that the timer reaches exactly as far as what is left of the interval since the
  recorded run, which is what a restart recomputes it from; `Stamped`, that of a run under way every
  asset it has been through is as young as the re-stamp leaves it, plus the time since the run read
  the clock, which needs that the re-stamp is the first step; and `Recorded`, the same of the run on
  record, from which the alarm's bound follows.
- `RateKept` (`LimitIsKept`): with the memory store the hits kept are those that passed (`InMemory`).
  With the database each of the two rows counts at least what passed on its side of the edge between
  two windows (`InDatabase`), so that a window's length of time holds at most two rows' worth; when
  the clock crosses the edge one row becomes the other. The sums over stretches of ages are those of
  `Sums_proofs`.

`HistoryClient_proofs`, for every list of chains, number of wallets, loans, pages, retries and pace:

- `HonestAnswers` (`AnswersAreHonest`): an answer is complete for its source or an error, and one that
  `Evaluation` derives, silent gap included. In the invariant `HInv`, `Counting` says that what is counted
  is exactly what the pages so far hold (`Pages`: a page and what came before it add up) of the kinds of
  loan that are asked for, and that the target is not behind the head at the beginning; `Good` is what
  an answer of either source keeps being while the head grows (`RecordsGrow`).
- `NoWalletBursts` (`OneWalletNeverBursts`): from `Paced`, that the client's last request is no older
  than any check's own, and that a check asleep will have waited out the interval since its own.

`Evaluation_proofs`, for every list of chains, every set of sources out of reach and whatever
ChainScore answers; only `WINDOW > 0` is assumed of the penalty. The invariant `EInv` is no more than
types and that no liquidation on record is later than now; the work is in the operators.

- `WorstChainIsScored` (`ScoredAsTheWorst`): what a source answers and what it means (`Reports`)
  makes a chain with borrowing counted unless nobody could see it (`BorrowedIsCounted`); it reads clean
  in the fallback's gap and nowhere else (`SilentGap`); and the
  scores counted, however many, have a least one (`LeastScore`), which the policy only lowers
  (`PolicyLowers`).
- `LiquidationsLower` (`LiquidationNeverHelps`): the policy with its least of a set worked out
  (`PolicyIs`), compared at two records of which one has a liquidation more (`PenaltyOfOneMore`).
- `OutagesDoNotHelp` (`OutageNeverHelps`): a chain that is clean by the sources left was clean before
  (`CleanBefore`), so what was counted still is (`StillCounted`), the least of more scores is no
  higher, and the policy is monotone (`PolicyIsMonotone`). Where the outage drops a chain into the gap
  the theorem says nothing, and the score may rise.

Out of the prover's reach, and so only ever model-checked: liveness under fairness
(`EveryRequestEnds`, `PricesComeBack`, `ScoresStayFresh`, `EveryCheckEnds`), which are the only properties
of the passing runs without a theorem, and enabledness
(`QuotesAreKept` is stated by the guards themselves for that reason).

## Not modelled

- Of the contracts: transfers and allowances of the shares, `Ownable2Step`, overflow of `uint256`
  (amounts are unbounded naturals; underflow is a guard), tokens that take fees, the fields kept only
  for events, and the EIP-712 hash. Of the test tokens, the faucet and its cooldown.
- Of the service: parsing, URLs, the wording of refusals and logs; the replay of recorded histories
  on a developer's chain; the refusal log, which is only written.
- Of the indexer: fields that are copied and never read again, and the re-organisations HyperIndex
  itself undoes.
- Of the web application: the liquidation card, the faucets, the read-only panels and pages.
- `scripts`, `docs` and deployment data: one-off programs, documents and recorded outputs.

## Plan

1. `MarketPage`: the liquidation card with its approval and its liquidator's balance, the faucets, and
   several connected wallets.
2. `Attestor`: the keeper's relay as one of the clients, so that a relayed score, a user's own request
   and a liquidation meet in one model.
