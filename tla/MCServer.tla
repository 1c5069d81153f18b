----------------------------- MODULE MCServer -----------------------------
(* Constants of the model-checking run of Server. *)
EXTENDS Server, TLC

\* The testnet service as deployed, with one demo wallet or with none, and services
\* on a developer's chain.
Testnet == [chain |-> "testnet", deployment |-> "testnet", signer |-> TRUE, fixture |-> FALSE,
            primaryOff |-> FALSE, alchemy |-> TRUE, database |-> TRUE, keeperKey |-> TRUE,
            oracle |-> TRUE, indexer |-> TRUE, relay |-> FALSE]
LocalRelay == [Testnet EXCEPT !.chain = "local", !.deployment = "local", !.oracle = FALSE, !.indexer = FALSE, !.relay = TRUE]
LocalMemory == [LocalRelay EXCEPT !.database = FALSE, !.keeperKey = FALSE, !.indexer = FALSE]
LocalDatabase == [LocalMemory EXCEPT !.database = TRUE]

MCAssets == <<"tUSD", "tCOLL">>
MCRelayWallets == <<"demo">>

MCKeeperAt == {Testnet, LocalRelay}
MCRequestsAt == {LocalMemory, LocalDatabase}
=============================================================================
