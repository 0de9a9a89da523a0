------------------------------ MODULE RpcMethods ------------------------------
(***************************************************************************)
(* What each RPC method of SuiClient (src/src/client/client.ts) and of the  *)
(* deprecated JsonRpcProvider (src/src/providers/json-rpc-provider.ts)      *)
(* checks and sends.  A row is the name on the wire, the positional         *)
(* parameters and the check made first.  Both classes write every call out  *)
(* by hand, so the two tables are independent.                              *)
(***************************************************************************)
EXTENDS Integers, Sequences

CONSTANT Undefined  \* JavaScript's undefined, null on the wire

\* The rows of two tables; those of the first where both have one.
f ++ g == [m \in DOMAIN f \cup DOMAIN g |-> IF m \in DOMAIN f THEN f[m] ELSE g[m]]

Rpc(rpc, params, check) == [rpc |-> rpc, params |-> params, check |-> check, unsubscribe |-> Undefined]

\* A call that goes to the websocket client (module WebsocketClient).
Subscription(rpc, unsubscribe, params) ==
    [rpc |-> rpc, params |-> params, check |-> "none", unsubscribe |-> unsubscribe]

\* Rows the two classes write alike; each table lists them for itself.
Get(rpc) == Rpc(rpc, <<>>, "none")

-----------------------------------------------------------------------------
(* SuiClient.                                                               *)

SuiClientCoinCalls == [
    getCoins        |-> Rpc("suix_getCoins", <<"owner", "coinType", "cursor", "limit">>, "owner"),
    getAllCoins     |-> Rpc("suix_getAllCoins", <<"owner", "cursor", "limit">>, "owner"),
    getBalance      |-> Rpc("suix_getBalance", <<"owner", "coinType">>, "owner"),
    getAllBalances  |-> Rpc("suix_getAllBalances", <<"owner">>, "owner"),
    getCoinMetadata |-> Rpc("suix_getCoinMetadata", <<"coinType">>, "none"),
    getTotalSupply  |-> Rpc("suix_getTotalSupply", <<"coinType">>, "none")]

SuiClientMoveCalls == [
    getMoveFunctionArgTypes   |-> Rpc("sui_getMoveFunctionArgTypes", <<"package", "module", "function">>, "none"),
    getNormalizedMoveModulesByPackage |-> Rpc("sui_getNormalizedMoveModulesByPackage", <<"package">>, "none"),
    getNormalizedMoveModule   |-> Rpc("sui_getNormalizedMoveModule", <<"package", "module">>, "none"),
    getNormalizedMoveFunction |-> Rpc("sui_getNormalizedMoveFunction", <<"package", "module", "function">>, "none"),
    getNormalizedMoveStruct   |-> Rpc("sui_getNormalizedMoveStruct", <<"package", "module", "struct">>, "none")]

SuiClientObjectCalls == [
    getOwnedObjects  |-> Rpc("suix_getOwnedObjects", <<"owner", "query", "cursor", "limit">>, "owner"),
    getObject        |-> Rpc("sui_getObject", <<"id", "options">>, "id"),
    tryGetPastObject |-> Rpc("sui_tryGetPastObject", <<"id", "version", "options">>, "none"),
    multiGetObjects  |-> Rpc("sui_multiGetObjects", <<"ids", "options">>, "distinct ids")]

SuiClientTransactionCalls == [
    queryTransactionBlocks    |-> Rpc("suix_queryTransactionBlocks", <<"query", "cursor", "limit", "order">>, "none"),
    getTransactionBlock       |-> Rpc("sui_getTransactionBlock", <<"digest", "options">>, "digest"),
    multiGetTransactionBlocks |-> Rpc("sui_multiGetTransactionBlocks", <<"digests", "options">>, "distinct digests"),
    executeTransactionBlock   |-> Rpc("sui_executeTransactionBlock",
                                      <<"transactionBlock", "signature", "options", "requestType">>, "none")]

SuiClientSystemCalls == [
    getTotalTransactionBlocks |-> Get("sui_getTotalTransactionBlocks"),
    getReferenceGasPrice      |-> Get("suix_getReferenceGasPrice"),
    getStakes                 |-> Rpc("suix_getStakes", <<"owner">>, "owner"),
    getStakesByIds            |-> Rpc("suix_getStakesByIds", <<"stakedSuiIds">>, "stake ids"),
    getLatestSuiSystemState   |-> Get("suix_getLatestSuiSystemState")]

SuiClientEventCalls == [
    queryEvents                |-> Rpc("suix_queryEvents", <<"query", "cursor", "limit", "order">>, "none"),
    subscribeEvent             |-> Subscription("suix_subscribeEvent", "suix_unsubscribeEvent", <<"filter">>),
    subscribeTransaction       |-> Subscription("suix_subscribeTransaction", "suix_unsubscribeTransaction", <<"filter">>),
    devInspectTransactionBlock |-> Rpc("sui_devInspectTransactionBlock",
                                       <<"sender", "transactionKind", "gasPrice", "epoch">>, "format"),
    dryRunTransactionBlock     |-> Rpc("sui_dryRunTransactionBlock", <<"transactionBlock">>, "none"),
    getDynamicFields           |-> Rpc("suix_getDynamicFields", <<"parentId", "cursor", "limit">>, "parentId"),
    getDynamicFieldObject      |-> Rpc("suix_getDynamicFieldObject", <<"parentId", "name">>, "none")]

SuiClientCheckpointCalls == [
    getLatestCheckpointSequenceNumber |-> Get("sui_getLatestCheckpointSequenceNumber"),
    getCheckpoint             |-> Rpc("sui_getCheckpoint", <<"id">>, "none"),
    getCheckpoints            |-> Rpc("sui_getCheckpoints", <<"cursor", "limit", "descendingOrder">>, "none"),
    getCommitteeInfo          |-> Rpc("suix_getCommitteeInfo", <<"epoch">>, "none"),
    getNetworkMetrics         |-> Get("suix_getNetworkMetrics"),
    getAddressMetrics         |-> Get("suix_getLatestAddressMetrics"),
    getAllEpochAddressMetrics |-> Rpc("suix_getAllEpochAddressMetrics", <<"descendingOrder">>, "none"),
    getEpochs                 |-> Rpc("suix_getEpochs", <<"cursor", "limit", "descendingOrder">>, "none"),
    getMoveCallMetrics        |-> Get("suix_getMoveCallMetrics"),
    getCurrentEpoch           |-> Get("suix_getCurrentEpoch"),
    getValidatorsApy          |-> Get("suix_getValidatorsApy"),
    getChainIdentifier        |-> Rpc("sui_getCheckpoint", <<"genesis">>, "none"),
    resolveNameServiceAddress |-> Rpc("suix_resolveNameServiceAddress", <<"name">>, "none"),
    resolveNameServiceNames   |-> Rpc("suix_resolveNameServiceNames", <<"address", "cursor", "limit">>, "none"),
    getProtocolConfig         |-> Rpc("sui_getProtocolConfig", <<"version">>, "none")]

-----------------------------------------------------------------------------
(* JsonRpcProvider.                                                         *)

ProviderCoinCalls == [
    getCoins        |-> Rpc("suix_getCoins", <<"owner", "coinType", "cursor", "limit">>, "owner"),
    getAllCoins     |-> Rpc("suix_getAllCoins", <<"owner", "cursor", "limit">>, "owner"),
    getBalance      |-> Rpc("suix_getBalance", <<"owner", "coinType">>, "owner"),
    getAllBalances  |-> Rpc("suix_getAllBalances", <<"owner">>, "owner"),
    getCoinMetadata |-> Rpc("suix_getCoinMetadata", <<"coinType">>, "none"),
    getTotalSupply  |-> Rpc("suix_getTotalSupply", <<"coinType">>, "none")]

ProviderMoveCalls == [
    getMoveFunctionArgTypes   |-> Rpc("sui_getMoveFunctionArgTypes", <<"package", "module", "function">>, "none"),
    getNormalizedMoveModulesByPackage |-> Rpc("sui_getNormalizedMoveModulesByPackage", <<"package">>, "none"),
    getNormalizedMoveModule   |-> Rpc("sui_getNormalizedMoveModule", <<"package", "module">>, "none"),
    getNormalizedMoveFunction |-> Rpc("sui_getNormalizedMoveFunction", <<"package", "module", "function">>, "none"),
    getNormalizedMoveStruct   |-> Rpc("sui_getNormalizedMoveStruct", <<"package", "module", "struct">>, "none")]

ProviderObjectCalls == [
    getOwnedObjects  |-> Rpc("suix_getOwnedObjects", <<"owner", "query", "cursor", "limit">>, "owner"),
    getObject        |-> Rpc("sui_getObject", <<"id", "options">>, "id"),
    tryGetPastObject |-> Rpc("sui_tryGetPastObject", <<"id", "version", "options">>, "none"),
    multiGetObjects  |-> Rpc("sui_multiGetObjects", <<"ids", "options">>, "distinct ids")]

ProviderTransactionCalls == [
    queryTransactionBlocks    |-> Rpc("suix_queryTransactionBlocks", <<"query", "cursor", "limit", "order">>, "none"),
    getTransactionBlock       |-> Rpc("sui_getTransactionBlock", <<"digest", "options">>, "digest"),
    multiGetTransactionBlocks |-> Rpc("sui_multiGetTransactionBlocks", <<"digests", "options">>, "distinct digests"),
    executeTransactionBlock   |-> Rpc("sui_executeTransactionBlock",
                                      <<"transactionBlock", "signature", "options", "requestType">>, "none")]

ProviderSystemCalls == [
    getTotalTransactionBlocks |-> Get("sui_getTotalTransactionBlocks"),
    getReferenceGasPrice      |-> Get("suix_getReferenceGasPrice"),
    getStakes                 |-> Rpc("suix_getStakes", <<"owner">>, "owner"),
    getStakesByIds            |-> Rpc("suix_getStakesByIds", <<"stakedSuiIds">>, "stake ids"),
    getLatestSuiSystemState   |-> Get("suix_getLatestSuiSystemState")]

ProviderEventCalls == [
    queryEvents                |-> Rpc("suix_queryEvents", <<"query", "cursor", "limit", "order">>, "none"),
    subscribeEvent             |-> Subscription("suix_subscribeEvent", "suix_unsubscribeEvent", <<"filter">>),
    subscribeTransaction       |-> Subscription("suix_subscribeTransaction", "suix_unsubscribeTransaction", <<"filter">>),
    devInspectTransactionBlock |-> Rpc("sui_devInspectTransactionBlock",
                                       <<"sender", "transactionKind", "gasPrice", "epoch">>, "format"),
    dryRunTransactionBlock     |-> Rpc("sui_dryRunTransactionBlock", <<"transactionBlock">>, "none"),
    getDynamicFields           |-> Rpc("suix_getDynamicFields", <<"parentId", "cursor", "limit">>, "parentId"),
    getDynamicFieldObject      |-> Rpc("suix_getDynamicFieldObject", <<"parentId", "name">>, "none")]

ProviderCheckpointCalls == [
    getLatestCheckpointSequenceNumber |-> Get("sui_getLatestCheckpointSequenceNumber"),
    getCheckpoint             |-> Rpc("sui_getCheckpoint", <<"id">>, "none"),
    getCheckpoints            |-> Rpc("sui_getCheckpoints", <<"cursor", "limit", "descendingOrder">>, "none"),
    getCommitteeInfo          |-> Rpc("suix_getCommitteeInfo", <<"epoch">>, "none"),
    getNetworkMetrics         |-> Get("suix_getNetworkMetrics"),
    getAddressMetrics         |-> Get("suix_getLatestAddressMetrics"),
    getAllEpochAddressMetrics |-> Rpc("suix_getAllEpochAddressMetrics", <<"descendingOrder">>, "none"),
    getEpochs                 |-> Rpc("suix_getEpochs", <<"cursor", "limit", "descendingOrder">>, "none")]

\* The names of an address are asked for without the cursor and the limit that
\* the method takes.
ProviderNameCalls == [
    getMoveCallMetrics        |-> Get("suix_getMoveCallMetrics"),
    getCurrentEpoch           |-> Get("suix_getCurrentEpoch"),
    getValidatorsApy          |-> Get("suix_getValidatorsApy"),
    getChainIdentifier        |-> Rpc("sui_getCheckpoint", <<"genesis">>, "none"),
    resolveNameServiceAddress |-> Rpc("suix_resolveNameServiceAddress", <<"name">>, "none"),
    resolveNameServiceNames   |-> Rpc("suix_resolveNameServiceNames", <<"address">>, "none"),
    getProtocolConfig         |-> Rpc("sui_getProtocolConfig", <<"version">>, "none")]

-----------------------------------------------------------------------------
\* Mutant: the coin type is left out of the list.
MutSuiClientMethods ==
    [getCoins |-> Rpc("suix_getCoins", <<"owner", "cursor", "limit">>, "owner")]
        ++ SuiClientCoinCalls ++ SuiClientMoveCalls ++ SuiClientObjectCalls
        ++ SuiClientTransactionCalls ++ SuiClientSystemCalls ++ SuiClientEventCalls
        ++ SuiClientCheckpointCalls

SuiClientMethods ==
    SuiClientCoinCalls ++ SuiClientMoveCalls ++ SuiClientObjectCalls
        ++ SuiClientTransactionCalls ++ SuiClientSystemCalls ++ SuiClientEventCalls
        ++ SuiClientCheckpointCalls

ProviderReads ==
    ProviderCoinCalls ++ ProviderMoveCalls ++ ProviderObjectCalls
        ++ ProviderTransactionCalls ++ ProviderSystemCalls

\* Mutant: the cursor and the limit of the checkpoints are swapped.
MutProviderSwap ==
    [getCheckpoints |-> Rpc("sui_getCheckpoints", <<"limit", "cursor", "descendingOrder">>, "none")]
        ++ ProviderReads ++ ProviderEventCalls ++ ProviderCheckpointCalls ++ ProviderNameCalls

ProviderMethods ==
    ProviderReads ++ ProviderEventCalls ++ ProviderCheckpointCalls ++ ProviderNameCalls

MethodsOf == [SuiClient |-> SuiClientMethods, JsonRpcProvider |-> ProviderMethods]

Clients == DOMAIN MethodsOf
Methods == DOMAIN MethodsOf.SuiClient

(***************************************************************************)
(* The parameters in the order the node's schema declares them              *)
(* (src/src/client/types/params.ts, generated from the node's openrpc.json).*)
(* The query a type intersects in comes where the schema has it: after the  *)
(* owner, or first.                                                         *)
(***************************************************************************)
DeclaredExecution == [
    devInspectTransactionBlock |-> <<"sender", "transactionKind", "gasPrice", "epoch">>,
    dryRunTransactionBlock     |-> <<"transactionBlock">>,
    executeTransactionBlock    |-> <<"transactionBlock", "signature", "options", "requestType">>,
    getCheckpoint              |-> <<"id">>,
    getCheckpoints             |-> <<"cursor", "limit", "descendingOrder">>,
    getLatestCheckpointSequenceNumber |-> <<>>]

DeclaredReads == [
    getMoveFunctionArgTypes   |-> <<"package", "module", "function">>,
    getNormalizedMoveFunction |-> <<"package", "module", "function">>,
    getNormalizedMoveModule   |-> <<"package", "module">>,
    getNormalizedMoveModulesByPackage |-> <<"package">>,
    getNormalizedMoveStruct   |-> <<"package", "module", "struct">>,
    getObject                 |-> <<"id", "options">>,
    getProtocolConfig         |-> <<"version">>,
    getTotalTransactionBlocks |-> <<>>,
    getTransactionBlock       |-> <<"digest", "options">>,
    multiGetObjects           |-> <<"ids", "options">>,
    multiGetTransactionBlocks |-> <<"digests", "options">>,
    tryGetPastObject          |-> <<"id", "version", "options">>]

DeclaredExtended == [
    getAllBalances            |-> <<"owner">>,
    getAllCoins               |-> <<"owner", "cursor", "limit">>,
    getBalance                |-> <<"owner", "coinType">>,
    getCoinMetadata           |-> <<"coinType">>,
    getCoins                  |-> <<"owner", "coinType", "cursor", "limit">>,
    getCommitteeInfo          |-> <<"epoch">>,
    getDynamicFieldObject     |-> <<"parentId", "name">>,
    getDynamicFields          |-> <<"parentId", "cursor", "limit">>,
    getLatestSuiSystemState   |-> <<>>,
    getOwnedObjects           |-> <<"owner", "query", "cursor", "limit">>,
    getReferenceGasPrice      |-> <<>>,
    getStakes                 |-> <<"owner">>,
    getStakesByIds            |-> <<"stakedSuiIds">>,
    getTotalSupply            |-> <<"coinType">>,
    getValidatorsApy          |-> <<>>]

DeclaredQueries == [
    queryEvents               |-> <<"query", "cursor", "limit", "order">>,
    queryTransactionBlocks    |-> <<"query", "cursor", "limit", "order">>,
    resolveNameServiceAddress |-> <<"name">>,
    resolveNameServiceNames   |-> <<"address", "cursor", "limit">>,
    subscribeEvent            |-> <<"filter">>,
    subscribeTransaction      |-> <<"filter">>]

Declared == DeclaredExecution ++ DeclaredReads ++ DeclaredExtended ++ DeclaredQueries

\* The methods of the indexer have no declaration: what the client sends is all
\* there is.
NodeReads(method) ==
    IF method \in DOMAIN Declared THEN Declared[method] ELSE MethodsOf.SuiClient[method].params
=============================================================================
