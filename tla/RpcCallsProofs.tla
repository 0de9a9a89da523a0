----------------------------- MODULE RpcCallsProofs -----------------------------
(***************************************************************************)
(* Theorems about RpcCalls: the two tables of calls agree with each other   *)
(* and with what the node declares, row by row; and a walk through pages of *)
(* any size, over a list of any length that changes under it, is in order   *)
(* and misses nothing.                                                      *)
(***************************************************************************)
EXTENDS RpcCalls, RankProofs

-----------------------------------------------------------------------------
(* The tables.                                                              *)

\* A row sends what the node declares, in whichever part of the schema it is.
AsDeclared(m, row) ==
    /\ m \in DOMAIN DeclaredExecution => row.params = DeclaredExecution[m]
    /\ m \in DOMAIN DeclaredReads => row.params = DeclaredReads[m]
    /\ m \in DOMAIN DeclaredExtended => row.params = DeclaredExtended[m]
    /\ m \in DOMAIN DeclaredQueries => row.params = DeclaredQueries[m]

\* Table by table, what SuiClient sends is what the node declares.
LEMMA CoinParams ==
    ASSUME NEW m \in DOMAIN SuiClientCoinCalls
    PROVE  AsDeclared(m, SuiClientCoinCalls[m])
<1>1. m \in DOMAIN DeclaredExecution => SuiClientCoinCalls[m].params = DeclaredExecution[m]
  BY DEF SuiClientCoinCalls, DeclaredExecution, Rpc, Get, Subscription
<1>2. m \in DOMAIN DeclaredReads => SuiClientCoinCalls[m].params = DeclaredReads[m]
  BY DEF SuiClientCoinCalls, DeclaredReads, Rpc, Get, Subscription
<1>3. m \in DOMAIN DeclaredExtended => SuiClientCoinCalls[m].params = DeclaredExtended[m]
  BY DEF SuiClientCoinCalls, DeclaredExtended, Rpc, Get, Subscription
<1>4. m \in DOMAIN DeclaredQueries => SuiClientCoinCalls[m].params = DeclaredQueries[m]
  BY DEF SuiClientCoinCalls, DeclaredQueries, Rpc, Get, Subscription
<1>5. QED
  BY <1>1, <1>2, <1>3, <1>4 DEF AsDeclared

LEMMA MoveParams ==
    ASSUME NEW m \in DOMAIN SuiClientMoveCalls
    PROVE  AsDeclared(m, SuiClientMoveCalls[m])
<1>1. m \in DOMAIN DeclaredExecution => SuiClientMoveCalls[m].params = DeclaredExecution[m]
  BY DEF SuiClientMoveCalls, DeclaredExecution, Rpc, Get, Subscription
<1>2. m \in DOMAIN DeclaredReads => SuiClientMoveCalls[m].params = DeclaredReads[m]
  BY DEF SuiClientMoveCalls, DeclaredReads, Rpc, Get, Subscription
<1>3. m \in DOMAIN DeclaredExtended => SuiClientMoveCalls[m].params = DeclaredExtended[m]
  BY DEF SuiClientMoveCalls, DeclaredExtended, Rpc, Get, Subscription
<1>4. m \in DOMAIN DeclaredQueries => SuiClientMoveCalls[m].params = DeclaredQueries[m]
  BY DEF SuiClientMoveCalls, DeclaredQueries, Rpc, Get, Subscription
<1>5. QED
  BY <1>1, <1>2, <1>3, <1>4 DEF AsDeclared

LEMMA ObjectParams ==
    ASSUME NEW m \in DOMAIN SuiClientObjectCalls
    PROVE  AsDeclared(m, SuiClientObjectCalls[m])
<1>1. m \in DOMAIN DeclaredExecution => SuiClientObjectCalls[m].params = DeclaredExecution[m]
  BY DEF SuiClientObjectCalls, DeclaredExecution, Rpc, Get, Subscription
<1>2. m \in DOMAIN DeclaredReads => SuiClientObjectCalls[m].params = DeclaredReads[m]
  <2>1. m \in DOMAIN DeclaredReads => m \in {"getObject", "tryGetPastObject", "multiGetObjects"}
    BY DEF SuiClientObjectCalls, DeclaredReads
  <2>2. /\ SuiClientObjectCalls["getObject"].params = DeclaredReads["getObject"]
        /\ SuiClientObjectCalls["tryGetPastObject"].params = DeclaredReads["tryGetPastObject"]
        /\ SuiClientObjectCalls["multiGetObjects"].params = DeclaredReads["multiGetObjects"]
    BY DEF SuiClientObjectCalls, DeclaredReads, Rpc, Get, Subscription
  <2>3. QED
    BY <2>1, <2>2
<1>3. m \in DOMAIN DeclaredExtended => SuiClientObjectCalls[m].params = DeclaredExtended[m]
  <2>1. m \in DOMAIN DeclaredExtended => m \in {"getOwnedObjects"}
    BY DEF SuiClientObjectCalls, DeclaredExtended
  <2>2. /\ SuiClientObjectCalls["getOwnedObjects"].params = DeclaredExtended["getOwnedObjects"]
    BY DEF SuiClientObjectCalls, DeclaredExtended, Rpc, Get, Subscription
  <2>3. QED
    BY <2>1, <2>2
<1>4. m \in DOMAIN DeclaredQueries => SuiClientObjectCalls[m].params = DeclaredQueries[m]
  BY DEF SuiClientObjectCalls, DeclaredQueries, Rpc, Get, Subscription
<1>5. QED
  BY <1>1, <1>2, <1>3, <1>4 DEF AsDeclared

LEMMA TransactionParams ==
    ASSUME NEW m \in DOMAIN SuiClientTransactionCalls
    PROVE  AsDeclared(m, SuiClientTransactionCalls[m])
<1>1. m \in DOMAIN DeclaredExecution => SuiClientTransactionCalls[m].params = DeclaredExecution[m]
  <2>1. m \in DOMAIN DeclaredExecution => m \in {"executeTransactionBlock"}
    BY DEF SuiClientTransactionCalls, DeclaredExecution
  <2>2. /\ SuiClientTransactionCalls["executeTransactionBlock"].params = DeclaredExecution["executeTransactionBlock"]
    BY DEF SuiClientTransactionCalls, DeclaredExecution, Rpc, Get, Subscription
  <2>3. QED
    BY <2>1, <2>2
<1>2. m \in DOMAIN DeclaredReads => SuiClientTransactionCalls[m].params = DeclaredReads[m]
  <2>1. m \in DOMAIN DeclaredReads => m \in {"getTransactionBlock", "multiGetTransactionBlocks"}
    BY DEF SuiClientTransactionCalls, DeclaredReads
  <2>2. /\ SuiClientTransactionCalls["getTransactionBlock"].params = DeclaredReads["getTransactionBlock"]
        /\ SuiClientTransactionCalls["multiGetTransactionBlocks"].params = DeclaredReads["multiGetTransactionBlocks"]
    BY DEF SuiClientTransactionCalls, DeclaredReads, Rpc, Get, Subscription
  <2>3. QED
    BY <2>1, <2>2
<1>3. m \in DOMAIN DeclaredExtended => SuiClientTransactionCalls[m].params = DeclaredExtended[m]
  BY DEF SuiClientTransactionCalls, DeclaredExtended, Rpc, Get, Subscription
<1>4. m \in DOMAIN DeclaredQueries => SuiClientTransactionCalls[m].params = DeclaredQueries[m]
  <2>1. m \in DOMAIN DeclaredQueries => m \in {"queryTransactionBlocks"}
    BY DEF SuiClientTransactionCalls, DeclaredQueries
  <2>2. /\ SuiClientTransactionCalls["queryTransactionBlocks"].params = DeclaredQueries["queryTransactionBlocks"]
    BY DEF SuiClientTransactionCalls, DeclaredQueries, Rpc, Get, Subscription
  <2>3. QED
    BY <2>1, <2>2
<1>5. QED
  BY <1>1, <1>2, <1>3, <1>4 DEF AsDeclared

LEMMA SystemParams ==
    ASSUME NEW m \in DOMAIN SuiClientSystemCalls
    PROVE  AsDeclared(m, SuiClientSystemCalls[m])
<1>1. m \in DOMAIN DeclaredExecution => SuiClientSystemCalls[m].params = DeclaredExecution[m]
  BY DEF SuiClientSystemCalls, DeclaredExecution, Rpc, Get, Subscription
<1>2. m \in DOMAIN DeclaredReads => SuiClientSystemCalls[m].params = DeclaredReads[m]
  <2>1. m \in DOMAIN DeclaredReads => m \in {"getTotalTransactionBlocks"}
    BY DEF SuiClientSystemCalls, DeclaredReads
  <2>2. /\ SuiClientSystemCalls["getTotalTransactionBlocks"].params = DeclaredReads["getTotalTransactionBlocks"]
    BY DEF SuiClientSystemCalls, DeclaredReads, Rpc, Get, Subscription
  <2>3. QED
    BY <2>1, <2>2
<1>3. m \in DOMAIN DeclaredExtended => SuiClientSystemCalls[m].params = DeclaredExtended[m]
  <2>1. m \in DOMAIN DeclaredExtended => m \in {"getReferenceGasPrice", "getStakes", "getStakesByIds", "getLatestSuiSystemState"}
    BY DEF SuiClientSystemCalls, DeclaredExtended
  <2>2. /\ SuiClientSystemCalls["getReferenceGasPrice"].params = DeclaredExtended["getReferenceGasPrice"]
        /\ SuiClientSystemCalls["getStakes"].params = DeclaredExtended["getStakes"]
        /\ SuiClientSystemCalls["getStakesByIds"].params = DeclaredExtended["getStakesByIds"]
        /\ SuiClientSystemCalls["getLatestSuiSystemState"].params = DeclaredExtended["getLatestSuiSystemState"]
    BY DEF SuiClientSystemCalls, DeclaredExtended, Rpc, Get, Subscription
  <2>3. QED
    BY <2>1, <2>2
<1>4. m \in DOMAIN DeclaredQueries => SuiClientSystemCalls[m].params = DeclaredQueries[m]
  BY DEF SuiClientSystemCalls, DeclaredQueries, Rpc, Get, Subscription
<1>5. QED
  BY <1>1, <1>2, <1>3, <1>4 DEF AsDeclared

LEMMA EventParams ==
    ASSUME NEW m \in DOMAIN SuiClientEventCalls
    PROVE  AsDeclared(m, SuiClientEventCalls[m])
<1>1. m \in DOMAIN DeclaredExecution => SuiClientEventCalls[m].params = DeclaredExecution[m]
  BY DEF SuiClientEventCalls, DeclaredExecution, Rpc, Get, Subscription
<1>2. m \in DOMAIN DeclaredReads => SuiClientEventCalls[m].params = DeclaredReads[m]
  BY DEF SuiClientEventCalls, DeclaredReads, Rpc, Get, Subscription
<1>3. m \in DOMAIN DeclaredExtended => SuiClientEventCalls[m].params = DeclaredExtended[m]
  <2>1. m \in DOMAIN DeclaredExtended => m \in {"getDynamicFields", "getDynamicFieldObject"}
    BY DEF SuiClientEventCalls, DeclaredExtended
  <2>2. /\ SuiClientEventCalls["getDynamicFields"].params = DeclaredExtended["getDynamicFields"]
        /\ SuiClientEventCalls["getDynamicFieldObject"].params = DeclaredExtended["getDynamicFieldObject"]
    BY DEF SuiClientEventCalls, DeclaredExtended, Rpc, Get, Subscription
  <2>3. QED
    BY <2>1, <2>2
<1>4. m \in DOMAIN DeclaredQueries => SuiClientEventCalls[m].params = DeclaredQueries[m]
  BY DEF SuiClientEventCalls, DeclaredQueries, Rpc, Get, Subscription
<1>5. QED
  BY <1>1, <1>2, <1>3, <1>4 DEF AsDeclared

LEMMA CheckpointParams ==
    ASSUME NEW m \in DOMAIN SuiClientCheckpointCalls
    PROVE  AsDeclared(m, SuiClientCheckpointCalls[m])
<1>1. m \in DOMAIN DeclaredExecution => SuiClientCheckpointCalls[m].params = DeclaredExecution[m]
  BY DEF SuiClientCheckpointCalls, DeclaredExecution, Rpc, Get, Subscription
<1>2. m \in DOMAIN DeclaredReads => SuiClientCheckpointCalls[m].params = DeclaredReads[m]
  BY DEF SuiClientCheckpointCalls, DeclaredReads, Rpc, Get, Subscription
<1>3. m \in DOMAIN DeclaredExtended => SuiClientCheckpointCalls[m].params = DeclaredExtended[m]
  BY DEF SuiClientCheckpointCalls, DeclaredExtended, Rpc, Get, Subscription
<1>4. m \in DOMAIN DeclaredQueries => SuiClientCheckpointCalls[m].params = DeclaredQueries[m]
  BY DEF SuiClientCheckpointCalls, DeclaredQueries, Rpc, Get, Subscription
<1>5. QED
  BY <1>1, <1>2, <1>3, <1>4 DEF AsDeclared

\* A row of two tables put together is a row of one of them.
LEMMA RowOfEither ==
    ASSUME NEW f, NEW g, NEW m \in DOMAIN (f ++ g)
    PROVE  \/ m \in DOMAIN f /\ (f ++ g)[m] = f[m]
           \/ m \in DOMAIN g \ DOMAIN f /\ (f ++ g)[m] = g[m]
  BY DEF ++

\* So every row of SuiClient is as declared.
LEMMA SuiClientParams ==
    ASSUME NEW m \in DOMAIN SuiClientMethods
    PROVE  AsDeclared(m, SuiClientMethods[m])
<1> DEFINE t2 == SuiClientCoinCalls ++ SuiClientMoveCalls
           t3 == t2 ++ SuiClientObjectCalls
           t4 == t3 ++ SuiClientTransactionCalls
           t5 == t4 ++ SuiClientSystemCalls
           t6 == t5 ++ SuiClientEventCalls
<1>1. ASSUME NEW k \in DOMAIN t2
      PROVE  AsDeclared(k, t2[k])
  BY RowOfEither, CoinParams, MoveParams
<1> HIDE DEF t2
<1>2. ASSUME NEW k \in DOMAIN t3
      PROVE  AsDeclared(k, t3[k])
  BY <1>1, RowOfEither, ObjectParams
<1> HIDE DEF t3
<1>3. ASSUME NEW k \in DOMAIN t4
      PROVE  AsDeclared(k, t4[k])
  BY <1>2, RowOfEither, TransactionParams
<1> HIDE DEF t4
<1>4. ASSUME NEW k \in DOMAIN t5
      PROVE  AsDeclared(k, t5[k])
  BY <1>3, RowOfEither, SystemParams
<1> HIDE DEF t5
<1>5. ASSUME NEW k \in DOMAIN t6
      PROVE  AsDeclared(k, t6[k])
  BY <1>4, RowOfEither, EventParams
<1>6. SuiClientMethods = t6 ++ SuiClientCheckpointCalls
  BY DEF SuiClientMethods, t6, t5, t4, t3, t2
<1> HIDE DEF t6
<1>7. QED
  BY <1>5, <1>6, RowOfEither, CheckpointParams

\* The node reads what SuiClient sends.
LEMMA NodeReadsParams ==
    ASSUME NEW m \in Methods
    PROVE  NodeReads(m) = SuiClientMethods[m].params
<1>1. m \in DOMAIN SuiClientMethods /\ MethodsOf.SuiClient = SuiClientMethods
  BY DEF Methods, MethodsOf
<1>2. ASSUME m \in DOMAIN Declared
      PROVE  Declared[m] = SuiClientMethods[m].params
  <2> DEFINE d2 == DeclaredExecution ++ DeclaredReads
             d3 == d2 ++ DeclaredExtended
  <2>1. AsDeclared(m, SuiClientMethods[m])
    BY <1>1, SuiClientParams
  <2>2. m \in DOMAIN d2 => d2[m] = SuiClientMethods[m].params
    BY <2>1, RowOfEither DEF AsDeclared
  <2> HIDE DEF d2
  <2>3. m \in DOMAIN d3 => d3[m] = SuiClientMethods[m].params
    BY <2>1, <2>2, RowOfEither DEF AsDeclared
  <2>4. Declared = d3 ++ DeclaredQueries
    BY DEF Declared, d3, d2
  <2> HIDE DEF d3
  <2>5. QED
    BY <1>2, <2>1, <2>3, <2>4, RowOfEither DEF AsDeclared
<1>3. QED
  BY <1>1, <1>2 DEF NodeReads

\* The rows JsonRpcProvider has in common with SuiClient.
LEMMA SameGroups ==
    /\ SuiClientCoinCalls = ProviderCoinCalls
    /\ SuiClientMoveCalls = ProviderMoveCalls
    /\ SuiClientObjectCalls = ProviderObjectCalls
    /\ SuiClientTransactionCalls = ProviderTransactionCalls
    /\ SuiClientSystemCalls = ProviderSystemCalls
    /\ SuiClientEventCalls = ProviderEventCalls
<1>1. SuiClientCoinCalls = ProviderCoinCalls
  BY DEF SuiClientCoinCalls, ProviderCoinCalls
<1>2. SuiClientMoveCalls = ProviderMoveCalls
  BY DEF SuiClientMoveCalls, ProviderMoveCalls
<1>3. SuiClientObjectCalls = ProviderObjectCalls
  BY DEF SuiClientObjectCalls, ProviderObjectCalls
<1>4. SuiClientTransactionCalls = ProviderTransactionCalls
  BY DEF SuiClientTransactionCalls, ProviderTransactionCalls
<1>5. SuiClientSystemCalls = ProviderSystemCalls
  BY DEF SuiClientSystemCalls, ProviderSystemCalls
<1>6. SuiClientEventCalls = ProviderEventCalls
  BY DEF SuiClientEventCalls, ProviderEventCalls
<1>7. QED
  BY <1>1, <1>2, <1>3, <1>4, <1>5, <1>6

\* Of the rest, all but the one that leaves its paging out.
LEMMA SameCheckpointCalls ==
    LET rest == ProviderCheckpointCalls ++ ProviderNameCalls
    IN  /\ DOMAIN rest = DOMAIN SuiClientCheckpointCalls
        /\ \A m \in DOMAIN rest \ {"resolveNameServiceNames"} :
              rest[m] = SuiClientCheckpointCalls[m]
  BY DEF ++, SuiClientCheckpointCalls, ProviderCheckpointCalls, ProviderNameCalls

\* The deprecated provider has the rows of SuiClient but for that one.
LEMMA SameRows ==
    /\ DOMAIN ProviderMethods = Methods
    /\ \A m \in Methods \ {"resolveNameServiceNames"} : ProviderMethods[m] = SuiClientMethods[m]
<1> DEFINE calls == SuiClientCoinCalls ++ SuiClientMoveCalls ++ SuiClientObjectCalls
                        ++ SuiClientTransactionCalls ++ SuiClientSystemCalls ++ SuiClientEventCalls
           early == calls ++ ProviderCheckpointCalls
           rest == ProviderCheckpointCalls ++ ProviderNameCalls
<1>1. /\ SuiClientMethods = calls ++ SuiClientCheckpointCalls
      /\ ProviderMethods = early ++ ProviderNameCalls
  BY SameGroups DEF SuiClientMethods, ProviderMethods, ProviderReads
<1>2. /\ DOMAIN rest = DOMAIN SuiClientCheckpointCalls
      /\ \A m \in DOMAIN rest \ {"resolveNameServiceNames"} :
            rest[m] = SuiClientCheckpointCalls[m]
  BY SameCheckpointCalls
<1>3. Methods = DOMAIN SuiClientMethods
  BY DEF Methods, MethodsOf
<1> HIDE DEF calls
<1>4. /\ DOMAIN early = DOMAIN calls \cup DOMAIN ProviderCheckpointCalls
      /\ \A m \in DOMAIN calls : early[m] = calls[m]
      /\ \A m \in DOMAIN ProviderCheckpointCalls \ DOMAIN calls :
            early[m] = ProviderCheckpointCalls[m]
  BY DEF ++
<1>5. /\ DOMAIN rest = DOMAIN ProviderCheckpointCalls \cup DOMAIN ProviderNameCalls
      /\ \A m \in DOMAIN ProviderCheckpointCalls : rest[m] = ProviderCheckpointCalls[m]
      /\ \A m \in DOMAIN ProviderNameCalls \ DOMAIN ProviderCheckpointCalls :
            rest[m] = ProviderNameCalls[m]
  BY DEF ++
<1>6. /\ DOMAIN SuiClientMethods = DOMAIN calls \cup DOMAIN SuiClientCheckpointCalls
      /\ \A m \in DOMAIN calls : SuiClientMethods[m] = calls[m]
      /\ \A m \in DOMAIN SuiClientCheckpointCalls \ DOMAIN calls :
            SuiClientMethods[m] = SuiClientCheckpointCalls[m]
  BY <1>1 DEF ++
<1> HIDE DEF early, rest
<1>7. /\ DOMAIN ProviderMethods = DOMAIN early \cup DOMAIN ProviderNameCalls
      /\ \A m \in DOMAIN early : ProviderMethods[m] = early[m]
      /\ \A m \in DOMAIN ProviderNameCalls \ DOMAIN early : ProviderMethods[m] = ProviderNameCalls[m]
  BY <1>1 DEF ++
<1>8. DOMAIN ProviderMethods = Methods
  BY <1>2, <1>3, <1>4, <1>5, <1>6, <1>7
<1>9. ASSUME NEW m \in Methods \ {"resolveNameServiceNames"}
      PROVE  ProviderMethods[m] = SuiClientMethods[m]
  <2>1. CASE m \in DOMAIN calls
    BY <2>1, <1>4, <1>6, <1>7
  <2>2. CASE m \notin DOMAIN calls
    <3>1. m \in DOMAIN SuiClientCheckpointCalls /\ SuiClientMethods[m] = SuiClientCheckpointCalls[m]
      BY <2>2, <1>3, <1>6, <1>9
    <3>2. rest[m] = SuiClientCheckpointCalls[m] /\ m \in DOMAIN rest
      BY <3>1, <1>2, <1>9
    <3>3. CASE m \in DOMAIN ProviderCheckpointCalls
      BY <2>2, <3>1, <3>2, <3>3, <1>4, <1>5, <1>7
    <3>4. CASE m \notin DOMAIN ProviderCheckpointCalls
      BY <2>2, <3>1, <3>2, <3>4, <1>4, <1>5, <1>7
    <3>5. QED
      BY <3>3, <3>4
  <2>3. QED
    BY <2>1, <2>2
<1>10. QED
  BY <1>8, <1>9

\* What the exception sends, and what the node would read.
LEMMA DroppedRow ==
    /\ NodeReads("resolveNameServiceNames") = <<"address", "cursor", "limit">>
    /\ "resolveNameServiceNames" \in Methods
    /\ ProviderMethods["resolveNameServiceNames"].params = <<"address">>
<1> DEFINE m == "resolveNameServiceNames"
           early == ProviderReads ++ ProviderEventCalls ++ ProviderCheckpointCalls
<1>1. /\ m \in DOMAIN SuiClientCheckpointCalls
      /\ SuiClientCheckpointCalls[m].params = <<"address", "cursor", "limit">>
      /\ m \in DOMAIN ProviderNameCalls
      /\ ProviderNameCalls[m].params = <<"address">>
  BY DEF SuiClientCheckpointCalls, ProviderNameCalls, Rpc
<1>2. /\ m \notin DOMAIN SuiClientCoinCalls
      /\ m \notin DOMAIN SuiClientMoveCalls
      /\ m \notin DOMAIN SuiClientObjectCalls
  BY DEF SuiClientCoinCalls, SuiClientMoveCalls, SuiClientObjectCalls
<1>3. /\ m \notin DOMAIN SuiClientTransactionCalls
      /\ m \notin DOMAIN SuiClientSystemCalls
      /\ m \notin DOMAIN SuiClientEventCalls
      /\ m \notin DOMAIN ProviderCheckpointCalls
  BY DEF SuiClientTransactionCalls, SuiClientSystemCalls, SuiClientEventCalls,
         ProviderCheckpointCalls
<1> HIDE DEF m
<1>4. m \notin DOMAIN early
  <2>1. DOMAIN ProviderReads = DOMAIN SuiClientCoinCalls \cup DOMAIN SuiClientMoveCalls
            \cup DOMAIN SuiClientObjectCalls \cup DOMAIN SuiClientTransactionCalls
            \cup DOMAIN SuiClientSystemCalls
    BY SameGroups DEF ProviderReads, ++
  <2>2. DOMAIN early = DOMAIN ProviderReads \cup DOMAIN SuiClientEventCalls
            \cup DOMAIN ProviderCheckpointCalls
    BY SameGroups DEF ++
  <2>3. QED
    BY <1>2, <1>3, <2>1, <2>2
<1>5. ProviderMethods = early ++ ProviderNameCalls
  BY DEF ProviderMethods
<1> HIDE DEF early
<1>6. /\ m \in DOMAIN ProviderMethods
      /\ ProviderMethods[m] = ProviderNameCalls[m]
  BY <1>1, <1>4, <1>5 DEF ++
<1>7. m \in Methods /\ SuiClientMethods[m] = SuiClientCheckpointCalls[m]
  <2> DEFINE calls == SuiClientCoinCalls ++ SuiClientMoveCalls ++ SuiClientObjectCalls
                          ++ SuiClientTransactionCalls ++ SuiClientSystemCalls ++ SuiClientEventCalls
  <2>1. DOMAIN calls = DOMAIN SuiClientCoinCalls \cup DOMAIN SuiClientMoveCalls
            \cup DOMAIN SuiClientObjectCalls \cup DOMAIN SuiClientTransactionCalls
            \cup DOMAIN SuiClientSystemCalls \cup DOMAIN SuiClientEventCalls
    BY DEF ++
  <2>2. SuiClientMethods = calls ++ SuiClientCheckpointCalls
    BY DEF SuiClientMethods
  <2>3. m \notin DOMAIN calls
    BY <1>2, <1>3, <2>1
  <2> HIDE DEF calls
  <2>4. QED
    BY <1>1, <2>2, <2>3 DEF ++, Methods, MethodsOf
<1>8. QED
  BY <1>1, <1>6, <1>7, NodeReadsParams DEF m

\* Every call but that one sends its parameters as the node reads them.
LEMMA ParamsAsRead ==
    ASSUME NEW c \in Clients, NEW m \in Methods,
           ~ (c = "JsonRpcProvider" /\ m = "resolveNameServiceNames")
    PROVE  MethodsOf[c][m].params = NodeReads(m)
<1>1. /\ c \in {"SuiClient", "JsonRpcProvider"}
      /\ MethodsOf["SuiClient"] = SuiClientMethods
      /\ MethodsOf["JsonRpcProvider"] = ProviderMethods
  BY DEF Clients, MethodsOf
<1>2. NodeReads(m) = SuiClientMethods[m].params
  BY NodeReadsParams
<1>3. CASE c = "SuiClient"
  BY <1>1, <1>2, <1>3
<1>4. CASE c = "JsonRpcProvider"
  BY <1>1, <1>2, <1>4, SameRows
<1>5. QED
  BY <1>1, <1>3, <1>4

-----------------------------------------------------------------------------
(* Inputs, and what the node reads of a call.                               *)

\* An input holds a value per field; a walk puts its own cursor into it.
InputOk(m, in) ==
    /\ in = [field \in FieldsOf(m) |-> in[field]]
    /\ \A field \in FieldsOf(m) \ {"cursor"} : in[field] \in ValuesOf(m, field)

LEMMA InputsOk ==
    ASSUME NEW m \in Methods, NEW in \in InputsOf[m]
    PROVE  /\ InputOk(m, in)
           /\ "cursor" \in FieldsOf(m) => in["cursor"] = Undefined
<1> DEFINE fields == FieldsOf(m)
           choices == UNION {{field} \X ValuesOf(m, field) : field \in fields}
<1>1. PICK p \in [fields -> choices] :
          /\ \A field \in fields : p[field][1] = field
          /\ in = [field \in fields |-> p[field][2]]
  BY DEF InputsOf
<1>2. ASSUME NEW field \in fields
      PROVE  in[field] \in ValuesOf(m, field)
  <2>1. PICK f \in fields : p[field] \in {f} \X ValuesOf(m, f)
    BY <1>1, <1>2
  <2>2. f = field
    BY <1>1, <2>1
  <2>3. QED
    BY <1>1, <2>1, <2>2
<1>3. ValuesOf(m, "cursor") = {Undefined}
  BY DEF ValuesOf
<1> HIDE DEF fields, choices
<1>4. in = [field \in fields |-> in[field]]
  BY <1>1
<1>5. QED
  BY <1>2, <1>3, <1>4 DEF InputOk, fields

\* What a call sends under a name: what the caller gives, and the default order
\* for a query that is given none.
Sent(name, in) == IF name = "order" THEN in.order # "ascending" ELSE Meaning(name, in)

\* Each parameter holds what its name means.
LEMMA ArgIsMeant ==
    ASSUME NEW m \in Methods, NEW in, InputOk(m, in), NEW name \in Range(NodeReads(m))
    PROVE  Arg(name, in) = Sent(name, in)
<1>1. CASE name = "order"
  <2>1. "order" \in FieldsOf(m)
    BY <1>1 DEF FieldsOf
  <2>2. ValuesOf(m, "order") = {Undefined, "ascending", "descending"}
    BY DEF ValuesOf
  <2>3. in["order"] \in {Undefined, "ascending", "descending"}
    BY <2>1, <2>2 DEF InputOk
  <2>4. Arg(name, in) = (in["order"] \in {Undefined, "descending"})
    BY <1>1 DEF Arg, Descending
  <2>5. Sent(name, in) = (in["order"] # "ascending")
    BY <1>1 DEF Sent, Meaning
  <2>6. Undefined # "ascending"
    BY UndefinedAssumption
  <2>7. (in["order"] \in {Undefined, "descending"}) <=> (in["order"] # "ascending")
    BY <2>3, <2>6
  <2>8. QED
    BY <2>4, <2>5, <2>7
<1>2. CASE name \in {"transactionBlock", "transactionKind"}
  <2>1. "transactionBlock" \in FieldsOf(m)
    BY <1>2 DEF FieldsOf
  <2>2. PICK forms : ValuesOf(m, "transactionBlock") = Transaction(forms)
    BY DEF ValuesOf
  <2>3. in["transactionBlock"] \in Transaction(forms)
    BY <2>1, <2>2 DEF InputOk
  <2>4. in["transactionBlock"].of = "tx"
    BY <2>3 DEF Transaction
  <2>5. QED
    BY <1>2, <2>4 DEF Arg, Sent, Meaning, Base64
<1>3. CASE name \notin {"order", "transactionBlock", "transactionKind"}
  BY <1>3 DEF Arg, Sent, Meaning, SignatureList
<1>4. QED
  BY <1>1, <1>2, <1>3

\* So the node reads every name as it is meant.
LEMMA ReadAsMeant ==
    ASSUME NEW c \in Clients, NEW m \in Methods, NEW in, InputOk(m, in),
           ~ (c = "JsonRpcProvider" /\ m = "resolveNameServiceNames")
    PROVE  ReadByName(m, Request(MethodsOf[c][m], in))
               = [name \in Range(NodeReads(m)) |-> Sent(name, in)]
<1> DEFINE names == NodeReads(m)
           request == Request(MethodsOf[c][m], in)
<1>1. request.params = [i \in DOMAIN names |-> Arg(names[i], in)]
  BY ParamsAsRead DEF Request
<1> DEFINE read(name) ==
              LET i == CHOOSE j \in DOMAIN names : names[j] = name
              IN  IF i \in DOMAIN request.params THEN request.params[i] ELSE Undefined
<1>2. ASSUME NEW name \in Range(names)
      PROVE  read(name) = Sent(name, in)
  <2> DEFINE i == CHOOSE j \in DOMAIN names : names[j] = name
  <2>1. \E j \in DOMAIN names : names[j] = name
    BY <1>2 DEF Range
  <2>2. i \in DOMAIN names /\ names[i] = name
    BY <2>1
  <2>3. Arg(name, in) = Sent(name, in)
    BY <1>2, ArgIsMeant
  <2> HIDE DEF i, request, names
  <2>4. i \in DOMAIN request.params /\ request.params[i] = Arg(name, in)
    BY <1>1, <2>2
  <2>5. QED
    BY <2>3, <2>4 DEF i
<1>3. ReadByName(m, request) = [name \in Range(names) |-> read(name)]
  BY DEF ReadByName
<1> HIDE DEF read
<1>4. QED
  BY <1>2, <1>3

-----------------------------------------------------------------------------
(* Pages.                                                                   *)

\* The direction of a walk.
Ascends(in) ==
    /\ "order" \in DOMAIN in => in.order = "ascending"
    /\ "descendingOrder" \in DOMAIN in => ~in.descendingOrder

Before(ascends, i, j) == IF ascends THEN i < j ELSE i > j

InOrder(ascends, s) == \A i, j \in DOMAIN s : i < j => Before(ascends, s[i], s[j])

\* What a page asked for with any limit is: the items after the cursor in
\* order, none left out but those that come after it.
LEMMA PageLists ==
    ASSUME items \subseteq 1 .. MaxItem,
           NEW read,
           "limit" \in DOMAIN read => read.limit \in {Undefined} \cup Limits
    PROVE  LET p == PageFor(read)
               ascends == ~Descends(read)
           IN  /\ p.data \in Seq(After(read))
               /\ InOrder(ascends, p.data)
               /\ p.nextCursor = IF p.data = <<>> THEN read.cursor ELSE Last(p.data)
               /\ p.hasNextPage \in BOOLEAN
               /\ ~p.hasNextPage => After(read) \subseteq Range(p.data)
               /\ \A j \in After(read) \ Range(p.data) :
                     p.data # <<>> /\ Before(ascends, Last(p.data), j)
<1> DEFINE S == After(read)
           descends == Descends(read)
           all == Cardinality(S)
           limit == IF "limit" \in DOMAIN read /\ read.limit # Undefined
                    THEN read.limit ELSE PageLimit
           n == IF all < limit THEN all ELSE limit
           place(k) == IF descends THEN all + 1 - k ELSE k
           data == [k \in 1 .. n |-> Nth(S, place(k))]
           p == PageFor(read)
<1>1. S \subseteq 1 .. MaxItem /\ S \subseteq Nat
  <2>1. S \subseteq items
    BY DEF After
  <2>2. MaxItem \in Nat
    BY RpcAssumption
  <2>3. 1 .. MaxItem \subseteq Nat
    BY <2>2
  <2> HIDE DEF S
  <2>4. QED
    BY <2>1, <2>3
<1>2. IsFiniteSet(S)
  <2>1. IsFiniteSet(1 .. MaxItem)
    BY FS_Interval, RpcAssumption
  <2>2. QED
    BY <1>1, <2>1, FS_Subset
<1>3. limit \in Nat \ {0}
  BY RpcAssumption
<1>4. /\ p.data = data
      /\ p.nextCursor = IF data = <<>> THEN read.cursor ELSE Last(data)
      /\ p.hasNextPage = (n < all)
  BY DEF PageFor
<1> HIDE DEF S, descends, p, limit
<1>5. /\ all \in Nat
      /\ \A i \in 1 .. all : Nth(S, i) \in S /\ Rank(S, Nth(S, i)) = i - 1
      /\ \A j \in S : \E i \in 1 .. all : j = Nth(S, i)
  BY <1>1, <1>2, NthLists
<1>6. \A i, j \in 1 .. all : i < j => Nth(S, i) < Nth(S, j)
  <2>1. \A j, k \in S : j < k <=> Rank(S, j) < Rank(S, k)
    BY <1>1, <1>2, RankGrows
  <2>2. SUFFICES ASSUME NEW i \in 1 .. all, NEW j \in 1 .. all, i < j
                 PROVE  Rank(S, Nth(S, i)) < Rank(S, Nth(S, j))
    BY <1>5, <2>1
  <2>3. QED
    BY <1>5, <2>2
<1> HIDE DEF all
<1>7. n \in Nat /\ n <= all /\ n <= limit /\ (n < all => n = limit)
  BY <1>3, <1>5
<1> HIDE DEF n
<1>8. \A k \in 1 .. n : place(k) \in 1 .. all
  BY <1>5, <1>7
<1>9. /\ DOMAIN data = 1 .. n
      /\ \A k \in 1 .. n : data[k] = Nth(S, place(k))
      /\ data \in Seq(S)
      /\ Len(data) = n
  <2>1. data \in [1 .. n -> S]
    BY <1>5, <1>8
  <2>2. QED
    BY <1>7, <2>1
<1>10. ASSUME NEW i \in 1 .. n, NEW j \in 1 .. n, i < j
       PROVE  Before(~descends, data[i], data[j])
  <2>1. place(i) \in 1 .. all /\ place(j) \in 1 .. all
    BY <1>8
  <2>2. CASE descends
    <3>1. place(j) < place(i)
      BY <1>5, <1>7, <1>10, <2>2
    <3>2. QED
      BY <1>5, <1>6, <1>9, <2>1, <2>2, <3>1, <1>1 DEF Before
  <2>3. CASE ~descends
    BY <1>6, <1>9, <1>10, <2>1, <2>3 DEF Before
  <2>4. QED
    BY <2>2, <2>3
<1>11. ASSUME NEW j \in S \ Range(data)
       PROVE  n < all /\ data # <<>> /\ Before(~descends, Last(data), j)
  <2>1. PICK a \in 1 .. all : j = Nth(S, a)
    BY <1>5
  <2> DEFINE k == IF descends THEN all + 1 - a ELSE a
  <2>2. k \in 1 .. all /\ place(k) = a
    BY <1>5
  <2>3. k \notin 1 .. n
    BY <1>9, <1>11, <2>1, <2>2 DEF Range
  <2>4. n < k /\ n < all /\ n >= 1
    BY <1>3, <1>5, <1>7, <2>2, <2>3
  <2>5. data # <<>> /\ Last(data) = Nth(S, place(n))
    BY <1>7, <1>9, <2>4 DEF Last
  <2>6. place(n) \in 1 .. all
    BY <1>7, <1>8, <2>4
  <2>7. CASE descends
    <3>1. a < place(n)
      BY <1>5, <1>7, <2>1, <2>4, <2>7
    <3>2. QED
      BY <1>1, <1>5, <1>6, <2>1, <2>4, <2>5, <2>6, <2>7, <3>1 DEF Before
  <2>8. CASE ~descends
    <3>1. place(n) < a
      BY <1>5, <1>7, <2>1, <2>4, <2>8
    <3>2. QED
      BY <1>6, <2>1, <2>4, <2>5, <2>6, <2>8, <3>1 DEF Before
  <2>9. QED
    BY <2>4, <2>5, <2>7, <2>8
<1>12. InOrder(~descends, data)
  BY <1>9, <1>10 DEF InOrder
<1> HIDE DEF data
<1>13. ~p.hasNextPage => S \subseteq Range(data)
  BY <1>4, <1>11
<1>14. p.hasNextPage \in BOOLEAN
  BY <1>4
<1>15. QED
  BY <1>4, <1>9, <1>11, <1>12, <1>13, <1>14 DEF S, descends, p

LEMMA SeqOfMore ==
    ASSUME NEW S, NEW T, S \subseteq T, NEW s \in Seq(S)
    PROVE  s \in Seq(T) /\ (s # <<>> => Last(s) \in S)
  BY DEF Last

\* A walk that goes on with items that come after all it was given stays in
\* order.
LEMMA WalkGoesOn ==
    ASSUME NEW s \in Seq(Nat), NEW d \in Seq(Nat), NEW ascends \in BOOLEAN,
           InOrder(ascends, s), InOrder(ascends, d),
           s # <<>> => \A j \in DOMAIN d : Before(ascends, Last(s), d[j])
    PROVE  /\ InOrder(ascends, s \o d)
           /\ Range(s \o d) = Range(s) \cup Range(d)
           /\ d # <<>> => s \o d # <<>> /\ Last(s \o d) = Last(d)
           /\ d = <<>> => s \o d = s
<1> DEFINE w == s \o d
<1>1. /\ Len(s) \in Nat /\ Len(d) \in Nat /\ Len(w) = Len(s) + Len(d)
      /\ DOMAIN s = 1 .. Len(s) /\ DOMAIN d = 1 .. Len(d) /\ DOMAIN w = 1 .. Len(w)
      /\ \A i \in DOMAIN w : w[i] = IF i <= Len(s) THEN s[i] ELSE d[i - Len(s)]
  OBVIOUS
<1>2. \A i \in DOMAIN s : s[i] \in Nat
  OBVIOUS
<1>3. \A i \in DOMAIN d : d[i] \in Nat
  OBVIOUS
<1> HIDE DEF w
<1>4. ASSUME NEW i \in DOMAIN s, NEW j \in DOMAIN d
      PROVE  Before(ascends, s[i], d[j])
  <2>1. s # <<>> /\ Last(s) = s[Len(s)] /\ Len(s) \in DOMAIN s
    BY <1>1, <1>4 DEF Last
  <2>2. Before(ascends, s[Len(s)], d[j])
    BY <2>1, <1>4
  <2>3. i = Len(s) \/ Before(ascends, s[i], s[Len(s)])
    BY <2>1, <1>1, <1>4 DEF InOrder
  <2>4. QED
    BY <2>1, <2>2, <2>3, <1>2, <1>3, <1>4 DEF Before
<1>5. ASSUME NEW i \in DOMAIN w, NEW j \in DOMAIN w, i < j
      PROVE  Before(ascends, w[i], w[j])
  <2>1. CASE j <= Len(s)
    <3>1. i \in DOMAIN s /\ j \in DOMAIN s /\ w[i] = s[i] /\ w[j] = s[j]
      BY <1>1, <1>5, <2>1
    <3>2. QED
      BY <3>1, <1>5 DEF InOrder
  <2>2. CASE i <= Len(s) /\ j > Len(s)
    <3>1. i \in DOMAIN s /\ j - Len(s) \in DOMAIN d /\ w[i] = s[i] /\ w[j] = d[j - Len(s)]
      BY <1>1, <1>5, <2>2
    <3>2. QED
      BY <3>1, <1>4
  <2>3. CASE i > Len(s)
    <3>1. /\ i - Len(s) \in DOMAIN d /\ j - Len(s) \in DOMAIN d
          /\ w[i] = d[i - Len(s)] /\ w[j] = d[j - Len(s)] /\ i - Len(s) < j - Len(s)
      BY <1>1, <1>5, <2>3
    <3>2. QED
      BY <3>1 DEF InOrder
  <2>4. QED
    BY <2>1, <2>2, <2>3, <1>1, <1>5
<1>6. Range(w) = Range(s) \cup Range(d)
  <2>1. \A i \in DOMAIN s : i \in DOMAIN w /\ w[i] = s[i]
    BY <1>1
  <2>2. \A j \in DOMAIN d : Len(s) + j \in DOMAIN w /\ w[Len(s) + j] = d[j]
    <3>1. SUFFICES ASSUME NEW j \in DOMAIN d
                   PROVE  Len(s) + j \in DOMAIN w /\ w[Len(s) + j] = d[j]
      OBVIOUS
    <3>2. j \in Nat /\ 1 <= j /\ j <= Len(d)
      BY <1>1
    <3>3. Len(s) + j \in 1 .. Len(w) /\ ~(Len(s) + j <= Len(s)) /\ (Len(s) + j) - Len(s) = j
      BY <1>1, <3>2
    <3>4. QED
      BY <1>1, <3>3
  <2>3. \A i \in DOMAIN w :
           \/ i \in DOMAIN s /\ w[i] = s[i]
           \/ i - Len(s) \in DOMAIN d /\ w[i] = d[i - Len(s)]
    BY <1>1
  <2>4. QED
    BY <2>1, <2>2, <2>3 DEF Range
<1>7. d # <<>> => w # <<>> /\ Last(w) = Last(d)
  BY <1>1 DEF Last
<1>8. d = <<>> => w = s
  BY DEF w
<1>9. QED
  BY <1>1, <1>5, <1>6, <1>7, <1>8 DEF InOrder, w

-----------------------------------------------------------------------------
(* The invariant.                                                           *)

\* A call holds the input it was made with and the request its row makes of it.
CallOk ==
    pc # "idle" =>
        /\ call.client \in Clients
        /\ call.method \in Methods
        /\ InputOk(call.method, call.input)
        /\ call.request = IF pc = "rejected" THEN NoRequest
                          ELSE Request(MethodsOf[call.client][call.method], call.input)

\* A walk has got as far as its last item, and what it has still to be given
\* lies after that.
Reached == IF seen = <<>> THEN Undefined ELSE Last(seen)
Ahead == {i \in 1 .. MaxItem : seen # <<>> => Before(Ascends(call.input), Last(seen), i)}

Walking == pc # "idle" /\ Pages(call.method)

WalkOk ==
    /\ ~Walking => seen = <<>>
    /\ Walking /\ ~DropsPaging =>
        /\ InOrder(Ascends(call.input), seen)
        /\ pc = "posted" => /\ call.input.cursor = Reached
                            /\ present \subseteq Range(seen) \cup Ahead
        /\ pc = "returned" => /\ page.nextCursor = Reached
                              /\ page.hasNextPage => present \subseteq Range(seen) \cup Ahead
                              /\ ~page.hasNextPage => present \subseteq Range(seen)

ListsOk ==
    /\ pc \in Settled \cup {"posted"}
    /\ blockSender \in Addresses \cup {Undefined}
    /\ items \subseteq 1 .. MaxItem
    /\ present \subseteq items
    /\ page.hasNextPage \in BOOLEAN
    /\ seen \in Seq(1 .. MaxItem)

IInv == CallOk /\ WalkOk /\ ListsOk

LEMMA Initially ==
    ASSUME Init
    PROVE  IInv
  BY DEF Init, IInv, CallOk, WalkOk, ListsOk, Walking, NoPage, Settled

\* What Invoke makes of a good input.
LEMMA InvokeOk ==
    ASSUME IInv, NEW c \in Clients, NEW m \in Methods, NEW in, InputOk(m, in), Invoke(c, m, in)
    PROVE  /\ CallOk'
           /\ pc' \in {"rejected", "posted"}
           /\ blockSender' \in Addresses \cup {Undefined}
           /\ call'.client = c /\ call'.method = m /\ call'.input = in
<1>1. /\ call'.client = c /\ call'.method = m /\ call'.input = in
      /\ pc' = IF Rejects(MethodsOf[c][m].check, in) THEN "rejected" ELSE "posted"
      /\ call'.request = IF Rejects(MethodsOf[c][m].check, in) THEN NoRequest
                         ELSE Request(MethodsOf[c][m], in)
  BY DEF Invoke
<1>2. CallOk'
  <2>1. InputOk(m, in)'
    OBVIOUS
  <2>2. QED
    BY <1>1 DEF CallOk
<1>3. blockSender' \in Addresses \cup {Undefined}
  <2>1. CASE blockSender' = blockSender
    BY <2>1 DEF IInv, ListsOk
  <2>2. CASE m = "devInspectTransactionBlock" /\ blockSender' = in.sender
    <3>1. NodeReads("devInspectTransactionBlock") = <<"sender", "transactionKind", "gasPrice", "epoch">>
      BY DEF NodeReads, Declared, DeclaredExecution, ++
    <3>2. "sender" \in FieldsOf(m)
      BY <2>2, <3>1 DEF FieldsOf, Range
    <3>3. ValuesOf(m, "sender") = Addresses
      BY DEF ValuesOf
    <3>4. in["sender"] \in Addresses
      BY <3>2, <3>3 DEF InputOk
    <3>5. QED
      BY <2>2, <3>4
  <2>3. QED
    BY <2>1, <2>2 DEF Invoke
<1>4. QED
  BY <1>1, <1>2, <1>3

LEMMA CallKeeps ==
    ASSUME IInv, NEW c \in Clients, NEW m \in Methods, Call(c, m)
    PROVE  IInv'
<1>1. PICK in \in InputsOf[m] : Invoke(c, m, in)
  BY DEF Call
<1>2. InputOk(m, in) /\ ("cursor" \in FieldsOf(m) => in["cursor"] = Undefined)
  BY InputsOk
<1>3. /\ CallOk'
      /\ pc' \in {"rejected", "posted"}
      /\ blockSender' \in Addresses \cup {Undefined}
      /\ call'.client = c /\ call'.method = m /\ call'.input = in
  BY <1>1, <1>2, InvokeOk
<1>4. /\ pc = "idle" /\ seen = <<>> /\ seen' = <<>>
      /\ present' = items /\ items' = items /\ page' = page
  BY DEF Call, IInv, WalkOk, Walking
<1>5. ListsOk'
  BY <1>3, <1>4 DEF IInv, ListsOk, Settled
<1>6. WalkOk'
  <2>1. InOrder(Ascends(call.input), seen)'
    BY <1>4 DEF InOrder
  <2>2. Walking' => "cursor" \in FieldsOf(m)
    BY <1>3 DEF Walking, Pages, FieldsOf
  <2>3. Walking' => call'.input.cursor = Reached'
    BY <1>2, <1>3, <1>4, <2>2 DEF Reached
  <2>4. present' \subseteq Ahead'
    BY <1>4 DEF IInv, ListsOk, Ahead
  <2>5. QED
    BY <1>3, <1>4, <2>1, <2>3, <2>4 DEF WalkOk
<1>7. QED
  BY <1>3, <1>5, <1>6 DEF IInv

LEMMA DoneKeeps ==
    ASSUME IInv, Done
    PROVE  IInv'
  BY DEF Done, IInv, CallOk, WalkOk, ListsOk, Walking, NoPage, Settled

LEMMA NextPageKeeps ==
    ASSUME IInv, NextPage
    PROVE  IInv'
<1> DEFINE m == call.method
           in == [call.input EXCEPT !["cursor"] = page.nextCursor]
<1>1. /\ pc = "returned" /\ page.hasNextPage
      /\ call.client \in Clients /\ m \in Methods
      /\ InputOk(m, call.input)
      /\ Invoke(call.client, m, in)
      /\ UNCHANGED <<items, page, seen, present>>
  BY DEF NextPage, IInv, CallOk
<1>2. /\ \A field \in FieldsOf(m) \ {"cursor"} : in[field] = call.input[field]
      /\ "cursor" \in FieldsOf(m) => in["cursor"] = page.nextCursor
      /\ DOMAIN in = FieldsOf(m) /\ DOMAIN call.input = FieldsOf(m)
      /\ InputOk(m, in)
  BY <1>1 DEF InputOk
<1> HIDE DEF in
<1>3. /\ CallOk'
      /\ pc' \in {"rejected", "posted"}
      /\ blockSender' \in Addresses \cup {Undefined}
      /\ call'.client = call.client /\ call'.method = m /\ call'.input = in
  BY <1>1, <1>2, InvokeOk
<1>4. ListsOk'
  BY <1>1, <1>3 DEF IInv, ListsOk, Settled
<1>5. WalkOk'
  <2>1. Walking <=> Walking'
    BY <1>1, <1>3 DEF Walking
  <2>2. CASE ~Walking
    BY <1>1, <2>1, <2>2 DEF IInv, WalkOk
  <2>3. CASE Walking /\ DropsPaging
    BY <1>3, <2>1, <2>3 DEF WalkOk, DropsPaging
  <2>4. CASE Walking /\ ~DropsPaging
    <3>1. /\ InOrder(Ascends(call.input), seen)
          /\ page.nextCursor = Reached
          /\ present \subseteq Range(seen) \cup Ahead
      BY <1>1, <2>4 DEF IInv, WalkOk
    <3>2. Ascends(in) <=> Ascends(call.input)
      BY <1>2 DEF Ascends
    <3>3. "cursor" \in FieldsOf(m)
      BY <2>4 DEF Walking, Pages, FieldsOf
    <3>4. InOrder(Ascends(call.input), seen)' /\ Ahead' = Ahead /\ Reached' = Reached
      BY <1>1, <1>3, <3>1, <3>2 DEF InOrder, Before, Ahead, Reached
    <3>5. QED
      BY <1>1, <1>2, <1>3, <2>1, <2>4, <3>1, <3>3, <3>4 DEF WalkOk
  <2>5. QED
    BY <2>2, <2>3, <2>4
<1>6. QED
  BY <1>3, <1>4, <1>5 DEF IInv

\* The page answered, whichever way the call was made, is a list of items.
LEMMA PageOk ==
    ASSUME IInv, pc = "posted", Pages(call.method)
    PROVE  LET read == ReadByName(call.method, call.request)
               p == PageFor(read)
           IN  /\ "limit" \in DOMAIN read => read.limit \in {Undefined} \cup Limits
               /\ p.data \in Seq(items)
               /\ p.hasNextPage \in BOOLEAN
<1> DEFINE m == call.method
           read == ReadByName(m, call.request)
           p == PageFor(read)
<1>1. /\ call.client \in Clients /\ m \in Methods /\ InputOk(m, call.input)
      /\ call.request = Request(MethodsOf[call.client][m], call.input)
  BY DEF IInv, CallOk
<1>2. ASSUME "limit" \in DOMAIN read
      PROVE  read["limit"] \in {Undefined} \cup Limits
  <2>1. "limit" \in Range(NodeReads(m))
    BY <1>2 DEF ReadByName
  <2>2. CASE DropsPaging
    <3>1. m = "resolveNameServiceNames" /\ call.client = "JsonRpcProvider"
      BY <2>2 DEF DropsPaging
    <3>2. NodeReads(m) = <<"address", "cursor", "limit">>
      BY <3>1, DroppedRow
    <3>3. DOMAIN call.request.params = {1}
      BY <1>1, <3>1, DroppedRow DEF Request, MethodsOf
    <3>4. (CHOOSE j \in DOMAIN NodeReads(m) : NodeReads(m)[j] = "limit") = 3
      BY <3>2
    <3>5. read["limit"] = Undefined
      <4> DEFINE place(name) == CHOOSE j \in DOMAIN NodeReads(m) : NodeReads(m)[j] = name
                 value(name) == IF place(name) \in DOMAIN call.request.params
                                THEN call.request.params[place(name)] ELSE Undefined
      <4>1. read = [name \in Range(NodeReads(m)) |-> value(name)]
        BY DEF ReadByName
      <4>2. place("limit") = 3
        BY <3>4
      <4> HIDE DEF place
      <4>3. value("limit") = Undefined
        BY <3>3, <4>2
      <4> HIDE DEF read, value
      <4>4. QED
        BY <2>1, <4>1, <4>3
    <3>6. QED
      BY <3>5
  <2>3. CASE ~DropsPaging
    <3>1. read["limit"] = Sent("limit", call.input)
      <4>1. read = [name \in Range(NodeReads(m)) |-> Sent(name, call.input)]
        BY <1>1, <2>3, ReadAsMeant DEF DropsPaging
      <4> HIDE DEF read
      <4>2. QED
        BY <2>1, <4>1
    <3>2. Sent("limit", call.input) = call.input["limit"]
      BY DEF Sent, Meaning
    <3>3. "limit" \in FieldsOf(m)
      BY <2>1 DEF FieldsOf
    <3>4. ValuesOf(m, "limit") = {Undefined} \cup Limits
      BY DEF ValuesOf
    <3>5. QED
      BY <1>1, <3>1, <3>2, <3>3, <3>4 DEF InputOk
  <2>4. QED
    BY <2>2, <2>3
<1> HIDE DEF read, m
<1>3. items \subseteq 1 .. MaxItem
  BY DEF IInv, ListsOk
<1>4. p.data \in Seq(After(read)) /\ p.hasNextPage \in BOOLEAN
  BY <1>2, <1>3, PageLists
<1>5. After(read) \subseteq items
  BY DEF After
<1> HIDE DEF p
<1>6. p.data \in Seq(items)
  BY <1>4, <1>5
<1>7. QED
  BY <1>2, <1>4, <1>6 DEF p, read, m

\* What the node reads of a walk's call: its cursor, and the order asked for.
LEMMA WalkRead ==
    ASSUME IInv, pc = "posted", Pages(call.method), ~DropsPaging
    PROVE  LET read == ReadByName(call.method, call.request)
           IN  /\ read.cursor = Reached
               /\ Descends(read) <=> ~Ascends(call.input)
<1> DEFINE m == call.method
           in == call.input
           read == ReadByName(m, call.request)
<1>1. /\ call.client \in Clients /\ m \in Methods /\ InputOk(m, in)
      /\ call.request = Request(MethodsOf[call.client][m], in)
  BY DEF IInv, CallOk
<1>2. read = [name \in Range(NodeReads(m)) |-> Sent(name, in)]
  BY <1>1, ReadAsMeant DEF DropsPaging
<1>3. in.cursor = Reached
  BY DEF IInv, WalkOk, Walking
<1> HIDE DEF read
<1>4. read["cursor"] = in["cursor"]
  BY <1>2 DEF Pages, Sent, Meaning
<1>5. /\ "order" \in DOMAIN read <=> "order" \in DOMAIN in
      /\ "descendingOrder" \in DOMAIN read <=> "descendingOrder" \in DOMAIN in
  <2>1. /\ "order" \in FieldsOf(m) <=> "order" \in Range(NodeReads(m))
        /\ "descendingOrder" \in FieldsOf(m) <=> "descendingOrder" \in Range(NodeReads(m))
    BY DEF FieldsOf
  <2>2. DOMAIN in = FieldsOf(m)
    BY <1>1 DEF InputOk
  <2>3. DOMAIN read = Range(NodeReads(m))
    BY <1>2
  <2>4. QED
    BY <2>1, <2>2, <2>3
<1>6. "order" \in DOMAIN read => read["order"] = (in["order"] # "ascending")
  BY <1>2 DEF Sent, Meaning
<1>7. "descendingOrder" \in DOMAIN read =>
          read["descendingOrder"] = in["descendingOrder"] /\ in["descendingOrder"] \in BOOLEAN
  <2>1. ValuesOf(m, "descendingOrder") = BOOLEAN
    BY DEF ValuesOf
  <2>2. "descendingOrder" \in DOMAIN in => in["descendingOrder"] \in BOOLEAN
    BY <1>1, <2>1 DEF InputOk
  <2>3. QED
    BY <1>2, <1>5, <2>2 DEF Sent, Meaning
<1>8. Descends(read) <=> ~Ascends(in)
  <2>1. CASE "order" \in DOMAIN read /\ "descendingOrder" \in DOMAIN read
    BY <2>1, <1>5, <1>6, <1>7, Zenon DEF Descends, Ascends
  <2>2. CASE "order" \in DOMAIN read /\ "descendingOrder" \notin DOMAIN read
    BY <2>2, <1>5, <1>6, Zenon DEF Descends, Ascends
  <2>3. CASE "order" \notin DOMAIN read
    BY <2>3, <1>5, <1>7, Zenon DEF Descends, Ascends
  <2>4. QED
    BY <2>1, <2>2, <2>3
<1>9. QED
  BY <1>3, <1>4, <1>8 DEF read

LEMMA AnswerKeeps ==
    ASSUME IInv, Answer
    PROVE  IInv'
<1> DEFINE read == ReadByName(call.method, call.request)
           p == PageFor(read)
           asc == Ascends(call.input)
<1>1. /\ pc = "posted" /\ pc' = "returned"
      /\ page' = IF Pages(call.method) THEN p ELSE NoPage
      /\ seen' = seen \o page'.data
      /\ UNCHANGED <<call, blockSender, items, present>>
  BY DEF Answer
<1>2. CallOk'
  BY <1>1 DEF IInv, CallOk
<1>3. /\ items \subseteq 1 .. MaxItem /\ seen \in Seq(1 .. MaxItem) /\ present \subseteq items
      /\ 1 .. MaxItem \subseteq Nat
  BY RpcAssumption DEF IInv, ListsOk
<1>4. Walking <=> Pages(call.method)
  BY <1>1 DEF Walking
<1>5. CASE ~Pages(call.method)
  <2>1. page' = NoPage /\ seen' = seen \o <<>>
    BY <1>1, <1>5 DEF NoPage
  <2>2. seen = <<>> /\ seen' = <<>>
    BY <1>4, <1>5, <2>1 DEF IInv, WalkOk
  <2>3. ListsOk'
    <3>1. seen' \in Seq(1 .. MaxItem)
      BY <1>3, <2>2
    <3>2. page'.hasNextPage \in BOOLEAN
      BY <2>1 DEF NoPage
    <3>3. QED
      BY <1>1, <1>3, <3>1, <3>2 DEF IInv, ListsOk, Settled
  <2>4. WalkOk'
    BY <1>1, <1>5, <2>2 DEF WalkOk, Walking
  <2>5. QED
    BY <1>2, <2>3, <2>4 DEF IInv
<1>6. CASE Pages(call.method)
  <2>1. page' = p /\ seen' = seen \o p.data
    BY <1>1, <1>6
  <2>2. /\ "limit" \in DOMAIN read => read.limit \in {Undefined} \cup Limits
        /\ p.data \in Seq(items)
        /\ p.hasNextPage \in BOOLEAN
    BY <1>1, <1>6, PageOk
  <2>3. /\ InOrder(~Descends(read), p.data)
        /\ p.nextCursor = IF p.data = <<>> THEN read.cursor ELSE Last(p.data)
        /\ p.data \in Seq(After(read))
        /\ ~p.hasNextPage => After(read) \subseteq Range(p.data)
        /\ \A j \in After(read) \ Range(p.data) :
              p.data # <<>> /\ Before(~Descends(read), Last(p.data), j)
    BY <1>3, <2>2, PageLists
  <2>4. ~DropsPaging => read.cursor = Reached /\ (Descends(read) <=> ~asc)
    BY <1>1, <1>6, WalkRead
  <2> HIDE DEF read, p
  <2>5. p.data \in Seq(1 .. MaxItem)
    BY <1>3, <2>2, SeqOfMore
  <2>6. ListsOk'
    <3>1. seen \o p.data \in Seq(1 .. MaxItem)
      BY <1>3, <2>5
    <3>2. QED
      BY <1>1, <1>3, <2>1, <2>2, <3>1 DEF IInv, ListsOk, Settled
  <2>7. ASSUME DropsPaging
        PROVE  WalkOk'
    BY <1>1, <1>6, <2>7 DEF WalkOk, Walking, DropsPaging
  <2>8. ASSUME ~DropsPaging
        PROVE  WalkOk'
    <3>1. /\ InOrder(asc, seen)
          /\ present \subseteq Range(seen) \cup Ahead
      BY <1>1, <1>4, <1>6, <2>8 DEF IInv, WalkOk
    <3>2. asc \in BOOLEAN
      BY DEF Ascends
    <3>3. InOrder(asc, p.data)
      BY <2>3, <2>4, <2>8 DEF InOrder, Before
    <3>4. After(read) = {i \in items : seen # <<>> => Before(asc, Last(seen), i)}
      <4>1. seen # <<>> => Last(seen) \in Nat
        BY <1>3, SeqOfMore
      <4>2. seen # <<>> => read.cursor # Undefined
        BY <2>4, <2>8, <4>1, UndefinedAssumption DEF Reached
      <4>3. seen = <<>> => read.cursor = Undefined
        BY <2>4, <2>8 DEF Reached
      <4>4. seen # <<>> => read.cursor = Last(seen)
        BY <2>4, <2>8 DEF Reached
      <4>5. \A i \in items : i \in After(read) <=> (seen # <<>> => Before(asc, Last(seen), i))
        <5>1. SUFFICES ASSUME NEW i \in items
                       PROVE  i \in After(read) <=> (seen # <<>> => Before(asc, Last(seen), i))
          OBVIOUS
        <5>2. i \in Nat
          BY <1>3
        <5>3. CASE seen = <<>>
          BY <4>3, <5>3 DEF After
        <5>4. CASE seen # <<>>
          BY <2>4, <2>8, <4>1, <4>2, <4>4, <5>2, <5>4 DEF After, Before
        <5>5. QED
          BY <5>3, <5>4
      <4>6. After(read) \subseteq items
        BY DEF After
      <4>7. QED
        BY <4>5, <4>6
    <3>5. seen # <<>> => \A j \in DOMAIN p.data : Before(asc, Last(seen), p.data[j])
      <4>1. \A j \in DOMAIN p.data : p.data[j] \in After(read)
        BY <2>3
      <4>2. QED
        BY <3>4, <4>1
    <3>6. /\ InOrder(asc, seen \o p.data)
          /\ Range(seen \o p.data) = Range(seen) \cup Range(p.data)
          /\ p.data # <<>> => seen \o p.data # <<>> /\ Last(seen \o p.data) = Last(p.data)
          /\ p.data = <<>> => seen \o p.data = seen
      <4> DEFINE d == p.data
      <4>1. /\ seen \in Seq(Nat) /\ d \in Seq(Nat)
            /\ InOrder(asc, seen) /\ InOrder(asc, d)
            /\ seen # <<>> => \A k \in DOMAIN d : Before(asc, Last(seen), d[k])
        BY <1>3, <2>5, <3>1, <3>3, <3>5, SeqOfMore
      <4> HIDE DEF asc, d
      <4>2. /\ InOrder(asc, seen \o d)
            /\ Range(seen \o d) = Range(seen) \cup Range(d)
            /\ d # <<>> => seen \o d # <<>> /\ Last(seen \o d) = Last(d)
            /\ d = <<>> => seen \o d = seen
        BY <3>2, <4>1, WalkGoesOn
      <4>3. QED
        BY <4>2 DEF d
    <3>7. page'.nextCursor = Reached'
      BY <2>1, <2>3, <2>4, <2>8, <3>6 DEF Reached
    <3>8. InOrder(Ascends(call.input), seen)'
      BY <1>1, <2>1, <3>6 DEF InOrder, Before
    <3>9. \A i \in present : i \in Range(seen) \/ i \in After(read)
      BY <1>3, <3>1, <3>4 DEF Ahead
    <3>10. ~p.hasNextPage => present \subseteq Range(seen')
      BY <2>1, <2>3, <3>6, <3>9
    <3>11. present \subseteq Range(seen') \cup Ahead'
      <4>1. SUFFICES ASSUME NEW i \in present, i \notin Range(seen')
                     PROVE  i \in Ahead'
        OBVIOUS
      <4>2. i \in After(read) \ Range(p.data)
        BY <2>1, <3>6, <3>9, <4>1
      <4>3. p.data # <<>> /\ Before(asc, Last(p.data), i)
        BY <2>3, <2>4, <2>8, <4>2 DEF Before
      <4>4. Last(seen') = Last(p.data)
        BY <2>1, <3>6, <4>3
      <4>5. i \in 1 .. MaxItem
        BY <1>3
      <4>6. QED
        BY <1>1, <4>3, <4>4, <4>5 DEF Ahead
    <3>12. Walking'
      BY <1>1, <1>6 DEF Walking
    <3>13. QED
      BY <1>1, <2>1, <3>7, <3>8, <3>10, <3>11, <3>12 DEF WalkOk
  <2>9. QED
    BY <1>2, <2>6, <2>7, <2>8 DEF IInv
<1>7. QED
  BY <1>5, <1>6

\* What an action that touches neither the call nor the page given leaves alone.
LEMMA ListChangeKeeps ==
    ASSUME IInv, UNCHANGED <<call, pc, blockSender, page, seen>>,
           items' \subseteq 1 .. MaxItem, present' \subseteq present, present' \subseteq items'
    PROVE  IInv'
<1>1. CallOk'
  BY DEF IInv, CallOk
<1>2. ListsOk'
  BY DEF IInv, ListsOk
<1>3. /\ Walking' <=> Walking
      /\ DropsPaging' <=> DropsPaging
      /\ Reached' = Reached
      /\ Ahead' = Ahead
      /\ InOrder(Ascends(call.input), seen)' <=> InOrder(Ascends(call.input), seen)
  BY DEF Walking, DropsPaging, Reached, Ahead, InOrder, Before
<1>4. WalkOk'
  BY <1>3 DEF IInv, WalkOk
<1>5. QED
  BY <1>1, <1>2, <1>4 DEF IInv

\* A call that fails, or answers without a page, gives the walk nothing.
LEMMA FailKeeps ==
    ASSUME IInv, Fail
    PROVE  IInv'
<1>1. /\ pc = "posted" /\ pc' = "threw"
      /\ UNCHANGED <<call, blockSender, items, page, seen, present>>
  BY DEF Fail
<1>2. CallOk'
  BY <1>1 DEF IInv, CallOk
<1>3. ListsOk'
  BY <1>1 DEF IInv, ListsOk, Settled
<1>4. /\ Walking' <=> Walking
      /\ DropsPaging' <=> DropsPaging
      /\ InOrder(Ascends(call.input), seen)' <=> InOrder(Ascends(call.input), seen)
  BY <1>1 DEF Walking, DropsPaging, InOrder, Before
<1>5. WalkOk'
  BY <1>1, <1>4 DEF IInv, WalkOk
<1>6. QED
  BY <1>2, <1>3, <1>5 DEF IInv

LEMMA MisshapenAnswerKeeps ==
    ASSUME IInv, MisshapenAnswer
    PROVE  IInv'
<1>1. /\ pc = "posted" /\ pc' \in {"threw", "returned"}
      /\ ~Pages(call.method)
      /\ UNCHANGED <<call, blockSender, items, page, seen, present>>
  BY DEF MisshapenAnswer
<1>2. CallOk'
  BY <1>1 DEF IInv, CallOk
<1>3. ListsOk'
  BY <1>1 DEF IInv, ListsOk, Settled
<1>4. WalkOk'
  BY <1>1 DEF IInv, WalkOk, Walking
<1>5. QED
  BY <1>2, <1>3, <1>4 DEF IInv

LEMMA AddItemKeeps ==
    ASSUME IInv, AddItem
    PROVE  IInv'
<1>1. PICK i \in 1 .. MaxItem :
          items' = items \cup {i} /\ UNCHANGED <<call, pc, blockSender, page, seen, present>>
  BY DEF AddItem
<1>2. items \subseteq 1 .. MaxItem /\ present \subseteq items
  BY DEF IInv, ListsOk
<1>3. items' \subseteq 1 .. MaxItem /\ present' \subseteq present /\ present' \subseteq items'
  BY <1>1, <1>2
<1>4. QED
  BY <1>1, <1>3, ListChangeKeeps

LEMMA RemoveItemKeeps ==
    ASSUME IInv, RemoveItem
    PROVE  IInv'
<1>1. PICK i \in items :
          /\ items' = items \ {i} /\ present' = present \ {i}
          /\ UNCHANGED <<call, pc, blockSender, page, seen>>
  BY DEF RemoveItem
<1>2. items \subseteq 1 .. MaxItem /\ present \subseteq items
  BY DEF IInv, ListsOk
<1>3. items' \subseteq 1 .. MaxItem /\ present' \subseteq present /\ present' \subseteq items'
  BY <1>1, <1>2
<1>4. QED
  BY <1>1, <1>3, ListChangeKeeps

\* The invariant the theorems below rest on: the call that is out holds what it
\* was made with, and what a walk has still to be given lies after the cursor
\* it goes on from, however the list changes meanwhile.
THEOREM IInvHolds == Spec => []IInv
<1>1. Init => IInv
  BY Initially
<1>2. IInv /\ [Next]_vars => IInv'
  <2> SUFFICES ASSUME IInv, [Next]_vars
               PROVE  IInv'
    OBVIOUS
  <2>1. ASSUME NEW client \in Clients, NEW method \in Methods, Call(client, method)
        PROVE  IInv'
    BY <2>1, CallKeeps
  <2>2. CASE NextPage
    BY <2>2, NextPageKeeps
  <2>3. CASE Done
    BY <2>3, DoneKeeps
  <2>4. CASE Answer
    BY <2>4, AnswerKeeps
  <2>5. CASE Fail
    BY <2>5, FailKeeps
  <2>6. CASE MisshapenAnswer
    BY <2>6, MisshapenAnswerKeeps
  <2>7. CASE AddItem
    BY <2>7, AddItemKeeps
  <2>8. CASE RemoveItem
    BY <2>8, RemoveItemKeeps
  <2>9. CASE UNCHANGED vars
    <3>1. /\ UNCHANGED <<call, pc, blockSender, page, seen>>
          /\ items' = items /\ present' = present
      BY <2>9 DEF vars
    <3>2. items \subseteq 1 .. MaxItem /\ present \subseteq items
      BY DEF IInv, ListsOk
    <3>3. QED
      BY <3>1, <3>2, ListChangeKeeps
  <2>10. QED
    BY <2>1, <2>2, <2>3, <2>4, <2>5, <2>6, <2>7, <2>8, <2>9 DEF Next
<1>3. QED
  BY <1>1, <1>2, PTL DEF Spec

-----------------------------------------------------------------------------
(* Theorems.                                                                *)

LEMMA NoRequestIsNone ==
    ASSUME NEW row, NEW in
    PROVE  Request(row, in) # NoRequest
<1>1. "params" \in DOMAIN Request(row, in)
  BY DEF Request
<1>2. "params" \notin DOMAIN NoRequest
  BY DEF NoRequest
<1>3. QED
  BY <1>1, <1>2

\* A call that is out has a request and one a check has ended has none; the
\* sender devInspect leaves on a block is a caller's address; a walk holds
\* only items the list has had.
THEOREM SpecTypeOK == Spec => []TypeOK
<1>1. IInv => TypeOK
  <2> SUFFICES ASSUME IInv
               PROVE  TypeOK
    OBVIOUS
  <2>1. pc # "idle" => /\ call.client \in Clients
                       /\ call.method \in Methods
                       /\ DOMAIN call.input = FieldsOf(call.method)
                       /\ (pc = "rejected") <=> (call.request = NoRequest)
    BY NoRequestIsNone DEF IInv, CallOk, InputOk
  <2>2. Range(seen) \subseteq 1 .. MaxItem
    <3> DEFINE all == 1 .. MaxItem
    <3>1. seen \in Seq(all)
      BY DEF IInv, ListsOk
    <3> HIDE DEF all
    <3>2. \A i \in DOMAIN seen : seen[i] \in all
      BY <3>1
    <3>3. QED
      BY <3>2 DEF Range, all
  <2>3. QED
    BY <2>1, <2>2 DEF IInv, ListsOk, TypeOK
<1>2. QED
  BY <1>1, IInvHolds, PTL

\* Every value a caller of either class passes, to any of the methods, reaches
\* the node under the name it was passed under, but for what
\* JsonRpcProvider.resolveNameServiceNames drops.
THEOREM SpecReadAsNamed == Spec => []ReadAsNamed
<1>1. IInv => ReadAsNamed
  <2> DEFINE m == call.method
             read == ReadByName(m, call.request)
  <2>1. SUFFICES ASSUME IInv, Posted, ~DropsPaging
                 PROVE  \A name \in DOMAIN read :
                            Gives(name, call.input) => read[name] = Meaning(name, call.input)
    BY DEF ReadAsNamed
  <2>2. /\ call.client \in Clients /\ m \in Methods /\ InputOk(m, call.input)
        /\ call.request = Request(MethodsOf[call.client][m], call.input)
    BY <2>1 DEF IInv, CallOk, Posted
  <2>3. read = [name \in Range(NodeReads(m)) |-> Sent(name, call.input)]
    BY <2>1, <2>2, ReadAsMeant DEF DropsPaging
  <2> HIDE DEF read
  <2>4. ASSUME NEW name \in Range(NodeReads(m)), Gives(name, call.input)
        PROVE  Sent(name, call.input) = Meaning(name, call.input)
    <3>1. CASE name = "order"
      <4>1. call.input["order"] \in {"ascending", "descending"}
        <5>1. "order" \in FieldsOf(m) \ {"cursor"}
          BY <2>4, <3>1 DEF FieldsOf
        <5>2. ValuesOf(m, "order") = {Undefined, "ascending", "descending"}
          BY DEF ValuesOf
        <5>3. QED
          BY <2>2, <2>4, <3>1, <5>1, <5>2 DEF InputOk, Gives
      <4>2. (call.input["order"] # "ascending") = (call.input["order"] = "descending")
        BY <4>1
      <4>3. QED
        BY <3>1, <4>2 DEF Sent, Meaning
    <3>2. CASE name # "order"
      BY <3>2 DEF Sent
    <3>3. QED
      BY <3>1, <3>2
  <2>5. QED
    BY <2>3, <2>4
<1>2. QED
  BY <1>1, IInvHolds, PTL

\* SuiClient and the deprecated JsonRpcProvider make the same request of the
\* same input, or both refuse it, whichever method is called.
THEOREM SpecSameRequest == Spec => []SameRequest
<1>1. IInv => SameRequest
  <2>1. SUFFICES ASSUME IInv, pc # "idle", call.method # "resolveNameServiceNames"
                 PROVE  Outcome("SuiClient") = Outcome("JsonRpcProvider")
    BY DEF SameRequest
  <2>2. call.method \in Methods
    BY <2>1 DEF IInv, CallOk
  <2>3. MethodsOf["SuiClient"][call.method] = MethodsOf["JsonRpcProvider"][call.method]
    BY <2>1, <2>2, SameRows DEF MethodsOf
  <2>4. QED
    BY <2>3 DEF Outcome
<1>2. QED
  BY <1>1, IInvHolds, PTL

\* A walk through pages of any size gets its items in the order asked for, or in
\* one order if none is asked for, and none of them twice, while the list behind
\* the pages changes.
THEOREM SpecWalkInOrder == Spec => []WalkInOrder
<1>1. IInv => WalkInOrder
  <2> SUFFICES ASSUME IInv, Posted, ~DropsPaging PROVE WalkInOrder
    BY DEF WalkInOrder
  <2> DEFINE in == call.input
  <2>1. IF Ascends(in) THEN OldestFirst ELSE NewestFirst
    <3>1. CASE ~Walking
      BY <3>1 DEF IInv, WalkOk, OldestFirst, NewestFirst
    <3>2. CASE Walking
      BY <3>2 DEF IInv, WalkOk, InOrder, Before, OldestFirst, NewestFirst
    <3>3. QED
      BY <3>1, <3>2
  <2>2. AsksOldestFirst(in) => Ascends(in)
    BY DEF AsksOldestFirst, Ascends
  <2>3. AsksNewestFirst(in) => ~Ascends(in)
    BY DEF AsksNewestFirst, Ascends
  <2>4. QED
    BY <2>1, <2>2, <2>3 DEF WalkInOrder
<1>2. QED
  BY <1>1, IInvHolds, PTL

\* A walk that ends on a page without a next one has been given every item that
\* was on the list from its first call on.
THEOREM SpecNothingMissed == Spec => []NothingMissed
<1>1. IInv => NothingMissed
  BY DEF IInv, WalkOk, Walking, NothingMissed
<1>2. QED
  BY <1>1, IInvHolds, PTL
=============================================================================
