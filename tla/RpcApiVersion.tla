----------------------------- MODULE RpcApiVersion -----------------------------
(***************************************************************************)
(* JsonRpcProvider.getRpcApiVersion (src/src/providers/                     *)
(* json-rpc-provider.ts): the version of the node's API, kept for           *)
(* versionCacheTimeoutInSeconds.  Several calls may overlap, each answered  *)
(* when the node likes, while time passes and the node is upgraded.         *)
(***************************************************************************)
EXTENDS Integers

CONSTANTS
    Calls,          \* bound: calls made, by name
    CacheTimeout,   \* versionCacheTimeoutInSeconds; 0 counts as not given
    MaxTime,        \* bound: seconds that are counted
    MaxVersion      \* bound: upgrades of the node

VARIABLES
    now,            \* Date.now(), in seconds
    nodeVersion,    \* external: the version the node runs
    rpcApiVersion,  \* the cached version; 0 for none
    cacheExpiry,    \* when it expires; 0 for none
    fetchedAt,      \* history: when the cached version was received
    calls           \* per call: where it is, the answer on its way, the result

vars == <<now, nodeVersion, rpcApiVersion, cacheExpiry, fetchedAt, calls>>

None == 0

Init ==
    /\ now = 1
    /\ nodeVersion = 1
    /\ rpcApiVersion = None
    /\ cacheExpiry = None
    /\ fetchedAt = None
    /\ calls = [c \in Calls |-> [pc |-> "idle", answer |-> None, result |-> None]]

\* The condition under which the cached version is returned.
FromCache == rpcApiVersion # None /\ cacheExpiry # None /\ cacheExpiry <= now

Call(c) ==
    /\ calls[c].pc = "idle"
    /\ calls' = [calls EXCEPT ![c] =
         IF FromCache THEN [pc |-> "cached", answer |-> None, result |-> rpcApiVersion]
                      ELSE [@ EXCEPT !.pc = "asked"]]
    /\ UNCHANGED <<now, nodeVersion, rpcApiVersion, cacheExpiry, fetchedAt>>

\* The answer is stored, whatever an overlapping call has stored meanwhile.
Answered(c) ==
    /\ calls[c].pc = "asked"
    /\ calls[c].answer # None
    /\ rpcApiVersion' = calls[c].answer
    /\ cacheExpiry' = now + CacheTimeout
    /\ fetchedAt' = now
    /\ calls' = [calls EXCEPT ![c].pc = "fetched", ![c].result = calls[c].answer]
    /\ UNCHANGED <<now, nodeVersion>>

\* The catch: a warning, and undefined is returned.
Failed(c) ==
    /\ calls[c].pc = "asked"
    /\ calls' = [calls EXCEPT ![c].pc = "undefined"]
    /\ UNCHANGED <<now, nodeVersion, rpcApiVersion, cacheExpiry, fetchedAt>>

\* External: the node reads its version, which the answer carries.
Answer(c) ==
    /\ calls[c].pc = "asked"
    /\ calls[c].answer = None
    /\ calls' = [calls EXCEPT ![c].answer = nodeVersion]
    /\ UNCHANGED <<now, nodeVersion, rpcApiVersion, cacheExpiry, fetchedAt>>

Upgrade ==
    /\ nodeVersion < MaxVersion
    /\ nodeVersion' = nodeVersion + 1
    /\ UNCHANGED <<now, rpcApiVersion, cacheExpiry, fetchedAt, calls>>

Tick ==
    /\ now < MaxTime
    /\ now' = now + 1
    /\ UNCHANGED <<nodeVersion, rpcApiVersion, cacheExpiry, fetchedAt, calls>>

Next ==
    \/ \E c \in Calls : Call(c) \/ Answered(c) \/ Failed(c) \/ Answer(c)
    \/ Upgrade
    \/ Tick

Spec == Init /\ [][Next]_vars

\* "Cache timeout in seconds for the RPC API Version"
\* (json-rpc-provider.ts:100): a call that is answered from the cache is given
\* a version fetched no longer ago than the timeout.
NotPastTimeout ==
    [][\A c \in Calls :
        calls[c].pc = "idle" /\ calls'[c].pc = "cached" => now < fetchedAt + CacheTimeout]_vars
=============================================================================
