--------------------------- MODULE WebsocketClient ---------------------------
(***************************************************************************)
(* The subscription client of src/src/rpc/websocket-client.ts: one socket   *)
(* at a time, a map of subscriptions that survives reconnects, a counter of *)
(* disconnects that decides when to stop reconnecting, and the promises of  *)
(* the calls in flight.  The JSON-RPC library (@open-rpc/client-js), the    *)
(* socket and the server are external: a call issued before "open" waits    *)
(* for it, a call on a socket that closed is never answered, any call may   *)
(* be rejected by its timeout or by an error answer, and the server drops   *)
(* the subscriptions of a connection that closes.                           *)
(*                                                                          *)
(* The program is single-threaded: the code between two awaits is one       *)
(* action, and every await is a point where any other action may run.       *)
(***************************************************************************)
EXTENDS Integers, FiniteSets

CONSTANTS
    Sessions,       \* calls to request() made by users of the client
    MaxReconnects,  \* options.maxReconnects; 0 stands for undefined too: no close is retried
    MaxConns,       \* bound: connections 1 .. MaxConns-1 may close, the last stays up
    CallsMayFail    \* TRUE if a call on a usable connection may time out or be refused

ASSUME SessionsAssumption == IsFiniteSet(Sessions)
ASSUME BoundsAssumption ==
    /\ MaxConns \in Nat \ {0}
    /\ MaxReconnects \in Nat
    /\ CallsMayFail \in BOOLEAN

VARIABLES
    client,       \* #client: 0 for null, else the number of the connection it wraps
    created,      \* connections constructed so far
    conn,         \* conn[c]: the state of socket c
    disconnects,  \* #disconnects
    timers,       \* reconnect timers set and not fired
    subs,         \* #subscriptions, as the set of its values (keyed by initialId)
    reqs,         \* calls in flight, with what the server still holds of the dead ones
    nextId,       \* external: the next subscription id the server hands out
    live,         \* external: subscriptions the server holds, per connection
    status,       \* status[s]: where session s is in its use of the client
    handle,       \* handle[s]: the initialId closed over by s's unsubscribe function
    received      \* received[s]: onMessage of s has run

vars == <<client, created, conn, disconnects, timers, subs, reqs, nextId, live,
          status, handle, received>>

Conns     == 1 .. MaxConns
NoClient  == 0
NoId      == 0      \* undefined: `input.initialId || id` treats both alike

\* "failed" closed before it opened, "closed" after.
ConnState == {"unused", "connecting", "open", "closing", "failed", "closed"}
Dead(c)   == conn[c] \in {"failed", "closed"}

Entry   == [initialId : Nat, id : Nat, sess : Sessions]
Request == [op   : {"subscribe", "unsubscribe"},
            conn : Conns,
            sess : Sessions,
            key  : Nat,     \* input.initialId of a subscribe
            id   : Nat,     \* the id answered, or the id to unsubscribe
            st   : {"waiting", "sent", "answered",  \* the promise is pending
                    "abandoned", "orphaned",        \* rejected by the timeout
                    "refused"}]                     \* rejected by an error answer

Pending(r) == r.st \in {"waiting", "sent", "answered"}

InState(r, st)     == [r EXCEPT !.st = st]
Holding(r, i, st)  == [r EXCEPT !.id = i, !.st = st]

Init ==
    /\ client = NoClient
    /\ created = 0
    /\ conn = [c \in Conns |-> "unused"]
    /\ disconnects = 0
    /\ timers = 0
    /\ subs = {}
    /\ reqs = {}
    /\ nextId = 1
    /\ live = {}
    /\ status = [s \in Sessions |-> "idle"]
    /\ handle = [s \in Sessions |-> NoId]
    /\ received = [s \in Sessions |-> FALSE]

-----------------------------------------------------------------------------
(* #setupClient: return the client, constructing one when there is none.    *)

\* Mutants: a client per request; a new client in place of a dead one.
MutNeedsClientAlways(cl) == TRUE
MutNeedsClientIfDead(cl) == IF cl = NoClient THEN TRUE ELSE Dead(cl)

NeedsClient(cl) == cl = NoClient

SetupConn(cl) == IF NeedsClient(cl) THEN created + 1 ELSE cl

SetupClient(cl) ==
    /\ client' = SetupConn(cl)
    /\ created' = IF NeedsClient(cl) THEN created + 1 ELSE created

OpenSocket(cl, sockets) ==
    IF NeedsClient(cl) THEN [sockets EXCEPT ![created + 1] = "connecting"] ELSE sockets

\* A call waits for the connection; on a socket that closed after opening it
\* is written and lost.
IssueState(c) == IF conn[c] \in {"open", "closing", "closed"} THEN "sent" ELSE "waiting"

SubscribeCall(c, s, k, st) ==
    [op |-> "subscribe", conn |-> c, sess |-> s, key |-> k, id |-> NoId, st |-> st]

UnsubscribeCall(c, s, i, st) ==
    [op |-> "unsubscribe", conn |-> c, sess |-> s, key |-> NoId, id |-> i, st |-> st]

-----------------------------------------------------------------------------
(* Users of the client.                                                     *)

\* request(input), up to `await client.request(...)`.
Subscribe(s) ==
    /\ status[s] = "idle"
    /\ SetupClient(client)
    /\ conn' = OpenSocket(client, conn)
    /\ LET c == SetupConn(client) IN
       reqs' = reqs \cup {SubscribeCall(c, s, NoId, IssueState(c))}
    /\ status' = [status EXCEPT ![s] = "requesting"]
    /\ UNCHANGED <<disconnects, timers, subs, nextId, live, handle, received>>

\* Mutant: the entry is deleted and the server is not told.
MutUnsubscribeLocally(s) ==
    /\ status[s] \in {"subscribed", "left"}
    /\ SetupClient(client)
    /\ conn' = OpenSocket(client, conn)
    /\ subs' = {e \in subs : e.initialId # handle[s]}
    /\ status' = [status EXCEPT ![s] = "left"]
    /\ UNCHANGED <<disconnects, timers, reqs, nextId, live, handle, received>>

\* The function request() returned; users may call it again and again.  The
\* socket is set up before the map is looked at.
Unsubscribe(s) ==
    /\ status[s] \in {"subscribed", "left"}
    /\ SetupClient(client)
    /\ conn' = OpenSocket(client, conn)
    /\ LET c     == SetupConn(client)
           found == {e \in subs : e.initialId = handle[s]}
       IN  /\ subs' = subs \ found
           /\ reqs' = reqs \cup {UnsubscribeCall(c, s, e.id, IssueState(c)) : e \in found}
    /\ status' = [status EXCEPT ![s] = "left"]
    /\ UNCHANGED <<disconnects, timers, nextId, live, handle, received>>

-----------------------------------------------------------------------------
(* Events of the socket.                                                    *)

OpenWith(c, count) ==
    /\ conn[c] = "connecting"
    /\ conn' = [conn EXCEPT ![c] = "open"]
    /\ disconnects' = count
    /\ reqs' = {IF r.conn = c /\ r.st = "waiting" THEN InState(r, "sent") ELSE r : r \in reqs}
    /\ UNCHANGED <<client, created, timers, subs, nextId, live, status, handle, received>>

\* Mutants: the count survives the open; the first close after it is free.
MutOpenKeepsCount(c) == OpenWith(c, disconnects)
MutOpenFreeClose(c)  == OpenWith(c, -1)

Open(c) == OpenWith(c, 0)

\* What the client still waits for on a closed connection is never answered,
\* and the server forgets the connection.
ForgetConn(c) ==
    /\ reqs' = {IF r.conn = c /\ r.st = "answered"
                THEN Holding(r, IF r.op = "subscribe" THEN NoId ELSE r.id, "sent")
                ELSE r : r \in {q \in reqs : q.conn = c => Pending(q)}}
    /\ live' = {l \in live : l.conn # c}

Close(c) ==
    /\ conn[c] \in {"connecting", "open", "closing"}
    /\ c < MaxConns
    /\ conn' = [conn EXCEPT ![c] = IF @ = "connecting" THEN "failed" ELSE "closed"]
    /\ disconnects' = disconnects + 1
    /\ timers' = IF disconnects + 1 <= MaxReconnects THEN timers + 1 ELSE timers
    /\ ForgetConn(c)
    /\ UNCHANGED <<client, created, subs, nextId, status, handle, received>>

\* Mutant: the client is dropped and nothing is requested again.
MutReconnectForgets ==
    /\ timers > 0
    /\ timers' = timers - 1
    /\ client' = NoClient
    /\ UNCHANGED <<created, conn, disconnects, subs, reqs, nextId, live, status, handle,
                   received>>

\* The reconnect timer: close the client, drop it, and request every
\* subscription of the map again; the first request constructs the new client.
Reconnect ==
    /\ timers > 0
    /\ timers' = timers - 1
    /\ LET closed == [c \in Conns |->
                        IF c = client /\ conn[c] \in {"connecting", "open"}
                        THEN "closing" ELSE conn[c]]
       IN  IF subs = {}
           THEN /\ client' = NoClient
                /\ conn' = closed
                /\ UNCHANGED <<created, reqs>>
           ELSE /\ SetupClient(NoClient)
                /\ conn' = OpenSocket(NoClient, closed)
                /\ reqs' = reqs \cup {SubscribeCall(SetupConn(NoClient), e.sess,
                                                    e.initialId, "waiting") : e \in subs}
    /\ UNCHANGED <<disconnects, subs, nextId, live, status, handle, received>>

-----------------------------------------------------------------------------
(* External: the server answers what an open connection brings it.          *)

ServerSubscribe(r) ==
    /\ r.op = "subscribe"
    /\ r.st \in {"sent", "abandoned"}
    /\ conn[r.conn] = "open"
    /\ live' = live \cup {[conn |-> r.conn, id |-> nextId, sess |-> r.sess]}
    /\ nextId' = nextId + 1
    /\ reqs' = (reqs \ {r}) \cup
         {Holding(r, nextId, IF r.st = "sent" THEN "answered" ELSE "orphaned")}
    /\ UNCHANGED <<client, created, conn, disconnects, timers, subs, status, handle, received>>

ServerUnsubscribe(r) ==
    /\ r.op = "unsubscribe"
    /\ r.st \in {"sent", "abandoned"}
    /\ conn[r.conn] = "open"
    /\ live' = {l \in live : ~(l.conn = r.conn /\ l.id = r.id)}
    /\ reqs' = reqs \ {r}
    /\ UNCHANGED <<client, created, conn, disconnects, timers, subs, nextId, status,
                   handle, received>>

\* request(), after the await: enter the map under the id of the first answer.
\* Mutants: the key is always the latest id; the old entry's id is kept.
MutInitialIdLatest(r) == r.id

MutMapSetKeepsId(k, i, s) ==
    LET old == {e \in subs : e.initialId = k}
    IN  (subs \ old) \cup
        {[initialId |-> k, id |-> IF old = {} THEN i ELSE (CHOOSE e \in old : TRUE).id,
          sess |-> s]}

InitialId(r) == IF r.key # NoId THEN r.key ELSE r.id

MapSet(k, i, s) ==
    {e \in subs : e.initialId # k} \cup {[initialId |-> k, id |-> i, sess |-> s]}

Resolve(r) ==
    /\ r.op = "subscribe"
    /\ r.st = "answered"
    /\ conn[r.conn] = "open"
    /\ subs' = MapSet(InitialId(r), r.id, r.sess)
    /\ reqs' = reqs \ {r}
    /\ IF status[r.sess] = "requesting"
       THEN /\ status' = [status EXCEPT ![r.sess] = "subscribed"]
            /\ handle' = [handle EXCEPT ![r.sess] = InitialId(r)]
       ELSE UNCHANGED <<status, handle>>
    /\ UNCHANGED <<client, created, conn, disconnects, timers, nextId, live, received>>

\* The promise is rejected.  A first request fails its caller; nobody handles
\* the rejection of a request made by #reconnect: its entry stays in the map,
\* under the id of the connection before.
FailsCaller(r) ==
    status' = IF r.op = "subscribe" /\ status[r.sess] = "requesting"
              THEN [status EXCEPT ![r.sess] = "failed"] ELSE status

\* By callTimeout; the server may answer the call all the same.
CallTimeout(r) ==
    /\ Pending(r)
    /\ conn[r.conn] \in {"connecting", "open"} => CallsMayFail
    /\ reqs' = (reqs \ {r}) \cup
         (IF Dead(r.conn) THEN {}
          ELSE {InState(r, IF r.st = "answered" THEN "orphaned" ELSE "abandoned")})
    /\ FailsCaller(r)
    /\ UNCHANGED <<client, created, conn, disconnects, timers, subs, nextId, live,
                   handle, received>>

\* By a JSON-RPC error of the server, which leaves things there as they were.
\* An error that comes after the timeout finds nobody waiting.
CallRefused(r) ==
    /\ r.st = "sent"
    /\ conn[r.conn] = "open"
    /\ CallsMayFail
    /\ reqs' = (reqs \ {r}) \cup {InState(r, "refused")}
    /\ FailsCaller(r)
    /\ UNCHANGED <<client, created, conn, disconnects, timers, subs, nextId, live,
                   handle, received>>

\* onNotification: every subscription whose id matches gets the message.
\* Mutant: matched by the first id instead of the latest.
MutReceiversByInitialId(i) == {e \in subs : e.initialId = i}

Receivers(i) == {e \in subs : e.id = i}

Notify(l) ==
    /\ conn[l.conn] = "open"
    /\ received' = [s \in Sessions |->
                      received[s] \/ \E e \in Receivers(l.id) : e.sess = s]
    /\ UNCHANGED <<client, created, conn, disconnects, timers, subs, reqs, nextId, live,
                   status, handle>>

-----------------------------------------------------------------------------
Next ==
    \/ \E s \in Sessions : Subscribe(s)
    \/ \E s \in Sessions : Unsubscribe(s)
    \/ \E c \in Conns : Open(c)
    \/ \E c \in Conns : Close(c)
    \/ Reconnect
    \/ \E r \in reqs : ServerSubscribe(r)
    \/ \E r \in reqs : ServerUnsubscribe(r)
    \/ \E r \in reqs : Resolve(r)
    \/ \E r \in reqs : CallTimeout(r)
    \/ \E r \in reqs : CallRefused(r)
    \/ \E l \in live : Notify(l)

Spec == Init /\ [][Next]_vars

(***************************************************************************)
(* Fairness: a connection attempt ends, one way or the other; a timer that  *)
(* was set fires (setTimeout); the server answers and notifies over a       *)
(* connection that stays open, and the event loop runs the continuation.    *)
(* Users owe nothing, and neither does the timeout.                         *)
(***************************************************************************)
Fairness ==
    /\ \A c \in Conns : WF_vars(Open(c) \/ (conn[c] # "open" /\ Close(c)))
    /\ WF_vars(Reconnect)
    /\ WF_vars(\E r \in reqs : ServerSubscribe(r))
    /\ WF_vars(\E r \in reqs : ServerUnsubscribe(r))
    /\ WF_vars(\E r \in reqs : Resolve(r))
    /\ \A s \in Sessions : WF_vars(\E l \in live : l.sess = s /\ Notify(l))

FairSpec == Spec /\ Fairness

-----------------------------------------------------------------------------
(* Properties.                                                              *)

\* Every variable holds what the code's declarations say it holds.
TypeOK ==
    /\ client \in 0 .. MaxConns
    /\ created \in 0 .. MaxConns
    /\ conn \in [Conns -> ConnState]
    /\ disconnects \in Nat
    /\ timers \in Nat
    /\ subs \subseteq Entry
    /\ reqs \subseteq Request
    /\ nextId \in Nat \ {0}
    /\ live \subseteq [conn : Conns, id : Nat, sess : Sessions]
    /\ status \in [Sessions -> {"idle", "requesting", "subscribed", "failed", "left"}]
    /\ handle \in [Sessions -> Nat]
    /\ received \in [Sessions -> BOOLEAN]

\* At most one socket is not closed, and it is the one #client wraps: the
\* reconnects of #setupClient and #reconnect leak no socket.
OneLiveSocket ==
    \A c \in Conns : conn[c] \in {"connecting", "open", "closing"} => c = client

\* At most one reconnect is pending, and only while the current socket is
\* dead: #reconnect never closes a socket that works.
OneReconnectPending ==
    /\ timers <= 1
    /\ timers = 1 => client # NoClient /\ Dead(client)

\* The connections that closed since one last opened.
ClosedInARow ==
    {c \in Conns : /\ Dead(c)
                   /\ \A d \in Conns : d > c => conn[d] \notin {"open", "closing", "closed"}}

\* The client stops reconnecting exactly when maxReconnects closes in a row
\* were not enough ("Maximum number of times to try connecting before giving
\* up"): never before, and never a connection more.
GivesUpOnlyWhenExhausted ==
    /\ disconnects = Cardinality(ClosedInARow)
    /\ disconnects <= MaxReconnects + 1
    /\ client # NoClient /\ Dead(client) /\ timers = 0 => disconnects > MaxReconnects

GivenUp == client # NoClient /\ Dead(client) /\ timers = 0

Listening(e) ==
    /\ client # NoClient
    /\ conn[client] = "open"
    /\ \E l \in live : l.conn = client /\ l.id = e.id

Requests(e) ==
    {r \in reqs : r.op = "subscribe" /\ r.conn = client /\ r.sess = e.sess /\ r.key = e.initialId}

AskedAgain(e) == \E r \in Requests(e) : Pending(r)

Rejected(e)   == \E r \in Requests(e) : ~Pending(r)

\* A subscription in the map listens on the current connection, or a reconnect
\* is due, or it is being asked for again on this connection, or the client gave
\* up: no reconnect forgets one.  The only other way to fall silent is that the
\* re-request on this very connection was rejected, by the timeout or by an error
\* answer; nothing retries it then, and the next reconnect asks again.
NoEntryForgotten ==
    \A e \in subs : Listening(e) \/ timers > 0 \/ AskedAgain(e) \/ GivenUp \/ Rejected(e)

\* A message the server sends for one subscription reaches the callback of
\* the session that made it, at most once ("This function is called once per
\* subscription message", README.md:331), whatever the reconnects in between.
DeliveredOnceToOwner ==
    /\ \A l \in live : /\ \A e \in Receivers(l.id) : e.sess = l.sess
                       /\ Cardinality(Receivers(l.id)) <= 1
    /\ \A e1, e2 \in subs : e1.sess = e2.sess => e1 = e2

\* The server holds no subscription the client lost track of: each one is in
\* the map, in an answer still to be processed, the late product of a call that
\* timed out, being unsubscribed, or one that the server would not unsubscribe.
NoServerLeak ==
    \A l \in live :
        \/ \E e \in subs : e.id = l.id
        \/ \E r \in reqs : r.conn = l.conn /\ r.id = l.id

\* A function returned by request() never stops referring to its own
\* subscription: the session's entry stays under the id it closed over.
HandleFindsEntry ==
    \A e \in subs : e.initialId = handle[e.sess]

\* Once the client has given up it never opens a connection again, whatever
\* is asked of it: the dead client stays in #client and is returned forever.
GivenUpForGood == [][GivenUp => GivenUp']_vars

\* After unsubscribe() has removed a session's subscription it stays removed
\* (README.md:335-337, "later, to unsubscribe ... subFoundAndRemoved").
UnsubscribedStaysRemoved ==
    [][\A s \in Sessions :
          status[s] = "left" /\ ~(\E e \in subs : e.sess = s)
            => ~(\E e \in subs' : e.sess = s)]_vars

\* The service of Subscriptions, as this client gives it: a session is kept by
\* its entry in the map, and recalled by a request that #reconnect made on the
\* present socket and that is still waited for.
KeptSessions      == {e.sess : e \in subs}
ListeningSessions == {e.sess : e \in {d \in subs : Listening(d)}}

Recalling(r) == /\ r.op = "subscribe" /\ r.key # NoId /\ Pending(r)
                /\ r.conn = client /\ ~Dead(client)

RecalledSessions == {r.sess : r \in {q \in reqs : Recalling(q)}}

Service == INSTANCE Subscriptions WITH
    phase     <- status,
    kept      <- KeptSessions,
    recalled  <- RecalledSessions,
    listening <- ListeningSessions,
    heard     <- {s \in Sessions : received[s]},
    lost      <- disconnects

\* To a user, sockets, reconnects and ids are a service that loses and recalls
\* subscriptions: each session listens from when request() returns until it
\* leaves or the connection is lost, a message goes to one session that listens,
\* only what a reconnect found in the map comes back, and after maxReconnects
\* losses in a row nothing does.
ImplementsService == Service!Spec

\* Once connections stop closing, every subscription of the map listens for
\* good, unless the client gave up; if no call on a usable connection fails.
EventuallyListening ==
    <>[](\A e \in subs : Listening(e) \/ GivenUp)

\* A session that is subscribed gets its messages, unless it leaves or the
\* client gives up.
SubscribedGetsMessages ==
    \A s \in Sessions : status[s] = "subscribed" ~> (received[s] \/ status[s] = "left" \/ GivenUp)
=============================================================================
