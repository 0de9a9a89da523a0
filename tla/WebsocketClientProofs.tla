------------------------ MODULE WebsocketClientProofs ------------------------
(***************************************************************************)
(* Theorems about WebsocketClient for every set of sessions, every number   *)
(* of reconnects and every bound on connections.                            *)
(***************************************************************************)
EXTENDS WebsocketClient, FiniteSetTheorems, TLAPS

\* Connections are constructed one after the other, and #client wraps the last.
CreatedInOrder ==
    /\ \A c \in Conns : conn[c] = "unused" <=> c > created
    /\ client # NoClient => client = created

\* The connection that stays up is never dead (the bound on closes).
LastStaysUp == \A c \in Conns : Dead(c) => c < MaxConns

\* What the reconnect machinery maintains, and with the types an inductive
\* invariant: without CreatedInOrder a new socket could reuse a number, and
\* without LastStaysUp there might be no number left for it.
SocketInv ==
    /\ CreatedInOrder
    /\ LastStaysUp
    /\ OneLiveSocket
    /\ OneReconnectPending

IInv == TypeOK /\ SocketInv

\* While #client is null every connection made so far is dead.
LEMMA NullClient ==
    ASSUME IInv, client = NoClient
    PROVE  /\ created + 1 \in Conns
           /\ conn[created + 1] = "unused"
           /\ timers = 0
           /\ \A c \in Conns : conn[c] \in {"unused", "failed", "closed"}
<1> USE BoundsAssumption DEF IInv, TypeOK, SocketInv, CreatedInOrder, NoClient, Conns
<1>1. timers = 0
  BY DEF OneReconnectPending
<1>2. \A c \in Conns : conn[c] \in {"unused", "failed", "closed"}
  BY DEF OneLiveSocket, ConnState
<1>3. created < MaxConns
  <2>1. CASE created = 0
    BY <2>1
  <2>2. CASE created # 0
    <3>1. created \in Conns /\ conn[created] # "unused"
      BY <2>2
    <3>2. Dead(created)
      BY <3>1, <1>2 DEF Dead
    <3>3. QED
      BY <3>1, <3>2 DEF LastStaysUp
  <2>3. QED
    BY <2>1, <2>2
<1>4. created + 1 \in Conns
  BY <1>3
<1>5. QED
  BY <1>1, <1>2, <1>4

\* #setupClient keeps the invariant of the sockets.
LEMMA SetupClientKeepsSockets ==
    ASSUME IInv, SetupClient(client), conn' = OpenSocket(client, conn), timers' = timers
    PROVE  /\ client' \in Conns
           /\ client' = SetupConn(client)
           /\ created' \in 0 .. MaxConns
           /\ conn' \in [Conns -> ConnState]
           /\ SocketInv'
<1> USE BoundsAssumption
<1>1. CASE client = NoClient
  <2>1. /\ client' = created + 1
        /\ created' = created + 1
        /\ conn' = [conn EXCEPT ![created + 1] = "connecting"]
    BY <1>1 DEF SetupClient, SetupConn, OpenSocket, NeedsClient
  <2>2. /\ created + 1 \in Conns
        /\ conn[created + 1] = "unused"
        /\ timers = 0
        /\ \A c \in Conns : conn[c] \in {"unused", "failed", "closed"}
    BY <1>1, NullClient
  <2>3. /\ conn' \in [Conns -> ConnState]
        /\ conn'[created + 1] = "connecting"
        /\ \A c \in Conns : c # created + 1 => conn'[c] = conn[c]
    BY <2>1, <2>2 DEF IInv, TypeOK, ConnState
  <2>4. CreatedInOrder'
    BY <2>1, <2>2, <2>3 DEF IInv, TypeOK, SocketInv, CreatedInOrder, NoClient, Conns
  <2>5. LastStaysUp'
    BY <2>2, <2>3 DEF IInv, SocketInv, LastStaysUp, Dead
  <2>6. OneLiveSocket'
    BY <2>1, <2>2, <2>3 DEF OneLiveSocket
  <2>7. OneReconnectPending'
    BY <2>2 DEF OneReconnectPending
  <2>8. QED
    BY <2>1, <2>2, <2>3, <2>4, <2>5, <2>6, <2>7 DEF SocketInv, Conns, SetupConn, SetupClient
<1>2. CASE client # NoClient
  <2>1. client' = client /\ created' = created /\ conn' = conn
    BY <1>2 DEF SetupClient, SetupConn, OpenSocket, NeedsClient
  <2>2. SocketInv'
    BY <2>1 DEF IInv, SocketInv, CreatedInOrder, LastStaysUp, OneLiveSocket,
                OneReconnectPending, Dead
  <2>3. QED
    BY <1>2, <2>1, <2>2 DEF IInv, TypeOK, Conns, NoClient, SetupClient
<1>3. QED
  BY <1>1, <1>2

\* A reconnect timer only fires while the current socket is dead, so closing
\* the client changes no socket.
LEMMA ReconnectClosesNothing ==
    ASSUME IInv, timers > 0
    PROVE  [c \in Conns |-> IF c = client /\ conn[c] \in {"connecting", "open"}
                            THEN "closing" ELSE conn[c]] = conn
BY DEF IInv, TypeOK, SocketInv, OneReconnectPending, Dead

\* The calls the client issues are requests.
LEMMA IssuedCalls ==
    ASSUME NEW c \in Conns, NEW s \in Sessions, NEW n \in Nat, NEW st \in {"waiting", "sent"}
    PROVE  /\ SubscribeCall(c, s, n, st) \in Request
           /\ UnsubscribeCall(c, s, n, st) \in Request
BY DEF SubscribeCall, UnsubscribeCall, Request, NoId

LEMMA IssueStateType == ASSUME NEW c PROVE IssueState(c) \in {"waiting", "sent"}
BY DEF IssueState

\* Changing the state of a request, or the id it holds, leaves it a request.
LEMMA ChangedRequest ==
    ASSUME NEW r \in Request, NEW n \in Nat,
           NEW st \in {"waiting", "sent", "answered", "abandoned", "orphaned", "refused"}
    PROVE  /\ InState(r, st) \in Request
           /\ Holding(r, n, st) \in Request
BY DEF Request, InState, Holding

\* The sockets are as they were when the variables they live in are.
LEMMA SocketsUnchanged ==
    ASSUME SocketInv, UNCHANGED <<client, created, conn, timers>>
    PROVE  SocketInv'
BY DEF SocketInv, CreatedInOrder, LastStaysUp, OneLiveSocket, OneReconnectPending, Dead

LEMMA InitEstablishesIInv == Init => IInv
<1> SUFFICES ASSUME Init PROVE IInv
  OBVIOUS
<1> USE BoundsAssumption
<1>1. TypeOK
  BY DEF Init, TypeOK, NoClient, NoId, ConnState
<1>2. SocketInv
  BY DEF Init, SocketInv, CreatedInOrder, LastStaysUp, OneLiveSocket, OneReconnectPending,
         Dead, NoClient, Conns
<1>3. QED
  BY <1>1, <1>2 DEF IInv

LEMMA SubscribeKeepsIInv ==
    ASSUME IInv, NEW s \in Sessions, Subscribe(s)
    PROVE  IInv'
<1> DEFINE c == SetupConn(client)
<1>1. /\ client' \in Conns
      /\ client' = c
      /\ created' \in 0 .. MaxConns
      /\ conn' \in [Conns -> ConnState]
      /\ SocketInv'
  BY SetupClientKeepsSockets DEF Subscribe
<1>2. SubscribeCall(c, s, NoId, IssueState(c)) \in Request
  BY <1>1, IssuedCalls, IssueStateType DEF NoId
<1>3. reqs' \subseteq Request
  BY <1>2 DEF Subscribe, IInv, TypeOK
<1>4. TypeOK'
  BY <1>1, <1>3 DEF Subscribe, IInv, TypeOK, Conns
<1>5. QED
  BY <1>1, <1>4 DEF IInv

LEMMA UnsubscribeKeepsIInv ==
    ASSUME IInv, NEW s \in Sessions, Unsubscribe(s)
    PROVE  IInv'
<1> DEFINE c     == SetupConn(client)
           found == {e \in subs : e.initialId = handle[s]}
<1>1. /\ client' \in Conns
      /\ client' = c
      /\ created' \in 0 .. MaxConns
      /\ conn' \in [Conns -> ConnState]
      /\ SocketInv'
  BY SetupClientKeepsSockets DEF Unsubscribe
<1>2. ASSUME NEW e \in found
      PROVE  UnsubscribeCall(c, s, e.id, IssueState(c)) \in Request
  <2>1. e.id \in Nat
    BY DEF IInv, TypeOK, Entry
  <2>2. QED
    BY <1>1, <2>1, IssuedCalls, IssueStateType
<1>3. reqs' \subseteq Request
  BY <1>2 DEF Unsubscribe, IInv, TypeOK
<1>4. TypeOK'
  BY <1>1, <1>3 DEF Unsubscribe, IInv, TypeOK, Conns
<1>5. QED
  BY <1>1, <1>4 DEF IInv

LEMMA OpenKeepsIInv ==
    ASSUME IInv, NEW c \in Conns, Open(c)
    PROVE  IInv'
<1> USE DEF Open, OpenWith
<1>1. reqs' \subseteq Request
  BY ChangedRequest DEF IInv, TypeOK
<1>2. conn' \in [Conns -> ConnState] /\ conn'[c] = "open"
      /\ \A d \in Conns : d # c => conn'[d] = conn[d]
  BY DEF IInv, TypeOK, ConnState
<1>3. TypeOK'
  BY <1>1, <1>2 DEF IInv, TypeOK
<1>4. SocketInv'
  BY <1>2 DEF IInv, SocketInv, CreatedInOrder, LastStaysUp, OneLiveSocket,
              OneReconnectPending, Dead
<1>5. QED
  BY <1>3, <1>4 DEF IInv

LEMMA CloseKeepsIInv ==
    ASSUME IInv, NEW c \in Conns, Close(c)
    PROVE  IInv'
<1> USE DEF Close
<1>1. reqs' \subseteq Request
  <2>1. ASSUME NEW r \in reqs
        PROVE  Holding(r, IF r.op = "subscribe" THEN NoId ELSE r.id, "sent") \in Request
    <3>1. r \in Request /\ r.id \in Nat /\ NoId \in Nat
      BY DEF IInv, TypeOK, Request, NoId
    <3>2. QED
      BY <3>1, ChangedRequest
  <2>2. QED
    BY <2>1 DEF ForgetConn, IInv, TypeOK
<1>2. conn' \in [Conns -> ConnState] /\ conn'[c] \in {"failed", "closed"}
      /\ \A d \in Conns : d # c => conn'[d] = conn[d]
  BY DEF IInv, TypeOK, ConnState
<1>3. c = client /\ timers = 0
  <2>1. c = client
    BY DEF IInv, SocketInv, OneLiveSocket
  <2>2. timers # 1
    BY <2>1 DEF IInv, SocketInv, OneReconnectPending, Dead
  <2>3. QED
    BY <2>1, <2>2 DEF IInv, TypeOK, SocketInv, OneReconnectPending
<1>4. TypeOK'
  BY <1>1, <1>2 DEF ForgetConn, IInv, TypeOK
<1>5. OneReconnectPending'
  BY <1>2, <1>3 DEF OneReconnectPending, Dead, IInv, TypeOK, NoClient, Conns
<1>6. SocketInv'
  BY <1>2, <1>3, <1>5 DEF IInv, SocketInv, CreatedInOrder, LastStaysUp, OneLiveSocket, Dead
<1>7. QED
  BY <1>4, <1>6 DEF IInv

LEMMA ReconnectKeepsIInv ==
    ASSUME IInv, Reconnect
    PROVE  IInv'
<1> DEFINE closed == [c \in Conns |-> IF c = client /\ conn[c] \in {"connecting", "open"}
                                      THEN "closing" ELSE conn[c]]
<1> USE BoundsAssumption
<1>1. closed = conn
  BY ReconnectClosesNothing DEF Reconnect
<1>2. timers' = 0 /\ client \in Conns /\ Dead(client) /\ client = created
  BY DEF Reconnect, IInv, TypeOK, SocketInv, OneReconnectPending, CreatedInOrder, NoClient, Conns
<1>3. \A c \in Conns : conn[c] \notin {"connecting", "open", "closing"}
  BY <1>2 DEF IInv, SocketInv, OneLiveSocket, Dead
<1>4. CASE subs = {}
  <2>1. /\ client' = NoClient /\ created' = created /\ conn' = conn /\ reqs' = reqs
    BY <1>1, <1>4 DEF Reconnect
  <2>2. TypeOK'
    BY <2>1, <1>2 DEF Reconnect, IInv, TypeOK, NoClient
  <2>3. SocketInv'
    BY <2>1, <1>2, <1>3 DEF IInv, SocketInv, CreatedInOrder, LastStaysUp, OneLiveSocket,
                            OneReconnectPending, Dead, NoClient
  <2>4. QED
    BY <2>2, <2>3 DEF IInv
<1>5. CASE subs # {}
  <2> DEFINE n == created + 1
  <2>1. /\ client' = n /\ created' = n /\ conn' = [conn EXCEPT ![n] = "connecting"]
        /\ reqs' = reqs \cup {SubscribeCall(n, e.sess, e.initialId, "waiting") : e \in subs}
    BY <1>1, <1>5 DEF Reconnect, SetupClient, SetupConn, OpenSocket, NeedsClient
  <2>2. n \in Conns
    BY <1>2 DEF IInv, SocketInv, LastStaysUp, Conns
  <2>3. /\ conn' \in [Conns -> ConnState] /\ conn'[n] = "connecting"
        /\ \A c \in Conns : c # n => conn'[c] = conn[c]
    BY <2>1, <2>2 DEF IInv, TypeOK, ConnState
  <2>4. reqs' \subseteq Request
    <3>1. ASSUME NEW e \in subs
          PROVE  SubscribeCall(n, e.sess, e.initialId, "waiting") \in Request
      <4>1. e.sess \in Sessions /\ e.initialId \in Nat
        BY DEF IInv, TypeOK, Entry
      <4>2. QED
        BY <2>2, <4>1, IssuedCalls
    <3>2. QED
      BY <2>1, <3>1 DEF IInv, TypeOK
  <2>5. TypeOK'
    BY <2>1, <2>2, <2>3, <2>4, <1>2 DEF Reconnect, IInv, TypeOK, Conns
  <2>6. CreatedInOrder'
    BY <2>1, <2>2, <2>3, <1>2 DEF IInv, TypeOK, SocketInv, CreatedInOrder, Conns
  <2>7. LastStaysUp' /\ OneLiveSocket' /\ OneReconnectPending'
    BY <2>1, <2>3, <1>2, <1>3 DEF IInv, SocketInv, LastStaysUp, OneLiveSocket,
                                  OneReconnectPending, Dead
  <2>8. QED
    BY <2>5, <2>6, <2>7 DEF IInv, SocketInv
<1>6. QED
  BY <1>4, <1>5

\* The server, the answers, the rejections and the notifications touch no socket.
LEMMA AnswersKeepIInv ==
    ASSUME IInv,
           \/ \E r \in reqs : ServerSubscribe(r) \/ ServerUnsubscribe(r)
           \/ \E r \in reqs : Resolve(r) \/ CallTimeout(r) \/ CallRefused(r)
           \/ \E l \in live : Notify(l)
    PROVE  IInv'
<1>1. SocketInv'
  BY SocketsUnchanged DEF IInv, ServerSubscribe, ServerUnsubscribe, Resolve, CallTimeout, CallRefused, Notify
<1>2. ASSUME NEW r \in reqs, ServerSubscribe(r) PROVE TypeOK'
  <2>1. r \in Request /\ nextId \in Nat /\ r.conn \in Conns /\ r.sess \in Sessions
    BY DEF IInv, TypeOK, Request
  <2>2. Holding(r, nextId, IF r.st = "sent" THEN "answered" ELSE "orphaned") \in Request
    BY <2>1, ChangedRequest
  <2>3. /\ reqs' \subseteq Request
        /\ nextId' \in Nat \ {0}
        /\ live' \subseteq [conn : Conns, id : Nat, sess : Sessions]
    BY <1>2, <2>1, <2>2 DEF ServerSubscribe, IInv, TypeOK
  <2>4. QED
    BY <1>2, <2>3 DEF ServerSubscribe, IInv, TypeOK
<1>3. ASSUME NEW r \in reqs, ServerUnsubscribe(r) PROVE TypeOK'
  BY <1>3 DEF ServerUnsubscribe, IInv, TypeOK
<1>4. ASSUME NEW r \in reqs, Resolve(r) PROVE TypeOK'
  <2>1. r.sess \in Sessions /\ r.id \in Nat /\ InitialId(r) \in Nat
    BY DEF IInv, TypeOK, Request, InitialId
  <2>2. subs' \subseteq Entry
    BY <1>4, <2>1 DEF Resolve, MapSet, IInv, TypeOK, Entry
  <2>3. /\ status' \in [Sessions -> {"idle", "requesting", "subscribed", "failed", "left"}]
        /\ handle' \in [Sessions -> Nat]
    BY <1>4, <2>1 DEF Resolve, IInv, TypeOK
  <2>4. QED
    BY <1>4, <2>2, <2>3 DEF Resolve, IInv, TypeOK
<1>5. ASSUME NEW r \in reqs, CallTimeout(r) PROVE TypeOK'
  <2>1. r \in Request /\ r.sess \in Sessions
    BY DEF IInv, TypeOK, Request
  <2>2. InState(r, IF r.st = "answered" THEN "orphaned" ELSE "abandoned") \in Request
    BY <2>1, ChangedRequest
  <2>3. reqs' \subseteq Request
    BY <1>5, <2>2 DEF CallTimeout, IInv, TypeOK
  <2>4. QED
    BY <1>5, <2>1, <2>3 DEF CallTimeout, FailsCaller, IInv, TypeOK
<1>6. ASSUME NEW r \in reqs, CallRefused(r) PROVE TypeOK'
  <2>1. r \in Request /\ r.sess \in Sessions
    BY DEF IInv, TypeOK, Request
  <2>2. InState(r, "refused") \in Request
    BY <2>1, ChangedRequest
  <2>3. reqs' \subseteq Request
    BY <1>6, <2>2 DEF CallRefused, IInv, TypeOK
  <2>4. QED
    BY <1>6, <2>1, <2>3 DEF CallRefused, FailsCaller, IInv, TypeOK
<1>7. ASSUME NEW l \in live, Notify(l) PROVE TypeOK'
  BY <1>7 DEF Notify, IInv, TypeOK
<1>8. QED
  BY <1>1, <1>2, <1>3, <1>4, <1>5, <1>6, <1>7 DEF IInv

LEMMA NextKeepsIInv == IInv /\ [Next]_vars => IInv'
<1> SUFFICES ASSUME IInv, [Next]_vars PROVE IInv'
  OBVIOUS
<1>1. CASE Next
  BY <1>1, SubscribeKeepsIInv, UnsubscribeKeepsIInv, OpenKeepsIInv, CloseKeepsIInv,
     ReconnectKeepsIInv, AnswersKeepIInv DEF Next
<1>2. CASE UNCHANGED vars
  BY <1>2, SocketsUnchanged DEF vars, IInv, TypeOK
<1>3. QED
  BY <1>1, <1>2

THEOREM IInvHolds == Spec => []IInv
BY InitEstablishesIInv, NextKeepsIInv, PTL DEF Spec

\* The client's state keeps its declared shape in every execution, whatever
\* the sessions, the limit of reconnects and the bound on connections.
THEOREM TypeCorrect == Spec => []TypeOK
<1>1. IInv => TypeOK
  BY DEF IInv
<1>2. QED
  BY <1>1, IInvHolds, PTL

\* #setupClient and #reconnect never leave two sockets open.
THEOREM NoSocketLeak == Spec => []OneLiveSocket
<1>1. IInv => OneLiveSocket
  BY DEF IInv, SocketInv
<1>2. QED
  BY <1>1, IInvHolds, PTL

\* At most one reconnect timer runs, and only while the socket is dead.
THEOREM SingleReconnect == Spec => []OneReconnectPending
<1>1. IInv => OneReconnectPending
  BY DEF IInv, SocketInv
<1>2. QED
  BY <1>1, IInvHolds, PTL

-----------------------------------------------------------------------------
(* The count of disconnects.                                                *)

\* A socket that may still open, or be replaced, leaves retries to use.
RetriesLeft ==
    client = NoClient \/ ~Dead(client) \/ timers # 0 => disconnects <= MaxReconnects

CountInv == GivesUpOnlyWhenExhausted /\ RetriesLeft

\* The count is inductive only together with the retries left: the bound
\* would break on a close with no retry left, which then could not happen.
CIInv == IInv /\ CountInv

LEMMA ClosedInARowFinite == IsFiniteSet(ClosedInARow)
<1>1. IsFiniteSet(Conns)
  BY FS_Interval, BoundsAssumption DEF Conns
<1>2. ClosedInARow \in SUBSET Conns
  BY DEF ClosedInARow
<1>3. QED
  BY <1>1, <1>2, FS_Subset

\* A step that leaves the dead sockets dead, opens none and keeps the count.
LEMMA SameCount ==
    ASSUME CIInv, UNCHANGED <<disconnects, timers>>,
           \A c \in Conns : \/ conn'[c] = conn[c]
                            \/ conn[c] = "unused" /\ conn'[c] = "connecting",
           \/ client' = client
           \/ client = NoClient /\ ~Dead(client)' /\ client' # NoClient
    PROVE  CountInv'
<1>1. ClosedInARow' = ClosedInARow
  BY DEF ClosedInARow, Dead
<1>2. client # NoClient => client \in Conns
  BY DEF CIInv, IInv, TypeOK, NoClient, Conns
<1>3. client # NoClient => (Dead(client) <=> Dead(client)')
  BY <1>2 DEF Dead
<1>4. GivesUpOnlyWhenExhausted'
  BY <1>1, <1>3 DEF CIInv, CountInv, GivesUpOnlyWhenExhausted
<1>5. RetriesLeft'
  BY <1>3 DEF CIInv, CountInv, RetriesLeft, NoClient
<1>6. QED
  BY <1>4, <1>5 DEF CountInv

LEMMA SetupClientKeepsCount ==
    ASSUME CIInv, SetupClient(client), conn' = OpenSocket(client, conn),
           UNCHANGED <<disconnects, timers>>
    PROVE  CountInv'
<1>1. CASE client = NoClient
  <2>1. client' = created + 1 /\ conn' = [conn EXCEPT ![created + 1] = "connecting"]
    BY <1>1 DEF SetupClient, SetupConn, OpenSocket, NeedsClient
  <2>2. created + 1 \in Conns /\ conn[created + 1] = "unused"
    BY <1>1, NullClient DEF CIInv
  <2>3. \A c \in Conns : \/ conn'[c] = conn[c]
                         \/ conn[c] = "unused" /\ conn'[c] = "connecting"
    BY <2>1, <2>2 DEF CIInv, IInv, TypeOK
  <2>4. ~Dead(client)' /\ client' # NoClient
    BY <2>1, <2>2 DEF CIInv, IInv, TypeOK, Dead, NoClient, Conns
  <2>5. QED
    BY <1>1, <2>3, <2>4, SameCount
<1>2. CASE client # NoClient
  <2>1. client' = client /\ conn' = conn
    BY <1>2 DEF SetupClient, SetupConn, OpenSocket, NeedsClient
  <2>2. QED
    BY <2>1, SameCount
<1>3. QED
  BY <1>1, <1>2

LEMMA OpenKeepsCount ==
    ASSUME CIInv, NEW c \in Conns, Open(c)
    PROVE  CountInv'
<1>1. /\ conn[c] = "connecting" /\ conn'[c] = "open"
      /\ \A d \in Conns : d # c => conn'[d] = conn[d]
      /\ disconnects' = 0 /\ client' = client /\ timers' = timers
  BY DEF Open, OpenWith, CIInv, IInv, TypeOK
<1>2. c = client /\ c = created
  BY <1>1 DEF CIInv, IInv, SocketInv, OneLiveSocket, CreatedInOrder, NoClient, Conns
<1>3. ClosedInARow' = {}
  <2>1. ASSUME NEW d \in Conns, Dead(d)' PROVE d < c
    <3>1. d # c /\ conn[d] # "unused"
      BY <1>1, <2>1 DEF Dead
    <3>2. QED
      BY <3>1, <1>2 DEF CIInv, IInv, TypeOK, SocketInv, CreatedInOrder, Conns
  <2>2. QED
    BY <1>1, <2>1 DEF ClosedInARow, Conns
<1>4. QED
  BY <1>1, <1>2, <1>3, FS_EmptySet, BoundsAssumption
     DEF CountInv, GivesUpOnlyWhenExhausted, RetriesLeft, Dead

LEMMA CloseKeepsCount ==
    ASSUME CIInv, NEW c \in Conns, Close(c)
    PROVE  CountInv'
<1>1. /\ conn[c] \in {"connecting", "open", "closing"}
      /\ conn'[c] = IF conn[c] = "connecting" THEN "failed" ELSE "closed"
      /\ \A d \in Conns : d # c => conn'[d] = conn[d]
      /\ disconnects' = disconnects + 1 /\ client' = client
      /\ timers' = IF disconnects + 1 <= MaxReconnects THEN timers + 1 ELSE timers
  BY DEF Close, CIInv, IInv, TypeOK
<1>2. c = client /\ c = created /\ ~Dead(c) /\ timers = 0
  <2>1. c = client /\ ~Dead(c)
    BY <1>1 DEF CIInv, IInv, SocketInv, OneLiveSocket, Dead
  <2>2. QED
    BY <2>1 DEF CIInv, IInv, TypeOK, SocketInv, OneReconnectPending, CreatedInOrder, NoClient, Conns
<1>3. \A d \in Conns : d > c => conn[d] = "unused" /\ conn'[d] = "unused"
  BY <1>1, <1>2 DEF CIInv, IInv, TypeOK, SocketInv, CreatedInOrder, Conns
<1>4. \A d \in Conns : d # c => (Dead(d) <=> Dead(d)') /\ (Dead(d) => d < c)
  BY <1>1, <1>2, <1>3 DEF Dead, Conns
<1>5. ClosedInARow' = ClosedInARow \cup {c}
  <2>1. c \in ClosedInARow'
    BY <1>1, <1>3 DEF ClosedInARow, Dead
  <2>2. CASE conn[c] = "connecting"
    BY <1>1, <1>4, <2>1, <2>2 DEF ClosedInARow, Dead
  <2>3. CASE conn[c] # "connecting"
    <3>1. conn[c] \in {"open", "closing"} /\ conn'[c] = "closed"
      BY <1>1, <2>3
    <3>2. ClosedInARow \subseteq {c} /\ ClosedInARow' \subseteq {c}
      BY <1>4, <3>1 DEF ClosedInARow, Conns
    <3>3. QED
      BY <2>1, <3>2
  <2>4. QED
    BY <2>2, <2>3
<1>6. Cardinality(ClosedInARow') = Cardinality(ClosedInARow) + 1
  <2>1. c \notin ClosedInARow
    BY <1>2 DEF ClosedInARow
  <2>2. QED
    BY <1>5, <2>1, FS_AddElement, ClosedInARowFinite
<1>7. disconnects <= MaxReconnects
  BY <1>2 DEF CIInv, CountInv, RetriesLeft
<1>8. GivesUpOnlyWhenExhausted'
  BY <1>1, <1>2, <1>6, <1>7, BoundsAssumption
     DEF CIInv, IInv, TypeOK, CountInv, GivesUpOnlyWhenExhausted, Dead
<1>9. RetriesLeft'
  BY <1>1, <1>2, <1>7, BoundsAssumption DEF CIInv, IInv, TypeOK, RetriesLeft, Dead, NoClient, Conns
<1>10. QED
  BY <1>8, <1>9 DEF CountInv

LEMMA ReconnectKeepsCount ==
    ASSUME CIInv, Reconnect, IInv'
    PROVE  CountInv'
<1> DEFINE n == created + 1
<1>1. timers' = 0 /\ timers # 0 /\ disconnects' = disconnects /\ client = created
      /\ client \in Conns /\ Dead(client)
  BY DEF Reconnect, CIInv, IInv, TypeOK, SocketInv, OneReconnectPending, CreatedInOrder, NoClient, Conns
<1>2. [c \in Conns |-> IF c = client /\ conn[c] \in {"connecting", "open"}
                       THEN "closing" ELSE conn[c]] = conn
  BY ReconnectClosesNothing DEF Reconnect, CIInv
<1>3. \/ client' = NoClient /\ conn' = conn
      \/ client' = n /\ conn' = [conn EXCEPT ![n] = "connecting"]
  BY <1>2 DEF Reconnect, SetupClient, SetupConn, OpenSocket, NeedsClient
<1>4. n \in Conns /\ conn[n] = "unused"
  BY <1>1, BoundsAssumption DEF CIInv, IInv, TypeOK, SocketInv, CreatedInOrder, LastStaysUp, Conns
<1>5. \A c \in Conns : \/ conn'[c] = conn[c]
                       \/ conn[c] = "unused" /\ conn'[c] = "connecting"
  BY <1>3, <1>4 DEF CIInv, IInv, TypeOK
<1>6. ClosedInARow' = ClosedInARow
  BY <1>5 DEF ClosedInARow, Dead
<1>7. client' = NoClient \/ ~Dead(client)'
  BY <1>3, <1>4 DEF CIInv, IInv, TypeOK, Dead
<1>8. disconnects <= MaxReconnects
  BY <1>1 DEF CIInv, CountInv, RetriesLeft
<1>9. QED
  BY <1>1, <1>6, <1>7, <1>8 DEF CIInv, CountInv, GivesUpOnlyWhenExhausted, RetriesLeft

LEMMA NextKeepsCIInv == CIInv /\ [Next]_vars => CIInv'
<1> SUFFICES ASSUME CIInv, [Next]_vars PROVE CIInv'
  OBVIOUS
<1>1. IInv'
  BY NextKeepsIInv DEF CIInv
<1>2. ASSUME NEW s \in Sessions, Subscribe(s) \/ Unsubscribe(s) PROVE CountInv'
  BY <1>2, SetupClientKeepsCount DEF Subscribe, Unsubscribe
<1>3. ASSUME UNCHANGED <<client, conn, disconnects, timers>> PROVE CountInv'
  BY <1>3, SameCount
<1>4. CountInv'
  <2>1. CASE \E s \in Sessions : Subscribe(s) \/ Unsubscribe(s)
    BY <2>1, <1>2
  <2>2. CASE \E c \in Conns : Open(c) \/ Close(c)
    BY <2>2, OpenKeepsCount, CloseKeepsCount
  <2>3. CASE Reconnect
    BY <2>3, <1>1, ReconnectKeepsCount
  <2>4. CASE \/ \E r \in reqs : ServerSubscribe(r) \/ ServerUnsubscribe(r)
             \/ \E r \in reqs : Resolve(r) \/ CallTimeout(r) \/ CallRefused(r)
             \/ \E l \in live : Notify(l)
    BY <2>4, <1>3 DEF ServerSubscribe, ServerUnsubscribe, Resolve, CallTimeout, CallRefused, Notify
  <2>5. CASE UNCHANGED vars
    BY <2>5, <1>3 DEF vars
  <2>6. QED
    BY <2>1, <2>2, <2>3, <2>4, <2>5 DEF Next
<1>5. QED
  BY <1>1, <1>4 DEF CIInv

LEMMA InitEstablishesCIInv == Init => CIInv
<1> SUFFICES ASSUME Init PROVE CIInv
  OBVIOUS
<1>1. ClosedInARow = {}
  BY DEF Init, ClosedInARow, Dead
<1>2. CountInv
  BY <1>1, FS_EmptySet, BoundsAssumption
     DEF Init, CountInv, GivesUpOnlyWhenExhausted, RetriesLeft, NoClient
<1>3. QED
  BY <1>2, InitEstablishesIInv DEF CIInv

THEOREM CIInvHolds == Spec => []CIInv
BY InitEstablishesCIInv, NextKeepsCIInv, PTL DEF Spec

\* The client gives up exactly when maxReconnects closes in a row were not
\* enough, for every limit.
THEOREM GivesUpInTime == Spec => []GivesUpOnlyWhenExhausted
<1>1. CIInv => GivesUpOnlyWhenExhausted
  BY DEF CIInv, CountInv
<1>2. QED
  BY <1>1, CIInvHolds, PTL

\* A client that gave up stays dead in #client, whatever is asked of it.
THEOREM NeverComesBack == Spec => GivenUpForGood
<1>1. IInv /\ [Next]_vars => [GivenUp => GivenUp']_vars
  <2> SUFFICES ASSUME IInv, Next, GivenUp PROVE GivenUp'
    BY DEF vars, GivenUp, Dead
  <2>1. client \in Conns /\ conn[client] \in {"failed", "closed"} /\ timers = 0
    BY DEF GivenUp, IInv, TypeOK, Dead, NoClient, Conns
  <2>2. ASSUME NEW s \in Sessions, Subscribe(s) \/ Unsubscribe(s) PROVE GivenUp'
    BY <2>1, <2>2 DEF Subscribe, Unsubscribe, SetupClient, SetupConn, OpenSocket, NeedsClient,
                      GivenUp, Dead
  <2>3. ASSUME NEW c \in Conns, Open(c) \/ Close(c) PROVE FALSE
    BY <2>1, <2>3 DEF Open, OpenWith, Close, IInv, SocketInv, OneLiveSocket
  <2>4. CASE Reconnect
    BY <2>1, <2>4 DEF Reconnect
  <2>5. CASE \/ \E r \in reqs : ServerSubscribe(r) \/ ServerUnsubscribe(r)
             \/ \E r \in reqs : Resolve(r) \/ CallTimeout(r) \/ CallRefused(r)
             \/ \E l \in live : Notify(l)
    BY <2>5 DEF ServerSubscribe, ServerUnsubscribe, Resolve, CallTimeout, CallRefused, Notify, GivenUp, Dead
  <2>6. QED
    BY <2>2, <2>3, <2>4, <2>5 DEF Next
<1>2. QED
  BY <1>1, IInvHolds, PTL DEF Spec, GivenUpForGood
=============================================================================
