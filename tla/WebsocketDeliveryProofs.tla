------------------------ MODULE WebsocketDeliveryProofs ------------------------
(***************************************************************************)
(* Theorems about WebsocketClient: the map of subscriptions, the functions  *)
(* request() returned, the calls in flight and what the server holds agree, *)
(* and to its users the client is the service of Subscriptions; for every   *)
(* set of sessions, every limit of reconnects and every bound on            *)
(* connections.                                                             *)
(***************************************************************************)
EXTENDS WebsocketClientProofs

Subscribing   == {r \in reqs : r.op = "subscribe"}
Unsubscribing == {r \in reqs : r.op = "unsubscribe"}
Answered      == {r \in Subscribing : r.st = "answered"}

\* A session has a function to unsubscribe exactly when its request() returned,
\* and no two sessions' functions close over the same id.
HandleInv ==
    /\ \A s \in Sessions : handle[s] # NoId <=> status[s] \in {"subscribed", "left"}
    /\ \A s, t \in Sessions : handle[s] = handle[t] /\ handle[s] # NoId => s = t

\* A session has at most one entry in the map, under the id its function holds.
EntryInv ==
    /\ \A e \in subs : e.initialId = handle[e.sess] /\ handle[e.sess] # NoId
    /\ \A e1, e2 \in subs : e1.sess = e2.sess => e1 = e2

\* A first request (without a key) belongs to a session whose request() has not
\* returned; a later one carries the key its session's function holds; and a
\* session has one subscribe per connection.
RequestInv ==
    /\ \A r \in reqs : r.conn <= created
    /\ \A r \in Subscribing :
          /\ r.key = NoId => status[r.sess] = IF Pending(r) THEN "requesting" ELSE "failed"
          /\ r.key # NoId => r.key = handle[r.sess]
    /\ \A r, q \in Subscribing :
          r.sess = q.sess /\ (r.conn = q.conn \/ (r.key = NoId /\ q.key = NoId)) => r = q

\* The server hands out an id once, so an answer still to be processed names a
\* subscription nothing else names, and one being unsubscribed has no entry.
IdInv ==
    /\ \A s \in Sessions : handle[s] < nextId
    /\ \A e \in subs : e.id < nextId
    /\ \A r \in reqs : r.id < nextId
    /\ \A r \in Subscribing : r.st \in {"waiting", "sent", "abandoned"} => r.id = NoId
    /\ \A r \in Answered :
          /\ r.id # NoId
          /\ \A s \in Sessions : r.id # handle[s]
          /\ \A e \in subs : r.id # e.id
          /\ \A q \in Unsubscribing : r.id # q.id
          /\ \A q \in Answered : r.id = q.id => r = q
    /\ \A e1, e2 \in subs : e1.id = e2.id => e1 = e2
    /\ \A e \in subs, q \in Unsubscribing : e.id # q.id

\* What the server holds: only for a socket that is up, under ids that lead to
\* the session that asked; an answer on its way names one of them; and while a
\* session asks again on a connection, its entry names none of that connection.
LiveInv ==
    /\ \A l \in live : /\ conn[l.conn] \in {"open", "closing"}
                       /\ l.id # NoId
                       /\ l.id < nextId
    /\ \A l \in live, e \in subs : e.id = l.id => e.sess = l.sess
    /\ \A l \in live, r \in Answered : r.id = l.id => r.sess = l.sess
    /\ \A r \in Answered : \E l \in live : l.conn = r.conn /\ l.id = r.id
    /\ \A r \in Subscribing, l \in live, e \in subs :
          r.conn = l.conn /\ r.sess = e.sess => e.id # l.id

\* An entry that neither listens nor is about to be asked for again has a call
\* to show for it on the present connection, pending or rejected.
EntriesTraced ==
    \A e \in subs :
        \/ Listening(e)
        \/ timers > 0
        \/ GivenUp
        \/ \E r \in reqs : r.op = "subscribe" /\ r.conn = client /\ r.sess = e.sess

\* The four properties are inductive only together with the bookkeeping of ids:
\* any of them could be lost by an id that two parties hold.
DInv ==
    /\ IInv
    /\ HandleInv
    /\ EntryInv
    /\ RequestInv
    /\ IdInv
    /\ LiveInv
    /\ NoServerLeak
    /\ EntriesTraced

-----------------------------------------------------------------------------
(* What every step needs.                                                   *)

LEMMA RequestShape ==
    ASSUME DInv, NEW r \in reqs
    PROVE  /\ r.op \in {"subscribe", "unsubscribe"}
           /\ r.conn \in Conns
           /\ r.sess \in Sessions
           /\ r.key \in Nat
           /\ r.id \in Nat
           /\ r.st \in {"waiting", "sent", "answered", "abandoned", "orphaned", "refused"}
BY DEF DInv, IInv, TypeOK, Request

LEMMA EntryShape ==
    ASSUME DInv, NEW e \in subs
    PROVE  e.initialId \in Nat /\ e.id \in Nat /\ e.sess \in Sessions
BY DEF DInv, IInv, TypeOK, Entry

LEMMA LiveShape ==
    ASSUME DInv, NEW l \in live
    PROVE  l.conn \in Conns /\ l.id \in Nat /\ l.sess \in Sessions
BY DEF DInv, IInv, TypeOK

\* The server holds subscriptions only of the connection #client wraps.
LEMMA LiveOnClient ==
    ASSUME DInv, NEW l \in live
    PROVE  l.conn = client /\ client \in Conns
BY LiveShape DEF DInv, LiveInv, IInv, SocketInv, OneLiveSocket

\* While #client is null the map is empty and the server holds nothing.
LEMMA NullClientEmpty ==
    ASSUME DInv, client = NoClient
    PROVE  subs = {} /\ live = {}
<1>1. timers = 0
  BY NullClient DEF DInv
<1>2. NoClient \notin Conns
  BY DEF NoClient, Conns
<1>3. live = {}
  BY <1>2, LiveOnClient
<1>4. subs = {}
  BY <1>1, <1>2, RequestShape DEF DInv, EntriesTraced, Listening, GivenUp
<1>5. QED
  BY <1>3, <1>4

\* A call issued, or copied in another state, keeps what it is about.
LEMMA CallFields ==
    ASSUME NEW c, NEW s, NEW k, NEW i, NEW st
    PROVE  /\ SubscribeCall(c, s, k, st).op = "subscribe"
           /\ SubscribeCall(c, s, k, st).conn = c
           /\ SubscribeCall(c, s, k, st).sess = s
           /\ SubscribeCall(c, s, k, st).key = k
           /\ SubscribeCall(c, s, k, st).id = NoId
           /\ SubscribeCall(c, s, k, st).st = st
           /\ UnsubscribeCall(c, s, i, st).op = "unsubscribe"
           /\ UnsubscribeCall(c, s, i, st).conn = c
           /\ UnsubscribeCall(c, s, i, st).sess = s
           /\ UnsubscribeCall(c, s, i, st).id = i
BY DEF SubscribeCall, UnsubscribeCall

LEMMA CopyFields ==
    ASSUME DInv, NEW r \in reqs, NEW i, NEW st
    PROVE  /\ Holding(r, i, st).op = r.op
           /\ Holding(r, i, st).conn = r.conn
           /\ Holding(r, i, st).sess = r.sess
           /\ Holding(r, i, st).key = r.key
           /\ Holding(r, i, st).id = i
           /\ Holding(r, i, st).st = st
           /\ InState(r, st).op = r.op
           /\ InState(r, st).conn = r.conn
           /\ InState(r, st).sess = r.sess
           /\ InState(r, st).key = r.key
           /\ InState(r, st).id = r.id
           /\ InState(r, st).st = st
BY DEF Holding, InState, DInv, IInv, TypeOK, Request

\* When each request comes from one that was there, about the same thing, the
\* rules on keys carry over if they agree with the sessions' status.
LEMMA CopiedRequests ==
    ASSUME DInv, NEW f,
           \A q \in reqs' : \E r \in reqs : q = f[r],
           \A r \in reqs : /\ f[r].op = r.op
                           /\ f[r].conn = r.conn
                           /\ f[r].sess = r.sess
                           /\ f[r].key = r.key,
           \A r \in Subscribing : f[r] \in reqs' /\ r.key = NoId
              => status'[r.sess] = IF Pending(f[r]) THEN "requesting" ELSE "failed",
           UNCHANGED <<created, handle>>
    PROVE  RequestInv'
<1>1. \A q \in Subscribing' : \E r \in Subscribing : q = f[r]
  BY DEF Subscribing
<1>2. \A q \in reqs' : q.conn <= created'
  BY DEF DInv, RequestInv
<1>3. \A q \in Subscribing' :
         /\ q.key = NoId => status'[q.sess] = IF Pending(q) THEN "requesting" ELSE "failed"
         /\ q.key # NoId => q.key = handle'[q.sess]
  BY <1>1 DEF DInv, RequestInv, Subscribing
<1>4. \A q, p \in Subscribing' :
         q.sess = p.sess /\ (q.conn = p.conn \/ (q.key = NoId /\ p.key = NoId)) => q = p
  BY <1>1 DEF DInv, RequestInv, Subscribing
<1>5. QED
  BY <1>2, <1>3, <1>4 DEF RequestInv, Pending

-----------------------------------------------------------------------------
(* The parts that only look at what a step leaves alone.                    *)

LEMMA SessionsUnchanged ==
    ASSUME DInv, UNCHANGED <<status, handle>>
    PROVE  HandleInv'
BY DEF DInv, HandleInv

LEMMA EntriesKept ==
    ASSUME DInv, subs' \subseteq subs, handle' = handle
    PROVE  EntryInv'
BY DEF DInv, EntryInv

\* Requests copied with their ids, under ids that grow: nothing is confused.
LEMMA CopiedIds ==
    ASSUME DInv, NEW f,
           \A q \in reqs' : \E r \in reqs : q = f[r],
           \A r \in reqs : /\ f[r].op = r.op
                           /\ f[r].id = r.id
                           /\ f[r].st = "answered" => r.st = "answered"
                           /\ f[r].st \in {"waiting", "sent", "abandoned"}
                                => r.st \in {"waiting", "sent", "abandoned"},
           UNCHANGED <<subs, handle, nextId>>
    PROVE  IdInv'
<1>1. \A q \in Subscribing' : \E r \in Subscribing : q = f[r]
  BY DEF Subscribing
<1>2. \A q \in Unsubscribing' : \E r \in Unsubscribing : q = f[r]
  BY DEF Unsubscribing
<1>3. \A q \in Answered' : \E r \in Answered : q = f[r]
  BY <1>1 DEF Answered, Subscribing
<1>4. \A r \in Subscribing \cup Unsubscribing \cup Answered : r \in reqs
  BY DEF Subscribing, Unsubscribing, Answered
<1>5. \A q \in reqs' : q.id < nextId'
  BY DEF DInv, IdInv
<1>6. \A q \in Subscribing' : q.st \in {"waiting", "sent", "abandoned"} => q.id = NoId
  BY <1>1, <1>4 DEF DInv, IdInv
<1>7. ASSUME NEW q \in Answered'
      PROVE  /\ q.id # NoId
             /\ \A s \in Sessions : q.id # handle'[s]
             /\ \A e \in subs' : q.id # e.id
             /\ \A p \in Unsubscribing' : q.id # p.id
             /\ \A p \in Answered' : q.id = p.id => q = p
  BY <1>2, <1>3, <1>4 DEF DInv, IdInv
<1>8. \A e \in subs', q \in Unsubscribing' : e.id # q.id
  BY <1>2, <1>4 DEF DInv, IdInv
<1>9. QED
  BY <1>5, <1>6, <1>7, <1>8 DEF DInv, IdInv

\* The same of what the server holds, if every answer stays good.
LEMMA CopiedLive ==
    ASSUME DInv, NEW f,
           \A q \in reqs' : \E r \in reqs : q = f[r],
           \A r \in reqs : /\ f[r].op = r.op
                           /\ f[r].conn = r.conn
                           /\ f[r].sess = r.sess
                           /\ f[r].st = "answered" => r.st = "answered" /\ f[r].id = r.id,
           live' \subseteq live,
           \A l \in live' : conn'[l.conn] \in {"open", "closing"},
           \A r \in Answered : f[r].st = "answered" =>
              \E l \in live' : l.conn = r.conn /\ l.id = r.id,
           UNCHANGED <<subs, nextId>>
    PROVE  LiveInv'
<1>1. \A q \in Subscribing' : \E r \in Subscribing : q = f[r]
  BY DEF Subscribing
<1>2. \A q \in Answered' : \E r \in Answered : q = f[r] /\ f[r].st = "answered"
  BY <1>1 DEF Answered, Subscribing
<1>3. \A r \in Subscribing \cup Answered : r \in reqs
  BY DEF Subscribing, Answered
<1>4. \A r \in Answered : r.st = "answered"
  BY DEF Answered
<1>5. \A l \in live', r \in Answered' : r.id = l.id => r.sess = l.sess
  BY <1>2, <1>3, <1>4 DEF DInv, LiveInv
<1>6. \A r \in Answered' : \E l \in live' : l.conn = r.conn /\ l.id = r.id
  BY <1>2, <1>3, <1>4 DEF DInv, LiveInv
<1>7. \A r \in Subscribing', l \in live', e \in subs' :
         r.conn = l.conn /\ r.sess = e.sess => e.id # l.id
  BY <1>1, <1>3 DEF DInv, LiveInv
<1>8. QED
  BY <1>5, <1>6, <1>7 DEF DInv, LiveInv

-----------------------------------------------------------------------------
(* Events of the socket.                                                    *)

LEMMA OpenKeepsDInv ==
    ASSUME DInv, NEW c \in Conns, Open(c), IInv'
    PROVE  DInv'
<1> DEFINE f == [r \in reqs |-> IF r.conn = c /\ r.st = "waiting"
                                THEN InState(r, "sent") ELSE r]
<1>1. /\ conn[c] = "connecting"
      /\ conn'[c] = "open"
      /\ \A d \in Conns : d # c => conn'[d] = conn[d]
      /\ UNCHANGED <<client, created, timers, subs, nextId, live, status, handle>>
  BY DEF Open, OpenWith, DInv, IInv, TypeOK
<1>2. reqs' = {f[r] : r \in reqs}
  BY DEF Open, OpenWith
<1>3. \A r \in reqs : /\ f[r].op = r.op
                      /\ f[r].conn = r.conn
                      /\ f[r].sess = r.sess
                      /\ f[r].key = r.key
                      /\ f[r].id = r.id
                      /\ f[r].st = "answered" <=> r.st = "answered"
                      /\ Pending(f[r]) <=> Pending(r)
                      /\ f[r].st \in {"waiting", "sent", "abandoned"}
                           => r.st \in {"waiting", "sent", "abandoned"}
  BY CopyFields DEF Pending
<1>4. c = client
  BY <1>1 DEF DInv, IInv, SocketInv, OneLiveSocket
<1> HIDE DEF f
<1>5. HandleInv' /\ EntryInv'
  BY <1>1, SessionsUnchanged, EntriesKept
<1>6. RequestInv'
  <2>1. \A r \in Subscribing : r \in reqs
    BY DEF Subscribing
  <2>2. \A r \in Subscribing : f[r] \in reqs' /\ r.key = NoId
           => status'[r.sess] = IF Pending(f[r]) THEN "requesting" ELSE "failed"
    BY <1>1, <1>3, <2>1 DEF DInv, RequestInv
  <2>3. QED
    BY <1>1, <1>2, <1>3, <2>2, CopiedRequests
<1>7. IdInv'
  BY <1>1, <1>2, <1>3, CopiedIds
<1>8. LiveInv'
  <2>1. \A l \in live : conn'[l.conn] \in {"open", "closing"}
    BY <1>1, LiveShape DEF DInv, LiveInv
  <2>2. \A r \in Answered : \E l \in live : l.conn = r.conn /\ l.id = r.id
    BY DEF DInv, LiveInv
  <2>3. QED
    BY <1>1, <1>2, <1>3, <2>1, <2>2, CopiedLive
<1>9. NoServerLeak'
  BY <1>1, <1>2, <1>3 DEF DInv, NoServerLeak
<1>10. EntriesTraced'
  <2>1. ASSUME NEW e \in subs
        PROVE  timers > 0 \/ \E r \in reqs : r.op = "subscribe" /\ r.conn = client /\ r.sess = e.sess
    BY <1>1, <1>4 DEF DInv, EntriesTraced, Listening, GivenUp, Dead
  <2>2. QED
    BY <1>1, <1>2, <1>3, <2>1 DEF EntriesTraced
<1>11. QED
  BY <1>5, <1>6, <1>7, <1>8, <1>9, <1>10 DEF DInv

LEMMA CloseKeepsDInv ==
    ASSUME DInv, NEW c \in Conns, Close(c), IInv'
    PROVE  DInv'
<1> DEFINE kept == {q \in reqs : q.conn = c => Pending(q)}
           lost(r) == r.conn = c /\ r.st = "answered"
           f == [r \in reqs |-> IF lost(r)
                                THEN Holding(r, IF r.op = "subscribe" THEN NoId ELSE r.id, "sent")
                                ELSE r]
<1>1. /\ conn[c] \in {"connecting", "open", "closing"}
      /\ conn'[c] \in {"failed", "closed"}
      /\ \A d \in Conns : d # c => conn'[d] = conn[d]
      /\ live' = {l \in live : l.conn # c}
      /\ UNCHANGED <<client, created, subs, nextId, status, handle>>
  BY DEF Close, ForgetConn, DInv, IInv, TypeOK
<1>2. reqs' = {f[r] : r \in kept} /\ kept \subseteq reqs
  BY DEF Close, ForgetConn
<1>3. \A r \in reqs : /\ f[r].op = r.op
                      /\ f[r].conn = r.conn
                      /\ f[r].sess = r.sess
                      /\ f[r].key = r.key
                      /\ f[r].st = "answered" => r.st = "answered" /\ f[r] = r /\ r.conn # c
                      /\ Pending(f[r]) <=> Pending(r)
                      /\ ~lost(r) => f[r] = r
                      /\ lost(r) => f[r].st = "sent" /\ f[r].id = IF r.op = "subscribe" THEN NoId ELSE r.id
  BY CopyFields DEF Pending
<1>4. c = client /\ live' = {}
  <2>1. c = client
    BY <1>1 DEF DInv, IInv, SocketInv, OneLiveSocket
  <2>2. QED
    BY <1>1, <2>1, LiveOnClient
<1> HIDE DEF f, kept
<1>5. HandleInv' /\ EntryInv'
  BY <1>1, SessionsUnchanged, EntriesKept
<1>6. RequestInv'
  <2>1. \A r \in Subscribing : r \in reqs
    BY DEF Subscribing
  <2>2. \A r \in Subscribing : f[r] \in reqs' /\ r.key = NoId
           => status'[r.sess] = IF Pending(f[r]) THEN "requesting" ELSE "failed"
    BY <1>1, <1>3, <2>1 DEF DInv, RequestInv
  <2>3. QED
    BY <1>1, <1>2, <1>3, <2>2, CopiedRequests
<1>7. IdInv'
  <2>1. Answered' \subseteq Answered
    BY <1>2, <1>3 DEF Answered, Subscribing
  <2>2. \A q \in Unsubscribing' : \E r \in Unsubscribing : q.id = r.id
    BY <1>2, <1>3 DEF Unsubscribing
  <2>3. \A q \in reqs' : q.id < nextId'
    <3>1. NoId < nextId
      BY DEF DInv, IInv, TypeOK, NoId
    <3>2. QED
      BY <1>1, <1>2, <1>3, <3>1 DEF DInv, IdInv
  <2>4. \A q \in Subscribing' : q.st \in {"waiting", "sent", "abandoned"} => q.id = NoId
    <3>1. \A r \in reqs : r.op = "subscribe" /\ r.st \in {"waiting", "sent", "abandoned"} => r.id = NoId
      BY DEF DInv, IdInv, Subscribing
    <3>2. QED
      BY <1>2, <1>3, <3>1 DEF Subscribing
  <2>5. QED
    BY <1>1, <2>1, <2>2, <2>3, <2>4 DEF DInv, IdInv
<1>8. LiveInv'
  <2>1. ASSUME NEW q \in Answered' PROVE FALSE
    <3>1. q \in Answered /\ q.conn # c
      BY <1>2, <1>3 DEF Answered, Subscribing
    <3>2. PICK l \in live : l.conn = q.conn
      BY <3>1 DEF DInv, LiveInv
    <3>3. QED
      BY <3>1, <3>2, <1>4, LiveOnClient
  <2>2. QED
    BY <1>4, <2>1 DEF LiveInv
<1>9. NoServerLeak'
  BY <1>4 DEF NoServerLeak
<1>10. EntriesTraced'
  <2>1. client' # NoClient /\ Dead(client)' /\ timers' \in Nat
    BY <1>1, <1>4 DEF Dead, NoClient, Conns, IInv, TypeOK
  <2>2. QED
    BY <2>1 DEF EntriesTraced, GivenUp
<1>11. QED
  BY <1>5, <1>6, <1>7, <1>8, <1>9, <1>10 DEF DInv

-----------------------------------------------------------------------------
(* The rejection of a call, and the messages of the server.                 *)

LEMMA CallRejectedKeepsDInv ==
    ASSUME DInv, NEW r0 \in reqs, Pending(r0),
           NEW st \in {"abandoned", "orphaned", "refused"},
           st = "abandoned" => r0.st # "answered",
           reqs' = (reqs \ {r0}) \cup (IF Dead(r0.conn) THEN {} ELSE {InState(r0, st)}),
           FailsCaller(r0),
           UNCHANGED <<client, created, conn, timers, subs, nextId, live, handle>>,
           IInv'
    PROVE  DInv'
<1> DEFINE late == InState(r0, st)
           f == [r \in reqs |-> IF r = r0 THEN late ELSE r]
<1>1. /\ Pending(r0)
      /\ reqs' = (reqs \ {r0}) \cup (IF Dead(r0.conn) THEN {} ELSE {late})
      /\ status' = IF r0.op = "subscribe" /\ status[r0.sess] = "requesting"
                   THEN [status EXCEPT ![r0.sess] = "failed"] ELSE status
      /\ UNCHANGED <<client, created, conn, timers, subs, nextId, live, handle>>
  BY DEF FailsCaller
<1>2. /\ late.op = r0.op
      /\ late.conn = r0.conn
      /\ late.sess = r0.sess
      /\ late.key = r0.key
      /\ late.id = r0.id
      /\ ~Pending(late)
      /\ late.st # "answered"
      /\ late.st \in {"waiting", "sent", "abandoned"} => r0.st \in {"waiting", "sent", "abandoned"}
  BY <1>1, CopyFields DEF Pending
<1>3. \A q \in reqs' : \E r \in reqs : q = f[r]
  BY <1>1
<1>4. \A r \in reqs : /\ f[r].op = r.op
                      /\ f[r].conn = r.conn
                      /\ f[r].sess = r.sess
                      /\ f[r].key = r.key
                      /\ f[r].id = r.id
                      /\ f[r].st = "answered" => r.st = "answered" /\ f[r].id = r.id
                      /\ f[r].st \in {"waiting", "sent", "abandoned"}
                           => r.st \in {"waiting", "sent", "abandoned"}
  BY <1>2
<1>5. \A r \in reqs : r # r0 => f[r] = r /\ r \in reqs'
  BY <1>1
<1>6. f[r0] = late
  OBVIOUS
<1> HIDE DEF f, late
<1>7. status \in [Sessions -> {"idle", "requesting", "subscribed", "failed", "left"}]
  BY DEF DInv, IInv, TypeOK
<1>8. \A s \in Sessions : status'[s] = status[s] \/ (status[s] = "requesting" /\ status'[s] = "failed")
  BY <1>1, <1>7
<1>9. HandleInv' /\ EntryInv'
  BY <1>1, <1>8, EntriesKept DEF DInv, HandleInv
<1>10. RequestInv'
  <2>1. ASSUME NEW r \in Subscribing, f[r] \in reqs', r.key = NoId
        PROVE  status'[r.sess] = IF Pending(f[r]) THEN "requesting" ELSE "failed"
    <3>1. r \in reqs /\ r.op = "subscribe" /\ r.sess \in Sessions
      BY <2>1, RequestShape DEF Subscribing
    <3>2. status[r.sess] = IF Pending(r) THEN "requesting" ELSE "failed"
      BY <2>1 DEF DInv, RequestInv
    <3>3. CASE r = r0
      BY <1>1, <1>2, <1>6, <1>7, <3>1, <3>2, <3>3
    <3>4. CASE r # r0
      <4>1. f[r] = r
        BY <1>5, <3>1, <3>4
      <4>2. status'[r.sess] = status[r.sess]
        <5>1. CASE r0.op = "subscribe" /\ status[r0.sess] = "requesting"
          <6>1. r0 \in Subscribing /\ r0.sess \in Sessions
            BY <5>1, RequestShape DEF Subscribing
          <6>2. r0.key = NoId
            BY <5>1, <6>1 DEF DInv, HandleInv, RequestInv
          <6>3. r.sess # r0.sess
            BY <2>1, <3>4, <6>1, <6>2 DEF DInv, RequestInv
          <6>4. QED
            BY <1>1, <1>7, <3>1, <6>3
        <5>2. CASE ~(r0.op = "subscribe" /\ status[r0.sess] = "requesting")
          BY <1>1, <5>2
        <5>3. QED
          BY <5>1, <5>2
      <4>3. QED
        BY <3>2, <4>1, <4>2
    <3>5. QED
      BY <3>3, <3>4
  <2>2. QED
    BY <1>1, <1>3, <1>4, <2>1, CopiedRequests
<1>11. IdInv'
  BY <1>1, <1>3, <1>4, CopiedIds
<1>12. LiveInv'
  <2>1. \A l \in live : conn'[l.conn] \in {"open", "closing"}
    BY <1>1 DEF DInv, LiveInv
  <2>2. \A r \in Answered : \E l \in live : l.conn = r.conn /\ l.id = r.id
    BY DEF DInv, LiveInv
  <2>3. QED
    BY <1>1, <1>3, <1>4, <2>1, <2>2, CopiedLive
<1>13. NoServerLeak'
  <2>1. ASSUME NEW l \in live, NEW r \in reqs, r.conn = l.conn, r.id = l.id
        PROVE  \E q \in reqs' : q.conn = l.conn /\ q.id = l.id
    <3>1. conn[l.conn] \in {"open", "closing"}
      BY DEF DInv, LiveInv
    <3>2. CASE r = r0
      <4>1. ~Dead(r0.conn)
        BY <2>1, <3>1, <3>2 DEF Dead
      <4>2. QED
        BY <1>1, <1>2, <2>1, <3>2, <4>1
    <3>3. QED
      BY <1>5, <2>1, <3>2
  <2>2. QED
    BY <1>1, <2>1 DEF DInv, NoServerLeak
<1>14. EntriesTraced'
  <2>1. ASSUME NEW e \in subs,
               \E r \in reqs : r.op = "subscribe" /\ r.conn = client /\ r.sess = e.sess
        PROVE  \/ timers > 0 \/ GivenUp
               \/ \E q \in reqs' : q.op = "subscribe" /\ q.conn = client /\ q.sess = e.sess
    <3>1. PICK r \in reqs : r.op = "subscribe" /\ r.conn = client /\ r.sess = e.sess
      BY <2>1
    <3>2. CASE r = r0
      <4>1. CASE Dead(client)
        BY <3>1, <4>1, RequestShape DEF GivenUp, DInv, IInv, TypeOK, NoClient, Conns
      <4>2. CASE ~Dead(client)
        BY <1>1, <1>2, <3>1, <3>2, <4>2
      <4>3. QED
        BY <4>1, <4>2
    <3>3. QED
      BY <1>5, <3>1, <3>2
  <2>2. QED
    BY <1>1, <2>1 DEF DInv, EntriesTraced, Listening, GivenUp, Dead
<1>15. QED
  BY <1>9, <1>10, <1>11, <1>12, <1>13, <1>14 DEF DInv

LEMMA NotifyKeepsDInv ==
    ASSUME DInv, NEW l \in live, Notify(l), IInv'
    PROVE  DInv'
<1>1. UNCHANGED <<client, created, conn, timers, subs, reqs, nextId, live, status, handle>>
  BY DEF Notify
<1>2. HandleInv' /\ EntryInv'
  BY <1>1, SessionsUnchanged, EntriesKept
<1>3. RequestInv'
  BY <1>1 DEF DInv, RequestInv, Subscribing, Pending
<1>4. IdInv'
  BY <1>1 DEF DInv, IdInv, Subscribing, Unsubscribing, Answered
<1>5. LiveInv'
  BY <1>1 DEF DInv, LiveInv, Subscribing, Answered
<1>6. NoServerLeak' /\ EntriesTraced'
  BY <1>1 DEF DInv, NoServerLeak, EntriesTraced, Listening, GivenUp, Dead
<1>7. QED
  BY <1>2, <1>3, <1>4, <1>5, <1>6 DEF DInv

LEMMA ServerUnsubscribeKeepsDInv ==
    ASSUME DInv, NEW r0 \in reqs, ServerUnsubscribe(r0), IInv'
    PROVE  DInv'
<1> DEFINE f == [r \in reqs |-> r]
<1>1. /\ r0 \in Unsubscribing
      /\ live' = {l \in live : ~(l.conn = r0.conn /\ l.id = r0.id)}
      /\ reqs' = reqs \ {r0}
      /\ UNCHANGED <<client, created, conn, timers, subs, nextId, status, handle>>
  BY DEF ServerUnsubscribe, Unsubscribing
<1>2. /\ \A q \in reqs' : \E r \in reqs : q = f[r]
      /\ \A r \in reqs : f[r] = r
  BY <1>1
<1>3. \A r \in Subscribing \cup Answered : r \in reqs /\ r.op = "subscribe" /\ r # r0
  BY <1>1 DEF Subscribing, Unsubscribing, Answered
<1>4. HandleInv' /\ EntryInv'
  BY <1>1, SessionsUnchanged, EntriesKept
<1> HIDE DEF f
<1>5. RequestInv'
  <2>1. \A r \in Subscribing : f[r] \in reqs' /\ r.key = NoId
           => status'[r.sess] = IF Pending(f[r]) THEN "requesting" ELSE "failed"
    BY <1>1, <1>2, <1>3 DEF DInv, RequestInv
  <2>2. QED
    BY <1>1, <1>2, <2>1, CopiedRequests
<1>6. IdInv'
  BY <1>1, <1>2, CopiedIds
<1>7. LiveInv'
  <2>1. \A l \in live' : conn'[l.conn] \in {"open", "closing"}
    BY <1>1 DEF DInv, LiveInv
  <2>2. \A r \in Answered : \E l \in live' : l.conn = r.conn /\ l.id = r.id
    BY <1>1 DEF DInv, LiveInv, IdInv
  <2>3. QED
    BY <1>1, <1>2, <2>1, <2>2, CopiedLive
<1>8. NoServerLeak'
  BY <1>1 DEF DInv, NoServerLeak
<1>9. EntriesTraced'
  <2>1. \A e \in subs : Listening(e) => Listening(e)'
    BY <1>1 DEF DInv, IdInv, Listening
  <2>2. \A r \in reqs : r.op = "subscribe" => r \in reqs'
    BY <1>1 DEF Unsubscribing
  <2>3. QED
    BY <1>1, <2>1, <2>2 DEF DInv, EntriesTraced, GivenUp, Dead
<1>10. QED
  BY <1>4, <1>5, <1>6, <1>7, <1>8, <1>9 DEF DInv

LEMMA ServerSubscribeKeepsDInv ==
    ASSUME DInv, NEW r0 \in reqs, ServerSubscribe(r0), IInv'
    PROVE  DInv'
<1> DEFINE held == Holding(r0, nextId, IF r0.st = "sent" THEN "answered" ELSE "orphaned")
           new  == [conn |-> r0.conn, id |-> nextId, sess |-> r0.sess]
           f    == [r \in reqs |-> IF r = r0 THEN held ELSE r]
<1>1. /\ r0 \in Subscribing
      /\ r0.st \in {"sent", "abandoned"}
      /\ conn[r0.conn] = "open"
      /\ live' = live \cup {new}
      /\ nextId' = nextId + 1
      /\ reqs' = (reqs \ {r0}) \cup {held}
      /\ UNCHANGED <<client, created, conn, timers, subs, status, handle>>
  BY DEF ServerSubscribe, Subscribing
<1>2. /\ held.op = "subscribe"
      /\ held.conn = r0.conn
      /\ held.sess = r0.sess
      /\ held.key = r0.key
      /\ held.id = nextId
      /\ held.st = IF r0.st = "sent" THEN "answered" ELSE "orphaned"
      /\ Pending(held) <=> Pending(r0)
  BY <1>1, CopyFields DEF Subscribing, Pending
<1>3. new.conn = r0.conn /\ new.id = nextId /\ new.sess = r0.sess
  OBVIOUS
<1>4. /\ \A q \in reqs' : \E r \in reqs : q = f[r]
      /\ \A r \in reqs : r # r0 => f[r] = r /\ r \in reqs'
      /\ f[r0] = held
  BY <1>1
<1>5. nextId \in Nat /\ nextId # NoId
  BY DEF DInv, IInv, TypeOK, NoId
<1>6. r0.id = NoId
  BY <1>1 DEF DInv, IdInv
<1> HIDE DEF f, held, new
<1>7. HandleInv' /\ EntryInv'
  BY <1>1, SessionsUnchanged, EntriesKept
<1>8. RequestInv'
  <2>1. \A r \in Subscribing : r \in reqs
    BY DEF Subscribing
  <2>2. \A r \in Subscribing : f[r] \in reqs' /\ r.key = NoId
           => status'[r.sess] = IF Pending(f[r]) THEN "requesting" ELSE "failed"
    BY <1>1, <1>2, <1>4, <2>1 DEF DInv, RequestInv
  <2>3. \A r \in reqs : /\ f[r].op = r.op
                        /\ f[r].conn = r.conn
                        /\ f[r].sess = r.sess
                        /\ f[r].key = r.key
    BY <1>1, <1>2, <1>4 DEF Subscribing
  <2>4. QED
    BY <1>1, <1>4, <2>2, <2>3, CopiedRequests
<1>9. /\ Unsubscribing' \subseteq Unsubscribing
      /\ Subscribing' \subseteq Subscribing \cup {held}
      /\ Answered' \subseteq Answered \cup {held}
  BY <1>1, <1>2 DEF Subscribing, Unsubscribing, Answered
<1>10. /\ \A s \in Sessions : handle[s] \in Nat /\ handle[s] < nextId
       /\ \A e \in subs : e.id \in Nat /\ e.id < nextId
       /\ \A r \in reqs : r.id \in Nat /\ r.id < nextId
       /\ \A l \in live : l.id \in Nat /\ l.id < nextId
  BY EntryShape, RequestShape, LiveShape DEF DInv, IdInv, LiveInv, IInv, TypeOK
<1>11. IdInv'
  <2>1. /\ \A s \in Sessions : handle'[s] < nextId'
        /\ \A e \in subs' : e.id < nextId'
        /\ \A r \in reqs' : r.id < nextId'
    BY <1>1, <1>2, <1>5, <1>10
  <2>2. \A r \in Subscribing' : r.st \in {"waiting", "sent", "abandoned"} => r.id = NoId
    BY <1>1, <1>2, <1>9 DEF DInv, IdInv
  <2>3. ASSUME NEW r \in Answered'
        PROVE  /\ r.id # NoId
               /\ \A s \in Sessions : r.id # handle'[s]
               /\ \A e \in subs' : r.id # e.id
               /\ \A q \in Unsubscribing' : r.id # q.id
               /\ \A q \in Answered' : r.id = q.id => r = q
    <3>1. \A q \in Unsubscribing' \cup Answered : q \in reqs
      BY <1>9 DEF Unsubscribing, Answered, Subscribing
    <3>2. CASE r \in Answered
      BY <1>1, <1>2, <1>9, <1>10, <3>1, <3>2 DEF DInv, IdInv
    <3>3. CASE r = held
      BY <1>1, <1>2, <1>5, <1>9, <1>10, <3>1, <3>3
    <3>4. QED
      BY <1>9, <3>2, <3>3
  <2>4. /\ \A e1, e2 \in subs' : e1.id = e2.id => e1 = e2
        /\ \A e \in subs', q \in Unsubscribing' : e.id # q.id
    BY <1>1, <1>9 DEF DInv, IdInv
  <2>5. QED
    BY <2>1, <2>2, <2>3, <2>4 DEF IdInv
<1>12. LiveInv'
  <2>1. \A l \in live' : /\ conn'[l.conn] \in {"open", "closing"}
                         /\ l.id # NoId
                         /\ l.id < nextId'
    BY <1>1, <1>3, <1>5, <1>10 DEF DInv, LiveInv
  <2>2. \A l \in live', e \in subs' : e.id = l.id => e.sess = l.sess
    BY <1>1, <1>3, <1>10 DEF DInv, LiveInv
  <2>3. \A l \in live', r \in Answered' : r.id = l.id => r.sess = l.sess
    <3>1. \A r \in Answered : r \in reqs
      BY DEF Answered, Subscribing
    <3>2. QED
      BY <1>1, <1>2, <1>3, <1>5, <1>9, <1>10, <3>1 DEF DInv, LiveInv
  <2>4. \A r \in Answered' : \E l \in live' : l.conn = r.conn /\ l.id = r.id
    BY <1>1, <1>2, <1>3, <1>9 DEF DInv, LiveInv
  <2>5. \A r \in Subscribing', l \in live', e \in subs' :
           r.conn = l.conn /\ r.sess = e.sess => e.id # l.id
    <3>1. ASSUME NEW r \in Subscribing', NEW l \in live, NEW e \in subs,
                 r.conn = l.conn, r.sess = e.sess
          PROVE  e.id # l.id
      BY <1>1, <1>2, <1>9, <3>1 DEF DInv, LiveInv
    <3>2. QED
      BY <1>1, <1>3, <1>10, <3>1
  <2>6. QED
    BY <2>1, <2>2, <2>3, <2>4, <2>5 DEF LiveInv
<1>13. NoServerLeak'
  <2>1. \A l \in live, r \in reqs : r.id = l.id => r # r0
    BY <1>6 DEF DInv, LiveInv
  <2>2. QED
    BY <1>1, <1>2, <1>3, <2>1 DEF DInv, NoServerLeak
<1>14. EntriesTraced'
  <2>1. \A e \in subs : Listening(e) => Listening(e)'
    BY <1>1 DEF Listening
  <2>2. \A r \in reqs : \E q \in reqs' : q.op = r.op /\ q.conn = r.conn /\ q.sess = r.sess
    BY <1>1, <1>2 DEF Subscribing
  <2>3. ASSUME NEW e \in subs,
               \E r \in reqs : r.op = "subscribe" /\ r.conn = client /\ r.sess = e.sess
        PROVE  \E q \in reqs' : q.op = "subscribe" /\ q.conn = client /\ q.sess = e.sess
    BY <2>2, <2>3
  <2>4. QED
    BY <1>1, <2>1, <2>3 DEF DInv, EntriesTraced, GivenUp, Dead
<1>15. QED
  BY <1>7, <1>8, <1>11, <1>12, <1>13, <1>14 DEF DInv

-----------------------------------------------------------------------------
(* request() resumes with its answer, and the entry takes the new id.       *)

LEMMA ResolveKeepsDInv ==
    ASSUME DInv, NEW r0 \in reqs, Resolve(r0), IInv'
    PROVE  DInv'
<1> DEFINE k   == InitialId(r0)
           new == [initialId |-> k, id |-> r0.id, sess |-> r0.sess]
           s0  == r0.sess
<1>1. /\ r0 \in Answered
      /\ conn[r0.conn] = "open"
      /\ subs' = {e \in subs : e.initialId # k} \cup {new}
      /\ reqs' = reqs \ {r0}
      /\ UNCHANGED <<client, created, conn, timers, nextId, live>>
  BY DEF Resolve, MapSet, Answered, Subscribing
<1>2. /\ s0 \in Sessions
      /\ r0 \in Subscribing
      /\ r0.conn \in Conns
      /\ r0.st = "answered"
      /\ r0.op = "subscribe"
      /\ Pending(r0)
  BY <1>1, RequestShape DEF Answered, Subscribing, Pending
<1>3. /\ r0.id # NoId
      /\ r0.id \in Nat
      /\ r0.id < nextId
      /\ \A s \in Sessions : r0.id # handle[s]
      /\ \A e \in subs : r0.id # e.id
      /\ \A q \in Unsubscribing : r0.id # q.id
      /\ \A q \in Answered : r0.id = q.id => q = r0
  BY <1>1, RequestShape DEF DInv, IdInv
<1>4. new.initialId = k /\ new.id = r0.id /\ new.sess = s0
  OBVIOUS
<1>5. /\ handle \in [Sessions -> Nat]
      /\ status \in [Sessions -> {"idle", "requesting", "subscribed", "failed", "left"}]
  BY DEF DInv, IInv, TypeOK
\* The first answer names the session's function, a later one its old entry.
<1>6. /\ handle' = IF r0.key = NoId THEN [handle EXCEPT ![s0] = r0.id] ELSE handle
      /\ status' = IF r0.key = NoId THEN [status EXCEPT ![s0] = "subscribed"] ELSE status
      /\ k = handle'[s0]
      /\ r0.key = NoId => handle[s0] = NoId /\ status[s0] = "requesting"
      /\ r0.key # NoId => handle[s0] = r0.key
  <2>1. CASE r0.key = NoId
    <3>1. status[s0] = "requesting"
      BY <1>2, <2>1 DEF DInv, RequestInv
    <3>2. handle[s0] = NoId
      BY <1>2, <3>1 DEF DInv, HandleInv
    <3>3. QED
      BY <1>2, <1>5, <2>1, <3>1, <3>2 DEF Resolve, InitialId
  <2>2. CASE r0.key # NoId
    <3>1. r0.key = handle[s0]
      BY <1>2, <2>2 DEF DInv, RequestInv
    <3>2. status[s0] # "requesting"
      BY <1>2, <2>2, <3>1 DEF DInv, HandleInv
    <3>3. QED
      BY <1>2, <1>5, <2>2, <3>1, <3>2 DEF Resolve, InitialId
  <2>3. QED
    BY <2>1, <2>2
<1> HIDE DEF k, new, s0
<1>7. /\ \A s \in Sessions : s # s0 => handle'[s] = handle[s] /\ status'[s] = status[s]
      /\ handle'[s0] # NoId
      /\ \A s \in Sessions : handle'[s] = handle'[s0] => s = s0
  <2>1. CASE r0.key = NoId
    BY <1>2, <1>3, <1>5, <1>6, <2>1
  <2>2. CASE r0.key # NoId
    BY <1>2, <1>6, <2>2 DEF DInv, HandleInv
  <2>3. QED
    BY <2>1, <2>2
\* The entries that stay are those of the other sessions.
<1>8. \A e \in subs : (e.initialId # k) <=> (e.sess # s0)
  <2>1. ASSUME NEW e \in subs, e.sess = s0 PROVE e.initialId = k
    BY <1>2, <1>6, <2>1 DEF DInv, EntryInv
  <2>2. ASSUME NEW e \in subs, e.sess # s0 PROVE e.initialId # k
    BY <1>6, <1>7, <2>2, EntryShape DEF DInv, EntryInv
  <2>3. QED
    BY <2>1, <2>2
<1>9. HandleInv'
  <2>1. \A s \in Sessions : handle'[s] # NoId <=> status'[s] \in {"subscribed", "left"}
    BY <1>2, <1>5, <1>6, <1>7 DEF DInv, HandleInv
  <2>2. \A s, t \in Sessions : handle'[s] = handle'[t] /\ handle'[s] # NoId => s = t
    BY <1>2, <1>7 DEF DInv, HandleInv
  <2>3. QED
    BY <2>1, <2>2 DEF HandleInv
<1>10. EntryInv'
  <2>1. \A e \in subs' : e.initialId = handle'[e.sess] /\ handle'[e.sess] # NoId
    BY <1>1, <1>4, <1>6, <1>7, <1>8, EntryShape DEF DInv, EntryInv
  <2>2. \A e1, e2 \in subs' : e1.sess = e2.sess => e1 = e2
    BY <1>1, <1>4, <1>8 DEF DInv, EntryInv
  <2>3. QED
    BY <2>1, <2>2 DEF EntryInv
<1>11. /\ Unsubscribing' \subseteq Unsubscribing
       /\ Subscribing' = Subscribing \ {r0}
       /\ Answered' = Answered \ {r0}
  BY <1>1 DEF Subscribing, Unsubscribing, Answered
<1>12. RequestInv'
  <2>1. ASSUME NEW r \in Subscribing'
        PROVE  /\ r.key = NoId => status'[r.sess] = IF Pending(r) THEN "requesting" ELSE "failed"
               /\ r.key # NoId => r.key = handle'[r.sess]
    <3>1. r \in Subscribing /\ r # r0 /\ r.sess \in Sessions
      BY <1>11, RequestShape DEF Subscribing
    <3>2. CASE r.sess = s0 /\ r0.key = NoId
      BY <1>2, <1>6, <3>1, <3>2 DEF DInv, RequestInv, s0
    <3>3. CASE r.sess # s0
      BY <1>7, <3>1, <3>3 DEF DInv, RequestInv
    <3>4. CASE r0.key # NoId
      BY <1>6, <3>1, <3>4 DEF DInv, RequestInv
    <3>5. QED
      BY <3>2, <3>3, <3>4
  <2>2. QED
    BY <1>1, <1>11, <2>1 DEF DInv, RequestInv, Pending
<1>13. IdInv'
  <2>1. \A s \in Sessions : handle'[s] < nextId' /\ (handle'[s] = handle[s] \/ handle'[s] = r0.id)
    BY <1>1, <1>2, <1>3, <1>5, <1>6, <1>7 DEF DInv, IdInv
  <2>2. \A e \in subs' : e.id < nextId' /\ (e \in subs \/ e.id = r0.id)
    BY <1>1, <1>3, <1>4 DEF DInv, IdInv
  <2>3. \A r \in reqs' : r.id < nextId'
    BY <1>1 DEF DInv, IdInv
  <2>4. \A r \in Subscribing' : r.st \in {"waiting", "sent", "abandoned"} => r.id = NoId
    BY <1>11 DEF DInv, IdInv
  <2>5. ASSUME NEW r \in Answered'
        PROVE  /\ r.id # NoId
               /\ \A s \in Sessions : r.id # handle'[s]
               /\ \A e \in subs' : r.id # e.id
               /\ \A q \in Unsubscribing' : r.id # q.id
               /\ \A q \in Answered' : r.id = q.id => r = q
    BY <1>3, <1>11, <2>1, <2>2 DEF DInv, IdInv
  <2>6. \A e1, e2 \in subs' : e1.id = e2.id => e1 = e2
    BY <1>1, <1>3, <1>4 DEF DInv, IdInv
  <2>7. \A e \in subs', q \in Unsubscribing' : e.id # q.id
    BY <1>3, <1>11, <2>2 DEF DInv, IdInv
  <2>8. QED
    BY <2>1, <2>2, <2>3, <2>4, <2>5, <2>6, <2>7 DEF IdInv
<1>14. r0.conn = client /\ \A l \in live : l.conn = r0.conn
  BY <1>1, <1>2, LiveOnClient DEF DInv, IInv, SocketInv, OneLiveSocket
<1>15. LiveInv'
  <2>1. \A l \in live', e \in subs' : e.id = l.id => e.sess = l.sess
    <3>1. \A l \in live : r0.id = l.id => s0 = l.sess
      BY <1>1 DEF DInv, LiveInv, s0
    <3>2. QED
      BY <1>1, <1>4, <3>1 DEF DInv, LiveInv
  <2>2. \A l \in live', r \in Answered' : r.id = l.id => r.sess = l.sess
    BY <1>1, <1>11 DEF DInv, LiveInv
  <2>3. \A r \in Answered' : \E l \in live' : l.conn = r.conn /\ l.id = r.id
    BY <1>1, <1>11 DEF DInv, LiveInv
  <2>4. ASSUME NEW r \in Subscribing', NEW l \in live', NEW e \in subs',
               r.conn = l.conn, r.sess = e.sess
        PROVE  e.id # l.id
    <3>1. CASE e \in subs
      BY <1>1, <1>11, <2>4, <3>1 DEF DInv, LiveInv
    <3>2. CASE e = new
      <4>1. r \in Subscribing /\ r # r0
        BY <1>11
      <4>2. r.sess = r0.sess /\ r.conn = r0.conn
        BY <1>1, <1>4, <1>14, <2>4, <3>2 DEF s0
      <4>3. QED
        BY <1>2, <4>1, <4>2 DEF DInv, RequestInv
    <3>3. QED
      BY <1>1, <3>1, <3>2
  <2>5. QED
    BY <1>1, <2>1, <2>2, <2>3, <2>4 DEF DInv, LiveInv
<1>16. NoServerLeak'
  <2>1. ASSUME NEW l \in live, NEW e \in subs, e.id = l.id
        PROVE  e \in subs'
    <3>1. e.sess # s0
      BY <1>2, <1>14, <2>1 DEF DInv, LiveInv, s0
    <3>2. QED
      BY <1>1, <1>8, <3>1
  <2>2. ASSUME NEW l \in live, NEW r \in reqs, r.conn = l.conn, r.id = l.id
        PROVE  (\E e \in subs' : e.id = l.id) \/ r \in reqs'
    BY <1>1, <1>4, <2>2
  <2>3. QED
    BY <1>1, <2>1, <2>2 DEF DInv, NoServerLeak
<1>17. EntriesTraced'
  <2>1. Listening(new)'
    <3>1. PICK l \in live : l.conn = r0.conn /\ l.id = r0.id
      BY <1>1 DEF DInv, LiveInv
    <3>2. client' # NoClient /\ conn'[client'] = "open"
      BY <1>1, <1>2, <1>14 DEF NoClient, Conns
    <3>3. QED
      BY <1>1, <1>4, <1>14, <3>1, <3>2 DEF Listening
  <2>2. ASSUME NEW e \in subs, e.sess # s0
        PROVE  \/ Listening(e)' \/ timers' > 0 \/ GivenUp'
               \/ \E r \in reqs' : r.op = "subscribe" /\ r.conn = client' /\ r.sess = e.sess
    BY <1>1, <2>2 DEF DInv, EntriesTraced, Listening, GivenUp, Dead, s0
  <2>3. QED
    BY <1>1, <1>8, <2>1, <2>2 DEF EntriesTraced
<1>18. QED
  BY <1>9, <1>10, <1>12, <1>13, <1>15, <1>16, <1>17 DEF DInv

-----------------------------------------------------------------------------
(* The calls that issue requests.                                           *)

\* #setupClient on behalf of a call: either the client is the one there was, or
\* there was none, nothing in the map and nothing at the server.
LEMMA SetupClientFacts ==
    ASSUME DInv, SetupClient(client), conn' = OpenSocket(client, conn), IInv'
    PROVE  /\ client' = SetupConn(client)
           /\ client' \in Conns
           /\ client' <= created'
           /\ created \in Nat /\ created' \in Nat /\ created <= created'
           /\ \/ client' = client /\ conn' = conn /\ created' = created
              \/ client = NoClient /\ subs = {} /\ live = {}
<1>1. client' = SetupConn(client)
  BY DEF SetupClient
<1>2. CASE client = NoClient
  <2>1. client' = created + 1 /\ created' = created + 1
    BY <1>2 DEF SetupClient, SetupConn, NeedsClient
  <2>2. created + 1 \in Conns
    BY <1>2, NullClient DEF DInv
  <2>3. created \in Nat
    BY DEF DInv, IInv, TypeOK
  <2>4. QED
    BY <1>1, <1>2, <2>1, <2>2, <2>3, NullClientEmpty
<1>3. CASE client # NoClient
  <2>1. client' = client /\ conn' = conn /\ created' = created
    BY <1>3 DEF SetupClient, SetupConn, OpenSocket, NeedsClient
  <2>2. client \in Conns /\ client = created /\ created \in Nat
    BY <1>3 DEF DInv, IInv, TypeOK, SocketInv, CreatedInOrder, NoClient, Conns
  <2>3. QED
    BY <1>1, <2>1, <2>2
<1>4. QED
  BY <1>2, <1>3

\* What the server holds, and where entries listen, survives #setupClient.
LEMMA SetupClientKeepsListening ==
    ASSUME DInv, SetupClient(client), conn' = OpenSocket(client, conn), IInv',
           UNCHANGED <<timers, live>>, subs' \subseteq subs, reqs \subseteq reqs'
    PROVE  /\ \A l \in live : conn'[l.conn] \in {"open", "closing"}
           /\ EntriesTraced'
<1>1. CASE client' = client /\ conn' = conn
  <2>1. \A l \in live : conn'[l.conn] \in {"open", "closing"}
    BY <1>1 DEF DInv, LiveInv
  <2>2. EntriesTraced'
    BY <1>1 DEF DInv, EntriesTraced, Listening, GivenUp, Dead
  <2>3. QED
    BY <2>1, <2>2
<1>2. CASE subs = {} /\ live = {}
  BY <1>2 DEF EntriesTraced
<1>3. QED
  BY <1>1, <1>2, SetupClientFacts

LEMMA SubscribeKeepsDInv ==
    ASSUME DInv, NEW s0 \in Sessions, Subscribe(s0), IInv'
    PROVE  DInv'
<1> DEFINE st  == IssueState(SetupConn(client))
           new == SubscribeCall(SetupConn(client), s0, NoId, st)
<1>1. /\ status[s0] = "idle"
      /\ status' = [status EXCEPT ![s0] = "requesting"]
      /\ reqs' = reqs \cup {new}
      /\ SetupClient(client)
      /\ conn' = OpenSocket(client, conn)
      /\ UNCHANGED <<timers, subs, nextId, live, handle>>
  BY DEF Subscribe
<1>2. /\ client' = SetupConn(client)
      /\ client' <= created'
      /\ created \in Nat /\ created' \in Nat /\ created <= created'
  BY <1>1, SetupClientFacts
<1>3. /\ new.op = "subscribe"
      /\ new.conn = client'
      /\ new.sess = s0
      /\ new.key = NoId
      /\ new.id = NoId
      /\ new.st \in {"waiting", "sent"}
      /\ Pending(new)
  BY <1>2, CallFields, IssueStateType DEF Pending
<1> HIDE DEF new
<1>4. /\ Subscribing' = Subscribing \cup {new}
      /\ Unsubscribing' = Unsubscribing
      /\ Answered' = Answered
      /\ Subscribing \subseteq reqs
  BY <1>1, <1>3 DEF Subscribing, Unsubscribing, Answered
<1>5. status \in [Sessions -> {"idle", "requesting", "subscribed", "failed", "left"}]
  BY DEF DInv, IInv, TypeOK
<1>6. handle[s0] = NoId
  BY <1>1 DEF DInv, HandleInv
\* An idle session has asked for nothing yet.
<1>7. /\ \A r \in Subscribing : r.sess # s0
      /\ \A e \in subs : e.sess # s0
  <2>1. ASSUME NEW r \in Subscribing, r.sess = s0 PROVE FALSE
    BY <1>1, <1>6, <2>1 DEF DInv, RequestInv
  <2>2. QED
    BY <1>6, <2>1 DEF DInv, EntryInv
<1>8. HandleInv'
  BY <1>1, <1>5 DEF DInv, HandleInv
<1>9. EntryInv'
  BY <1>1, EntriesKept
<1>10. RequestInv'
  <2>1. \A r \in reqs' : r.conn <= created'
    BY <1>1, <1>2, <1>3, RequestShape DEF DInv, RequestInv, Conns
  <2>2. \A r \in Subscribing' :
           /\ r.key = NoId => status'[r.sess] = IF Pending(r) THEN "requesting" ELSE "failed"
           /\ r.key # NoId => r.key = handle'[r.sess]
    <3>1. \A r \in Subscribing : status'[r.sess] = status[r.sess]
      BY <1>1, <1>4, <1>5, <1>7, RequestShape
    <3>2. QED
      BY <1>1, <1>3, <1>4, <1>5, <3>1 DEF DInv, RequestInv
  <2>3. \A r, q \in Subscribing' :
           r.sess = q.sess /\ (r.conn = q.conn \/ (r.key = NoId /\ q.key = NoId)) => r = q
    BY <1>3, <1>4, <1>7 DEF DInv, RequestInv
  <2>4. QED
    BY <2>1, <2>2, <2>3 DEF RequestInv, Pending
<1>11. IdInv'
  <2>1. \A r \in reqs' : r.id < nextId'
    <3>1. NoId < nextId
      BY DEF DInv, IInv, TypeOK, NoId
    <3>2. QED
      BY <1>1, <1>3, <3>1 DEF DInv, IdInv
  <2>2. \A r \in Subscribing' : r.st \in {"waiting", "sent", "abandoned"} => r.id = NoId
    BY <1>3, <1>4 DEF DInv, IdInv
  <2>3. QED
    BY <1>1, <1>4, <2>1, <2>2 DEF DInv, IdInv
<1>12. LiveInv' /\ EntriesTraced'
  <2>1. (\A l \in live : conn'[l.conn] \in {"open", "closing"}) /\ EntriesTraced'
    BY <1>1, SetupClientKeepsListening
  <2>2. \A r \in Subscribing', l \in live', e \in subs' :
           r.conn = l.conn /\ r.sess = e.sess => e.id # l.id
    BY <1>1, <1>3, <1>4, <1>7 DEF DInv, LiveInv
  <2>3. QED
    BY <1>1, <1>4, <2>1, <2>2 DEF DInv, LiveInv
<1>13. NoServerLeak'
  BY <1>1 DEF DInv, NoServerLeak
<1>14. QED
  BY <1>8, <1>9, <1>10, <1>11, <1>12, <1>13 DEF DInv

LEMMA UnsubscribeKeepsDInv ==
    ASSUME DInv, NEW s0 \in Sessions, Unsubscribe(s0), IInv'
    PROVE  DInv'
<1> DEFINE found == {e \in subs : e.initialId = handle[s0]}
           st    == IssueState(SetupConn(client))
           call(e) == UnsubscribeCall(SetupConn(client), s0, e.id, st)
<1>1. /\ status[s0] \in {"subscribed", "left"}
      /\ status' = [status EXCEPT ![s0] = "left"]
      /\ subs' = subs \ found
      /\ reqs' = reqs \cup {call(e) : e \in found}
      /\ SetupClient(client)
      /\ conn' = OpenSocket(client, conn)
      /\ UNCHANGED <<timers, nextId, live, handle>>
  BY DEF Unsubscribe
<1>2. /\ client' = SetupConn(client)
      /\ client' <= created'
      /\ created \in Nat /\ created' \in Nat /\ created <= created'
  BY <1>1, SetupClientFacts
<1>3. \A e \in found : /\ e \in subs
                       /\ call(e).op = "unsubscribe"
                       /\ call(e).conn = client'
                       /\ call(e).id = e.id
  BY <1>2, CallFields
<1> HIDE DEF call
<1>4. /\ Subscribing' = Subscribing
      /\ Unsubscribing' = Unsubscribing \cup {call(e) : e \in found}
      /\ Answered' = Answered
      /\ Subscribing \subseteq reqs
  BY <1>1, <1>3 DEF Subscribing, Unsubscribing, Answered
<1> HIDE DEF found
<1>5. status \in [Sessions -> {"idle", "requesting", "subscribed", "failed", "left"}]
  BY DEF DInv, IInv, TypeOK
<1>6. HandleInv'
  BY <1>1, <1>5 DEF DInv, HandleInv
<1>7. EntryInv'
  BY <1>1, EntriesKept
<1>8. RequestInv'
  <2>1. \A r \in reqs' : r.conn <= created'
    BY <1>1, <1>2, <1>3, RequestShape DEF DInv, RequestInv, Conns
  <2>2. ASSUME NEW r \in Subscribing, r.key = NoId
        PROVE  status'[r.sess] = status[r.sess]
    <3>1. r.sess # s0
      BY <1>1, <2>2 DEF DInv, RequestInv
    <3>2. QED
      BY <1>1, <1>4, <1>5, <3>1, RequestShape
  <2>3. QED
    BY <1>1, <1>4, <2>1, <2>2 DEF DInv, RequestInv, Pending
<1>9. IdInv'
  <2>1. \A q \in Unsubscribing' : q \in Unsubscribing \/ \E e \in found : q.id = e.id
    BY <1>3, <1>4
  <2>2. \A r \in reqs' : r.id < nextId'
    BY <1>1, <1>3 DEF DInv, IdInv
  <2>3. \A r \in Answered', q \in Unsubscribing' : r.id # q.id
    BY <1>3, <1>4, <2>1 DEF DInv, IdInv
  <2>4. \A e \in subs', q \in Unsubscribing' : e.id # q.id
    BY <1>1, <1>3, <2>1 DEF DInv, IdInv
  <2>5. QED
    BY <1>1, <1>4, <2>2, <2>3, <2>4 DEF DInv, IdInv
<1>10. LiveInv' /\ EntriesTraced'
  <2>1. (\A l \in live : conn'[l.conn] \in {"open", "closing"}) /\ EntriesTraced'
    BY <1>1, SetupClientKeepsListening
  <2>2. QED
    BY <1>1, <1>4, <2>1 DEF DInv, LiveInv
<1>11. NoServerLeak'
  <2>1. ASSUME NEW l \in live, NEW e \in subs, e.id = l.id
        PROVE  \/ e \in subs'
               \/ \E r \in reqs' : r.conn = l.conn /\ r.id = l.id
    <3>1. CASE e \in found
      <4>1. l.conn = client /\ client # NoClient
        BY LiveOnClient DEF Conns, NoClient
      <4>2. l.conn = client'
        BY <4>1, <1>2 DEF SetupConn, NeedsClient
      <4>3. QED
        BY <1>1, <1>3, <2>1, <3>1, <4>2
    <3>2. QED
      BY <1>1, <3>1
  <2>2. QED
    BY <1>1, <2>1 DEF DInv, NoServerLeak
<1>12. QED
  BY <1>6, <1>7, <1>8, <1>9, <1>10, <1>11 DEF DInv

LEMMA ReconnectKeepsDInv ==
    ASSUME DInv, Reconnect, IInv'
    PROVE  DInv'
<1> DEFINE n       == created + 1
           call(e) == SubscribeCall(n, e.sess, e.initialId, "waiting")
           calls   == {call(e) : e \in subs}
<1>1. /\ created \in Nat
      /\ timers > 0
      /\ UNCHANGED <<subs, nextId, live, status, handle>>
  BY DEF Reconnect, DInv, IInv, TypeOK
<1>2. live = {}
  <2>1. client # NoClient => conn[client] \notin {"open", "closing"}
    BY <1>1 DEF DInv, IInv, TypeOK, SocketInv, OneReconnectPending, Dead
  <2>2. QED
    BY <2>1, LiveOnClient DEF DInv, LiveInv, Conns, NoClient
<1>3. Answered = {}
  BY <1>2 DEF DInv, LiveInv
<1>4. CASE subs = {}
  <2>1. /\ reqs' = reqs /\ created' = created /\ subs' = {}
    BY <1>1, <1>4 DEF Reconnect
  <2>2. HandleInv' /\ EntryInv'
    BY <1>1, <2>1, SessionsUnchanged, EntriesKept
  <2>3. RequestInv'
    BY <1>1, <2>1 DEF DInv, RequestInv, Subscribing, Pending
  <2>4. IdInv'
    BY <1>1, <2>1 DEF DInv, IdInv, Subscribing, Unsubscribing, Answered
  <2>5. LiveInv'
    BY <1>1, <1>2, <1>3, <2>1 DEF LiveInv, Subscribing, Answered
  <2>6. NoServerLeak' /\ EntriesTraced'
    BY <1>1, <1>2, <2>1 DEF NoServerLeak, EntriesTraced
  <2>7. QED
    BY <2>2, <2>3, <2>4, <2>5, <2>6 DEF DInv
<1>5. CASE subs # {}
  <2>1. client' = n /\ created' = n /\ reqs' = reqs \cup calls
    BY <1>5 DEF Reconnect, SetupClient, SetupConn, NeedsClient
  <2>2. \A e \in subs : /\ call(e).op = "subscribe"
                        /\ call(e).conn = n
                        /\ call(e).sess = e.sess
                        /\ call(e).key = e.initialId
                        /\ call(e).id = NoId
                        /\ call(e).st = "waiting"
    BY CallFields
  <2> HIDE DEF call, n
  <2>3. /\ Subscribing' = Subscribing \cup calls
        /\ Unsubscribing' = Unsubscribing
        /\ Answered' = {}
        /\ Subscribing \subseteq reqs
    BY <1>3, <2>1, <2>2 DEF Subscribing, Unsubscribing, Answered
  <2>4. HandleInv' /\ EntryInv'
    BY <1>1, SessionsUnchanged, EntriesKept
  \* The new connection carries no call but those for the entries, one each.
  <2>5. RequestInv'
    <3>1. \A r \in reqs : r.conn \in Nat /\ r.conn < n
      BY <1>1, RequestShape DEF DInv, RequestInv, n, Conns
    <3>2. \A r \in reqs' : r.conn <= created'
      BY <1>1, <2>1, <2>2, <3>1 DEF n
    <3>3. \A r \in calls : r.key # NoId /\ r.key = handle'[r.sess]
      BY <1>1, <2>2 DEF DInv, EntryInv
    <3>4. ASSUME NEW r \in Subscribing', NEW q \in Subscribing', r.sess = q.sess,
                 r.conn = q.conn \/ (r.key = NoId /\ q.key = NoId)
          PROVE  r = q
      <4>1. CASE r \in Subscribing /\ q \in Subscribing
        BY <3>4, <4>1 DEF DInv, RequestInv
      <4>2. CASE r \in calls /\ q \in calls
        <5>1. PICK e1 \in subs, e2 \in subs : r = call(e1) /\ q = call(e2)
          BY <4>2
        <5>2. e1 = e2
          BY <2>2, <3>4, <5>1 DEF DInv, EntryInv
        <5>3. QED
          BY <5>1, <5>2
      <4>3. CASE (r \in Subscribing /\ q \in calls) \/ (r \in calls /\ q \in Subscribing)
        <5>1. r.conn # q.conn
          BY <1>1, <2>2, <2>3, <3>1, <4>3 DEF n
        <5>2. r.key # NoId \/ q.key # NoId
          BY <3>3, <4>3
        <5>3. QED
          BY <3>4, <5>1, <5>2
      <4>4. QED
        BY <2>3, <4>1, <4>2, <4>3
    <3>5. \A r \in Subscribing' :
             /\ r.key = NoId => status'[r.sess] = IF Pending(r) THEN "requesting" ELSE "failed"
             /\ r.key # NoId => r.key = handle'[r.sess]
      BY <1>1, <2>3, <3>3 DEF DInv, RequestInv
    <3>6. QED
      BY <3>2, <3>4, <3>5 DEF RequestInv, Pending
  <2>6. IdInv'
    <3>1. NoId < nextId
      BY DEF DInv, IInv, TypeOK, NoId
    <3>2. \A r \in reqs' : r.id < nextId'
      BY <1>1, <2>1, <2>2, <3>1 DEF DInv, IdInv
    <3>3. \A r \in Subscribing' : r.st \in {"waiting", "sent", "abandoned"} => r.id = NoId
      BY <2>2, <2>3 DEF DInv, IdInv
    <3>4. QED
      BY <1>1, <2>3, <3>2, <3>3 DEF DInv, IdInv
  <2>7. LiveInv' /\ NoServerLeak'
    BY <1>1, <1>2, <2>3 DEF LiveInv, NoServerLeak
  <2>8. EntriesTraced'
    BY <1>1, <2>1, <2>2 DEF EntriesTraced
  <2>9. QED
    BY <2>4, <2>5, <2>6, <2>7, <2>8 DEF DInv
<1>6. QED
  BY <1>4, <1>5

-----------------------------------------------------------------------------
LEMMA NextKeepsDInv == DInv /\ [Next]_vars => DInv'
<1> SUFFICES ASSUME DInv, [Next]_vars PROVE DInv'
  OBVIOUS
<1>1. IInv'
  BY NextKeepsIInv DEF DInv
<1>2. ASSUME NEW s \in Sessions, Subscribe(s) \/ Unsubscribe(s) PROVE DInv'
  BY <1>1, <1>2, SubscribeKeepsDInv, UnsubscribeKeepsDInv
<1>3. ASSUME NEW c \in Conns, Open(c) \/ Close(c) PROVE DInv'
  BY <1>1, <1>3, OpenKeepsDInv, CloseKeepsDInv
<1>4. CASE Reconnect
  BY <1>1, <1>4, ReconnectKeepsDInv
<1>5. ASSUME NEW r \in reqs, ServerSubscribe(r) \/ ServerUnsubscribe(r) PROVE DInv'
  BY <1>1, <1>5, ServerSubscribeKeepsDInv, ServerUnsubscribeKeepsDInv
<1>6. ASSUME NEW r \in reqs, Resolve(r) \/ CallTimeout(r) \/ CallRefused(r) PROVE DInv'
  <2>1. CASE Resolve(r)
    BY <1>1, <2>1, ResolveKeepsDInv
  <2>2. CASE CallTimeout(r)
    <3> DEFINE st == IF r.st = "answered" THEN "orphaned" ELSE "abandoned"
    <3>1. /\ Pending(r) /\ FailsCaller(r)
          /\ reqs' = (reqs \ {r}) \cup (IF Dead(r.conn) THEN {} ELSE {InState(r, st)})
          /\ UNCHANGED <<client, created, conn, timers, subs, nextId, live, handle>>
      BY <2>2 DEF CallTimeout
    <3>2. st \in {"abandoned", "orphaned", "refused"} /\ (st = "abandoned" => r.st # "answered")
      OBVIOUS
    <3> HIDE DEF st
    <3>3. QED
      BY <1>1, <3>1, <3>2, CallRejectedKeepsDInv
  <2>3. CASE CallRefused(r)
    <3>1. /\ Pending(r) /\ FailsCaller(r)
          /\ reqs' = (reqs \ {r}) \cup (IF Dead(r.conn) THEN {} ELSE {InState(r, "refused")})
          /\ UNCHANGED <<client, created, conn, timers, subs, nextId, live, handle>>
      BY <2>3 DEF CallRefused, Pending, Dead
    <3>2. QED
      BY <1>1, <3>1, CallRejectedKeepsDInv
  <2>4. QED
    BY <1>6, <2>1, <2>2, <2>3
<1>7. ASSUME NEW l \in live, Notify(l) PROVE DInv'
  BY <1>1, <1>7, NotifyKeepsDInv
<1>8. CASE UNCHANGED vars
  BY <1>1, <1>8 DEF vars, DInv, HandleInv, EntryInv, RequestInv, IdInv, LiveInv, NoServerLeak,
        EntriesTraced, Listening, GivenUp, Dead, Pending, Subscribing, Unsubscribing, Answered
<1>9. QED
  BY <1>2, <1>3, <1>4, <1>5, <1>6, <1>7, <1>8 DEF Next

LEMMA InitEstablishesDInv == Init => DInv
<1> SUFFICES ASSUME Init PROVE DInv
  OBVIOUS
<1>1. /\ subs = {} /\ reqs = {} /\ live = {} /\ nextId = 1
      /\ status = [s \in Sessions |-> "idle"] /\ handle = [s \in Sessions |-> NoId]
  BY DEF Init
<1>2. Subscribing = {} /\ Unsubscribing = {} /\ Answered = {}
  BY <1>1 DEF Subscribing, Unsubscribing, Answered
<1>3. HandleInv /\ EntryInv /\ RequestInv
  BY <1>1, <1>2 DEF HandleInv, EntryInv, RequestInv
<1>4. IdInv
  BY <1>1, <1>2 DEF IdInv, NoId
<1>5. LiveInv /\ NoServerLeak /\ EntriesTraced
  BY <1>1, <1>2 DEF LiveInv, NoServerLeak, EntriesTraced
<1>6. QED
  BY <1>3, <1>4, <1>5, InitEstablishesIInv DEF DInv

THEOREM DInvHolds == Spec => []DInv
BY InitEstablishesDInv, NextKeepsDInv, PTL DEF Spec

\* The function request() returned keeps naming its session's own entry, through
\* every reconnect and every late answer.
THEOREM HandlesStayGood == Spec => []HandleFindsEntry
<1>1. DInv => HandleFindsEntry
  BY DEF DInv, EntryInv, HandleFindsEntry
<1>2. QED
  BY <1>1, DInvHolds, PTL

\* A message runs the callback of the session that subscribed, once at most.
THEOREM DeliveredOnce == Spec => []DeliveredOnceToOwner
<1>1. ASSUME DInv PROVE DeliveredOnceToOwner
  <2>1. \A l \in live : \A e \in Receivers(l.id) : e.sess = l.sess
    BY <1>1 DEF DInv, LiveInv, Receivers
  <2>2. \A e1, e2 \in subs : e1.sess = e2.sess => e1 = e2
    BY <1>1 DEF DInv, EntryInv
  <2>3. ASSUME NEW l \in live PROVE Cardinality(Receivers(l.id)) <= 1
    <3>1. CASE Receivers(l.id) = {}
      BY <3>1, FS_EmptySet
    <3>2. CASE Receivers(l.id) # {}
      <4>1. PICK e \in Receivers(l.id) : TRUE
        BY <3>2
      <4>2. Receivers(l.id) = {e}
        BY <1>1, <4>1 DEF DInv, IdInv, Receivers
      <4>3. Cardinality({e}) = 1
        BY FS_Singleton
      <4>4. QED
        BY <4>2, <4>3
    <3>3. QED
      BY <3>1, <3>2
  <2>4. QED
    BY <2>1, <2>2, <2>3 DEF DeliveredOnceToOwner
<1>2. QED
  BY <1>1, DInvHolds, PTL

\* Nothing the server still sends for is lost to the client.
THEOREM ServerHoldsNothingLost == Spec => []NoServerLeak
<1>1. DInv => NoServerLeak
  BY DEF DInv
<1>2. QED
  BY <1>1, DInvHolds, PTL

\* No reconnect, late answer or call of a user leaves an entry of the map that
\* neither listens nor is about to, unless the client gave up or the entry's own
\* re-request was rejected on the present connection.
THEOREM NoReconnectForgets == Spec => []NoEntryForgotten
<1>1. ASSUME DInv, NEW e \in subs
      PROVE  Listening(e) \/ timers > 0 \/ AskedAgain(e) \/ GivenUp \/ Rejected(e)
  <2>1. SUFFICES ASSUME NEW r \in reqs, r.op = "subscribe", r.conn = client, r.sess = e.sess
                 PROVE  r \in Requests(e)
    BY <1>1 DEF DInv, EntriesTraced, AskedAgain, Rejected
  <2>2. e.sess \in Sessions /\ handle[e.sess] # NoId /\ handle[e.sess] = e.initialId
    BY <1>1, EntryShape DEF DInv, EntryInv
  <2>3. status[e.sess] \in {"subscribed", "left"}
    BY <1>1, <2>2 DEF DInv, HandleInv
  <2>4. r.key = e.initialId
    BY <1>1, <2>1, <2>2, <2>3 DEF DInv, RequestInv, Subscribing
  <2>5. QED
    BY <2>1, <2>4 DEF Requests
<1>2. DInv => NoEntryForgotten
  BY <1>1 DEF NoEntryForgotten
<1>3. QED
  BY <1>2, DInvHolds, PTL

-----------------------------------------------------------------------------
(* What unsubscribing does guarantee.                                       *)

\* The session unsubscribed, and no request for it is in flight.
Gone(s) ==
    /\ status[s] = "left"
    /\ \A e \in subs : e.sess # s
    /\ \A r \in Subscribing : r.sess # s

\* Only a request made before unsubscribe() can bring a subscription back: the
\* race that refutes UnsubscribedStaysRemoved is the only way to lose it.
GoneForGood == [][\A s \in Sessions : Gone(s) => Gone(s)']_vars

\* A session that unsubscribed with nothing in flight never gets a message again.
THEOREM UnsubscribedForGood == Spec => GoneForGood
<1>1. ASSUME DInv, [Next]_vars, NEW s \in Sessions, Gone(s) PROVE Gone(s)'
  <2>1. status \in [Sessions -> {"idle", "requesting", "subscribed", "failed", "left"}]
    BY <1>1 DEF DInv, IInv, TypeOK
  <2>2. /\ status[s] = "left"
        /\ \A e \in subs : e.sess # s
        /\ \A r \in reqs : r.op = "subscribe" => r.sess # s
    BY <1>1 DEF Gone, Subscribing
  <2>3. SUFFICES /\ status'[s] = "left"
                 /\ \A e \in subs' : e.sess # s
                 /\ \A r \in reqs' : r.op = "subscribe" => r.sess # s
    BY DEF Gone, Subscribing
  <2>4. ASSUME NEW t \in Sessions, Subscribe(t)
        PROVE  /\ status'[s] = "left" /\ subs' = subs
               /\ \A r \in reqs' : r.op = "subscribe" => r.sess # s
    BY <2>1, <2>2, <2>4, CallFields DEF Subscribe
  <2>5. ASSUME NEW t \in Sessions, Unsubscribe(t)
        PROVE  /\ status'[s] = "left" /\ subs' \subseteq subs
               /\ \A r \in reqs' : r.op = "subscribe" => r.sess # s
    BY <2>1, <2>2, <2>5, CallFields DEF Unsubscribe
  <2>6. ASSUME NEW c \in Conns, Open(c) \/ Close(c)
        PROVE  /\ status' = status /\ subs' = subs
               /\ \A r \in reqs' : r.op = "subscribe" => r.sess # s
    BY <1>1, <2>2, <2>6, CopyFields DEF Open, OpenWith, Close, ForgetConn
  <2>7. CASE Reconnect
    <3>1. \A r \in reqs' : r \in reqs \/ \E e \in subs : r.sess = e.sess
      BY <2>7, CallFields DEF Reconnect
    <3>2. status' = status /\ subs' = subs
      BY <2>7 DEF Reconnect
    <3>3. QED
      BY <2>2, <3>1, <3>2
  <2>8. ASSUME NEW r0 \in reqs, ServerSubscribe(r0) \/ ServerUnsubscribe(r0)
        PROVE  /\ status' = status /\ subs' = subs
               /\ \A r \in reqs' : r.op = "subscribe" => r.sess # s
    BY <1>1, <2>2, <2>8, CopyFields DEF ServerSubscribe, ServerUnsubscribe
  <2>9. ASSUME NEW r0 \in reqs, Resolve(r0)
        PROVE  /\ status'[s] = "left"
               /\ \A e \in subs' : e.sess # s
               /\ reqs' \subseteq reqs
    BY <2>1, <2>2, <2>9 DEF Resolve, MapSet
  <2>10. ASSUME NEW r0 \in reqs, CallTimeout(r0) \/ CallRefused(r0)
        PROVE  /\ status'[s] = "left" /\ subs' = subs
               /\ \A r \in reqs' : r.op = "subscribe" => r.sess # s
    BY <1>1, <2>1, <2>2, <2>10, CopyFields DEF CallTimeout, CallRefused, FailsCaller
  <2>11. CASE (\E l \in live : Notify(l)) \/ UNCHANGED vars
    BY <2>2, <2>11 DEF Notify, vars
  <2>12. QED
    BY <1>1, <2>2, <2>4, <2>5, <2>6, <2>7, <2>8, <2>9, <2>10, <2>11 DEF Next
<1>2. DInv /\ [Next]_vars => [\A s \in Sessions : Gone(s) => Gone(s)']_vars
  BY <1>1
<1>3. QED
  BY <1>2, DInvHolds, PTL DEF Spec, GoneForGood

-----------------------------------------------------------------------------
(* To its users the client is the service of Subscriptions.                 *)

\* What the refinement needs of the client: who holds which number, and that
\* the count leaves retries exactly while the service is not over.
ServiceInv == DInv /\ CountInv

\* Nobody listens while no socket is open.
LEMMA NobodyListens ==
    ASSUME conn[client] # "open" \/ client = NoClient
    PROVE  ListeningSessions = {}
BY DEF ListeningSessions, Listening

\* A step that touches neither the map, what the server holds nor the socket.
LEMMA SameListening ==
    ASSUME UNCHANGED <<subs, live, client, conn>>
    PROVE  KeptSessions' = KeptSessions /\ ListeningSessions' = ListeningSessions
BY DEF KeptSessions, ListeningSessions, Listening

\* While the socket is not dead, retries are left.
LEMMA NotOver ==
    ASSUME ServiceInv, client = NoClient \/ ~Dead(client) \/ timers # 0
    PROVE  ~Service!Over
<1>1. disconnects <= MaxReconnects /\ disconnects \in Nat
  BY DEF ServiceInv, CountInv, RetriesLeft, DInv, IInv, TypeOK
<1>2. QED
  BY <1>1, BoundsAssumption DEF Service!Over

\* The sockets that are up are the one of #client, and it has retries left.
LEMMA UpIsClient ==
    ASSUME ServiceInv, NEW c \in Conns, conn[c] \in {"connecting", "open", "closing"}
    PROVE  c = client /\ ~Dead(client) /\ ~Service!Over
<1>1. c = client
  BY DEF ServiceInv, DInv, IInv, SocketInv, OneLiveSocket
<1>2. ~Dead(client)
  BY <1>1 DEF Dead
<1>3. QED
  BY <1>1, <1>2, NotOver

\* A request of #reconnect still waited for is of a session that has returned.
LEMMA RecallingShape ==
    ASSUME DInv, NEW r \in reqs, r.op = "subscribe", r.key # NoId
    PROVE  /\ r.sess \in Sessions /\ r.key = handle[r.sess]
           /\ status[r.sess] \in {"subscribed", "left"}
<1>1. r.key = handle[r.sess] /\ r.sess \in Sessions
  BY RequestShape DEF DInv, RequestInv, Subscribing
<1>2. QED
  BY <1>1 DEF DInv, HandleInv

\* Calls copied with their subject, waited for as before, on the same socket.
LEMMA SameRecalled ==
    ASSUME NEW f,
           reqs' = {f[r] : r \in reqs},
           \A r \in reqs : /\ f[r].op = r.op
                           /\ f[r].conn = r.conn
                           /\ f[r].sess = r.sess
                           /\ f[r].key = r.key
                           /\ r.conn = client => (Pending(f[r]) <=> Pending(r)),
           client' = client, Dead(client)' = Dead(client)
    PROVE  RecalledSessions' = RecalledSessions
<1>1. \A r \in reqs : Recalling(f[r])' <=> Recalling(r)
  BY DEF Recalling, Pending
<1>2. QED
  BY <1>1 DEF RecalledSessions

-----------------------------------------------------------------------------
\* A call that is no re-subscription, on a client that is there or made for it.
LEMMA SetupClientRecallsNothing ==
    ASSUME DInv, DInv', SetupClient(client), conn' = OpenSocket(client, conn),
           NEW more, reqs' = reqs \cup more,
           \A r \in more : ~(r.op = "subscribe" /\ r.key # NoId)
    PROVE  RecalledSessions' = RecalledSessions
<1>1. CASE client' = client /\ conn' = conn
  <2>1. \A r \in reqs : Recalling(r)' <=> Recalling(r)
    BY <1>1 DEF Recalling, Pending, Dead
  <2>2. \A r \in more : ~Recalling(r)'
    BY DEF Recalling
  <2>3. QED
    BY <2>1, <2>2 DEF RecalledSessions
<1>2. CASE client = NoClient
  <2>1. client' = created + 1
    BY <1>2 DEF SetupClient, SetupConn, NeedsClient
  <2>2. \A r \in reqs : r.conn \in Conns /\ r.conn <= created
    BY RequestShape DEF DInv, RequestInv
  <2>3. created \in Nat
    BY DEF DInv, IInv, TypeOK
  <2>4. \A r \in reqs : r.conn # client /\ r.conn # client'
    BY <1>2, <2>1, <2>2, <2>3 DEF NoClient, Conns
  <2>5. \A r \in reqs' : ~Recalling(r)'
    BY <2>4 DEF Recalling
  <2>6. \A r \in reqs : ~Recalling(r)
    BY <2>4 DEF Recalling
  <2>7. QED
    BY <2>5, <2>6 DEF RecalledSessions
<1>3. IInv'
  BY DEF DInv
<1>4. QED
  BY <1>1, <1>2, <1>3, SetupClientFacts

LEMMA SubscribeServes ==
    ASSUME ServiceInv, DInv', NEW s \in Sessions, Subscribe(s)
    PROVE  Service!Ask(s)
<1> DEFINE calls == {SubscribeCall(SetupConn(client), s, NoId, IssueState(SetupConn(client)))}
<1>1. /\ status[s] = "idle" /\ status' = [status EXCEPT ![s] = "requesting"]
      /\ SetupClient(client) /\ conn' = OpenSocket(client, conn)
      /\ reqs' = reqs \cup calls
      /\ UNCHANGED <<disconnects, subs, live, received>>
  BY DEF Subscribe
<1>2. DInv /\ IInv'
  BY DEF ServiceInv, DInv
<1>3. \A r \in calls : ~(r.op = "subscribe" /\ r.key # NoId)
  BY CallFields
<1> HIDE DEF calls
<1>4. RecalledSessions' = RecalledSessions
  BY <1>1, <1>2, <1>3, SetupClientRecallsNothing
<1>5. KeptSessions' = KeptSessions /\ ListeningSessions' = ListeningSessions
  <2>1. CASE client' = client /\ conn' = conn
    BY <1>1, <2>1, SameListening
  <2>2. CASE subs = {}
    BY <1>1, <2>2 DEF KeptSessions, ListeningSessions
  <2>3. QED
    BY <1>1, <1>2, <2>1, <2>2, SetupClientFacts
<1>6. {t \in Sessions : received[t]}' = {t \in Sessions : received[t]}
  BY <1>1
<1>7. QED
  BY <1>1, <1>4, <1>5, <1>6 DEF Service!Ask

\* An entry under the id a session's function holds is the session's own.
LEMMA FoundIsOwn ==
    ASSUME DInv, NEW s \in Sessions, status[s] \in {"subscribed", "left"}
    PROVE  \A e \in subs : e.initialId = handle[s] <=> e.sess = s
BY EntryShape DEF DInv, EntryInv, HandleInv

LEMMA UnsubscribeServes ==
    ASSUME ServiceInv, DInv', NEW s \in Sessions, Unsubscribe(s)
    PROVE  Service!Leave(s)
<1> DEFINE found == {e \in subs : e.initialId = handle[s]}
           calls == {UnsubscribeCall(SetupConn(client), s, e.id, IssueState(SetupConn(client))) : e \in found}
<1>1. /\ status[s] \in {"subscribed", "left"} /\ status' = [status EXCEPT ![s] = "left"]
      /\ SetupClient(client) /\ conn' = OpenSocket(client, conn)
      /\ subs' = subs \ found /\ reqs' = reqs \cup calls
      /\ UNCHANGED <<disconnects, live, received>>
  BY DEF Unsubscribe
<1>2. DInv /\ IInv'
  BY DEF ServiceInv, DInv
<1>3. subs' = {e \in subs : e.sess # s}
  BY <1>1, <1>2, FoundIsOwn
<1>4. \A r \in calls : r.op = "unsubscribe"
  BY CallFields
<1> HIDE DEF found, calls
<1>5. RecalledSessions' = RecalledSessions
  BY <1>1, <1>2, <1>4, SetupClientRecallsNothing
<1>6. KeptSessions' = KeptSessions \ {s} /\ ListeningSessions' = ListeningSessions \ {s}
  <2>1. KeptSessions' = KeptSessions \ {s}
    BY <1>3 DEF KeptSessions
  <2>2. CASE client' = client /\ conn' = conn
    <3>1. \A e \in subs : Listening(e)' <=> Listening(e)
      BY <1>1, <2>2 DEF Listening
    <3>2. QED
      BY <1>3, <2>1, <3>1 DEF ListeningSessions
  <2>3. CASE subs = {}
    BY <1>3, <2>1, <2>3 DEF ListeningSessions
  <2>4. QED
    BY <1>1, <1>2, <2>2, <2>3, SetupClientFacts
<1>7. {t \in Sessions : received[t]}' = {t \in Sessions : received[t]}
  BY <1>1
<1>8. QED
  BY <1>1, <1>5, <1>6, <1>7 DEF Service!Leave

-----------------------------------------------------------------------------
LEMMA OpenServes ==
    ASSUME ServiceInv, DInv', NEW c \in Conns, Open(c)
    PROVE  Service!Connect
<1> DEFINE f == [r \in reqs |-> IF r.conn = c /\ r.st = "waiting" THEN InState(r, "sent") ELSE r]
<1>1. /\ conn[c] = "connecting" /\ conn' = [conn EXCEPT ![c] = "open"]
      /\ disconnects' = 0 /\ client' = client
      /\ UNCHANGED <<subs, live, status, received>>
      /\ reqs' = {f[r] : r \in reqs}
  BY DEF Open, OpenWith
<1>2. c = client /\ ~Service!Over /\ DInv
  BY <1>1, UpIsClient DEF ServiceInv
<1>3. conn'[c] = "open"
  BY <1>1 DEF ServiceInv, DInv, IInv, TypeOK
<1>4. \A r \in reqs : /\ f[r].op = r.op
                      /\ f[r].conn = r.conn
                      /\ f[r].sess = r.sess
                      /\ f[r].key = r.key
                      /\ r.conn = client => (Pending(f[r]) <=> Pending(r))
  BY <1>2, CopyFields DEF Pending
<1> HIDE DEF f
<1>5. Dead(client)' = Dead(client)
  BY <1>1, <1>2, <1>3 DEF Dead
<1>6. RecalledSessions' = RecalledSessions
  BY <1>1, <1>4, <1>5, SameRecalled
<1>7. ListeningSessions = {}
  BY <1>1, <1>2, NobodyListens
<1>8. live = {}
  <2>1. ASSUME NEW l \in live PROVE FALSE
    <3>1. l.conn = client /\ conn[l.conn] \in {"open", "closing"}
      BY <1>2, LiveOnClient DEF DInv, LiveInv
    <3>2. QED
      BY <1>1, <1>2, <3>1
  <2>2. QED
    BY <2>1
<1>9. KeptSessions' = KeptSessions /\ ListeningSessions' = {}
  BY <1>1, <1>8 DEF KeptSessions, ListeningSessions, Listening
<1>10. {t \in Sessions : received[t]}' = {t \in Sessions : received[t]}
  BY <1>1
<1>11. QED
  BY <1>1, <1>2, <1>6, <1>7, <1>9, <1>10 DEF Service!Connect

LEMMA CloseServes ==
    ASSUME ServiceInv, DInv', NEW c \in Conns, Close(c)
    PROVE  Service!LoseConnection
<1>1. /\ conn[c] \in {"connecting", "open", "closing"}
      /\ conn' = [conn EXCEPT ![c] = IF @ = "connecting" THEN "failed" ELSE "closed"]
      /\ disconnects' = disconnects + 1 /\ client' = client
      /\ UNCHANGED <<subs, status, received>>
  BY DEF Close
<1>2. c = client /\ ~Service!Over
  BY <1>1, UpIsClient
<1>3. conn'[c] \in {"failed", "closed"}
  BY <1>1 DEF ServiceInv, DInv, IInv, TypeOK
<1>4. RecalledSessions' = {}
  BY <1>1, <1>2, <1>3 DEF RecalledSessions, Recalling, Dead
<1>5. ListeningSessions' = {}
  BY <1>1, <1>2, <1>3 DEF ListeningSessions, Listening
<1>6. KeptSessions' = KeptSessions
  BY <1>1 DEF KeptSessions
<1>7. {t \in Sessions : received[t]}' = {t \in Sessions : received[t]}
  BY <1>1
<1>8. QED
  BY <1>1, <1>2, <1>4, <1>5, <1>6, <1>7 DEF Service!LoseConnection

\* While a reconnect is pending at least one connection was lost.
LEMMA LostBefore ==
    ASSUME ServiceInv, timers > 0
    PROVE  disconnects > 0 /\ client \in Conns /\ Dead(client)
<1>1. client \in Conns /\ Dead(client) /\ client = created
  BY DEF ServiceInv, DInv, IInv, TypeOK, SocketInv, OneReconnectPending, CreatedInOrder, NoClient, Conns
<1>2. client \in ClosedInARow
  BY <1>1 DEF ClosedInARow, ServiceInv, DInv, IInv, SocketInv, CreatedInOrder
<1>3. Cardinality(ClosedInARow) \in Nat /\ Cardinality(ClosedInARow) # 0
  BY <1>2, ClosedInARowFinite, FS_CardinalityType, FS_EmptySet
<1>4. QED
  BY <1>1, <1>3 DEF ServiceInv, CountInv, GivesUpOnlyWhenExhausted

LEMMA ReconnectServes ==
    ASSUME ServiceInv, DInv', Reconnect
    PROVE  Service!Recall
<1>1. /\ timers > 0
      /\ UNCHANGED <<disconnects, subs, live, status, received>>
  BY DEF Reconnect
<1>2. disconnects > 0 /\ client \in Conns /\ Dead(client)
  BY <1>1, LostBefore
<1>3. ~Service!Over
  BY <1>1, NotOver DEF ServiceInv, DInv, IInv, TypeOK
<1>4. ListeningSessions = {}
  BY <1>2, NobodyListens DEF Dead
<1>5. KeptSessions' = KeptSessions
  BY <1>1 DEF KeptSessions
<1>6. RecalledSessions' = KeptSessions /\ ListeningSessions' = {}
  <2>1. CASE subs = {}
    <3>1. client' = NoClient
      BY <2>1 DEF Reconnect
    <3>2. ListeningSessions' = {}
      BY <3>1 DEF ListeningSessions, Listening
    <3>3. \A r \in reqs' : r.conn # client'
      BY <3>1, <1>2 DEF DInv, IInv, TypeOK, Request, NoClient, Conns
    <3>4. RecalledSessions' = {}
      BY <3>3 DEF RecalledSessions, Recalling
    <3>5. QED
      BY <2>1, <3>2, <3>4 DEF KeptSessions
  <2>2. CASE subs # {}
    <3> DEFINE new == created + 1
               again == {SubscribeCall(new, e.sess, e.initialId, "waiting") : e \in subs}
    <3>1. [d \in Conns |-> IF d = client /\ conn[d] \in {"connecting", "open"}
                           THEN "closing" ELSE conn[d]] = conn
      BY <1>1, ReconnectClosesNothing DEF ServiceInv, DInv
    <3>2. /\ client' = new
          /\ conn' = [conn EXCEPT ![new] = "connecting"]
          /\ reqs' = reqs \cup again
      BY <2>2, <3>1 DEF Reconnect, SetupClient, SetupConn, NeedsClient, OpenSocket
    <3>3. client' \in Conns
      BY <3>2 DEF ServiceInv, DInv, IInv, TypeOK, NoClient, Conns
    <3>4. conn'[new] = "connecting"
      BY <3>2, <3>3 DEF ServiceInv, DInv, IInv, TypeOK
    <3>5. ListeningSessions' = {}
      BY <3>2, <3>4 DEF ListeningSessions, Listening
    <3>6. \A r \in reqs : r.conn # client'
      <4>1. \A r \in reqs : r.conn \in Conns /\ r.conn <= created
        BY RequestShape DEF ServiceInv, DInv, RequestInv
      <4>2. created \in Nat
        BY DEF ServiceInv, DInv, IInv, TypeOK
      <4>3. QED
        BY <4>1, <4>2, <3>2 DEF Conns
    <3>7. ~Dead(client)'
      BY <3>2, <3>4 DEF Dead
    <3>8. \A e \in subs : e.initialId # NoId
      BY EntryShape DEF ServiceInv, DInv, EntryInv
    <3>9. \A r \in again : /\ r.op = "subscribe" /\ r.key # NoId /\ r.conn = new /\ Pending(r)
                           /\ \E e \in subs : r.sess = e.sess
      BY <3>8, CallFields DEF Pending
    <3>10. \A e \in subs : \E r \in again : r.sess = e.sess
      BY CallFields
    <3> HIDE DEF new, again
    <3>11. \A r \in reqs : ~Recalling(r)'
      BY <3>6 DEF Recalling
    <3>12. \A r \in again : Recalling(r)'
      BY <3>2, <3>7, <3>9 DEF Recalling, Pending
    <3>13. RecalledSessions' = {r.sess : r \in again}
      BY <3>2, <3>11, <3>12 DEF RecalledSessions
    <3>14. {r.sess : r \in again} = KeptSessions
      BY <3>9, <3>10 DEF KeptSessions
    <3>15. QED
      BY <3>5, <3>13, <3>14
  <2>3. QED
    BY <2>1, <2>2
<1>7. {t \in Sessions : received[t]}' = {t \in Sessions : received[t]}
  BY <1>1
<1>8. QED
  BY <1>1, <1>2, <1>3, <1>4, <1>5, <1>6, <1>7 DEF Service!Recall

-----------------------------------------------------------------------------
\* The server's steps show when their answers are processed.
LEMMA ServerServes ==
    ASSUME ServiceInv, DInv', NEW r \in reqs, ServerSubscribe(r) \/ ServerUnsubscribe(r)
    PROVE  UNCHANGED Service!vars
<1>1. UNCHANGED <<client, conn, disconnects, subs, status, received>>
  BY DEF ServerSubscribe, ServerUnsubscribe
<1>2. \A e \in subs : Listening(e)' <=> Listening(e)
  <2>1. CASE ServerSubscribe(r)
    <3>1. \A e \in subs : e.id # nextId
      BY <2>1, EntryShape DEF ServiceInv, DInv, IInv, TypeOK, IdInv
    <3>2. QED
      BY <1>1, <2>1, <3>1 DEF ServerSubscribe, Listening
  <2>2. CASE ServerUnsubscribe(r)
    <3>1. \A e \in subs : e.id # r.id
      BY <2>2 DEF ServiceInv, DInv, IdInv, Unsubscribing, ServerUnsubscribe
    <3>2. QED
      BY <1>1, <2>2, <3>1 DEF ServerUnsubscribe, Listening
  <2>3. QED
    BY <2>1, <2>2
<1>3. KeptSessions' = KeptSessions
  BY <1>1 DEF KeptSessions
<1>4. ListeningSessions' = ListeningSessions
  BY <1>1, <1>2 DEF ListeningSessions
<1>5. RecalledSessions' = RecalledSessions
  <2>1. CASE ServerSubscribe(r)
    <3> DEFINE answered == Holding(r, nextId, IF r.st = "sent" THEN "answered" ELSE "orphaned")
               f == [q \in reqs |-> IF q = r THEN answered ELSE q]
    <3>1. reqs' = (reqs \ {r}) \cup {answered} /\ r.st \in {"sent", "abandoned"}
      BY <2>1 DEF ServerSubscribe
    <3>2. /\ answered.op = r.op /\ answered.conn = r.conn
          /\ answered.sess = r.sess /\ answered.key = r.key
          /\ Pending(answered) <=> Pending(r)
      BY <3>1, CopyFields DEF ServiceInv, Pending
    <3> HIDE DEF answered
    <3>3. reqs' = {f[q] : q \in reqs}
      BY <3>1
    <3>4. \A q \in reqs : /\ f[q].op = q.op
                          /\ f[q].conn = q.conn
                          /\ f[q].sess = q.sess
                          /\ f[q].key = q.key
                          /\ q.conn = client => (Pending(f[q]) <=> Pending(q))
      BY <3>2
    <3> HIDE DEF f
    <3>5. client' = client /\ Dead(client)' = Dead(client)
      BY <1>1 DEF Dead
    <3>6. QED
      BY <3>3, <3>4, <3>5, SameRecalled
  <2>2. CASE ServerUnsubscribe(r)
    <3>1. reqs' = reqs \ {r} /\ r.op = "unsubscribe"
      BY <2>2 DEF ServerUnsubscribe
    <3>2. \A q \in reqs : Recalling(q)' <=> Recalling(q)
      BY <1>1 DEF Recalling, Pending, Dead
    <3>3. ~Recalling(r)
      BY <3>1 DEF Recalling
    <3>4. QED
      BY <3>1, <3>2, <3>3 DEF RecalledSessions
  <2>3. QED
    BY <2>1, <2>2
<1>6. {t \in Sessions : received[t]}' = {t \in Sessions : received[t]}
  BY <1>1
<1>7. QED
  BY <1>1, <1>3, <1>4, <1>5, <1>6 DEF Service!vars

\* Once a request on the present socket is over, its session is recalled no more.
LEMMA OneRecallEach ==
    ASSUME DInv, NEW r \in reqs, r.op = "subscribe", Pending(r), r.conn = client,
           UNCHANGED <<client, conn>>,
           \A q \in reqs' : q \in reqs \ {r} \/ ~Pending(q),
           reqs \ {r} \subseteq reqs'
    PROVE  RecalledSessions' = RecalledSessions \ (IF r.key = NoId THEN {} ELSE {r.sess})
<1>1. \A q \in reqs : Recalling(q)' <=> Recalling(q)
  BY DEF Recalling, Pending, Dead
<1>2. \A q \in reqs' : Recalling(q)' => q \in reqs \ {r}
  BY DEF Recalling, Pending
<1>3. RecalledSessions' = {q.sess : q \in {p \in reqs \ {r} : Recalling(p)}}
  BY <1>1, <1>2 DEF RecalledSessions
<1>4. \A q \in reqs \ {r} : Recalling(q) => q.sess # r.sess
  BY DEF DInv, RequestInv, Subscribing, Recalling
<1>5. r.key = NoId => ~Recalling(r)
  BY DEF Recalling
<1>6. QED
  BY <1>3, <1>4, <1>5 DEF RecalledSessions

\* The first answer of a session is its subscription; a later one resumes it.
LEMMA ResolveServes ==
    ASSUME ServiceInv, DInv', NEW r \in reqs, Resolve(r)
    PROVE  Service!Confirm(r.sess) \/ Service!Resume(r.sess)
<1> DEFINE entry == [initialId |-> InitialId(r), id |-> r.id, sess |-> r.sess]
<1>1. /\ r.op = "subscribe" /\ r.st = "answered" /\ conn[r.conn] = "open"
      /\ subs' = {e \in subs : e.initialId # InitialId(r)} \cup {entry}
      /\ reqs' = reqs \ {r}
      /\ status' = IF status[r.sess] = "requesting"
                   THEN [status EXCEPT ![r.sess] = "subscribed"] ELSE status
      /\ UNCHANGED <<client, conn, live, disconnects, received>>
  BY DEF Resolve, MapSet
<1>2. DInv /\ r \in Answered /\ r \in Subscribing /\ Pending(r) /\ r.sess \in Sessions
  BY <1>1, RequestShape DEF ServiceInv, Answered, Subscribing, Pending
<1>3. r.conn = client /\ ~Dead(client) /\ ~Service!Over
  BY <1>1, <1>2, RequestShape, UpIsClient
<1>4. RecalledSessions' = RecalledSessions \ (IF r.key = NoId THEN {} ELSE {r.sess})
  BY <1>1, <1>2, <1>3, OneRecallEach
<1>5. /\ entry.sess = r.sess /\ entry.id = r.id /\ entry.initialId = InitialId(r)
  OBVIOUS
<1> HIDE DEF entry
<1>6. {e \in subs : e.initialId # InitialId(r)} = {e \in subs : e.sess # r.sess}
  <2>1. CASE r.key = NoId
    <3>1. InitialId(r) = r.id
      BY <2>1 DEF InitialId
    <3>2. status[r.sess] = "requesting"
      BY <1>2, <2>1 DEF DInv, RequestInv
    <3>3. \A e \in subs : e.sess # r.sess
      BY <3>2, EntryShape, <1>2 DEF DInv, EntryInv, HandleInv
    <3>4. \A e \in subs : e.initialId # r.id
      BY <1>2, EntryShape DEF DInv, EntryInv, IdInv
    <3>5. QED
      BY <3>1, <3>3, <3>4
  <2>2. CASE r.key # NoId
    <3>1. InitialId(r) = handle[r.sess] /\ status[r.sess] \in {"subscribed", "left"}
      BY <1>1, <1>2, <2>2, RecallingShape DEF InitialId
    <3>2. QED
      BY <1>2, <3>1, FoundIsOwn
  <2>3. QED
    BY <2>1, <2>2
<1>7. KeptSessions' = KeptSessions \cup {r.sess}
  BY <1>1, <1>5, <1>6 DEF KeptSessions
<1>8. ListeningSessions' = ListeningSessions \cup {r.sess}
  <2>1. \A e \in subs : Listening(e)' <=> Listening(e)
    BY <1>1 DEF Listening
  <2>2. PICK l \in live : l.conn = r.conn /\ l.id = r.id
    BY <1>2 DEF DInv, LiveInv
  <2>3. client # NoClient
    BY <1>2, <1>3, RequestShape DEF NoClient, Conns
  <2>4. Listening(entry)'
    BY <1>1, <1>3, <1>5, <2>2, <2>3 DEF Listening
  <2>5. ListeningSessions' = {e.sess : e \in {d \in subs' : Listening(d)'}}
    BY DEF ListeningSessions
  <2>6. QED
    BY <1>1, <1>5, <1>6, <2>1, <2>4, <2>5 DEF ListeningSessions
<1>9. {t \in Sessions : received[t]}' = {t \in Sessions : received[t]}
  BY <1>1
<1>10. CASE r.key = NoId
  <2>1. status[r.sess] = "requesting"
    BY <1>2, <1>10 DEF DInv, RequestInv
  <2>2. Service!Confirm(r.sess)
    BY <1>1, <1>3, <1>4, <1>7, <1>8, <1>9, <1>10, <2>1 DEF Service!Confirm
  <2>3. QED
    BY <2>2
<1>11. CASE r.key # NoId
  <2>1. status[r.sess] # "requesting"
    BY <1>1, <1>2, <1>11, RecallingShape
  <2>2. r.sess \in RecalledSessions
    BY <1>1, <1>2, <1>3, <1>11 DEF RecalledSessions, Recalling
  <2>3. Service!Resume(r.sess)
    BY <1>1, <1>3, <1>4, <1>7, <1>8, <1>9, <1>11, <2>1, <2>2 DEF Service!Resume
  <2>4. QED
    BY <2>3
<1>12. QED
  BY <1>10, <1>11

\* A call given up is a first request that fails, a recall given up, or was no
\* longer of consequence.
LEMMA CallRejectedServes ==
    ASSUME ServiceInv, DInv', NEW r \in reqs, Pending(r),
           NEW st \in {"abandoned", "orphaned", "refused"},
           reqs' = (reqs \ {r}) \cup (IF Dead(r.conn) THEN {} ELSE {InState(r, st)}),
           FailsCaller(r),
           UNCHANGED <<client, conn, subs, live, disconnects, received>>
    PROVE  Service!Fail(r.sess) \/ Service!GiveUpRecall(r.sess) \/ UNCHANGED Service!vars
<1> DEFINE late == InState(r, st)
<1>1. /\ Pending(r)
      /\ reqs' = (reqs \ {r}) \cup (IF Dead(r.conn) THEN {} ELSE {late})
      /\ status' = IF r.op = "subscribe" /\ status[r.sess] = "requesting"
                   THEN [status EXCEPT ![r.sess] = "failed"] ELSE status
      /\ UNCHANGED <<client, conn, subs, live, disconnects, received>>
  BY DEF FailsCaller
<1>2. ~Pending(late)
  BY CopyFields DEF ServiceInv, Pending
<1> HIDE DEF late
<1>3. KeptSessions' = KeptSessions /\ ListeningSessions' = ListeningSessions
  BY <1>1, SameListening
<1>4. {t \in Sessions : received[t]}' = {t \in Sessions : received[t]}
  BY <1>1
<1>5. CASE Recalling(r)
  <2>1. r.op = "subscribe" /\ r.key # NoId /\ r.conn = client
    BY <1>5 DEF Recalling
  <2>2. \A q \in reqs' : q \in reqs \ {r} \/ ~Pending(q)
    BY <1>1, <1>2
  <2>3. RecalledSessions' = RecalledSessions \ {r.sess}
    BY <1>1, <2>1, <2>2, OneRecallEach DEF ServiceInv
  <2>4. r.sess \in RecalledSessions
    BY <1>5 DEF RecalledSessions
  <2>5. status' = status
    BY <1>1, <2>1, RecallingShape DEF ServiceInv
  <2>6. Service!GiveUpRecall(r.sess)
    BY <1>1, <1>3, <1>4, <2>3, <2>4, <2>5 DEF Service!GiveUpRecall
  <2>7. QED
    BY <2>6
<1>6. CASE ~Recalling(r)
  <2>1. \A q \in reqs : Recalling(q)' <=> Recalling(q)
    BY <1>1 DEF Recalling, Pending, Dead
  <2>2. ~Recalling(late)'
    BY <1>2 DEF Recalling, Pending
  <2>3. RecalledSessions' = RecalledSessions
    BY <1>1, <1>6, <2>1, <2>2 DEF RecalledSessions
  <2>4. CASE status' = status
    BY <1>1, <1>3, <1>4, <2>3, <2>4 DEF Service!vars
  <2>5. CASE status[r.sess] = "requesting" /\ status' = [status EXCEPT ![r.sess] = "failed"]
    BY <1>1, <1>3, <1>4, <2>3, <2>5 DEF Service!Fail
  <2>6. QED
    BY <1>1, <2>4, <2>5
<1>7. QED
  BY <1>5, <1>6

LEMMA NotifyServes ==
    ASSUME ServiceInv, NEW l \in live, Notify(l)
    PROVE  Service!Deliver(l.sess) \/ UNCHANGED Service!vars
<1>1. /\ conn[l.conn] = "open"
      /\ received' = [s \in Sessions |-> received[s] \/ \E e \in Receivers(l.id) : e.sess = s]
      /\ UNCHANGED <<client, conn, disconnects, subs, reqs, live, status>>
  BY DEF Notify
<1>2. DInv
  BY DEF ServiceInv
<1>3. KeptSessions' = KeptSessions /\ ListeningSessions' = ListeningSessions
  BY <1>1, SameListening
<1>4. RecalledSessions' = RecalledSessions
  BY <1>1 DEF RecalledSessions, Recalling, Pending, Dead
<1>5. CASE Receivers(l.id) = {}
  <2>1. {t \in Sessions : received[t]}' = {t \in Sessions : received[t]}
    BY <1>1, <1>5
  <2>2. QED
    BY <1>1, <1>3, <1>4, <2>1 DEF Service!vars
<1>6. CASE Receivers(l.id) # {}
  <2>1. PICK e \in Receivers(l.id) : TRUE
    BY <1>6
  <2>2. e \in subs /\ e.id = l.id
    BY DEF Receivers
  <2>3. \A d \in Receivers(l.id) : d.sess = l.sess
    BY <1>2 DEF DInv, LiveInv, Receivers
  <2>4. l.conn = client /\ client # NoClient
    BY <1>2, LiveOnClient DEF NoClient, Conns
  <2>5. Listening(e)
    BY <1>1, <2>2, <2>4 DEF Listening
  <2>6. l.sess \in ListeningSessions
    BY <2>2, <2>3, <2>5 DEF ListeningSessions
  <2>7. l.sess \in Sessions
    BY <1>2, LiveShape
  <2>8. {t \in Sessions : received[t]}' = {t \in Sessions : received[t]} \cup {l.sess}
    BY <1>1, <2>1, <2>3, <2>7
  <2>9. Service!Deliver(l.sess)
    BY <1>1, <1>3, <1>4, <2>6, <2>8 DEF Service!Deliver
  <2>10. QED
    BY <2>9
<1>7. QED
  BY <1>5, <1>6

LEMMA StepServes ==
    ASSUME ServiceInv, ServiceInv', [Next]_vars
    PROVE  [Service!Next]_(Service!vars)
<1>1. DInv /\ DInv'
  BY DEF ServiceInv
<1>2. ASSUME NEW s \in Sessions, Subscribe(s) \/ Unsubscribe(s) PROVE Service!Next
  BY <1>1, <1>2, SubscribeServes, UnsubscribeServes DEF Service!Next
<1>3. ASSUME NEW c \in Conns, Open(c) \/ Close(c) PROVE Service!Next
  BY <1>1, <1>3, OpenServes, CloseServes DEF Service!Next
<1>4. CASE Reconnect
  BY <1>1, <1>4, ReconnectServes DEF Service!Next
<1>5. ASSUME NEW r \in reqs, ServerSubscribe(r) \/ ServerUnsubscribe(r)
      PROVE  UNCHANGED Service!vars
  BY <1>1, <1>5, ServerServes
<1>6. ASSUME NEW r \in reqs, Resolve(r) PROVE Service!Next
  <2>1. r.sess \in Sessions
    BY <1>1, RequestShape
  <2>2. QED
    BY <1>1, <1>6, <2>1, ResolveServes DEF Service!Next
<1>7. ASSUME NEW r \in reqs, CallTimeout(r) \/ CallRefused(r) PROVE [Service!Next]_(Service!vars)
  <2>1. r.sess \in Sessions
    BY <1>1, RequestShape
  <2>2. Pending(r) /\ FailsCaller(r) /\ UNCHANGED <<client, conn, subs, live, disconnects, received>>
    BY <1>7 DEF CallTimeout, CallRefused, Pending
  <2>3. PICK st \in {"abandoned", "orphaned", "refused"} :
           reqs' = (reqs \ {r}) \cup (IF Dead(r.conn) THEN {} ELSE {InState(r, st)})
    BY <1>7 DEF CallTimeout, CallRefused, Dead
  <2>4. Service!Fail(r.sess) \/ Service!GiveUpRecall(r.sess) \/ UNCHANGED Service!vars
    BY <1>1, <2>2, <2>3, CallRejectedServes
  <2>5. QED
    BY <2>1, <2>4 DEF Service!Next
<1>8. ASSUME NEW l \in live, Notify(l) PROVE [Service!Next]_(Service!vars)
  <2>1. l.sess \in Sessions
    BY <1>1, LiveShape
  <2>2. QED
    BY <1>8, <2>1, NotifyServes DEF Service!Next
<1>9. CASE UNCHANGED vars
  <2>1. UNCHANGED <<status, disconnects, subs, live, client, conn, reqs, received>>
    BY <1>9 DEF vars
  <2>2. RecalledSessions' = RecalledSessions
    BY <2>1 DEF RecalledSessions, Recalling, Pending, Dead
  <2>3. {t \in Sessions : received[t]}' = {t \in Sessions : received[t]}
    BY <2>1
  <2>4. QED
    BY <2>1, <2>2, <2>3, SameListening DEF Service!vars
<1>10. QED
  BY <1>2, <1>3, <1>4, <1>5, <1>6, <1>7, <1>8, <1>9 DEF Next

\* To its users the client loses and recalls subscriptions, and nothing else: a
\* session listens from when request() returns until it leaves or the connection
\* is lost, a message goes to one session that listens, only what a reconnect
\* found in the map comes back, and beyond maxReconnects losses in a row nothing.
THEOREM ClientIsService == Spec => ImplementsService
<1>1. Spec => []ServiceInv
  <2>1. DInv /\ CIInv => ServiceInv
    BY DEF ServiceInv, CIInv
  <2>2. QED
    BY <2>1, DInvHolds, CIInvHolds, PTL
<1>2. Init => Service!Init
  <2>1. SUFFICES ASSUME Init PROVE Service!Init
    OBVIOUS
  <2>2. /\ status = [s \in Sessions |-> "idle"] /\ disconnects = 0
        /\ subs = {} /\ reqs = {} /\ received = [s \in Sessions |-> FALSE]
    BY <2>1 DEF Init
  <2>3. KeptSessions = {} /\ ListeningSessions = {} /\ RecalledSessions = {}
    BY <2>2 DEF KeptSessions, ListeningSessions, RecalledSessions
  <2>4. {s \in Sessions : received[s]} = {}
    BY <2>2
  <2>5. QED
    BY <2>2, <2>3, <2>4 DEF Service!Init
<1>3. ServiceInv /\ ServiceInv' /\ [Next]_vars => [Service!Next]_(Service!vars)
  BY StepServes
<1>4. QED
  BY <1>1, <1>2, <1>3, PTL DEF Spec, ImplementsService, Service!Spec

\* What the service promises, and so the client: nobody listens without a
\* subscription, nobody once the service is over, and a session that left while
\* it was not being recalled stays away.
THEOREM ClientKeepsPromises ==
    Spec => []Service!ListenersKept /\ []Service!OverIsSilent /\ Service!AwayForGood
<1> DEFINE Promised == /\ status \in [Sessions -> {"idle", "requesting", "subscribed", "failed", "left"}]
                       /\ Service!ListenersKept /\ Service!OverIsSilent
<1>1. Service!Init => Promised
  BY DEF Service!Init, Service!ListenersKept, Service!OverIsSilent
<1>2. Promised /\ [Service!Next]_(Service!vars) => Promised'
  <2> SUFFICES ASSUME Promised, [Service!Next]_(Service!vars) PROVE Promised'
    OBVIOUS
  <2> USE DEF Service!ListenersKept, Service!OverIsSilent, Service!Over
  <2>1. ASSUME NEW s \in Sessions, Service!Ask(s) \/ Service!Fail(s) PROVE Promised'
    BY <2>1 DEF Service!Ask, Service!Fail
  <2>2. ASSUME NEW s \in Sessions, Service!Confirm(s) PROVE Promised'
    BY <2>2 DEF Service!Confirm
  <2>3. ASSUME NEW s \in Sessions, Service!Leave(s) PROVE Promised'
    BY <2>3 DEF Service!Leave
  <2>4. ASSUME NEW s \in Sessions, Service!Resume(s) \/ Service!GiveUpRecall(s) PROVE Promised'
    BY <2>4 DEF Service!Resume, Service!GiveUpRecall
  <2>5. ASSUME NEW s \in Sessions, Service!Deliver(s) PROVE Promised'
    BY <2>5 DEF Service!Deliver
  <2>6. CASE Service!LoseConnection \/ Service!Recall \/ Service!Connect
    <3>1. CASE Service!LoseConnection \/ Service!Recall
      BY <3>1 DEF Service!LoseConnection, Service!Recall
    <3>2. CASE Service!Connect
      BY <3>2, BoundsAssumption DEF Service!Connect
    <3>3. QED
      BY <2>6, <3>1, <3>2
  <2>7. CASE UNCHANGED Service!vars
    BY <2>7 DEF Service!vars
  <2>8. QED
    BY <2>1, <2>2, <2>3, <2>4, <2>5, <2>6, <2>7 DEF Service!Next
<1>3. Promised /\ [Service!Next]_(Service!vars)
        => [\A s \in Sessions : Service!Away(s) => Service!Away(s)']_(Service!vars)
  <2> SUFFICES ASSUME Promised, Service!Next, NEW t \in Sessions, Service!Away(t)
               PROVE  Service!Away(t)'
    OBVIOUS
  <2> USE DEF Service!Away
  <2>1. ASSUME NEW s \in Sessions, Service!Ask(s) \/ Service!Fail(s) PROVE Service!Away(t)'
    BY <2>1 DEF Service!Ask, Service!Fail
  <2>2. ASSUME NEW s \in Sessions, Service!Confirm(s) \/ Service!Leave(s) PROVE Service!Away(t)'
    BY <2>2 DEF Service!Confirm, Service!Leave
  <2>3. ASSUME NEW s \in Sessions, Service!Resume(s) \/ Service!GiveUpRecall(s) \/ Service!Deliver(s)
        PROVE  Service!Away(t)'
    BY <2>3 DEF Service!Resume, Service!GiveUpRecall, Service!Deliver
  <2>4. CASE Service!LoseConnection \/ Service!Recall \/ Service!Connect
    BY <2>4 DEF Service!LoseConnection, Service!Recall, Service!Connect
  <2>5. QED
    BY <2>1, <2>2, <2>3, <2>4 DEF Service!Next
<1>4. Promised => Service!ListenersKept /\ Service!OverIsSilent
  OBVIOUS
<1> HIDE DEF Promised
<1>5. QED
  BY <1>1, <1>2, <1>3, <1>4, ClientIsService, PTL
     DEF ImplementsService, Service!Spec, Service!AwayForGood
=============================================================================
