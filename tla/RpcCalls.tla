------------------------------- MODULE RpcCalls -------------------------------
(***************************************************************************)
(* An application that calls the RPC methods of SuiClient or of             *)
(* JsonRpcProvider one after another, and walks through paged answers by    *)
(* passing each page's nextCursor on, while the lists behind the pages      *)
(* change.  The rows of module RpcMethods say what each call checks and     *)
(* sends; here the call is made, the node reads it by position, and answers.*)
(***************************************************************************)
EXTENDS RpcMethods, FiniteSets, SequencesExt, Ranks

CONSTANTS
    Addresses,  \* addresses and ids that are well formed
    Malformed,  \* an address, an id or a digest that is not
    Limits,     \* page sizes callers ask for
    MaxItem,    \* bound: the items a list may ever hold are 1 .. MaxItem
    PageLimit,  \* external: the node's page size, when the call has none
    MaxSeen,    \* bound: items one walk may be given
    UnderTest   \* process.env.NODE_ENV === 'test'

ASSUME UndefinedAssumption == Undefined \notin {"ascending", "descending"} \cup Nat
ASSUME RpcAssumption ==
    /\ Malformed \notin Addresses
    /\ Undefined \notin Addresses \cup {Malformed}
    /\ Limits \subseteq Nat \ {0}
    /\ MaxItem \in Nat /\ PageLimit \in Nat \ {0} /\ MaxSeen \in Nat
    /\ UnderTest \in BOOLEAN

VARIABLES
    call,         \* the call made last: its class, method, input and request
    pc,           \* where it is: "idle", "posted", "rejected", "threw", "returned"
    blockSender,  \* the sender of the TransactionBlock devInspect is given
    items,        \* external: what the list behind the paged methods holds
    page,         \* the page answered last: its items, nextCursor, hasNextPage
    seen,         \* the items of the pages of this walk, in order
    present       \* history: items on the list ever since the walk began

vars == <<call, pc, blockSender, items, page, seen, present>>

NoPage == [data |-> <<>>, nextCursor |-> Undefined, hasNextPage |-> FALSE]

-----------------------------------------------------------------------------
(* The inputs of a method, over small sets.  A transaction is given as a    *)
(* TransactionBlock, as bytes, or as a string that is base64 already.       *)

Transaction(forms) == [form : forms, of : {"tx"}]
Batch == {<<a>> : a \in Addresses} \cup {<<a, b>> : a, b \in Addresses \cup {Malformed}}

FieldsOf(method) ==
    LET names == Range(NodeReads(method)) IN
    (names \ {"query", "transactionKind", "genesis"})
        \cup (IF method = "queryEvents" THEN {"query"}
              ELSE IF "query" \in names THEN {"filter", "options"} ELSE {})
        \cup (IF "transactionKind" \in names THEN {"transactionBlock"} ELSE {})

ValuesOf(method, field) ==
    CASE field \in {"owner", "id", "parentId", "digest"} -> Addresses \cup {Malformed}
      [] field \in {"ids", "digests", "stakedSuiIds"} -> Batch
      [] field = "sender" -> Addresses
      [] field = "cursor" -> {Undefined}
      [] field = "limit" -> {Undefined} \cup Limits
      [] field = "order" -> {Undefined, "ascending", "descending"}
      [] field = "descendingOrder" -> BOOLEAN
      [] field \in {"options", "filter", "coinType"} -> {Undefined, field}
      [] field = "signature" -> {<<"one", "sig">>, <<"list", "sig", "sig2">>}
      [] field = "transactionBlock" ->
            Transaction({"string", "bytes"}
                        \cup IF method = "devInspectTransactionBlock" THEN {"block", "unknown"} ELSE {})
      [] OTHER -> {field}

\* Every choice of a value per field.
InputsOf == [method \in Methods |->
    LET fields  == FieldsOf(method)
        choices == UNION {{field} \X ValuesOf(method, field) : field \in fields}
    IN  {[field \in fields |-> pick[field][2]] :
            pick \in {p \in [fields -> choices] : \A field \in fields : p[field][1] = field}}]

-----------------------------------------------------------------------------
(* The client's side of a call.                                             *)

HasDuplicates(batch) == Cardinality(Range(batch)) # Len(batch)

\* The checks at the head of a method.  A row names the field it looks at, or
\* the kind of batch; batches of stakes may hold an id twice.
Rejects(check, in) ==
    CASE check \in {"owner", "id", "parentId", "digest"} -> in[check] = Malformed
      [] check = "distinct ids"     -> Malformed \in Range(in.ids) \/ HasDuplicates(in.ids)
      [] check = "distinct digests" -> Malformed \in Range(in.digests) \/ HasDuplicates(in.digests)
      [] check = "stake ids"        -> Malformed \in Range(in.stakedSuiIds)
      [] check = "format"           -> in.transactionBlock.form = "unknown"
      [] OTHER -> FALSE

\* Mutant: the comparison is forgotten, and any order is true.
MutDescending(in) == TRUE

\* (input.order || 'descending') === 'descending'
Descending(in) == in.order \in {Undefined, "descending"}

Base64(content) == [base64 |-> content]

\* Array.isArray(input.signature) ? input.signature : [input.signature]
SignatureList(signature) == Tail(signature)

\* The value a call sends for one positional parameter.
Arg(param, in) ==
    CASE param = "genesis" -> "0"
      [] param = "query" -> IF "query" \in DOMAIN in THEN in.query
                            ELSE [filter |-> in.filter, options |-> in.options]
      [] param = "order" -> Descending(in)
      [] param = "transactionBlock" -> Base64(in.transactionBlock.of)
      [] param = "transactionKind" ->
            Base64(IF in.transactionBlock.form = "block"
                   THEN <<"kind", in.transactionBlock.of>> ELSE in.transactionBlock.of)
      [] param = "signature" -> SignatureList(in.signature)
      [] OTHER -> in[param]

Request(row, in) ==
    [method |-> row.rpc, unsubscribe |-> row.unsubscribe,
     params |-> [i \in DOMAIN row.params |-> Arg(row.params[i], in)]]

NoRequest == [method |-> Undefined]

\* Mutant: a check that fails does not end the call.
MutInvoke(client, method, in) ==
    LET row == MethodsOf[client][method] IN
    /\ call' = [client |-> client, method |-> method, input |-> in,
                request |-> IF Rejects(row.check, in) THEN NoRequest ELSE Request(row, in)]
    /\ pc' = "posted"
    /\ UNCHANGED blockSender

\* A call up to its first await: a check throws, or the request is posted.
\* devInspect sets the sender of a block that has none.
Invoke(client, method, in) ==
    LET row == MethodsOf[client][method] IN
    /\ call' = [client |-> client, method |-> method, input |-> in,
                request |-> IF Rejects(row.check, in) THEN NoRequest ELSE Request(row, in)]
    /\ pc' = IF Rejects(row.check, in) THEN "rejected" ELSE "posted"
    /\ blockSender' =
         IF method = "devInspectTransactionBlock" /\ in.transactionBlock.form = "block"
            /\ blockSender = Undefined
         THEN in.sender ELSE blockSender

Settled == {"idle", "rejected", "threw", "returned"}

NoCall == [client |-> Undefined, method |-> Undefined, input |-> <<>>, request |-> NoRequest]

\* The application makes a call; one that pages begins a walk.
Call(client, method) ==
    /\ pc = "idle"
    /\ \E in \in InputsOf[method] : Invoke(client, method, in)
    /\ present' = items
    /\ UNCHANGED <<items, page, seen>>

\* It is done with the call, or with the walk.
Done ==
    /\ pc \in Settled \ {"idle"}
    /\ pc' = "idle"
    /\ call' = NoCall
    /\ page' = NoPage
    /\ seen' = <<>>
    /\ present' = {}
    /\ UNCHANGED <<items, blockSender>>

\* The application asks for the next page: the same call from nextCursor on.
NextPage ==
    /\ pc = "returned"
    /\ page.hasNextPage
    /\ Len(seen) < MaxSeen
    /\ Invoke(call.client, call.method, [call.input EXCEPT !.cursor = page.nextCursor])
    /\ UNCHANGED <<items, page, seen, present>>

-----------------------------------------------------------------------------
(* External: the node.                                                      *)

\* What the node reads under each name it declares.
ReadByName(method, request) ==
    LET names == NodeReads(method) IN
    [name \in Range(names) |->
        LET i == CHOOSE j \in DOMAIN names : names[j] = name
        IN  IF i \in DOMAIN request.params THEN request.params[i] ELSE Undefined]

\* "the query will start from the next item after the specified cursor"
\* (params.ts:69); the items are numbered from the oldest.
Descends(read) ==
    \/ "order" \in DOMAIN read /\ read.order = TRUE
    \/ "descendingOrder" \in DOMAIN read /\ read.descendingOrder = TRUE

After(read) ==
    {i \in items : \/ read.cursor = Undefined
                  \/ IF Descends(read) THEN i < read.cursor ELSE i > read.cursor}

PageFor(read) ==
    LET after == After(read)
        all   == Cardinality(after)
        limit == IF "limit" \in DOMAIN read /\ read.limit # Undefined
                 THEN read.limit ELSE PageLimit
        n     == IF all < limit THEN all ELSE limit
        data  == [k \in 1 .. n |-> Nth(after, IF Descends(read) THEN all + 1 - k ELSE k)]
    IN  [data        |-> data,
         nextCursor  |-> IF data = <<>> THEN read.cursor ELSE Last(data),
         hasNextPage |-> n < all]

Pages(method) == "cursor" \in Range(NodeReads(method))

\* The node answers, and the call returns what it answered.
Answer ==
    /\ pc = "posted"
    /\ pc' = "returned"
    /\ page' = IF Pages(call.method) THEN PageFor(ReadByName(call.method, call.request)) ELSE NoPage
    /\ seen' = seen \o page'.data
    /\ UNCHANGED <<call, blockSender, items, present>>

\* The node answers with an error or the request fails; or, under test, the
\* answer has another shape than the provider's struct.
Fail ==
    /\ pc = "posted"
    /\ pc' = "threw"
    /\ UNCHANGED <<call, blockSender, items, page, seen, present>>

\* The provider checks the shape of an answer only under test: elsewhere an
\* answer of another shape is returned as one of the declared type.
MisshapenAnswer ==
    /\ pc = "posted"
    /\ ~Pages(call.method)
    /\ pc' = IF UnderTest /\ call.client = "JsonRpcProvider" THEN "threw" ELSE "returned"
    /\ UNCHANGED <<call, blockSender, items, page, seen, present>>

\* The list behind the pages grows at its new end and shrinks anywhere.
AddItem ==
    \E i \in 1 .. MaxItem :
        /\ \A j \in items : j < i
        /\ i \notin Range(seen)  \* an item that left does not come back
        /\ items' = items \cup {i}
        /\ UNCHANGED <<call, pc, blockSender, page, seen, present>>

RemoveItem ==
    \E i \in items :
        /\ items' = items \ {i}
        /\ present' = present \ {i}
        /\ UNCHANGED <<call, pc, blockSender, page, seen>>

Init ==
    /\ call = NoCall
    /\ pc = "idle"
    /\ blockSender = Undefined
    /\ items \in SUBSET (1 .. MaxItem)
    /\ page = NoPage
    /\ seen = <<>>
    /\ present = {}

Next ==
    \/ \E client \in Clients : \E method \in Methods : Call(client, method)
    \/ NextPage
    \/ Done
    \/ Answer
    \/ Fail
    \/ MisshapenAnswer
    \/ AddItem
    \/ RemoveItem

Spec == Init /\ [][Next]_vars

-----------------------------------------------------------------------------
(* Properties.                                                              *)

\* The state has its declared shape; a call that is out has a request, and one
\* a check has ended has none.
TypeOK ==
    /\ pc \in Settled \cup {"posted"}
    /\ pc # "idle" => /\ call.client \in Clients
                      /\ call.method \in Methods
                      /\ DOMAIN call.input = FieldsOf(call.method)
                      /\ (pc = "rejected") <=> (call.request = NoRequest)
    /\ blockSender \in Addresses \cup {Undefined}
    /\ items \subseteq 1 .. MaxItem
    /\ page.hasNextPage \in BOOLEAN
    /\ Range(seen) \subseteq 1 .. MaxItem
    /\ present \subseteq items

\* JsonRpcProvider.resolveNameServiceNames takes a cursor and a limit and sends
\* neither (json-rpc-provider.ts:876-886); SuiClient sends both.
DropsPaging == call.client = "JsonRpcProvider" /\ call.method = "resolveNameServiceNames"

Posted == pc \in {"posted", "returned", "threw"}

\* What a parameter the caller gives is to hold.  Which order a query takes when
\* it is given none is for DefaultAscending to say.
Gives(name, in) == name = "order" => in.order # Undefined

Meaning(name, in) ==
    CASE name = "query" /\ "query" \notin DOMAIN in -> [filter |-> in.filter, options |-> in.options]
      [] name = "order" -> in.order = "descending"
      [] name = "signature" -> Tail(in.signature)
      [] name = "transactionBlock" -> [base64 |-> "tx"]
      [] name = "transactionKind" ->
            [base64 |-> IF in.transactionBlock.form = "block" THEN <<"kind", "tx">> ELSE "tx"]
      [] name = "genesis" -> "0"
      [] OTHER -> in[name]

\* Every value a caller passes reaches the node under the name it was passed
\* under: the positions the calls of client.ts and json-rpc-provider.ts write
\* out by hand agree with the order params.ts declares.
ReadAsNamed ==
    Posted /\ ~DropsPaging =>
        LET read == ReadByName(call.method, call.request)
        IN  \A name \in DOMAIN read :
                Gives(name, call.input) => read[name] = Meaning(name, call.input)

Outcome(client) ==
    LET row == MethodsOf[client][call.method]
    IN  IF Rejects(row.check, call.input) THEN NoRequest ELSE Request(row, call.input)

\* The deprecated JsonRpcProvider and SuiClient check and send the same for the
\* same input, so that moving from one to the other changes no request.
SameRequest ==
    pc # "idle" /\ call.method # "resolveNameServiceNames" =>
        Outcome("SuiClient") = Outcome("JsonRpcProvider")

\* The order the caller asks for; most methods have no say in it.
AsksOldestFirst(in) ==
    /\ {"order", "descendingOrder"} \cap DOMAIN in # {}
    /\ "order" \in DOMAIN in => in.order = "ascending"
    /\ "descendingOrder" \in DOMAIN in => ~in.descendingOrder

AsksNewestFirst(in) ==
    \/ "order" \in DOMAIN in /\ in.order = "descending"
    \/ "descendingOrder" \in DOMAIN in /\ in.descendingOrder

OldestFirst == \A i, j \in DOMAIN seen : i < j => seen[i] < seen[j]
NewestFirst == \A i, j \in DOMAIN seen : i < j => seen[i] > seen[j]

\* A walk is given its items in the order asked for, in one of the two if none
\* is asked for, and none of them twice, while the list changes under it.
WalkInOrder ==
    Posted /\ ~DropsPaging =>
        /\ OldestFirst \/ NewestFirst
        /\ AsksOldestFirst(call.input) => OldestFirst
        /\ AsksNewestFirst(call.input) => NewestFirst

\* "query result ordering, default to false (ascending order), oldest record
\* first" (params.ts:296, 308), for a query that asks for none.
DefaultAscending ==
    Posted /\ "order" \in DOMAIN call.input /\ call.input.order = Undefined => OldestFirst

\* A walk that is over has been given every item that was on the list all along,
\* if the node's cursor is a position in the list (After).  params.ts:253-255 says
\* that it is not one for getOwnedObjects while objects change.
NothingMissed ==
    pc = "returned" /\ Pages(call.method) /\ ~page.hasNextPage /\ ~DropsPaging =>
        present \subseteq Range(seen)
=============================================================================
