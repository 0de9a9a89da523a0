# Verification of the Sui TypeScript SDK fork

This directory holds a TLA+ model of the parts of the SDK (`src/`, the library
code is under `src/src/`) whose correctness depends on the order in which
callbacks, answers, timers, signatures and user calls come, or on two pieces of code
written out by hand agreeing with each other. TLC checks small instances;
TLAPS proves the safety properties and two refinements for every value of the constants.

The SDK is single-threaded JavaScript. In every module the code between two
`await`s, or one event listener, is one atomic action, and at an `await` any other
action may run. That is the only source of interleaving, and a sufficient one.

Paths below are relative to `src/src/` unless they say otherwise.

## 1. Inventory

| Part | State | Operations | Hard behaviour | What makes it correct |
|---|---|---|---|---|
| `rpc/websocket-client.ts` WebsocketClient | `#client` (one socket), `#subscriptions` (map by first id), `#disconnects`, reconnect timers, promises in flight | `request`, the unsubscribe function it returns, `open`/`close` listeners, `#reconnect`, `onNotification` | connection loss and retry, answers that come late or never, unsubscribing while a re-subscription is in flight, giving up | one socket, one reconnect; no subscription lost, doubled or leaked; a message reaches its owner once; gives up exactly at the limit |
| `builder/TransactionBlock.ts`, `TransactionBlockData.ts`, `Transactions.ts`, `Inputs.ts`, `serializer.ts` builder | `#blockData`: sender, inputs, transactions, gas configuration | the command constructors, `object`, `pure`, `add`, setters, `build` (six kinds of RPC call), `serialize`, `from`, `fromKind` | RPC answers in any order, overlapping builds on the same data, a build that fails half-way, a second build after an edit, a block restored from bytes | the bytes resolve each input as the commands in them use it; gas coins are not inputs; the budget was measured on these bytes; builds end; restored bytes come out the same |
| `client/client.ts` `waitForTransactionBlock` | one loop: poll in flight, timeout, abort signal | call, poll, sleep, timeout, abort | timers racing answers | polls bounded, over by the deadline, ends |
| `client/client.ts` other methods, `client/types/params.ts` | none | 46 methods: a check of the input, one request with positional parameters; paging by cursor | positions written by hand; a walk over pages of a list that changes | each value reaches the node under its own name; a walk misses and repeats nothing |
| `client/http-transport.ts`, `rpc/client.ts` | an HTTP client and a websocket client, both made by the constructor | `request`, `subscribe` | default `websocket = {}` leaves `maxReconnects` undefined: never reconnects (see 4.1) | passes on what it is given |
| `providers/json-rpc-provider.ts` | cached API version and expiry; an HTTP and a websocket client | `getRpcApiVersion`, the RPC methods once more, `subscribe*` | cached value stale or never used; drifting apart from SuiClient | a version no older than the timeout; the same requests as SuiClient |
| `multisig/publickey.ts`, `cryptography/multisig.ts` | immutable key list with weights | combine, parse, decode, verify, address | bitmap order against signature order, limits, two combiners with different checks | what was combined verifies iff signers of enough weight asked for it |
| `keypairs/`, `cryptography/` (keys, formats, intents), `verify/`, `utils/verify.ts` | keys | sign, verify (two APIs and a deprecated one), export, import | one signature valid for something else; formats of several SDK versions | a signature counts for what it was asked for |
| `signers/*` | a client | set sender, build, sign, execute, dry run | sequence across awaits on a shared block, each step may set the sender | signed bytes are the executed bytes |
| `wallet-client.ts`, `nft-client.ts` | a provider | account discovery, pagination, coins with metadata, NFTs and kiosks, validators, merged history | failed requests, several reads of changing state, lists of which one page is read, answers joined in completion order | what stays in place is listed once; what is not was behind a failure or beyond a page left unread |
| `bcs/`, `builder/bcs.ts`, `type-tag-serializer.ts`, `utils/sui-types.ts`, `framework/framework.ts` (Coin) | none | parse, encode, decode, normalise types; the type of a coin | Move types as text through two parsers, addresses written three ways | conversions of strings, not modelled |
| `faucet/`, the rest of `framework/` and `utils/`, `stakeHelperFunctions.ts`, `types/` | none | one request; accessors; formatting; arithmetic; declarations | none | - |

How they interact: users call SuiClient or JsonRpcProvider; both pass RPC calls to
a JSON-RPC client over HTTP and subscriptions to a WebsocketClient, which calls the
user's `onMessage` back. Signers set the sender of a TransactionBlock, build it with
a client (getProtocolConfig, getReferenceGasPrice, getNormalizedMoveFunction,
multiGetObjects, getCoins, dryRunTransactionBlock), sign the bytes with a keypair and
execute them; with a MultiSig account several parties sign the same bytes and one of them
combines the signatures; users then wait with `waitForTransactionBlock`. WalletClient is
a facade over a JsonRpcProvider, a RawSigner and the NftClient.

`PROJECT.json` lists every component with its status, and the hazards of the code
at the lines where they bite, with the properties that cover them.

## 2. Modules

| Module | Models | Used by |
|---|---|---|
| `WebsocketClient.tla` | the subscription client, its library, socket and server | `MCWebsocketClient` (TLC), `WebsocketClientProofs`, `WebsocketDeliveryProofs` (TLAPS) |
| `TransactionBlock.tla` | the builder, the command constructors and any number of calls to `build()` | `MCTransactionBlock` (TLC), `TransactionBlockProofs` (TLAPS) |
| `WaitForTransaction.tla` | the poll loop | TLC directly, `WaitForTransactionProofs` (TLAPS) |
| `RpcMethods.tla` | per class and method: the check, the name on the wire, the positional parameters | `RpcCalls` |
| `RpcCalls.tla` | an application making those calls, walking through pages, and the node reading them | TLC directly, `RpcCallsProofs` (TLAPS) |
| `RpcApiVersion.tla` | the cache of `getRpcApiVersion` | TLC directly |
| `Signatures.tla` | keys, intents, serialized signatures, MultiSig: no state | `Signing` |
| `Signing.tla` | signers, keypairs, blocks as they go back and forth, the node's check | `MCSigning` (TLC), `SigningProofs` (TLAPS) |
| `Ranks.tla` | no code: the members of a set of numbers, counted from below, and of any set, by an order | `TransactionBlock`, `Signatures`, `RpcCalls`, `Wallet`; facts about it in `RankProofs` (TLAPS) |
| `Subscriptions.tla` | abstract: sessions listen, are interrupted, recalled, and leave | refined by `WebsocketClient` |
| `Approval.tla` | abstract: a quorum approves a transaction before it is accepted | refined by `Signing` |
| `Wallet.tla` | the reads of WalletClient and NftClient that take several requests | `MCWallet` (TLC), `WalletProofs` (TLAPS) |

Operators whose name starts with `Mut` are mutants: they change one definition the
way a plausible bug would. No specification uses them; each property has one that
breaks it, listed in `PROJECT.json`.

### 2.1 WebsocketClient

State: `client` is `#client` by the number of the connection it wraps (0 for null),
`conn` the sockets, `disconnects` the counter, `timers` the reconnect timers that were
set and have not fired, `subs` the values of `#subscriptions`, `reqs` the calls in
flight. `status`, `handle` and `received` are what users hold: where each session is,
the `initialId` its unsubscribe function closed over, and that its callback ran.
`live` and `nextId` are the server's.

Actions: `Subscribe` is `request()` up to its `await`, `Resolve` what follows it,
`Unsubscribe` the closure it returns (which sets the socket up before it looks at the
map, as the code does), `Open` and `Close` the listeners, `Reconnect` the timer's
callback with all the requests it makes, `Notify` the notification handler. The `await` of a call rejects in two
ways: `CallTimeout` after `callTimeout`, `CallRefused` when the server answers with a JSON-RPC error, on a
connection that is up and stays up. Either way nothing follows: no entry is set, and nobody asks again until the next reconnect.
A session is one call of `request()` by a user.

External, from how the code uses `@open-rpc/client-js` and the full node: a call
issued before a socket opens waits for it; on a socket that closed it is never
answered and only the timeout ends it; a call that timed out may still be executed by
the server, one it refused is not; the server's subscription ids are fresh; and it forgets the subscriptions
of a connection that closes. `method` is left out: with fresh ids it never decides a match.

`Subscriptions` says what users get of this without sockets, ids, a map or answers: a session asks, is confirmed or fails; once confirmed it listens until
it leaves or the connection is lost; a recall asks again for what was kept, and each session in it is resumed or given up; more losses in a row than allowed end the service.
`WebsocketClient` refines it (`ImplementsService`): a session is kept by its entry in the map, is recalled by a request of `#reconnect` that is still waited for on the present socket,
and listens when the server holds the id of its entry there. The race of 5.1 is in it, as what it is: a session that leaves while it is being recalled may be resumed once.

### 2.2 TransactionBlock

State: `inputs` (each with its reference, the value it was added with and its present
value), `transactions` (per command the inputs it uses and what its signature wants
there), `gas`, and `build[b]`, the local state of one call to `build()`. A value is
`Raw` until it is a `BuilderCallArg`; of a call argument only the encoding of a pure
value and the mutability of a shared object are kept. A budget is known by where it
comes from: the user, or a dry run of a given block.

A command's first use of an object or value that is not in the block adds an input (`NewUses`), in the order of the
arguments; `Ranks` counts them, as it counts the free coins a payment is taken from. Raw pure values are encoded as
the first argument of the walk that uses them wants (`Encode`).

Commands are made by operators named for the constructors of `Transactions.ts`
(`MoveCall`, `TransferObjects`, `SplitCoins`, `MergeCoins`, `MakeMoveVec`, `Publish`,
`Upgrade`): each gives the command's uses of inputs and what its struct, or for a Move call
the function's signature, wants of them.

Actions: `AddCommand`, `SetGasPayment`, `SetGasBudget`, `SetGasPrice` are the synchronous API
(`AddCommand` with the `object()`/`pure()` calls that make its arguments). `Start`,
`ConfigArrives`, `PriceArrives`, `SignatureArrives`, `ObjectsArrive`, `PrepareGasPayment`,
`CoinsArrive`, `PrepareBudget`, `DryRunArrives`, `Finish` are the segments of `build()`
between awaits; the price and the transactions proceed side by side, as under the code's
`Promise.all`. `SignatureFails` and `RpcFails` are the rejections and errors. A build
that failed leaves its other signatures in flight, and their continuations still run.

Sender, gas owner, `from` and `fromKind` are in 2.5. Left out: edits while a build is
running, expiration, size limits and their configuration, `getDigest`, arguments that are
results or the gas coin (the code skips them), the JSON form of `serialize()`, a use whose
kind contradicts its input (an object where a pure value is wanted).

### 2.3 WaitForTransaction

One call of `waitForTransactionBlock`. Time is counted in ticks since the call; a timer
fires in the tick it is due, two due in one tick in either order; an answer takes any
time. `pc` says whether the call awaits a poll, sleeps in the race, or has ended.

### 2.4 RpcMethods, RpcCalls, RpcApiVersion

`RpcMethods` has one row per method and class, translated from the method: its
check, its name on the wire, its positional parameters by the input field each is taken from. `SuiClient` and
`JsonRpcProvider` write every call out by hand, so the two tables are independent; a third,
`NodeReads`, is the order of the parameters declared in `client/types/params.ts`.

`RpcCalls` makes the calls. `call` is the last call with its input and request, `pc` where it is,
`blockSender` the sender of the block given to `devInspectTransactionBlock` (which sets it if it has none),
`items` the list behind the paged methods, `page` and `seen` what a walk was given, `present` the items
that stayed on the list. `Invoke` is a method up to its first await: the checks throw, or the request is
posted. Inputs take every combination of small values per field: addresses well formed and not, batches
with repetitions, options given or not, transactions as blocks, bytes or base64. The node is external: it
reads the request by position and answers pages from the next item after the cursor, as params.ts documents; a page is
the first members, by rank, of what lies beyond the cursor in the order read. Two
elements of a batch are equal when their strings are, as the code compares them: it does not normalise first.

`RpcApiVersion` is `getRpcApiVersion` with its catch, overlapping calls, time in seconds and upgrades of the node.

### 2.5 Signatures, Signing, Approval

`Signatures` keeps bytes as the term that made them: hashing or wrapping is a record around its argument, so
two byte strings are equal exactly when they were made alike from equal parts, and a raw signature is the record of
who signed what. On top of this assumption the formats are modelled as written: intents and the length prefix
of personal messages, the additional hash of the secp256 keys, the MultiSig's bitmap (as the set of its bits, its numeric value where the code
compares it with 1024), the first key in the list with the bytes looked for, each `throw` of combining, parsing and
decoding, and the fallback of `verifyMessage`.

`Signing` has the block at hand, the bytes `built` from it, the `keyring`, the single signatures `sigs` that were
returned, what the holders of keys `approved` and `vouched` for, and what the node has `accepted`. Actions: `SetSender`,
`SetGasOwner`, `BuildBlock`, `Restore` (`TransactionBlock.from`), `RestoreKind` (`fromKind`), `Inspect` (dry run, digest, gas estimate),
`SignBlock` (the signer), `SignBytes`, `SignMessage` (the keypair), `ReimportKeypair`, and the node's `Submit`,
`SubmitMultiSig`, `SubmitLegacyMultiSig`. The last two put any collection of held signatures, in any order and with repetitions, through
either combiner. The node is external: it accepts a transaction for the sender's or the gas owner's account if the
signature verifies and the account is the signature's.

`Approval` says the same without keys in lists or bitmaps: parties approve transactions, and one is accepted for an account
once a quorum has approved that very one. `Signing` refines it (`ImplementsApproval`), with `Quorums` the sets
of keys whose weights reach the threshold.

### 2.6 Wallet

One operation of `wallet-client.ts` or `nft-client.ts` runs in a behaviour, `task` says how far it is, `result` is what it has pushed or
returned, and every answer is an action. Requests made together (`Promise.all`) are answered in any order. The chain is
`used`, `coins`, `place`, `history`, `stakes`, and may change between any two answers. `RequestFails` is the rejection where nothing
catches it; `BalancesFail` and `CoinMetadataFails` are those that are caught. `spared` holds what the
operation leaves out and does not report: after a failure that was caught, or beyond a page whose next cursor it does not read.

A page is the first members, by rank, of what lies beyond the cursor; a filtered list holds the items at the positions that
remain (`ItemsAt`); `sort` is the listing of positions by an order (`LessShare`, `Newer`), ties in the order they came in, as JavaScript's stable sort leaves
them; and the sum of the stakes is kept as the set of what was added up, which says more than the number.

Account discovery and `createNewAccount`; `getCoins` page by page; `getCustomCoins` with metadata; `getNfts`; `getNftsById`; `getValidatorsList`
with its three reads; `getTransactions` with its two queries and their merge.

`getNfts` asks for lists six times and never for a second page. `WalletAnswered` is one page of the wallet from the caller's cursor, of the
caller's limit or the node's (any size up to `PageSize`), and `NextCursor` the cursor handed on. `ObTokensAnswered` and
`SuiCapsAnswered` are one page of the owner's kiosks, `ObKioskAnswered` and `SuiKioskAnswered` one page of the dynamic fields of each: as these lists are in an order of the node's own,
a page is any part of the list that fits (`OnePage`), and `spared` takes the rest. `ObContentsAnswered` and `SuiContentsAnswered` are the batches that fetch the
objects and refuse repetitions, and `Shown` the filter on display data (`Displayed`), which the wallet and both kinds of kiosk go through. The package
`@mysten/kiosk` is external; `fetchKiosk` is called with a limit and its cursor is not read.

`getNftsById` fetches the objects in one batch, keeps those whose type it recognises (`Parsed`, `Recognised`), reads one page of each one's bag side by
side, and joins the fields by id (`FieldsOf`). `Bag` are the two domains `parseDomains` looks for.

## 3. Runs

| Run | Instance | What it shows |
|---|---|---|
| `ws_safety` | 2 sessions (interchangeable), 3 connections of which 2 may close, maxReconnects 1, calls may time out or be refused at any time | all safety properties of 4.1, about 606 000 states |
| `ws_liveness` | the same, the server answers every call with a result | re-subscription and delivery under fairness |
| `ws_unsubscribe_race` | 1 session, 2 connections | violated: section 5.1 |
| `tb_concurrent_builds` | 2 builds, blocks of up to 2 of 10 commands, 3 coins, gas limit 3, failures anywhere | all properties of 4.2, about 595 000 states |
| `tb_mutable_added_later` | 3 commands, edits between builds and no failures | violated: section 5.2 |
| `wait_for_transaction` | timeout 5, interval 2, 9 ticks | all properties of 4.3, 942 states |
| `wait_for_hanging_node` | the same, the node owes no answer | violated: section 5.3 |
| `rpc_calls` | every method of both classes, 2 addresses and a malformed one, lists of up to 4 items, pages of 2 or 1, walks of up to 6 items | all properties of 4.4, about 571 000 states |
| `rpc_default_order` | the same with lists of up to 2 items | violated: section 5.5 |
| `rpc_api_version` | 3 calls, timeout 2 s, 6 s, one upgrade | violated: section 5.4 |
| `signing` | 3 keys, one of each scheme, 4 MultiSig lists, limit of 2 keys, 2 transactions, 2 signatures held, 2 messages | all properties of 4.5, about 64 000 states |
| `wallet` | 3 accounts, 3 coins in pages of 2, 3 NFTs (2 with display data, 2 recognised) in the wallet or 2 + 2 kiosks (those of a kind interchangeable) in pages of up to 2, 3 validators of stake up to 2, histories of up to 5 with queries of 2, 2 changes of the chain | all properties of 4.6, about 1 037 000 states |

Bounds. `MaxConns`: the last connection never closes, the others may fail before
opening or close after. With three and `maxReconnects` 1 the client reconnects, loses the new
connection too, recovers, or gives up (two failures in a row), and a re-subscription
meets one still in flight from the connection before: nothing in the code distinguishes a third
round. Two sessions are needed for entries to be confused; no statement relates three.
`MaxCommands = 2` with one or two arguments suffices for every sharing of an input by two
commands, which is what the resolution depends on; the ten commands of the instance are
chosen so that a shared object is read and written, given as a reference and put in a vector, a pure value is wanted
by a call, a builtin and at two types, a gas coin is used as input and merged, an object is
missing, and a command has no input. Two builds give every overlap of one build's answers with another's.
`Timeout = 5` and `PollInterval = 2` let the timeout fall inside a sleep, on a
poll and, with delayed answers, together with the end of a sleep; ticks after the timeout
only matter for a poll still in flight. `MaxItem = 4` with pages of 2 and of 1
makes walks of three pages and more while items are added at the new end and leave anywhere; `MaxSeen` bounds a walk that
would go on for as long as the list grows. In `Signing`, a limit of two keys in place of ten puts the two sides of the limit, the bitmap's bound
2^limit included, within three keys: one MultiSig needs both its keys, one can do with its first, one has a key more than the limit, one names a key twice (the code does not refuse it). One message is the length-prefixed form of the other: the deprecated `verifyMessage` cannot tell them apart. Two
held signatures fill the two-key lists in both orders and with a repetition. Two built transactions are what a signature for the wrong one needs. In `Wallet`, two kiosks of
a kind and two changes let an NFT move from a kiosk not read yet to one that has been read, and back; three NFTs, one of them without display data and
one not recognised, with pages of one or two, put a filtered object first, between and last on a page, and leave a kiosk's third object and an owner's second kiosk unread; three coins in pages of two end
in a part-filled page; histories of five with queries of two put transactions below the page of one query and inside that of the other.
Deadlock checking is off everywhere: users may stop calling, builds end, the wait ends, operations return.

Fairness. `WebsocketClient`: a connection attempt ends one way or the other, a timer
that was set fires, an open connection's server answers and notifies, continuations
run. Users owe nothing, and the timeout of a call owes nothing. `TransactionBlock`: each
build keeps taking steps while it has one (the node answers or rejects, continuations
run). `WaitForTransaction`: timers, time and continuations; that the node answers a poll is a
separate assumption (`FairSpec` against `HangingSpec`), because the code sets no timeout on the
request. The other specifications state safety and refinement only, without
fairness: their actions are single requests, which may go unanswered for ever.

## 4. Properties

### 4.1 WebsocketClient

`OneLiveSocket`, `OneReconnectPending` - the two guards of the reconnect machinery, neither of which
is written down in the code as a condition: `#reconnect` closes and replaces
whatever `#client` is, and is safe only because a timer never coexists with a working
socket. `GivesUpOnlyWhenExhausted` - the counter is the number of closes since a socket last
opened, and giving up happens exactly beyond `maxReconnects`. `maxReconnects = 0` also
stands for undefined, which is what SuiHTTPTransport's default `websocket = {}` gives: no close is
ever retried. `ImplementsService` - to its users the client is the service of `Subscriptions`: listening from when `request()` returns, each message for one session
that listens, nothing coming back but what a reconnect found in the map, and nothing at all after giving up, since the dead client is returned for ever, a
consequence of the code worth knowing. `NoEntryForgotten`, `NoServerLeak`,
`HandleFindsEntry`, `DeliveredOnceToOwner` relate the map to the server, to the calls in flight
and to what users hold, across reconnects. `EventuallyListening` and
`SubscribedGetsMessages` are their liveness counterparts.

A re-subscription that is rejected, by its timeout or by an error answer of the server, leaves its entry in the map
listening to nothing until the next reconnect: `#reconnect` drops the promise, and no timer or call is left behind. `NoEntryForgotten` therefore says
that this happens to an entry only if its own re-request was rejected on the present connection (`Rejected`), or the client gave up;
the safety run has calls rejected in both ways. The liveness run assumes that the server answers every call with a result before the timeout.

### 4.2 TransactionBlock

`SharedMutableIffWanted` and `InputsResolvedAsUsed` compare the final bytes with what the commands in the same
bytes want, whatever order answers came in and whatever other builds did in between.
`GasCoinsNotInputs` and `BudgetOfTheseBytes` relate the gas configuration, set by one build
and reused by another, to the bytes. `ResolutionNeverUndone` says late answers of one
build never undo what another resolved. `BuildsEnd` is termination.

### 4.3 WaitForTransaction

`PollsBounded`, `OverByDeadline`, `NoPollOnceOver`, `NeverFallsOut` constrain the loop under every race of
timers, abort and answers; `EndsIfAnswered` is termination.

### 4.4 RpcCalls

`ReadAsNamed` - every value of an input reaches the node under the name it was passed under: the positions in the two classes agree with
params.ts, for every method and every combination of given and omitted fields. `WalkInOrder`, `NothingMissed` - a walk by `nextCursor` through a list that grows and shrinks repeats nothing, keeps the
order asked for, or in one order if a query asks for none, and gives
every item that was there all along. That is of a list whose cursor is a position, as the model's node has it; params.ts:253-255 excepts `getOwnedObjects`, whose "pagination is not
accurate" while objects change, and to that method the last statement does not apply. Which order a query without one gets is `DefaultAscending`, the documented default, which a run of its own violates (5.5). `JsonRpcProvider.resolveNameServiceNames` is excepted by name (`DropsPaging`): it takes a
cursor and a limit and sends neither (json-rpc-provider.ts:876-886). `SameRequest` - the two classes check and send the
same for the same input - is proved and in no run (6.5).

### 4.5 Signing

`ImplementsApproval` - no way through blocks, bytes, messages, combiners and re-imported keypairs gets a transaction accepted without a quorum that
asked to sign it. `QuorumSuffices` - conversely, once enough keys have signed, their signatures in key order are accepted through both combiners, and
decoding gives each back with its key and weight. `OutOfOrderNeverVerifies` - the order of signatures that multisig.ts:84-87 asks for and neither combiner checks:
another order, a repetition or a stranger's signature never verifies. `IntentsKeptApart` - with personal messages that are transaction bytes and the
fallback of the deprecated `verifyMessage`. `RestoredIsSame` - restoring and preparing again gives the same bytes, sponsored or not.
`AccountKept`, that export and import keep a keypair's account, is proved and in no run (6.2).

### 4.6 Wallet

`AccountsFound` - accounts numbered without a gap, each used, except one whose request failed and those created after. `LastingListedOnce` - a coin that
stays while coins are listed is listed exactly once, in whatever order answers come and whatever else comes and goes, and so is a validator whose stake lasts, with that
stake; the shares of the validators add up if the epoch does not change. Coins behind an empty page, or whose metadata could not be had, are excepted (`spared`), as the code drops them.
`NftsListed` - an NFT that stays where it is while `getNfts` reads is listed exactly once, with its own kiosk, if it has display data and
lies in what is read: a kiosk, or the part of the wallet between the cursor given and the cursor handed on, so that a caller who goes on from there
misses nothing of the wallet. What is left out without a word is in a kiosk, beyond a page,
though the comment on `getNfts` promises the NFTs stored in a kiosk without exception (wallet-client.ts:654-655; see section 5). `NftsById` - `getNftsById` returns the recognised ones of its ids in the order asked, each with what was read of its own bag. `HistoryComplete` - the merged history has no repeats, is in order, and has no
hole above the later end of the two pages; below it there may be, because each query is limited on its own.

## 5. Disagreements between code and documentation

1. `ws_unsubscribe_race`. The socket closes and reopens, `#reconnect` requests the subscription
   again, the user unsubscribes (the entry is found and removed), the answer arrives and `request()` sets the
   entry again: the callback keeps being called, and the handle can remove it only by being called again.
2. `tb_mutable_added_later`. Build a block that only reads a shared object, add a call that takes
   it by mutable reference, build again: the input stays immutable, against the comment that one mutable use marks it mutable.
3. `wait_for_hanging_node`. The documented timeout does not end a wait whose poll is not answered.
4. `rpc_api_version`. The condition of the cache is the wrong way round: within its timeout it is not used, and
   once that is over the first version fetched is returned for ever.
5. `rpc_default_order`. A query without an order is answered newest first; params.ts:296 and :308 document ascending, oldest first, as the default.

Met while modelling, and not stated as runs: the cause of `tb_mutable_added_later` has a second effect, that a coin an earlier build picked as gas and a
later command uses is input and gas payment at once (TransactionBlock.ts:500), against the comment on the filter (512); `getNfts` reads the first page of a kiosk's
fields and of an owner's kiosks and never asks for the next, so that the NFTs beyond are missing, and the cursor it returns goes on in the wallet only (wallet-client.ts:523, 570, 596, 599), against its
comment (654-655); `getNfts(address, false)` rejects with a TypeError, because the content of the kiosks that
were not fetched is read all the same (wallet-client.ts:691-701, `WalletAnsweredOnly`), while the parameter's comment (650-653) offers it;
`resolveNameServiceNames` of 4.4; `multiGetObjects` finds repetitions among the ids as
given, not as normalised (client.ts:340); `MakeMoveVec` parses its type without normalising addresses (Transactions.ts:250-253), a
call does (builder/bcs.ts:205-207); `normalizeStructTag` takes a vector of structs in a type's parameters for a struct and pads
`vector<0x2` as an address (utils/sui-types.ts:41), while `TypeTagSerializer` knows vectors; `Coin.getCoinStructTag` splits at every `::`, so a coin of a generic type gets a wrong name (framework.ts:90-97), and
`Coin.getCoinType` knows only the short address of 0x2, not the normalised one.

## 6. Proofs

Every theorem holds for all values of the constants that satisfy the module's assumptions: any number of sessions,
keys, builds, commands, coins, and any limit. The assumptions are named in the modules that declare the constants, and TLC
evaluates them in the runs. `Ranks` stands where a recursive definition or a fold would: the n-th member of a finite
set of numbers is the one with n - 1 members below it. `RankProofs` shows, from the cardinality theorems of the library
and the existence of a least number, that this lists every member once, in order (`NthLists`); the list of new inputs, the coins of a
payment, the positions of a bitmap and the items of a page rest on that. `SortedByLists` says the same of a set sorted by
any relation that orders it, which the wallet's `sort`s are, and `NthGrows` that ranks keep the order, which its filtered lists rest on.

### 6.1 WebsocketClient

`WebsocketClientProofs.tla`, checked by TLAPS from `BoundsAssumption` alone (a positive
number of connections, a natural `maxReconnects`), so for every set of sessions, every
limit and every bound on connections:

- `TypeCorrect`: `Spec => []TypeOK`
- `NoSocketLeak`: `Spec => []OneLiveSocket`
- `SingleReconnect`: `Spec => []OneReconnectPending`
- `GivesUpInTime`: `Spec => []GivesUpOnlyWhenExhausted`
- `NeverComesBack`: `Spec => GivenUpForGood`. A client that has given up stays given up, whatever is asked of it.

Argument. `IInv` is `TypeOK` with four facts about sockets: connections are made in order and `#client`
is null or the last one (`CreatedInOrder`), the last of the bound never dies (`LastStaysUp`, so that a new
socket always has a number), `OneLiveSocket` and `OneReconnectPending`. The last two need each other: a reconnect closes
nothing because its socket is dead, so it cannot orphan a live one; and a close cannot set a second timer
because the socket that closes was alive, hence none was pending. One lemma per action
(`SetupClientKeepsSockets` is shared by the two user calls), and `SocketsUnchanged` for the rest.
`CIInv` adds the count: it is inductive only with `RetriesLeft`, that a socket which may still
open or be replaced has a retry to spare.

`WebsocketDeliveryProofs.tla` goes on from there to what users rely on, still from `BoundsAssumption` alone:

- `HandlesStayGood`: `Spec => []HandleFindsEntry`
- `DeliveredOnce`: `Spec => []DeliveredOnceToOwner`
- `ServerHoldsNothingLost`: `Spec => []NoServerLeak`
- `NoReconnectForgets`: `Spec => []NoEntryForgotten`
- `UnsubscribedForGood`: `Spec => GoneForGood`. A session that unsubscribed while no subscribe request of its own
  was in flight never has an entry again. This says that the race of 5.1 is the only way to lose an unsubscription.

Argument. `DInv` is a bookkeeping of who may hold which number. `HandleInv` and `EntryInv`: the entry of a session is
stored under the id its unsubscribe function closed over. `RequestInv`: a request without a key belongs to a session whose `request()`
has not returned, one with a key carries its session's, and a session has one subscribe request per connection. `IdInv`: a number
the server handed out is named by one entry, or by one answer still to be processed, or is being unsubscribed. `LiveInv`: what the
server holds was asked for by the session its id leads to, and only on a socket that is up. None of these is inductive without the others:
`Resolve` sets the entry under the request's key, or under the number the server just gave, without a look at what is there. That is
harmless because the key is its own session's (`RequestInv`) and the number nobody else's (`IdInv`); and the entry it replaces
cannot be heard on this connection as well, because the server holds nothing else for that session there (`LiveInv`).

On top of it the module proves the refinement:

- `ClientIsService`: `Spec => ImplementsService`
- `ClientKeepsPromises`: the properties of `Subscriptions` hold of the client: nobody listens without an entry, nobody once the client gave up, and a session that
  left while it was not being recalled stays away.

Argument. `ServiceInv` is `DInv` with the count of disconnects. Most steps of the client are none of the service: the server's answers show when they are
processed, and setting up a socket changes nobody's subscription because the map is empty then (`SetupClientFacts`). `Close` loses a connection, and `RetriesLeft` says that the service was not over; `Reconnect` recalls
exactly the map, on a socket nothing was asked of before. `Resolve` is the confirmation of a first request or the resumption of a recalled one, never both, and
`RequestInv` makes it the only recall of its session (`OneRecallEach`); `LiveInv` makes the session listen at once. `FoundIsOwn` is why a session that leaves takes no other's entry along.

### 6.2 Signing

`SigningProofs.tla`, from `KeysAssumption` (keys have one of the three schemes and are told apart by their bytes), `MultiSigsAssumption`
(lists hold such keys, weights and thresholds are natural numbers) and `AccountsAssumption`; for every set of keys, MultiSig
accounts, messages and every limit:

- `SpecTypeOK`: `Spec => []TypeOK`
- `SpecRestoredIsSame`: `Spec => []RestoredIsSame`
- `SpecAccountKept`: `Spec => AccountKept`
- `SpecImplementsApproval`: `Spec => ImplementsApproval`, the refinement of `Approval`

Argument. `IInv` is `TypeOK`, `SigsLabelled` (a held signature carries the key that made it) and `SigsApproved` (a raw signature that
verifies over a transaction was asked for as that transaction). The last is what makes an acceptance, a step that looks only at `sigs`,
imply an approval: a personal message never verifies as a transaction because the intents differ, whatever its content. A step of
`Signing` is an `Approve`, an `Accept` or a stutter of `Approval`; for `Accept` of a MultiSig the quorum is the set of keys at
the bits its signatures were checked with, each signature verified by its key is an approval by that key, and verification
requires their weights to reach the threshold. That the
refinement rests on the formats and not on the collection order is why the theorem covers both combiners.

The second half of the module proves what signatures verify for, with `LimitAssumption` in addition (the limit of keys is a positive number):

- `SpecIntentsKeptApart`: `Spec => []IntentsKeptApart`
- `SpecOutOfOrderNeverVerifies`: `Spec => []OutOfOrderNeverVerifies`
- `SpecQuorumSuffices`: `Spec => []QuorumSuffices`

Argument. `MadeInv` adds the converse of `SigsApproved`: every held signature was made by the holder of a key for something asked
for, and what was asked for is held. `IntentsKeptApart` is then a comparison of the terms under a signature, message by message; the proof
showed that the earlier statement was true only for a single message, since the deprecated `verifyMessage` takes a signature for
the length-prefixed form of the message asked for. It now says exactly that, and the instance has two such messages. For the other two,
the combiner turns signatures into a set of positions and the verifier lists that set from below: `NthLists` gives that the n-th signature is checked
against the n-th position, so a list in another order meets a key that did not make it. A list may name a key twice: the combiners
find its first position only, which is why a quorum is counted over first positions.

### 6.3 WaitForTransaction

`WaitForTransactionProofs.tla`, from `TimesAssumption` alone, for every timeout, poll interval and bound on time: `SpecTypeOK`, `SpecPollsBounded`,
`SpecOverByDeadline`, `SpecNeverFallsOut`, `SpecNoPollOnceOver`. `IInv` adds to `TypeOK` that the n-th poll is not made before n - 1 intervals have
passed (`PollsSpaced`), and that the timeout is noticed by the tick after it is due, after which nothing sleeps (`TimeoutNoticed`).

### 6.4 TransactionBlock

`TransactionBlockProofs.tla`, from `CommandsAssumption` (a command's arguments are pure or objects as its struct or
signature wants), `ObjectsAssumption` (coins are not shared objects, and a payment may hold one at least) and `TypesAssumption`. For every set of commands and
coins, any number of overlapping builds, failures anywhere and edits between builds:

- `SpecTypeOK`: `Spec => []TypeOK`
- `SpecInputsResolvedAsUsed`: `Spec => []InputsResolvedAsUsed`
- `SpecResolutionNeverUndone`: `Spec => ResolutionNeverUndone`

and under the hypothesis `~EditsBetween`, that a block is not edited once a build of it has started:

- `SpecSharedMutableIffWanted`: `Spec => []SharedMutableIffWanted`
- `SpecGasCoinsNotInputs`: `Spec => []GasCoinsNotInputs`
- `SpecBudgetOfTheseBytes`: `Spec => []BudgetOfTheseBytes`

The hypothesis is not a convenience: with edits between builds the first is false, which is what `tb_mutable_added_later`
shows, and so are the other two for the same reason: a payment picked, or a budget measured, by one build is kept for the next.

Argument. `BaseInv`, of the first three: every argument refers to an input of its kind (`ArgumentsRefer`), what a build still
has to fetch are object uses of inputs given raw (`PendingRefer`, which a late answer after an edit relies on), and every input is what it was
given as or what some use wants (`ResolvedAsUsed`). `SettledInv`, of the others, says what is final once a build has
started. `Stages` is its centre: while a build waits, every object use of a raw input is in a command whose signature is awaited or noted
to be fetched (`Covered`), so once one build has got past the resolution, no object is left to resolve for any of them. Hence, when an
object is resolved, all its uses are known (`MutabilityFinal`: another build that read its signatures in another order resolves it the same way),
the coins free at that time stay free (`Payments`), and the block that was dry-run is the block that is sent (`Measured`). `Fresh` says that before the
first build nothing is resolved or measured. That a build which failed goes on changing the block is covered: `Stages` speaks of all builds, failed ones too.

### 6.5 RpcCalls

`RpcCallsProofs.tla`, from `UndefinedAssumption` (`undefined` is neither a number nor one of the two names of an order) and `RpcAssumption` (what is
malformed is not well formed, page sizes are positive, bounds are natural numbers). For every set of addresses and page sizes, lists
of any length and any changes of them:

- `SpecTypeOK`: `Spec => []TypeOK`
- `SpecReadAsNamed`: `Spec => []ReadAsNamed`
- `SpecSameRequest`: `Spec => []SameRequest`
- `SpecWalkInOrder`: `Spec => []WalkInOrder`
- `SpecNothingMissed`: `Spec => []NothingMissed`

Argument. The tables first: `SuiClientParams` compares what each row of SuiClient sends with what params.ts declares, group by group;
`SameRows` says that the provider's rows are SuiClient's, but for `resolveNameServiceNames`; `ArgIsMeant` that each parameter is what
its name means, and `ReadAsMeant` puts these together for the node, which reads by position. Then a page: `PageLists` says, from `NthLists`, that a page of any size is in order, holds only what lies
beyond the cursor, and leaves out only what comes after its last item. The invariant `IInv` is `CallOk` (the call that is out still holds its
input, and the request its row makes of that), `ListsOk`, and `WalkOk`: the cursor a walk goes on from is the last item it was given
(`Reached`), and what has stayed on the list since the walk began was given already or lies beyond that item (`Ahead`). Neither
property of a walk is inductive without it, and it needs `ReadAsNamed` in turn: a cursor or an order that reached
the node in another position would start the next page elsewhere. Items that join the list only add to what is ahead, items that
leave take nothing from what was given (`ListChangeKeeps`).

### 6.6 Wallet

`WalletProofs.tla`, from `ParametersAssumption` (limits and page sizes are positive, coins and NFTs are positive numbers, those with display data and those recognised are among
the NFTs, the names of kiosks are neither each other's nor those of the other places) and `FiniteAssumption` (an owner's coins, NFTs, kiosks and the validators are finite in number). For any number of them, any sizes
of pages and queries, histories of any length and any changes of the chain:

- `SpecTypeOK`: `Spec => []TypeOK`
- `SpecAccountsFound`: `Spec => []AccountsFound`
- `SpecLastingListedOnce`: `Spec => []LastingListedOnce`
- `SpecNftsListed`: `Spec => []NftsListed`
- `SpecNftsById`: `Spec => []NftsById`
- `SpecHistoryComplete`: `Spec => []HistoryComplete`

Argument. `IInv` has a part for the chain and one for each operation, which says what has been read so far in terms of the chain as it is now and of
`changed`. One lemma per action; a change of the chain has to keep what was already read true of whatever did not move.

- Coins: the result is ascending, ends at the cursor, and has every coin up to the cursor that is there to stay (`GetCoinsOk`); since an ascending list repeats
  nothing, once is all it can be listed. `PageLists` gives that a page skips none.
- NFTs: `Lasting` are those that have not moved and were not beyond an unread page. Of the kiosks read so far, the wallet counting for one, `ReadsOk` says that a lasting NFT
  was read in a kiosk exactly if it is there, and `Found` counts as in the wallet only what lies between the cursor given and the one handed on: by `PageLists` the page is all of
  that. `ShownReads` says that the filter keeps what has display data and where it was read. An NFT that
  moves may be met several times: the reads of one group of kiosks are refused when an object repeats (`HasDuplicates`), the three groups are not compared with each other.
  So what the result keeps is that its entries differ in the NFT or in the source (`Distinct`), and for those that last the sources exclude each other, because their places do.
- NFTs by id: until the last bag is there, `gathered` holds, of each NFT whose bag was answered, its bag but what is in `spared`, and nothing of the others (`NftsByIdOk`); the order of the answers has no part in it.
- Validators: the list was taken from the first answer and the total from the second; with no epoch between, both are of the same stakes (`ListedOk`, `Total`). `ByShareLists` says that sorting and reversing
  rearranges and no more.
- History: a page has every lasting transaction of its side, but for those older than its oldest if it is full (`PageOk`), which transactions that come in
  later, newest last, leave true (`PageStays`). What is newer than the ends of both full pages is on the page of its side; `ByTimeLists` and `UniqueLists` take it from there to the merged list.

The proof corrected the model once: `TypeOK` used to bound what `getNfts` lists by twice the number of NFTs, which held in the run only because two
changes do not carry every NFT through all three sources. Each source can list each NFT, so the bound is three times their number (`ThreeOfEach`).

### 6.7 Only model-checked

Liveness (`EventuallyListening`, `SubscribedGetsMessages`, `BuildsEnd`, `EndsIfAnswered`), which is out of the prover's reach. Every
invariant, action property and refinement a passing run checks is the statement of a theorem; `SameRequest` and `AccountKept` are theorems only, as they follow from
one row of a table and one pair of functions.

## 7. Not modelled, and what remains

Not modelled:

- Cryptographic primitives (curves, hashes, derivation paths, mnemonics) and byte encodings (the layouts of BCS, base64): third-party libraries; section 2.5
  states what is assumed of them. `toMultiSigAddress` hashes what `MultiSigPublicKey.toSuiAddress` does. `combinePartialSigs` unwraps a MultiSig of one
  signature given to it; signatures given to it in the model are single ones.
- Address and type normalisation and formatting (type tags included): conversions of strings, no state.
- Faucet, framework accessors, staking arithmetic: one request or a calculation on one answer.
- WalletClient methods of one request (transfers, balances, metadata, stakes): nothing interleaves in them.
- Types, declarations and generated output (`src/dist/`).
- Edits of a block while `build()` awaits: what a user may expect then is documented nowhere, so there is nothing to hold the code to.
- Subscription ids that are 0 or repeated (websocket-client.ts:126): the full node's are random and wide.

What remains, in order of worth:

1. Signing composed with TransactionBlock: signing while another build of the same block is in flight.
2. TransactionBlock: results of commands as arguments, once a property depends on them.
