---------------------------- MODULE TransactionBlock ----------------------------
(***************************************************************************)
(* The transaction builder of src/src/builder/TransactionBlock.ts: inputs   *)
(* and commands are appended by synchronous calls; build() resolves the     *)
(* inputs that are not call arguments yet, with the answers of RPC calls    *)
(* that arrive in any order, fills in the gas configuration, and serialises *)
(* what it finds in the block at the end.  All of it works on one shared    *)
(* #blockData, so builds that overlap, builds that failed half-way and      *)
(* edits between two builds meet in it.                                     *)
(*                                                                          *)
(* Abstracted: an input's value is "raw" until it is a BuilderCallArg; of a *)
(* call argument only the encoding of a pure value and the mutability of a  *)
(* shared object are kept.  Commands are given by their uses of inputs and, *)
(* per use, what the signature wants there (a pure type, an object, an      *)
(* object by reference or by mutable reference).  Arguments that are not    *)
(* inputs (gas coin, results) are skipped by the code and left out.         *)
(***************************************************************************)
EXTENDS Integers, FiniteSets, Sequences, SequencesExt, Ranks

CONSTANTS
    Objects,        \* object ids
    SharedObjects,  \* external: the objects that are shared
    MissingObjects, \* external: the objects the node does not know
    Coins,          \* external: getCoins() of the gas owner, a sequence of objects
    PureVars,       \* pure values, each the argument returned by one tx.pure()
    PureTypes,      \* types a pure value may be encoded as
    Commands,       \* the commands users may add
    UserPayment,    \* the coins a user passes to setGasPayment
    MaxGasObjects,  \* limit maxGasObjects
    Builds,         \* calls to build()
    MaxCommands,    \* bound: commands in the block
    EditsBetween,   \* TRUE if users may edit between two builds, not only before the first
    RpcMayFail      \* TRUE if RPC calls may be rejected

Raw       == [k |-> "raw",    enc |-> "", mut |-> FALSE]
Pure(t)   == [k |-> "pure",   enc |-> t,  mut |-> FALSE]
Owned     == [k |-> "owned",  enc |-> "", mut |-> FALSE]
Shared(m) == [k |-> "shared", enc |-> "", mut |-> m]

Values == {Raw, Owned} \cup {Pure(t) : t \in PureTypes} \cup {Shared(m) : m \in BOOLEAN}

\* What a signature can want of an argument.
Wants == PureTypes \cup {"object", "ref", "mutref"}
IsPureWant(w) == w \in PureTypes

\* A command uses inputs: an object by its id, or a pure value the user holds in
\* a variable; given raw or as a call argument already, and wanted as the
\* signature (MoveCall) or the well-known encoding (Builtin) says.
Refs == Objects \cup PureVars
Uses == [ref : Refs, given : Values, want : Wants]

\* What the struct of a command says of its fields: an object, or a pure value
\* of a type. Of a MoveCall it says nothing, the function's signature does.
ObjectArgument(ref, given) == [ref |-> ref, given |-> given, want |-> "object"]
PureArgument(ref, given, type) == [ref |-> ref, given |-> given, want |-> type]

\* The commands as Transactions.* creates them, of arguments <<ref, given>>;
\* the code walks the fields in this order.
Builtin(uses) == [kind |-> "Builtin", uses |-> uses]
AsObjects(args) == [n \in DOMAIN args |-> ObjectArgument(args[n][1], args[n][2])]
AsU64s(args)    == [n \in DOMAIN args |-> PureArgument(args[n][1], args[n][2], "u64")]

MoveCall(uses) == [kind |-> "MoveCall", uses |-> uses]
TransferObjects(objects, address) ==
    Builtin(AsObjects(objects) \o <<PureArgument(address[1], address[2], "address")>>)
SplitCoins(coin, amounts)        == Builtin(AsObjects(<<coin>>) \o AsU64s(amounts))
MergeCoins(destination, sources) == Builtin(AsObjects(<<destination>> \o sources))
MakeMoveVec(objects)             == Builtin(AsObjects(objects))
Publish                          == Builtin(<<>>)
Upgrade(ticket)                  == Builtin(AsObjects(<<ticket>>))

ASSUME CommandsAssumption ==
    \A c \in Commands :
        /\ c.kind \in {"MoveCall", "Builtin"}
        /\ c.uses \in Seq(Uses)
        /\ \A n \in DOMAIN c.uses :
              /\ c.uses[n].ref \in PureVars <=> IsPureWant(c.uses[n].want)
              /\ c.kind = "Builtin" => c.uses[n].want \in PureTypes \cup {"object"}
ASSUME ObjectsAssumption ==
    /\ SharedObjects \subseteq Objects
    /\ MissingObjects \subseteq Objects
    /\ Coins \in Seq(Objects \ SharedObjects)
    /\ UserPayment \in Seq(Objects)
    /\ MaxGasObjects \in Nat \ {0}
ASSUME TypesAssumption == PureTypes \cap {"object", "ref", "mutref"} = {}

VARIABLES
    inputs,        \* #blockData.inputs; `given` is the value each was added with
    transactions,  \* #blockData.transactions
    gas,           \* #blockData.gasConfig: price, payment and budget
    build          \* build[b]: the state of one call to build()

vars == <<inputs, transactions, gas, build>>

NoPayment == <<>>

\* A budget is known by where it comes from: the user, or a dry run of a block.
NoBlock       == [inputs |-> <<>>, transactions |-> <<>>]
NoBudget      == [from |-> "nobody", of |-> NoBlock]
UserBudget    == [from |-> "user",   of |-> NoBlock]
DryRunOf(blk) == [from |-> "dryrun", of |-> blk]

NoBytes == [block |-> NoBlock, payment |-> NoPayment, budget |-> NoBudget]

Idle == [pc |-> "idle", kindOnly |-> FALSE, price |-> FALSE, calls |-> {}, toResolve |-> {},
         tx |-> "none", dry |-> NoBlock, bytes |-> NoBytes]

Init ==
    /\ inputs = <<>>
    /\ transactions = <<>>
    /\ gas = [price |-> FALSE, payment |-> NoPayment, budget |-> NoBudget]
    /\ build = [b \in Builds |-> Idle]

-----------------------------------------------------------------------------
(* The synchronous API.                                                     *)

Editable ==
    \A b \in Builds : \/ build[b].pc = "idle"
                      \/ EditsBetween /\ build[b].pc \in {"done", "failed"}

Known(ref) == \E i \in DOMAIN inputs : inputs[i].ref = ref

\* object() returns the input that has the id already, whatever it was given
\* as; pure() adds one, and the user may use the argument it returns again. So
\* the first use of what is not in the block yet adds an input.
NewUses(uses) ==
    {n \in DOMAIN uses : /\ ~Known(uses[n].ref)
                         /\ \A k \in 1 .. n - 1 : uses[k].ref # uses[n].ref}

NewInput(u) == [ref |-> u.ref, given |-> u.given, value |-> u.given]

InputsWith(uses) ==
    inputs \o [k \in 1 .. Cardinality(NewUses(uses)) |-> NewInput(uses[Nth(NewUses(uses), k)])]

\* Mutant: the index is taken after the input was added.
MutInputIndexLate(ins, u) ==
    (CHOOSE i \in DOMAIN ins : ins[i].ref = u.ref) + (IF Known(u.ref) THEN 0 ELSE 1)

InputIndex(ins, u) == CHOOSE i \in DOMAIN ins : ins[i].ref = u.ref

Argument(ins, u) == [input |-> InputIndex(ins, u), want |-> u.want]

\* tx.moveCall({arguments: [tx.object(..), tx.pure(..)]}) and its like.
AddCommand(c) ==
    /\ Editable
    /\ Len(transactions) < MaxCommands
    /\ LET ins == InputsWith(c.uses)
       IN  /\ inputs' = ins
           /\ transactions' = Append(transactions,
                 [kind |-> c.kind, args |-> [n \in DOMAIN c.uses |-> Argument(ins, c.uses[n])]])
    /\ UNCHANGED <<gas, build>>

SetGasPayment ==
    /\ Editable
    /\ gas' = [gas EXCEPT !.payment = UserPayment]
    /\ UNCHANGED <<inputs, transactions, build>>

SetGasBudget ==
    /\ Editable
    /\ gas' = [gas EXCEPT !.budget = UserBudget]
    /\ UNCHANGED <<inputs, transactions, build>>

SetGasPrice ==
    /\ Editable
    /\ gas' = [gas EXCEPT !.price = TRUE]
    /\ UNCHANGED <<inputs, transactions, build>>

-----------------------------------------------------------------------------
(* build(): #prepare, then TransactionBlockDataBuilder.build.               *)

IsRaw(i)      == inputs[i].value = Raw
UsesOf(j)     == ToSet(transactions[j].args)
IsMoveCall(j) == transactions[j].kind = "MoveCall"

\* The arguments of the commands in js by their places <<command, argument>>.
ArgsOf(js) == UNION {{j} \X DOMAIN transactions[j].args : j \in js}
ArgAt(p)   == transactions[p[1]].args[p[2]]

\* The first in the order the code walks them.
First(places) ==
    CHOOSE p \in places : \A q \in places : p[1] < q[1] \/ (p[1] = q[1] /\ p[2] <= q[2])

WantingPure(i, walked) == {p \in walked : ArgAt(p).input = i /\ IsPureWant(ArgAt(p).want)}

\* Encode the raw pure inputs among the arguments walked, as the first argument
\* of each wants.
Encode(walked) ==
    [i \in DOMAIN inputs |->
        IF IsRaw(i) /\ WantingPure(i, walked) # {}
        THEN [inputs[i] EXCEPT !.value = Pure(ArgAt(First(WantingPure(i, walked))).want)]
        ELSE inputs[i]]

\* The raw object inputs that commands js use, with what is wanted of them.
ObjectUses(js) ==
    {a \in UNION {UsesOf(j) : j \in js} : IsRaw(a.input) /\ ~IsPureWant(a.want)}

\* needsResolution, evaluated while the commands are walked in order: a pure
\* value that an earlier builtin command uses is encoded by then.
NeedsResolution(j) ==
    LET walked == ArgsOf({k \in 1 .. j - 1 : ~IsMoveCall(k)})
    IN  \E a \in UsesOf(j) : Encode(walked)[a.input].value = Raw

TxStage(calls, toResolve) ==
    IF calls # {} THEN "calls" ELSE IF toResolve # {} THEN "objects" ELSE "ready"

Start(b, onlyTransactionKind) ==
    /\ build[b].pc = "idle"
    /\ build' = [build EXCEPT ![b].pc = "config", ![b].kindOnly = onlyTransactionKind]
    /\ UNCHANGED <<inputs, transactions, gas>>

\* getProtocolConfig answers; #prepareGasPrice and #prepareTransactions both
\* run up to their first await.
ConfigArrives(b) ==
    /\ build[b].pc = "config"
    /\ LET js    == DOMAIN transactions
           built == {j \in js : ~IsMoveCall(j)}
           calls == {j \in js : IsMoveCall(j) /\ NeedsResolution(j)}
       IN  /\ inputs' = Encode(ArgsOf(built))
           /\ build' = [build EXCEPT
                 ![b].pc = "resolving",
                 ![b].price = ~(build[b].kindOnly \/ gas.price),
                 ![b].calls = calls,
                 ![b].toResolve = ObjectUses(built),
                 ![b].tx = TxStage(calls, ObjectUses(built))]
    /\ UNCHANGED <<transactions, gas>>

PriceArrives(b) ==
    /\ build[b].price
    /\ gas' = [gas EXCEPT !.price = TRUE]
    /\ build' = [build EXCEPT ![b].price = FALSE]
    /\ UNCHANGED <<inputs, transactions>>

\* Mutants: objects are fetched without waiting for the other signatures; the
\* stage never moves on after the last one.
MutAfterSignatureEarly(b, calls, toResolve) ==
    IF toResolve # {} THEN "objects" ELSE TxStage(calls, toResolve)
MutAfterSignatureStuck(b, calls, toResolve) == build[b].tx

\* Promise.all over the calls: once one was rejected the rest changes nothing.
AfterSignature(b, calls, toResolve) ==
    IF build[b].tx = "aborted" THEN "aborted" ELSE TxStage(calls, toResolve)

\* getNormalizedMoveFunction answers for command j: inputs resolved by now are
\* skipped, whoever resolved them.
SignatureArrives(b, j) ==
    /\ j \in build[b].calls
    /\ inputs' = Encode(ArgsOf({j}))
    /\ LET calls     == build[b].calls \ {j}
           toResolve == build[b].toResolve \cup ObjectUses({j})
       IN  build' = [build EXCEPT ![b].calls = calls,
                                  ![b].toResolve = toResolve,
                                  ![b].tx = AfterSignature(b, calls, toResolve)]
    /\ UNCHANGED <<transactions, gas>>

\* Mutants: what another build resolved is not looked at; the signatures are not.
MutMutableForgets(i, uses) == \E a \in uses : a.input = i /\ a.want = "mutref"
MutMutableIgnoresSignature(i, uses) == inputs[i].value.mut

MutableNow(i, uses) ==
    \/ inputs[i].value.mut
    \/ \E a \in uses : a.input = i /\ a.want = "mutref"

\* Mutant: a shared object that is only read is passed by its version.
MutResolveReadAsOwned(uses) ==
    [i \in DOMAIN inputs |->
        IF \E a \in uses : a.input = i
        THEN [inputs[i] EXCEPT !.value =
                IF inputs[i].ref \in SharedObjects /\ MutableNow(i, uses)
                THEN Shared(TRUE) ELSE Owned]
        ELSE inputs[i]]

ResolveObjects(uses) ==
    [i \in DOMAIN inputs |->
        IF \E a \in uses : a.input = i
        THEN [inputs[i] EXCEPT !.value =
                IF inputs[i].ref \in SharedObjects THEN Shared(MutableNow(i, uses)) ELSE Owned]
        ELSE inputs[i]]

\* A rejection fails the build if it still waits for the resolution.
Failed(b) == IF build[b].pc = "resolving" THEN "failed" ELSE build[b].pc

\* multiGetObjects answers.
ObjectsArrive(b) ==
    /\ build[b].tx = "objects"
    /\ IF \E a \in build[b].toResolve : inputs[a.input].ref \in MissingObjects
       THEN /\ build' = [build EXCEPT ![b].tx = "aborted", ![b].pc = Failed(b)]
            /\ UNCHANGED inputs
       ELSE /\ inputs' = ResolveObjects(build[b].toResolve)
            /\ build' = [build EXCEPT ![b].tx = "ready"]
    /\ UNCHANGED <<transactions, gas>>

\* #prepareGasPayment up to its await.
PrepareGasPayment(b) ==
    /\ build[b].pc = "resolving"
    /\ ~build[b].price
    /\ build[b].tx = "ready"
    /\ build' = [build EXCEPT ![b].pc =
          IF build[b].kindOnly THEN "finish"
          ELSE IF Len(gas.payment) > MaxGasObjects THEN "failed"
          ELSE IF gas.payment # NoPayment THEN "budget" ELSE "payment"]
    /\ UNCHANGED <<inputs, transactions, gas>>

\* Mutant: coins that are inputs are not filtered out.
MutFreeCoins == DOMAIN Coins

\* The coins, by their places, that are not also used as input.
FreeCoins ==
    {n \in DOMAIN Coins :
        ~ \E i \in DOMAIN inputs : inputs[i].ref = Coins[n] /\ inputs[i].value = Owned}

\* One fewer than a payment may hold is taken.
CoinsTaken ==
    IF Cardinality(FreeCoins) < MaxGasObjects THEN Cardinality(FreeCoins) ELSE MaxGasObjects - 1

SelectCoins == [k \in 1 .. CoinsTaken |-> Coins[Nth(FreeCoins, k)]]

\* getCoins answers.
CoinsArrive(b) ==
    /\ build[b].pc = "payment"
    /\ IF SelectCoins = <<>>
       THEN /\ build' = [build EXCEPT ![b].pc = "failed"]
            /\ UNCHANGED gas
       ELSE /\ gas' = [gas EXCEPT !.payment = SelectCoins]
            /\ build' = [build EXCEPT ![b].pc = "budget"]
    /\ UNCHANGED <<inputs, transactions>>

AllResolved == \A i \in DOMAIN inputs : ~IsRaw(i)

Block == [inputs |-> inputs, transactions |-> transactions]

\* Without a budget, serialise the block as it is and ask for a dry run of it.
PrepareBudget(b) ==
    /\ build[b].pc = "budget"
    /\ build' = [build EXCEPT
          ![b].pc = IF gas.budget # NoBudget THEN "finish"
                    ELSE IF AllResolved THEN "dryrun" ELSE "failed",
          ![b].dry = IF gas.budget = NoBudget /\ AllResolved THEN Block ELSE @]
    /\ UNCHANGED <<inputs, transactions, gas>>

DryRunArrives(b) ==
    /\ build[b].pc = "dryrun"
    /\ gas' = [gas EXCEPT !.budget = DryRunOf(build[b].dry)]
    /\ build' = [build EXCEPT ![b].pc = "finish"]
    /\ UNCHANGED <<inputs, transactions>>

\* #validate and the final serialisation.
Finish(b) ==
    /\ build[b].pc = "finish"
    /\ build' = [build EXCEPT
          ![b].pc = IF AllResolved THEN "done" ELSE "failed",
          ![b].bytes = IF ~AllResolved THEN NoBytes ELSE
              [block   |-> Block,
               payment |-> IF build[b].kindOnly THEN NoPayment ELSE gas.payment,
               budget  |-> IF build[b].kindOnly THEN NoBudget ELSE gas.budget]]
    /\ UNCHANGED <<inputs, transactions, gas>>

\* getNormalizedMoveFunction is rejected, or its answer is a signature with
\* another number of parameters, or with a parameter after the first n that
\* nothing can be passed for: the arguments before it are encoded by then.
SignatureFails(b, j) ==
    /\ RpcMayFail
    /\ j \in build[b].calls
    /\ \E n \in 0 .. Len(transactions[j].args) - 1 :
          inputs' = Encode({j} \X (1 .. n))
    /\ build' = [build EXCEPT ![b].calls = @ \ {j}, ![b].tx = "aborted", ![b].pc = Failed(b)]
    /\ UNCHANGED <<transactions, gas>>

\* Any other RPC call in flight is rejected, or answers with an error.
RpcFails(b) ==
    /\ RpcMayFail
    /\ \/ /\ build[b].price
          /\ build' = [build EXCEPT ![b].price = FALSE, ![b].pc = Failed(b)]
       \/ /\ build[b].tx = "objects"
          /\ build' = [build EXCEPT ![b].tx = "aborted", ![b].pc = Failed(b)]
       \/ /\ build[b].pc \in {"config", "payment", "dryrun"}
          /\ build' = [build EXCEPT ![b].pc = "failed"]
    /\ UNCHANGED <<inputs, transactions, gas>>

-----------------------------------------------------------------------------
Edit ==
    \/ \E c \in Commands : AddCommand(c)
    \/ SetGasPayment
    \/ SetGasBudget
    \/ SetGasPrice

Step(b) ==
    \/ ConfigArrives(b)
    \/ PriceArrives(b)
    \/ \E j \in DOMAIN transactions : SignatureArrives(b, j)
    \/ ObjectsArrive(b)
    \/ PrepareGasPayment(b)
    \/ CoinsArrive(b)
    \/ PrepareBudget(b)
    \/ DryRunArrives(b)
    \/ Finish(b)

Next ==
    \/ Edit
    \/ \E b \in Builds, kind \in BOOLEAN : Start(b, kind)
    \/ \E b \in Builds : Step(b)
    \/ \E b \in Builds, j \in DOMAIN transactions : SignatureFails(b, j)
    \/ \E b \in Builds : RpcFails(b)

Spec == Init /\ [][Next]_vars

\* The node answers or rejects every call, and the event loop runs every
\* continuation: each build keeps taking steps while it has one.
FairSpec == Spec /\ \A b \in Builds : WF_vars(Step(b))

-----------------------------------------------------------------------------
(* Properties.                                                              *)

Inputs == Seq([ref : Refs, given : Values, value : Values])

\* The block and every build in progress have their declared shape, and no
\* argument or pending resolution refers to an input that does not exist.
TypeOK ==
    /\ inputs \in Inputs
    /\ gas.price \in BOOLEAN
    /\ gas.payment \in Seq(Objects)
    /\ gas.budget.from \in {"nobody", "user", "dryrun"}
    /\ \A j \in DOMAIN transactions :
          /\ transactions[j].kind \in {"MoveCall", "Builtin"}
          /\ \A a \in UsesOf(j) : a.input \in DOMAIN inputs /\ a.want \in Wants
    /\ \A b \in Builds :
          /\ build[b].calls \subseteq DOMAIN transactions
          /\ \A a \in build[b].toResolve : a.input \in DOMAIN inputs
          /\ build[b].pc \in {"idle", "config", "resolving", "payment", "budget", "dryrun",
                              "finish", "done", "failed"}
          /\ build[b].tx \in {"none", "calls", "objects", "ready", "aborted"}

Done(b) == build[b].pc = "done"

\* What the commands of a block want of input i.
WantedOf(blk, i) ==
    {a.want : a \in {x \in UNION {ToSet(blk.transactions[j].args) : j \in DOMAIN blk.transactions} :
                        x.input = i}}

\* A shared object is passed as mutable exactly when some command of the same
\* bytes takes it by mutable reference ("If one of them is a mutable reference,
\* then we should mark the input as mutable", TransactionBlock.ts:752-754).
SharedMutableIffWanted ==
    \A b \in Builds : Done(b) =>
        LET blk == build[b].bytes.block IN
        \A i \in DOMAIN blk.inputs :
            blk.inputs[i].given = Raw /\ blk.inputs[i].value.k = "shared"
                => (blk.inputs[i].value.mut <=> "mutref" \in WantedOf(blk, i))

\* Whatever order answers arrive in, whatever other build ran or failed
\* half-way: every input of the bytes is what it was given as, or is resolved
\* the way some use of it wants and the ownership of its object allows.
InputsResolvedAsUsed ==
    \A b \in Builds : Done(b) =>
        LET blk == build[b].bytes.block IN
        \A i \in DOMAIN blk.inputs :
            LET in == blk.inputs[i] IN
            IF in.given # Raw THEN in.value = in.given
            ELSE \/ in.value.k = "pure" /\ in.value.enc \in WantedOf(blk, i)
                 \/ in.value.k = "shared" /\ in.ref \in SharedObjects
                 \/ in.value = Owned /\ in.ref \in Objects \ SharedObjects

\* The gas coins a build picked are not objects the same bytes use as input
\* ("Filter out coins that are also used as input", TransactionBlock.ts:512).
GasCoinsNotInputs ==
    \A b \in Builds : Done(b) /\ build[b].bytes.payment # UserPayment =>
        LET blk == build[b].bytes.block IN
        \A i \in DOMAIN blk.inputs :
            blk.inputs[i].value = Owned => blk.inputs[i].ref \notin ToSet(build[b].bytes.payment)

\* A computed budget was measured on the very block it is sent with, although
\* other builds resolve inputs between the dry run and the final bytes.
BudgetOfTheseBytes ==
    \A b \in Builds : Done(b) /\ build[b].bytes.budget.from = "dryrun" =>
        build[b].bytes.budget.of = build[b].bytes.block

\* No answer, late or early, of whichever build, takes back that a shared
\* object is passed as mutable, or resolves an input into something else.
ResolutionNeverUndone ==
    [][\A i \in DOMAIN inputs :
          ~IsRaw(i) => /\ inputs'[i].value.k = inputs[i].value.k
                       /\ inputs'[i].value.enc = inputs[i].value.enc
                       /\ inputs[i].value.mut => inputs'[i].value.mut]_vars

\* Every build that starts ends, however the others fare.
BuildsEnd == \A b \in Builds : build[b].pc = "config" ~> build[b].pc \in {"done", "failed"}
=============================================================================
