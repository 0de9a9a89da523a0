------------------------ MODULE TransactionBlockProofs ------------------------
(***************************************************************************)
(* Theorems about TransactionBlock for all objects, coins, commands, limits *)
(* and any number of builds: types, inputs resolved the way they are used,  *)
(* and no resolution undone, whatever the edits between builds; and, when   *)
(* the block is not edited once a build has started, what the bytes say of  *)
(* shared objects, of the gas coins and of the budget.                      *)
(***************************************************************************)
EXTENDS TransactionBlock, RankProofs, TLAPS

Arguments == [input : Nat, want : Wants]

Blocks == [inputs : Inputs, transactions : Seq([kind : {"MoveCall", "Builtin"}, args : Seq(Arguments)])]

Budgets == [from : {"nobody", "user", "dryrun"}, of : Blocks]

BuildStates ==
    [pc        : {"idle", "config", "resolving", "payment", "budget", "dryrun",
                  "finish", "done", "failed"},
     kindOnly  : BOOLEAN,
     price     : BOOLEAN,
     calls     : SUBSET Nat,
     toResolve : SUBSET Arguments,
     tx        : {"none", "calls", "objects", "ready", "aborted"},
     dry       : Blocks,
     bytes     : [block : Blocks, payment : Seq(Objects), budget : Budgets]]

GasStates == [price : BOOLEAN, payment : Seq(Objects), budget : Budgets]

\* The shape of the whole state.
Shape ==
    /\ Block \in Blocks
    /\ gas \in GasStates
    /\ build \in [Builds -> BuildStates]

AllUses == UNION {UsesOf(j) : j \in DOMAIN transactions}

\* An input is used as an object or as a pure value, never as both.
ArgumentsRefer ==
    \A a \in AllUses :
        /\ a.input \in DOMAIN inputs
        /\ a.want \in Wants
        /\ IsPureWant(a.want) <=> inputs[a.input].ref \in PureVars

\* Object uses of inputs given raw.
Pending(uses) ==
    \A a \in uses : a \in AllUses /\ ~IsPureWant(a.want) /\ inputs[a.input].given = Raw

\* What a build still has to fetch is of this kind.
PendingRefer ==
    \A b \in Builds :
        /\ build[b].calls \subseteq DOMAIN transactions
        /\ Pending(build[b].toResolve)

Wanted(i, w) == \E a \in AllUses : a.input = i /\ a.want = w

\* An input is still what it was given as, or was resolved as some use of it
\* wants and the ownership of its object allows.
ResolvedAsUsed(i) ==
    LET in == inputs[i] IN
    \/ in.value = in.given
    \/ /\ in.given = Raw
       /\ \/ \E t \in PureTypes : in.value = Pure(t) /\ Wanted(i, t)
          \/ in.ref \in SharedObjects \ PureVars /\ \E m \in BOOLEAN : in.value = Shared(m)
          \/ in.ref \in (Objects \ SharedObjects) \ PureVars /\ in.value = Owned

\* The inductive invariant that holds whatever users edit between builds.
BaseInv ==
    /\ Shape
    /\ ArgumentsRefer
    /\ PendingRefer
    /\ \A i \in DOMAIN inputs : ResolvedAsUsed(i)
    /\ InputsResolvedAsUsed

-----------------------------------------------------------------------------
(* The invariant of a block that is not edited once a build has started.    *)

Quiet == \A b \in Builds : build[b].pc = "idle"

\* Before that, nothing is resolved, paid or measured.
Fresh ==
    /\ \A b \in Builds : build[b].pc = "idle" => build[b] = Idle
    /\ Quiet => /\ \A i \in DOMAIN inputs : inputs[i].value = inputs[i].given
                /\ gas.budget.from # "dryrun"
                /\ gas.payment \in {NoPayment, UserPayment}

\* No raw input is wanted as an object any more.
ObjectsResolved ==
    \A a \in AllUses : ~IsPureWant(a.want) => ~IsRaw(a.input)

\* Every object use of a raw input is in a call whose signature a build waits
\* for, or noted already as an object to fetch.
Covered(calls, uses) ==
    \A j \in DOMAIN transactions : \A a \in UsesOf(j) :
        IsRaw(a.input) /\ ~IsPureWant(a.want) => j \in calls \/ a \in uses

\* Where a build stands with the resolution of the inputs.
StageOf(s) ==
    /\ s.tx = "none" => s.calls = {}
    /\ s.pc = "config" => s.tx = "none"
    /\ s.pc \in {"payment", "budget", "dryrun", "finish", "done"} => s.tx = "ready"
    /\ s.tx = "objects" => s.calls = {}
    /\ s.tx = "ready" => s.calls = {} /\ ObjectsResolved
    /\ s.tx \in {"calls", "objects"} => Covered(s.calls, s.toResolve)

Stages == \A b \in Builds : StageOf(build[b])

\* A resolved shared object is mutable exactly when some command writes it.
MutabilityFinal ==
    \A i \in DOMAIN inputs :
        inputs[i].given = Raw /\ inputs[i].value.k = "shared" =>
            (inputs[i].value.mut <=> Wanted(i, "mutref"))

\* What was measured is the block as it is now.
MeasuredHere(budget) == budget.from = "dryrun" => budget.of = Block /\ AllResolved

\* So is what a build measures, and what it sent.
Measured ==
    /\ MeasuredHere(gas.budget)
    /\ \A b \in Builds :
        /\ build[b].pc = "dryrun" => build[b].dry = Block /\ AllResolved
        /\ Done(b) => /\ build[b].bytes.block = Block /\ AllResolved
                      /\ MeasuredHere(build[b].bytes.budget)

PaysApart(payment) ==
    payment \notin {NoPayment, UserPayment} =>
        /\ ObjectsResolved
        /\ \A i \in DOMAIN inputs : inputs[i].value = Owned => inputs[i].ref \notin ToSet(payment)

\* Coins a build picked are not among the owned inputs, and no input is left
\* that could become one.
Payments ==
    /\ PaysApart(gas.payment)
    /\ \A b \in Builds : Done(b) => PaysApart(build[b].bytes.payment)

SettledInv == BaseInv /\ Fresh /\ Stages /\ MutabilityFinal /\ Measured /\ Payments

-----------------------------------------------------------------------------
(* Values, inputs and arguments.                                            *)

LEMMA ValueKinds ==
    /\ Raw.k = "raw" /\ Raw.enc = "" /\ Raw.mut = FALSE
    /\ Owned.k = "owned" /\ Owned.enc = "" /\ Owned.mut = FALSE
    /\ \A t : Pure(t).k = "pure" /\ Pure(t).enc = t /\ Pure(t).mut = FALSE
    /\ \A m : Shared(m).k = "shared" /\ Shared(m).enc = "" /\ Shared(m).mut = m
    /\ Raw \in Values /\ Owned \in Values
    /\ \A t \in PureTypes : Pure(t) \in Values
    /\ \A m \in BOOLEAN : Shared(m) \in Values
  BY DEF Raw, Owned, Pure, Shared, Values

\* What TLC enumerates and what the steps read of an input and an argument.
LEMMA Shapes ==
    ASSUME Shape
    PROVE  /\ inputs \in Inputs
           /\ Len(inputs) \in Nat /\ DOMAIN inputs = 1 .. Len(inputs)
           /\ \A i \in DOMAIN inputs :
                /\ inputs[i] = [ref |-> inputs[i].ref, given |-> inputs[i].given,
                                value |-> inputs[i].value]
                /\ inputs[i].ref \in Refs
                /\ inputs[i].given \in Values
                /\ inputs[i].value \in Values
           /\ Len(transactions) \in Nat /\ DOMAIN transactions = 1 .. Len(transactions)
           /\ \A j \in DOMAIN transactions :
                /\ transactions[j].kind \in {"MoveCall", "Builtin"}
                /\ Len(transactions[j].args) \in Nat
                /\ DOMAIN transactions[j].args = 1 .. Len(transactions[j].args)
                /\ \A n \in DOMAIN transactions[j].args : transactions[j].args[n] \in Arguments
<1> DEFINE InputRecords == [ref : Refs, given : Values, value : Values]
           Commands0 == [kind : {"MoveCall", "Builtin"}, args : Seq(Arguments)]
<1>1. inputs \in Seq(InputRecords) /\ transactions \in Seq(Commands0)
  BY DEF Shape, Block, Blocks, Inputs
<1>2. \A r \in InputRecords : /\ r = [ref |-> r.ref, given |-> r.given, value |-> r.value]
                              /\ r.ref \in Refs /\ r.given \in Values /\ r.value \in Values
  OBVIOUS
<1>3. \A c \in Commands0 : c.kind \in {"MoveCall", "Builtin"} /\ c.args \in Seq(Arguments)
  OBVIOUS
<1> HIDE DEF InputRecords, Commands0
<1>4. /\ Len(inputs) \in Nat /\ DOMAIN inputs = 1 .. Len(inputs)
      /\ \A i \in DOMAIN inputs : inputs[i] \in InputRecords
  BY <1>1
<1>5. /\ Len(transactions) \in Nat /\ DOMAIN transactions = 1 .. Len(transactions)
      /\ \A j \in DOMAIN transactions : transactions[j] \in Commands0
  BY <1>1
<1>6. \A args \in Seq(Arguments) : /\ Len(args) \in Nat /\ DOMAIN args = 1 .. Len(args)
                                   /\ \A n \in DOMAIN args : args[n] \in Arguments
  OBVIOUS
<1>7. inputs \in Inputs
  BY <1>1 DEF Inputs, InputRecords
<1>8. QED
  BY <1>2, <1>3, <1>4, <1>5, <1>6, <1>7

\* Among any places in the block one is walked first.
LEMMA FirstIsOne ==
    ASSUME NEW places, places # {}, \A p \in places : p[1] \in Nat /\ p[2] \in Nat
    PROVE  First(places) \in places
<1> DEFINE commands == {p[1] : p \in places}
<1>1. PICK j \in commands : \A k \in commands : j <= k
  <2>1. commands \subseteq Nat /\ commands # {}
    OBVIOUS
  <2> HIDE DEF commands
  <2>2. QED
    BY <2>1, LeastOf
<1> DEFINE arguments == {p[2] : p \in {q \in places : q[1] = j}}
<1>2. PICK n \in arguments : \A k \in arguments : n <= k
  <2>1. arguments \subseteq Nat /\ arguments # {}
    OBVIOUS
  <2> HIDE DEF arguments
  <2>2. QED
    BY <2>1, LeastOf
<1>3. PICK p \in places : p[1] = j /\ p[2] = n
  OBVIOUS
<1>4. \A q \in places : p[1] < q[1] \/ (p[1] = q[1] /\ p[2] <= q[2])
  <2> SUFFICES ASSUME NEW q \in places PROVE p[1] < q[1] \/ (p[1] = q[1] /\ p[2] <= q[2])
    OBVIOUS
  <2>1. j <= q[1] /\ j \in Nat /\ q[1] \in Nat
    BY <1>1
  <2>2. q[1] = j => n <= q[2]
    BY <1>2
  <2>3. QED
    BY <1>3, <2>1, <2>2
<1>5. QED
  BY <1>3, <1>4 DEF First

\* Encoding touches raw inputs only, and gives each a type that a use wants.
LEMMA EncodeFacts ==
    ASSUME BaseInv, NEW walked, walked \subseteq ArgsOf(DOMAIN transactions)
    PROVE  /\ Encode(walked) \in Inputs
           /\ DOMAIN Encode(walked) = DOMAIN inputs
           /\ \A i \in DOMAIN inputs :
                /\ Encode(walked)[i].ref = inputs[i].ref
                /\ Encode(walked)[i].given = inputs[i].given
                /\ \/ Encode(walked)[i] = inputs[i]
                   \/ /\ IsRaw(i)
                      /\ inputs[i].ref \in PureVars
                      /\ \E t \in PureTypes : Encode(walked)[i].value = Pure(t) /\ Wanted(i, t)
<1> DEFINE new == Encode(walked)
<1>1. /\ Len(inputs) \in Nat /\ DOMAIN inputs = 1 .. Len(inputs)
      /\ \A i \in DOMAIN inputs :
                /\ inputs[i] = [ref |-> inputs[i].ref, given |-> inputs[i].given,
                                value |-> inputs[i].value]
                /\ inputs[i].ref \in Refs
                /\ inputs[i].given \in Values
                /\ inputs[i].value \in Values
      /\ DOMAIN transactions = 1 .. Len(transactions) /\ Len(transactions) \in Nat
      /\ \A j \in DOMAIN transactions : DOMAIN transactions[j].args = 1 .. Len(transactions[j].args)
  BY Shapes DEF BaseInv
<1>2. \A p \in walked : /\ p[1] \in DOMAIN transactions
                        /\ p[2] \in DOMAIN transactions[p[1]].args
                        /\ p[1] \in Nat /\ p[2] \in Nat
                        /\ ArgAt(p) \in AllUses
  BY <1>1 DEF ArgsOf, ArgAt, AllUses, UsesOf, ToSet
<1>3. ASSUME NEW i \in DOMAIN inputs, IsRaw(i), WantingPure(i, walked) # {}
      PROVE  \E t \in PureTypes : /\ new[i] = [inputs[i] EXCEPT !.value = Pure(t)]
                                  /\ Wanted(i, t)
                                  /\ inputs[i].ref \in PureVars
  <2> DEFINE p == First(WantingPure(i, walked))
  <2>1. p \in WantingPure(i, walked)
    BY <1>2, <1>3, FirstIsOne DEF WantingPure
  <2>2. p \in walked /\ ArgAt(p).input = i /\ IsPureWant(ArgAt(p).want)
    BY <2>1 DEF WantingPure
  <2>3. ArgAt(p) \in AllUses
    BY <1>2, <2>2
  <2>4. inputs[i].ref \in PureVars
    BY <2>2, <2>3 DEF BaseInv, ArgumentsRefer
  <2>5. new[i] = [inputs[i] EXCEPT !.value = Pure(ArgAt(p).want)]
    BY <1>3 DEF Encode
  <2>6. ArgAt(p).want \in PureTypes /\ Wanted(i, ArgAt(p).want)
    BY <2>2, <2>3 DEF IsPureWant, Wanted
  <2>7. QED
    BY <2>4, <2>5, <2>6
<1>4. DOMAIN new = DOMAIN inputs
  BY DEF Encode
<1>5. \A i \in DOMAIN inputs : ~(IsRaw(i) /\ WantingPure(i, walked) # {}) => new[i] = inputs[i]
  BY DEF Encode
<1> HIDE DEF new
<1>6. ASSUME NEW i \in DOMAIN inputs
      PROVE  /\ new[i].ref = inputs[i].ref
             /\ new[i].given = inputs[i].given
             /\ new[i] \in [ref : Refs, given : Values, value : Values]
             /\ \/ new[i] = inputs[i]
                \/ /\ IsRaw(i)
                   /\ inputs[i].ref \in PureVars
                   /\ \E t \in PureTypes : new[i].value = Pure(t) /\ Wanted(i, t)
  <2>1. CASE new[i] = inputs[i]
    BY <1>1, <2>1
  <2>2. CASE new[i] # inputs[i]
    <3>1. IsRaw(i)
      BY <1>5, <2>2
    <3>2. PICK t \in PureTypes : /\ new[i] = [inputs[i] EXCEPT !.value = Pure(t)]
                                 /\ Wanted(i, t)
                                 /\ inputs[i].ref \in PureVars
      BY <1>3, <1>5, <2>2
    <3>3. Pure(t) \in Values
      BY ValueKinds
    <3>4. /\ new[i].ref = inputs[i].ref
          /\ new[i].given = inputs[i].given
          /\ new[i].value = Pure(t)
          /\ new[i] = [ref |-> inputs[i].ref, given |-> inputs[i].given, value |-> Pure(t)]
      BY <1>1, <3>2
    <3>5. QED
      BY <1>1, <3>1, <3>2, <3>3, <3>4
  <2>3. QED
    BY <2>1, <2>2
<1>7. new \in Inputs
  <2> DEFINE R == [ref : Refs, given : Values, value : Values]
  <2>1. \A i \in 1 .. Len(inputs) : new[i] \in R
    BY <1>1, <1>6
  <2>2. new = [i \in 1 .. Len(inputs) |-> new[i]]
    BY <1>1 DEF new, Encode
  <2> HIDE DEF R
  <2>3. new \in Seq(R)
    BY <1>1, <2>1, <2>2
  <2>4. QED
    BY <2>3 DEF Inputs, R
<1>8. QED
  BY <1>4, <1>6, <1>7 DEF new

\* Resolution gives the inputs used what their objects' ownership allows.
LEMMA ResolveFacts ==
    ASSUME BaseInv, NEW uses, Pending(uses)
    PROVE  /\ ResolveObjects(uses) \in Inputs
           /\ DOMAIN ResolveObjects(uses) = DOMAIN inputs
           /\ \A i \in DOMAIN inputs :
                /\ MutableNow(i, uses) \in BOOLEAN
                /\ ResolveObjects(uses)[i].ref = inputs[i].ref
                /\ ResolveObjects(uses)[i].given = inputs[i].given
                /\ (~ \E a \in uses : a.input = i) => ResolveObjects(uses)[i] = inputs[i]
                /\ (\E a \in uses : a.input = i) =>
                      /\ inputs[i].given = Raw
                      /\ \/ /\ inputs[i].ref \in SharedObjects \ PureVars
                            /\ ResolveObjects(uses)[i].value = Shared(MutableNow(i, uses))
                         \/ /\ inputs[i].ref \in (Objects \ SharedObjects) \ PureVars
                            /\ ResolveObjects(uses)[i].value = Owned
<1> DEFINE new == ResolveObjects(uses)
           R == [ref : Refs, given : Values, value : Values]
<1>1. /\ Len(inputs) \in Nat /\ DOMAIN inputs = 1 .. Len(inputs)
      /\ \A i \in DOMAIN inputs :
                /\ inputs[i] = [ref |-> inputs[i].ref, given |-> inputs[i].given,
                                value |-> inputs[i].value]
                /\ inputs[i].ref \in Refs
                /\ inputs[i].given \in Values
                /\ inputs[i].value \in Values
  BY Shapes DEF BaseInv
<1>2. \A v \in Values : v.mut \in BOOLEAN
  <2> SUFFICES ASSUME NEW v \in Values PROVE v.mut \in BOOLEAN
    OBVIOUS
  <2>1. CASE v \in {Raw, Owned}
    BY <2>1, ValueKinds
  <2>2. CASE \E t \in PureTypes : v = Pure(t)
    BY <2>2, ValueKinds
  <2>3. CASE \E m \in BOOLEAN : v = Shared(m)
    BY <2>3, ValueKinds
  <2>4. QED
    BY <2>1, <2>2, <2>3 DEF Values
<1>3. \A i \in DOMAIN inputs : MutableNow(i, uses) \in BOOLEAN
  BY <1>1, <1>2 DEF MutableNow
<1>4. ASSUME NEW a \in uses
      PROVE  /\ a.input \in DOMAIN inputs
             /\ inputs[a.input].given = Raw
             /\ inputs[a.input].ref \in Objects \ PureVars
  BY <1>1 DEF Pending, BaseInv, ArgumentsRefer, Refs
<1>5. ASSUME NEW i \in DOMAIN inputs
      PROVE  /\ new[i] \in R
             /\ new[i].ref = inputs[i].ref
             /\ new[i].given = inputs[i].given
             /\ (~ \E a \in uses : a.input = i) => new[i] = inputs[i]
             /\ (\E a \in uses : a.input = i) =>
                      /\ inputs[i].given = Raw
                      /\ \/ /\ inputs[i].ref \in SharedObjects \ PureVars
                            /\ new[i].value = Shared(MutableNow(i, uses))
                         \/ /\ inputs[i].ref \in (Objects \ SharedObjects) \ PureVars
                            /\ new[i].value = Owned
  <2> DEFINE v == IF inputs[i].ref \in SharedObjects THEN Shared(MutableNow(i, uses)) ELSE Owned
  <2>1. CASE ~ \E a \in uses : a.input = i
    <3>1. new[i] = inputs[i]
      BY <2>1 DEF ResolveObjects
    <3>2. QED
      BY <1>1, <2>1, <3>1
  <2>2. CASE \E a \in uses : a.input = i
    <3>1. new[i] = [inputs[i] EXCEPT !.value = v]
      BY <2>2 DEF ResolveObjects
    <3>2. v \in Values
      BY <1>3, ValueKinds
    <3>3. inputs[i].given = Raw /\ inputs[i].ref \in Objects \ PureVars
      BY <1>4, <2>2
    <3>4. \/ inputs[i].ref \in SharedObjects /\ v = Shared(MutableNow(i, uses))
          \/ inputs[i].ref \notin SharedObjects /\ v = Owned
      OBVIOUS
    <3> HIDE DEF v, new
    <3>5. /\ new[i].ref = inputs[i].ref
          /\ new[i].given = inputs[i].given
          /\ new[i].value = v
          /\ new[i] = [ref |-> inputs[i].ref, given |-> inputs[i].given, value |-> v]
      BY <1>1, <3>1
    <3>6. new[i] \in R
      BY <1>1, <3>2, <3>5
    <3>7. QED
      BY <2>2, <3>3, <3>4, <3>5, <3>6
  <2>3. QED
    BY <2>1, <2>2
<1>6. DOMAIN new = DOMAIN inputs
  BY DEF ResolveObjects
<1>7. new \in Inputs
  <2>1. \A i \in 1 .. Len(inputs) : new[i] \in R
    BY <1>1, <1>5
  <2>2. new = [i \in 1 .. Len(inputs) |-> new[i]]
    BY <1>1 DEF ResolveObjects
  <2> HIDE DEF R, new
  <2>3. new \in Seq(R)
    BY <1>1, <2>1, <2>2
  <2>4. QED
    BY <2>3 DEF Inputs, R
<1> HIDE DEF new, R
<1>8. QED
  BY <1>3, <1>5, <1>6, <1>7 DEF new

\* One sequence behind another.
LEMMA Joined ==
    ASSUME NEW S, NEW s \in Seq(S), NEW t \in Seq(S)
    PROVE  /\ s \o t \in Seq(S)
           /\ Len(s \o t) = Len(s) + Len(t)
           /\ DOMAIN (s \o t) = 1 .. Len(s) + Len(t)
           /\ \A i \in 1 .. Len(s) : (s \o t)[i] = s[i]
           /\ \A i \in Len(s) + 1 .. Len(s) + Len(t) : (s \o t)[i] = t[i - Len(s)]
  OBVIOUS

\* What a command adds: an input for each new reference, as it was given, behind
\* those there are; and every use finds the input of its reference.
LEMMA AddFacts ==
    ASSUME Shape, NEW c \in Commands
    PROVE  LET ins == InputsWith(c.uses) IN
           /\ ins \in Inputs
           /\ Len(inputs) <= Len(ins)
           /\ \A i \in DOMAIN inputs : i \in DOMAIN ins /\ ins[i] = inputs[i]
           /\ \A i \in DOMAIN ins \ DOMAIN inputs : ins[i].value = ins[i].given
           /\ \A n \in DOMAIN c.uses :
                LET a == Argument(ins, c.uses[n]) IN
                /\ a \in Arguments
                /\ a.input \in DOMAIN ins
                /\ IsPureWant(a.want) <=> ins[a.input].ref \in PureVars
<1> DEFINE fresh == NewUses(c.uses)
           ins == InputsWith(c.uses)
           R == [ref : Refs, given : Values, value : Values]
           added == [k \in 1 .. Cardinality(fresh) |-> NewInput(c.uses[Nth(fresh, k)])]
<1>1. /\ Len(inputs) \in Nat /\ DOMAIN inputs = 1 .. Len(inputs)
      /\ inputs \in Seq(R)
  BY Shapes DEF Inputs
<1>2. /\ c.uses \in Seq(Uses)
      /\ \A n \in DOMAIN c.uses :
              /\ c.uses[n] \in Uses
              /\ c.uses[n].ref \in PureVars <=> IsPureWant(c.uses[n].want)
  <2>1. c.uses \in Seq(Uses)
    BY CommandsAssumption
  <2>2. \A n \in DOMAIN c.uses : c.uses[n] \in Uses
    BY <2>1
  <2>3. QED
    BY <2>1, <2>2, CommandsAssumption
<1>3. Len(c.uses) \in Nat /\ DOMAIN c.uses = 1 .. Len(c.uses)
  BY <1>2
<1>4. fresh \subseteq DOMAIN c.uses /\ fresh \subseteq Nat /\ IsFiniteSet(fresh)
  <2>1. fresh \subseteq DOMAIN c.uses
    BY DEF NewUses
  <2>2. IsFiniteSet(1 .. Len(c.uses))
    BY <1>3, FS_Interval
  <2>3. QED
    BY <1>3, <2>1, <2>2, FS_Subset
<1>5. /\ Cardinality(fresh) \in Nat
      /\ \A k \in 1 .. Cardinality(fresh) : Nth(fresh, k) \in fresh
      /\ \A n \in fresh : \E k \in 1 .. Cardinality(fresh) : n = Nth(fresh, k)
  BY <1>4, NthLists
<1>6. /\ \A k \in 1 .. Cardinality(fresh) : added[k] = NewInput(c.uses[Nth(fresh, k)])
      /\ \A k \in 1 .. Cardinality(fresh) : added[k] \in R /\ added[k].value = added[k].given
  <2>1. \A u \in Uses : NewInput(u) \in R /\ NewInput(u).value = NewInput(u).given
    BY DEF Uses, NewInput
  <2>2. \A k \in 1 .. Cardinality(fresh) : c.uses[Nth(fresh, k)] \in Uses
    BY <1>2, <1>4, <1>5
  <2> HIDE DEF fresh, R
  <2>3. QED
    BY <2>1, <2>2
<1>7. added \in Seq(R) /\ Len(added) = Cardinality(fresh)
  <2> DEFINE m == Cardinality(fresh)
             item(k) == NewInput(c.uses[Nth(fresh, k)])
  <2>1. m \in Nat /\ \A k \in 1 .. m : item(k) \in R
    BY <1>5, <1>6
  <2>2. added = [k \in 1 .. m |-> item(k)]
    OBVIOUS
  <2> HIDE DEF m, item, added, R
  <2>3. added \in Seq(R) /\ Len(added) = m
    BY <2>1, <2>2
  <2>4. QED
    BY <2>3 DEF m
<1>8. ins = inputs \o added
  BY DEF InputsWith
<1> HIDE DEF ins, added, fresh, R
<1>9. /\ ins \in Seq(R)
      /\ Len(ins) = Len(inputs) + Cardinality(fresh)
      /\ DOMAIN ins = 1 .. Len(inputs) + Cardinality(fresh)
      /\ \A i \in 1 .. Len(inputs) : ins[i] = inputs[i]
      /\ \A i \in Len(inputs) + 1 .. Len(inputs) + Cardinality(fresh) :
            ins[i] = added[i - Len(inputs)]
  BY <1>1, <1>5, <1>7, <1>8, Joined
<1>10. \A i \in DOMAIN ins \ DOMAIN inputs : ins[i].value = ins[i].given
  <2> SUFFICES ASSUME NEW i \in DOMAIN ins \ DOMAIN inputs PROVE ins[i].value = ins[i].given
    OBVIOUS
  <2>1. i \in Len(inputs) + 1 .. Len(inputs) + Cardinality(fresh)
    BY <1>1, <1>5, <1>9
  <2>2. i - Len(inputs) \in 1 .. Cardinality(fresh)
    BY <1>1, <1>5, <2>1
  <2>3. QED
    BY <1>6, <1>9, <2>1, <2>2
<1>11. ASSUME NEW n \in DOMAIN c.uses
       PROVE  \E i \in DOMAIN ins : ins[i].ref = c.uses[n].ref
  <2>1. CASE Known(c.uses[n].ref)
    BY <1>1, <1>5, <1>9, <2>1 DEF Known
  <2>2. CASE ~Known(c.uses[n].ref)
    <3> DEFINE same == {k \in DOMAIN c.uses : c.uses[k].ref = c.uses[n].ref}
    <3>1. PICK first \in same : \A k \in same : first <= k
      <4>1. same \subseteq Nat /\ same # {}
        BY <1>3
      <4> HIDE DEF same
      <4>2. QED
        BY <4>1, LeastOf
    <3>2. \A k \in 1 .. first - 1 : k \in DOMAIN c.uses /\ ~(first <= k)
      BY <1>3
    <3>3. first \in fresh
      BY <2>2, <3>1, <3>2 DEF fresh, NewUses
    <3>4. PICK k \in 1 .. Cardinality(fresh) : first = Nth(fresh, k)
      BY <1>5, <3>3
    <3>5. added[k].ref = c.uses[n].ref
      <4>1. added[k] = NewInput(c.uses[first])
        BY <1>6, <3>4
      <4>2. NewInput(c.uses[first]).ref = c.uses[first].ref
        BY DEF NewInput
      <4>3. QED
        BY <3>1, <4>1, <4>2
    <3>6. /\ Len(inputs) + k \in Len(inputs) + 1 .. Len(inputs) + Cardinality(fresh)
          /\ (Len(inputs) + k) - Len(inputs) = k
      BY <1>1, <1>5
    <3>7. ins[Len(inputs) + k] = added[k]
      BY <1>9, <3>6
    <3>8. Len(inputs) + k \in DOMAIN ins
      BY <1>1, <1>5, <1>9
    <3>9. QED
      BY <3>5, <3>7, <3>8
  <2>3. QED
    BY <2>1, <2>2
<1>12. ASSUME NEW n \in DOMAIN c.uses
       PROVE  LET a == Argument(ins, c.uses[n]) IN
              /\ a \in Arguments
              /\ a.input \in DOMAIN ins
              /\ IsPureWant(a.want) <=> ins[a.input].ref \in PureVars
  <2> DEFINE i == InputIndex(ins, c.uses[n])
  <2>1. i \in DOMAIN ins /\ ins[i].ref = c.uses[n].ref
    BY <1>11 DEF InputIndex
  <2>2. i \in Nat
    BY <1>1, <1>5, <1>9, <2>1
  <2>3. c.uses[n].want \in Wants
    BY <1>2 DEF Uses
  <2>4. Argument(ins, c.uses[n]) = [input |-> i, want |-> c.uses[n].want]
    BY DEF Argument
  <2>5. c.uses[n].ref \in PureVars <=> IsPureWant(c.uses[n].want)
    BY <1>2
  <2> HIDE DEF i
  <2>6. QED
    BY <2>1, <2>2, <2>3, <2>4, <2>5 DEF Arguments
<1>13. QED
  BY <1>1, <1>5, <1>9, <1>10, <1>12 DEF Inputs, ins, R

-----------------------------------------------------------------------------
(* Every step keeps BaseInv.                                                *)

\* What InputsResolvedAsUsed says of the bytes of one build.
ResolvedIn(blk) ==
    \A i \in DOMAIN blk.inputs :
        LET in == blk.inputs[i] IN
        IF in.given # Raw THEN in.value = in.given
        ELSE \/ in.value.k = "pure" /\ in.value.enc \in WantedOf(blk, i)
             \/ in.value.k = "shared" /\ in.ref \in SharedObjects
             \/ in.value = Owned /\ in.ref \in Objects \ SharedObjects

\* An input is what it was, or what a use wants and its ownership allows.
Resolving(i) ==
    /\ inputs'[i].ref = inputs[i].ref
    /\ inputs'[i].given = inputs[i].given
    /\ \/ inputs'[i] = inputs[i]
       \/ /\ IsRaw(i)
          /\ inputs[i].ref \in PureVars
          /\ \E t \in PureTypes : inputs'[i].value = Pure(t) /\ Wanted(i, t)
       \/ /\ inputs[i].given = Raw
          /\ \/ /\ inputs[i].ref \in SharedObjects \ PureVars
                /\ \E m \in BOOLEAN : /\ inputs'[i].value = Shared(m)
                                      /\ inputs[i].value.mut => m
             \/ inputs[i].ref \in (Objects \ SharedObjects) \ PureVars /\ inputs'[i].value = Owned

\* What answers may do to the inputs.
InputsMove ==
    /\ inputs' \in Inputs
    /\ DOMAIN inputs' = DOMAIN inputs
    /\ \A i \in DOMAIN inputs : Resolving(i)
    /\ transactions' = transactions

LEMMA MovedInputs ==
    ASSUME BaseInv, InputsMove
    PROVE  /\ Block' \in Blocks
           /\ AllUses' = AllUses
           /\ ArgumentsRefer'
           /\ \A i \in DOMAIN inputs' : ResolvedAsUsed(i)'
           /\ \A a \in AllUses : inputs'[a.input].given = inputs[a.input].given
<1>1. Block' \in Blocks
  BY DEF InputsMove, BaseInv, Shape, Block, Blocks
<1>2. AllUses' = AllUses
  BY DEF InputsMove, AllUses, UsesOf
<1>3. \A a \in AllUses : /\ a.input \in DOMAIN inputs'
                         /\ inputs'[a.input].ref = inputs[a.input].ref
                         /\ inputs'[a.input].given = inputs[a.input].given
  BY DEF BaseInv, ArgumentsRefer, InputsMove, Resolving
<1>4. ArgumentsRefer'
  BY <1>2, <1>3 DEF BaseInv, ArgumentsRefer
<1>6. \A i, w : Wanted(i, w)' <=> Wanted(i, w)
  BY <1>2 DEF Wanted
<1>7. ASSUME NEW i \in DOMAIN inputs' PROVE ResolvedAsUsed(i)'
  <2>1. i \in DOMAIN inputs /\ ResolvedAsUsed(i) /\ Resolving(i)
    BY DEF InputsMove, BaseInv
  <2>2. CASE inputs'[i] = inputs[i]
    BY <1>6, <2>1, <2>2 DEF ResolvedAsUsed
  <2>3. CASE /\ IsRaw(i)
             /\ \E t \in PureTypes : inputs'[i].value = Pure(t) /\ Wanted(i, t)
    <3>1. PICK t \in PureTypes : inputs'[i].value = Pure(t) /\ Wanted(i, t)
      BY <2>3
    <3>2. inputs[i].given = Raw
      BY <2>1, <2>3, ValueKinds DEF ResolvedAsUsed, IsRaw
    <3>3. inputs'[i].given = Raw
      BY <2>1, <3>2 DEF Resolving
    <3>4. QED
      BY <1>6, <3>1, <3>3 DEF ResolvedAsUsed
  <2>4. CASE /\ inputs[i].given = Raw
             /\ \/ /\ inputs[i].ref \in SharedObjects \ PureVars
                   /\ \E m \in BOOLEAN : inputs'[i].value = Shared(m)
                \/ inputs[i].ref \in (Objects \ SharedObjects) \ PureVars /\ inputs'[i].value = Owned
    BY <2>1, <2>4 DEF ResolvedAsUsed, Resolving
  <2>5. QED
    BY <2>1, <2>2, <2>3, <2>4 DEF Resolving
<1>8. QED
  BY <1>1, <1>2, <1>3, <1>4, <1>7

LEMMA BuildBecomes ==
    ASSUME Shape, NEW b \in Builds, NEW new \in BuildStates, build' = [build EXCEPT ![b] = new]
    PROVE  /\ build' \in [Builds -> BuildStates]
           /\ build'[b] = new
           /\ \A c \in Builds \ {b} : build'[c] = build[c]
<1>1. build \in [Builds -> BuildStates]
  BY DEF Shape
<1>2. QED
  BY <1>1

\* What a step that leaves these alone has to know of the build it changes.
LEMMA BuildStays ==
    ASSUME BaseInv, NEW b \in Builds
    PROVE  /\ build[b].calls \subseteq DOMAIN transactions
           /\ Pending(build[b].toResolve)
           /\ build[b].pc = "done" => ResolvedIn(build[b].bytes.block)
  BY DEF BaseInv, PendingRefer, InputsResolvedAsUsed, ResolvedIn, Done

\* A step of one build on inputs that move keeps the invariant.
LEMMA BuildMoves ==
    ASSUME BaseInv, InputsMove, NEW b \in Builds,
           gas' \in GasStates,
           NEW new \in BuildStates, build' = [build EXCEPT ![b] = new],
           new.calls \subseteq DOMAIN transactions,
           Pending(new.toResolve),
           new.pc = "done" => ResolvedIn(new.bytes.block)
    PROVE  BaseInv'
<1>0. /\ build' \in [Builds -> BuildStates]
      /\ build'[b] = new
      /\ \A c \in Builds \ {b} : build'[c] = build[c]
  BY BuildBecomes DEF BaseInv
<1>1. /\ Block' \in Blocks
      /\ ArgumentsRefer'
      /\ \A i \in DOMAIN inputs' : ResolvedAsUsed(i)'
      /\ AllUses' = AllUses
      /\ \A a \in AllUses : inputs'[a.input].given = inputs[a.input].given
  BY MovedInputs
<1>2. PendingRefer'
  <2> SUFFICES ASSUME NEW c \in Builds
               PROVE  /\ build'[c].calls \subseteq DOMAIN transactions'
                      /\ \A a \in build'[c].toResolve :
                            a \in AllUses' /\ ~IsPureWant(a.want) /\ inputs'[a.input].given = Raw
    BY DEF PendingRefer, Pending
  <2>1. build'[c].calls \subseteq DOMAIN transactions /\ Pending(build'[c].toResolve)
    BY <1>0, BuildStays
  <2>2. QED
    BY <1>1, <2>1 DEF InputsMove, Pending
<1>3. InputsResolvedAsUsed'
  <2> SUFFICES ASSUME NEW c \in Builds, Done(c)'
               PROVE  ResolvedIn(build'[c].bytes.block)
    BY DEF InputsResolvedAsUsed, ResolvedIn
  <2>1. CASE c = b
    BY <1>0, <2>1 DEF Done
  <2>2. CASE c # b
    BY <1>0, <2>2, BuildStays DEF Done
  <2>3. QED
    BY <2>1, <2>2
<1>4. QED
  BY <1>0, <1>1, <1>2, <1>3 DEF BaseInv, Shape, GasStates

\* A step that makes a build wait for less, and does not end it.
LEMMA BuildMovesOn ==
    ASSUME BaseInv, InputsMove, NEW b \in Builds,
           gas' \in GasStates,
           NEW new \in BuildStates, build' = [build EXCEPT ![b] = new],
           new.calls \subseteq build[b].calls,
           new.toResolve = build[b].toResolve,
           new.pc = "done" => build[b].pc = "done" /\ new.bytes = build[b].bytes
    PROVE  BaseInv'
<1>1. /\ new.calls \subseteq DOMAIN transactions
      /\ Pending(new.toResolve)
      /\ new.pc = "done" => ResolvedIn(new.bytes.block)
  BY BuildStays
<1>2. QED
  BY <1>1, BuildMoves

LEMMA StillMoves ==
    ASSUME BaseInv, UNCHANGED <<inputs, transactions>>
    PROVE  InputsMove
  BY Shapes DEF BaseInv, InputsMove, Resolving

LEMMA EncodeMoves ==
    ASSUME BaseInv, NEW walked, walked \subseteq ArgsOf(DOMAIN transactions),
           inputs' = Encode(walked), UNCHANGED transactions
    PROVE  InputsMove
  BY EncodeFacts DEF InputsMove, Resolving

LEMMA ResolveMoves ==
    ASSUME BaseInv, NEW uses, Pending(uses),
           inputs' = ResolveObjects(uses), UNCHANGED transactions
    PROVE  InputsMove
<1>1. ASSUME NEW i \in DOMAIN inputs PROVE Resolving(i)
  <2>1. inputs'[i].ref = inputs[i].ref /\ inputs'[i].given = inputs[i].given
    BY ResolveFacts
  <2>2. CASE ~ \E a \in uses : a.input = i
    <3>1. inputs'[i] = inputs[i]
      BY <2>2, ResolveFacts
    <3>2. QED
      BY <2>1, <3>1 DEF Resolving
  <2>3. CASE \E a \in uses : a.input = i
    <3>1. /\ inputs[i].given = Raw
          /\ MutableNow(i, uses) \in BOOLEAN
          /\ \/ /\ inputs[i].ref \in SharedObjects \ PureVars
                /\ inputs'[i].value = Shared(MutableNow(i, uses))
             \/ /\ inputs[i].ref \in (Objects \ SharedObjects) \ PureVars
                /\ inputs'[i].value = Owned
      BY <2>3, ResolveFacts
    <3>2. inputs[i].value.mut => MutableNow(i, uses)
      BY DEF MutableNow
    <3>3. QED
      BY <2>1, <3>1, <3>2 DEF Resolving
  <2>4. QED
    BY <2>2, <2>3
<1>2. QED
  BY <1>1, ResolveFacts DEF InputsMove

\* Nobody takes back what was resolved.
LEMMA MovesForward ==
    ASSUME BaseInv, InputsMove, NEW i \in DOMAIN inputs, ~IsRaw(i)
    PROVE  /\ inputs'[i].value.k = inputs[i].value.k
           /\ inputs'[i].value.enc = inputs[i].value.enc
           /\ inputs[i].value.mut => inputs'[i].value.mut
<1>1. Resolving(i) /\ ResolvedAsUsed(i)
  BY DEF InputsMove, BaseInv
<1>2. CASE inputs'[i] = inputs[i]
  BY <1>2
<1>3. CASE /\ inputs[i].given = Raw
           /\ \/ /\ inputs[i].ref \in SharedObjects \ PureVars
                 /\ \E m \in BOOLEAN : /\ inputs'[i].value = Shared(m)
                                       /\ inputs[i].value.mut => m
              \/ inputs[i].ref \in (Objects \ SharedObjects) \ PureVars /\ inputs'[i].value = Owned
  <2>1. inputs[i].ref \notin PureVars /\ inputs[i].value # inputs[i].given
    BY <1>3 DEF IsRaw
  <2>2. \A t \in PureTypes : ~Wanted(i, t)
    BY <2>1 DEF Wanted, BaseInv, ArgumentsRefer, IsPureWant
  <2>3. CASE inputs[i].ref \in SharedObjects
    <3>1. PICK m \in BOOLEAN : inputs'[i].value = Shared(m) /\ (inputs[i].value.mut => m)
      BY <1>3, <2>3
    <3>2. PICK m0 \in BOOLEAN : inputs[i].value = Shared(m0)
      BY <1>1, <2>1, <2>2, <2>3 DEF ResolvedAsUsed
    <3>3. Shared(m).k = Shared(m0).k /\ Shared(m).enc = Shared(m0).enc
      BY ValueKinds
    <3>4. Shared(m).mut = m
      BY ValueKinds
    <3>5. inputs[i].value.mut => inputs'[i].value.mut
      BY <3>1, <3>4, Zenon
    <3>6. QED
      BY <3>1, <3>2, <3>3, <3>5, Zenon
  <2>4. CASE inputs[i].ref \notin SharedObjects
    BY <1>1, <1>3, <2>1, <2>2, <2>4, ValueKinds DEF ResolvedAsUsed
  <2>5. QED
    BY <2>3, <2>4
<1>4. QED
  BY <1>1, <1>2, <1>3 DEF Resolving

\* The fields of a build.
LEMMA BuildShapes ==
    ASSUME Shape, NEW b \in Builds
    PROVE  /\ build \in [Builds -> BuildStates]
           /\ build[b].kindOnly \in BOOLEAN
           /\ build[b].price \in BOOLEAN
           /\ build[b].calls \subseteq Nat
           /\ build[b].toResolve \subseteq Arguments
           /\ build[b].dry \in Blocks
           /\ build[b].bytes \in [block : Blocks, payment : Seq(Objects), budget : Budgets]
           /\ build[b] = [pc |-> build[b].pc, kindOnly |-> build[b].kindOnly,
                          price |-> build[b].price, calls |-> build[b].calls,
                          toResolve |-> build[b].toResolve, tx |-> build[b].tx,
                          dry |-> build[b].dry, bytes |-> build[b].bytes]
<1>1. build[b] \in BuildStates
  BY DEF Shape
<1>2. QED
  BY <1>1 DEF Shape, BuildStates

LEMMA NoBlockShape ==
    /\ NoBlock \in Blocks /\ NoBudget \in Budgets /\ UserBudget \in Budgets
    /\ NoPayment \in Seq(Objects)
    /\ \A blk \in Blocks : DryRunOf(blk) \in Budgets
    /\ NoBytes \in [block : Blocks, payment : Seq(Objects), budget : Budgets]
    /\ Idle \in BuildStates
<1>1. NoBlock \in Blocks
  <2>1. <<>> \in Inputs
    BY DEF Inputs
  <2>2. <<>> \in Seq([kind : {"MoveCall", "Builtin"}, args : Seq(Arguments)])
    OBVIOUS
  <2>3. QED
    BY <2>1, <2>2 DEF NoBlock, Blocks
<1>2. NoBudget \in Budgets /\ UserBudget \in Budgets /\ \A blk \in Blocks : DryRunOf(blk) \in Budgets
  BY <1>1 DEF NoBudget, UserBudget, DryRunOf, Budgets
<1>3. NoPayment \in Seq(Objects)
  BY DEF NoPayment
<1>4. NoBytes \in [block : Blocks, payment : Seq(Objects), budget : Budgets]
  BY <1>1, <1>2, <1>3 DEF NoBytes
<1>5. Idle \in BuildStates
  BY <1>1, <1>4 DEF Idle, BuildStates
<1>6. QED
  BY <1>1, <1>2, <1>3, <1>4, <1>5

\* The uses noted while commands are walked are what a build may fetch.
LEMMA ObjectUsesPend ==
    ASSUME BaseInv, NEW js, js \subseteq DOMAIN transactions
    PROVE  Pending(ObjectUses(js)) /\ ObjectUses(js) \subseteq Arguments
<1>1. \A a \in AllUses : a \in Arguments
  BY Shapes DEF BaseInv, AllUses, UsesOf, ToSet
<1>2. ASSUME NEW a \in ObjectUses(js)
      PROVE  a \in AllUses /\ ~IsPureWant(a.want) /\ IsRaw(a.input)
  BY DEF ObjectUses, AllUses
<1>3. ASSUME NEW i \in DOMAIN inputs, IsRaw(i) PROVE inputs[i].given = Raw
  BY <1>3, ValueKinds DEF BaseInv, ResolvedAsUsed, IsRaw
<1>4. QED
  BY <1>1, <1>2, <1>3 DEF Pending, BaseInv, ArgumentsRefer

LEMMA BaseInit == Init => BaseInv
<1> SUFFICES ASSUME Init PROVE BaseInv
  OBVIOUS
<1>1. inputs = <<>> /\ transactions = <<>>
  BY DEF Init
<1>2. Block = NoBlock
  BY <1>1 DEF Block, NoBlock
<1>3. Shape
  BY <1>2, NoBlockShape DEF Init, Shape, GasStates
<1>4. AllUses = {} /\ DOMAIN inputs = {}
  BY <1>1 DEF AllUses
<1>5. PendingRefer /\ InputsResolvedAsUsed
  BY DEF Init, Idle, PendingRefer, Pending, InputsResolvedAsUsed, Done
<1>6. QED
  BY <1>3, <1>4, <1>5 DEF BaseInv, ArgumentsRefer

LEMMA BaseStarts ==
    ASSUME BaseInv, NEW b \in Builds, NEW kind \in BOOLEAN, Start(b, kind)
    PROVE  BaseInv'
<1> DEFINE new == [build[b] EXCEPT !.pc = "config", !.kindOnly = kind]
<1>1. Shape /\ build[b] \in BuildStates
  BY DEF BaseInv, Shape
<1>2. build' = [build EXCEPT ![b] = new]
  BY <1>1, BuildShapes DEF Start
<1>3. /\ new \in BuildStates
      /\ new.calls = build[b].calls /\ new.toResolve = build[b].toResolve /\ new.pc = "config"
  BY <1>1 DEF BuildStates
<1> HIDE DEF new
<1>4. InputsMove
  BY StillMoves DEF Start
<1>5. gas' \in GasStates
  BY <1>1 DEF Start, Shape
<1>6. QED
  BY <1>2, <1>3, <1>4, <1>5, BuildMovesOn

LEMMA BaseConfig ==
    ASSUME BaseInv, NEW b \in Builds, ConfigArrives(b)
    PROVE  BaseInv'
<1> DEFINE js    == DOMAIN transactions
           built == {j \in js : ~IsMoveCall(j)}
           calls == {j \in js : IsMoveCall(j) /\ NeedsResolution(j)}
           uses  == ObjectUses(built)
           price == ~(build[b].kindOnly \/ gas.price)
           tx    == TxStage(calls, uses)
           new   == [build[b] EXCEPT !.pc = "resolving", !.price = price, !.calls = calls,
                                     !.toResolve = uses, !.tx = tx]
<1>1. Shape /\ build[b] \in BuildStates
  BY DEF BaseInv, Shape
<1>2. calls \subseteq DOMAIN transactions /\ calls \in SUBSET Nat
  BY <1>1, Shapes
<1>3. Pending(uses) /\ uses \in SUBSET Arguments
  BY ObjectUsesPend
<1>4. InputsMove
  <2>1. ArgsOf(built) \subseteq ArgsOf(DOMAIN transactions)
    BY DEF ArgsOf
  <2>2. QED
    BY <2>1, EncodeMoves DEF ConfigArrives
<1>5. tx \in {"calls", "objects", "ready"} /\ price \in BOOLEAN
  BY DEF TxStage
<1>6. build' = [build EXCEPT ![b] = new]
  BY <1>1, BuildShapes DEF ConfigArrives
<1> HIDE DEF calls, uses, price, tx
<1>7. /\ new \in BuildStates
      /\ new.calls = calls /\ new.toResolve = uses /\ new.pc = "resolving"
  <2>1. calls \in SUBSET Nat /\ uses \in SUBSET Arguments
    BY <1>2, <1>3
  <2>2. QED
    BY <1>1, <1>5, <2>1 DEF BuildStates
<1> HIDE DEF new
<1>8. gas' \in GasStates
  BY <1>1 DEF ConfigArrives, Shape
<1>9. QED
  BY <1>2, <1>3, <1>4, <1>6, <1>7, <1>8, BuildMoves

LEMMA BasePrice ==
    ASSUME BaseInv, NEW b \in Builds, PriceArrives(b)
    PROVE  BaseInv'
<1> DEFINE new == [build[b] EXCEPT !.price = FALSE]
<1>1. Shape /\ build[b] \in BuildStates
  BY DEF BaseInv, Shape
<1>2. build' = [build EXCEPT ![b] = new]
  BY <1>1, BuildShapes DEF PriceArrives
<1>3. /\ new \in BuildStates
      /\ new.calls = build[b].calls /\ new.toResolve = build[b].toResolve
      /\ new.pc = build[b].pc /\ new.bytes = build[b].bytes
  BY <1>1 DEF BuildStates
<1> HIDE DEF new
<1>4. InputsMove
  BY StillMoves DEF PriceArrives
<1>5. gas' \in GasStates
  BY <1>1 DEF PriceArrives, Shape, GasStates
<1>6. QED
  BY <1>2, <1>3, <1>4, <1>5, BuildMovesOn

LEMMA BaseSignature ==
    ASSUME BaseInv, NEW b \in Builds, NEW j \in DOMAIN transactions, SignatureArrives(b, j)
    PROVE  BaseInv'
<1> DEFINE calls == build[b].calls \ {j}
           uses  == build[b].toResolve \cup ObjectUses({j})
           tx    == AfterSignature(b, calls, uses)
           new   == [build[b] EXCEPT !.calls = calls, !.toResolve = uses, !.tx = tx]
<1>1. Shape /\ build[b] \in BuildStates
  BY DEF BaseInv, Shape
<1>2. calls \subseteq DOMAIN transactions /\ calls \in SUBSET Nat
  BY <1>1, BuildStays, BuildShapes
<1>3. Pending(uses) /\ uses \in SUBSET Arguments
  <2>1. Pending(ObjectUses({j})) /\ ObjectUses({j}) \subseteq Arguments
    BY ObjectUsesPend
  <2>2. Pending(build[b].toResolve) /\ build[b].toResolve \subseteq Arguments
    BY <1>1, BuildStays, BuildShapes
  <2>3. QED
    BY <2>1, <2>2 DEF Pending
<1>4. tx \in {"aborted", "calls", "objects", "ready"}
  BY DEF AfterSignature, TxStage
<1>5. InputsMove
  <2>1. ArgsOf({j}) \subseteq ArgsOf(DOMAIN transactions)
    BY DEF ArgsOf
  <2>2. QED
    BY <2>1, EncodeMoves DEF SignatureArrives
<1>6. build' = [build EXCEPT ![b] = new]
  BY <1>1, BuildShapes DEF SignatureArrives
<1> HIDE DEF calls, uses, tx
<1>7. /\ new \in BuildStates
      /\ new.calls = calls /\ new.toResolve = uses
      /\ new.pc = build[b].pc /\ new.bytes = build[b].bytes
  <2>1. calls \in SUBSET Nat /\ uses \in SUBSET Arguments
    BY <1>2, <1>3
  <2>2. QED
    BY <1>1, <1>4, <2>1 DEF BuildStates
<1> HIDE DEF new
<1>8. gas' \in GasStates
  BY <1>1 DEF SignatureArrives, Shape
<1>9. new.pc = "done" => ResolvedIn(new.bytes.block)
  BY <1>7, BuildStays
<1>10. QED
  BY <1>2, <1>3, <1>5, <1>6, <1>7, <1>8, <1>9, BuildMoves

\* A failed build is not done.
LEMMA FailedPc ==
    ASSUME NEW b \in Builds
    PROVE  Failed(b) \in {"failed", build[b].pc}
  BY DEF Failed

LEMMA BaseSignatureFails ==
    ASSUME BaseInv, NEW b \in Builds, NEW j \in DOMAIN transactions, SignatureFails(b, j)
    PROVE  BaseInv'
<1> DEFINE calls == build[b].calls \ {j}
           pc    == Failed(b)
           new   == [build[b] EXCEPT !.calls = calls, !.tx = "aborted", !.pc = pc]
<1>1. Shape /\ build[b] \in BuildStates
  BY DEF BaseInv, Shape
<1>2. InputsMove
  <2>1. PICK n \in 0 .. Len(transactions[j].args) - 1 : inputs' = Encode({j} \X (1 .. n))
    BY DEF SignatureFails
  <2>2. Len(transactions[j].args) \in Nat /\ DOMAIN transactions[j].args = 1 .. Len(transactions[j].args)
    BY <1>1, Shapes
  <2>3. 1 .. n \subseteq DOMAIN transactions[j].args
    BY <2>1, <2>2
  <2>4. {j} \X (1 .. n) \subseteq ArgsOf(DOMAIN transactions)
    BY <2>3 DEF ArgsOf
  <2>5. QED
    BY <2>1, <2>4, EncodeMoves DEF SignatureFails
<1>3. build' = [build EXCEPT ![b] = new]
  BY <1>1, BuildShapes DEF SignatureFails
<1>4. calls \in SUBSET Nat /\ calls \subseteq build[b].calls /\ pc \in {"failed", build[b].pc}
  BY <1>1, BuildShapes, FailedPc
<1> HIDE DEF calls, pc
<1>5. /\ new \in BuildStates
      /\ new.calls \subseteq build[b].calls /\ new.toResolve = build[b].toResolve
      /\ new.pc = pc /\ new.bytes = build[b].bytes
  BY <1>1, <1>4 DEF BuildStates
<1> HIDE DEF new
<1>6. gas' \in GasStates
  BY <1>1 DEF SignatureFails, Shape
<1>7. QED
  BY <1>2, <1>3, <1>4, <1>5, <1>6, BuildMovesOn

LEMMA BaseObjects ==
    ASSUME BaseInv, NEW b \in Builds, ObjectsArrive(b)
    PROVE  BaseInv'
<1>1. Shape /\ build[b] \in BuildStates /\ Pending(build[b].toResolve)
  BY BuildStays DEF BaseInv, Shape
<1>2. gas' \in GasStates
  BY <1>1 DEF ObjectsArrive, Shape
<1>3. CASE \E a \in build[b].toResolve : inputs[a.input].ref \in MissingObjects
  <2> DEFINE pc  == Failed(b)
             new == [build[b] EXCEPT !.tx = "aborted", !.pc = pc]
  <2>1. build' = [build EXCEPT ![b] = new]
    BY <1>1, <1>3, BuildShapes DEF ObjectsArrive
  <2>2. pc \in {"failed", build[b].pc}
    BY FailedPc
  <2> HIDE DEF pc
  <2>3. /\ new \in BuildStates
        /\ new.calls = build[b].calls /\ new.toResolve = build[b].toResolve
        /\ new.pc = pc /\ new.bytes = build[b].bytes
    BY <1>1, <2>2 DEF BuildStates
  <2> HIDE DEF new
  <2>4. InputsMove
    BY <1>3, StillMoves DEF ObjectsArrive
  <2>5. QED
    BY <1>2, <2>1, <2>2, <2>3, <2>4, BuildMovesOn
<1>4. CASE ~ \E a \in build[b].toResolve : inputs[a.input].ref \in MissingObjects
  <2> DEFINE new == [build[b] EXCEPT !.tx = "ready"]
  <2>1. build' = [build EXCEPT ![b] = new]
    BY <1>1, <1>4, BuildShapes DEF ObjectsArrive
  <2>2. /\ new \in BuildStates
        /\ new.calls = build[b].calls /\ new.toResolve = build[b].toResolve
        /\ new.pc = build[b].pc /\ new.bytes = build[b].bytes
    BY <1>1 DEF BuildStates
  <2> HIDE DEF new
  <2>3. InputsMove
    BY <1>1, <1>4, ResolveMoves DEF ObjectsArrive
  <2>4. QED
    BY <1>2, <2>1, <2>2, <2>3, BuildMovesOn
<1>5. QED
  BY <1>3, <1>4

\* The coins a build picks are coins of the owner that are not owned inputs.
LEMMA SelectedCoins ==
    /\ SelectCoins \in Seq(Objects)
    /\ \A o \in ToSet(SelectCoins) : \E n \in FreeCoins : o = Coins[n]
<1> DEFINE coin(k) == Coins[Nth(FreeCoins, k)]
<1>1. /\ Coins \in Seq(Objects \ SharedObjects)
      /\ MaxGasObjects \in Nat \ {0}
  BY ObjectsAssumption
<1>2. /\ Len(Coins) \in Nat /\ DOMAIN Coins = 1 .. Len(Coins)
      /\ \A n \in DOMAIN Coins : Coins[n] \in Objects
  BY <1>1
<1>3. FreeCoins \subseteq DOMAIN Coins /\ FreeCoins \subseteq Nat /\ IsFiniteSet(FreeCoins)
  <2>1. FreeCoins \subseteq DOMAIN Coins
    BY DEF FreeCoins
  <2>2. IsFiniteSet(1 .. Len(Coins))
    BY <1>2, FS_Interval
  <2>3. QED
    BY <1>2, <2>1, <2>2, FS_Subset
<1>4. /\ Cardinality(FreeCoins) \in Nat
      /\ \A k \in 1 .. Cardinality(FreeCoins) : Nth(FreeCoins, k) \in FreeCoins
  BY <1>3, NthLists
<1>5. CoinsTaken \in Nat /\ 1 .. CoinsTaken \subseteq 1 .. Cardinality(FreeCoins)
  BY <1>1, <1>4 DEF CoinsTaken
<1>6. \A k \in 1 .. CoinsTaken : coin(k) \in Objects /\ Nth(FreeCoins, k) \in FreeCoins
  BY <1>2, <1>3, <1>4, <1>5
<1>7. SelectCoins = [k \in 1 .. CoinsTaken |-> coin(k)]
  BY DEF SelectCoins
<1>8. \A o \in ToSet(SelectCoins) : \E n \in FreeCoins : o = Coins[n]
  BY <1>6, <1>7 DEF ToSet
<1> HIDE DEF coin
<1>9. SelectCoins \in Seq(Objects)
  BY <1>5, <1>6, <1>7
<1>10. QED
  BY <1>8, <1>9

LEMMA BasePayment ==
    ASSUME BaseInv, NEW b \in Builds, PrepareGasPayment(b)
    PROVE  BaseInv'
<1> DEFINE pc  == IF build[b].kindOnly THEN "finish"
                  ELSE IF Len(gas.payment) > MaxGasObjects THEN "failed"
                  ELSE IF gas.payment # NoPayment THEN "budget" ELSE "payment"
           new == [build[b] EXCEPT !.pc = pc]
<1>1. Shape /\ build[b] \in BuildStates
  BY DEF BaseInv, Shape
<1>2. build' = [build EXCEPT ![b] = new]
  BY <1>1, BuildShapes DEF PrepareGasPayment
<1>3. pc \in {"finish", "failed", "budget", "payment"}
  OBVIOUS
<1> HIDE DEF pc
<1>4. /\ new \in BuildStates
      /\ new.calls = build[b].calls /\ new.toResolve = build[b].toResolve /\ new.pc # "done"
  BY <1>1, <1>3 DEF BuildStates
<1> HIDE DEF new
<1>5. InputsMove /\ gas' \in GasStates
  BY <1>1, StillMoves DEF PrepareGasPayment, Shape
<1>6. QED
  BY <1>2, <1>4, <1>5, BuildMovesOn

LEMMA BaseCoins ==
    ASSUME BaseInv, NEW b \in Builds, CoinsArrive(b)
    PROVE  BaseInv'
<1> DEFINE pc  == IF SelectCoins = <<>> THEN "failed" ELSE "budget"
           new == [build[b] EXCEPT !.pc = pc]
<1>1. Shape /\ build[b] \in BuildStates
  BY DEF BaseInv, Shape
<1>2. build' = [build EXCEPT ![b] = new]
  BY <1>1, BuildShapes DEF CoinsArrive
<1>3. pc \in {"failed", "budget"}
  OBVIOUS
<1> HIDE DEF pc
<1>4. /\ new \in BuildStates
      /\ new.calls = build[b].calls /\ new.toResolve = build[b].toResolve /\ new.pc # "done"
  BY <1>1, <1>3 DEF BuildStates
<1> HIDE DEF new
<1>5. InputsMove
  BY StillMoves DEF CoinsArrive
<1>6. gas' \in GasStates
  <2>1. gas \in GasStates /\ SelectCoins \in Seq(Objects)
    BY <1>1, SelectedCoins DEF Shape
  <2>2. gas' = gas \/ gas' = [gas EXCEPT !.payment = SelectCoins]
    BY DEF CoinsArrive
  <2>3. QED
    BY <2>1, <2>2 DEF GasStates
<1>7. QED
  BY <1>2, <1>4, <1>5, <1>6, BuildMovesOn

LEMMA BaseBudget ==
    ASSUME BaseInv, NEW b \in Builds, PrepareBudget(b)
    PROVE  BaseInv'
<1> DEFINE pc  == IF gas.budget # NoBudget THEN "finish"
                  ELSE IF AllResolved THEN "dryrun" ELSE "failed"
           dry == IF gas.budget = NoBudget /\ AllResolved THEN Block ELSE build[b].dry
           new == [build[b] EXCEPT !.pc = pc, !.dry = dry]
<1>1. Shape /\ build[b] \in BuildStates
  BY DEF BaseInv, Shape
<1>2. build' = [build EXCEPT ![b] = new]
  BY <1>1, BuildShapes DEF PrepareBudget
<1>3. pc \in {"finish", "dryrun", "failed"} /\ dry \in Blocks
  BY <1>1, BuildShapes DEF Shape
<1> HIDE DEF pc, dry
<1>4. /\ new \in BuildStates
      /\ new.calls = build[b].calls /\ new.toResolve = build[b].toResolve /\ new.pc # "done"
  BY <1>1, <1>3 DEF BuildStates
<1> HIDE DEF new
<1>5. InputsMove /\ gas' \in GasStates
  BY <1>1, StillMoves DEF PrepareBudget, Shape
<1>6. QED
  BY <1>2, <1>4, <1>5, BuildMovesOn

LEMMA BaseDryRun ==
    ASSUME BaseInv, NEW b \in Builds, DryRunArrives(b)
    PROVE  BaseInv'
<1> DEFINE new == [build[b] EXCEPT !.pc = "finish"]
<1>1. Shape /\ build[b] \in BuildStates
  BY DEF BaseInv, Shape
<1>2. build' = [build EXCEPT ![b] = new]
  BY <1>1, BuildShapes DEF DryRunArrives
<1>3. /\ new \in BuildStates
      /\ new.calls = build[b].calls /\ new.toResolve = build[b].toResolve /\ new.pc # "done"
  BY <1>1 DEF BuildStates
<1> HIDE DEF new
<1>4. InputsMove
  BY StillMoves DEF DryRunArrives
<1>5. gas' \in GasStates
  <2>1. gas \in GasStates /\ DryRunOf(build[b].dry) \in Budgets
    BY <1>1, BuildShapes, NoBlockShape DEF Shape
  <2>2. gas' = [gas EXCEPT !.budget = DryRunOf(build[b].dry)]
    BY DEF DryRunArrives
  <2>3. QED
    BY <2>1, <2>2 DEF GasStates
<1>6. QED
  BY <1>2, <1>3, <1>4, <1>5, BuildMovesOn

\* What the commands of the block as it is want is what the arguments want.
LEMMA WantedOfBlock ==
    ASSUME NEW i, NEW w
    PROVE  w \in WantedOf(Block, i) <=> Wanted(i, w)
<1>1. Block.transactions = transactions
  BY DEF Block
<1>2. AllUses = UNION {ToSet(transactions[j].args) : j \in DOMAIN transactions}
  BY DEF AllUses, UsesOf
<1> DEFINE uses == UNION {ToSet(transactions[j].args) : j \in DOMAIN transactions}
<1>3. WantedOf(Block, i) = {a.want : a \in {x \in uses : x.input = i}}
  BY <1>1 DEF WantedOf
<1> HIDE DEF uses
<1>4. QED
  BY <1>2, <1>3 DEF Wanted, uses

LEMMA ResolvedBlock ==
    ASSUME BaseInv, AllResolved
    PROVE  ResolvedIn(Block)
<1>1. Block.inputs = inputs
  BY DEF Block
<1>2. ASSUME NEW i \in DOMAIN inputs
      PROVE  IF inputs[i].given # Raw THEN inputs[i].value = inputs[i].given
             ELSE \/ inputs[i].value.k = "pure" /\ inputs[i].value.enc \in WantedOf(Block, i)
                  \/ inputs[i].value.k = "shared" /\ inputs[i].ref \in SharedObjects
                  \/ inputs[i].value = Owned /\ inputs[i].ref \in Objects \ SharedObjects
  <2>1. ResolvedAsUsed(i) /\ inputs[i].value # Raw
    BY DEF BaseInv, AllResolved, IsRaw
  <2>2. CASE inputs[i].given # Raw
    BY <2>1, <2>2 DEF ResolvedAsUsed
  <2>3. CASE inputs[i].given = Raw
    <3>1. CASE \E t \in PureTypes : inputs[i].value = Pure(t) /\ Wanted(i, t)
      <4>1. PICK t \in PureTypes : inputs[i].value = Pure(t) /\ Wanted(i, t)
        BY <3>1
      <4>2. inputs[i].value.k = "pure" /\ inputs[i].value.enc = t
        BY <4>1, ValueKinds
      <4>3. t \in WantedOf(Block, i)
        BY <4>1, WantedOfBlock
      <4>4. QED
        BY <2>3, <4>2, <4>3
    <3>2. CASE inputs[i].ref \in SharedObjects \ PureVars /\ \E m \in BOOLEAN : inputs[i].value = Shared(m)
      <4>1. inputs[i].value.k = "shared"
        BY <3>2, ValueKinds
      <4>2. QED
        BY <2>3, <3>2, <4>1
    <3>3. CASE inputs[i].ref \in (Objects \ SharedObjects) \ PureVars /\ inputs[i].value = Owned
      BY <2>3, <3>3
    <3>4. QED
      BY <2>1, <2>3, <3>1, <3>2, <3>3 DEF ResolvedAsUsed
  <2>4. QED
    BY <2>2, <2>3
<1>3. QED
  BY <1>1, <1>2 DEF ResolvedIn

LEMMA BaseFinish ==
    ASSUME BaseInv, NEW b \in Builds, Finish(b)
    PROVE  BaseInv'
<1> DEFINE pc     == IF AllResolved THEN "done" ELSE "failed"
           full   == [block   |-> Block,
                      payment |-> IF build[b].kindOnly THEN NoPayment ELSE gas.payment,
                      budget  |-> IF build[b].kindOnly THEN NoBudget ELSE gas.budget]
           bytes  == IF ~AllResolved THEN NoBytes ELSE full
           new    == [build[b] EXCEPT !.pc = pc, !.bytes = bytes]
           ByteStates == [block : Blocks, payment : Seq(Objects), budget : Budgets]
<1>1. Shape /\ build[b] \in BuildStates
  BY DEF BaseInv, Shape
<1>2. build' = [build EXCEPT ![b] = new]
  BY <1>1, BuildShapes DEF Finish
<1>3. full \in ByteStates
  <2>1. gas \in GasStates /\ Block \in Blocks
    BY <1>1 DEF Shape
  <2>2. gas.payment \in Seq(Objects) /\ gas.budget \in Budgets
    BY <2>1 DEF GasStates
  <2>3. QED
    BY <2>1, <2>2, NoBlockShape
<1>4. bytes \in ByteStates
  BY <1>3, NoBlockShape
<1>5. pc \in {"done", "failed"}
  OBVIOUS
<1>6. pc = "done" => AllResolved /\ bytes.block = Block
  OBVIOUS
<1> HIDE DEF pc, bytes, full
<1>7. /\ new \in BuildStates
      /\ new.calls = build[b].calls /\ new.toResolve = build[b].toResolve
      /\ new.pc = pc /\ new.bytes = bytes
  BY <1>1, <1>4, <1>5 DEF BuildStates
<1> HIDE DEF new
<1>8. InputsMove /\ gas' \in GasStates
  BY <1>1, StillMoves DEF Finish, Shape
<1>9. new.pc = "done" => ResolvedIn(new.bytes.block)
  BY <1>6, <1>7, ResolvedBlock
<1>10. new.calls \subseteq DOMAIN transactions /\ Pending(new.toResolve)
  BY <1>7, BuildStays
<1>11. QED
  BY <1>2, <1>7, <1>8, <1>9, <1>10, BuildMoves

LEMMA BaseRpcFails ==
    ASSUME BaseInv, NEW b \in Builds, RpcFails(b)
    PROVE  BaseInv'
<1> DEFINE pc  == Failed(b)
           priceFails   == [build[b] EXCEPT !.price = FALSE, !.pc = pc]
           objectsFail  == [build[b] EXCEPT !.tx = "aborted", !.pc = pc]
           requestFails == [build[b] EXCEPT !.pc = "failed"]
<1>1. Shape /\ build[b] \in BuildStates
  BY DEF BaseInv, Shape
<1>2. PICK new \in {priceFails, objectsFail, requestFails} : build' = [build EXCEPT ![b] = new]
  BY <1>1, BuildShapes DEF RpcFails
<1>3. pc \in {"failed", build[b].pc}
  BY FailedPc
<1> HIDE DEF pc
<1>4. /\ new \in BuildStates
      /\ new.calls = build[b].calls /\ new.toResolve = build[b].toResolve
      /\ new.pc \in {"failed", build[b].pc} /\ new.bytes = build[b].bytes
  <2>1. CASE new = priceFails
    BY <1>1, <1>3, <2>1 DEF BuildStates
  <2>2. CASE new = objectsFail
    BY <1>1, <1>3, <2>2 DEF BuildStates
  <2>3. CASE new = requestFails
    BY <1>1, <2>3 DEF BuildStates
  <2>4. QED
    BY <1>2, <2>1, <2>2, <2>3
<1>5. InputsMove /\ gas' \in GasStates
  BY <1>1, StillMoves DEF RpcFails, Shape
<1>6. QED
  BY <1>2, <1>4, <1>5, BuildMovesOn

\* A command only adds: inputs, and arguments that refer to what is there.
LEMMA CommandAdds ==
    ASSUME BaseInv, NEW c \in Commands, AddCommand(c)
    PROVE  /\ Block' \in Blocks
           /\ \A i \in DOMAIN inputs : i \in DOMAIN inputs' /\ inputs'[i] = inputs[i]
           /\ \A i \in DOMAIN inputs' \ DOMAIN inputs : inputs'[i].value = inputs'[i].given
           /\ AllUses \subseteq AllUses'
           /\ DOMAIN transactions \subseteq DOMAIN transactions'
           /\ ArgumentsRefer'
<1> DEFINE ins  == InputsWith(c.uses)
           args == [n \in DOMAIN c.uses |-> Argument(ins, c.uses[n])]
           cmd  == [kind |-> c.kind, args |-> args]
           Cmds == [kind : {"MoveCall", "Builtin"}, args : Seq(Arguments)]
<1>1. /\ inputs' = ins
      /\ transactions' = Append(transactions, cmd)
  BY DEF AddCommand
<1>2. /\ ins \in Inputs
      /\ \A i \in DOMAIN inputs : i \in DOMAIN ins /\ ins[i] = inputs[i]
      /\ \A i \in DOMAIN ins \ DOMAIN inputs : ins[i].value = ins[i].given
  BY AddFacts DEF BaseInv
<1>3. \A n \in DOMAIN c.uses :
        /\ args[n] \in Arguments
        /\ args[n].input \in DOMAIN ins
        /\ IsPureWant(args[n].want) <=> ins[args[n].input].ref \in PureVars
  BY AddFacts DEF BaseInv
<1>4. c.uses \in Seq(Uses) /\ c.kind \in {"MoveCall", "Builtin"}
  BY CommandsAssumption
<1>5. args \in Seq(Arguments) /\ DOMAIN args = DOMAIN c.uses
  <2>1. Len(c.uses) \in Nat /\ DOMAIN c.uses = 1 .. Len(c.uses)
    BY <1>4
  <2>2. DOMAIN args = DOMAIN c.uses
    OBVIOUS
  <2>3. args = [n \in 1 .. Len(c.uses) |-> args[n]]
    BY <2>1
  <2> HIDE DEF args
  <2>4. QED
    BY <1>3, <2>1, <2>2, <2>3
<1>6. cmd \in Cmds /\ cmd.args = args
  BY <1>4, <1>5
<1>7. transactions \in Seq(Cmds)
  BY DEF BaseInv, Shape, Block, Blocks
<1> HIDE DEF ins, args, cmd, Cmds
<1>8. /\ transactions' \in Seq(Cmds)
      /\ DOMAIN transactions = 1 .. Len(transactions) /\ Len(transactions) \in Nat
      /\ DOMAIN transactions' = 1 .. Len(transactions) + 1
      /\ transactions'[Len(transactions) + 1] = cmd
      /\ \A j \in DOMAIN transactions : transactions'[j] = transactions[j]
  BY <1>1, <1>6, <1>7
<1>9. Block' \in Blocks
  BY <1>1, <1>2, <1>8 DEF Block, Blocks, Cmds
<1>10. AllUses \subseteq AllUses'
  BY <1>8 DEF AllUses, UsesOf
<1>11. ASSUME NEW a \in AllUses'
       PROVE  a \in AllUses \/ \E n \in DOMAIN args : a = args[n]
  <2>1. PICK j \in DOMAIN transactions' : a \in ToSet(transactions'[j].args)
    BY DEF AllUses, UsesOf
  <2>2. CASE j \in DOMAIN transactions
    BY <1>8, <2>1, <2>2 DEF AllUses, UsesOf
  <2>3. CASE j \notin DOMAIN transactions
    <3>1. j = Len(transactions) + 1
      BY <1>8, <2>1, <2>3
    <3>2. a \in ToSet(args)
      BY <1>6, <1>8, <2>1, <3>1
    <3>3. QED
      BY <3>2 DEF ToSet
  <2>4. QED
    BY <2>2, <2>3
<1>12. ArgumentsRefer'
  <2> SUFFICES ASSUME NEW a \in AllUses'
               PROVE  /\ a.input \in DOMAIN inputs'
                      /\ a.want \in Wants
                      /\ IsPureWant(a.want) <=> inputs'[a.input].ref \in PureVars
    BY DEF ArgumentsRefer
  <2>1. CASE a \in AllUses
    BY <1>1, <1>2, <2>1 DEF BaseInv, ArgumentsRefer
  <2>2. CASE \E n \in DOMAIN args : a = args[n]
    BY <1>1, <1>3, <1>5, <2>2 DEF Arguments
  <2>3. QED
    BY <1>11, <2>1, <2>2
<1>13. QED
  BY <1>1, <1>2, <1>8, <1>9, <1>10, <1>12

LEMMA BaseCommand ==
    ASSUME BaseInv, NEW c \in Commands, AddCommand(c)
    PROVE  BaseInv'
<1>1. /\ Block' \in Blocks
      /\ \A i \in DOMAIN inputs : i \in DOMAIN inputs' /\ inputs'[i] = inputs[i]
      /\ \A i \in DOMAIN inputs' \ DOMAIN inputs : inputs'[i].value = inputs'[i].given
      /\ AllUses \subseteq AllUses'
      /\ DOMAIN transactions \subseteq DOMAIN transactions'
      /\ ArgumentsRefer'
  BY CommandAdds
<1>2. gas' = gas /\ build' = build
  BY DEF AddCommand
<1>3. Shape'
  BY <1>1, <1>2 DEF BaseInv, Shape
<1>4. PendingRefer'
  BY <1>1, <1>2 DEF BaseInv, PendingRefer, Pending, ArgumentsRefer
<1>5. ASSUME NEW i \in DOMAIN inputs' PROVE ResolvedAsUsed(i)'
  <2>1. CASE i \in DOMAIN inputs
    <3>1. \A w : Wanted(i, w) => Wanted(i, w)'
      BY <1>1 DEF Wanted
    <3>2. ResolvedAsUsed(i) /\ inputs'[i] = inputs[i]
      BY <1>1, <2>1 DEF BaseInv
    <3>3. QED
      BY <3>1, <3>2 DEF ResolvedAsUsed
  <2>2. CASE i \notin DOMAIN inputs
    BY <1>1, <2>2 DEF ResolvedAsUsed
  <2>3. QED
    BY <2>1, <2>2
<1>6. InputsResolvedAsUsed'
  BY <1>2 DEF BaseInv, InputsResolvedAsUsed, Done
<1>7. QED
  BY <1>1, <1>3, <1>4, <1>5, <1>6 DEF BaseInv

LEMMA BaseGasEdits ==
    ASSUME BaseInv, SetGasPayment \/ SetGasBudget \/ SetGasPrice
    PROVE  BaseInv'
<1>1. UNCHANGED <<inputs, transactions, build>> /\ gas \in GasStates
  BY DEF SetGasPayment, SetGasBudget, SetGasPrice, BaseInv, Shape
<1>2. UserPayment \in Seq(Objects) /\ UserBudget \in Budgets
  BY ObjectsAssumption, NoBlockShape
<1>3. gas' \in GasStates
  BY <1>1, <1>2 DEF SetGasPayment, SetGasBudget, SetGasPrice, GasStates
<1>4. Shape'
  BY <1>1, <1>3 DEF BaseInv, Shape, Block
<1>5. AllUses' = AllUses
  BY <1>1 DEF AllUses, UsesOf
<1>6. ArgumentsRefer' /\ PendingRefer'
  BY <1>1, <1>5 DEF BaseInv, ArgumentsRefer, PendingRefer, Pending
<1>7. \A i \in DOMAIN inputs' : ResolvedAsUsed(i)'
  BY <1>1, <1>5 DEF BaseInv, ResolvedAsUsed, Wanted
<1>8. InputsResolvedAsUsed'
  BY <1>1 DEF BaseInv, InputsResolvedAsUsed, Done
<1>9. QED
  BY <1>4, <1>6, <1>7, <1>8 DEF BaseInv

LEMMA BaseStep ==
    ASSUME BaseInv, [Next]_vars
    PROVE  BaseInv'
<1>1. CASE Edit
  BY <1>1, BaseCommand, BaseGasEdits DEF Edit
<1>2. CASE \E b \in Builds, kind \in BOOLEAN : Start(b, kind)
  BY <1>2, BaseStarts
<1>3. ASSUME NEW b \in Builds, Step(b) PROVE BaseInv'
  BY <1>3, BaseConfig, BasePrice, BaseSignature, BaseObjects, BasePayment, BaseCoins,
     BaseBudget, BaseDryRun, BaseFinish DEF Step
<1>4. CASE \E b \in Builds, j \in DOMAIN transactions : SignatureFails(b, j)
  BY <1>4, BaseSignatureFails
<1>5. CASE \E b \in Builds : RpcFails(b)
  BY <1>5, BaseRpcFails
<1>6. CASE UNCHANGED vars
  BY <1>6 DEF vars, BaseInv, Shape, Block, ArgumentsRefer, AllUses, UsesOf, PendingRefer, Pending,
              ResolvedAsUsed, Wanted, InputsResolvedAsUsed, Done
<1>7. QED
  BY <1>1, <1>2, <1>3, <1>4, <1>5, <1>6 DEF Next

\* The invariant of the block whatever is edited between builds: arguments and
\* pending resolutions refer to inputs of their kind, and every input is what
\* it was given as or what some use wants (TransactionBlock.ts, #blockData).
THEOREM BaseInvHolds == Spec => []BaseInv
<1>1. Init => BaseInv
  BY BaseInit
<1>2. BaseInv /\ [Next]_vars => BaseInv'
  BY BaseStep
<1>3. QED
  BY <1>1, <1>2, PTL DEF Spec

\* The block and the builds keep their declared shape, and no argument of a
\* command and no pending resolution refers to an input that does not exist,
\* whatever is edited between builds and whichever calls fail.
THEOREM SpecTypeOK == Spec => []TypeOK
<1>1. ASSUME BaseInv PROVE TypeOK
  <2>1. Shape /\ ArgumentsRefer
    BY <1>1 DEF BaseInv
  <2>2. inputs \in Inputs
    BY <2>1, Shapes
  <2>3. /\ gas.price \in BOOLEAN
        /\ gas.payment \in Seq(Objects)
        /\ gas.budget.from \in {"nobody", "user", "dryrun"}
    BY <2>1 DEF Shape, GasStates, Budgets
  <2>4. ASSUME NEW j \in DOMAIN transactions
        PROVE  /\ transactions[j].kind \in {"MoveCall", "Builtin"}
               /\ \A a \in UsesOf(j) : a.input \in DOMAIN inputs /\ a.want \in Wants
    <3>1. transactions[j].kind \in {"MoveCall", "Builtin"}
      BY <2>1, Shapes
    <3>2. UsesOf(j) \subseteq AllUses
      BY DEF AllUses
    <3>3. QED
      BY <2>1, <3>1, <3>2 DEF ArgumentsRefer
  <2>5. ASSUME NEW b \in Builds
        PROVE  /\ build[b].calls \subseteq DOMAIN transactions
               /\ \A a \in build[b].toResolve : a.input \in DOMAIN inputs
               /\ build[b].pc \in {"idle", "config", "resolving", "payment", "budget", "dryrun",
                                   "finish", "done", "failed"}
               /\ build[b].tx \in {"none", "calls", "objects", "ready", "aborted"}
    <3>1. build[b] \in BuildStates
      BY <2>1 DEF Shape
    <3>2. /\ build[b].pc \in {"idle", "config", "resolving", "payment", "budget", "dryrun",
                              "finish", "done", "failed"}
          /\ build[b].tx \in {"none", "calls", "objects", "ready", "aborted"}
      BY <3>1 DEF BuildStates
    <3>3. /\ build[b].calls \subseteq DOMAIN transactions
          /\ \A a \in build[b].toResolve : a \in AllUses
      BY <1>1, BuildStays DEF Pending
    <3>4. QED
      BY <2>1, <3>2, <3>3 DEF ArgumentsRefer
  <2>6. QED
    BY <2>2, <2>3, <2>4, <2>5 DEF TypeOK
<1>2. QED
  BY <1>1, BaseInvHolds, PTL

\* Every input of the bytes of a finished build is what it was given as, or is
\* resolved the way some use of it wants and the ownership of its object
\* allows: in whatever order answers arrive, whatever other builds do or fail
\* at, and whatever users edit in between.
THEOREM SpecInputsResolvedAsUsed == Spec => []InputsResolvedAsUsed
<1>1. BaseInv => InputsResolvedAsUsed
  BY DEF BaseInv
<1>2. QED
  BY <1>1, BaseInvHolds, PTL

\* What a step does to the inputs: an answer moves them forward, a command adds.
LEMMA NextMoves ==
    ASSUME BaseInv, [Next]_vars
    PROVE  InputsMove \/ \E c \in Commands : AddCommand(c)
<1>1. CASE UNCHANGED <<inputs, transactions>>
  BY <1>1, StillMoves
<1>2. ASSUME NEW b \in Builds, Step(b) PROVE InputsMove
  <2>1. CASE ConfigArrives(b)
    <3> DEFINE built == {j \in DOMAIN transactions : ~IsMoveCall(j)}
    <3>1. inputs' = Encode(ArgsOf(built)) /\ UNCHANGED transactions
      BY <2>1 DEF ConfigArrives
    <3>2. ArgsOf(built) \subseteq ArgsOf(DOMAIN transactions)
      BY DEF ArgsOf
    <3>3. QED
      BY <3>1, <3>2, EncodeMoves
  <2>2. CASE \E j \in DOMAIN transactions : SignatureArrives(b, j)
    <3>1. PICK j \in DOMAIN transactions : SignatureArrives(b, j)
      BY <2>2
    <3>2. ArgsOf({j}) \subseteq ArgsOf(DOMAIN transactions)
      BY DEF ArgsOf
    <3>3. QED
      BY <3>1, <3>2, EncodeMoves DEF SignatureArrives
  <2>3. CASE ObjectsArrive(b)
    BY <2>3, StillMoves, BuildStays, ResolveMoves DEF ObjectsArrive
  <2>4. CASE \/ PriceArrives(b) \/ PrepareGasPayment(b) \/ CoinsArrive(b)
             \/ PrepareBudget(b) \/ DryRunArrives(b) \/ Finish(b)
    BY <2>4, StillMoves DEF PriceArrives, PrepareGasPayment, CoinsArrive, PrepareBudget,
                            DryRunArrives, Finish
  <2>5. QED
    BY <1>2, <2>1, <2>2, <2>3, <2>4 DEF Step
<1>3. ASSUME NEW b \in Builds, NEW j \in DOMAIN transactions, SignatureFails(b, j)
      PROVE  InputsMove
  <2>1. PICK n \in 0 .. Len(transactions[j].args) - 1 : inputs' = Encode({j} \X (1 .. n))
    BY <1>3 DEF SignatureFails
  <2>2. Len(transactions[j].args) \in Nat /\ DOMAIN transactions[j].args = 1 .. Len(transactions[j].args)
    BY Shapes DEF BaseInv
  <2>3. 1 .. n \subseteq DOMAIN transactions[j].args
    BY <2>1, <2>2
  <2>4. {j} \X (1 .. n) \subseteq ArgsOf(DOMAIN transactions)
    BY <2>3 DEF ArgsOf
  <2>5. QED
    BY <1>3, <2>1, <2>4, EncodeMoves DEF SignatureFails
<1>4. CASE Edit
  BY <1>1, <1>4 DEF Edit, SetGasPayment, SetGasBudget, SetGasPrice
<1>5. CASE \E b \in Builds, kind \in BOOLEAN : Start(b, kind)
  BY <1>1, <1>5 DEF Start
<1>6. CASE \E b \in Builds : RpcFails(b)
  BY <1>1, <1>6 DEF RpcFails
<1>7. CASE UNCHANGED vars
  BY <1>1, <1>7 DEF vars
<1>8. QED
  BY <1>2, <1>3, <1>4, <1>5, <1>6, <1>7 DEF Next

\* No answer, late or early, of whichever build, takes back that a shared
\* object is passed as mutable, or resolves an input into something else.
THEOREM SpecResolutionNeverUndone == Spec => ResolutionNeverUndone
<1>1. ASSUME BaseInv, [Next]_vars, NEW i \in DOMAIN inputs, ~IsRaw(i)
      PROVE  /\ inputs'[i].value.k = inputs[i].value.k
             /\ inputs'[i].value.enc = inputs[i].value.enc
             /\ inputs[i].value.mut => inputs'[i].value.mut
  <2>1. CASE InputsMove
    BY <1>1, <2>1, MovesForward
  <2>2. CASE \E c \in Commands : AddCommand(c)
    <3>1. inputs'[i] = inputs[i]
      BY <1>1, <2>2, CommandAdds
    <3>2. QED
      BY <3>1
  <2>3. QED
    BY <1>1, <2>1, <2>2, NextMoves
<1> DEFINE Kept == \A i \in DOMAIN inputs :
                      ~IsRaw(i) => /\ inputs'[i].value.k = inputs[i].value.k
                                   /\ inputs'[i].value.enc = inputs[i].value.enc
                                   /\ inputs[i].value.mut => inputs'[i].value.mut
<1>2. BaseInv /\ [Next]_vars => [Kept]_vars
  BY <1>1
<1> HIDE DEF Kept
<1>3. Spec => [][Kept]_vars
  BY <1>2, BaseInvHolds, PTL DEF Spec
<1>4. QED
  BY <1>3 DEF ResolutionNeverUndone, Kept

-----------------------------------------------------------------------------
(* Every step keeps SettledInv when nobody edits once a build has started.  *)

\* An answer changes an input only while it is raw, and makes it what the
\* commands, all of them there by then, want of it.
Settles(i) ==
    \/ inputs'[i] = inputs[i]
    \/ IsRaw(i) /\ \E t \in PureTypes : inputs'[i].value = Pure(t)
    \/ /\ IsRaw(i)
       /\ \E a \in AllUses : a.input = i /\ ~IsPureWant(a.want)
       /\ \/ inputs'[i].value = Owned
          \/ \E m \in BOOLEAN : inputs'[i].value = Shared(m) /\ (m <=> Wanted(i, "mutref"))

\* What is left of the invariant after such an answer.
LEMMA SettledStays ==
    ASSUME SettledInv, InputsMove, \A i \in DOMAIN inputs : Settles(i)
    PROVE  /\ MutabilityFinal'
           /\ AllResolved => AllResolved' /\ Block' = Block
           /\ ObjectsResolved => ObjectsResolved'
           /\ \A payment : PaysApart(payment) => PaysApart(payment)'
           /\ \A calls, uses : Covered(calls, uses) => Covered(calls, uses)'
<1>1. /\ inputs \in Inputs /\ inputs' \in Inputs
      /\ DOMAIN inputs' = DOMAIN inputs
      /\ transactions' = transactions
  BY Shapes DEF SettledInv, BaseInv, InputsMove
<1>2. AllUses' = AllUses
  BY <1>1 DEF AllUses, UsesOf
<1>3. \A i \in DOMAIN inputs : ~IsRaw(i) => inputs'[i] = inputs[i]
  BY DEF Settles
<1>4. \A i \in DOMAIN inputs : IsRaw(i)' => IsRaw(i)
  BY <1>3 DEF IsRaw
<1>5. \A a \in AllUses : a.input \in DOMAIN inputs
  BY DEF SettledInv, BaseInv, ArgumentsRefer
<1>6. ASSUME AllResolved PROVE AllResolved' /\ Block' = Block
  <2>1. \A i \in DOMAIN inputs : inputs'[i] = inputs[i]
    BY <1>3, <1>6 DEF AllResolved
  <2>2. inputs' = inputs
    <3> DEFINE R == [ref : Refs, given : Values, value : Values]
    <3>1. inputs \in Seq(R) /\ inputs' \in Seq(R)
      BY <1>1 DEF Inputs
    <3> HIDE DEF R
    <3>2. QED
      BY <1>1, <2>1, <3>1
  <2>3. QED
    BY <1>1, <1>6, <2>2 DEF AllResolved, IsRaw, Block
<1>7. ASSUME ObjectsResolved PROVE ObjectsResolved'
  BY <1>2, <1>4, <1>5, <1>7 DEF ObjectsResolved
<1>8. ASSUME NEW payment, PaysApart(payment) PROVE PaysApart(payment)'
  <2> SUFFICES ASSUME payment \notin {NoPayment, UserPayment}
               PROVE  /\ ObjectsResolved'
                      /\ \A i \in DOMAIN inputs' :
                            inputs'[i].value = Owned => inputs'[i].ref \notin ToSet(payment)
    BY DEF PaysApart
  <2>1. /\ ObjectsResolved
        /\ \A i \in DOMAIN inputs : inputs[i].value = Owned => inputs[i].ref \notin ToSet(payment)
    BY <1>8 DEF PaysApart
  <2>2. ASSUME NEW i \in DOMAIN inputs, inputs'[i].value = Owned PROVE inputs'[i] = inputs[i]
    <3>1. \A a \in AllUses : ~(IsRaw(i) /\ a.input = i /\ ~IsPureWant(a.want))
      BY <2>1 DEF ObjectsResolved
    <3>2. \A t : Pure(t) # Owned
      <4>1. \A t : Pure(t).k # Owned.k
        BY ValueKinds
      <4>2. QED
        BY <4>1
    <3>3. QED
      BY <2>2, <3>1, <3>2 DEF Settles
  <2>3. QED
    BY <1>1, <1>7, <2>1, <2>2
<1>9. ASSUME NEW calls, NEW uses, Covered(calls, uses) PROVE Covered(calls, uses)'
  <2> SUFFICES ASSUME NEW j \in DOMAIN transactions', NEW a \in UsesOf(j)',
                      IsRaw(a.input)', ~IsPureWant(a.want)
               PROVE  j \in calls \/ a \in uses
    BY DEF Covered
  <2>1. j \in DOMAIN transactions /\ a \in UsesOf(j)
    BY <1>1 DEF UsesOf
  <2>2. a.input \in DOMAIN inputs
    BY <1>5, <2>1 DEF AllUses
  <2>3. QED
    BY <1>4, <1>9, <2>1, <2>2 DEF Covered
<1>10. MutabilityFinal'
  <2> SUFFICES ASSUME NEW i \in DOMAIN inputs', inputs'[i].given = Raw, inputs'[i].value.k = "shared"
               PROVE  inputs'[i].value.mut <=> Wanted(i, "mutref")'
    BY DEF MutabilityFinal
  <2>1. i \in DOMAIN inputs /\ (Wanted(i, "mutref")' <=> Wanted(i, "mutref"))
    BY <1>1, <1>2 DEF Wanted
  <2>2. CASE inputs'[i] = inputs[i]
    BY <2>1, <2>2 DEF SettledInv, MutabilityFinal
  <2>3. CASE inputs'[i] # inputs[i]
    <3>1. (\A t : Pure(t).k # "shared") /\ Owned.k # "shared"
      BY ValueKinds
    <3>2. PICK m \in BOOLEAN : inputs'[i].value = Shared(m) /\ (m <=> Wanted(i, "mutref"))
      BY <2>1, <2>3, <3>1 DEF Settles
    <3>3. Shared(m).mut = m
      BY ValueKinds
    <3>4. inputs'[i].value.mut <=> m
      BY <3>2, <3>3, Zenon
    <3>5. QED
      BY <2>1, <3>2, <3>4, Zenon
  <2>4. QED
    BY <2>2, <2>3
<1>11. QED
  BY <1>6, <1>7, <1>8, <1>9, <1>10

\* A step of one build keeps the invariant if what it makes of the build, of
\* the payment and of the budget is in order.
LEMMA BuildSettles ==
    ASSUME SettledInv, BaseInv', InputsMove, \A i \in DOMAIN inputs : Settles(i),
           NEW b \in Builds, NEW new \in BuildStates, build' = [build EXCEPT ![b] = new],
           NEW payment, payment = gas'.payment, PaysApart(payment),
           NEW budget, budget = gas'.budget, MeasuredHere(budget),
           new.pc # "idle",
           StageOf(new)',
           new.pc = "dryrun" => new.dry = Block /\ AllResolved,
           new.pc = "done" => /\ new.bytes.block = Block /\ AllResolved
                              /\ MeasuredHere(new.bytes.budget)
                              /\ PaysApart(new.bytes.payment)
    PROVE  SettledInv'
<1>1. /\ MutabilityFinal'
      /\ AllResolved => AllResolved' /\ Block' = Block
      /\ ObjectsResolved => ObjectsResolved'
      /\ \A p : PaysApart(p) => PaysApart(p)'
      /\ \A calls, uses : Covered(calls, uses) => Covered(calls, uses)'
  BY SettledStays
<1>2. /\ build' \in [Builds -> BuildStates]
      /\ build'[b] = new
      /\ \A c \in Builds \ {b} : build'[c] = build[c]
  BY BuildBecomes DEF SettledInv, BaseInv
<1>3. Fresh'
  BY <1>2 DEF SettledInv, Fresh, Quiet
<1>4. Stages'
  <2> SUFFICES ASSUME NEW c \in Builds PROVE StageOf(build[c])'
    BY DEF Stages
  <2>1. CASE c = b
    <3>1. build'[c] = new
      BY <1>2, <2>1
    <3>2. QED
      BY <3>1 DEF StageOf, Covered
  <2>2. CASE c # b
    <3>1. build'[c] = build[c]
      BY <1>2, <2>2
    <3>2. StageOf(build[c])
      BY DEF SettledInv, Stages
    <3>3. QED
      BY <1>1, <3>1, <3>2 DEF StageOf, Covered
  <2>3. QED
    BY <2>1, <2>2
<1>5. \A x : MeasuredHere(x) => (x.from = "dryrun" => x.of = Block' /\ AllResolved')
  BY <1>1 DEF MeasuredHere
<1>6. Measured'
  <2>1. MeasuredHere(gas.budget)'
    BY <1>5 DEF MeasuredHere
  <2>2. ASSUME NEW c \in Builds
        PROVE  /\ build'[c].pc = "dryrun" => build'[c].dry = Block' /\ AllResolved'
               /\ build'[c].pc = "done" => /\ build'[c].bytes.block = Block' /\ AllResolved'
                                           /\ MeasuredHere(build[c].bytes.budget)'
    <3>1. CASE c = b
      BY <1>1, <1>2, <1>5, <3>1 DEF MeasuredHere
    <3>2. CASE c # b
      <4>1. /\ build[c].pc = "dryrun" => build[c].dry = Block /\ AllResolved
            /\ build[c].pc = "done" => /\ build[c].bytes.block = Block /\ AllResolved
                                       /\ MeasuredHere(build[c].bytes.budget)
        BY DEF SettledInv, Measured, Done
      <4>2. build'[c] = build[c]
        BY <1>2, <3>2
      <4>3. QED
        BY <1>1, <1>5, <4>1, <4>2 DEF MeasuredHere
    <3>3. QED
      BY <3>1, <3>2
  <2>3. QED
    BY <2>1, <2>2 DEF Measured, Done
<1>7. Payments'
  <2>1. PaysApart(gas.payment)'
    BY <1>1 DEF PaysApart
  <2>2. ASSUME NEW c \in Builds, build'[c].pc = "done" PROVE PaysApart(build[c].bytes.payment)'
    <3>1. CASE c = b
      <4> DEFINE p == new.bytes.payment
      <4>1. PaysApart(p)
        BY <1>2, <2>2, <3>1
      <4>2. PaysApart(p)'
        BY <1>1, <4>1
      <4>3. QED
        BY <1>2, <3>1, <4>2 DEF PaysApart
    <3>2. CASE c # b
      <4> DEFINE p == build[c].bytes.payment
      <4>1. build'[c] = build[c]
        BY <1>2, <3>2
      <4>2. PaysApart(p)
        BY <2>2, <4>1 DEF SettledInv, Payments, Done
      <4>3. QED
        BY <1>1, <4>1, <4>2 DEF PaysApart
    <3>3. QED
      BY <3>1, <3>2
  <2>3. QED
    BY <2>1, <2>2 DEF Payments, Done
<1>8. QED
  BY <1>1, <1>3, <1>4, <1>6, <1>7 DEF SettledInv

LEMMA StillSettles ==
    ASSUME SettledInv, BaseInv', UNCHANGED <<inputs, transactions>>,
           NEW b \in Builds, NEW new \in BuildStates, build' = [build EXCEPT ![b] = new],
           PaysApart(gas'.payment),
           MeasuredHere(gas'.budget),
           new.pc # "idle",
           StageOf(new),
           new.pc = "dryrun" => new.dry = Block /\ AllResolved,
           new.pc = "done" => /\ new.bytes.block = Block /\ AllResolved
                              /\ MeasuredHere(new.bytes.budget)
                              /\ PaysApart(new.bytes.payment)
    PROVE  SettledInv'
<1>1. InputsMove
  BY StillMoves DEF SettledInv
<1>2. \A i \in DOMAIN inputs : Settles(i)
  BY DEF Settles
<1>3. StageOf(new)'
  BY DEF StageOf, Covered, ObjectsResolved, AllUses, UsesOf, IsRaw
<1>4. PICK payment : payment = gas'.payment
  OBVIOUS
<1>5. PICK budget : budget = gas'.budget
  OBVIOUS
<1>6. PaysApart(payment) /\ MeasuredHere(budget)
  BY <1>4, <1>5
<1>7. QED
  BY <1>1, <1>2, <1>3, <1>4, <1>5, <1>6, BuildSettles

\* What the invariant says of one build and of the gas configuration.
LEMMA SettledBuild ==
    ASSUME SettledInv, NEW b \in Builds
    PROVE  /\ Shape /\ BaseInv
           /\ build[b] \in BuildStates
           /\ StageOf(build[b])
           /\ build[b].pc = "idle" => build[b] = Idle
           /\ build[b].pc = "dryrun" => build[b].dry = Block /\ AllResolved
           /\ build[b].pc = "done" => /\ build[b].bytes.block = Block /\ AllResolved
                                      /\ MeasuredHere(build[b].bytes.budget)
                                      /\ PaysApart(build[b].bytes.payment)
           /\ MeasuredHere(gas.budget)
           /\ PaysApart(gas.payment)
  BY DEF SettledInv, BaseInv, Shape, Stages, Fresh, Measured, Payments, Done

LEMMA SettledStarts ==
    ASSUME SettledInv, BaseInv', NEW b \in Builds, NEW kind \in BOOLEAN, Start(b, kind)
    PROVE  SettledInv'
<1> DEFINE new == [build[b] EXCEPT !.pc = "config", !.kindOnly = kind]
<1>1. /\ Shape /\ build[b] \in BuildStates
      /\ build[b] = Idle
      /\ MeasuredHere(gas.budget)
      /\ PaysApart(gas.payment)
  BY SettledBuild DEF Start
<1>2. build' = [build EXCEPT ![b] = new]
  BY <1>1, BuildShapes DEF Start
<1>3. /\ new \in BuildStates
      /\ new.pc = "config" /\ new.tx = build[b].tx /\ new.calls = build[b].calls
  BY <1>1 DEF BuildStates
<1>4. build[b].tx = "none" /\ build[b].calls = {}
  BY <1>1 DEF Idle
<1> HIDE DEF new
<1>5. StageOf(new)
  BY <1>3, <1>4 DEF StageOf
<1>6. UNCHANGED <<inputs, transactions, gas>>
  BY DEF Start
<1>7. QED
  BY <1>1, <1>2, <1>3, <1>5, <1>6, StillSettles

LEMMA SettledPrice ==
    ASSUME SettledInv, BaseInv', NEW b \in Builds, PriceArrives(b)
    PROVE  SettledInv'
<1> DEFINE new == [build[b] EXCEPT !.price = FALSE]
<1>1. /\ Shape /\ build[b] \in BuildStates /\ StageOf(build[b])
      /\ build[b].pc = "dryrun" => build[b].dry = Block /\ AllResolved
      /\ build[b].pc = "done" => /\ build[b].bytes.block = Block /\ AllResolved
                                 /\ MeasuredHere(build[b].bytes.budget)
                                 /\ PaysApart(build[b].bytes.payment)
      /\ MeasuredHere(gas.budget)
      /\ PaysApart(gas.payment)
  BY SettledBuild
<1>2. build' = [build EXCEPT ![b] = new]
  BY <1>1, BuildShapes DEF PriceArrives
<1>3. /\ new \in BuildStates
      /\ new.pc = build[b].pc /\ new.tx = build[b].tx /\ new.calls = build[b].calls
      /\ new.toResolve = build[b].toResolve /\ new.dry = build[b].dry /\ new.bytes = build[b].bytes
  BY <1>1 DEF BuildStates
<1> HIDE DEF new
<1>4. StageOf(new)
  BY <1>1, <1>3 DEF StageOf
<1>5. build[b].pc # "idle"
  <2>1. build[b].price # Idle.price
    BY DEF PriceArrives, Idle
  <2>2. QED
    BY <2>1, SettledBuild
<1>6. UNCHANGED <<inputs, transactions>> /\ gas' = [gas EXCEPT !.price = TRUE]
  BY DEF PriceArrives
<1>7. gas'.payment = gas.payment /\ gas'.budget = gas.budget
  BY <1>1, <1>6 DEF Shape, GasStates
<1>8. QED
  BY <1>1, <1>2, <1>3, <1>4, <1>5, <1>6, <1>7, StillSettles

LEMMA SettledPayment ==
    ASSUME SettledInv, BaseInv', NEW b \in Builds, PrepareGasPayment(b)
    PROVE  SettledInv'
<1> DEFINE pc  == IF build[b].kindOnly THEN "finish"
                  ELSE IF Len(gas.payment) > MaxGasObjects THEN "failed"
                  ELSE IF gas.payment # NoPayment THEN "budget" ELSE "payment"
           new == [build[b] EXCEPT !.pc = pc]
<1>1. /\ Shape /\ build[b] \in BuildStates /\ StageOf(build[b])
      /\ MeasuredHere(gas.budget)
      /\ PaysApart(gas.payment)
  BY SettledBuild
<1>2. build' = [build EXCEPT ![b] = new] /\ UNCHANGED <<inputs, transactions, gas>>
  BY <1>1, BuildShapes DEF PrepareGasPayment
<1>3. pc \in {"finish", "failed", "budget", "payment"}
  OBVIOUS
<1> HIDE DEF pc
<1>4. /\ new \in BuildStates
      /\ new.pc = pc /\ new.tx = build[b].tx /\ new.calls = build[b].calls
      /\ new.toResolve = build[b].toResolve
  BY <1>1, <1>3 DEF BuildStates
<1> HIDE DEF new
<1>5. StageOf(new)
  BY <1>1, <1>3, <1>4 DEF StageOf, PrepareGasPayment
<1>6. QED
  BY <1>1, <1>2, <1>3, <1>4, <1>5, StillSettles

\* The coins chosen are apart from the inputs when no input is left to resolve
\* to an object.
LEMMA SelectedApart ==
    ASSUME ObjectsResolved
    PROVE  PaysApart(SelectCoins)
<1> SUFFICES ASSUME NEW i \in DOMAIN inputs, inputs[i].value = Owned,
                    inputs[i].ref \in ToSet(SelectCoins)
             PROVE  FALSE
  BY DEF PaysApart
<1>1. PICK n \in FreeCoins : inputs[i].ref = Coins[n]
  BY SelectedCoins
<1>2. QED
  BY <1>1 DEF FreeCoins

LEMMA SettledCoins ==
    ASSUME SettledInv, BaseInv', NEW b \in Builds, CoinsArrive(b)
    PROVE  SettledInv'
<1> DEFINE pc  == IF SelectCoins = <<>> THEN "failed" ELSE "budget"
           new == [build[b] EXCEPT !.pc = pc]
<1>1. /\ Shape /\ build[b] \in BuildStates /\ StageOf(build[b])
      /\ MeasuredHere(gas.budget)
      /\ PaysApart(gas.payment)
  BY SettledBuild
<1>2. build' = [build EXCEPT ![b] = new] /\ UNCHANGED <<inputs, transactions>>
  BY <1>1, BuildShapes DEF CoinsArrive
<1>3. pc \in {"failed", "budget"}
  OBVIOUS
<1> HIDE DEF pc
<1>4. /\ new \in BuildStates
      /\ new.pc = pc /\ new.tx = build[b].tx /\ new.calls = build[b].calls
      /\ new.toResolve = build[b].toResolve
  BY <1>1, <1>3 DEF BuildStates
<1> HIDE DEF new
<1>5. build[b].tx = "ready" /\ ObjectsResolved
  BY <1>1 DEF StageOf, CoinsArrive
<1>6. StageOf(new)
  BY <1>1, <1>3, <1>4, <1>5 DEF StageOf
<1>7. PaysApart(gas'.payment) /\ MeasuredHere(gas'.budget)
  <2>1. CASE gas' = gas
    BY <1>1, <2>1
  <2>2. CASE gas' = [gas EXCEPT !.payment = SelectCoins]
    <3>1. gas'.payment = SelectCoins /\ gas'.budget = gas.budget
      BY <1>1, <2>2 DEF Shape, GasStates
    <3>2. QED
      BY <1>1, <1>5, <3>1, SelectedApart
  <2>3. QED
    BY <2>1, <2>2 DEF CoinsArrive
<1>8. QED
  BY <1>2, <1>3, <1>4, <1>6, <1>7, StillSettles

LEMMA SettledBudget ==
    ASSUME SettledInv, BaseInv', NEW b \in Builds, PrepareBudget(b)
    PROVE  SettledInv'
<1> DEFINE pc  == IF gas.budget # NoBudget THEN "finish"
                  ELSE IF AllResolved THEN "dryrun" ELSE "failed"
           dry == IF gas.budget = NoBudget /\ AllResolved THEN Block ELSE build[b].dry
           new == [build[b] EXCEPT !.pc = pc, !.dry = dry]
<1>1. /\ Shape /\ build[b] \in BuildStates /\ StageOf(build[b])
      /\ MeasuredHere(gas.budget)
      /\ PaysApart(gas.payment)
  BY SettledBuild
<1>2. build' = [build EXCEPT ![b] = new] /\ UNCHANGED <<inputs, transactions, gas>>
  BY <1>1, BuildShapes DEF PrepareBudget
<1>3. /\ pc \in {"finish", "dryrun", "failed"} /\ dry \in Blocks
      /\ pc = "dryrun" => dry = Block /\ AllResolved
  BY <1>1, BuildShapes DEF Shape
<1> HIDE DEF pc, dry
<1>4. /\ new \in BuildStates
      /\ new.pc = pc /\ new.dry = dry /\ new.tx = build[b].tx /\ new.calls = build[b].calls
      /\ new.toResolve = build[b].toResolve
  BY <1>1, <1>3 DEF BuildStates
<1> HIDE DEF new
<1>5. StageOf(new)
  BY <1>1, <1>3, <1>4 DEF StageOf, PrepareBudget
<1>6. QED
  BY <1>1, <1>2, <1>3, <1>4, <1>5, StillSettles

LEMMA SettledDryRun ==
    ASSUME SettledInv, BaseInv', NEW b \in Builds, DryRunArrives(b)
    PROVE  SettledInv'
<1> DEFINE new == [build[b] EXCEPT !.pc = "finish"]
<1>1. /\ Shape /\ build[b] \in BuildStates /\ StageOf(build[b])
      /\ build[b].dry = Block /\ AllResolved
      /\ PaysApart(gas.payment)
  BY SettledBuild DEF DryRunArrives
<1>2. /\ build' = [build EXCEPT ![b] = new]
      /\ UNCHANGED <<inputs, transactions>>
      /\ gas' = [gas EXCEPT !.budget = DryRunOf(Block)]
  BY <1>1, BuildShapes DEF DryRunArrives
<1>3. /\ new \in BuildStates
      /\ new.pc = "finish" /\ new.tx = build[b].tx /\ new.calls = build[b].calls
      /\ new.toResolve = build[b].toResolve
  BY <1>1 DEF BuildStates
<1> HIDE DEF new
<1>4. StageOf(new)
  BY <1>1, <1>3 DEF StageOf, DryRunArrives
<1>5. gas'.payment = gas.payment /\ gas'.budget = DryRunOf(Block)
  BY <1>1, <1>2 DEF Shape, GasStates
<1>6. MeasuredHere(DryRunOf(Block))
  BY <1>1 DEF MeasuredHere, DryRunOf
<1>7. QED
  BY <1>1, <1>2, <1>3, <1>4, <1>5, <1>6, StillSettles

LEMMA SettledFinish ==
    ASSUME SettledInv, BaseInv', NEW b \in Builds, Finish(b)
    PROVE  SettledInv'
<1> DEFINE pc     == IF AllResolved THEN "done" ELSE "failed"
           full   == [block   |-> Block,
                      payment |-> IF build[b].kindOnly THEN NoPayment ELSE gas.payment,
                      budget  |-> IF build[b].kindOnly THEN NoBudget ELSE gas.budget]
           bytes  == IF ~AllResolved THEN NoBytes ELSE full
           new    == [build[b] EXCEPT !.pc = pc, !.bytes = bytes]
           ByteStates == [block : Blocks, payment : Seq(Objects), budget : Budgets]
<1>1. /\ Shape /\ build[b] \in BuildStates /\ StageOf(build[b])
      /\ MeasuredHere(gas.budget)
      /\ PaysApart(gas.payment)
  BY SettledBuild
<1>2. build' = [build EXCEPT ![b] = new] /\ UNCHANGED <<inputs, transactions, gas>>
  BY <1>1, BuildShapes DEF Finish
<1>3. MeasuredHere(NoBudget) /\ PaysApart(NoPayment)
  BY DEF MeasuredHere, NoBudget, PaysApart
<1>4. /\ pc \in {"done", "failed"}
      /\ pc = "done" => /\ bytes.block = Block /\ AllResolved
                        /\ MeasuredHere(bytes.budget)
                        /\ PaysApart(bytes.payment)
  BY <1>1, <1>3
<1>5. bytes \in ByteStates
  <2>1. gas.payment \in Seq(Objects) /\ gas.budget \in Budgets /\ Block \in Blocks
    BY <1>1 DEF Shape, GasStates
  <2>2. full \in ByteStates
    BY <2>1, NoBlockShape
  <2>3. QED
    BY <2>2, NoBlockShape
<1> HIDE DEF pc, bytes, full
<1>6. /\ new \in BuildStates
      /\ new.pc = pc /\ new.bytes = bytes /\ new.tx = build[b].tx /\ new.calls = build[b].calls
      /\ new.toResolve = build[b].toResolve
  BY <1>1, <1>4, <1>5 DEF BuildStates
<1> HIDE DEF new
<1>7. StageOf(new)
  BY <1>1, <1>4, <1>6 DEF StageOf, Finish
<1>8. QED
  BY <1>1, <1>2, <1>4, <1>6, <1>7, StillSettles

\* A build that waits for objects, a signature or the gas price is not over.
LEMMA SettledFailing ==
    ASSUME NEW s \in BuildStates, StageOf(s), s.tx \in {"objects", "aborted"} \/ s.calls # {}
    PROVE  s.pc \notin {"config", "payment", "budget", "dryrun", "finish", "done"}
  BY DEF StageOf

LEMMA SettledRpcFails ==
    ASSUME SettledInv, BaseInv', NEW b \in Builds, RpcFails(b)
    PROVE  SettledInv'
<1> DEFINE pc  == Failed(b)
           priceFails   == [build[b] EXCEPT !.price = FALSE, !.pc = pc]
           objectsFail  == [build[b] EXCEPT !.tx = "aborted", !.pc = pc]
           requestFails == [build[b] EXCEPT !.pc = "failed"]
<1>1. /\ Shape /\ build[b] \in BuildStates /\ StageOf(build[b])
      /\ build[b].pc = "idle" => build[b] = Idle
      /\ build[b].pc = "dryrun" => build[b].dry = Block /\ AllResolved
      /\ build[b].pc = "done" => /\ build[b].bytes.block = Block /\ AllResolved
                                 /\ MeasuredHere(build[b].bytes.budget)
                                 /\ PaysApart(build[b].bytes.payment)
      /\ MeasuredHere(gas.budget)
      /\ PaysApart(gas.payment)
  BY SettledBuild
<1>2. pc \in {"failed", build[b].pc}
  BY FailedPc
<1>3. build[b].pc # "idle"
  BY <1>1 DEF RpcFails, Idle
<1>4. UNCHANGED <<inputs, transactions, gas>>
  BY DEF RpcFails
<1> HIDE DEF pc
<1>5. CASE build[b].price /\ build' = [build EXCEPT ![b] = priceFails]
  <2>1. /\ priceFails \in BuildStates
        /\ priceFails.pc = pc /\ priceFails.tx = build[b].tx
        /\ priceFails.calls = build[b].calls /\ priceFails.toResolve = build[b].toResolve
        /\ priceFails.dry = build[b].dry /\ priceFails.bytes = build[b].bytes
    BY <1>1, <1>2 DEF BuildStates
  <2> HIDE DEF priceFails
  <2>2. StageOf(priceFails)
    BY <1>1, <1>2, <2>1 DEF StageOf
  <2>3. QED
    BY <1>1, <1>2, <1>3, <1>4, <1>5, <2>1, <2>2, StillSettles
<1>6. CASE build[b].tx = "objects" /\ build' = [build EXCEPT ![b] = objectsFail]
  <2>1. /\ objectsFail \in BuildStates
        /\ objectsFail.pc = pc /\ objectsFail.tx = "aborted"
        /\ objectsFail.calls = build[b].calls /\ objectsFail.toResolve = build[b].toResolve
    BY <1>1, <1>2 DEF BuildStates
  <2> HIDE DEF objectsFail
  <2>2. pc \notin {"config", "payment", "budget", "dryrun", "finish", "done", "idle"}
    BY <1>1, <1>2, <1>3, <1>6, SettledFailing
  <2>3. StageOf(objectsFail)
    BY <2>1, <2>2 DEF StageOf
  <2>4. QED
    BY <1>1, <1>4, <1>6, <2>1, <2>2, <2>3, StillSettles
<1>7. CASE build' = [build EXCEPT ![b] = requestFails]
  <2>1. /\ requestFails \in BuildStates
        /\ requestFails.pc = "failed" /\ requestFails.tx = build[b].tx
        /\ requestFails.calls = build[b].calls /\ requestFails.toResolve = build[b].toResolve
    BY <1>1 DEF BuildStates
  <2> HIDE DEF requestFails
  <2>2. StageOf(requestFails)
    BY <1>1, <2>1 DEF StageOf
  <2>3. QED
    BY <1>1, <1>4, <1>7, <2>1, <2>2, StillSettles
<1>8. QED
  <2>1. \/ build[b].price /\ build' = [build EXCEPT ![b] = priceFails]
        \/ build[b].tx = "objects" /\ build' = [build EXCEPT ![b] = objectsFail]
        \/ build' = [build EXCEPT ![b] = requestFails]
    BY <1>1, BuildShapes DEF RpcFails, pc
  <2>2. QED
    BY <1>5, <1>6, <1>7, <2>1

\* Before the first build an edit finds nothing resolved, measured or sent.
LEMMA SettledEdits ==
    ASSUME SettledInv, BaseInv', ~EditsBetween, Edit
    PROVE  SettledInv'
<1>1. build' = build /\ Editable
  BY DEF Edit, AddCommand, SetGasPayment, SetGasBudget, SetGasPrice
<1>2. Quiet /\ \A b \in Builds : build[b] = Idle
  BY <1>1 DEF Editable, Quiet, SettledInv, Fresh
<1>3. /\ \A i \in DOMAIN inputs : inputs[i].value = inputs[i].given
      /\ gas.budget.from # "dryrun"
      /\ gas.payment \in {NoPayment, UserPayment}
      /\ gas \in GasStates
  BY <1>2 DEF SettledInv, Fresh, BaseInv, Shape
<1>4. \A i \in DOMAIN inputs' : inputs'[i].value = inputs'[i].given
  <2>1. CASE \E c \in Commands : AddCommand(c)
    BY <1>3, <2>1, CommandAdds DEF SettledInv
  <2>2. CASE SetGasPayment \/ SetGasBudget \/ SetGasPrice
    BY <1>3, <2>2 DEF SetGasPayment, SetGasBudget, SetGasPrice
  <2>3. QED
    BY <2>1, <2>2 DEF Edit
<1>5. gas'.budget.from # "dryrun" /\ gas'.payment \in {NoPayment, UserPayment}
  <2>1. CASE gas' = gas
    BY <1>3, <2>1
  <2>2. CASE gas' = [gas EXCEPT !.payment = UserPayment]
    BY <1>3, <2>2 DEF GasStates
  <2>3. CASE gas' = [gas EXCEPT !.budget = UserBudget]
    BY <1>3, <2>3 DEF GasStates, UserBudget
  <2>4. CASE gas' = [gas EXCEPT !.price = TRUE]
    BY <1>3, <2>4 DEF GasStates
  <2>5. QED
    BY <2>1, <2>2, <2>3, <2>4 DEF Edit, AddCommand, SetGasPayment, SetGasBudget, SetGasPrice
<1>6. Fresh'
  BY <1>1, <1>2, <1>4, <1>5 DEF Fresh
<1>7. Idle.pc = "idle" /\ Idle.tx = "none" /\ Idle.calls = {}
  BY DEF Idle
<1>8. Stages'
  BY <1>1, <1>2, <1>7 DEF Stages, StageOf
<1>9. MutabilityFinal'
  BY <1>4, ValueKinds DEF MutabilityFinal
<1>10. Measured' /\ Payments'
  BY <1>1, <1>2, <1>5, <1>7 DEF Measured, MeasuredHere, Payments, PaysApart, Done
<1>11. QED
  BY <1>6, <1>8, <1>9, <1>10 DEF SettledInv

\* Encoding pure values settles the inputs it changes.
LEMMA EncodeSettles ==
    ASSUME BaseInv, NEW walked, walked \subseteq ArgsOf(DOMAIN transactions),
           inputs' = Encode(walked), UNCHANGED transactions
    PROVE  InputsMove /\ \A i \in DOMAIN inputs : Settles(i)
<1>1. InputsMove
  BY EncodeMoves
<1>2. \A i \in DOMAIN inputs : Settles(i)
  BY EncodeFacts DEF Settles
<1>3. QED
  BY <1>1, <1>2

\* Without a raw object use that is neither in calls nor noted, nothing is left
\* to resolve to an object when both are empty.
LEMMA CoveredAll ==
    ASSUME Covered({}, {}) PROVE ObjectsResolved
  BY DEF Covered, ObjectsResolved, AllUses

LEMMA SettledConfig ==
    ASSUME SettledInv, BaseInv', NEW b \in Builds, ConfigArrives(b)
    PROVE  SettledInv'
<1> DEFINE js    == DOMAIN transactions
           built == {j \in js : ~IsMoveCall(j)}
           calls == {j \in js : IsMoveCall(j) /\ NeedsResolution(j)}
           uses  == ObjectUses(built)
           price == ~(build[b].kindOnly \/ gas.price)
           tx    == TxStage(calls, uses)
           new   == [build[b] EXCEPT !.pc = "resolving", !.price = price, !.calls = calls,
                                     !.toResolve = uses, !.tx = tx]
<1>1. /\ Shape /\ BaseInv /\ build[b] \in BuildStates
      /\ MeasuredHere(gas.budget)
      /\ PaysApart(gas.payment)
  BY SettledBuild
<1>2. calls \in SUBSET Nat /\ uses \in SUBSET Arguments
  BY <1>1, Shapes, ObjectUsesPend
<1>3. tx \in {"calls", "objects", "ready"} /\ price \in BOOLEAN
  BY DEF TxStage
<1>4. InputsMove /\ \A i \in DOMAIN inputs : Settles(i)
  <2>1. ArgsOf(built) \subseteq ArgsOf(DOMAIN transactions)
    BY DEF ArgsOf
  <2>2. QED
    BY <1>1, <2>1, EncodeSettles DEF ConfigArrives
<1>5. Covered(calls, uses)
  <2> SUFFICES ASSUME NEW j \in DOMAIN transactions, NEW a \in UsesOf(j),
                      IsRaw(a.input), ~IsPureWant(a.want)
               PROVE  j \in calls \/ a \in uses
    BY DEF Covered
  <2>1. CASE ~IsMoveCall(j)
    BY <2>1 DEF ObjectUses
  <2>2. CASE IsMoveCall(j)
    <3> DEFINE walked == ArgsOf({k \in 1 .. j - 1 : ~IsMoveCall(k)})
    <3>1. a \in AllUses
      BY DEF AllUses
    <3>2. a.input \in DOMAIN inputs /\ inputs[a.input].ref \notin PureVars
      BY <1>1, <3>1 DEF BaseInv, ArgumentsRefer
    <3>3. walked \subseteq ArgsOf(DOMAIN transactions)
      <4>1. DOMAIN transactions = 1 .. Len(transactions) /\ Len(transactions) \in Nat
        BY <1>1, Shapes
      <4>2. 1 .. j - 1 \subseteq DOMAIN transactions
        BY <4>1
      <4>3. QED
        BY <4>2 DEF ArgsOf
    <3>4. Encode(walked)[a.input] = inputs[a.input]
      BY <1>1, <3>2, <3>3, EncodeFacts
    <3>5. NeedsResolution(j)
      BY <3>4 DEF NeedsResolution, IsRaw
    <3>6. QED
      BY <2>2, <3>5
  <2>3. QED
    BY <2>1, <2>2
<1>6. build' = [build EXCEPT ![b] = new]
  BY <1>1, BuildShapes DEF ConfigArrives
<1>7. UNCHANGED gas
  BY DEF ConfigArrives
<1>8. /\ tx = "objects" => calls = {}
      /\ tx = "ready" => calls = {} /\ uses = {}
  BY DEF TxStage
<1> HIDE DEF calls, uses, price, tx
<1>9. /\ new \in BuildStates
      /\ new.pc = "resolving" /\ new.tx = tx /\ new.calls = calls /\ new.toResolve = uses
  BY <1>1, <1>2, <1>3 DEF BuildStates
<1> HIDE DEF new
<1>10. PICK after : after = new
  OBVIOUS
<1>11. StageOf(after)'
  <2>1. PICK left, noted : left = calls /\ noted = uses
    OBVIOUS
  <2>2. Covered(left, noted)'
    BY <1>4, <1>5, <2>1, SettledStays
  <2>3. left = {} /\ noted = {} => ObjectsResolved'
    BY <1>4, <1>5, <2>1, SettledStays, CoveredAll
  <2>4. /\ after.pc = "resolving" /\ after.tx \in {"calls", "objects", "ready"}
        /\ after.calls = left /\ after.toResolve = noted
        /\ after.tx = "objects" => left = {}
        /\ after.tx = "ready" => left = {} /\ noted = {}
    BY <1>3, <1>8, <1>9, <1>10, <2>1
  <2>5. QED
    BY <2>2, <2>3, <2>4 DEF StageOf
<1>12. after \in BuildStates /\ build' = [build EXCEPT ![b] = after] /\ after.pc = "resolving"
  BY <1>6, <1>9, <1>10
<1>13. PICK payment, budget : payment = gas.payment /\ budget = gas.budget
  OBVIOUS
<1>14. QED
  BY <1>1, <1>4, <1>7, <1>11, <1>12, <1>13, BuildSettles

\* What a step of a build that is over, or was aborted, has to say of it.
LEMMA SettledOver ==
    ASSUME SettledInv, NEW b \in Builds
    PROVE  /\ build[b].pc = "dryrun" => build[b].dry = Block /\ AllResolved
           /\ build[b].pc = "done" => /\ build[b].bytes.block = Block /\ AllResolved
                                      /\ MeasuredHere(build[b].bytes.budget)
                                      /\ PaysApart(build[b].bytes.payment)
           /\ build[b].calls # {} \/ build[b].tx = "objects" =>
                 build[b].pc \notin {"idle", "config", "payment", "budget", "dryrun", "finish", "done"}
<1>1. /\ build[b] \in BuildStates /\ StageOf(build[b])
      /\ build[b].pc = "idle" => build[b] = Idle
  BY SettledBuild
<1>2. build[b].calls # {} \/ build[b].tx = "objects" => build[b].pc # "idle"
  BY <1>1 DEF Idle
<1>3. QED
  BY <1>1, <1>2, SettledBuild, SettledFailing

LEMMA SettledSignature ==
    ASSUME SettledInv, BaseInv', NEW b \in Builds, NEW j \in DOMAIN transactions,
           SignatureArrives(b, j)
    PROVE  SettledInv'
<1> DEFINE calls == build[b].calls \ {j}
           uses  == build[b].toResolve \cup ObjectUses({j})
           tx    == AfterSignature(b, calls, uses)
           new   == [build[b] EXCEPT !.calls = calls, !.toResolve = uses, !.tx = tx]
<1>1. /\ Shape /\ BaseInv /\ build[b] \in BuildStates /\ StageOf(build[b])
      /\ MeasuredHere(gas.budget)
      /\ PaysApart(gas.payment)
      /\ j \in build[b].calls
  BY SettledBuild DEF SignatureArrives
<1>2. build[b].pc \in {"resolving", "failed"}
  BY <1>1, SettledOver DEF BuildStates
<1>3. calls \in SUBSET Nat /\ uses \in SUBSET Arguments
  <2>1. ObjectUses({j}) \subseteq Arguments
    BY <1>1, ObjectUsesPend
  <2>2. QED
    BY <1>1, <2>1, BuildShapes
<1>4. /\ tx \in {"aborted", "calls", "objects", "ready"}
      /\ tx = "objects" => calls = {}
      /\ tx = "ready" => calls = {} /\ uses = {}
      /\ tx # "aborted" => build[b].tx # "aborted"
  BY DEF AfterSignature, TxStage
<1>5. InputsMove /\ \A i \in DOMAIN inputs : Settles(i)
  <2>1. ArgsOf({j}) \subseteq ArgsOf(DOMAIN transactions)
    BY DEF ArgsOf
  <2>2. QED
    BY <1>1, <2>1, EncodeSettles DEF SignatureArrives
<1>6. build[b].tx # "aborted" => Covered(calls, uses)
  <2> SUFFICES ASSUME build[b].tx # "aborted",
                      NEW k \in DOMAIN transactions, NEW a \in UsesOf(k),
                      IsRaw(a.input), ~IsPureWant(a.want)
               PROVE  k \in calls \/ a \in uses
    BY DEF Covered
  <2>1. build[b].tx \in {"calls", "objects"}
    BY <1>1 DEF StageOf, BuildStates
  <2>2. Covered(build[b].calls, build[b].toResolve)
    BY <1>1, <2>1 DEF StageOf
  <2>3. k \in build[b].calls \/ a \in build[b].toResolve
    BY <2>2 DEF Covered
  <2>4. k = j => a \in ObjectUses({j})
    BY DEF ObjectUses
  <2>5. QED
    BY <2>3, <2>4
<1>7. build' = [build EXCEPT ![b] = new] /\ UNCHANGED gas
  BY <1>1, BuildShapes DEF SignatureArrives
<1> HIDE DEF calls, uses, tx
<1>8. /\ new \in BuildStates
      /\ new.pc = build[b].pc /\ new.tx = tx /\ new.calls = calls /\ new.toResolve = uses
  BY <1>1, <1>3, <1>4 DEF BuildStates
<1> HIDE DEF new
<1>9. PICK after : after = new
  OBVIOUS
<1>10. StageOf(after)'
  <2>1. PICK left, noted : left = calls /\ noted = uses
    OBVIOUS
  <2>2. after.tx # "aborted" => Covered(left, noted)'
    BY <1>4, <1>5, <1>6, <1>8, <1>9, <2>1, SettledStays
  <2>3. after.tx # "aborted" /\ left = {} /\ noted = {} => ObjectsResolved'
    BY <1>4, <1>5, <1>6, <1>8, <1>9, <2>1, SettledStays, CoveredAll
  <2>4. /\ after.pc \in {"resolving", "failed"}
        /\ after.tx \in {"aborted", "calls", "objects", "ready"}
        /\ after.calls = left /\ after.toResolve = noted
        /\ after.tx = "objects" => left = {}
        /\ after.tx = "ready" => left = {} /\ noted = {}
    BY <1>2, <1>4, <1>8, <1>9, <2>1
  <2>5. QED
    BY <2>2, <2>3, <2>4 DEF StageOf
<1>11. /\ after \in BuildStates /\ build' = [build EXCEPT ![b] = after]
       /\ after.pc \in {"resolving", "failed"}
  BY <1>2, <1>7, <1>8, <1>9
<1>12. PICK payment, budget : payment = gas.payment /\ budget = gas.budget
  OBVIOUS
<1>13. QED
  BY <1>1, <1>5, <1>7, <1>10, <1>11, <1>12, BuildSettles

LEMMA SettledSignatureFails ==
    ASSUME SettledInv, BaseInv', NEW b \in Builds, NEW j \in DOMAIN transactions,
           SignatureFails(b, j)
    PROVE  SettledInv'
<1> DEFINE calls == build[b].calls \ {j}
           pc    == Failed(b)
           new   == [build[b] EXCEPT !.calls = calls, !.tx = "aborted", !.pc = pc]
<1>1. /\ Shape /\ BaseInv /\ build[b] \in BuildStates
      /\ MeasuredHere(gas.budget)
      /\ PaysApart(gas.payment)
      /\ j \in build[b].calls
  BY SettledBuild DEF SignatureFails
<1>2. pc \in {"resolving", "failed"}
  BY <1>1, SettledOver, FailedPc DEF BuildStates
<1>3. InputsMove /\ \A i \in DOMAIN inputs : Settles(i)
  <2>1. PICK n \in 0 .. Len(transactions[j].args) - 1 : inputs' = Encode({j} \X (1 .. n))
    BY DEF SignatureFails
  <2>2. Len(transactions[j].args) \in Nat /\ DOMAIN transactions[j].args = 1 .. Len(transactions[j].args)
    BY <1>1, Shapes
  <2>3. 1 .. n \subseteq DOMAIN transactions[j].args
    BY <2>1, <2>2
  <2>4. {j} \X (1 .. n) \subseteq ArgsOf(DOMAIN transactions)
    BY <2>3 DEF ArgsOf
  <2>5. QED
    BY <1>1, <2>1, <2>4, EncodeSettles DEF SignatureFails
<1>4. build' = [build EXCEPT ![b] = new] /\ UNCHANGED gas
  BY <1>1, BuildShapes DEF SignatureFails
<1>5. calls \in SUBSET Nat
  BY <1>1, BuildShapes
<1> HIDE DEF calls, pc
<1>6. new \in BuildStates /\ new.pc = pc /\ new.tx = "aborted"
  BY <1>1, <1>2, <1>5 DEF BuildStates
<1> HIDE DEF new
<1>7. PICK after : after = new
  OBVIOUS
<1>8. /\ after \in BuildStates /\ build' = [build EXCEPT ![b] = after]
      /\ after.pc \in {"resolving", "failed"} /\ after.tx = "aborted"
  BY <1>2, <1>4, <1>6, <1>7
<1>9. StageOf(after)'
  BY <1>8 DEF StageOf
<1>10. PICK payment, budget : payment = gas.payment /\ budget = gas.budget
  OBVIOUS
<1>11. QED
  BY <1>1, <1>3, <1>4, <1>8, <1>9, <1>10, BuildSettles

\* An input whose value did not change is the same input.
LEMMA SameInput ==
    ASSUME BaseInv, InputsMove, NEW i \in DOMAIN inputs, inputs'[i].value = inputs[i].value
    PROVE  inputs'[i] = inputs[i]
<1> DEFINE R == [ref : Refs, given : Values, value : Values]
<1>1. inputs \in Seq(R) /\ inputs' \in Seq(R) /\ DOMAIN inputs' = DOMAIN inputs
  BY Shapes DEF BaseInv, InputsMove, Inputs
<1>2. \A r, s \in R : r.ref = s.ref /\ r.given = s.given /\ r.value = s.value => r = s
  OBVIOUS
<1> HIDE DEF R
<1>3. inputs[i] \in R /\ inputs'[i] \in R
  BY <1>1
<1>4. Resolving(i)
  BY DEF InputsMove
<1>5. QED
  BY <1>2, <1>3, <1>4 DEF Resolving

\* When no signature is awaited any more, the objects noted are all the raw
\* inputs there are to resolve, and what is noted of each is all that is wanted.
LEMMA ResolveSettles ==
    ASSUME SettledInv, NEW uses, Pending(uses), Covered({}, uses),
           inputs' = ResolveObjects(uses), UNCHANGED transactions
    PROVE  /\ InputsMove /\ \A i \in DOMAIN inputs : Settles(i)
           /\ ObjectsResolved'
<1>1. BaseInv /\ MutabilityFinal
  BY DEF SettledInv
<1>2. InputsMove
  BY <1>1, ResolveMoves
<1>3. ASSUME NEW i \in DOMAIN inputs
      PROVE  /\ (\E a \in uses : a.input = i /\ a.want = "mutref") => Wanted(i, "mutref")
             /\ IsRaw(i) /\ Wanted(i, "mutref") => \E a \in uses : a.input = i /\ a.want = "mutref"
  <2>1. ~IsPureWant("mutref")
    BY TypesAssumption DEF IsPureWant
  <2>2. QED
    BY <2>1 DEF Pending, Wanted, Covered, AllUses
<1>4. ASSUME NEW i \in DOMAIN inputs PROVE Settles(i)
  <2>1. CASE ~ \E a \in uses : a.input = i
    BY <1>1, <2>1, ResolveFacts DEF Settles
  <2>2. CASE \E a \in uses : a.input = i
    <3>1. PICK a \in uses : a.input = i
      BY <2>2
    <3>2. a \in AllUses /\ ~IsPureWant(a.want)
      BY <3>1 DEF Pending
    <3>3. /\ inputs[i].given = Raw
          /\ MutableNow(i, uses) \in BOOLEAN
          /\ \/ /\ inputs[i].ref \in SharedObjects \ PureVars
                /\ inputs'[i].value = Shared(MutableNow(i, uses))
             \/ /\ inputs[i].ref \in (Objects \ SharedObjects) \ PureVars
                /\ inputs'[i].value = Owned
          /\ inputs'[i].ref = inputs[i].ref
          /\ inputs'[i].given = inputs[i].given
      BY <1>1, <2>2, ResolveFacts
    <3>4. CASE IsRaw(i)
      <4>1. inputs[i].value.mut = FALSE
        BY <3>4, ValueKinds DEF IsRaw
      <4>2. MutableNow(i, uses) <=> Wanted(i, "mutref")
        BY <1>3, <3>4, <4>1 DEF MutableNow
      <4>3. QED
        BY <3>1, <3>2, <3>3, <3>4, <4>2 DEF Settles
    <3>5. CASE ~IsRaw(i)
      <4>1. inputs[i].value # inputs[i].given /\ ResolvedAsUsed(i)
        BY <1>1, <3>3, <3>5 DEF IsRaw, BaseInv
      <4>2. \A t \in PureTypes : ~Wanted(i, t)
        BY <1>1, <3>3 DEF Wanted, BaseInv, ArgumentsRefer, IsPureWant
      <4>3. CASE inputs[i].ref \in SharedObjects
        <5>1. PICK m \in BOOLEAN : inputs[i].value = Shared(m)
          BY <4>1, <4>2, <4>3 DEF ResolvedAsUsed
        <5>2. Shared(m).mut = m /\ Shared(m).k = "shared"
          BY ValueKinds
        <5>3. inputs[i].value.mut = m /\ inputs[i].value.k = "shared"
          BY <5>1, <5>2, Zenon
        <5>4. m <=> Wanted(i, "mutref")
          BY <1>1, <3>3, <5>3 DEF MutabilityFinal
        <5>5. MutableNow(i, uses) <=> m
          BY <1>3, <5>3, <5>4 DEF MutableNow
        <5>6. MutableNow(i, uses) = m
          BY <3>3, <5>5
        <5>7. inputs'[i].value = inputs[i].value
          BY <3>3, <4>3, <5>1, <5>6
        <5>8. QED
          BY <1>1, <1>2, <5>7, SameInput DEF Settles
      <4>4. CASE inputs[i].ref \notin SharedObjects
        <5>1. inputs[i].value = Owned
          BY <4>1, <4>2, <4>4 DEF ResolvedAsUsed
        <5>2. inputs'[i].value = inputs[i].value
          BY <3>3, <4>4, <5>1
        <5>3. QED
          BY <1>1, <1>2, <5>2, SameInput DEF Settles
      <4>5. QED
        BY <4>3, <4>4
    <3>6. QED
      BY <3>4, <3>5
  <2>3. QED
    BY <2>1, <2>2
<1>5. ObjectsResolved'
  <2>1. AllUses' = AllUses
    BY DEF AllUses, UsesOf
  <2> SUFFICES ASSUME NEW a \in AllUses, ~IsPureWant(a.want), inputs'[a.input].value = Raw
               PROVE  FALSE
    BY <2>1 DEF ObjectsResolved, IsRaw
  <2>2. a.input \in DOMAIN inputs
    BY <1>1 DEF BaseInv, ArgumentsRefer
  <2>3. a \notin uses
    <3>1. Owned # Raw /\ \A m : Shared(m) # Raw
      <4>1. Owned.k # Raw.k /\ \A m : Shared(m).k # Raw.k
        BY ValueKinds
      <4>2. QED
        BY <4>1
    <3>2. QED
      BY <1>1, <2>2, <3>1, ResolveFacts
  <2>4. IsRaw(a.input)
    <3>1. Settles(a.input)
      BY <1>4, <2>2
    <3>2. QED
      BY <3>1 DEF Settles, IsRaw
  <2>5. QED
    BY <2>3, <2>4 DEF Covered, AllUses
<1>6. QED
  BY <1>2, <1>4, <1>5

LEMMA SettledObjects ==
    ASSUME SettledInv, BaseInv', NEW b \in Builds, ObjectsArrive(b)
    PROVE  SettledInv'
<1>1. /\ Shape /\ BaseInv /\ build[b] \in BuildStates /\ StageOf(build[b])
      /\ MeasuredHere(gas.budget)
      /\ PaysApart(gas.payment)
      /\ Pending(build[b].toResolve)
  BY SettledBuild, BuildStays
<1>2. build[b].tx = "objects" /\ build[b].pc \in {"resolving", "failed"}
  BY <1>1, SettledOver DEF BuildStates, ObjectsArrive
<1>3. UNCHANGED <<transactions, gas>>
  BY DEF ObjectsArrive
<1>4. CASE \E a \in build[b].toResolve : inputs[a.input].ref \in MissingObjects
  <2> DEFINE pc  == Failed(b)
             new == [build[b] EXCEPT !.tx = "aborted", !.pc = pc]
  <2>1. build' = [build EXCEPT ![b] = new] /\ UNCHANGED inputs
    BY <1>1, <1>4, BuildShapes DEF ObjectsArrive
  <2>2. pc \in {"resolving", "failed"}
    BY <1>2, FailedPc
  <2> HIDE DEF pc
  <2>3. new \in BuildStates /\ new.pc = pc /\ new.tx = "aborted"
    BY <1>1, <2>2 DEF BuildStates
  <2> HIDE DEF new
  <2>4. StageOf(new)
    BY <2>2, <2>3 DEF StageOf
  <2>5. QED
    BY <1>1, <1>3, <2>1, <2>2, <2>3, <2>4, StillSettles
<1>5. CASE ~ \E a \in build[b].toResolve : inputs[a.input].ref \in MissingObjects
  <2> DEFINE new == [build[b] EXCEPT !.tx = "ready"]
  <2>1. /\ build' = [build EXCEPT ![b] = new]
        /\ inputs' = ResolveObjects(build[b].toResolve)
    BY <1>1, <1>5, BuildShapes DEF ObjectsArrive
  <2>2. /\ new \in BuildStates
        /\ new.pc = build[b].pc /\ new.tx = "ready" /\ new.calls = build[b].calls
        /\ new.toResolve = build[b].toResolve
    BY <1>1 DEF BuildStates
  <2> HIDE DEF new
  <2>3. build[b].calls = {} /\ Covered({}, build[b].toResolve)
    BY <1>1, <1>2 DEF StageOf
  <2>4. /\ InputsMove /\ \A i \in DOMAIN inputs : Settles(i)
        /\ ObjectsResolved'
    BY <1>1, <1>3, <2>1, <2>3, ResolveSettles
  <2>5. PICK after : after = new
    OBVIOUS
  <2>6. /\ after \in BuildStates /\ build' = [build EXCEPT ![b] = after]
        /\ after.pc \in {"resolving", "failed"} /\ after.tx = "ready" /\ after.calls = {}
    BY <1>2, <2>1, <2>2, <2>3, <2>5
  <2>7. StageOf(after)'
    BY <2>4, <2>6 DEF StageOf
  <2>8. PICK payment, budget : payment = gas.payment /\ budget = gas.budget
    OBVIOUS
  <2>9. QED
    BY <1>1, <1>3, <2>4, <2>6, <2>7, <2>8, BuildSettles
<1>6. QED
  BY <1>4, <1>5

LEMMA SettledInit == Init => SettledInv
<1> SUFFICES ASSUME Init PROVE SettledInv
  OBVIOUS
<1>1. /\ inputs = <<>> /\ DOMAIN inputs = {}
      /\ \A b \in Builds : build[b] = Idle
      /\ gas = [price |-> FALSE, payment |-> NoPayment, budget |-> NoBudget]
  BY DEF Init
<1>2. Idle.pc = "idle" /\ Idle.tx = "none" /\ Idle.calls = {}
  BY DEF Idle
<1>3. gas.payment = NoPayment /\ gas.budget.from = "nobody"
  BY <1>1 DEF NoBudget
<1>4. Fresh
  BY <1>1, <1>3 DEF Fresh
<1>5. Stages
  BY <1>1, <1>2 DEF Stages, StageOf
<1>6. MutabilityFinal
  BY <1>1 DEF MutabilityFinal
<1>7. Measured /\ Payments
  BY <1>1, <1>2, <1>3 DEF Measured, MeasuredHere, Payments, PaysApart, Done
<1>8. QED
  BY <1>4, <1>5, <1>6, <1>7, BaseInit DEF SettledInv

LEMMA SettledStep ==
    ASSUME SettledInv, [Next]_vars, ~EditsBetween
    PROVE  SettledInv'
<1>1. BaseInv'
  BY BaseStep DEF SettledInv
<1>2. CASE Edit
  BY <1>1, <1>2, SettledEdits
<1>3. CASE \E b \in Builds, kind \in BOOLEAN : Start(b, kind)
  BY <1>1, <1>3, SettledStarts
<1>4. ASSUME NEW b \in Builds, Step(b) PROVE SettledInv'
  BY <1>1, <1>4, SettledConfig, SettledPrice, SettledSignature, SettledObjects, SettledPayment,
     SettledCoins, SettledBudget, SettledDryRun, SettledFinish DEF Step
<1>5. CASE \E b \in Builds, j \in DOMAIN transactions : SignatureFails(b, j)
  BY <1>1, <1>5, SettledSignatureFails
<1>6. CASE \E b \in Builds : RpcFails(b)
  BY <1>1, <1>6, SettledRpcFails
<1>7. CASE UNCHANGED vars
  BY <1>1, <1>7 DEF vars, SettledInv, Fresh, Quiet, Stages, StageOf, Covered, ObjectsResolved, AllUses,
     UsesOf, IsRaw, MutabilityFinal, Wanted, Measured, MeasuredHere, Block, AllResolved, Payments,
     PaysApart, Done
<1>8. QED
  BY <1>2, <1>3, <1>4, <1>5, <1>6, <1>7 DEF Next

\* The invariant of a block nobody edits once a build has started: nothing is
\* resolved, measured or paid before; a build that stops waiting has resolved
\* every object; what is resolved, measured and paid then is final.
THEOREM SettledInvHolds ==
    ASSUME ~EditsBetween
    PROVE  Spec => []SettledInv
<1>1. Init => SettledInv
  BY SettledInit
<1>2. SettledInv /\ [Next]_vars => SettledInv'
  BY SettledStep
<1>3. QED
  BY <1>1, <1>2, PTL DEF Spec

\* Whatever builds overlap or fail half-way, a shared object is passed as
\* mutable exactly when some command of the same bytes takes it by mutable
\* reference, if the block is not edited once a build has started.
THEOREM SpecSharedMutableIffWanted ==
    ASSUME ~EditsBetween
    PROVE  Spec => []SharedMutableIffWanted
<1>1. ASSUME SettledInv PROVE SharedMutableIffWanted
  <2> SUFFICES ASSUME NEW b \in Builds, Done(b),
                      NEW i \in DOMAIN build[b].bytes.block.inputs,
                      build[b].bytes.block.inputs[i].given = Raw,
                      build[b].bytes.block.inputs[i].value.k = "shared"
               PROVE  build[b].bytes.block.inputs[i].value.mut
                        <=> "mutref" \in WantedOf(build[b].bytes.block, i)
    BY DEF SharedMutableIffWanted
  <2>1. build[b].bytes.block = Block /\ Block.inputs = inputs
    BY <1>1 DEF SettledInv, Measured, Block
  <2>2. inputs[i].value.mut <=> Wanted(i, "mutref")
    BY <1>1, <2>1 DEF SettledInv, MutabilityFinal
  <2>3. QED
    BY <2>1, <2>2, WantedOfBlock
<1>2. QED
  BY <1>1, SettledInvHolds, PTL

\* The gas coins a build picked are not objects the same bytes use as input,
\* if the block is not edited once a build has started.
THEOREM SpecGasCoinsNotInputs ==
    ASSUME ~EditsBetween
    PROVE  Spec => []GasCoinsNotInputs
<1>1. ASSUME SettledInv PROVE GasCoinsNotInputs
  <2> SUFFICES ASSUME NEW b \in Builds, Done(b), build[b].bytes.payment # UserPayment,
                      NEW i \in DOMAIN build[b].bytes.block.inputs,
                      build[b].bytes.block.inputs[i].value = Owned
               PROVE  build[b].bytes.block.inputs[i].ref \notin ToSet(build[b].bytes.payment)
    BY DEF GasCoinsNotInputs
  <2>1. /\ build[b].bytes.block = Block /\ Block.inputs = inputs
        /\ PaysApart(build[b].bytes.payment)
    BY <1>1 DEF SettledInv, Measured, Payments, Block
  <2>2. CASE build[b].bytes.payment = NoPayment
    BY <2>2 DEF NoPayment, ToSet
  <2>3. CASE build[b].bytes.payment # NoPayment
    BY <2>1, <2>3 DEF PaysApart
  <2>4. QED
    BY <2>2, <2>3
<1>2. QED
  BY <1>1, SettledInvHolds, PTL

\* A computed budget was measured on the very block it is sent with, if the
\* block is not edited once a build has started.
THEOREM SpecBudgetOfTheseBytes ==
    ASSUME ~EditsBetween
    PROVE  Spec => []BudgetOfTheseBytes
<1>1. SettledInv => BudgetOfTheseBytes
  BY DEF SettledInv, Measured, MeasuredHere, BudgetOfTheseBytes
<1>2. QED
  BY <1>1, SettledInvHolds, PTL
=============================================================================
