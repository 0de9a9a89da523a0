------------------------------- MODULE Signing -------------------------------
(***************************************************************************)
(* Parties with keypairs prepare, sign, restore and submit one transaction  *)
(* block, for single-key and MultiSig accounts and with a sponsor as gas    *)
(* owner: src/signers, src/builder/TransactionBlockData.ts and the keys and *)
(* signatures of module Signatures. The full node accepts a transaction for *)
(* an account when the signature it is given verifies and is the account's. *)
(*                                                                         *)
(* How a block's inputs, gas price, payment and budget are found is module  *)
(* TransactionBlock's subject: here they are set once, and what a step can  *)
(* change about a block is its sender and its gas owner.                    *)
(***************************************************************************)
EXTENDS Signatures, SequencesExt

CONSTANTS
    Keys,         \* the keypairs' keys
    MultiSigs,    \* the MultiSig public keys
    Messages,     \* personal messages besides transaction bytes
    Senders,      \* accounts the user sets as sender
    Sponsors,     \* accounts the user sets as gas owner
    None,         \* the undefined sender or gas owner
    Kind,         \* the block's inputs and commands
    MaxBuilt,     \* bound: different transactions built
    MaxSigs       \* bound: signatures held

ASSUME KeysAssumption ==
    /\ \A key \in Keys : key.scheme \in Schemes /\ key = [scheme |-> key.scheme, bytes |-> key.bytes]
    /\ \A key, other \in Keys : key.bytes = other.bytes => key = other

ASSUME MultiSigsAssumption ==
    \A pk \in MultiSigs :
        /\ pk.pk_map \in Seq([key : Keys, weight : Nat])
        /\ pk.threshold \in Nat

Accounts == {ToSuiAddress(key) : key \in Keys} \cup {MultiSigAddress(pk) : pk \in MultiSigs}

ASSUME AccountsAssumption ==
    /\ Senders \subseteq Accounts
    /\ Sponsors \subseteq Accounts
    /\ None \notin Accounts

VARIABLES
    block,      \* the transaction block at hand
    built,      \* transaction bytes that were produced
    keyring,    \* the keypair each party works with
    sigs,       \* single signatures that were returned
    approved,   \* <<key, tx>>: the key's holder asked to sign this transaction
    vouched,    \* <<key, message>>: asked to sign this personal message
    accepted    \* <<account, tx>>: the node has accepted tx for the account

vars == <<block, built, keyring, sigs, approved, vouched, accepted>>

Txs == [kind : {Kind}, sender : Accounts, owner : Accounts]

Blocks == [kind : {Kind}, sender : Accounts \cup {None}, owner : Accounts \cup {None}]

EmptyBlock == [kind |-> Kind, sender |-> None, owner |-> None]

Init ==
    /\ block = EmptyBlock
    /\ built = {}
    /\ keyring = [key \in Keys |-> key]
    /\ sigs = {}
    /\ approved = {}
    /\ vouched = {}
    /\ accepted = {}

-----------------------------------------------------------------------------
(* Blocks and their bytes *)

SetSenderIfNotSet(b, address) ==
    IF b.sender = None THEN [b EXCEPT !.sender = address] ELSE b

(* TransactionBlockDataBuilder.build: the gas owner is the sender unless set. *)
Build(b) == [kind   |-> b.kind,
             sender |-> b.sender,
             owner  |-> IF b.owner = None THEN b.sender ELSE b.owner]

(* Mutant: the gas data does not come back. *)
MutFromBytes(tx) == [kind |-> tx.kind, sender |-> tx.sender, owner |-> None]

FromBytes(tx) == [kind |-> tx.kind, sender |-> tx.sender, owner |-> tx.owner]

FromKindBytes(kind) == [EmptyBlock EXCEPT !.kind = kind]

(* The bytes a signer works on, and the block it leaves. *)
Prepared(b, party) == SetSenderIfNotSet(b, ToSuiAddress(keyring[party]))

CanBuild(tx) == tx \in built \/ Cardinality(built) < MaxBuilt

CanSign(signature) == signature \in sigs \/ Cardinality(sigs) < MaxSigs

SetSender(account) ==
    /\ block' = [block EXCEPT !.sender = account]
    /\ UNCHANGED <<built, keyring, sigs, approved, vouched, accepted>>

SetGasOwner(account) ==
    /\ block' = [block EXCEPT !.owner = account]
    /\ UNCHANGED <<built, keyring, sigs, approved, vouched, accepted>>

(* build() throws without a sender. *)
BuildBlock ==
    /\ block.sender # None
    /\ CanBuild(Build(block))
    /\ built' = built \cup {Build(block)}
    /\ UNCHANGED <<block, keyring, sigs, approved, vouched, accepted>>

(* A party that was sent transaction bytes makes a block of them again. *)
Restore(tx) ==
    /\ block' = FromBytes(tx)
    /\ UNCHANGED <<built, keyring, sigs, approved, vouched, accepted>>

(* The sponsor's way: build({onlyTransactionKind}) and fromKind. *)
RestoreKind ==
    /\ block' = FromKindBytes(block.kind)
    /\ UNCHANGED <<built, keyring, sigs, approved, vouched, accepted>>

(* dryRunTransactionBlock, getTransactionBlockDigest, getGasCostEstimation and
   the client's devInspect keep no bytes but leave the sender set. *)
Inspect(party) ==
    /\ block' = Prepared(block, party)
    /\ UNCHANGED <<built, keyring, sigs, approved, vouched, accepted>>

-----------------------------------------------------------------------------
(* Signing *)

(* signTransactionBlock of a block: prepareTransactionBlock, then the
   signature; signAndExecuteTransactionBlock hands it to Submit. *)
SignBlock(party) ==
    LET prepared  == Prepared(block, party)
        tx        == Build(prepared)
        signature == RawSignData(keyring[party], MessageWithIntent("TransactionData", tx))
    IN  /\ CanBuild(tx)
        /\ CanSign(signature)
        /\ block' = prepared
        /\ built' = built \cup {tx}
        /\ sigs' = sigs \cup {signature}
        /\ approved' = approved \cup {<<keyring[party], tx>>}
        /\ UNCHANGED <<keyring, vouched, accepted>>

(* Keypair.signTransactionBlock of bytes. *)
SignBytes(party, tx) ==
    LET signature == SignTransactionData(keyring[party], tx)
    IN  /\ CanSign(signature)
        /\ sigs' = sigs \cup {signature}
        /\ approved' = approved \cup {<<keyring[party], tx>>}
        /\ UNCHANGED <<block, built, keyring, vouched, accepted>>

SignMessage(party, message) ==
    LET signature == SignPersonalMessage(keyring[party], message)
    IN  /\ CanSign(signature)
        /\ sigs' = sigs \cup {signature}
        /\ vouched' = vouched \cup {<<keyring[party], message>>}
        /\ UNCHANGED <<block, built, keyring, approved, accepted>>

(* fromExportedKeypair(keypair.export()), with new or old exports. *)
ReimportKeypair(party, size) ==
    LET exported == Export(keyring[party], size)
    IN  /\ ~ FromExportedThrows(exported)
        /\ keyring' = [keyring EXCEPT ![party] = FromExported(exported)]
        /\ UNCHANGED <<block, built, sigs, approved, vouched, accepted>>

-----------------------------------------------------------------------------
(* The node *)

(* Checked for the sender's account and for the gas owner's. *)
NodeAccepts(account, tx, serialized) ==
    /\ AccountOf(serialized) = account
    /\ VerifyTransactionBlock(tx, serialized)

Accept(account, tx) ==
    /\ account \in {tx.sender, tx.owner}
    /\ accepted' = accepted \cup {<<account, tx>>}
    /\ UNCHANGED <<block, built, keyring, sigs, approved, vouched>>

Submit(account, tx) ==
    /\ Accept(account, tx)
    /\ \E serialized \in sigs : NodeAccepts(account, tx, serialized)

(* Signatures that were collected in any order, put together. *)
Collections(pk) == UNION {[1 .. n -> sigs] : n \in 0 .. Len(pk.pk_map)}

SubmitMultiSig(account, pk, tx) ==
    /\ ConstructorAccepts(pk)
    /\ Accept(account, tx)
    /\ \E collected \in Collections(pk) :
        /\ ~ CombineThrows(collected, pk)
        /\ NodeAccepts(account, tx, Combine(collected, pk))

SubmitLegacyMultiSig(account, pk, tx) ==
    /\ Accept(account, tx)
    /\ \E collected \in Collections(pk) : NodeAccepts(account, tx, CombineLegacy(collected, pk))

Next ==
    \/ \E account \in Senders : SetSender(account)
    \/ \E account \in Sponsors : SetGasOwner(account)
    \/ BuildBlock
    \/ \E tx \in built : Restore(tx)
    \/ RestoreKind
    \/ \E party \in Keys :
        \/ Inspect(party)
        \/ SignBlock(party)
        \/ \E tx \in built : SignBytes(party, tx)
        \/ \E message \in Messages \cup built : SignMessage(party, message)
        \/ \E size \in {32, 64} : ReimportKeypair(party, size)
    \/ \E tx \in built, account \in Accounts :
        \/ Submit(account, tx)
        \/ \E pk \in MultiSigs : SubmitMultiSig(account, pk, tx)
        \/ \E pk \in MultiSigs : SubmitLegacyMultiSig(account, pk, tx)

Spec == Init /\ [][Next]_vars

-----------------------------------------------------------------------------
(* Properties *)

TypeOK ==
    /\ block \in Blocks
    /\ built \subseteq Txs
    /\ keyring \in [Keys -> Keys]
    /\ \A s \in sigs : ParsedKey(s) \in Keys
    /\ approved \subseteq Keys \X Txs
    /\ vouched \subseteq Keys \X (Messages \cup Txs)
    /\ accepted \subseteq Accounts \X Txs

(* Who can act for an account: the key itself, or keys of the MultiSig list
   whose weights reach the threshold. *)
KeysAt(pk, positions) == {pk.pk_map[i].key : i \in positions}

QuorumsOf(account) ==
    {{key} : key \in {key \in Keys : ToSuiAddress(key) = account}}
    \cup UNION {{KeysAt(pk, positions) :
                    positions \in {p \in SUBSET DOMAIN pk.pk_map : ReachesThreshold(pk, p)}} :
                pk \in {pk \in MultiSigs : MultiSigAddress(pk) = account}}

Quorums == [account \in Accounts |-> QuorumsOf(account)]

A == INSTANCE Approval WITH Parties <- Keys

(* The signing formats keep the promise of module Approval: whatever was
   signed, collected and combined by whichever code path, a transaction is
   accepted for an account only once a quorum of its keys asked to sign that
   transaction, as a transaction. *)
ImplementsApproval == A!Spec

(* The held signatures of the keys at these positions over tx, in key order. *)
InKeyOrder(pk, positions, tx) ==
    [i \in 1 .. Cardinality(positions) |->
        SignTransactionData(pk.pk_map[Nth(positions, i)].key, tx)]

(* A key may stand in the list twice; its signature then counts for the first. *)
FirstPositions(pk) ==
    {i \in DOMAIN pk.pk_map : \A j \in 1 .. i - 1 : pk.pk_map[j].key # pk.pk_map[i].key}

DecodedAsSigned(pk, positions, serialized) ==
    /\ ~ ParseThrows(serialized)
    /\ {<<d.pubKey, d.weight>> : d \in ToSet(DecodeMultiSig(serialized))}
            = {<<pk.pk_map[i].key, pk.pk_map[i].weight>> : i \in positions}
    /\ \A i \in DOMAIN serialized.sigs :
        DecodeMultiSig(serialized)[i].pubKey.bytes = serialized.sigs[i].by

(* Once keys that reach the threshold have signed a transaction, on blocks or
   on bytes, with re-imported keypairs or not, their signatures put together
   in key order speak for the account: for both combiners and however many
   keys below the limit the account has. Decoding the MultiSig gives back each
   signature with the key that made it and that key's weight. *)
QuorumSuffices ==
    \A pk \in MultiSigs, tx \in built :
        ConstructorAccepts(pk) =>
            \A positions \in SUBSET FirstPositions(pk) :
                (/\ ReachesThreshold(pk, positions)
                 /\ \A i \in positions : <<pk.pk_map[i].key, tx>> \in approved)
                => LET inOrder == InKeyOrder(pk, positions, tx)
                   IN  /\ ToSet(inOrder) \subseteq sigs
                       /\ ~ CombineThrows(inOrder, pk)
                       /\ VerifyTransactionBlock(tx, Combine(inOrder, pk))
                       /\ VerifyTransactionBlock(tx, CombineLegacy(inOrder, pk))
                       /\ DecodedAsSigned(pk, positions, Combine(inOrder, pk))

(* multisig.ts:84-87: the signatures must come in the order of the keys. The
   combiners do not check it, and what they make of another order, of a
   repeated signature or of a stranger's signature never verifies. *)
OutOfOrderNeverVerifies ==
    \A pk \in MultiSigs, tx \in built : \A collected \in Collections(pk) :
        VerifyTransactionBlock(tx, CombineLegacy(collected, pk)) =>
            /\ \A i \in DOMAIN collected : PositionOf(pk, collected[i].publicKey) # 0
            /\ \A i, j \in DOMAIN collected : i < j =>
                PositionOf(pk, collected[i].publicKey) < PositionOf(pk, collected[j].publicKey)
            /\ ~ CombineThrows(collected, pk)

(* A signature counts for what it was asked for and for nothing else, though
   personal messages may be the very bytes of a transaction. The deprecated
   verifyMessage also takes messages without their length prefix, as old SDK
   versions signed them: what it accepts was asked for as it stands, or is the
   length-prefixed form of a message that was. *)
IntentsKeptApart ==
    \A s \in sigs :
        LET key == ParsedKey(s) IN
        /\ \A tx \in built :
            /\ VerifyTransactionBlock(tx, s)
                    <=> <<key, tx>> \in approved /\ s = SignTransactionData(key, tx)
            /\ LegacyVerifyMessage(key, tx, s.signature, "TransactionData")
                    => VerifyTransactionBlock(tx, s)
        /\ \A message \in Messages \cup built :
            /\ VerifyPersonalMessage(message, s)
                    <=> <<key, message>> \in vouched /\ s = SignPersonalMessage(key, message)
            /\ LegacyVerifyMessage(key, message, s.signature, "PersonalMessage")
                    => \E asked \in Messages \cup built :
                        /\ message \in {asked, BcsVector(asked)}
                        /\ VerifyPersonalMessage(asked, s)

(* Whoever restores a block from its bytes prepares the same bytes again, so
   that several parties sign one transaction. *)
RestoredIsSame ==
    \A tx \in built, party \in Keys : Build(Prepared(FromBytes(tx), party)) = tx

(* Exporting and importing a keypair keeps its account. *)
AccountKept ==
    [][\A party \in Keys : ToSuiAddress(keyring'[party]) = ToSuiAddress(keyring[party])]_vars
=============================================================================
