---------------------------- MODULE SigningProofs ----------------------------
(***************************************************************************)
(* Theorems about Signing for every set of keys, MultiSig lists, messages   *)
(* and bounds: types, kept accounts, and the refinement of Approval.  Then  *)
(* what the signatures verify for: a signature counts for what it was asked *)
(* for, signatures out of key order never verify together, and those of a   *)
(* quorum in key order always do, for lists with repeated keys and any      *)
(* limit of signers.                                                        *)
(***************************************************************************)
EXTENDS Signing, RankProofs

\* Single signatures are labelled with the key that made them.
SigsLabelled ==
    \A s \in sigs :
        /\ ParsedKey(s) \in Keys
        /\ s.flag \in Schemes
        /\ s.signature.scheme = s.flag
        /\ s.signature.by = s.publicKey

\* A raw signature over a transaction was asked for by the key's holder: what
\* makes an acceptance, a step that reads sigs only, imply an approval.
SigsApproved ==
    \A s \in sigs : \A key \in Keys, tx \in Txs :
        RawVerifies(key, TxDigest(tx), s.signature) => <<key, tx>> \in approved

IInv == TypeOK /\ SigsLabelled /\ SigsApproved

-----------------------------------------------------------------------------
\* Facts about keys and formats.

LEMMA KeyParts ==
    ASSUME NEW key \in Keys
    PROVE  /\ key.scheme \in Schemes
           /\ key = [scheme |-> key.scheme, bytes |-> key.bytes]
           /\ \A other \in Keys : key.bytes = other.bytes => key = other
  BY KeysAssumption

LEMMA ListShape ==
    ASSUME NEW pk \in MultiSigs
    PROVE  /\ Len(pk.pk_map) \in Nat
           /\ DOMAIN pk.pk_map = 1 .. Len(pk.pk_map)
           /\ \A i \in DOMAIN pk.pk_map : pk.pk_map[i].key \in Keys
<1> DEFINE Members == [key : Keys, weight : Nat]
<1>1. pk.pk_map \in Seq(Members)
  BY MultiSigsAssumption
<1>2. \A m \in Members : m.key \in Keys
  OBVIOUS
<1> HIDE DEF Members
<1>3. /\ Len(pk.pk_map) \in Nat
      /\ DOMAIN pk.pk_map = 1 .. Len(pk.pk_map)
      /\ \A i \in DOMAIN pk.pk_map : pk.pk_map[i] \in Members
  BY <1>1
<1>4. QED
  BY <1>2, <1>3

\* A signature made by a key over an intent message parses back to the key.
LEMMA MadeLabelled ==
    ASSUME NEW key \in Keys, NEW data, NEW s,
           s = ToSerializedSignature(key, SignData(key, data))
    PROVE  /\ ParsedKey(s) = key
           /\ s.flag \in Schemes
           /\ s.signature = SignData(key, data)
           /\ s.signature.scheme = s.flag
           /\ s.signature.by = s.publicKey
<1>1. /\ s.flag = key.scheme
      /\ s.publicKey = key.bytes
      /\ s.signature = SignData(key, data)
  BY DEF ToSerializedSignature
<1>2. SignData(key, data).scheme = key.scheme /\ SignData(key, data).by = key.bytes
  BY DEF SignData
<1>3. QED
  BY <1>1, <1>2, KeyParts DEF ParsedKey

\* Raw signatures are equal only for the same key and the same data.
LEMMA RawInjective ==
    ASSUME NEW key \in Keys, NEW other \in Keys, NEW data, NEW otherData,
           RawVerifies(key, data, SignData(other, otherData))
    PROVE  key = other /\ data = otherData
<1>1. SignData(other, otherData) = SignData(key, data)
  BY DEF RawVerifies
<1>2. /\ other.bytes = key.bytes
      /\ PreHashed(other.scheme, otherData) = PreHashed(key.scheme, data)
  <2>1. /\ SignData(other, otherData).by = other.bytes
        /\ SignData(key, data).by = key.bytes
        /\ SignData(other, otherData).over = PreHashed(other.scheme, otherData)
        /\ SignData(key, data).over = PreHashed(key.scheme, data)
    BY DEF SignData
  <2>2. QED
    BY <1>1, <2>1
<1>3. key = other
  BY <1>2, KeyParts
<1>4. data = otherData
  <2>1. CASE key.scheme = "ED25519"
    BY <1>2, <1>3, <2>1 DEF PreHashed
  <2>2. CASE key.scheme # "ED25519"
    <3>1. Sha256(data) = Sha256(otherData)
      BY <1>2, <1>3, <2>2 DEF PreHashed
    <3>2. Sha256(data).sha256 = data /\ Sha256(otherData).sha256 = otherData
      BY DEF Sha256
    <3>3. QED
      BY <3>1, <3>2
  <2>3. QED
    BY <2>1, <2>2
<1>5. QED
  BY <1>3, <1>4

\* The intent keeps transactions apart from each other and from messages.
LEMMA IntentInjective ==
    ASSUME NEW scope, NEW other, NEW bytes, NEW otherBytes,
           Blake2b(MessageWithIntent(scope, bytes)) = Blake2b(MessageWithIntent(other, otherBytes))
    PROVE  scope = other /\ bytes = otherBytes
<1>1. MessageWithIntent(scope, bytes) = MessageWithIntent(other, otherBytes)
  <2>1. /\ Blake2b(MessageWithIntent(scope, bytes)).blake2b = MessageWithIntent(scope, bytes)
        /\ Blake2b(MessageWithIntent(other, otherBytes)).blake2b
              = MessageWithIntent(other, otherBytes)
    BY DEF Blake2b
  <2>2. QED
    BY <2>1
<1>2. /\ MessageWithIntent(scope, bytes).scope = scope
      /\ MessageWithIntent(scope, bytes).message = bytes
      /\ MessageWithIntent(other, otherBytes).scope = other
      /\ MessageWithIntent(other, otherBytes).message = otherBytes
  BY DEF MessageWithIntent
<1>3. QED
  BY <1>1, <1>2

\* An export that is taken back gives the same keypair.
LEMMA ReimportSame ==
    ASSUME NEW key \in Keys, NEW size, ~ FromExportedThrows(Export(key, size))
    PROVE  FromExported(Export(key, size)) = key
<1>1. Export(key, size).schema = key.scheme /\ Export(key, size).secret = key.bytes
  BY DEF Export
<1>2. key.scheme \in {"ED25519", "Secp256k1"}
  BY <1>1 DEF FromExportedThrows
<1>3. FromExported(Export(key, size)) = [scheme |-> key.scheme, bytes |-> key.bytes]
  BY <1>1, <1>2 DEF FromExported
<1>4. QED
  BY <1>3, KeyParts

LEMMA KeyAccount ==
    ASSUME NEW key \in Keys
    PROVE  ToSuiAddress(key) \in Accounts /\ ToSuiAddress(key) # None
  BY AccountsAssumption DEF Accounts

\* build() of a block with a sender gives transaction bytes.
LEMMA BuildInTxs ==
    ASSUME NEW b \in Blocks, b.sender # None
    PROVE  Build(b) \in Txs
  BY DEF Build, Blocks, Txs

\* prepareTransactionBlock always leaves a sender.
LEMMA PreparedHasSender ==
    ASSUME TypeOK, NEW party \in Keys
    PROVE  Prepared(block, party) \in Blocks /\ Prepared(block, party).sender # None
<1>1. keyring[party] \in Keys /\ block \in Blocks
  BY DEF TypeOK
<1>2. /\ ToSuiAddress(keyring[party]) \in Accounts
      /\ ToSuiAddress(keyring[party]) # None
  BY <1>1, KeyAccount
<1>3. QED
  BY <1>1, <1>2 DEF Prepared, SetSenderIfNotSet, Blocks

\* The three ways to sign give a labelled signature of the party's key.
LEMMA SignedByKey ==
    ASSUME NEW key \in Keys, NEW bytes
    PROVE  /\ SignTransactionData(key, bytes)
                = ToSerializedSignature(key, SignData(key, TxDigest(bytes)))
           /\ RawSignData(key, MessageWithIntent("TransactionData", bytes))
                = ToSerializedSignature(key, SignData(key, TxDigest(bytes)))
           /\ SignPersonalMessage(key, bytes)
                = ToSerializedSignature(key, SignData(key,
                    Blake2b(MessageWithIntent("PersonalMessage", BcsVector(bytes)))))
  BY DEF SignTransactionData, SignPersonalMessage, SignWithIntent, RawSignData, TxDigest

-----------------------------------------------------------------------------
\* The types hold initially and are kept by every step.

LEMMA TypeInit ==
    ASSUME Init
    PROVE  TypeOK
<1>1. EmptyBlock \in Blocks
  BY DEF EmptyBlock, Blocks
<1>2. QED
  BY <1>1 DEF Init, TypeOK

LEMMA TypeStep ==
    ASSUME TypeOK, [Next]_vars
    PROVE  TypeOK'
<1>1. ASSUME NEW account \in Senders, SetSender(account)
      PROVE  TypeOK'
  <2>1. account \in Accounts
    BY AccountsAssumption
  <2>2. block' \in Blocks
    BY <1>1, <2>1 DEF TypeOK, SetSender, Blocks
  <2>3. QED
    BY <1>1, <2>2 DEF TypeOK, SetSender
<1>2. ASSUME NEW account \in Sponsors, SetGasOwner(account)
      PROVE  TypeOK'
  <2>1. account \in Accounts
    BY AccountsAssumption
  <2>2. block' \in Blocks
    BY <1>2, <2>1 DEF TypeOK, SetGasOwner, Blocks
  <2>3. QED
    BY <1>2, <2>2 DEF TypeOK, SetGasOwner
<1>3. ASSUME BuildBlock
      PROVE  TypeOK'
  <2>1. Build(block) \in Txs
    BY <1>3, BuildInTxs DEF TypeOK, BuildBlock
  <2>2. QED
    BY <1>3, <2>1 DEF TypeOK, BuildBlock
<1>4. ASSUME NEW tx \in built, Restore(tx)
      PROVE  TypeOK'
  <2>1. tx \in Txs
    BY DEF TypeOK
  <2>2. block' \in Blocks
    BY <1>4, <2>1 DEF Restore, FromBytes, Txs, Blocks
  <2>3. QED
    BY <1>4, <2>2 DEF TypeOK, Restore
<1>5. ASSUME RestoreKind
      PROVE  TypeOK'
  <2>1. block' \in Blocks
    BY <1>5 DEF TypeOK, RestoreKind, FromKindBytes, EmptyBlock, Blocks
  <2>2. QED
    BY <1>5, <2>1 DEF TypeOK, RestoreKind
<1>6. ASSUME NEW party \in Keys, Inspect(party)
      PROVE  TypeOK'
  <2>1. block' \in Blocks
    BY <1>6, PreparedHasSender DEF Inspect
  <2>2. QED
    BY <1>6, <2>1 DEF TypeOK, Inspect
<1>7. ASSUME NEW party \in Keys, SignBlock(party)
      PROVE  TypeOK'
  <2> DEFINE tx == Build(Prepared(block, party))
             signature == RawSignData(keyring[party], MessageWithIntent("TransactionData", tx))
  <2>1. keyring[party] \in Keys
    BY DEF TypeOK
  <2>2. block' \in Blocks /\ tx \in Txs
    BY <1>7, PreparedHasSender, BuildInTxs DEF SignBlock
  <2>3. ParsedKey(signature) \in Keys
    BY <2>1, SignedByKey, MadeLabelled
  <2>4. /\ built' = built \cup {tx}
        /\ sigs' = sigs \cup {signature}
        /\ approved' = approved \cup {<<keyring[party], tx>>}
        /\ UNCHANGED <<keyring, vouched, accepted>>
    BY <1>7 DEF SignBlock
  <2>5. QED
    BY <2>1, <2>2, <2>3, <2>4 DEF TypeOK
<1>8. ASSUME NEW party \in Keys, NEW tx \in built, SignBytes(party, tx)
      PROVE  TypeOK'
  <2> DEFINE signature == SignTransactionData(keyring[party], tx)
  <2>1. keyring[party] \in Keys /\ tx \in Txs
    BY DEF TypeOK
  <2>2. ParsedKey(signature) \in Keys
    BY <2>1, SignedByKey, MadeLabelled
  <2>3. /\ sigs' = sigs \cup {signature}
        /\ approved' = approved \cup {<<keyring[party], tx>>}
        /\ UNCHANGED <<block, built, keyring, vouched, accepted>>
    BY <1>8 DEF SignBytes
  <2>4. QED
    BY <2>1, <2>2, <2>3 DEF TypeOK
<1>9. ASSUME NEW party \in Keys, NEW message \in Messages \cup built, SignMessage(party, message)
      PROVE  TypeOK'
  <2> DEFINE signature == SignPersonalMessage(keyring[party], message)
  <2>1. keyring[party] \in Keys /\ message \in Messages \cup Txs
    BY DEF TypeOK
  <2>2. ParsedKey(signature) \in Keys
    BY <2>1, SignedByKey, MadeLabelled
  <2>3. /\ sigs' = sigs \cup {signature}
        /\ vouched' = vouched \cup {<<keyring[party], message>>}
        /\ UNCHANGED <<block, built, keyring, approved, accepted>>
    BY <1>9 DEF SignMessage
  <2>4. QED
    BY <2>1, <2>2, <2>3 DEF TypeOK
<1>10. ASSUME NEW party \in Keys, NEW size \in {32, 64}, ReimportKeypair(party, size)
       PROVE  TypeOK'
  <2>1. keyring[party] \in Keys
    BY DEF TypeOK
  <2>2. keyring' = [keyring EXCEPT ![party] = keyring[party]]
    BY <1>10, <2>1, ReimportSame DEF ReimportKeypair
  <2>3. keyring' \in [Keys -> Keys]
    BY <2>1, <2>2 DEF TypeOK
  <2>4. QED
    BY <1>10, <2>3 DEF TypeOK, ReimportKeypair
<1>11. ASSUME NEW tx \in built, NEW account \in Accounts, Accept(account, tx)
       PROVE  TypeOK'
  <2>1. tx \in Txs
    BY DEF TypeOK
  <2>2. QED
    BY <1>11, <2>1 DEF TypeOK, Accept
<1>12. ASSUME UNCHANGED vars
       PROVE  TypeOK'
  BY <1>12 DEF TypeOK, vars
<1>13. QED
  BY <1>1, <1>2, <1>3, <1>4, <1>5, <1>6, <1>7, <1>8, <1>9, <1>10, <1>11, <1>12
     DEF Next, Submit, SubmitMultiSig, SubmitLegacyMultiSig

\* Whatever parties prepare, sign and submit, blocks, bytes and keypairs stay
\* what they are: built bytes always have a sender and an owner, and every
\* held signature parses to a key that exists.
THEOREM SpecTypeOK == Spec => []TypeOK
<1>1. Init => TypeOK
  BY TypeInit
<1>2. TypeOK /\ [Next]_vars => TypeOK'
  BY TypeStep
<1>3. QED
  BY <1>1, <1>2, PTL DEF Spec

\* Preparing a block that was restored from transaction bytes gives the same
\* bytes again, whoever prepares it: the bytes always name a sender and a gas
\* owner, so neither is filled in anew.
THEOREM SpecRestoredIsSame == Spec => []RestoredIsSame
<1>1. TypeOK => RestoredIsSame
  <2> SUFFICES ASSUME TypeOK, NEW tx \in built, NEW party \in Keys
               PROVE  Build(Prepared(FromBytes(tx), party)) = tx
    BY DEF RestoredIsSame
  <2>1. /\ tx = [kind |-> tx.kind, sender |-> tx.sender, owner |-> tx.owner]
        /\ tx.sender # None
        /\ tx.owner # None
    BY AccountsAssumption DEF TypeOK, Txs
  <2>2. Prepared(FromBytes(tx), party) = tx
    BY <2>1 DEF Prepared, SetSenderIfNotSet, FromBytes
  <2>3. QED
    BY <2>1, <2>2 DEF Build
<1>2. QED
  BY <1>1, SpecTypeOK, PTL

\* keypair.export() and fromExportedKeypair, with new and old exports, keep
\* the account of the keypair; no other step touches a keypair.
THEOREM SpecAccountKept == Spec => AccountKept
<1> DEFINE Kept == \A party \in Keys :
                       ToSuiAddress(keyring'[party]) = ToSuiAddress(keyring[party])
<1>1. ASSUME TypeOK, [Next]_vars
      PROVE  [Kept]_vars
  <2>1. ASSUME NEW other \in Keys, NEW size \in {32, 64}, ReimportKeypair(other, size)
        PROVE  Kept
    <3>1. keyring[other] \in Keys
      BY <1>1 DEF TypeOK
    <3>2. keyring' = [keyring EXCEPT ![other] = keyring[other]]
      BY <2>1, <3>1, ReimportSame DEF ReimportKeypair
    <3>3. QED
      BY <1>1, <3>2 DEF TypeOK
  <2>2. CASE UNCHANGED keyring
    BY <2>2
  <2>3. QED
    BY <1>1, <2>1, <2>2
       DEF Next, vars, SetSender, SetGasOwner, BuildBlock, Restore, RestoreKind, Inspect,
           SignBlock, SignBytes, SignMessage, Accept, Submit, SubmitMultiSig,
           SubmitLegacyMultiSig
<1>2. QED
  BY <1>1, SpecTypeOK, PTL DEF Spec, AccountKept

-----------------------------------------------------------------------------
\* The invariant of the held signatures.

\* A step that adds at most one signature, which some key made over data, keeps
\* the invariant if a signature over a transaction comes with its approval.
LEMMA NewSignature ==
    ASSUME IInv, TypeOK',
           NEW key \in Keys, NEW data, NEW s,
           s = ToSerializedSignature(key, SignData(key, data)),
           sigs' = sigs \cup {s},
           approved \subseteq approved',
           \A tx \in Txs : data = TxDigest(tx) => <<key, tx>> \in approved'
    PROVE  IInv'
<1>1. /\ ParsedKey(s) = key
      /\ s.flag \in Schemes
      /\ s.signature = SignData(key, data)
      /\ s.signature.scheme = s.flag
      /\ s.signature.by = s.publicKey
  BY MadeLabelled
<1>2. SigsLabelled'
  BY <1>1 DEF IInv, SigsLabelled
<1>3. SigsApproved'
  <2> SUFFICES ASSUME NEW t \in sigs', NEW other \in Keys, NEW tx \in Txs,
                      RawVerifies(other, TxDigest(tx), t.signature)
               PROVE  <<other, tx>> \in approved'
    BY DEF SigsApproved
  <2>1. CASE t \in sigs
    BY <2>1 DEF IInv, SigsApproved
  <2>2. CASE t = s
    <3>1. RawVerifies(other, TxDigest(tx), SignData(key, data))
      BY <1>1, <2>2
    <3>2. other = key /\ data = TxDigest(tx)
      BY <3>1, RawInjective
    <3>3. QED
      BY <3>2
  <2>3. QED
    BY <2>1, <2>2
<1>4. QED
  BY <1>2, <1>3 DEF IInv

LEMMA IInvStep ==
    ASSUME IInv, [Next]_vars
    PROVE  IInv'
<1> USE DEF IInv
<1>1. TypeOK'
  BY TypeStep
<1>2. ASSUME NEW party \in Keys, SignBlock(party)
      PROVE  IInv'
  <2> DEFINE tx == Build(Prepared(block, party))
             signature == RawSignData(keyring[party], MessageWithIntent("TransactionData", tx))
  <2>1. keyring[party] \in Keys
    BY DEF TypeOK
  <2>2. signature = ToSerializedSignature(keyring[party], SignData(keyring[party], TxDigest(tx)))
    BY <2>1, SignedByKey
  <2>3. /\ sigs' = sigs \cup {signature}
        /\ approved' = approved \cup {<<keyring[party], tx>>}
    BY <1>2 DEF SignBlock
  <2>4. \A other : TxDigest(tx) = TxDigest(other) => other = tx
    BY IntentInjective DEF TxDigest
  <2> HIDE DEF tx, signature
  <2>5. QED
    BY <1>1, <2>1, <2>2, <2>3, <2>4, NewSignature
<1>3. ASSUME NEW party \in Keys, NEW tx \in built, SignBytes(party, tx)
      PROVE  IInv'
  <2> DEFINE signature == SignTransactionData(keyring[party], tx)
  <2>1. keyring[party] \in Keys
    BY DEF TypeOK
  <2>2. signature = ToSerializedSignature(keyring[party], SignData(keyring[party], TxDigest(tx)))
    BY <2>1, SignedByKey
  <2>3. /\ sigs' = sigs \cup {signature}
        /\ approved' = approved \cup {<<keyring[party], tx>>}
    BY <1>3 DEF SignBytes
  <2>4. \A other : TxDigest(tx) = TxDigest(other) => other = tx
    BY IntentInjective DEF TxDigest
  <2> HIDE DEF signature
  <2>5. QED
    BY <1>1, <2>1, <2>2, <2>3, <2>4, NewSignature
<1>4. ASSUME NEW party \in Keys, NEW message \in Messages \cup built, SignMessage(party, message)
      PROVE  IInv'
  <2> DEFINE signature == SignPersonalMessage(keyring[party], message)
             data == Blake2b(MessageWithIntent("PersonalMessage", BcsVector(message)))
  <2>1. keyring[party] \in Keys
    BY DEF TypeOK
  <2>2. signature = ToSerializedSignature(keyring[party], SignData(keyring[party], data))
    BY <2>1, SignedByKey
  <2>3. sigs' = sigs \cup {signature} /\ approved' = approved
    BY <1>4 DEF SignMessage
  <2>4. \A tx : data # TxDigest(tx)
    <3> SUFFICES ASSUME NEW tx, data = TxDigest(tx)
                 PROVE  FALSE
      OBVIOUS
    <3>1. "PersonalMessage" = "TransactionData"
      BY IntentInjective DEF TxDigest
    <3>2. QED
      BY <3>1
  <2> HIDE DEF signature, data
  <2>5. QED
    BY <1>1, <2>1, <2>2, <2>3, <2>4, NewSignature
<1>5. CASE UNCHANGED <<sigs, approved>>
  BY <1>1, <1>5 DEF SigsLabelled, SigsApproved
<1>6. QED
  BY <1>2, <1>3, <1>4, <1>5
     DEF Next, vars, SetSender, SetGasOwner, BuildBlock, Restore, RestoreKind, Inspect,
         ReimportKeypair, Accept, Submit, SubmitMultiSig, SubmitLegacyMultiSig

-----------------------------------------------------------------------------
\* An acceptance rests on a quorum's approvals.

HasQuorum(account, tx) ==
    \E quorum \in Quorums[account] : \A party \in quorum : <<party, tx>> \in approved

LEMMA SingleHasQuorum ==
    ASSUME IInv, NEW account \in Accounts, NEW tx \in Txs, NEW s \in sigs,
           NodeAccepts(account, tx, s)
    PROVE  HasQuorum(account, tx)
<1> DEFINE key == ParsedKey(s)
<1>1. key \in Keys /\ s.flag \in Schemes
  BY DEF IInv, SigsLabelled
<1>2. ~ IsMultiSig(s)
  BY <1>1 DEF Schemes, IsMultiSig
<1>3. account = ToSuiAddress(key) /\ Verify(key, TxDigest(tx), s) = "true"
  BY <1>2 DEF NodeAccepts, AccountOf, VerifyTransactionBlock, VerifyParsed, TxDigest
<1>4. RawVerifies(key, TxDigest(tx), s.signature)
  BY <1>3 DEF Verify
<1>5. <<key, tx>> \in approved
  BY <1>1, <1>4 DEF IInv, SigsApproved
<1>6. {key} \in QuorumsOf(account)
  BY <1>1, <1>3 DEF QuorumsOf
<1>7. QED
  BY <1>5, <1>6 DEF HasQuorum, Quorums

\* For what either combiner makes of collected signatures, in whatever order,
\* repeated or with strangers' among them.
LEMMA MultiSigHasQuorum ==
    ASSUME IInv, NEW account \in Accounts, NEW tx \in Txs, NEW pk \in MultiSigs,
           NEW collected \in Collections(pk),
           NodeAccepts(account, tx, MultiSig(collected, pk))
    PROVE  HasQuorum(account, tx)
<1> DEFINE made == MultiSig(collected, pk)
           positions == Signers(made)
<1>1. /\ made.flag = "MultiSig"
      /\ made.multisig_pk = pk
      /\ made.sigs = [i \in DOMAIN collected |-> collected[i].signature]
  BY DEF MultiSig
<1>2. \A i \in DOMAIN collected : collected[i] \in sigs
  BY DEF Collections
<1>3. /\ account = MultiSigAddress(pk)
      /\ MultiSigVerify(pk, TxDigest(tx), made) = "true"
  BY <1>1 DEF NodeAccepts, AccountOf, VerifyTransactionBlock, VerifyParsed, IsMultiSig, TxDigest
<1>4. /\ ~ ParseThrows(made)
      /\ PartialsVerify(TxDigest(tx), made)
      /\ ReachesThreshold(pk, positions)
  BY <1>1, <1>3 DEF MultiSigVerify, IsMultiSig
<1>5. \A i \in DOMAIN made.sigs : IndexAt(made.bitmap, i) \in DOMAIN pk.pk_map
  BY <1>1, <1>4 DEF ParseThrows
<1>6. positions \in SUBSET DOMAIN pk.pk_map
  BY <1>5 DEF Signers
<1>7. \A party \in KeysAt(pk, positions) : <<party, tx>> \in approved
  <2> SUFFICES ASSUME NEW party \in KeysAt(pk, positions)
               PROVE  <<party, tx>> \in approved
    OBVIOUS
  <2>1. PICK i \in DOMAIN made.sigs : party = pk.pk_map[IndexAt(made.bitmap, i)].key
    BY DEF KeysAt, Signers
  <2>2. party \in Keys
    BY <1>1, <1>5, <2>1, ListShape
  <2> DEFINE s == collected[i]
  <2>3. s \in sigs /\ made.sigs[i] = s.signature
    BY <1>1, <1>2
  <2>4. RawVerifies(PartialKey(made, i), TxDigest(tx), s.signature)
    BY <1>4, <2>3 DEF PartialsVerify
  <2>5. /\ PartialKey(made, i).bytes = party.bytes
        /\ PartialKey(made, i).scheme = s.flag
    BY <1>1, <2>1, <2>3 DEF PartialKey, IInv, SigsLabelled
  <2>6. s.signature.by = party.bytes
    BY <2>4, <2>5 DEF RawVerifies, SignData
  <2>7. /\ ParsedKey(s) \in Keys
        /\ ParsedKey(s).bytes = party.bytes
        /\ ParsedKey(s).scheme = s.flag
    BY <2>3, <2>6 DEF IInv, SigsLabelled, ParsedKey
  <2>8. party = ParsedKey(s)
    BY <2>2, <2>7, KeyParts
  <2>9. PartialKey(made, i) = party
    <3>1. PartialKey(made, i) = [scheme |-> PartialKey(made, i).scheme,
                                 bytes  |-> PartialKey(made, i).bytes]
      BY DEF PartialKey
    <3>2. party = [scheme |-> party.scheme, bytes |-> party.bytes]
      BY <2>2, KeyParts
    <3>3. party.scheme = s.flag
      BY <2>7, <2>8
    <3>4. QED
      BY <2>5, <3>1, <3>2, <3>3
  <2>10. QED
    BY <2>2, <2>3, <2>4, <2>9 DEF IInv, SigsApproved
<1>8. KeysAt(pk, positions) \in QuorumsOf(account)
  BY <1>3, <1>4, <1>6 DEF QuorumsOf
<1>9. QED
  BY <1>7, <1>8 DEF HasQuorum, Quorums

LEMMA AcceptRefines ==
    ASSUME IInv, NEW tx \in built, NEW account \in Accounts, Accept(account, tx),
           HasQuorum(account, tx)
    PROVE  A!Next
<1>1. tx \in Txs
  BY DEF IInv, TypeOK
<1>2. A!Accept(account, tx)
  BY DEF A!Accept, HasQuorum, Accept
<1>3. QED
  BY <1>1, <1>2 DEF A!Next

\* Every step of signing is a step of Approval or leaves it alone.
LEMMA StepRefines ==
    ASSUME IInv, [Next]_vars
    PROVE  [A!Next]_(A!vars)
<1>1. ASSUME NEW party \in Keys, SignBlock(party)
      PROVE  A!Next
  <2> DEFINE tx == Build(Prepared(block, party))
  <2>1. keyring[party] \in Keys /\ tx \in Txs
    BY <1>1, PreparedHasSender, BuildInTxs DEF IInv, TypeOK
  <2>2. A!Approve(keyring[party], tx)
    BY <1>1 DEF SignBlock, A!Approve
  <2> HIDE DEF tx
  <2>3. QED
    BY <2>1, <2>2 DEF A!Next
<1>2. ASSUME NEW party \in Keys, NEW tx \in built, SignBytes(party, tx)
      PROVE  A!Next
  <2>1. keyring[party] \in Keys /\ tx \in Txs
    BY DEF IInv, TypeOK
  <2>2. A!Approve(keyring[party], tx)
    BY <1>2 DEF SignBytes, A!Approve
  <2>3. QED
    BY <2>1, <2>2 DEF A!Next
<1>3. ASSUME NEW tx \in built, NEW account \in Accounts, Submit(account, tx)
      PROVE  A!Next
  <2>1. HasQuorum(account, tx)
    BY <1>3, SingleHasQuorum DEF Submit, IInv, TypeOK
  <2>2. QED
    BY <1>3, <2>1, AcceptRefines DEF Submit
<1>4. ASSUME NEW tx \in built, NEW account \in Accounts, NEW pk \in MultiSigs,
             SubmitMultiSig(account, pk, tx) \/ SubmitLegacyMultiSig(account, pk, tx)
      PROVE  A!Next
  <2>1. /\ Accept(account, tx)
        /\ \E collected \in Collections(pk) : NodeAccepts(account, tx, MultiSig(collected, pk))
    BY <1>4 DEF SubmitMultiSig, SubmitLegacyMultiSig, Combine, CombineLegacy
  <2>2. HasQuorum(account, tx)
    BY <2>1, MultiSigHasQuorum DEF IInv, TypeOK
  <2>3. QED
    BY <2>1, <2>2, AcceptRefines
<1>5. CASE UNCHANGED <<approved, accepted>>
  BY <1>5 DEF A!vars
<1>6. QED
  BY <1>1, <1>2, <1>3, <1>4, <1>5
     DEF Next, vars, SetSender, SetGasOwner, BuildBlock, Restore, RestoreKind, Inspect,
         SignMessage, ReimportKeypair

\* Whatever was signed on blocks or on bytes, as a transaction or as a message,
\* collected in any order and combined by either combiner: a transaction is
\* accepted for an account only once a quorum of its keys asked to sign it.
THEOREM SpecImplementsApproval == Spec => ImplementsApproval
<1>1. Init => IInv
  BY TypeInit DEF Init, IInv, SigsLabelled, SigsApproved
<1>2. IInv /\ [Next]_vars => IInv'
  BY IInvStep
<1>3. Init => A!Init
  BY DEF Init, A!Init
<1>4. IInv /\ [Next]_vars => [A!Next]_(A!vars)
  BY StepRefines
<1>5. QED
  BY <1>1, <1>2, <1>3, <1>4, PTL DEF Spec, ImplementsApproval, A!Spec

-----------------------------------------------------------------------------
\* Every held signature was made by a key's holder for something it asked for.
SigsMade ==
    \A s \in sigs : \E key \in Keys :
        \/ \E tx \in built :
              <<key, tx>> \in approved /\ s = SignTransactionData(key, tx)
        \/ \E message \in Messages \cup built :
              <<key, message>> \in vouched /\ s = SignPersonalMessage(key, message)

\* And what was asked for is held.
ApprovedHeld ==
    \A key \in Keys, tx \in Txs :
        <<key, tx>> \in approved => tx \in built /\ SignTransactionData(key, tx) \in sigs

\* With the types, an inductive invariant: an approval and a promise are only
\* ever recorded by the step that makes the signature.
MadeInv == TypeOK /\ SigsMade /\ ApprovedHeld

-----------------------------------------------------------------------------
LEMMA MadeInit ==
    ASSUME Init
    PROVE  MadeInv
  BY TypeInit DEF Init, MadeInv, SigsMade, ApprovedHeld

\* Steps that keep what was made and asked for.
LEMMA MadeKept ==
    ASSUME MadeInv, TypeOK', built \subseteq built', UNCHANGED <<sigs, approved, vouched>>
    PROVE  MadeInv'
<1>1. SigsMade'
  BY DEF MadeInv, SigsMade
<1>2. ApprovedHeld'
  BY DEF MadeInv, ApprovedHeld
<1>3. QED
  BY <1>1, <1>2 DEF MadeInv

\* A step that signs transaction bytes, prepared or given.
LEMMA TransactionSigned ==
    ASSUME MadeInv, TypeOK', NEW key \in Keys, NEW tx \in built', built \subseteq built',
           sigs' = sigs \cup {SignTransactionData(key, tx)},
           approved' = approved \cup {<<key, tx>>},
           vouched' = vouched
    PROVE  MadeInv'
<1>1. SigsMade'
  BY DEF MadeInv, SigsMade
<1>2. ApprovedHeld'
  BY DEF MadeInv, ApprovedHeld
<1>3. QED
  BY <1>1, <1>2 DEF MadeInv

LEMMA MadeStep ==
    ASSUME MadeInv, [Next]_vars
    PROVE  MadeInv'
<1>1. TypeOK'
  BY TypeStep DEF MadeInv
<1>2. ASSUME NEW party \in Keys, SignBlock(party)
      PROVE  MadeInv'
  <2> DEFINE tx == Build(Prepared(block, party))
  <2>1. keyring[party] \in Keys
    BY DEF MadeInv, TypeOK
  <2>2. RawSignData(keyring[party], MessageWithIntent("TransactionData", tx))
          = SignTransactionData(keyring[party], tx)
    BY <2>1, SignedByKey
  <2>3. /\ sigs' = sigs \cup {SignTransactionData(keyring[party], tx)}
        /\ built' = built \cup {tx}
        /\ approved' = approved \cup {<<keyring[party], tx>>}
        /\ vouched' = vouched
    BY <1>2, <2>2 DEF SignBlock
  <2> HIDE DEF tx
  <2>4. QED
    BY <1>1, <2>1, <2>3, TransactionSigned
<1>3. ASSUME NEW party \in Keys, NEW tx \in built, SignBytes(party, tx)
      PROVE  MadeInv'
  <2>1. keyring[party] \in Keys
    BY DEF MadeInv, TypeOK
  <2>2. /\ sigs' = sigs \cup {SignTransactionData(keyring[party], tx)}
        /\ built' = built
        /\ approved' = approved \cup {<<keyring[party], tx>>}
        /\ vouched' = vouched
    BY <1>3 DEF SignBytes
  <2>3. QED
    BY <1>1, <2>1, <2>2, TransactionSigned
<1>4. ASSUME NEW party \in Keys, NEW message \in Messages \cup built, SignMessage(party, message)
      PROVE  MadeInv'
  <2>1. keyring[party] \in Keys
    BY DEF MadeInv, TypeOK
  <2>2. /\ sigs' = sigs \cup {SignPersonalMessage(keyring[party], message)}
        /\ vouched' = vouched \cup {<<keyring[party], message>>}
        /\ UNCHANGED <<built, approved>>
    BY <1>4 DEF SignMessage
  <2>3. SigsMade'
    BY <2>1, <2>2 DEF MadeInv, SigsMade
  <2>4. ApprovedHeld'
    BY <2>2 DEF MadeInv, ApprovedHeld
  <2>5. QED
    BY <1>1, <2>3, <2>4 DEF MadeInv
<1>5. CASE built \subseteq built' /\ UNCHANGED <<sigs, approved, vouched>>
  BY <1>1, <1>5, MadeKept
<1>6. QED
  BY <1>2, <1>3, <1>4, <1>5
     DEF Next, vars, SetSender, SetGasOwner, BuildBlock, Restore, RestoreKind, Inspect,
         ReimportKeypair, Accept, Submit, SubmitMultiSig, SubmitLegacyMultiSig

THEOREM MadeHolds == Spec => []MadeInv
<1>1. Init => MadeInv
  BY MadeInit
<1>2. MadeInv /\ [Next]_vars => MadeInv'
  BY MadeStep
<1>3. QED
  BY <1>1, <1>2, PTL DEF Spec

-----------------------------------------------------------------------------
(* One key's signature counts for what it was asked for.                    *)

\* What a signature by key over some digest verifies for.
LEMMA SingleVerifies ==
    ASSUME NEW key \in Keys, NEW digest, NEW s, NEW other,
           s = ToSerializedSignature(key, SignData(key, digest))
    PROVE  /\ ParsedKey(s) = key
           /\ RawVerifies(key, other, s.signature) <=> other = digest
           /\ VerifyParsed(other, s) <=> other = digest
<1>1. /\ ParsedKey(s) = key
      /\ s.flag \in Schemes
      /\ s.signature = SignData(key, digest)
  BY MadeLabelled
<1>2. RawVerifies(key, other, s.signature) <=> other = digest
  BY <1>1, RawInjective DEF RawVerifies
<1>3. ~ IsMultiSig(s)
  BY <1>1 DEF IsMultiSig, Schemes
<1>4. s.flag = key.scheme /\ s.publicKey = key.bytes
  BY DEF ToSerializedSignature
<1>5. VerifyParsed(other, s) <=> RawVerifies(key, other, s.signature)
  BY <1>1, <1>3, <1>4 DEF VerifyParsed, Verify, OfAnotherKey
<1>6. QED
  BY <1>1, <1>2, <1>5

\* Digests of transactions and messages are equal only for the same bytes asked
\* for in the same scope.
LEMMA DigestsApart ==
    ASSUME NEW tx, NEW message, NEW other
    PROVE  /\ TxDigest(tx) = TxDigest(other) => tx = other
           /\ MessageDigest(message) = MessageDigest(other) => message = other
           /\ MessageDigest(message) = Blake2b(MessageWithIntent("PersonalMessage", other))
                => other = BcsVector(message)
           /\ TxDigest(tx) # MessageDigest(message)
           /\ TxDigest(tx) # Blake2b(MessageWithIntent("PersonalMessage", message))
<1>1. TxDigest(tx) = TxDigest(other) => tx = other
  BY IntentInjective DEF TxDigest
<1>2. MessageDigest(message) = Blake2b(MessageWithIntent("PersonalMessage", other))
        => other = BcsVector(message)
  BY IntentInjective DEF MessageDigest
<1>3. MessageDigest(message) = MessageDigest(other) => message = other
  <2> SUFFICES ASSUME MessageDigest(message) = MessageDigest(other) PROVE message = other
    OBVIOUS
  <2>1. BcsVector(message) = BcsVector(other)
    BY IntentInjective DEF MessageDigest
  <2>2. BcsVector(message).vector = message /\ BcsVector(other).vector = other
    BY DEF BcsVector
  <2>3. QED
    BY <2>1, <2>2
<1>4. \A b : TxDigest(tx) # Blake2b(MessageWithIntent("PersonalMessage", b))
  <2> SUFFICES ASSUME NEW b, TxDigest(tx) = Blake2b(MessageWithIntent("PersonalMessage", b))
               PROVE  FALSE
    OBVIOUS
  <2>1. "TransactionData" = "PersonalMessage"
    BY IntentInjective DEF TxDigest
  <2>2. QED
    BY <2>1
<1>5. TxDigest(tx) # MessageDigest(message)
  BY <1>4 DEF MessageDigest
<1>6. QED
  BY <1>1, <1>2, <1>3, <1>4, <1>5

LEMMA MadeKeepsApart ==
    ASSUME MadeInv
    PROVE  IntentsKeptApart
<1> SUFFICES ASSUME NEW s \in sigs
             PROVE  LET key == ParsedKey(s) IN
        /\ \A tx \in built :
            /\ VerifyTransactionBlock(tx, s)
                    <=> <<key, tx>> \in approved /\ s = SignTransactionData(key, tx)
            /\ LegacyVerifyMessage(key, tx, s.signature, "TransactionData")
                    => VerifyTransactionBlock(tx, s)
        /\ \A message \in Messages \cup built :
            /\ VerifyPersonalMessage(message, s)
                    <=> <<key, message>> \in vouched /\ s = SignPersonalMessage(key, message)
            /\ LegacyVerifyMessage(key, message, s.signature, "PersonalMessage")
                    => \E asked \in Messages \cup built :
                        /\ message \in {asked, BcsVector(asked)}
                        /\ VerifyPersonalMessage(asked, s)
  BY DEF IntentsKeptApart
<1>1. PICK key \in Keys :
        \/ \E tx \in built :
              <<key, tx>> \in approved /\ s = SignTransactionData(key, tx)
        \/ \E message \in Messages \cup built :
              <<key, message>> \in vouched /\ s = SignPersonalMessage(key, message)
  BY DEF MadeInv, SigsMade
<1>2. /\ \A tx : SignTransactionData(key, tx)
                   = ToSerializedSignature(key, SignData(key, TxDigest(tx)))
      /\ \A message : SignPersonalMessage(key, message)
                   = ToSerializedSignature(key, SignData(key, MessageDigest(message)))
  BY SignedByKey DEF MessageDigest
<1>3. CASE \E made \in built : <<key, made>> \in approved /\ s = SignTransactionData(key, made)
  <2>1. PICK made \in built : <<key, made>> \in approved /\ s = SignTransactionData(key, made)
    BY <1>3
  <2>2. s = ToSerializedSignature(key, SignData(key, TxDigest(made)))
    BY <1>2, <2>1
  <2>3. /\ ParsedKey(s) = key
        /\ \A other : RawVerifies(key, other, s.signature) <=> other = TxDigest(made)
        /\ \A other : VerifyParsed(other, s) <=> other = TxDigest(made)
    BY <2>2, SingleVerifies
  <2>4. ASSUME NEW tx \in built
        PROVE  /\ VerifyTransactionBlock(tx, s)
                    <=> <<key, tx>> \in approved /\ s = SignTransactionData(key, tx)
               /\ LegacyVerifyMessage(key, tx, s.signature, "TransactionData")
                    => VerifyTransactionBlock(tx, s)
    <3>1. VerifyTransactionBlock(tx, s) <=> tx = made
      BY <2>3, DigestsApart DEF VerifyTransactionBlock
    <3>2. s = SignTransactionData(key, tx) => tx = made
      BY <1>2, <2>3, SingleVerifies, DigestsApart
    <3>3. LegacyVerifyMessage(key, tx, s.signature, "TransactionData")
            <=> RawVerifies(key, TxDigest(tx), s.signature)
      BY DEF LegacyVerifyMessage, TxDigest
    <3>4. QED
      BY <2>1, <2>3, <3>1, <3>2, <3>3, DigestsApart
  <2>5. ASSUME NEW message \in Messages \cup built
        PROVE  /\ ~ VerifyPersonalMessage(message, s)
               /\ s # SignPersonalMessage(key, message)
               /\ ~ LegacyVerifyMessage(key, message, s.signature, "PersonalMessage")
    <3>1. ~ VerifyPersonalMessage(message, s)
      BY <2>3, DigestsApart DEF VerifyPersonalMessage
    <3>2. s # SignPersonalMessage(key, message)
      BY <1>2, <3>1, SingleVerifies DEF VerifyPersonalMessage
    <3>3. LegacyVerifyMessage(key, message, s.signature, "PersonalMessage")
            <=> \/ RawVerifies(key, MessageDigest(message), s.signature)
                \/ RawVerifies(key, Blake2b(MessageWithIntent("PersonalMessage", message)), s.signature)
      BY DEF LegacyVerifyMessage, MessageDigest
    <3>4. QED
      BY <2>3, <3>1, <3>2, <3>3, DigestsApart
  <2>6. QED
    BY <2>3, <2>4, <2>5
<1>4. CASE \E made \in Messages \cup built :
              <<key, made>> \in vouched /\ s = SignPersonalMessage(key, made)
  <2>1. PICK made \in Messages \cup built :
              <<key, made>> \in vouched /\ s = SignPersonalMessage(key, made)
    BY <1>4
  <2>2. s = ToSerializedSignature(key, SignData(key, MessageDigest(made)))
    BY <1>2, <2>1
  <2>3. /\ ParsedKey(s) = key
        /\ \A other : RawVerifies(key, other, s.signature) <=> other = MessageDigest(made)
        /\ \A other : VerifyParsed(other, s) <=> other = MessageDigest(made)
    BY <2>2, SingleVerifies
  <2>4. ASSUME NEW tx \in built
        PROVE  /\ ~ VerifyTransactionBlock(tx, s)
               /\ s # SignTransactionData(key, tx)
               /\ ~ LegacyVerifyMessage(key, tx, s.signature, "TransactionData")
    <3>1. ~ VerifyTransactionBlock(tx, s)
      BY <2>3, DigestsApart DEF VerifyTransactionBlock
    <3>2. s # SignTransactionData(key, tx)
      BY <1>2, <3>1, SingleVerifies DEF VerifyTransactionBlock
    <3>3. LegacyVerifyMessage(key, tx, s.signature, "TransactionData")
            <=> RawVerifies(key, TxDigest(tx), s.signature)
      BY DEF LegacyVerifyMessage, TxDigest
    <3>4. QED
      BY <2>3, <3>1, <3>2, <3>3, DigestsApart
  <2>5. ASSUME NEW message \in Messages \cup built
        PROVE  /\ VerifyPersonalMessage(message, s)
                    <=> <<key, message>> \in vouched /\ s = SignPersonalMessage(key, message)
               /\ LegacyVerifyMessage(key, message, s.signature, "PersonalMessage")
                    => message \in {made, BcsVector(made)}
               /\ VerifyPersonalMessage(made, s)
    <3>1. \A m : VerifyPersonalMessage(m, s) <=> m = made
      BY <2>3, DigestsApart DEF VerifyPersonalMessage
    <3>2. s = SignPersonalMessage(key, message) => message = made
      BY <1>2, <2>3, SingleVerifies, DigestsApart
    <3>3. LegacyVerifyMessage(key, message, s.signature, "PersonalMessage")
            <=> \/ RawVerifies(key, MessageDigest(message), s.signature)
                \/ RawVerifies(key, Blake2b(MessageWithIntent("PersonalMessage", message)), s.signature)
      BY DEF LegacyVerifyMessage, MessageDigest
    <3>4. QED
      BY <2>1, <2>3, <3>1, <3>2, <3>3, DigestsApart
  <2>6. QED
    BY <2>1, <2>3, <2>4, <2>5
<1>5. QED
  BY <1>1, <1>3, <1>4

\* A signature verifies as a transaction's or a message's exactly when its key's
\* holder asked for that, and the deprecated verifyMessage accepts no more than
\* the length-prefixed form of a message that was asked for.
THEOREM SpecIntentsKeptApart == Spec => []IntentsKeptApart
<1>1. MadeInv => IntentsKeptApart
  BY MadeKeepsApart
<1>2. QED
  BY <1>1, MadeHolds, PTL

-----------------------------------------------------------------------------
(* Positions in a list of keys, and the bits of a bitmap.                   *)

\* PositionOf is the first position that holds the bytes, and 0 for a stranger's.
LEMMA PositionIsFirst ==
    ASSUME NEW pk \in MultiSigs, NEW bytes
    PROVE  /\ PositionOf(pk, bytes) \in Nat
           /\ PositionOf(pk, bytes) # 0 =>
                /\ PositionOf(pk, bytes) \in DOMAIN pk.pk_map
                /\ pk.pk_map[PositionOf(pk, bytes)].key.bytes = bytes
           /\ \A j \in DOMAIN pk.pk_map : pk.pk_map[j].key.bytes = bytes =>
                PositionOf(pk, bytes) # 0 /\ PositionOf(pk, bytes) <= j
<1> DEFINE held == {j \in DOMAIN pk.pk_map : pk.pk_map[j].key.bytes = bytes}
<1>1. PositionOf(pk, bytes)
        = IF held = {} THEN 0 ELSE CHOOSE j \in held : \A k \in held : j <= k
  BY DEF PositionOf
<1>2. held \subseteq 1 .. Len(pk.pk_map) /\ Len(pk.pk_map) \in Nat
  BY ListShape
<1>3. CASE held = {}
  BY <1>1, <1>3
<1>4. CASE held # {}
  <2>1. \E j \in held : \A k \in held : j <= k
    <3>1. held \subseteq Nat
      BY <1>2
    <3> HIDE DEF held
    <3>2. QED
      BY <1>4, <3>1, LeastOf
  <2>2. /\ PositionOf(pk, bytes) \in held
        /\ \A k \in held : PositionOf(pk, bytes) <= k
    BY <1>1, <1>4, <2>1
  <2>3. QED
    BY <1>2, <2>2
<1>5. QED
  BY <1>3, <1>4

\* The bits set for collected signatures are positions of the list.
LEMMA BitsArePositions ==
    ASSUME NEW pk \in MultiSigs, NEW collected
    PROVE  /\ MultiSig(collected, pk).bitmap \subseteq DOMAIN pk.pk_map
           /\ IsFiniteSet(MultiSig(collected, pk).bitmap)
<1>1. MultiSig(collected, pk).bitmap
        = {PositionOf(pk, collected[i].publicKey) : i \in DOMAIN collected} \ {0}
  BY DEF MultiSig
<1>2. MultiSig(collected, pk).bitmap \subseteq DOMAIN pk.pk_map
  BY <1>1, PositionIsFirst
<1>3. IsFiniteSet(DOMAIN pk.pk_map)
  BY ListShape, FS_Interval
<1>4. QED
  BY <1>2, <1>3, FS_Subset

-----------------------------------------------------------------------------
(* Signatures of a MultiSig come in the order of the keys.                  *)

\* A MultiSig that parses and whose signatures verify pairs the i-th signature
\* with the list's first entry of its own key.
LEMMA PairedWithItsKey ==
    ASSUME SigsLabelled, NEW pk \in MultiSigs, NEW collected, NEW digest,
           \A i \in DOMAIN collected : collected[i] \in sigs,
           ~ ParseThrows(MultiSig(collected, pk)),
           PartialsVerify(digest, MultiSig(collected, pk)),
           NEW i \in DOMAIN collected
    PROVE  /\ IsIndexAt(MultiSig(collected, pk).bitmap, i, PositionOf(pk, collected[i].publicKey))
           /\ PositionOf(pk, collected[i].publicKey) # 0
<1> DEFINE made == MultiSig(collected, pk)
           Own(k) == PositionOf(pk, collected[k].publicKey)
           index == IndexAt(made.bitmap, i)
<1>1. /\ made.multisig_pk = pk
      /\ made.sigs = [k \in DOMAIN collected |-> collected[k].signature]
      /\ made.bitmap = {Own(k) : k \in DOMAIN collected} \ {0}
  BY DEF MultiSig
<1>2. made.sigs # << >>
  <2>1. i \in DOMAIN made.sigs
    BY <1>1
  <2>2. QED
    BY <2>1
<1>3. HasIndexAt(made.bitmap, i) /\ index \in DOMAIN pk.pk_map
  BY <1>1, <1>2 DEF ParseThrows
<1>4. IsIndexAt(made.bitmap, i, index)
  BY <1>3 DEF HasIndexAt, IndexAt
<1>5. collected[i].publicKey = pk.pk_map[index].key.bytes
  <2>1. RawVerifies(PartialKey(made, i), digest, collected[i].signature)
    BY <1>1 DEF PartialsVerify
  <2>2. collected[i].signature.by = PartialKey(made, i).bytes
    BY <2>1 DEF RawVerifies, SignData
  <2>3. collected[i].signature.by = collected[i].publicKey
    BY DEF SigsLabelled
  <2>4. QED
    BY <1>1, <2>2, <2>3 DEF PartialKey
<1>6. index \in made.bitmap
  BY <1>4 DEF IsIndexAt
<1>7. PICK k \in DOMAIN collected : index = Own(k) /\ index # 0
  BY <1>1, <1>6
<1>8. collected[k].publicKey = collected[i].publicKey
  BY <1>5, <1>7, PositionIsFirst
<1>9. index = Own(i)
  BY <1>7, <1>8
<1>10. QED
  BY <1>4, <1>7, <1>9

LEMMA VerifiesInOrder ==
    ASSUME SigsLabelled, NEW pk \in MultiSigs, NEW tx, NEW collected \in Collections(pk),
           VerifyTransactionBlock(tx, CombineLegacy(collected, pk))
    PROVE  /\ \A i \in DOMAIN collected : PositionOf(pk, collected[i].publicKey) # 0
           /\ \A i, j \in DOMAIN collected : i < j =>
                PositionOf(pk, collected[i].publicKey) < PositionOf(pk, collected[j].publicKey)
           /\ ~ CombineThrows(collected, pk)
<1> DEFINE made == MultiSig(collected, pk)
           Own(k) == PositionOf(pk, collected[k].publicKey)
<1>1. PICK n \in 0 .. Len(pk.pk_map) : collected \in [1 .. n -> sigs]
  BY DEF Collections
<1>2. /\ DOMAIN collected = 1 .. n
      /\ \A i \in DOMAIN collected : collected[i] \in sigs
      /\ n \in Nat
  BY <1>1, ListShape
<1>3. ~ ParseThrows(made) /\ PartialsVerify(TxDigest(tx), made)
  <2>1. made.flag = "MultiSig" /\ made.multisig_pk = pk
    BY DEF MultiSig
  <2>2. MultiSigVerify(pk, TxDigest(tx), made) = "true"
    BY <2>1 DEF VerifyTransactionBlock, VerifyParsed, IsMultiSig, CombineLegacy
  <2>3. QED
    BY <2>1, <2>2 DEF MultiSigVerify, IsMultiSig
<1>4. \A i \in DOMAIN collected : IsIndexAt(made.bitmap, i, Own(i)) /\ Own(i) # 0
  BY <1>2, <1>3, PairedWithItsKey
<1>5. made.bitmap \subseteq Nat /\ IsFiniteSet(made.bitmap)
  BY BitsArePositions, ListShape
<1>6. ASSUME NEW i \in DOMAIN collected, NEW j \in DOMAIN collected, i < j
      PROVE  Own(i) < Own(j)
  <2>1. /\ Own(i) \in made.bitmap /\ Rank(made.bitmap, Own(i)) = i - 1
        /\ Own(j) \in made.bitmap /\ Rank(made.bitmap, Own(j)) = j - 1
    BY <1>4 DEF IsIndexAt
  <2> HIDE DEF made, Own
  <2>2. i - 1 < j - 1
    BY <1>2, <1>6
  <2>3. QED
    BY <1>5, <2>1, <2>2, RankGrows
<1>7. ~ CombineThrows(collected, pk)
  <2>1. ASSUME NEW i \in DOMAIN collected, NEW j \in 1 .. i - 1
        PROVE  collected[j].publicKey # collected[i].publicKey
    <3>1. j \in DOMAIN collected /\ j < i
      BY <1>2
    <3>2. Own(j) < Own(i)
      BY <1>6, <3>1
    <3>3. Own(j) \in Nat /\ Own(i) \in Nat
      BY PositionIsFirst
    <3> HIDE DEF Own
    <3>4. Own(j) # Own(i)
      BY <3>2, <3>3
    <3>5. QED
      BY <3>4 DEF Own
  <2>2. \A i \in DOMAIN collected : ~ IsMultiSig(collected[i])
    BY <1>2 DEF SigsLabelled, Schemes, IsMultiSig
  <2>3. QED
    BY <1>4, <2>1, <2>2 DEF CombineThrows
<1>8. QED
  BY <1>4, <1>6, <1>7

\* Signatures of strangers, repeated or in another order than the keys never
\* verify together, however long the list and whichever keys it repeats.
THEOREM SpecOutOfOrderNeverVerifies == Spec => []OutOfOrderNeverVerifies
<1>1. IInv => OutOfOrderNeverVerifies
  BY VerifiesInOrder DEF IInv, OutOfOrderNeverVerifies
<1>2. Init => IInv
  BY TypeInit DEF Init, IInv, SigsLabelled, SigsApproved
<1>3. IInv /\ [Next]_vars => IInv'
  BY IInvStep
<1>4. QED
  BY <1>1, <1>2, <1>3, PTL DEF Spec

-----------------------------------------------------------------------------
(* Signatures of a quorum, in the order of the keys, always verify.         *)

\* What is combined from signatures of first entries in key order: the bitmap
\* is their positions, and the i-th bit is the i-th position.
LEMMA InOrderCombined ==
    ASSUME NEW pk \in MultiSigs, NEW positions \in SUBSET FirstPositions(pk), NEW tx,
           ConstructorAccepts(pk)
    PROVE  LET inOrder == InKeyOrder(pk, positions, tx)
               made == MultiSig(inOrder, pk)
           IN  /\ DOMAIN inOrder = 1 .. Cardinality(positions)
               /\ Cardinality(positions) \in Nat
               /\ made.bitmap = positions
               /\ \A j \in positions : \E i \in DOMAIN inOrder : j = Nth(positions, i)
               /\ \A i \in DOMAIN inOrder :
                    LET at == Nth(positions, i)
                        key == pk.pk_map[at].key
                    IN  /\ at \in positions
                        /\ key \in Keys
                        /\ inOrder[i] = SignTransactionData(key, tx)
                        /\ inOrder[i].publicKey = key.bytes
                        /\ inOrder[i].flag = key.scheme
                        /\ inOrder[i].signature = SignData(key, TxDigest(tx))
                        /\ PositionOf(pk, key.bytes) = at
                        /\ HasIndexAt(positions, i)
                        /\ IndexAt(positions, i) = at
<1> DEFINE inOrder == InKeyOrder(pk, positions, tx)
           made == MultiSig(inOrder, pk)
           n == Cardinality(positions)
           at(i) == Nth(positions, i)
           key(i) == pk.pk_map[at(i)].key
<1>1. /\ Len(pk.pk_map) \in Nat
      /\ DOMAIN pk.pk_map = 1 .. Len(pk.pk_map)
      /\ \A j \in DOMAIN pk.pk_map : pk.pk_map[j].key \in Keys
  BY ListShape
<1>2. positions \subseteq DOMAIN pk.pk_map
  BY DEF FirstPositions
<1>3. /\ positions \subseteq Nat
      /\ \A j \in positions : j \in Nat /\ j <= MAX_SIGNER_IN_MULTISIG /\ j # 0
  BY <1>1, <1>2, LimitAssumption DEF ConstructorAccepts
<1>4. IsFiniteSet(positions)
  <2>1. IsFiniteSet(1 .. Len(pk.pk_map))
    BY <1>1, FS_Interval
  <2>2. QED
    BY <1>1, <1>2, <2>1, FS_Subset
<1>5. /\ n \in Nat
      /\ \A i \in 1 .. n : /\ at(i) \in positions
                           /\ Rank(positions, at(i)) = i - 1
                           /\ \A j \in positions : Rank(positions, j) = i - 1 => j = at(i)
      /\ \A j \in positions : \E i \in 1 .. n : j = at(i)
  BY <1>3, <1>4, NthLists
<1>6. /\ DOMAIN inOrder = 1 .. n
      /\ \A i \in 1 .. n : inOrder[i] = SignTransactionData(key(i), tx)
  BY DEF InKeyOrder
<1>7. ASSUME NEW i \in 1 .. n
      PROVE  /\ at(i) \in positions
             /\ key(i) \in Keys
             /\ inOrder[i] = SignTransactionData(key(i), tx)
             /\ inOrder[i].publicKey = key(i).bytes
             /\ inOrder[i].flag = key(i).scheme
             /\ inOrder[i].signature = SignData(key(i), TxDigest(tx))
             /\ PositionOf(pk, key(i).bytes) = at(i)
             /\ HasIndexAt(positions, i)
             /\ IndexAt(positions, i) = at(i)
  <2>1. at(i) \in positions /\ key(i) \in Keys
    BY <1>1, <1>2, <1>5
  <2>2. inOrder[i] = ToSerializedSignature(key(i), SignData(key(i), TxDigest(tx)))
    BY <1>6, <2>1, SignedByKey
  <2>3. /\ inOrder[i].publicKey = key(i).bytes
        /\ inOrder[i].flag = key(i).scheme
        /\ inOrder[i].signature = SignData(key(i), TxDigest(tx))
    BY <2>2 DEF ToSerializedSignature
  <2>4. PositionOf(pk, key(i).bytes) = at(i)
    <3> DEFINE first == PositionOf(pk, key(i).bytes)
    <3>1. /\ first \in DOMAIN pk.pk_map
          /\ pk.pk_map[first].key.bytes = key(i).bytes
          /\ first <= at(i)
      BY <1>2, <2>1, PositionIsFirst
    <3>2. pk.pk_map[first].key = key(i)
      BY <1>1, <2>1, <3>1, KeyParts
    <3>3. \A j \in 1 .. at(i) - 1 : pk.pk_map[j].key # key(i)
      BY <2>1 DEF FirstPositions
    <3> HIDE DEF first, at
    <3>4. first \in Nat /\ at(i) \in Nat /\ first >= 1
      <4>1. at(i) \in Nat
        BY <1>3, <2>1
      <4>2. first \in 1 .. Len(pk.pk_map)
        BY <1>1, <3>1
      <4>3. QED
        BY <1>1, <4>1, <4>2
    <3>5. first \notin 1 .. at(i) - 1
      BY <3>2, <3>3
    <3>6. first = at(i)
      BY <3>1, <3>4, <3>5
    <3>7. QED
      BY <3>6 DEF first, at
  <2>5. \A j : IsIndexAt(positions, i, j) <=> j = at(i)
    BY <1>3, <1>5 DEF IsIndexAt
  <2>6. HasIndexAt(positions, i) /\ IndexAt(positions, i) = at(i)
    <3> HIDE DEF at
    <3>1. HasIndexAt(positions, i)
      BY <2>1, <2>5 DEF HasIndexAt
    <3>2. IsIndexAt(positions, i, IndexAt(positions, i))
      BY <2>1, <2>5 DEF IndexAt
    <3>3. QED
      BY <2>5, <3>1, <3>2
  <2>7. QED
    BY <1>6, <2>1, <2>3, <2>4, <2>6
<1>8. made.bitmap = positions
  <2>1. made.bitmap = {PositionOf(pk, inOrder[i].publicKey) : i \in DOMAIN inOrder} \ {0}
    BY DEF MultiSig
  <2>2. \A i \in 1 .. n : PositionOf(pk, inOrder[i].publicKey) = at(i)
    BY <1>7
  <2> HIDE DEF inOrder, made, at
  <2>3. made.bitmap = {at(i) : i \in 1 .. n} \ {0}
    BY <1>6, <2>1, <2>2
  <2>4. /\ \A i \in 1 .. n : at(i) \in positions
        /\ \A j \in positions : \E i \in 1 .. n : j = at(i)
        /\ \A j \in positions : j # 0
    BY <1>3, <1>5 DEF at
  <2> HIDE DEF n
  <2>5. QED
    BY <2>3, <2>4
<1>9. QED
  BY <1>5, <1>6, <1>7, <1>8

LEMMA QuorumVerifies ==
    ASSUME MadeInv, NEW pk \in MultiSigs, NEW tx \in built, ConstructorAccepts(pk),
           NEW positions \in SUBSET FirstPositions(pk), ReachesThreshold(pk, positions),
           \A i \in positions : <<pk.pk_map[i].key, tx>> \in approved
    PROVE  LET inOrder == InKeyOrder(pk, positions, tx)
           IN  /\ ToSet(inOrder) \subseteq sigs
               /\ ~ CombineThrows(inOrder, pk)
               /\ VerifyTransactionBlock(tx, MultiSig(inOrder, pk))
               /\ DecodedAsSigned(pk, positions, MultiSig(inOrder, pk))
<1> DEFINE inOrder == InKeyOrder(pk, positions, tx)
           made == MultiSig(inOrder, pk)
           n == Cardinality(positions)
           at(i) == Nth(positions, i)
           key(i) == pk.pk_map[at(i)].key
<1>1. /\ DOMAIN inOrder = 1 .. n
      /\ n \in Nat
      /\ made.bitmap = positions
      /\ \A j \in positions : \E i \in 1 .. n : j = at(i)
      /\ \A i \in 1 .. n :
            /\ at(i) \in positions
            /\ key(i) \in Keys
            /\ inOrder[i] = SignTransactionData(key(i), tx)
            /\ inOrder[i].publicKey = key(i).bytes
            /\ inOrder[i].flag = key(i).scheme
            /\ inOrder[i].signature = SignData(key(i), TxDigest(tx))
            /\ PositionOf(pk, key(i).bytes) = at(i)
            /\ HasIndexAt(positions, i)
            /\ IndexAt(positions, i) = at(i)
  BY InOrderCombined
<1>2. /\ made.flag = "MultiSig"
      /\ made.multisig_pk = pk
      /\ DOMAIN made.sigs = 1 .. n
      /\ \A i \in 1 .. n : /\ made.sigs[i] = SignData(key(i), TxDigest(tx))
                           /\ made.sigs[i].scheme = key(i).scheme
                           /\ made.sigs[i].by = key(i).bytes
  <2>1. /\ made.flag = "MultiSig"
        /\ made.multisig_pk = pk
        /\ made.sigs = [i \in DOMAIN inOrder |-> inOrder[i].signature]
    BY DEF MultiSig
  <2>2. \A i : /\ SignData(key(i), TxDigest(tx)).scheme = key(i).scheme
               /\ SignData(key(i), TxDigest(tx)).by = key(i).bytes
    BY DEF SignData
  <2> HIDE DEF inOrder, made, key, at, n
  <2>3. QED
    BY <1>1, <2>1, <2>2
<1>3. /\ positions \subseteq DOMAIN pk.pk_map
      /\ Len(pk.pk_map) \in Nat
      /\ DOMAIN pk.pk_map = 1 .. Len(pk.pk_map)
      /\ Len(pk.pk_map) <= MAX_SIGNER_IN_MULTISIG
  BY ListShape DEF FirstPositions, ConstructorAccepts
<1>4. \A i \in 1 .. n : PartialKey(made, i) = key(i)
  <2> SUFFICES ASSUME NEW i \in 1 .. n PROVE PartialKey(made, i) = key(i)
    OBVIOUS
  <2>1. made.sigs[i].scheme = key(i).scheme
    BY <1>2
  <2>2. PartialKey(made, i) = [scheme |-> key(i).scheme, bytes |-> key(i).bytes]
    BY <1>1, <1>2, <2>1 DEF PartialKey
  <2>3. key(i) \in Keys
    BY <1>1
  <2> HIDE DEF key
  <2>4. QED
    BY <2>2, <2>3, KeyParts
<1>5. ToSet(inOrder) \subseteq sigs
  <2>1. tx \in Txs
    BY DEF MadeInv, TypeOK
  <2>2. \A i \in 1 .. n : <<key(i), tx>> \in approved /\ key(i) \in Keys
    BY <1>1
  <2>3. \A i \in 1 .. n : inOrder[i] \in sigs
    BY <1>1, <2>1, <2>2 DEF MadeInv, ApprovedHeld
  <2>4. QED
    BY <1>1, <2>3 DEF ToSet
<1>6. ~ CombineThrows(inOrder, pk)
  <2>1. ASSUME NEW i \in 1 .. n
        PROVE  /\ ~ IsMultiSig(inOrder[i])
               /\ PositionOf(pk, inOrder[i].publicKey) # 0
    <3>1. key(i) \in Keys /\ inOrder[i].flag = key(i).scheme
      BY <1>1
    <3>2. inOrder[i].flag # "MultiSig"
      BY <3>1, KeyParts DEF Schemes
    <3>3. at(i) # 0 /\ PositionOf(pk, inOrder[i].publicKey) = at(i)
      BY <1>1, <1>3
    <3>4. QED
      BY <3>2, <3>3 DEF IsMultiSig
  <2>2. ASSUME NEW i \in 1 .. n, NEW j \in 1 .. i - 1
        PROVE  inOrder[j].publicKey # inOrder[i].publicKey
    <3>1. j \in 1 .. n /\ j - 1 # i - 1
      BY <1>1
    <3>2. positions \subseteq Nat /\ IsFiniteSet(positions)
      <4>1. IsFiniteSet(1 .. Len(pk.pk_map))
        BY <1>3, FS_Interval
      <4>2. QED
        BY <1>3, <4>1, FS_Subset
    <3>3. Rank(positions, at(i)) = i - 1 /\ Rank(positions, at(j)) = j - 1
      BY <3>1, <3>2, NthLists
    <3>4. at(i) # at(j)
      BY <3>1, <3>3
    <3>5. PositionOf(pk, inOrder[i].publicKey) # PositionOf(pk, inOrder[j].publicKey)
      BY <1>1, <3>1, <3>4
    <3>6. QED
      BY <3>5
  <2> HIDE DEF inOrder, n
  <2>3. QED
    BY <1>1, <2>1, <2>2 DEF CombineThrows
<1>7. ~ ParseThrows(made)
  <2>1. ~ InvalidBitmap(positions)
    BY <1>3, LimitAssumption DEF InvalidBitmap
  <2>2. ASSUME NEW i \in 1 .. n
        PROVE  /\ HasIndexAt(positions, i)
               /\ IndexAt(positions, i) \in DOMAIN pk.pk_map
               /\ KeyFits(made.sigs[i].scheme, pk.pk_map[IndexAt(positions, i)].key)
    <3>1. IndexAt(positions, i) = at(i) /\ at(i) \in positions /\ HasIndexAt(positions, i)
      BY <1>1
    <3>2. made.sigs[i].scheme = key(i).scheme
      BY <1>2
    <3>3. KeyFits(made.sigs[i].scheme, pk.pk_map[IndexAt(positions, i)].key)
      BY <3>1, <3>2 DEF KeyFits
    <3>4. QED
      BY <1>3, <3>1, <3>3
  <2> HIDE DEF made, n
  <2>3. QED
    BY <1>1, <1>2, <2>1, <2>2 DEF ParseThrows
<1>8. Signers(made) = positions
  <2>1. \A i \in 1 .. n : IndexAt(positions, i) = at(i) /\ at(i) \in positions
    BY <1>1
  <2>2. \A j \in positions : \E i \in 1 .. n : j = at(i)
    BY <1>1
  <2>3. Signers(made) = {IndexAt(positions, i) : i \in 1 .. n}
    BY <1>1, <1>2 DEF Signers
  <2> HIDE DEF made, n, at
  <2>4. QED
    BY <2>1, <2>2, <2>3
<1>9. VerifyTransactionBlock(tx, made)
  <2>1. PartialsVerify(TxDigest(tx), made)
    BY <1>2, <1>4 DEF PartialsVerify, RawVerifies
  <2>2. MultiSigVerify(pk, TxDigest(tx), made) = "true"
    <3> HIDE DEF made
    <3>1. QED
      BY <1>2, <1>7, <1>8, <2>1 DEF MultiSigVerify, IsMultiSig
  <2>3. QED
    BY <1>2, <2>2 DEF VerifyTransactionBlock, VerifyParsed, IsMultiSig
<1>10. DecodedAsSigned(pk, positions, made)
  <2> DEFINE decoded == DecodeMultiSig(made)
             weight(j) == pk.pk_map[j].weight
  <2>1. /\ DOMAIN decoded = 1 .. n
        /\ \A i \in 1 .. n : /\ decoded[i].pubKey = pk.pk_map[at(i)].key
                             /\ decoded[i].weight = pk.pk_map[at(i)].weight
    <3>1. decoded = [i \in DOMAIN made.sigs |->
              [signature |-> made.sigs[i],
               pubKey    |-> PartialKey(made, i),
               weight    |-> made.multisig_pk.pk_map[IndexAt(made.bitmap, i)].weight]]
      BY DEF DecodeMultiSig
    <3> HIDE DEF decoded, made
    <3>2. \A i \in 1 .. n : made.multisig_pk.pk_map[IndexAt(made.bitmap, i)].weight
                              = pk.pk_map[at(i)].weight
      BY <1>1, <1>2
    <3>3. QED
      BY <1>2, <1>4, <3>1, <3>2
  <2>2. {<<d.pubKey, d.weight>> : d \in ToSet(decoded)}
          = {<<pk.pk_map[j].key, pk.pk_map[j].weight>> : j \in positions}
    <3>1. ToSet(decoded) = {decoded[i] : i \in 1 .. n}
      BY <2>1 DEF ToSet
    <3>2. \A i \in 1 .. n : at(i) \in positions
      BY <1>1
    <3>3. \A j \in positions : \E i \in 1 .. n : j = at(i)
      BY <1>1
    <3> HIDE DEF decoded, n, at
    <3>4. QED
      BY <2>1, <3>1, <3>2, <3>3
  <2>3. \A i \in 1 .. n : decoded[i].pubKey.bytes = made.sigs[i].by
    BY <1>2, <2>1
  <2> HIDE DEF made, n
  <2>4. QED
    BY <1>2, <1>7, <2>2, <2>3 DEF DecodedAsSigned
<1>11. QED
  BY <1>5, <1>6, <1>9, <1>10

\* Once a quorum of an account's keys has signed a transaction, their signatures
\* are held, combine in key order by either combiner, verify, and decode to the
\* keys and weights they were made with: for every list the constructor accepts.
THEOREM SpecQuorumSuffices == Spec => []QuorumSuffices
<1>1. MadeInv => QuorumSuffices
  BY QuorumVerifies DEF QuorumSuffices, Combine, CombineLegacy
<1>2. QED
  BY <1>1, MadeHolds, PTL
=============================================================================
