------------------------------ MODULE Signatures ------------------------------
(***************************************************************************)
(* Keys, signatures and addresses: src/cryptography, src/multisig,          *)
(* src/verify, src/keypairs.                                                *)
(*                                                                         *)
(* Bytes are kept as the term that produced them: hashing or wrapping x is  *)
(* a record around x, so two byte strings are equal exactly when they were  *)
(* made the same way from equal parts (hash functions do not collide, and   *)
(* flags, fixed key sizes and length prefixes make the concatenations        *)
(* unambiguous). A raw signature is the record of who signed what: nobody   *)
(* makes one without the key.                                               *)
(***************************************************************************)
EXTENDS Integers, Sequences, FiniteSets, FiniteSetsExt, Ranks

CONSTANT MAX_SIGNER_IN_MULTISIG   \* 10 in the code, cryptography/multisig.ts:51

ASSUME LimitAssumption == MAX_SIGNER_IN_MULTISIG \in Nat

Schemes == {"ED25519", "Secp256k1", "Secp256r1"}

(* A key is [scheme, bytes]; the same record stands for the keypair and for
   its public key. *)
Size(scheme) == IF scheme = "ED25519" THEN 32 ELSE 33

Blake2b(bytes) == [blake2b |-> bytes]

Sha256(bytes) == [sha256 |-> bytes]

BcsVector(bytes) == [vector |-> bytes]

(* Mutant: the scope is left out of the intent. *)
MutMessageWithIntent(scope, message) == [scope |-> "TransactionData", message |-> message]

MessageWithIntent(scope, message) == [scope |-> scope, message |-> message]

-----------------------------------------------------------------------------
(* Signing and verifying with one key. The secp256k1 and secp256r1 keypairs
   hash once more, by sha256, than the Ed25519 one does. *)

PreHashed(scheme, data) == IF scheme = "ED25519" THEN data ELSE Sha256(data)

SignData(key, data) ==
    [scheme |-> key.scheme, by |-> key.bytes, over |-> PreHashed(key.scheme, data)]

RawVerifies(key, data, signature) == signature = SignData(key, data)

ToSerializedSignature(key, signature) ==
    [flag |-> key.scheme, signature |-> signature, publicKey |-> key.bytes]

SignWithIntent(key, bytes, scope) ==
    ToSerializedSignature(key, SignData(key, Blake2b(MessageWithIntent(scope, bytes))))

(* RawSigner.signData: for messages that carry the intent already. *)
RawSignData(key, intentMessage) ==
    ToSerializedSignature(key, SignData(key, Blake2b(intentMessage)))

SignTransactionData(key, tx) == SignWithIntent(key, tx, "TransactionData")

(* Mutant: a personal message is signed as transaction bytes are. *)
MutSignPersonalMessage(key, message) == SignWithIntent(key, message, "TransactionData")

SignPersonalMessage(key, message) ==
    SignWithIntent(key, BcsVector(message), "PersonalMessage")

(* The deprecated verifyMessage goes by the raw signature and falls back to
   the message without its length prefix, as old SDK versions signed it. *)
LegacyVerifyMessage(key, message, raw, scope) ==
    LET Over(bytes) == RawVerifies(key, Blake2b(MessageWithIntent(scope, bytes)), raw)
    IN  IF scope = "PersonalMessage"
        THEN Over(BcsVector(message)) \/ Over(message)
        ELSE Over(message)

-----------------------------------------------------------------------------
(* MultiSig public keys: [pk_map, threshold], pk_map a sequence of
   [key, weight]; MultiSig signatures: [sigs, bitmap, multisig_pk] with the
   raw signatures in the order they were given and the bitmap as the set of
   (one-based) positions of its bits. *)

IsMultiSig(serialized) == serialized.flag = "MultiSig"

(* What new MultiSigPublicKey accepts. *)
ConstructorAccepts(pk) == Len(pk.pk_map) <= MAX_SIGNER_IN_MULTISIG

Weight(pk, positions) == MapThenSumSet(LAMBDA i : pk.pk_map[i].weight, positions)

ToSuiAddress(key) == Blake2b([flag |-> key.scheme, bytes |-> key.bytes])

MultiSigAddress(pk) ==
    Blake2b([flag |-> "MultiSig", threshold |-> pk.threshold,
             members |-> [i \in DOMAIN pk.pk_map |->
                 [flag   |-> pk.pk_map[i].key.scheme,
                  bytes  |-> pk.pk_map[i].key.bytes,
                  weight |-> pk.pk_map[i].weight]]])

(* The first position that holds these key bytes; no position is 0. *)
PositionOf(pk, bytes) ==
    LET held == {j \in DOMAIN pk.pk_map : pk.pk_map[j].key.bytes = bytes}
    IN  IF held = {} THEN 0 ELSE CHOOSE j \in held : \A k \in held : j <= k

MultiSig(serialized, pk) ==
    [flag        |-> "MultiSig",
     sigs        |-> [i \in DOMAIN serialized |-> serialized[i].signature],
     bitmap      |-> {PositionOf(pk, serialized[i].publicKey) : i \in DOMAIN serialized} \ {0},
     multisig_pk |-> pk]

(* MultiSigPublicKey.combinePartialSignatures throws on a nested MultiSig, an
   unknown key and a second signature by one key. It does not look at the
   order. *)
CombineThrows(serialized, pk) ==
    \E i \in DOMAIN serialized :
        \/ IsMultiSig(serialized[i])
        \/ PositionOf(pk, serialized[i].publicKey) = 0
        \/ \E j \in 1 .. i - 1 : serialized[j].publicKey = serialized[i].publicKey

(* Mutant: bits are numbered from the last key down. *)
MutCombine(serialized, pk) ==
    [MultiSig(serialized, pk) EXCEPT
        !.bitmap = {Len(pk.pk_map) + 1 - i : i \in @}]

Combine(serialized, pk) == MultiSig(serialized, pk)

(* Mutant: a signature by a key that is not in the list is left out instead
   of being kept without a bit. *)
MutCombineLegacy(serialized, pk) ==
    MultiSig(SelectSeq(serialized, LAMBDA s : PositionOf(pk, s.publicKey) # 0), pk)

(* combinePartialSigs makes none of these checks: an unknown key sets no bit
   and a second signature sets its bit again, and both stay in sigs. *)
CombineLegacy(serialized, pk) == MultiSig(serialized, pk)

(* asIndices: the bitmap as a number may not exceed 2^10, though ten keys
   reach 2^10 - 1 only: the eleventh bit may be set alone, a later one never.
   Bits from the eleventh on are not listed. *)
InvalidBitmap(bitmap) ==
    \E j \in bitmap :
        \/ j > MAX_SIGNER_IN_MULTISIG + 1
        \/ j = MAX_SIGNER_IN_MULTISIG + 1 /\ bitmap # {j}

IsIndexAt(bitmap, i, j) ==
    /\ j \in bitmap
    /\ j <= MAX_SIGNER_IN_MULTISIG
    /\ Rank(bitmap, j) = i - 1

HasIndexAt(bitmap, i) == \E j \in bitmap : IsIndexAt(bitmap, i, j)

IndexAt(bitmap, i) == CHOOSE j \in bitmap : IsIndexAt(bitmap, i, j)

(* The key that the i-th signature is checked with: the one at the i-th bit,
   read as a key of the signature's own scheme. *)
PartialKey(serialized, i) ==
    [scheme |-> serialized.sigs[i].scheme,
     bytes  |-> serialized.multisig_pk.pk_map[IndexAt(serialized.bitmap, i)].key.bytes]

(* The constructors of the public keys check the size. *)
KeyFits(scheme, key) == Size(scheme) = Size(key.scheme)

(* parsePartialSignatures throws: a bad bitmap, a signature without a bit, a
   bit without a key, a key of another size than the scheme's. *)
ParseThrows(serialized) ==
    LET bitmap == serialized.bitmap
        pk_map == serialized.multisig_pk.pk_map
    IN  /\ serialized.sigs # << >>
        /\ \/ InvalidBitmap(bitmap)
           \/ \E i \in DOMAIN serialized.sigs :
                \/ ~ HasIndexAt(bitmap, i)
                \/ IndexAt(bitmap, i) \notin DOMAIN pk_map
                \/ ~ KeyFits(serialized.sigs[i].scheme, pk_map[IndexAt(bitmap, i)].key)

PartialsVerify(data, serialized) ==
    \A i \in DOMAIN serialized.sigs :
        RawVerifies(PartialKey(serialized, i), data, serialized.sigs[i])

Signers(serialized) == {IndexAt(serialized.bitmap, i) : i \in DOMAIN serialized.sigs}

(* The sum of the weights: no position comes twice, so it is a sum over the
   set of them. *)
ReachesThreshold(pk, positions) == Weight(pk, positions) >= pk.threshold

MultiSigVerify(pk, data, serialized) ==
    CASE ~ IsMultiSig(serialized)        -> "throws"
      [] IsMultiSig(serialized) /\ serialized.multisig_pk # pk -> "false"
      [] IsMultiSig(serialized) /\ serialized.multisig_pk = pk /\ ParseThrows(serialized) -> "throws"
      [] OTHER -> IF /\ PartialsVerify(data, serialized)
                     /\ ReachesThreshold(pk, Signers(serialized))
                  THEN "true" ELSE "false"

(* decodeMultiSig: each signature with the key and the weight its bit stands
   for. It does not verify, and throws where parsePartialSignatures does. *)
DecodeMultiSig(serialized) ==
    [i \in DOMAIN serialized.sigs |->
        [signature |-> serialized.sigs[i],
         pubKey    |-> PartialKey(serialized, i),
         weight    |-> serialized.multisig_pk.pk_map[IndexAt(serialized.bitmap, i)].weight]]

(* A signature by another scheme or another key is not looked at. *)
OfAnotherKey(key, serialized) ==
    serialized.flag # key.scheme \/ serialized.publicKey # key.bytes

(* PublicKey.verify of a single key, for a serialized signature. *)
Verify(key, data, serialized) ==
    IF OfAnotherKey(key, serialized)
    THEN "throws"
    ELSE IF RawVerifies(key, data, serialized.signature) THEN "true" ELSE "false"

(* verifyTransactionBlock and verifyPersonalMessage take the public key from
   the signature itself; they throw unless verify answers true. *)
ParsedKey(serialized) == [scheme |-> serialized.flag, bytes |-> serialized.publicKey]

VerifyParsed(digest, serialized) ==
    IF IsMultiSig(serialized)
    THEN /\ ConstructorAccepts(serialized.multisig_pk)
         /\ MultiSigVerify(serialized.multisig_pk, digest, serialized) = "true"
    ELSE Verify(ParsedKey(serialized), digest, serialized) = "true"

(* What PublicKey.verifyTransactionBlock and verifyPersonalMessage verify. *)
TxDigest(tx) == Blake2b(MessageWithIntent("TransactionData", tx))

MessageDigest(message) == Blake2b(MessageWithIntent("PersonalMessage", BcsVector(message)))

VerifyTransactionBlock(tx, serialized) == VerifyParsed(TxDigest(tx), serialized)

VerifyPersonalMessage(message, serialized) == VerifyParsed(MessageDigest(message), serialized)

(* The account a signature speaks for. *)
AccountOf(serialized) ==
    IF IsMultiSig(serialized) THEN MultiSigAddress(serialized.multisig_pk)
                              ELSE ToSuiAddress(ParsedKey(serialized))

-----------------------------------------------------------------------------
(* Exported keypairs: the secret is named by the key it belongs to. Old
   exports hold 64 bytes, secret and public key together. *)

Export(key, size) == [schema |-> key.scheme, secret |-> key.bytes, size |-> size]

(* Mutant: whatever is not ED25519 is imported as Secp256k1. *)
MutFromExportedThrows(exported) == exported.schema # "ED25519" /\ exported.size # 32

FromExportedThrows(exported) ==
    \/ exported.schema \notin {"ED25519", "Secp256k1"}
    \/ exported.schema = "Secp256k1" /\ exported.size # 32

FromExported(exported) ==
    [scheme |-> IF exported.schema = "ED25519" THEN "ED25519" ELSE "Secp256k1",
     bytes  |-> exported.secret]
=============================================================================
