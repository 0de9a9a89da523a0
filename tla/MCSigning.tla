------------------------------ MODULE MCSigning ------------------------------
(* One key of each signature scheme and a limit of two keys to a MultiSig in
   place of ten: an account that needs both its keys, one that can do with the
   first, a list of three keys beyond the limit that only the legacy function
   combines for, and a list that names one key twice. The first is the sender
   the user sets, and the Ed25519 key's account is the sponsor. One message is
   the length-prefixed form of the other. *)
EXTENDS Signing

CONSTANT m

MCEd == [scheme |-> "ED25519", bytes |-> "ed"]
MCK1 == [scheme |-> "Secp256k1", bytes |-> "k1"]
MCR1 == [scheme |-> "Secp256r1", bytes |-> "r1"]

MCKeys == {MCEd, MCK1, MCR1}

Member(key, weight) == [key |-> key, weight |-> weight]

MCShared == [pk_map |-> <<Member(MCK1, 1), Member(MCEd, 1)>>, threshold |-> 2]

MCEither == [pk_map |-> <<Member(MCEd, 2), Member(MCR1, 1)>>, threshold |-> 2]

MCTooMany == [pk_map |-> <<Member(MCR1, 1), Member(MCEd, 1), Member(MCK1, 3)>>, threshold |-> 2]

MCTwice == [pk_map |-> <<Member(MCEd, 2), Member(MCEd, 1)>>, threshold |-> 2]

MCMultiSigs == {MCShared, MCEither, MCTooMany, MCTwice}

MCMessages == {m, BcsVector(m)}

MCSenders == {MultiSigAddress(MCShared)}

MCSponsors == {ToSuiAddress(MCEd)}
=============================================================================
