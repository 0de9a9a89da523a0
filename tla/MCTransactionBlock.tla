------------------------- MODULE MCTransactionBlock -------------------------
(* Instances of TransactionBlock for TLC. *)
EXTENDS TransactionBlock

CONSTANTS c1, c2, c3, sh, gone, p, b1, b2

Use(r, g, w) == [ref |-> r, given |-> g, want |-> w]

MCObjects == {c1, c2, c3, sh, gone}
MCCoins   == <<c1, c2, c3>>
MCUserPayment == <<c3, c3>>

ReadShared    == MoveCall(<<Use(sh, Raw, "ref"), Use(p, Raw, "u64")>>)
WriteShared   == MoveCall(<<Use(sh, Raw, "mutref"), Use(c1, Raw, "object")>>)
WriteGiven    == MoveCall(<<Use(sh, Shared(TRUE), "mutref"), Use(p, Raw, "address")>>)
ReadGone      == MoveCall(<<Use(gone, Raw, "ref")>>)
TransferCoin  == TransferObjects(<<<<c1, Raw>>>>, <<p, Raw>>)
SplitCoin     == SplitCoins(<<c1, Raw>>, <<<<p, Raw>>>>)
MergeGiven    == MergeCoins(<<c1, Raw>>, <<<<c2, Owned>>>>)
UpgradePackage == Upgrade(<<c2, Raw>>)
VecOfShared   == MakeMoveVec(<<<<sh, Raw>>, <<c1, Raw>>>>)

\* Two commands of these make the interesting blocks: a shared object used twice,
\* a pure value used by two calls, two builtins or one of each that want the same
\* or different types of it, a gas coin used as an object, an object the node does
\* not know, a command without arguments.
MCCommands == {ReadShared, WriteShared, WriteGiven, ReadGone, TransferCoin, SplitCoin,
               MergeGiven, UpgradePackage, VecOfShared, Publish}

\* For the edits between builds.
EditCommands == {ReadShared, WriteShared, TransferCoin}
=============================================================================
