------------------------------ MODULE MCWallet ------------------------------
(* The kiosks of a kind are alike: nothing in Wallet tells two of them apart. *)
EXTENDS Wallet

KioskSymmetry == Permutations(ObKiosks) \cup Permutations(SuiKiosks)
=============================================================================
