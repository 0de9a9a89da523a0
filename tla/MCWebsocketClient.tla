------------------------- MODULE MCWebsocketClient -------------------------
(* Instances of WebsocketClient for TLC. *)
EXTENDS WebsocketClient, TLC

\* Sessions are interchangeable: the runs that check only safety may permute them.
SessionSymmetry == Permutations(Sessions)
=============================================================================
