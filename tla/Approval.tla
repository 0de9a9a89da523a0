------------------------------- MODULE Approval -------------------------------
(***************************************************************************)
(* What signing promises, without keys in lists, bitmaps or bytes: parties  *)
(* approve transactions, and a transaction is accepted for an account only  *)
(* once a quorum of the account has approved that very transaction.         *)
(***************************************************************************)
CONSTANTS
    Parties,    \* those who can approve
    Accounts,   \* senders and gas owners
    Txs,        \* transactions
    Quorums     \* Quorums[a]: the sets of parties that can act for account a,
                \* in [Accounts -> SUBSET SUBSET Parties]

VARIABLES
    approved,   \* pairs: this party has approved that transaction
    accepted    \* pairs: for this account, that transaction is accepted

vars == <<approved, accepted>>

Init ==
    /\ approved = {}
    /\ accepted = {}

Approve(party, tx) ==
    /\ approved' = approved \cup {<<party, tx>>}
    /\ UNCHANGED accepted

Accept(account, tx) ==
    /\ \E quorum \in Quorums[account] : \A party \in quorum : <<party, tx>> \in approved
    /\ accepted' = accepted \cup {<<account, tx>>}
    /\ UNCHANGED approved

Next ==
    \E tx \in Txs :
        \/ \E party \in Parties : Approve(party, tx)
        \/ \E account \in Accounts : Accept(account, tx)

Spec == Init /\ [][Next]_vars
=============================================================================
