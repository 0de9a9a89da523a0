------------------------------- MODULE Ranks -------------------------------
(* The members of a finite set of numbers, counted from below; of any finite   *)
(* set, counted in the order of a relation.                                   *)
EXTENDS Integers, FiniteSets

\* How many members are below i.
Rank(S, i) == Cardinality({k \in S : k < i})

\* The n-th member from below.
Nth(S, n) == CHOOSE i \in S : Rank(S, i) = n - 1

\* The items of a sequence at these positions, in their order.
ItemsAt(seq, positions) == [k \in 1 .. Cardinality(positions) |-> seq[Nth(positions, k)]]

\* How many members R puts before x, and the members sorted by R.
RankIn(R, S, x) == Cardinality({y \in S : <<y, x>> \in R})

SortedBy(R, S) == [k \in 1 .. Cardinality(S) |-> CHOOSE x \in S : RankIn(R, S, x) = k - 1]
=============================================================================
