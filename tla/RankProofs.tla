----------------------------- MODULE RankProofs -----------------------------
(***************************************************************************)
(* Facts about numbers in finite sets and their ranks, for the proofs about *)
(* what the modules count from below: key positions, coins, arguments.      *)
(***************************************************************************)
EXTENDS Ranks, FiniteSetTheorems, TLAPS

\* A set of numbers has a least.
LEMMA LeastOf ==
    ASSUME NEW T, T \subseteq Nat, T # {}
    PROVE  \E x \in T : \A y \in T : x <= y
<1>1. PICK x \in T : \A y \in T : ~ (<<y, x>> \in OpToRel(<, Nat))
  BY WFMin, NatLessThanWellFounded
<1>2. \A y \in T : ~ (y < x)
  BY <1>1 DEF OpToRel
<1>3. QED
  BY <1>2

\* There are fewer members below a lower one.
LEMMA RankGrows ==
    ASSUME NEW S, S \subseteq Nat, IsFiniteSet(S)
    PROVE  /\ Cardinality(S) \in Nat
           /\ \A j \in S : Rank(S, j) \in 0 .. Cardinality(S) - 1
           /\ \A j, k \in S : j < k <=> Rank(S, j) < Rank(S, k)
<1> DEFINE Below(x) == {b \in S : b < x}
<1>1. \A x \in S : /\ IsFiniteSet(Below(x))
                   /\ Cardinality(Below(x)) \in Nat
                   /\ Rank(S, x) = Cardinality(Below(x))
  BY FS_Subset, FS_CardinalityType DEF Rank
<1>2. Cardinality(S) \in Nat
  BY FS_CardinalityType
<1>3. ASSUME NEW x \in S
      PROVE  Rank(S, x) \in 0 .. Cardinality(S) - 1
  <2>1. Below(x) \in SUBSET S /\ Below(x) # S
    <3>1. x \in Nat
      OBVIOUS
    <3>2. x \notin Below(x)
      BY <3>1
    <3>3. QED
      BY <3>2
  <2> HIDE DEF Below
  <2>2. /\ Cardinality(Below(x)) <= Cardinality(S)
        /\ Cardinality(Below(x)) # Cardinality(S)
    BY <2>1, FS_Subset
  <2>3. QED
    BY <1>1, <1>2, <2>2
<1>4. ASSUME NEW x \in S, NEW y \in S, x < y
      PROVE  Rank(S, x) < Rank(S, y)
  <2>1. Below(x) \cup {x} \subseteq Below(y) /\ x \notin Below(x)
    <3>1. \A b \in S : b \in Nat
      OBVIOUS
    <3>2. \A b \in S : b < x => b < y
      BY <1>4, <3>1
    <3>3. ~ (x < x)
      BY <3>1
    <3>4. QED
      BY <1>4, <3>2, <3>3
  <2>2. Cardinality(Below(x) \cup {x}) = Cardinality(Below(x)) + 1
    BY <1>1, <2>1, FS_AddElement
  <2> HIDE DEF Below
  <2>3. Cardinality(Below(x) \cup {x}) <= Cardinality(Below(y))
    BY <1>1, <2>1, FS_Subset
  <2>4. QED
    BY <1>1, <2>2, <2>3
<1>5. ASSUME NEW j \in S, NEW k \in S
      PROVE  j < k <=> Rank(S, j) < Rank(S, k)
  <2>1. j \in Nat /\ k \in Nat /\ Rank(S, j) \in Nat /\ Rank(S, k) \in Nat
    BY <1>1
  <2>2. CASE j < k
    BY <1>4, <2>2
  <2>3. CASE k < j
    BY <1>4, <2>1, <2>3
  <2>4. CASE j = k
    BY <2>1, <2>4
  <2>5. QED
    BY <2>1, <2>2, <2>3, <2>4
<1>6. QED
  BY <1>2, <1>3, <1>5

\* So every rank up to their number is taken, once.
LEMMA RankTaken ==
    ASSUME NEW S, S \subseteq Nat, IsFiniteSet(S)
    PROVE  /\ \A i \in 1 .. Cardinality(S) : \E j \in S : Rank(S, j) = i - 1
           /\ \A j, k \in S : Rank(S, j) = Rank(S, k) => j = k
<1> DEFINE n == Cardinality(S)
           f == [j \in S |-> Rank(S, j)]
<1>1. /\ n \in Nat
      /\ \A j \in S : Rank(S, j) \in 0 .. n - 1
      /\ \A j, k \in S : j < k <=> Rank(S, j) < Rank(S, k)
  BY RankGrows
<1>2. \A j, k \in S : Rank(S, j) = Rank(S, k) => j = k
  <2>1. \A j \in S : j \in Nat /\ Rank(S, j) \in Int
    BY <1>1
  <2>2. QED
    BY <1>1, <2>1
<1>3. f \in Injection(S, 0 .. n - 1)
  BY <1>1, <1>2 DEF Injection, IsInjective
<1>4. IsFiniteSet(0 .. n - 1) /\ Cardinality(0 .. n - 1) = n
  <2> HIDE DEF n
  <2>1. n - 1 \in Int /\ (0 > n - 1 <=> n = 0) /\ n - 1 - 0 + 1 = n
    BY <1>1
  <2>2. QED
    BY <2>1, FS_Interval
<1>5. f \in Surjection(S, 0 .. n - 1)
  BY <1>3, <1>4, FS_Injection
<1>6. ASSUME NEW i \in 1 .. n
      PROVE  \E j \in S : Rank(S, j) = i - 1
  <2> HIDE DEF n
  <2>1. i - 1 \in 0 .. n - 1
    BY <1>1
  <2>2. QED
    BY <1>5, <2>1 DEF Surjection
<1>7. QED
  BY <1>2, <1>6

\* Nth lists the members, each at its own rank.
LEMMA NthLists ==
    ASSUME NEW S, S \subseteq Nat, IsFiniteSet(S)
    PROVE  /\ Cardinality(S) \in Nat
           /\ \A i \in 1 .. Cardinality(S) :
                /\ Nth(S, i) \in S
                /\ Rank(S, Nth(S, i)) = i - 1
                /\ \A j \in S : Rank(S, j) = i - 1 => j = Nth(S, i)
           /\ \A j \in S : \E i \in 1 .. Cardinality(S) :
                j = Nth(S, i)
<1> DEFINE n == Cardinality(S)
<1>1. /\ n \in Nat
      /\ \A j \in S : Rank(S, j) \in 0 .. n - 1
  BY RankGrows
<1>2. \A j, k \in S : Rank(S, j) = Rank(S, k) => j = k
  BY RankTaken
<1>3. ASSUME NEW i \in 1 .. n
      PROVE  /\ Nth(S, i) \in S
             /\ Rank(S, Nth(S, i)) = i - 1
  <2>1. Nth(S, i) = CHOOSE j \in S : Rank(S, j) = i - 1
    BY DEF Nth
  <2>2. QED
    BY <2>1, RankTaken
<1>4. ASSUME NEW j \in S
      PROVE  \E i \in 1 .. n : j = Nth(S, i)
  <2> HIDE DEF n
  <2>1. Rank(S, j) + 1 \in 1 .. n /\ Rank(S, j) = (Rank(S, j) + 1) - 1
    BY <1>1
  <2>2. QED
    BY <1>2, <1>3, <2>1
<1>5. QED
  BY <1>1, <1>2, <1>3, <1>4

\* Of a lower and a higher rank, the lower member comes first.
LEMMA NthGrows ==
    ASSUME NEW S, S \subseteq Nat, IsFiniteSet(S)
    PROVE  \A i, j \in 1 .. Cardinality(S) : i < j => Nth(S, i) < Nth(S, j)
<1> DEFINE n == Cardinality(S)
<1>1. /\ n \in Nat
      /\ \A i \in 1 .. n : Nth(S, i) \in S /\ Rank(S, Nth(S, i)) = i - 1
  BY NthLists
<1>2. \A j, k \in S : j < k <=> Rank(S, j) < Rank(S, k)
  BY RankGrows
<1> HIDE DEF n
<1>3. ASSUME NEW i \in 1 .. n, NEW j \in 1 .. n, i < j
      PROVE  Nth(S, i) < Nth(S, j)
  <2>1. Rank(S, Nth(S, i)) < Rank(S, Nth(S, j))
    BY <1>1, <1>3
  <2>2. QED
    BY <1>1, <1>2, <2>1
<1>4. QED
  BY <1>3 DEF n

\* SortedBy lists the members of a finite set, each once, in the order of a
\* relation that puts any two of them in one.
LEMMA SortedByLists ==
    ASSUME NEW S, IsFiniteSet(S), NEW R,
           \A x \in S : <<x, x>> \notin R,
           \A x, y, z \in S : <<x, y>> \in R /\ <<y, z>> \in R => <<x, z>> \in R,
           \A x, y \in S : x = y \/ <<x, y>> \in R \/ <<y, x>> \in R
    PROVE  LET sorted == SortedBy(R, S)
               n == Cardinality(S)
           IN  /\ n \in Nat
               /\ sorted \in [1 .. n -> S]
               /\ \A i, j \in 1 .. n : i < j => <<sorted[i], sorted[j]>> \in R
               /\ \A x \in S : \E i \in 1 .. n : sorted[i] = x
<1> DEFINE Below(x) == {y \in S : <<y, x>> \in R}
           n == Cardinality(S)
           f == [x \in S |-> RankIn(R, S, x)]
           sorted == SortedBy(R, S)
<1>1. n \in Nat
  BY FS_CardinalityType
<1>2. \A x \in S : /\ IsFiniteSet(Below(x))
                   /\ Cardinality(Below(x)) \in Nat
                   /\ RankIn(R, S, x) = Cardinality(Below(x))
  BY FS_Subset, FS_CardinalityType DEF RankIn
<1>3. ASSUME NEW x \in S
      PROVE  RankIn(R, S, x) \in 0 .. n - 1
  <2>1. Below(x) \in SUBSET S /\ Below(x) # S
    OBVIOUS
  <2> HIDE DEF Below
  <2>2. Cardinality(Below(x)) <= n /\ Cardinality(Below(x)) # n
    BY <2>1, FS_Subset
  <2> HIDE DEF n
  <2>3. QED
    BY <1>1, <1>2, <2>2
<1>4. ASSUME NEW x \in S, NEW y \in S, <<x, y>> \in R
      PROVE  RankIn(R, S, x) < RankIn(R, S, y)
  <2>1. Below(x) \cup {x} \subseteq Below(y) /\ x \notin Below(x)
    BY <1>4
  <2>2. Cardinality(Below(x) \cup {x}) = Cardinality(Below(x)) + 1
    BY <1>2, <2>1, FS_AddElement
  <2> HIDE DEF Below
  <2>3. Cardinality(Below(x) \cup {x}) <= Cardinality(Below(y))
    BY <1>2, <2>1, FS_Subset
  <2>4. QED
    BY <1>2, <2>2, <2>3
<1>5. \A x \in S : RankIn(R, S, x) \in Nat
  BY <1>2
<1>6. \A x, y \in S : RankIn(R, S, x) = RankIn(R, S, y) => x = y
  <2>1. SUFFICES ASSUME NEW x \in S, NEW y \in S, RankIn(R, S, x) = RankIn(R, S, y)
                 PROVE  x = y
    OBVIOUS
  <2>2. ~ (RankIn(R, S, x) < RankIn(R, S, y)) /\ ~ (RankIn(R, S, y) < RankIn(R, S, x))
    BY <1>5, <2>1
  <2>3. <<x, y>> \notin R /\ <<y, x>> \notin R
    BY <1>4, <2>2
  <2>4. QED
    BY <2>3
<1>7. f \in Injection(S, 0 .. n - 1)
  BY <1>3, <1>6 DEF Injection, IsInjective
<1>8. IsFiniteSet(0 .. n - 1) /\ Cardinality(0 .. n - 1) = n
  <2> HIDE DEF n
  <2>1. n - 1 \in Int /\ (0 > n - 1 <=> n = 0) /\ n - 1 - 0 + 1 = n
    BY <1>1
  <2>2. QED
    BY <2>1, FS_Interval
<1>9. f \in Surjection(S, 0 .. n - 1)
  BY <1>7, <1>8, FS_Injection
<1>10. ASSUME NEW i \in 1 .. n
       PROVE  sorted[i] \in S /\ RankIn(R, S, sorted[i]) = i - 1
  <2>1. sorted[i] = CHOOSE x \in S : RankIn(R, S, x) = i - 1
    BY DEF SortedBy
  <2> HIDE DEF n, sorted
  <2>2. i - 1 \in 0 .. n - 1
    BY <1>1
  <2>3. \E x \in S : RankIn(R, S, x) = i - 1
    BY <1>9, <2>2 DEF Surjection
  <2>4. QED
    BY <2>1, <2>3
<1>11. DOMAIN sorted = 1 .. n /\ sorted = [i \in 1 .. n |-> sorted[i]]
  BY DEF SortedBy
<1> HIDE DEF f, sorted, n
<1>12. sorted \in [1 .. n -> S]
  BY <1>10, <1>11
<1>13. ASSUME NEW i \in 1 .. n, NEW j \in 1 .. n, i < j
       PROVE  <<sorted[i], sorted[j]>> \in R
  <2>1. /\ sorted[i] \in S /\ sorted[j] \in S
        /\ RankIn(R, S, sorted[i]) < RankIn(R, S, sorted[j])
    BY <1>1, <1>10, <1>13
  <2>2. ~ (RankIn(R, S, sorted[j]) < RankIn(R, S, sorted[i])) /\ sorted[i] # sorted[j]
    BY <1>5, <2>1
  <2>3. QED
    BY <1>4, <2>1, <2>2
<1>14. ASSUME NEW x \in S
       PROVE  \E i \in 1 .. n : sorted[i] = x
  <2>1. RankIn(R, S, x) + 1 \in 1 .. n /\ RankIn(R, S, x) = (RankIn(R, S, x) + 1) - 1
    BY <1>1, <1>3
  <2>2. QED
    BY <1>6, <1>10, <2>1
<1>15. QED
  BY <1>1, <1>12, <1>13, <1>14 DEF n, sorted
=============================================================================
