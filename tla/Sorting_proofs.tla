---------------------------- MODULE Sorting_proofs --------------------------
(***************************************************************************)
(* A finite set with an order has a listing in that order.  Induction over *)
(* finite sets is by a smallest counterexample.                            *)
(***************************************************************************)
EXTENDS Sorting, Sequences, FiniteSetTheorems, TLAPS

(* What orders the elements of S one after another.                        *)
Orders(order, S) ==
  /\ \A x \in S : <<x, x>> \notin order
  /\ \A x, y \in S : x # y => <<x, y>> \in order \/ <<y, x>> \in order
  /\ \A x, y, z \in S : <<x, y>> \in order /\ <<y, z>> \in order => <<x, z>> \in order

(* Of a finite set with bad subsets, some are smallest.                    *)
LEMMA SmallestBad ==
  ASSUME NEW S, IsFiniteSet(S), NEW Bad, Bad \subseteq SUBSET S, Bad # {}
  PROVE  \E T \in Bad : \A U \in SUBSET T : U # T => U \notin Bad
<1>1. Bad \subseteq FiniteSubsetsOf(S)
  BY FS_Subset DEF FiniteSubsetsOf
<1>2. IsWellFoundedOn(StrictSubsetOrdering(S), FiniteSubsetsOf(S))
  BY FS_StrictSubsetOrderingWellFounded
<1>3. PICK T \in Bad : \A U \in Bad : ~(<<U, T>> \in StrictSubsetOrdering(S))
  BY <1>1, <1>2, WFMin
<1>4. \A U \in SUBSET T : U # T => U \notin Bad
  BY <1>3 DEF StrictSubsetOrdering
<1> QED BY <1>4

Greatest(T, order) == {m \in T : \A x \in T \ {m} : <<x, m>> \in order}

(* A finite set with an order has a last element.                          *)
LEMMA GreatestExists ==
  ASSUME NEW S, IsFiniteSet(S), S # {}, NEW order, Orders(order, S)
  PROVE  \E m \in S : \A x \in S \ {m} : <<x, m>> \in order
<1> DEFINE Bad == {T \in SUBSET S : T # {} /\ Greatest(T, order) = {}}
<1>1. SUFFICES ASSUME Bad # {} PROVE FALSE
  BY DEF Greatest
<1>2. PICK T \in Bad : \A U \in SUBSET T : U # T => U \notin Bad
  <2> HIDE DEF Bad
  <2>1. Bad \subseteq SUBSET S
    BY DEF Bad
  <2> QED BY <1>1, <2>1, SmallestBad
<1>3. PICK x : x \in T
  OBVIOUS
<1>4. T \ {x} \notin Bad
  BY <1>2, <1>3
<1>5. CASE T \ {x} = {}
  BY <1>3, <1>5 DEF Greatest
<1>6. CASE T \ {x} # {}
  <2>1. PICK m \in T \ {x} : \A y \in (T \ {x}) \ {m} : <<y, m>> \in order
    BY <1>4, <1>6 DEF Greatest
  <2>2. CASE <<x, m>> \in order
    BY <2>1, <2>2 DEF Greatest
  <2>3. CASE <<m, x>> \in order
    <3>1. \A y \in T \ {x} : <<y, x>> \in order
      BY <1>3, <2>1, <2>3 DEF Orders
    <3> QED BY <1>3, <3>1 DEF Greatest
  <2> QED BY <1>3, <2>1, <2>2, <2>3 DEF Orders
<1> QED BY <1>5, <1>6

Listings(T, order) ==
  {s \in [1..Cardinality(T) -> T] :
     \A i, j \in 1..Cardinality(T) : i < j => <<s[i], s[j]>> \in order}

(* So it can be listed.                                                    *)
LEMMA ListingExists ==
  ASSUME NEW S, IsFiniteSet(S), NEW order, Orders(order, S)
  PROVE  Listings(S, order) # {}
<1> DEFINE Bad == {T \in SUBSET S : Listings(T, order) = {}}
<1>1. SUFFICES ASSUME Bad # {} PROVE FALSE
  OBVIOUS
<1>2. PICK T \in Bad : \A U \in SUBSET T : U # T => U \notin Bad
  <2> HIDE DEF Bad
  <2>1. Bad \subseteq SUBSET S
    BY DEF Bad
  <2> QED BY <1>1, <2>1, SmallestBad
<1>3. IsFiniteSet(T) /\ T \subseteq S
  BY FS_Subset
<1>4. CASE T = {}
  <2>1. Cardinality({}) = 0
    BY FS_EmptySet
  <2>2. 1..Cardinality(T) = {}
    BY <1>4, <2>1
  <2>3. [i \in {} |-> i] \in [{} -> T]
    OBVIOUS
  <2>4. [i \in {} |-> i] \in Listings(T, order)
    BY <2>2, <2>3 DEF Listings
  <2> QED BY <2>4
<1>5. CASE T # {}
  <2>1. Orders(order, T)
    BY <1>3 DEF Orders
  <2>2. PICK m \in T : \A x \in T \ {m} : <<x, m>> \in order
    BY <1>3, <1>5, <2>1, GreatestExists
  <2>3. PICK U : U = T \ {m}
    OBVIOUS
  <2>4. PICK n : n = Cardinality(U)
    OBVIOUS
  <2>5. n \in Nat /\ Cardinality(T) = n + 1
    <3>1. IsFiniteSet(U) /\ Cardinality(U) = Cardinality(T) - 1
      BY <1>3, <2>2, <2>3, FS_RemoveElement
    <3>2. Cardinality(T) \in Nat /\ Cardinality(U) \in Nat
      BY <1>3, <3>1, FS_CardinalityType
    <3> QED BY <2>4, <3>1, <3>2
  <2>6. PICK s \in [1..n -> U] : \A i, j \in 1..n : i < j => <<s[i], s[j]>> \in order
    <3>1. U \in SUBSET T /\ U # T /\ U \in SUBSET S
      BY <1>3, <2>2, <2>3
    <3>2. Listings(U, order) # {}
      BY <1>2, <3>1
    <3> QED BY <2>4, <3>2 DEF Listings
  <2>7. PICK t : t = [i \in 1..n + 1 |-> IF i = n + 1 THEN m ELSE s[i]]
    OBVIOUS
  <2>8. t \in [1..n + 1 -> T]
    BY <2>3, <2>5, <2>6, <2>7
  <2>9. ASSUME NEW i \in 1..n + 1, NEW j \in 1..n + 1, i < j
        PROVE  <<t[i], t[j]>> \in order
    <3>1. i \in 1..n /\ t[i] = s[i] /\ s[i] \in U
      BY <2>5, <2>6, <2>7, <2>9
    <3>2. CASE j = n + 1
      BY <2>2, <2>3, <2>7, <3>1, <3>2
    <3>3. CASE j # n + 1
      BY <2>5, <2>6, <2>7, <2>9, <3>1, <3>3
    <3> QED BY <3>2, <3>3
  <2>10. t \in Listings(T, order)
    BY <2>5, <2>8, <2>9 DEF Listings
  <2> QED BY <2>10
<1> QED BY <1>4, <1>5

(* A listing of a finite set names every element once.                     *)
THEOREM ListingComplete ==
  ASSUME NEW S, IsFiniteSet(S), NEW order, Orders(order, S), NEW s \in Listings(S, order)
  PROVE  /\ s \in Seq(S) /\ Len(s) = Cardinality(S)
         /\ \A x \in S : \E i \in 1..Len(s) : s[i] = x
<1> DEFINE n == Cardinality(S)
<1>1. n \in Nat
  BY FS_CardinalityType
<1>2. /\ s \in [1..n -> S]
      /\ \A i, j \in 1..n : i < j => <<s[i], s[j]>> \in order
  BY DEF Listings
<1>3. s \in Injection(1..n, S)
  <2>1. ASSUME NEW i \in 1..n, NEW j \in 1..n, i # j PROVE s[i] # s[j]
    <3>1. i < j \/ j < i
      BY <1>1, <2>1
    <3>2. <<s[i], s[j]>> \in order \/ <<s[j], s[i]>> \in order
      BY <1>2, <3>1
    <3> QED BY <1>2, <3>2 DEF Orders
  <2> QED BY <1>2, <2>1 DEF Injection, IsInjective
<1>4. IsFiniteSet(1..n) /\ Cardinality(1..n) = n
  BY <1>1, FS_Interval
<1>5. s \in Surjection(1..n, S)
  BY <1>3, <1>4, FS_Injection
<1>6. s \in Seq(S) /\ Len(s) = n
  BY <1>1, <1>2
<1> QED BY <1>5, <1>6 DEF Surjection

(* Numbers are listed from the smallest to the largest.                    *)
THEOREM AscendingLists ==
  ASSUME NEW S \in SUBSET Nat, IsFiniteSet(S)
  PROVE  \E s \in Seq(S) :
         /\ s = Ascending(S) /\ Len(s) = Cardinality(S)
         /\ \A i, j \in 1..Len(s) : i < j => s[i] < s[j]
         /\ \A x \in S : \E i \in 1..Len(s) : s[i] = x
<1> DEFINE order == {p \in S \X S : p[1] < p[2]}
<1>1. Orders(order, S)
  BY DEF Orders
<1>2. \A s \in [1..Cardinality(S) -> S] :
        s \in Listings(S, order) <=> \A i, j \in DOMAIN s : i < j => s[i] < s[j]
  BY DEF Listings
<1> HIDE DEF order
<1>3. PICK s : s = Ascending(S)
  OBVIOUS
<1>4. s \in [1..Cardinality(S) -> S] /\ \A i, j \in DOMAIN s : i < j => s[i] < s[j]
  <2>1. \E t \in [1..Cardinality(S) -> S] : \A i, j \in DOMAIN t : i < j => t[i] < t[j]
    <3>1. Listings(S, order) # {}
      BY <1>1, ListingExists
    <3>2. PICK t : t \in Listings(S, order)
      BY <3>1
    <3>3. t \in [1..Cardinality(S) -> S]
      BY <3>2 DEF Listings
    <3> QED BY <1>2, <3>2, <3>3
  <2> QED BY <1>3, <2>1 DEF Ascending
<1>5. s \in Listings(S, order)
  BY <1>2, <1>4
<1>6. /\ s \in Seq(S) /\ Len(s) = Cardinality(S)
      /\ \A x \in S : \E i \in 1..Len(s) : s[i] = x
  BY <1>1, <1>5, ListingComplete
<1>7. \A i, j \in 1..Len(s) : i < j => s[i] < s[j]
  BY <1>4, <1>6
<1> QED BY <1>3, <1>6, <1>7
=============================================================================
