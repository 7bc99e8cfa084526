-------------------------- MODULE OrderingProofs --------------------------
(***************************************************************************)
(* What the least, the greatest and the order of a set of numbers are: the *)
(* facts the other proofs need of Min, Max and InOrder.                    *)
(***************************************************************************)
EXTENDS Ordering, FiniteSetsExt, FiniteSetTheorems, WellFoundedInduction, TLAPS

\* A set of numbers has a least one, and a finite one a greatest.
LEMMA LeastOf ==
  ASSUME NEW S \in SUBSET Nat, S # {}
  PROVE  \E m \in S : \A n \in S : m <= n
  <1>1. PICK m \in S : \A n \in S : <<n, m>> \notin OpToRel(<, Nat)
    BY WFMin, NatLessThanWellFounded
  <1>2. \A n \in S : ~(n < m)
    BY <1>1 DEF OpToRel
  <1> QED BY <1>2

LEMMA MinIsIn ==
  ASSUME NEW S \in SUBSET Nat, S # {}
  PROVE  Min(S) \in S /\ \A n \in S : Min(S) <= n
  BY LeastOf DEF Min

Topped(A) == \E m \in A : \A n \in A : n <= m

LEMMA GreatestOf ==
  ASSUME NEW S \in SUBSET Nat, IsFiniteSet(S), S # {}
  PROVE  Topped(S)
  <1> DEFINE bad == {A \in SUBSET S : A # {} /\ ~Topped(A)}
             sizes == {Cardinality(A) : A \in bad}
  <1>1. \A A \in SUBSET S : IsFiniteSet(A) /\ Cardinality(A) \in Nat
    BY FS_Subset, FS_CardinalityType
  <1>2. SUFFICES ASSUME bad # {} PROVE FALSE
    OBVIOUS
  <1>3. sizes \in SUBSET Nat /\ sizes # {}
    BY <1>1, <1>2
  <1>4. PICK k \in sizes : \A n \in sizes : k <= n
    <2> HIDE DEF sizes
    <2> QED BY <1>3, LeastOf
  <1>5. PICK A \in bad : k = Cardinality(A)
    BY <1>4
  <1>6. PICK x \in A : TRUE
    OBVIOUS
  <1> DEFINE B == A \ {x}
  <1>7. /\ B \in SUBSET S /\ Cardinality(B) = Cardinality(A) - 1
        /\ Cardinality(A) \in Nat
    BY <1>1, <1>6, FS_RemoveElement
  <1>8. Cardinality(B) \notin sizes
    <2> HIDE DEF B
    <2>1. k \in Nat /\ Cardinality(B) < k
      BY <1>1, <1>5, <1>7
    <2> QED BY <1>3, <1>4, <2>1
  <1>9. B \notin bad
    BY <1>8
  <1>10. CASE B = {}
    <2>1. A = {x}
      BY <1>6, <1>10
    <2> QED BY <2>1, <1>5 DEF Topped
  <1>11. CASE B # {}
    <2>1. PICK m \in B : \A n \in B : n <= m
      BY <1>7, <1>9, <1>11 DEF Topped
    <2>2. A \subseteq Nat
      OBVIOUS
    <2>3. \/ \A n \in A : n <= m
          \/ \A n \in A : n <= x
      BY <2>1, <2>2, <1>6
    <2> QED BY <2>1, <2>3, <1>5, <1>6 DEF Topped
  <1> QED BY <1>10, <1>11

LEMMA MaxIsIn ==
  ASSUME NEW S \in SUBSET Nat, IsFiniteSet(S), S # {}
  PROVE  Max(S) \in S /\ \A n \in S : n <= Max(S)
  <1>1. PICK m \in S : \A n \in S : n <= m
    BY GreatestOf DEF Topped
  <1>2. \A n \in S : m >= n
    BY <1>1
  <1> QED BY <1>2 DEF Max

\* InOrder lists each member of the set once.
LEMMA InOrderLists ==
  ASSUME NEW S \in SUBSET Nat, IsFiniteSet(S)
  PROVE  /\ Cardinality(S) \in Nat /\ DOMAIN InOrder(S) = 1..Cardinality(S)
         /\ \A k \in 1..Cardinality(S) : InOrder(S)[k] \in S
         /\ \A k, l \in 1..Cardinality(S) : InOrder(S)[k] = InOrder(S)[l] => k = l
         /\ \A n \in S : \E k \in 1..Cardinality(S) : InOrder(S)[k] = n
  <1> DEFINE upTo(n) == {i \in S : i <= n}
             size == Cardinality(S)
             D == 1..size
             place == [n \in S |-> Cardinality(upTo(n))]
  <1>1. size \in Nat
    BY FS_CardinalityType
  <1>2. ASSUME NEW n \in S PROVE Cardinality(upTo(n)) \in D
    <2>1. upTo(n) \in SUBSET S /\ n \in upTo(n)
      OBVIOUS
    <2> HIDE DEF upTo
    <2>2. /\ IsFiniteSet(upTo(n)) /\ Cardinality(upTo(n)) \in Nat
          /\ Cardinality(upTo(n)) <= size
      BY <2>1, FS_Subset, FS_CardinalityType
    <2>3. Cardinality(upTo(n)) # 0
      BY <2>1, <2>2, FS_EmptySet
    <2> QED BY <1>1, <2>2, <2>3
  <1>3. ASSUME NEW n \in S, NEW l \in S, n < l
        PROVE  Cardinality(upTo(n)) # Cardinality(upTo(l))
    <2>1. upTo(n) \in SUBSET upTo(l) /\ upTo(l) \in SUBSET S
      <3>1. \A i \in S : i <= n => i <= l
        BY <1>3
      <3> QED BY <3>1
    <2>2. l \in upTo(l) /\ l \notin upTo(n)
      BY <1>3
    <2> HIDE DEF upTo
    <2>3. IsFiniteSet(upTo(l))
      BY <2>1, FS_Subset
    <2>4. Cardinality(upTo(n)) = Cardinality(upTo(l)) => upTo(l) = upTo(n)
      BY <2>1, <2>3, FS_Subset
    <2> QED BY <2>2, <2>4
  <1>4. place \in [S -> D]
    BY <1>2
  <1>5. ASSUME NEW n \in S, NEW l \in S, place[n] = place[l] PROVE n = l
    <2>1. n \in Nat /\ l \in Nat
      OBVIOUS
    <2>2. ~(n < l) /\ ~(l < n)
      BY <1>3, <1>5
    <2> QED BY <2>1, <2>2
  <1>6. Cardinality(D) = size /\ IsFiniteSet(D)
    <2> HIDE DEF size
    <2> QED BY <1>1, FS_Interval
  <1> HIDE DEF place, D, upTo
  <1>7. place \in Injection(S, D)
    BY <1>4, <1>5 DEF Injection, IsInjective
  <1>8. place \in Surjection(S, D)
    BY <1>6, <1>7, FS_Injection
  <1>9. \A k \in D : \E n \in S : place[n] = k
    BY <1>8 DEF Surjection
  <1>10. \A n \in S : place[n] = Cardinality({i \in S : i <= n})
    BY DEF place, upTo
  <1>11. ASSUME NEW k \in D
         PROVE  InOrder(S)[k] \in S /\ place[InOrder(S)[k]] = k
    <2>1. InOrder(S)[k] = CHOOSE n \in S : Cardinality({i \in S : i <= n}) = k
      BY DEF InOrder, D
    <2>2. \E n \in S : Cardinality({i \in S : i <= n}) = k
      BY <1>9, <1>10
    <2>3. /\ InOrder(S)[k] \in S
          /\ Cardinality({i \in S : i <= InOrder(S)[k]}) = k
      BY <2>1, <2>2
    <2> QED BY <1>10, <2>3
  <1>12. \A n \in S : place[n] \in D /\ InOrder(S)[place[n]] = n
    BY <1>4, <1>5, <1>11
  <1>13. DOMAIN InOrder(S) = D
    BY DEF InOrder, D
  <1>14. \A k, l \in D : InOrder(S)[k] = InOrder(S)[l] => k = l
    BY <1>11
  <1>15. \A n \in S : \E k \in D : InOrder(S)[k] = n
    BY <1>12
  <1> QED BY <1>1, <1>11, <1>13, <1>14, <1>15 DEF D
=============================================================================
