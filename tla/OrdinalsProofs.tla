----------------------------- MODULE OrdinalsProofs -----------------------------
(****************************************************************************)
(* Facts about finite sets of natural numbers and their n-th members.       *)
(*                                                                          *)
(* Induction is by least counterexample (LeastNat), a statement about a set *)
(* of numbers, because the induction theorems of the library are about an   *)
(* operator, which the provers at hand cannot instantiate.                  *)
(****************************************************************************)
EXTENDS Ordinals, Sequences, FiniteSetTheorems, WellFoundedInduction, TLAPS

\* A set of natural numbers that is not empty has a least member.
LEMMA LeastNat ==
    ASSUME NEW T, T \subseteq Nat, T # {}
    PROVE  \E m \in T : \A k \in T : m <= k
<1>. DEFINE R == {p \in Nat \X Nat : p[1] < p[2]}
<1>1. IsWellFoundedOn(R, Nat)
  BY NatLessThanWellFounded, Zenon DEF OpToRel
<1>2. PICK m \in T : \A k \in T : ~(<<k, m>> \in R)
  <2>. HIDE DEF R
  <2>. QED BY <1>1, WFMin
<1>3. \A k \in T : ~(k < m)
  BY <1>2
<1>. QED BY <1>3

\* The empty set has no member.
LEMMA EmptyCounted == Cardinality({}) = 0
BY FS_EmptySet

\* A set of numbers from 1 to n is finite.
LEMMA InitialFinite ==
    ASSUME NEW n \in Nat, NEW S \in SUBSET (1 .. n)
    PROVE  IsFiniteSet(S) /\ Cardinality(S) \in Nat
<1>1. IsFiniteSet(1 .. n)
  BY FS_Interval
<1>. QED BY <1>1, FS_Subset, FS_CardinalityType

\* Every number up to the size of a set is the place of a member.
LEMMA NthPlace ==
    ASSUME NEW n \in Nat, NEW S \in SUBSET (1 .. n), NEW k \in 1 .. Cardinality(S)
    PROVE  \E i \in S : Cardinality(UpTo(S, i)) = k
<1>. DEFINE Full(m) == \A R \in SUBSET (1 .. m) : \A j \in 1 .. Cardinality(R) :
                            \E i \in R : Cardinality(UpTo(R, i)) = j
<1>1. Full(0)
  <2>1. \A R \in SUBSET (1 .. 0) : R = {}
    OBVIOUS
  <2>2. Cardinality({}) = 0 /\ 1 .. 0 = {}
    BY FS_EmptySet
  <2>. QED BY <2>1, <2>2
<1>2. ASSUME NEW m \in Nat, Full(m) PROVE Full(m + 1)
  <2>. SUFFICES ASSUME NEW R \in SUBSET (1 .. m + 1), NEW j \in 1 .. Cardinality(R)
                PROVE  \E i \in R : Cardinality(UpTo(R, i)) = j
    OBVIOUS
  <2>1. IsFiniteSet(R) /\ Cardinality(R) \in Nat
    <3>1. m + 1 \in Nat
      OBVIOUS
    <3>. QED BY <3>1, InitialFinite
  <2>2. CASE m + 1 \notin R
    <3>1. R \in SUBSET (1 .. m)
      BY <2>2
    <3>. QED BY <1>2, <3>1
  <2>3. CASE m + 1 \in R
    <3>. DEFINE Q == R \ {m + 1}
    <3>1. Q \in SUBSET (1 .. m) /\ Cardinality(Q) = Cardinality(R) - 1
      <4>1. Cardinality(Q) = Cardinality(R) - 1
        BY <2>1, <2>3, FS_RemoveElement
      <4>. QED BY <4>1
    <3>2. \A i \in Q : UpTo(R, i) = UpTo(Q, i)
      BY <3>1 DEF UpTo
    <3>3. UpTo(R, m + 1) = R
      <4>1. \A i \in R : i <= m + 1
        OBVIOUS
      <4>. QED BY <4>1 DEF UpTo
    <3>4. CASE j = Cardinality(R)
      BY <2>3, <3>3, <3>4
    <3>5. CASE j # Cardinality(R)
      <4>1. j \in 1 .. Cardinality(Q)
        BY <2>1, <3>1, <3>5
      <4>2. PICK i \in Q : Cardinality(UpTo(Q, i)) = j
        BY <1>2, <3>1, <4>1
      <4>. QED BY <3>2, <4>2
    <3>. QED BY <3>4, <3>5
  <2>. QED BY <2>2, <2>3
<1>3. Full(n)
  <2>. DEFINE Bad == {m \in Nat : ~Full(m)}
  <2>. HIDE DEF Full
  <2>. SUFFICES ASSUME n \in Bad PROVE FALSE
    OBVIOUS
  <2>1. PICK m \in Bad : \A q \in Bad : m <= q
    BY LeastNat
  <2>2. m \in Nat /\ m # 0 /\ m - 1 \in Nat /\ m - 1 \notin Bad
    BY <1>1, <2>1
  <2>. QED BY <1>2, <2>1, <2>2
<1>. QED BY <1>3

\* A set of numbers has an n-th member for every n up to its size, in its place.
LEMMA NthExists ==
    ASSUME NEW n \in Nat, NEW S \in SUBSET (1 .. n), NEW k \in 1 .. Cardinality(S)
    PROVE  Nth(S, k) \in S /\ Cardinality(UpTo(S, Nth(S, k))) = k
<1>1. {i \in S : Cardinality(UpTo(S, i)) = k} # {}
  BY NthPlace
<1>. QED BY <1>1 DEF Nth, AnyOf

\* What a sequence holds at its first k positions is its prefix of length k.
LEMMA PickedPrefix ==
    ASSUME NEW S, NEW seq \in Seq(S), NEW k \in 0 .. Len(seq)
    PROVE  Picked(1 .. k, seq) = SubSeq(seq, 1, k)
<1>1. \A i \in 0 .. k : Cardinality(1 .. i) = i
  BY FS_Interval
<1>2. ASSUME NEW n \in 1 .. k PROVE Nth(1 .. k, n) = n
  <2>1. ASSUME NEW i \in 1 .. k PROVE Cardinality(UpTo(1 .. k, i)) = i
    <3>1. UpTo(1 .. k, i) = 1 .. i
      BY DEF UpTo
    <3>. QED BY <1>1, <3>1
  <2>2. {i \in 1 .. k : Cardinality(UpTo(1 .. k, i)) = n} = {n}
    BY <2>1
  <2>. QED BY <2>2 DEF Nth, AnyOf
<1>3. Picked(1 .. k, seq) = [n \in 1 .. k |-> seq[n]]
  BY <1>1, <1>2 DEF Picked
<1>4. SubSeq(seq, 1, k) = [n \in 1 .. k |-> seq[n]]
  OBVIOUS
<1>. QED BY <1>3, <1>4

\* The greater of two members has more members up to it.
LEMMA CountedStrictly ==
    ASSUME NEW n \in Nat, NEW S \in SUBSET (1 .. n), NEW i \in S, NEW j \in S
    PROVE  /\ Cardinality(UpTo(S, i)) \in 1 .. Cardinality(S)
           /\ i < j => Cardinality(UpTo(S, i)) < Cardinality(UpTo(S, j))
<1>1. /\ IsFiniteSet(S) /\ Cardinality(S) \in Nat /\ i \in Nat /\ j \in Nat
      /\ \A R \in SUBSET S : IsFiniteSet(R) /\ Cardinality(R) \in Nat
                              /\ Cardinality(R) <= Cardinality(S)
  <2>1. IsFiniteSet(S)
    BY InitialFinite
  <2>2. \A R \in SUBSET S : IsFiniteSet(R) /\ Cardinality(R) <= Cardinality(S)
    BY <2>1, FS_Subset
  <2>. QED BY <2>1, <2>2, FS_CardinalityType
<1>2. UpTo(S, i) \in SUBSET S /\ UpTo(S, j) \in SUBSET S
  BY DEF UpTo
<1>3. Cardinality(UpTo(S, i)) # 0
  <2>1. i \in UpTo(S, i)
    BY <1>1 DEF UpTo
  <2>. QED BY <1>1, <1>2, <2>1, FS_EmptySet
<1>4. i < j => Cardinality(UpTo(S, i)) < Cardinality(UpTo(S, j))
  <2>. SUFFICES ASSUME i < j PROVE Cardinality(UpTo(S, i)) < Cardinality(UpTo(S, j))
    OBVIOUS
  <2>1. UpTo(S, i) \in SUBSET UpTo(S, j) /\ j \in UpTo(S, j) /\ j \notin UpTo(S, i)
    <3>1. \A x \in S : x \in Nat /\ (x <= i => x <= j)
      BY <1>1
    <3>2. \A x \in UpTo(S, i) : x \in UpTo(S, j)
      BY <3>1 DEF UpTo
    <3>3. ~(j <= i) /\ j <= j
      BY <1>1
    <3>. QED BY <3>2, <3>3 DEF UpTo
  <2>2. IsFiniteSet(UpTo(S, j))
    BY <1>1, <1>2
  <2>3. /\ Cardinality(UpTo(S, i)) <= Cardinality(UpTo(S, j))
        /\ Cardinality(UpTo(S, i)) # Cardinality(UpTo(S, j))
    BY <2>1, <2>2, FS_Subset
  <2>. QED BY <1>1, <1>2, <2>3
<1>. QED BY <1>1, <1>2, <1>3, <1>4

\* Every member has a place, the number of members up to it.
LEMMA NthCovers ==
    ASSUME NEW n \in Nat, NEW S \in SUBSET (1 .. n), NEW i \in S
    PROVE  /\ Cardinality(UpTo(S, i)) \in 1 .. Cardinality(S)
           /\ Nth(S, Cardinality(UpTo(S, i))) = i
<1>1. ASSUME NEW j \in S, Cardinality(UpTo(S, j)) = Cardinality(UpTo(S, i)) PROVE j = i
  <2>1. ~(i < j) /\ ~(j < i)
    <3>1. Cardinality(UpTo(S, i)) \in Nat
      <4>1. Cardinality(S) \in Nat
        BY InitialFinite
      <4>2. Cardinality(UpTo(S, i)) \in 1 .. Cardinality(S)
        BY CountedStrictly
      <4>. QED BY <4>1, <4>2
    <3>2. /\ i < j => Cardinality(UpTo(S, i)) < Cardinality(UpTo(S, j))
          /\ j < i => Cardinality(UpTo(S, j)) < Cardinality(UpTo(S, i))
      BY CountedStrictly
    <3>. QED BY <1>1, <3>1, <3>2
  <2>2. i \in Nat /\ j \in Nat
    OBVIOUS
  <2>. QED BY <2>1, <2>2
<1>2. {j \in S : Cardinality(UpTo(S, j)) = Cardinality(UpTo(S, i))} = {i}
  BY <1>1
<1>. QED BY <1>2, CountedStrictly DEF Nth, AnyOf

\* Places are given in increasing order.
LEMMA NthIncreases ==
    ASSUME NEW n \in Nat, NEW S \in SUBSET (1 .. n),
           NEW k \in 1 .. Cardinality(S), NEW l \in 1 .. Cardinality(S), k < l
    PROVE  Nth(S, k) < Nth(S, l)
<1>1. /\ Nth(S, k) \in S /\ Cardinality(UpTo(S, Nth(S, k))) = k
      /\ Nth(S, l) \in S /\ Cardinality(UpTo(S, Nth(S, l))) = l
  BY NthExists
<1>2. Nth(S, k) \in Nat /\ Nth(S, l) \in Nat /\ Nth(S, k) # Nth(S, l)
  <2>1. Cardinality(S) \in Nat
    BY InitialFinite
  <2>2. k # l /\ \A x \in S : x \in Nat
    BY <2>1
  <2>3. Nth(S, k) \in Nat /\ Nth(S, l) \in Nat
    BY <1>1, <2>2
  <2>4. Nth(S, k) # Nth(S, l)
    BY <1>1, <2>2, Zenon
  <2>. QED BY <2>3, <2>4
<1>3. ~(Nth(S, l) < Nth(S, k))
  <2>1. Nth(S, l) < Nth(S, k) => l < k
    BY <1>1, CountedStrictly
  <2>. QED BY <2>1
<1>. QED BY <1>2, <1>3

\* A finite set of positive numbers ends somewhere.
LEMMA FiniteBounded ==
    ASSUME NEW S \in SUBSET (Nat \ {0}), IsFiniteSet(S)
    PROVE  \E n \in Nat : S \subseteq 1 .. n
<1>. DEFINE Ends(m) == \A R \in SUBSET S : Cardinality(R) = m => \E n \in Nat : R \subseteq 1 .. n
<1>0. \A R \in SUBSET S : IsFiniteSet(R) /\ Cardinality(R) \in Nat
  BY FS_Subset, FS_CardinalityType
<1>1. Ends(0)
  <2>. SUFFICES ASSUME NEW R \in SUBSET S, Cardinality(R) = 0
                PROVE  \E n \in Nat : R \subseteq 1 .. n
    OBVIOUS
  <2>1. R = {}
    BY <1>0, FS_EmptySet
  <2>. QED BY <2>1
<1>2. ASSUME NEW m \in Nat, Ends(m) PROVE Ends(m + 1)
  <2>. SUFFICES ASSUME NEW R \in SUBSET S, Cardinality(R) = m + 1
                PROVE  \E n \in Nat : R \subseteq 1 .. n
    OBVIOUS
  <2>1. R # {}
    BY EmptyCounted
  <2>2. PICK x \in R : TRUE
    BY <2>1
  <2>3. Cardinality(R \ {x}) = m
    <3>1. Cardinality(R \ {x}) = Cardinality(R) - 1
      BY <1>0, <2>2, FS_RemoveElement
    <3>. QED BY <3>1
  <2>4. PICK n \in Nat : R \ {x} \subseteq 1 .. n
    BY <1>2, <2>3
  <2>5. x \in Nat \ {0}
    BY <2>2
  <2>6. R \subseteq 1 .. n + x
    <3>1. ASSUME NEW y \in R PROVE y \in 1 .. n + x
      <4>1. y = x \/ y \in 1 .. n
        BY <2>4
      <4>. QED BY <2>5, <4>1
    <3>. QED BY <3>1
  <2>7. n + x \in Nat
    BY <2>5
  <2>. QED BY <2>6, <2>7
<1>3. \A m \in Nat : Ends(m)
  <2>. DEFINE Bad == {m \in Nat : ~Ends(m)}
  <2>. HIDE DEF Ends
  <2>. SUFFICES ASSUME Bad # {} PROVE FALSE
    OBVIOUS
  <2>1. PICK m \in Bad : \A q \in Bad : m <= q
    BY LeastNat
  <2>2. m \in Nat /\ m # 0 /\ m - 1 \in Nat /\ m - 1 \notin Bad
    BY <1>1, <2>1
  <2>. QED BY <1>2, <2>1, <2>2
<1>. QED BY <1>0, <1>3

\* A new member moves each other one by at most one place.
LEMMA PlaceOfGrown ==
    ASSUME NEW n \in Nat, NEW S \in SUBSET (1 .. n), NEW new \in Nat, new \notin S, NEW i \in S
    PROVE  /\ Cardinality(UpTo(S, i)) \in Nat
           /\ Cardinality(UpTo(S \cup {new}, i))
                \in {Cardinality(UpTo(S, i)), Cardinality(UpTo(S, i)) + 1}
<1>1. IsFiniteSet(UpTo(S, i)) /\ Cardinality(UpTo(S, i)) \in Nat
  <2>1. UpTo(S, i) \in SUBSET (1 .. n)
    BY DEF UpTo
  <2>. QED BY <2>1, InitialFinite
<1>2. new \notin UpTo(S, i)
  BY DEF UpTo
<1>3. Cardinality(UpTo(S, i) \cup {new}) = Cardinality(UpTo(S, i)) + 1
  BY <1>1, <1>2, FS_AddElement
<1>4. UpTo(S \cup {new}, i) \in {UpTo(S, i), UpTo(S, i) \cup {new}}
  <2>1. CASE new <= i
    BY <2>1 DEF UpTo
  <2>2. CASE ~(new <= i)
    BY <2>2 DEF UpTo
  <2>. QED BY <2>1, <2>2
<1>. QED BY <1>1, <1>3, <1>4
================================================================================
