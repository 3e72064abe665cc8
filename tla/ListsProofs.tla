---------------------------- MODULE ListsProofs ----------------------------
(***************************************************************************)
(* What the proofs of several components need: what filtering a list       *)
(* gives, rounded division, and induction over the naturals.  Induction is *)
(* stated about sets: the library's theorems take the property as an       *)
(* operator, which the provers at hand cannot instantiate, but these       *)
(* follow from the one on finite sets.                                     *)
(***************************************************************************)
EXTENDS Lists, TLAPS, FiniteSetTheorems, WellFoundedInduction

\* A set of naturals that is not empty has a least element: its initial segments are
\* finite sets, which strict inclusion orders well.
LEMMA LeastNatural ==
    ASSUME NEW T, T \subseteq Nat, T # {}
    PROVE  \E x \in T : \A y \in T : x <= y
<1> DEFINE Below(n) == 0..(n - 1)
           F == {Below(n) : n \in T}
<1>1. F \subseteq FiniteSubsetsOf(Nat)
  <2>1. ASSUME NEW n \in T PROVE IsFiniteSet(Below(n)) /\ Below(n) \subseteq Nat
    BY FS_Interval
  <2> QED
    BY <2>1 DEF FiniteSubsetsOf
<1>2. F # {}
  OBVIOUS
<1>3. IsWellFoundedOn(StrictSubsetOrdering(Nat), FiniteSubsetsOf(Nat))
  BY FS_StrictSubsetOrderingWellFounded
<1> HIDE DEF F
<1>4. PICK X \in F : \A Y \in F : ~(<<Y, X>> \in StrictSubsetOrdering(Nat))
  BY <1>1, <1>2, <1>3, WFMin
<1> USE DEF F
<1>5. PICK x \in T : X = Below(x)
  BY <1>4
<1>6. ASSUME NEW y \in T, y < x PROVE FALSE
  <2>1. Below(y) \subseteq Below(x) /\ Below(y) # Below(x)
    <3>1. y \in Below(x) /\ y \notin Below(y)
      BY <1>6
    <3> QED
      BY <3>1, <1>6
  <2> HIDE DEF Below
  <2>2. Below(y) \in F /\ Below(y) \subseteq Nat /\ X \subseteq Nat
    BY <1>5 DEF Below
  <2>3. <<Below(y), X>> \in StrictSubsetOrdering(Nat)
    BY <1>5, <2>1, <2>2 DEF StrictSubsetOrdering
  <2> QED
    BY <1>4, <2>2, <2>3
<1> QED
  BY <1>6

\* One that is bounded has a greatest element: the least upper bound.
LEMMA GreatestNatural ==
    ASSUME NEW T, T \subseteq Nat, T # {}, NEW n \in Nat, \A y \in T : y <= n
    PROVE  \E x \in T : \A y \in T : y <= x
<1> DEFINE Bounds == {b \in Nat : \A y \in T : y <= b}
<1>1. PICK x \in Bounds : \A b \in Bounds : x <= b
  <2>1. Bounds \subseteq Nat /\ Bounds # {}
    OBVIOUS
  <2> HIDE DEF Bounds
  <2> QED
    BY <2>1, LeastNatural
<1>2. CASE x \in T
  BY <1>1, <1>2
<1>3. CASE x \notin T
  <2>1. \A y \in T : y <= x - 1
    BY <1>1, <1>3
  <2>2. x # 0
    <3>1. PICK y \in T : y \in Nat /\ y <= x /\ y # x
      BY <1>1, <1>3
    <3> QED
      BY <3>1
  <2>3. x - 1 \in Bounds
    BY <2>1, <2>2
  <2> QED
    BY <1>1, <2>3
<1> QED
  BY <1>2, <1>3

\* Induction.
LEMMA NaturalInduction ==
    ASSUME NEW T, T \subseteq Nat, 0 \in T, \A n \in T : n + 1 \in T
    PROVE  T = Nat
<1> SUFFICES ASSUME Nat \ T # {} PROVE FALSE
  OBVIOUS
<1>1. PICK x \in Nat \ T : \A y \in Nat \ T : x <= y
  BY LeastNatural
<1>2. x - 1 \in T
  BY <1>1
<1> QED
  BY <1>1, <1>2

---------------------------------------------------------------------------
(* Rounded division. *)

\* Rounding a division up.
LEMMA DivisionIs ==
    ASSUME NEW a \in Nat, NEW b \in Nat \ {0}
    PROVE  /\ a \div b \in Nat
           /\ (a \div b) * b <= a /\ a < (a \div b) * b + b
OBVIOUS

---------------------------------------------------------------------------
(* Lists. *)

\* A function on the first naturals is a list.
LEMMA ListIs ==
    ASSUME NEW S, NEW n \in Nat, NEW f \in [1..n -> S]
    PROVE  f \in Seq(S) /\ Len(f) = n
OBVIOUS

\* What a list of a set's elements holds.
LEMMA ElementIs ==
    ASSUME NEW S, NEW list \in Seq(S)
    PROVE  /\ Len(list) \in Nat /\ DOMAIN list = 1..Len(list)
           /\ \A i \in 1..Len(list) : list[i] \in S
OBVIOUS

\* The elements of a list.
Elements(list) == {list[i] : i \in DOMAIN list}

\* A list without repetitions.
NoRepeats(list) == \A i, j \in DOMAIN list : list[i] = list[j] => i = j

\* InOrder lists a finite set of naturals, each element once, ascending.
LEMMA InOrderIs ==
    ASSUME NEW S, S \subseteq Nat, IsFiniteSet(S)
    PROVE  /\ InOrder(S) \in Seq(S) /\ Len(InOrder(S)) = Cardinality(S)
           /\ DOMAIN InOrder(S) = 1..Cardinality(S)
           /\ Elements(InOrder(S)) = S /\ NoRepeats(InOrder(S))
<1> DEFINE n == Cardinality(S)
           Below(x) == {m \in S : m < x}
           rank == [x \in S |-> Cardinality(Below(x))]
<1>1. n \in Nat /\ IsFiniteSet(0..(n - 1)) /\ Cardinality(0..(n - 1)) = n
  <2>1. n \in Nat
    BY FS_CardinalityType
  <2>2. 0 \in Int /\ n - 1 \in Int
    BY <2>1
  <2> HIDE DEF n
  <2>3. IsFiniteSet(0..(n - 1)) /\ Cardinality(0..(n - 1)) = IF 0 > n - 1 THEN 0 ELSE (n - 1) - 0 + 1
    BY ONLY <2>2, FS_Interval
  <2> QED
    BY <2>1, <2>3
<1>2. ASSUME NEW x \in S
      PROVE  IsFiniteSet(Below(x)) /\ Cardinality(Below(x)) \in 0..(n - 1)
  <2>1. Below(x) \in SUBSET S /\ x \notin Below(x)
    OBVIOUS
  <2> HIDE DEF Below
  <2>2. IsFiniteSet(Below(x)) /\ Cardinality(Below(x)) <= n /\ Cardinality(Below(x)) # n
    BY <2>1, FS_Subset
  <2>3. Cardinality(Below(x)) \in Nat
    BY <2>2, FS_CardinalityType
  <2> QED
    BY <1>1, <2>2, <2>3
<1>3. ASSUME NEW x \in S, NEW y \in S, x < y
      PROVE  rank[x] # rank[y]
  <2>a. x \in Nat /\ y \in Nat /\ \A m \in S : m \in Nat
    OBVIOUS
  <2>b. \A m \in S : m < x => m < y
    BY <1>3, <2>a
  <2>c. ~(x < x)
    BY <2>a
  <2>1. Below(x) \in SUBSET Below(y) /\ x \in Below(y) /\ x \notin Below(x)
    BY Zenon, <1>3, <2>b, <2>c
  <2> HIDE DEF Below
  <2> QED
    BY <1>2, <2>1, FS_Subset
<1>4. rank \in Injection(S, 0..(n - 1))
  <2>1. rank \in [S -> 0..(n - 1)]
    BY <1>2
  <2>2. \A x, y \in S : rank[x] = rank[y] => x = y
    BY <1>3
  <2> HIDE DEF rank
  <2> QED
    BY <2>1, <2>2 DEF Injection, IsInjective
<1> HIDE DEF n
<1>5. rank \in Surjection(S, 0..(n - 1))
  BY <1>1, <1>4, FS_Injection DEF n
<1>6. ASSUME NEW k \in 1..n
      PROVE  /\ InOrder(S)[k] \in S
             /\ rank[InOrder(S)[k]] = k - 1
  <2>1. k - 1 \in 0..(n - 1)
    BY <1>1
  <2>2. \E x \in S : rank[x] = k - 1
    BY <1>5, <2>1 DEF Surjection
  <2>3. \E x \in S : Cardinality(Below(x)) = k - 1
    BY <2>2
  <2> QED
    BY <2>3 DEF InOrder, n
<1>7. DOMAIN InOrder(S) = 1..n /\ InOrder(S) \in [1..n -> S] /\ InOrder(S) \in Seq(S)
  <2> DEFINE f == InOrder(S)
             body(k) == CHOOSE x \in S : Cardinality({m \in S : m < x}) = k - 1
  <2>0. f = [k \in 1..n |-> body(k)]
    BY DEF InOrder, n
  <2> HIDE DEF body, f
  <2>1. f = [k \in 1..n |-> f[k]]
    BY <2>0
  <2>2. f \in [1..n -> S]
    BY <2>1, <1>6 DEF f
  <2> QED
    BY <1>1, <2>2 DEF f
<1> HIDE DEF rank
<1>8. NoRepeats(InOrder(S))
  BY <1>1, <1>6, <1>7 DEF NoRepeats
<1>9. Elements(InOrder(S)) = S
  <2>1. ASSUME NEW x \in S PROVE \E k \in 1..n : InOrder(S)[k] = x
    <3> DEFINE k == rank[x] + 1
    <3>1. rank[x] \in 0..(n - 1)
      BY <1>2 DEF rank
    <3>2. k \in 1..n /\ k - 1 = rank[x]
      BY <1>1, <3>1
    <3> HIDE DEF k
    <3>3. rank[InOrder(S)[k]] = rank[x] /\ InOrder(S)[k] \in S
      BY <1>6, <3>2
    <3> QED
      BY <1>4, <3>2, <3>3 DEF Injection, IsInjective
  <2> QED
    BY <1>6, <1>7, <2>1 DEF Elements
<1> QED
  BY <1>1, <1>7, <1>8, <1>9 DEF n

\* Where keeps the elements at the given places, in their order.
LEMMA WhereIs ==
    ASSUME NEW T, NEW list \in Seq(T), NEW places \in SUBSET DOMAIN list
    PROVE  /\ Where(list, places) \in Seq(T)
           /\ Elements(Where(list, places)) = {list[i] : i \in places}
           /\ NoRepeats(list) => NoRepeats(Where(list, places))
<1> DEFINE n == Cardinality(places)
           w == Where(list, places)
           o == InOrder(places)
<1>1. IsFiniteSet(places) /\ places \subseteq Nat
  <2>1. DOMAIN list = 1..Len(list) /\ Len(list) \in Nat
    OBVIOUS
  <2>2. IsFiniteSet(1..Len(list))
    BY <2>1, FS_Interval
  <2> QED
    BY <2>1, <2>2, FS_Subset
<1>2. o \in Seq(places) /\ DOMAIN o = 1..n /\ Elements(o) = places /\ NoRepeats(o)
  BY <1>1, InOrderIs
<1>3. n \in Nat
  BY <1>1, FS_CardinalityType
<1>4. w = [k \in 1..n |-> list[o[k]]]
  BY DEF Where
<1> HIDE DEF n, w, o
<1>5. \A k \in 1..n : o[k] \in places
  BY <1>2 DEF Elements
<1>6. w \in [1..n -> T] /\ w \in Seq(T)
  BY <1>3, <1>4, <1>5
<1>7. Elements(w) = {list[i] : i \in places}
  BY <1>2, <1>4, <1>5 DEF Elements
<1>8. NoRepeats(list) => NoRepeats(w)
  BY <1>2, <1>4, <1>5 DEF NoRepeats
<1> QED
  BY <1>6, <1>7, <1>8 DEF w

\* Positions that go on to the end of a list give its last elements.
LEMMA WhereLast ==
    ASSUME NEW T, NEW list \in Seq(T), NEW places \in SUBSET DOMAIN list,
           \A i \in places, j \in DOMAIN list : i <= j => j \in places
    PROVE  LET m == Cardinality(places)
               w == Where(list, places)
           IN  /\ m \in 0..Len(list) /\ Len(w) = m /\ w \in Seq(T)
               /\ places = (Len(list) - m + 1)..Len(list)
               /\ \A k \in 1..m : w[k] = list[Len(list) - m + k]
<1> DEFINE n == Len(list)
           m == Cardinality(places)
           o == InOrder(places)
           w == Where(list, places)
<1>1. n \in Nat /\ DOMAIN list = 1..n
  OBVIOUS
<1>2. w = [k \in 1..m |-> list[o[k]]] /\ w \in Seq(T)
  BY WhereIs DEF Where
<1>3. CASE places = {}
  <2>1. m = 0
    BY <1>3, FS_EmptySet
  <2>2. w = <<>>
    BY <1>2, <2>1
  <2> HIDE DEF m, w, n
  <2> QED
    BY <1>1, <1>2, <1>3, <2>1, <2>2 DEF m, w, n
<1>4. CASE places # {}
  <2>1. places \subseteq Nat
    BY <1>1
  <2>2. PICK a \in places : \A y \in places : a <= y
    BY <1>4, <2>1, LeastNatural
  <2>3. a \in 1..n /\ places = a..n
    <3> HIDE DEF n
    <3>1. a \in 1..n
      BY <1>1
    <3>2. places \subseteq a..n
      BY <1>1, <2>2
    <3>3. a..n \subseteq places
      BY <1>1, <3>1
    <3> QED
      BY <3>1, <3>2, <3>3
  <2>4. m = n - a + 1
    <3>1. Cardinality(a..n) = IF a > n THEN 0 ELSE n - a + 1
      BY <1>1, <2>3, FS_Interval
    <3> QED
      BY <1>1, <2>3, <3>1
  <2>5. ASSUME NEW x \in places
        PROVE  Cardinality({y \in places : y < x}) = x - a
    <3>1. {y \in places : y < x} = a..(x - 1)
      BY <1>1, <2>3
    <3>2. Cardinality(a..(x - 1)) = IF a > x - 1 THEN 0 ELSE (x - 1) - a + 1
      <4>1. a \in Int /\ x - 1 \in Int
        BY <2>3
      <4> QED
        BY <4>1, FS_Interval
    <3>3. x \in Int /\ a \in Int /\ a <= x
      BY <1>1, <2>1, <2>2
    <3>4. Cardinality(a..(x - 1)) = x - a
      BY <3>2, <3>3
    <3> QED
      BY ONLY <3>1, <3>4
  <2> HIDE DEF m, n
  <2>6. ASSUME NEW k \in 1..m
        PROVE  o[k] = n - m + k
    <3>1. o[k] = CHOOSE x \in places : Cardinality({y \in places : y < x}) = k - 1
      BY DEF InOrder, m
    <3>2. a + k - 1 \in places /\ (a + k - 1) - a = k - 1
      BY <1>1, <2>3, <2>4
    <3>3. \E x \in places : Cardinality({y \in places : y < x}) = k - 1
      BY <2>5, <3>2
    <3>4. o[k] \in places /\ Cardinality({y \in places : y < o[k]}) = k - 1
      BY <3>1, <3>3
    <3>5. o[k] - a = k - 1
      BY <2>5, <3>4
    <3> HIDE DEF o
    <3> QED
      BY <1>1, <2>1, <2>3, <2>4, <3>4, <3>5
  <2>7. m \in 0..n /\ places = (n - m + 1)..n
    BY <1>1, <2>3, <2>4
  <2> HIDE DEF o, w
  <2>8. Len(w) = m
    BY <1>1, <1>2, <2>7
  <2> QED
    BY <1>2, <2>6, <2>7, <2>8 DEF m, n, w
<1> QED
  BY <1>3, <1>4

\* A list that passes whole stays as it is; one that does not gets shorter.
LEMMA WhereLen ==
    ASSUME NEW T, NEW list \in Seq(T), NEW places \in SUBSET DOMAIN list
    PROVE  /\ places = DOMAIN list => Where(list, places) = list
           /\ places # DOMAIN list => Len(Where(list, places)) < Len(list)
<1> DEFINE n == Len(list)
           m == Cardinality(places)
           w == Where(list, places)
<1>1. /\ n \in Nat /\ DOMAIN list = 1..n /\ IsFiniteSet(1..n) /\ Cardinality(1..n) = n
      /\ w \in Seq(T)
  <2>1. n \in Nat /\ DOMAIN list = 1..n
    OBVIOUS
  <2> HIDE DEF n
  <2>2. IsFiniteSet(1..n) /\ Cardinality(1..n) = IF 1 > n THEN 0 ELSE n - 1 + 1
    BY <2>1, FS_Interval
  <2> QED
    BY <2>1, <2>2, WhereIs
<1>2. ASSUME places = DOMAIN list PROVE w = list
  <2>1. Len(w) = n /\ \A k \in 1..n : w[k] = list[k]
    BY <1>1, <1>2, WhereLast
  <2> HIDE DEF w
  <2> QED
    BY <1>1, <2>1
<1>3. ASSUME places # DOMAIN list PROVE Len(w) < n
  <2>1. IsFiniteSet(places) /\ m <= n /\ m # n /\ m \in Nat
    BY <1>1, <1>3, FS_Subset, FS_CardinalityType
  <2>2. Len(w) = m
    BY <1>1, <2>1 DEF Where
  <2> QED
    BY <1>1, <2>1, <2>2
<1> QED
  BY <1>2, <1>3
=============================================================================
