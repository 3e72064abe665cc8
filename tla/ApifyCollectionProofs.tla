------------------------ MODULE ApifyCollectionProofs ------------------------
(***************************************************************************)
(* What holds of Batches and ApifyCollection for any Pages, limits and     *)
(* faults: first the lists of Batches, then the types, the counters, the   *)
(* moves of a Batch, what was read and stored, which Batch a row is of,    *)
(* how often a Batch is sent, what is paid for, the limit of Actor runs at *)
(* a time, and what a run that closes without errors did.                  *)
(***************************************************************************)
EXTENDS ApifyCollection, MCBatches, TLAPS, FiniteSetTheorems, ListsProofs

---------------------------------------------------------------------------
(* Lists, and the Batches made of them.                                    *)

\* Lists that cut a set up: none empty, no two of them overlapping, nothing left out.
CutUp(parts, S) ==
    /\ \A k \in DOMAIN parts : Elements(parts[k]) # {} /\ Elements(parts[k]) \subseteq S
    /\ \A k, l \in DOMAIN parts : k # l => Elements(parts[k]) \cap Elements(parts[l]) = {}
    /\ \A x \in S : \E k \in DOMAIN parts : x \in Elements(parts[k])

\* What a chunk holds, by position.
LEMMA ChunkIs ==
    ASSUME NEW T, NEW group \in Seq(T), NEW k \in DOMAIN Chunks(group)
    PROVE  /\ k \in Nat \ {0} /\ (k - 1) * BatchSize \in Nat
           /\ Chunks(group)[k] \in Seq(T) /\ Len(Chunks(group)[k]) \in 1..BatchSize
           /\ \A i \in 1..Len(Chunks(group)[k]) :
                 /\ (k - 1) * BatchSize + i \in 1..Len(group)
                 /\ Chunks(group)[k][i] = group[(k - 1) * BatchSize + i]
           /\ \A i \in 1..BatchSize : (k - 1) * BatchSize + i <= Len(group) => i <= Len(Chunks(group)[k])
<1> DEFINE n == Len(group)
           B == BatchSize
           q == (n + B - 1) \div B
           from == (k - 1) * B + 1
           to == IF k * B < n THEN k * B ELSE n
<1>1. n \in Nat /\ B \in Nat \ {0}
  BY BatchSizeAssumption
<1>2. q \in Nat /\ q * B <= n + B - 1
  <2>1. n + B - 1 \in Nat
    BY <1>1
  <2> QED
    BY <1>1, <2>1, DivisionIs
<1>3. k \in 1..q /\ Chunks(group)[k] = SubSeq(group, from, to)
  BY DEF Chunks
<1> HIDE DEF n, B, q
<1>4. k \in Nat \ {0} /\ k * B \in Nat /\ (k - 1) * B \in Nat /\ (k - 1) * B = k * B - B
  BY <1>1, <1>2, <1>3
<1>5. k * B <= q * B
  BY <1>1, <1>2, <1>3
<1>6. q * B \in Nat
  BY <1>1, <1>2
<1>7. from \in Nat \ {0} /\ to \in Nat /\ from <= to /\ to <= n /\ to - from + 1 \in 1..B
  BY <1>1, <1>2, <1>4, <1>5, <1>6
<1>8. /\ SubSeq(group, from, to) \in Seq(T) /\ Len(SubSeq(group, from, to)) = to - from + 1
      /\ \A i \in 1..(to - from + 1) : SubSeq(group, from, to)[i] = group[from + i - 1]
  <2> HIDE DEF from, to
  <2> QED
    BY <1>7 DEF n
<1>9. \A i \in 1..(to - from + 1) : from + i - 1 = (k - 1) * B + i /\ (k - 1) * B + i \in 1..n
  BY <1>1, <1>4, <1>7
<1>10. \A i \in 1..B : (k - 1) * B + i <= n => i <= to - from + 1
  BY <1>1, <1>4, <1>7
<1> HIDE DEF from, to
<1> QED
  BY <1>3, <1>4, <1>7, <1>8, <1>9, <1>10 DEF B, n

\* Chunks cuts a list up, each chunk but for the last one full.
LEMMA ChunksAre ==
    ASSUME NEW T, NEW group \in Seq(T), NoRepeats(group)
    PROVE  /\ Chunks(group) \in Seq(Seq(T))
           /\ CutUp(Chunks(group), Elements(group))
<1> DEFINE n == Len(group)
           B == BatchSize
           q == (n + B - 1) \div B
           c == Chunks(group)
<1>1. n \in Nat /\ B \in Nat \ {0} /\ DOMAIN group = 1..n
  BY BatchSizeAssumption
<1>2. q \in Nat /\ n + B - 1 < q * B + B
  <2>1. n + B - 1 \in Nat
    BY <1>1
  <2> QED
    BY <1>1, <2>1, DivisionIs
<1>3. DOMAIN c = 1..q
  BY DEF Chunks
<1>4. c \in Seq(Seq(T))
  <2> DEFINE body(k) == SubSeq(group, (k - 1) * BatchSize + 1,
                               IF k * BatchSize < Len(group) THEN k * BatchSize ELSE Len(group))
  <2>1. c = [k \in 1..q |-> body(k)]
    BY DEF Chunks
  <2> HIDE DEF body, c, q
  <2>2. c \in [1..q -> Seq(T)]
    <3>1. \A k \in DOMAIN c : c[k] \in Seq(T)
      BY ChunkIs DEF c
    <3> QED
      BY <1>3, <2>1, <3>1
  <2> QED
    BY <1>2, <2>2
<1> HIDE DEF n, B, q
<1>5. ASSUME NEW k \in DOMAIN c
      PROVE  Elements(c[k]) # {} /\ Elements(c[k]) \subseteq Elements(group)
  BY <1>1, <1>5, ChunkIs DEF Elements, n
<1>6. ASSUME NEW k \in DOMAIN c, NEW l \in DOMAIN c, k < l
      PROVE  Elements(c[k]) \cap Elements(c[l]) = {}
  <2>a. c[k] \in Seq(T) /\ c[l] \in Seq(T)
    BY ChunkIs
  <2>b. DOMAIN c[k] = 1..Len(c[k]) /\ DOMAIN c[l] = 1..Len(c[l])
    BY <2>a
  <2> SUFFICES ASSUME NEW i \in 1..Len(c[k]), NEW j \in 1..Len(c[l]), c[k][i] = c[l][j]
               PROVE  FALSE
    BY <2>b DEF Elements
  <2>c. /\ k \in Nat \ {0} /\ (k - 1) * B \in Nat /\ Len(c[k]) \in 1..B
        /\ (k - 1) * B + i \in 1..n /\ c[k][i] = group[(k - 1) * B + i]
    BY ChunkIs DEF n, B
  <2>d. /\ l \in Nat \ {0} /\ (l - 1) * B \in Nat /\ Len(c[l]) \in 1..B
        /\ (l - 1) * B + j \in 1..n /\ c[l][j] = group[(l - 1) * B + j]
    BY ChunkIs DEF n, B
  <2>1. /\ k \in Nat \ {0} /\ l \in Nat \ {0}
        /\ i \in 1..B /\ j \in 1..B
        /\ (k - 1) * B \in Nat /\ (l - 1) * B \in Nat
        /\ (k - 1) * B + i \in 1..n /\ (l - 1) * B + j \in 1..n
        /\ group[(k - 1) * B + i] = group[(l - 1) * B + j]
    <3>1. i \in 1..B /\ j \in 1..B
      <4> DEFINE x == Len(c[k])
                 y == Len(c[l])
      <4>1. x \in 1..B /\ y \in 1..B /\ i \in 1..x /\ j \in 1..y
        BY <2>c, <2>d
      <4> HIDE DEF x, y
      <4> QED
        BY <1>1, <4>1
    <3>2. group[(k - 1) * B + i] = group[(l - 1) * B + j]
      BY <2>c, <2>d
    <3> QED
      BY <2>c, <2>d, <3>1, <3>2
  <2>2. (k - 1) * B + i = (l - 1) * B + j
    BY <1>1, <2>1 DEF NoRepeats
  <2>3. (k - 1) * B + B <= (l - 1) * B
    <3>1. k <= l - 1 /\ k \in Nat /\ l - 1 \in Nat
      BY <1>6, <2>1
    <3>2. k * B <= (l - 1) * B
      BY <1>1, <3>1
    <3>3. (k - 1) * B + B = k * B
      BY <1>1, <2>1
    <3> QED
      BY <3>2, <3>3
  <2> QED
    BY <1>1, <2>1, <2>2, <2>3
<1>7. ASSUME NEW x \in 1..n
      PROVE  \E k \in DOMAIN c : group[x] \in Elements(c[k])
  <2> DEFINE r == (x - 1) \div B
             k == r + 1
             i == x - r * B
  <2>1. r \in Nat /\ r * B <= x - 1 /\ x - 1 < r * B + B
    BY <1>1, DivisionIs
  <2>2. r * B \in Nat /\ i \in 1..B /\ r * B + i = x
    BY <1>1, <2>1
  <2>3. r < q
    <3>1. r * B < q * B
      BY <1>1, <1>2, <2>1, <2>2
    <3>2. r * B >= q * B \/ r < q
      BY <1>1, <1>2, <2>1
    <3> QED
      BY <1>1, <1>2, <2>1, <3>1, <3>2
  <2>4. k \in DOMAIN c /\ k - 1 = r
    BY <1>2, <1>3, <2>1, <2>3
  <2> HIDE DEF r, k, i
  <2>5. i \in 1..Len(c[k]) /\ c[k][i] = group[x] /\ DOMAIN c[k] = 1..Len(c[k])
    BY <2>2, <2>4, ChunkIs DEF B, n
  <2> QED
    BY <2>4, <2>5 DEF Elements
<1>8. CutUp(c, Elements(group))
  <2>1. \A k, l \in DOMAIN c : k < l \/ l < k \/ k = l
    BY <1>2, <1>3
  <2> HIDE DEF c
  <2> QED
    BY <1>1, <1>5, <1>6, <1>7, <2>1 DEF CutUp, Elements
<1> QED
  BY <1>4, <1>8

\* Lists that cut up two sets, one after the other.
LEMMA ConcatCutsUp ==
    ASSUME NEW U, NEW a \in Seq(U), NEW b \in Seq(U), NEW S, NEW R,
           CutUp(a, S), CutUp(b, R), S \cap R = {}
    PROVE  CutUp(a \o b, S \cup R)
<1> DEFINE m == Len(a)
           n == Len(b)
           c == a \o b
<1>1. m \in Nat /\ n \in Nat /\ DOMAIN a = 1..m /\ DOMAIN b = 1..n
  OBVIOUS
<1>2. DOMAIN c = 1..(m + n) /\ \A k \in 1..(m + n) : c[k] = IF k <= m THEN a[k] ELSE b[k - m]
  OBVIOUS
<1> HIDE DEF m, n, c
<1>3. \A k \in 1..m : k \in 1..(m + n) /\ c[k] = a[k]
  BY <1>1, <1>2
<1>4. \A k \in 1..n : m + k \in 1..(m + n) /\ c[m + k] = b[k]
  BY <1>1, <1>2
<1>5. \A k \in 1..(m + n) : k \in 1..m \/ (k - m \in 1..n /\ ~(k <= m))
  BY <1>1
<1>6. \A k \in DOMAIN c : Elements(c[k]) # {} /\ Elements(c[k]) \subseteq S \cup R
  <2> SUFFICES ASSUME NEW k \in 1..(m + n)
               PROVE  Elements(c[k]) # {} /\ Elements(c[k]) \subseteq S \cup R
    BY <1>2
  <2>1. CASE k \in 1..m
    BY <1>1, <1>3, <2>1 DEF CutUp
  <2>2. CASE k - m \in 1..n /\ ~(k <= m)
    <3>1. c[k] = b[k - m]
      BY <1>2, <2>2
    <3> QED
      BY <1>1, <2>2, <3>1 DEF CutUp
  <2> QED
    BY <1>5, <2>1, <2>2
<1>7. ASSUME NEW k \in DOMAIN c, NEW l \in DOMAIN c, k # l
      PROVE  Elements(c[k]) \cap Elements(c[l]) = {}
  <2>1. CASE k \in 1..m /\ l \in 1..m
    BY <1>1, <1>3, <1>7, <2>1 DEF CutUp
  <2>2. CASE k - m \in 1..n /\ ~(k <= m) /\ l - m \in 1..n /\ ~(l <= m)
    <3>1. k - m # l - m /\ c[k] = b[k - m] /\ c[l] = b[l - m]
      BY <1>1, <1>2, <1>7, <2>2
    <3> QED
      BY <1>1, <2>2, <3>1 DEF CutUp
  <2>3. CASE k \in 1..m /\ l - m \in 1..n /\ ~(l <= m)
    <3>1. c[k] = a[k] /\ c[l] = b[l - m]
      BY <1>1, <1>2, <1>3, <2>3
    <3>2. Elements(a[k]) \subseteq S /\ Elements(b[l - m]) \subseteq R
      BY <1>1, <2>3 DEF CutUp
    <3> QED
      BY <3>1, <3>2
  <2>4. CASE l \in 1..m /\ k - m \in 1..n /\ ~(k <= m)
    <3>1. c[l] = a[l] /\ c[k] = b[k - m]
      BY <1>1, <1>2, <1>3, <2>4
    <3>2. Elements(a[l]) \subseteq S /\ Elements(b[k - m]) \subseteq R
      BY <1>1, <2>4 DEF CutUp
    <3> QED
      BY <3>1, <3>2
  <2> QED
    BY <1>2, <1>5, <2>1, <2>2, <2>3, <2>4
<1>8. ASSUME NEW x \in S \cup R PROVE \E k \in DOMAIN c : x \in Elements(c[k])
  <2>1. CASE x \in S
    <3>1. PICK k \in 1..m : x \in Elements(a[k])
      BY <1>1, <2>1 DEF CutUp
    <3> QED
      BY <1>2, <1>3, <3>1
  <2>2. CASE x \in R
    <3>1. PICK k \in 1..n : x \in Elements(b[k])
      BY <1>1, <2>2 DEF CutUp
    <3> QED
      BY <1>2, <1>4, <3>1
  <2> QED
    BY <2>1, <2>2
<1> QED
  BY <1>6, <1>7, <1>8 DEF CutUp, c

\* The lists so far, one after the other.
SoFar(f, lists, n) ==
    \A i \in 1..n : f[i] = IF i = 1 THEN lists[i] ELSE f[i - 1] \o lists[i]

\* FlattenSeq is what its recursion says.
LEMMA FlattenIs ==
    ASSUME NEW U, NEW n \in Nat \ {0}, NEW lists \in [1..n -> Seq(U)]
    PROVE  \E f \in [1..n -> Seq(U)] : SoFar(f, lists, n) /\ FlattenSeq(lists) = f[n]
<1> DEFINE Step(f, i) == IF i = 1 THEN lists[i] ELSE f[i - 1] \o lists[i]
           Up(m) == \E f \in [1..m -> Seq(U)] : \A i \in 1..m : f[i] = Step(f, i)
           T == {m \in Nat : m <= n => Up(m)}
<1>1. 0 \in T
  <2> DEFINE g == [i \in 1..0 |-> lists[1]]
  <2>1. g \in [1..0 -> Seq(U)] /\ \A i \in 1..0 : g[i] = Step(g, i)
    OBVIOUS
  <2> HIDE DEF g, Step
  <2>2. Up(0)
    BY <2>1
  <2> HIDE DEF Up
  <2> QED
    BY <2>2
<1>2. ASSUME NEW m \in T PROVE m + 1 \in T
  <2> SUFFICES ASSUME m + 1 <= n PROVE Up(m + 1)
    <3>1. m + 1 \in Nat
      OBVIOUS
    <3> HIDE DEF Up
    <3> QED
      BY <3>1
  <2>1. PICK f \in [1..m -> Seq(U)] : \A i \in 1..m : f[i] = Step(f, i)
    <3>1. m <= n
      OBVIOUS
    <3> QED
      BY <3>1
  <2>2. m + 1 \in 1..n /\ lists[m + 1] \in Seq(U)
    OBVIOUS
  <2> DEFINE last == Step(f, m + 1)
             g == [i \in 1..(m + 1) |-> IF i = m + 1 THEN last ELSE f[i]]
  <2>3. last \in Seq(U)
    <3>1. CASE m + 1 = 1
      BY <2>2, <3>1
    <3>2. CASE m + 1 # 1
      <4>1. m \in 1..m /\ (m + 1) - 1 = m
        BY <3>2
      <4>2. f[m] \in Seq(U)
        BY <4>1
      <4> QED
        BY <2>2, <3>2, <4>1, <4>2
    <3> QED
      BY <3>1, <3>2
  <2>4. g \in [1..(m + 1) -> Seq(U)]
    <3> HIDE DEF last
    <3>1. \A i \in 1..(m + 1) : i = m + 1 \/ i \in 1..m
      OBVIOUS
    <3> QED
      BY <2>3, <3>1
  <2>5. ASSUME NEW i \in 1..(m + 1) PROVE g[i] = Step(g, i)
    <3>1. CASE i = m + 1
      <4>1. i # 1 => i - 1 \in 1..m /\ g[i - 1] = f[i - 1]
        BY <3>1
      <4>2. g[i] = last
        BY <3>1
      <4> QED
        BY <3>1, <4>1, <4>2
    <3>2. CASE i # m + 1
      <4>1. i \in 1..m /\ g[i] = f[i]
        BY <3>2
      <4>2. i # 1 => i - 1 \in 1..m /\ g[i - 1] = f[i - 1]
        BY <3>2
      <4> QED
        BY <2>1, <4>1, <4>2
    <3> QED
      BY <3>1, <3>2
  <2> QED
    BY <2>4, <2>5
<1>3. T = Nat
  <2> HIDE DEF T
  <2>1. T \subseteq Nat
    BY DEF T
  <2> QED
    BY <1>1, <1>2, <2>1, NaturalInduction
<1>4. PICK f \in [1..n -> Seq(U)] : \A i \in 1..n : f[i] = Step(f, i)
  <2>1. Up(n)
    <3> HIDE DEF Up
    <3>1. n \in T /\ n <= n
      BY <1>3
    <3> QED
      BY <3>1
  <2> QED
    BY <2>1
<1>5. f = [i \in 1..n |-> IF i = 1 THEN lists[i] ELSE f[i - 1] \o lists[i]]
  BY <1>4
<1>6. DOMAIN lists = 1..n /\ Len(lists) = n
  OBVIOUS
<1> DEFINE flatten == CHOOSE g : g = [i \in 1..n |-> IF i = 1 THEN lists[i] ELSE g[i - 1] \o lists[i]]
<1>7. flatten = [i \in 1..n |-> IF i = 1 THEN lists[i] ELSE flatten[i - 1] \o lists[i]]
  BY <1>5
<1>8. FlattenSeq(lists) = flatten[n]
  BY <1>6 DEF FlattenSeq
<1> HIDE DEF flatten
<1>9. ASSUME NEW i \in 1..n PROVE flatten[i] = Step(flatten, i)
  BY <1>7
<1> DEFINE Same == {m \in Nat : m \in 1..n => flatten[m] = f[m]}
<1>10. Same = Nat
  <2>1. 0 \in Same /\ Same \subseteq Nat
    OBVIOUS
  <2>2. ASSUME NEW m \in Same PROVE m + 1 \in Same
    <3> SUFFICES ASSUME m + 1 \in 1..n PROVE flatten[m + 1] = f[m + 1]
      OBVIOUS
    <3>1. m + 1 # 1 => m \in 1..n /\ flatten[m] = f[m] /\ (m + 1) - 1 = m
      OBVIOUS
    <3>2. flatten[m + 1] = Step(flatten, m + 1) /\ f[m + 1] = Step(f, m + 1)
      BY <1>4, <1>9
    <3> QED
      BY <3>1, <3>2
  <2> HIDE DEF Same
  <2> QED
    BY <2>1, <2>2, NaturalInduction
<1>11. flatten[n] = f[n]
  <2>1. n \in Same
    BY <1>10
  <2> QED
    BY <2>1
<1> QED
  BY <1>4, <1>8, <1>11 DEF SoFar

\* All of the first m sets.
Together(sets, m) == UNION {sets[k] : k \in 1..m}

\* Cutting up each of several sets cuts up all of them together.
LEMMA FlattenCutsUp ==
    ASSUME NEW U, NEW n \in Nat \ {0}, NEW lists \in [1..n -> Seq(U)], NEW sets,
           \A k \in 1..n : CutUp(lists[k], sets[k]),
           \A k, l \in 1..n : k # l => sets[k] \cap sets[l] = {}
    PROVE  /\ FlattenSeq(lists) \in Seq(U)
           /\ CutUp(FlattenSeq(lists), Together(sets, n))
<1> DEFINE All(m) == Together(sets, m)
<1>a. PICK f \in [1..n -> Seq(U)] : SoFar(f, lists, n) /\ FlattenSeq(lists) = f[n]
  BY FlattenIs
<1>1. /\ \A i \in 1..n : f[i] = IF i = 1 THEN lists[i] ELSE f[i - 1] \o lists[i]
      /\ FlattenSeq(lists) = f[n]
  BY <1>a DEF SoFar
<1> DEFINE T == {m \in Nat : m \in 1..n => CutUp(f[m], All(m))}
<1>2. T = Nat
  <2>1. 0 \in T /\ T \subseteq Nat
    OBVIOUS
  <2>2. ASSUME NEW m \in T PROVE m + 1 \in T
    <3> SUFFICES ASSUME m + 1 \in 1..n PROVE CutUp(f[m + 1], All(m + 1))
      <4>1. m + 1 \in Nat
        OBVIOUS
      <4> HIDE DEF All
      <4> QED
        BY <4>1
    <3>1. CASE m = 0
      <4>1. f[1] = lists[1] /\ m + 1 = 1 /\ 1 \in 1..n
        BY <1>1, <3>1
      <4>2. \A k \in 1..1 : k = 1
        OBVIOUS
      <4>3. 1 \in 1..1
        OBVIOUS
      <4>4. All(1) = sets[1]
        BY <4>2, <4>3 DEF Together
      <4>5. CutUp(lists[1], sets[1])
        BY <4>1
      <4> HIDE DEF All
      <4> QED
        BY <4>1, <4>4, <4>5
    <3>2. CASE m # 0
      <4>1. m \in 1..n /\ m + 1 # 1 /\ (m + 1) - 1 = m
        BY <3>2
      <4>2. f[m + 1] = f[m] \o lists[m + 1]
        BY <1>1, <4>1
      <4>3. CutUp(f[m], All(m))
        <5> HIDE DEF All
        <5> QED
          BY <4>1
      <4>4. All(m + 1) = All(m) \cup sets[m + 1]
        <5>1. \A k : k \in 1..(m + 1) <=> k \in 1..m \/ k = m + 1
          OBVIOUS
        <5> QED
          BY <5>1 DEF Together
      <4>5. All(m) \cap sets[m + 1] = {}
        <5>1. \A k \in 1..m : k \in 1..n /\ k # m + 1
          BY <4>1
        <5> QED
          BY <5>1 DEF Together
      <4>6. f[m] \in Seq(U) /\ lists[m + 1] \in Seq(U) /\ CutUp(lists[m + 1], sets[m + 1])
        BY <4>1
      <4> HIDE DEF All
      <4> QED
        <5>1. CutUp(f[m] \o lists[m + 1], All(m) \cup sets[m + 1])
          BY <4>3, <4>5, <4>6, ConcatCutsUp
        <5> QED
          BY <4>2, <4>4, <5>1
    <3> QED
      BY <3>1, <3>2
  <2> HIDE DEF T
  <2> QED
    BY <2>1, <2>2, NaturalInduction
<1>3. n \in T /\ n \in 1..n
  <2> HIDE DEF T
  <2> QED
    BY <1>2
<1>4. CutUp(f[n], All(n)) /\ f[n] \in Seq(U)
  <2> HIDE DEF All
  <2> QED
    BY <1>3
<1> QED
  BY <1>1, <1>4

\* The countries of the Pages, each once.
LEMMA CountriesAre ==
    ASSUME NEW T, NEW pages \in Seq(T), NEW country
    PROVE  LET countries == CountriesOf(pages, country)
               n == Len(countries)
           IN  /\ n \in Nat /\ countries = [k \in 1..n |-> countries[k]]
               /\ \A k, l \in 1..n : k # l => countries[k] # countries[l]
               /\ \A i \in DOMAIN pages : \E k \in 1..n : countries[k] = country[pages[i]]
               /\ \A k \in 1..n : \E i \in DOMAIN pages : countries[k] = country[pages[i]]
<1> DEFINE firsts == {i \in DOMAIN pages : \A j \in 1..(i - 1) : country[pages[j]] # country[pages[i]]}
           n == Cardinality(firsts)
           o == InOrder(firsts)
           countries == CountriesOf(pages, country)
<1>1. DOMAIN pages = 1..Len(pages) /\ Len(pages) \in Nat
  OBVIOUS
<1>2. IsFiniteSet(firsts) /\ firsts \subseteq Nat
  <2>1. IsFiniteSet(1..Len(pages)) /\ firsts \in SUBSET (1..Len(pages))
    BY <1>1, FS_Interval
  <2> HIDE DEF firsts
  <2>2. IsFiniteSet(firsts)
    BY <2>1, FS_Subset
  <2> QED
    BY <1>1, <2>1, <2>2
<1>3. n \in Nat
  BY <1>2, FS_CardinalityType
<1>4. DOMAIN o = 1..n /\ Elements(o) = firsts /\ NoRepeats(o)
  <2> HIDE DEF firsts
  <2> QED
    BY <1>2, InOrderIs
<1>5. countries = [k \in 1..n |-> country[Where(pages, firsts)[k]]]
  BY DEF CountriesOf
<1>6. \A k \in 1..n : Where(pages, firsts)[k] = pages[o[k]]
  <2> HIDE DEF firsts
  <2> QED
    BY DEF Where
<1> HIDE DEF firsts, n, o, countries
<1>7. countries = [k \in 1..n |-> country[pages[o[k]]]]
  BY <1>5, <1>6
<1>8. Len(countries) = n
  BY <1>3, <1>7
<1>9. \A k \in 1..n : o[k] \in firsts /\ o[k] \in DOMAIN pages /\ o[k] \in Nat
  BY <1>1, <1>4 DEF Elements, firsts
<1>10. ASSUME NEW k \in 1..n, NEW l \in 1..n, k # l PROVE countries[k] # countries[l]
  <2>1. o[k] # o[l]
    BY <1>4, <1>10 DEF NoRepeats
  <2>2. o[k] < o[l] => o[k] \in 1..(o[l] - 1)
    BY <1>1, <1>9
  <2>3. o[l] < o[k] => o[l] \in 1..(o[k] - 1)
    BY <1>1, <1>9
  <2>4. country[pages[o[k]]] # country[pages[o[l]]]
    <3>1. o[k] \in firsts /\ o[l] \in firsts /\ o[k] \in Nat /\ o[l] \in Nat
      BY <1>9
    <3>2. o[k] < o[l] \/ o[l] < o[k]
      BY <2>1, <3>1
    <3> QED
      BY <2>2, <2>3, <3>1, <3>2 DEF firsts
  <2> QED
    BY <1>7, <2>4
<1>11. ASSUME NEW i \in DOMAIN pages PROVE \E k \in 1..n : countries[k] = country[pages[i]]
  <2> DEFINE Like == {j \in DOMAIN pages : country[pages[j]] = country[pages[i]]}
  <2>1. PICK x \in Like : \A y \in Like : x <= y
    <3>1. Like \subseteq Nat /\ Like # {}
      BY <1>1
    <3> HIDE DEF Like
    <3> QED
      BY <3>1, LeastNatural
  <2>2. x \in firsts
    <3>1. ASSUME NEW j \in 1..(x - 1) PROVE country[pages[j]] # country[pages[x]]
      <4>1. j \in DOMAIN pages /\ j \in Nat /\ x \in Nat /\ ~(x <= j)
        BY <1>1
      <4> QED
        BY <2>1, <4>1
    <3> QED
      BY <3>1 DEF firsts
  <2>3. PICK k \in 1..n : o[k] = x
    BY <1>4, <2>2 DEF Elements
  <2> QED
    BY <1>7, <2>1, <2>3
<1>12. \A k \in 1..n : \E i \in DOMAIN pages : countries[k] = country[pages[i]]
  BY <1>7, <1>9
<1> QED
  BY <1>3, <1>7, <1>8, <1>10, <1>11, <1>12 DEF countries

\* make_batches: every Page is in one Batch, and no Batch is empty.
LEMMA MakeBatchesIs ==
    ASSUME NEW T, NEW pages \in Seq(T), NoRepeats(pages), NEW country
    PROVE  /\ MakeBatches(pages, country) \in Seq(Seq(T))
           /\ CutUp(MakeBatches(pages, country), Elements(pages))
<1> DEFINE countries == CountriesOf(pages, country)
           n == Len(countries)
           places(k) == {i \in DOMAIN pages : country[pages[i]] = countries[k]}
           group(k) == Group(pages, country, countries[k])
           lists == [k \in 1..n |-> Chunks(group(k))]
           sets == [k \in 1..n |-> {pages[i] : i \in places(k)}]
<1>1. /\ n \in Nat
      /\ \A k, l \in 1..n : k # l => countries[k] # countries[l]
      /\ \A i \in DOMAIN pages : \E k \in 1..n : countries[k] = country[pages[i]]
      /\ \A k \in 1..n : \E i \in DOMAIN pages : countries[k] = country[pages[i]]
  BY CountriesAre
<1>2. MakeBatches(pages, country) = FlattenSeq(lists)
  BY DEF MakeBatches
<1> HIDE DEF countries, n
<1>3. ASSUME NEW k \in 1..n
      PROVE  Chunks(group(k)) \in Seq(Seq(T)) /\ CutUp(Chunks(group(k)), sets[k])
  <2>1. group(k) = Where(pages, places(k)) /\ places(k) \in SUBSET DOMAIN pages
    BY DEF Group
  <2>2. group(k) \in Seq(T) /\ Elements(group(k)) = {pages[i] : i \in places(k)} /\ NoRepeats(group(k))
    BY <2>1, WhereIs
  <2> HIDE DEF group, places
  <2>3. sets[k] = {pages[i] : i \in places(k)}
    OBVIOUS
  <2> QED
    BY <2>2, <2>3, ChunksAre
<1>4. CASE n = 0
  <2>0. DOMAIN pages = {}
    <3>1. \A i \in DOMAIN pages : \E k \in 1..0 : countries[k] = country[pages[i]]
      BY <1>1, <1>4
    <3>2. 1..0 = {}
      OBVIOUS
    <3> QED
      BY <3>1, <3>2
  <2>1. lists = <<>>
    <3> DEFINE body(k) == Chunks(group(k))
    <3>1. lists = [k \in 1..n |-> body(k)]
      OBVIOUS
    <3> HIDE DEF body, lists
    <3> QED
      BY <1>4, <3>1
  <2>2. FlattenSeq(<<>>) = <<>>
    BY DEF FlattenSeq
  <2>3. Elements(pages) = {}
    BY <2>0 DEF Elements
  <2>4. CutUp(<<>>, {})
    BY DEF CutUp
  <2> HIDE DEF lists
  <2>5. MakeBatches(pages, country) = <<>>
    BY <1>2, <2>1, <2>2
  <2>6. <<>> \in Seq(Seq(T))
    OBVIOUS
  <2> QED
    BY <2>3, <2>4, <2>5, <2>6
<1>5. CASE n # 0
  <2>1. lists \in [1..n -> Seq(Seq(T))] /\ \A k \in 1..n : CutUp(lists[k], sets[k])
    BY <1>3
  <2>2. \A k, l \in 1..n : k # l => sets[k] \cap sets[l] = {}
    <3> SUFFICES ASSUME NEW k \in 1..n, NEW l \in 1..n, k # l,
                        NEW i \in DOMAIN pages, NEW j \in DOMAIN pages,
                        country[pages[i]] = countries[k], country[pages[j]] = countries[l],
                        pages[i] = pages[j]
                 PROVE  FALSE
      OBVIOUS
    <3> QED
      BY <1>1
  <2>3. UNION {sets[k] : k \in 1..n} = Elements(pages)
    <3>1. ASSUME NEW i \in DOMAIN pages PROVE \E k \in 1..n : pages[i] \in sets[k]
      BY <1>1
    <3>2. \A k \in 1..n : sets[k] \subseteq Elements(pages)
      BY DEF Elements
    <3> HIDE DEF sets
    <3> QED
      BY <3>1, <3>2 DEF Elements
  <2>4. n \in Nat \ {0}
    BY <1>1, <1>5
  <2> HIDE DEF lists, sets
  <2>5. /\ FlattenSeq(lists) \in Seq(Seq(T))
        /\ CutUp(FlattenSeq(lists), Together(sets, n))
    BY <2>1, <2>2, <2>4, FlattenCutsUp
  <2> QED
    BY <1>2, <2>3, <2>5 DEF Together
<1> QED
  BY <1>4, <1>5

\* In one of several lists.
OneOf(b, lists, n) == \E j \in 1..n : \E i \in 1..Len(lists[j]) : b = lists[j][i]

\* What several lists make together is in one of them.
LEMMA FlattenHas ==
    ASSUME NEW U, NEW n \in Nat \ {0}, NEW lists \in [1..n -> Seq(U)],
           NEW k \in 1..Len(FlattenSeq(lists))
    PROVE  OneOf(FlattenSeq(lists)[k], lists, n)
<1> DEFINE From(b) == OneOf(b, lists, n)
<1>a. PICK f \in [1..n -> Seq(U)] : SoFar(f, lists, n) /\ FlattenSeq(lists) = f[n]
  BY FlattenIs
<1>1. /\ \A i \in 1..n : f[i] = IF i = 1 THEN lists[i] ELSE f[i - 1] \o lists[i]
      /\ FlattenSeq(lists) = f[n]
  BY <1>a DEF SoFar
<1>2. \A j \in 1..n : \A i \in 1..Len(lists[j]) : From(lists[j][i])
  BY DEF OneOf
<1> HIDE DEF From
<1> DEFINE T == {m \in Nat : m \in 1..n => \A i \in 1..Len(f[m]) : From(f[m][i])}
<1>3. T = Nat
  <2>1. 0 \in T /\ T \subseteq Nat
    OBVIOUS
  <2>2. ASSUME NEW m \in T PROVE m + 1 \in T
    <3> SUFFICES ASSUME m + 1 \in 1..n, NEW i \in 1..Len(f[m + 1])
                 PROVE  From(f[m + 1][i])
      OBVIOUS
    <3>1. CASE m = 0
      <4>1. m + 1 = 1 /\ f[1] = lists[1]
        BY <1>1, <3>1
      <4> QED
        BY <1>2, <4>1
    <3>2. CASE m # 0
      <4>1. m \in 1..n /\ m + 1 # 1 /\ (m + 1) - 1 = m
        BY <3>2
      <4> DEFINE a == f[m]
                 b == lists[m + 1]
      <4>2. f[m + 1] = a \o b
        BY <1>1, <4>1
      <4>3. a \in Seq(U) /\ b \in Seq(U)
        BY <4>1
      <4>4. \A l \in 1..Len(a) : From(a[l])
        BY <4>1
      <4>5. \A l \in 1..Len(b) : From(b[l])
        BY <1>2
      <4> HIDE DEF a, b
      <4>6. /\ Len(a) \in Nat /\ Len(b) \in Nat /\ i \in 1..(Len(a) + Len(b))
            /\ (a \o b)[i] = IF i <= Len(a) THEN a[i] ELSE b[i - Len(a)]
        BY <4>2, <4>3
      <4>7. i \in 1..Len(a) \/ (~(i <= Len(a)) /\ i - Len(a) \in 1..Len(b))
        BY <4>6
      <4> QED
        BY <4>2, <4>4, <4>5, <4>6, <4>7
    <3> QED
      BY <3>1, <3>2
  <2> HIDE DEF T
  <2> QED
    BY <2>1, <2>2, NaturalInduction
<1>4. n \in T /\ n \in 1..n
  <2> HIDE DEF T
  <2> QED
    BY <1>3
<1> QED
  BY <1>1, <1>4 DEF From

\* Where a list is of a kind.
PlacesOf(list, V) == {k \in 1..Len(list) : list[k] \in V}

\* Of several lists, one is of a kind, and the others not at all.
OnlyOneIs(lists, n, j, V) ==
    \A m \in 1..n : \A i \in 1..Len(lists[m]) : lists[m][i] \in V <=> m = j

\* When one list holds all there is of a kind, and nothing else, as many of the whole
\* are of that kind.
LEMMA FlattenCount ==
    ASSUME NEW U, NEW V, NEW n \in Nat \ {0}, NEW lists \in [1..n -> Seq(U)], NEW j \in 1..n,
           OnlyOneIs(lists, n, j, V)
    PROVE  Cardinality(PlacesOf(FlattenSeq(lists), V)) = Len(lists[j])
<1>a. PICK f \in [1..n -> Seq(U)] : SoFar(f, lists, n) /\ FlattenSeq(lists) = f[n]
  BY FlattenIs
<1>1. /\ \A i \in 1..n : f[i] = IF i = 1 THEN lists[i] ELSE f[i - 1] \o lists[i]
      /\ FlattenSeq(lists) = f[n]
  BY <1>a DEF SoFar
<1> DEFINE Of(s) == {k \in 1..Len(s) : s[k] \in V}
           last == Len(f[j])
           size == Len(lists[j])
           first == last - size + 1
           Here(m) == /\ m < j => Of(f[m]) = {}
                      /\ m >= j => Of(f[m]) = first..last
<1>2. last \in Nat /\ size \in Nat /\ size <= last
  <2>1. f[j] \in Seq(U) /\ lists[j] \in Seq(U)
    OBVIOUS
  <2>2. last \in Nat /\ size \in Nat
    BY <2>1
  <2>3. CASE j = 1
    BY <1>1, <2>2, <2>3
  <2>4. CASE j # 1
    <3>1. j - 1 \in 1..n /\ f[j] = f[j - 1] \o lists[j]
      BY <1>1, <2>4
    <3>2. f[j - 1] \in Seq(U)
      BY <3>1
    <3> QED
      BY <2>1, <2>2, <3>1, <3>2
  <2> QED
    BY <2>3, <2>4
<1>3. ASSUME NEW a \in Seq(U), NEW m \in 1..n
      PROVE  Of(a \o lists[m])
               = Of(a) \cup (IF m = j THEN (Len(a) + 1)..(Len(a) + Len(lists[m])) ELSE {})
  <2> DEFINE b == lists[m]
             x == Len(a)
             y == Len(b)
             c == a \o b
  <2>1. x \in Nat /\ y \in Nat
    OBVIOUS
  <2>2. Len(c) = x + y /\ \A k \in 1..(x + y) : c[k] = IF k <= x THEN a[k] ELSE b[k - x]
    OBVIOUS
  <2>3. \A i \in 1..y : b[i] \in V <=> m = j
    BY DEF OnlyOneIs
  <2> HIDE DEF b, x, y, c
  <2>4. \A k \in 1..(x + y) : c[k] \in V <=> IF k <= x THEN a[k] \in V ELSE m = j
    <3>1. ASSUME NEW k \in 1..(x + y), ~(k <= x) PROVE k - x \in 1..y
      BY <2>1, <3>1
    <3> QED
      BY <2>2, <2>3, <3>1
  <2>5. \A k : k \in 1..(x + y) <=> k \in 1..x \/ k \in (x + 1)..(x + y)
    BY <2>1
  <2>6. \A k \in 1..x : k <= x
    BY <2>1
  <2>7. \A k \in (x + 1)..(x + y) : ~(k <= x)
    BY <2>1
  <2>8. {k \in 1..(x + y) : c[k] \in V}
          = {k \in 1..x : a[k] \in V} \cup (IF m = j THEN (x + 1)..(x + y) ELSE {})
    BY <2>4, <2>5, <2>6, <2>7
  <2> QED
    BY <2>2, <2>8 DEF b, x, y, c
<1> DEFINE T == {m \in Nat : m \in 1..n => Here(m)}
<1>4. T = Nat
  <2>1. 0 \in T /\ T \subseteq Nat
    <3> HIDE DEF Here
    <3> QED
      OBVIOUS
  <2>2. ASSUME NEW m \in T PROVE m + 1 \in T
    <3> SUFFICES ASSUME m + 1 \in 1..n PROVE Here(m + 1)
      <4>1. m + 1 \in Nat
        OBVIOUS
      <4> HIDE DEF Here
      <4> QED
        BY <4>1
    <3> DEFINE a == IF m = 0 THEN <<>> ELSE f[m]
               b == lists[m + 1]
    <3>1. /\ a \in Seq(U) /\ b \in Seq(U) /\ f[m + 1] = a \o b
          /\ m # 0 => m \in 1..n /\ a = f[m]
      <4>1. CASE m = 0
        <5>1. m + 1 = 1 /\ a = <<>> /\ f[1] = lists[1] /\ b = lists[1] /\ b \in Seq(U)
          BY <1>1, <4>1
        <5> HIDE DEF a, b
        <5> QED
          BY <4>1, <5>1
      <4>2. CASE m # 0
        <5>1. m \in 1..n /\ m + 1 # 1 /\ (m + 1) - 1 = m /\ a = f[m]
          BY <4>2
        <5>2. f[m + 1] = f[m] \o lists[m + 1]
          BY <1>1, <5>1
        <5>3. f[m] \in Seq(U) /\ lists[m + 1] \in Seq(U) /\ b = lists[m + 1]
          BY <5>1
        <5> HIDE DEF a, b
        <5> QED
          BY <5>1, <5>2, <5>3
      <4> QED
        BY <4>1, <4>2
    <3>2. m < j => Of(a) = {}
      <4>1. CASE m = 0
        <5>1. a = <<>> /\ 1..0 = {} /\ Len(<<>>) = 0
          BY <4>1
        <5> HIDE DEF a
        <5> QED
          BY <5>1
      <4>2. CASE m # 0
        BY <3>1, <4>2
      <4> QED
        BY <4>1, <4>2
    <3>3. m >= j => Of(a) = first..last
      <4>1. m >= j => m # 0
        OBVIOUS
      <4> HIDE DEF Of, first, last
      <4> QED
        BY <3>1, <4>1
    <3> HIDE DEF a, b
    <3>4. Of(f[m + 1]) = Of(a) \cup (IF m + 1 = j THEN (Len(a) + 1)..(Len(a) + Len(b)) ELSE {})
      <4>1. Of(a \o lists[m + 1]) = Of(a) \cup
              (IF m + 1 = j THEN (Len(a) + 1)..(Len(a) + Len(lists[m + 1])) ELSE {})
        <5> HIDE DEF Of
        <5> QED
          BY <1>3, <3>1
      <4> HIDE DEF Of
      <4> QED
        BY <3>1, <4>1 DEF b
    <3>5. CASE m + 1 < j
      <4>1. m < j /\ m + 1 # j /\ ~(m + 1 >= j)
        BY <3>5
      <4> HIDE DEF Of, first, last
      <4> QED
        BY <3>2, <3>4, <3>5, <4>1
    <3>6. CASE m + 1 = j
      <4>1. m < j /\ ~(m + 1 < j)
        BY <3>6
      <4>2. last = Len(a) + Len(b) /\ size = Len(b) /\ Len(a) \in Nat /\ Len(b) \in Nat
        BY <3>1, <3>6 DEF b
      <4>3. first = Len(a) + 1 /\ last = Len(a) + Len(b)
        BY <4>2
      <4> HIDE DEF Of, first, last
      <4> QED
        BY <3>2, <3>4, <3>6, <4>1, <4>3
    <3>7. CASE m + 1 > j
      <4>1. m >= j /\ m + 1 # j /\ ~(m + 1 < j)
        BY <3>7
      <4> HIDE DEF Of, first, last
      <4> QED
        BY <3>3, <3>4, <3>7, <4>1
    <3> QED
      <4>1. m + 1 < j \/ m + 1 = j \/ m + 1 > j
        OBVIOUS
      <4> HIDE DEF Here
      <4> QED
        BY <3>5, <3>6, <3>7, <4>1
  <2> HIDE DEF T
  <2> QED
    BY <2>1, <2>2, NaturalInduction
<1>5. Here(n)
  <2>1. n \in T /\ n \in 1..n
    <3> HIDE DEF T
    <3> QED
      BY <1>4
  <2> HIDE DEF Here
  <2> QED
    BY <2>1
<1>6. Of(f[n]) = first..last
  <2>1. n >= j
    OBVIOUS
  <2> HIDE DEF Of, first, last
  <2> QED
    BY <1>5, <2>1
<1>7. Cardinality(first..last) = size
  <2> HIDE DEF last, size
  <2>1. first \in Int /\ last \in Int
    BY <1>2
  <2>2. Cardinality(first..last) = IF first > last THEN 0 ELSE last - first + 1
    BY <2>1, FS_Interval
  <2> QED
    BY <1>2, <2>2
<1> QED
  BY <1>1, <1>6, <1>7 DEF PlacesOf

\* The Pages of a list are all read in one country.
ReadIn(list, country, c) == \A i \in DOMAIN list : country[list[i]] = c

\* The Pages read in a country.
LEMMA GroupIs ==
    ASSUME NEW T, NEW pages \in Seq(T), NoRepeats(pages), NEW country, NEW c
    PROVE  LET group == Group(pages, country, c)
               places == {i \in DOMAIN pages : country[pages[i]] = c}
           IN  /\ group \in Seq(T) /\ NoRepeats(group)
               /\ Len(group) = Cardinality(places)
               /\ Elements(group) = {pages[i] : i \in places}
               /\ ReadIn(group, country, c)
<1> DEFINE places == {i \in DOMAIN pages : country[pages[i]] = c}
           group == Group(pages, country, c)
<1>1. group = Where(pages, places) /\ places \in SUBSET DOMAIN pages
  BY DEF Group
<1>2. \A i \in places : country[pages[i]] = c
  OBVIOUS
<1>3. Cardinality(places) \in Nat
  <2>1. DOMAIN pages = 1..Len(pages) /\ Len(pages) \in Nat
    OBVIOUS
  <2>2. IsFiniteSet(DOMAIN pages)
    BY <2>1, FS_Interval
  <2> HIDE DEF places
  <2> QED
    BY <1>1, <2>2, FS_Subset, FS_CardinalityType
<1> HIDE DEF places, group
<1>4. /\ group \in Seq(T) /\ NoRepeats(group) /\ Elements(group) = {pages[i] : i \in places}
  BY <1>1, WhereIs
<1>5. Len(group) = Cardinality(places)
  BY <1>1, <1>3 DEF Where
<1>6. ReadIn(group, country, c)
  <2> SUFFICES ASSUME NEW k \in DOMAIN group PROVE country[group[k]] = c
    BY DEF ReadIn
  <2>1. group[k] \in Elements(group)
    BY DEF Elements
  <2> QED
    BY <1>2, <1>4, <2>1
<1> QED
  BY <1>4, <1>5, <1>6 DEF places, group

\* A Batch has one to BatchSize Pages, each once, all of one country.
LEMMA BatchIs ==
    ASSUME NEW T, NEW pages \in Seq(T), NoRepeats(pages), NEW country, NEW c,
           NEW k \in 1..Len(Chunks(Group(pages, country, c)))
    PROVE  LET b == Chunks(Group(pages, country, c))[k]
           IN  /\ b \in Seq(T) /\ Len(b) \in 1..BatchSize /\ NoRepeats(b)
               /\ ReadIn(b, country, c)
<1> DEFINE group == Group(pages, country, c)
           b == Chunks(group)[k]
<1>1. group \in Seq(T) /\ NoRepeats(group) /\ ReadIn(group, country, c)
  BY GroupIs
<1>2. Chunks(group) \in Seq(Seq(T))
  BY <1>1, ChunksAre
<1>3. k \in DOMAIN Chunks(group)
  BY <1>2
<1>4. /\ (k - 1) * BatchSize \in Nat /\ b \in Seq(T) /\ Len(b) \in 1..BatchSize
      /\ \A i \in 1..Len(b) : /\ (k - 1) * BatchSize + i \in 1..Len(group)
                              /\ b[i] = group[(k - 1) * BatchSize + i]
  <2> HIDE DEF group
  <2> QED
    BY <1>1, <1>3, ChunkIs
<1> HIDE DEF group, b
<1>5. DOMAIN b = 1..Len(b) /\ DOMAIN group = 1..Len(group)
  BY <1>1, <1>4, ElementIs
<1>6. NoRepeats(b)
  <2> SUFFICES ASSUME NEW i \in 1..Len(b), NEW j \in 1..Len(b), b[i] = b[j]
               PROVE  i = j
    BY <1>5 DEF NoRepeats
  <2> DEFINE x == (k - 1) * BatchSize
  <2>1. x \in Nat /\ x + i \in 1..Len(group) /\ x + j \in 1..Len(group)
    BY <1>4
  <2>2. group[x + i] = group[x + j]
    BY <1>4
  <2> HIDE DEF x
  <2>3. x + i = x + j
    BY <1>1, <1>5, <2>1, <2>2 DEF NoRepeats
  <2> QED
    BY <2>1, <2>3
<1>7. ReadIn(b, country, c)
  BY <1>1, <1>4, <1>5 DEF ReadIn
<1> QED
  BY <1>4, <1>6, <1>7 DEF b, group

\* The plan is the groups' Batches, one group after the other.
LEMMA PlanIs ==
    ASSUME NEW T, NEW pages \in Seq(T), NoRepeats(pages), NEW country
    PROVE  LET countries == CountriesOf(pages, country)
               n == Len(countries)
               lists == [j \in 1..n |-> Chunks(Group(pages, country, countries[j]))]
           IN  /\ n \in Nat /\ MakeBatches(pages, country) = FlattenSeq(lists)
               /\ n = 0 => MakeBatches(pages, country) = <<>>
               /\ lists \in [1..n -> Seq(Seq(T))]
<1> DEFINE countries == CountriesOf(pages, country)
           n == Len(countries)
           body(j) == Chunks(Group(pages, country, countries[j]))
           lists == [j \in 1..n |-> body(j)]
<1>1. n \in Nat
  BY CountriesAre
<1>2. MakeBatches(pages, country) = FlattenSeq(lists)
  BY DEF MakeBatches
<1>3. \A j \in 1..n : body(j) \in Seq(Seq(T))
  <2> SUFFICES ASSUME NEW j \in 1..n PROVE body(j) \in Seq(Seq(T))
    OBVIOUS
  <2> DEFINE group == Group(pages, country, countries[j])
  <2>1. group \in Seq(T) /\ NoRepeats(group)
    <3> HIDE DEF countries
    <3> QED
      BY GroupIs
  <2> HIDE DEF group
  <2>2. Chunks(group) \in Seq(Seq(T))
    BY <2>1, ChunksAre
  <2> QED
    BY <2>2 DEF group
<1>4. ASSUME n = 0 PROVE MakeBatches(pages, country) = <<>>
  <2>1. lists = <<>>
    <3> HIDE DEF body, n
    <3> QED
      BY <1>4
  <2>2. FlattenSeq(<<>>) = <<>>
    BY DEF FlattenSeq
  <2> HIDE DEF lists
  <2> QED
    BY <1>2, <2>1, <2>2
<1>5. lists \in [1..n -> Seq(Seq(T))]
  <2> HIDE DEF body, n
  <2> QED
    BY <1>3
<1> HIDE DEF n, countries
<1> QED
  BY <1>1, <1>2, <1>4, <1>5 DEF n, countries

\* What holds of every Batch of the plan.
LEMMA EveryBatchIs ==
    ASSUME NEW T, NEW pages \in Seq(T), NoRepeats(pages), NEW country,
           NEW k \in 1..Len(MakeBatches(pages, country))
    PROVE  LET b == MakeBatches(pages, country)[k]
               countries == CountriesOf(pages, country)
           IN  /\ b \in Seq(T) /\ Len(b) \in 1..BatchSize /\ NoRepeats(b)
               /\ \E j \in 1..Len(countries) : ReadIn(b, country, countries[j])
<1> DEFINE countries == CountriesOf(pages, country)
           n == Len(countries)
           plan == MakeBatches(pages, country)
           body(j) == Chunks(Group(pages, country, countries[j]))
           lists == [j \in 1..n |-> body(j)]
<1>1. /\ n \in Nat /\ plan = FlattenSeq(lists) /\ (n = 0 => plan = <<>>)
      /\ lists \in [1..n -> Seq(Seq(T))]
  BY PlanIs
<1>2. \A j \in 1..n : lists[j] = body(j)
  OBVIOUS
<1> HIDE DEF lists, n, plan, body, countries
<1>3. k \in 1..Len(plan)
  BY DEF plan
<1>4. n \in Nat \ {0}
  <2>1. plan = <<>> => Len(plan) = 0
    OBVIOUS
  <2> QED
    BY <1>1, <1>3, <2>1
<1>5. PICK j \in 1..n : \E i \in 1..Len(lists[j]) : plan[k] = lists[j][i]
  <2>1. OneOf(plan[k], lists, n)
    BY <1>1, <1>3, <1>4, FlattenHas
  <2> QED
    BY <2>1 DEF OneOf
<1>6. PICK i \in 1..Len(lists[j]) : plan[k] = lists[j][i]
  BY <1>5
<1>7. i \in 1..Len(Chunks(Group(pages, country, countries[j])))
  BY <1>2, <1>6 DEF body
<1>8. /\ plan[k] \in Seq(T) /\ Len(plan[k]) \in 1..BatchSize /\ NoRepeats(plan[k])
      /\ ReadIn(plan[k], country, countries[j])
  BY <1>2, <1>6, <1>7, BatchIs DEF body
<1> QED
  BY <1>8 DEF plan, countries, n

\* As many Batches are of a country as its group has chunks.
LEMMA BatchesOfCountry ==
    ASSUME NEW T, NEW pages \in Seq(T), NoRepeats(pages), NEW country, NEW c
    PROVE  LET plan == MakeBatches(pages, country)
           IN  Cardinality({k \in 1..Len(plan) : country[plan[k][1]] = c})
                  = Len(Chunks(Group(pages, country, c)))
<1> DEFINE countries == CountriesOf(pages, country)
           n == Len(countries)
           plan == MakeBatches(pages, country)
           body(j) == Chunks(Group(pages, country, countries[j]))
           lists == [j \in 1..n |-> body(j)]
           used == {k \in 1..Len(plan) : country[plan[k][1]] = c}
<1>1. /\ n \in Nat /\ plan = FlattenSeq(lists) /\ (n = 0 => plan = <<>>)
      /\ lists \in [1..n -> Seq(Seq(T))]
  BY PlanIs
<1>2. \A j \in 1..n : lists[j] = body(j)
  OBVIOUS
<1>3. /\ n \in Nat
      /\ \A k, l \in 1..n : k # l => countries[k] # countries[l]
      /\ \A i \in DOMAIN pages : \E k \in 1..n : countries[k] = country[pages[i]]
      /\ \A k \in 1..n : \E i \in DOMAIN pages : countries[k] = country[pages[i]]
  BY CountriesAre
<1>4. plan \in Seq(Seq(T))
  BY MakeBatchesIs
<1>5. \A k \in 1..Len(plan) : \E j \in 1..n : country[plan[k][1]] = countries[j]
  <2> SUFFICES ASSUME NEW k \in 1..Len(plan)
               PROVE  \E j \in 1..n : country[plan[k][1]] = countries[j]
    OBVIOUS
  <2>1. /\ Len(plan[k]) \in 1..BatchSize
        /\ plan[k] \in Seq(T)
        /\ \E j \in 1..n : ReadIn(plan[k], country, countries[j])
    BY EveryBatchIs
  <2> HIDE DEF plan, n, countries
  <2>2. 1 \in DOMAIN plan[k]
    BY <2>1
  <2> QED
    BY <2>1, <2>2 DEF ReadIn
<1> HIDE DEF lists, n, plan, body, countries
<1>6. CASE \E j \in 1..n : countries[j] = c
  <2>1. PICK j \in 1..n : countries[j] = c
    BY <1>6
  <2>2. n \in Nat \ {0}
    BY <1>1, <2>1
  <2> DEFINE V == {b \in Seq(T) : country[b[1]] = c}
  <2>3. ASSUME NEW m \in 1..n, NEW i \in 1..Len(lists[m])
        PROVE  lists[m][i] \in V <=> m = j
    <3> DEFINE b == lists[m][i]
    <3>1. i \in 1..Len(Chunks(Group(pages, country, countries[m])))
      BY <1>2 DEF body
    <3>2. /\ b \in Seq(T) /\ Len(b) \in 1..BatchSize
          /\ ReadIn(b, country, countries[m])
      BY <1>2, <3>1, BatchIs DEF body
    <3> HIDE DEF b
    <3>3. 1 \in DOMAIN b
      BY <3>2
    <3>4. b \in V <=> countries[m] = c
      BY <3>2, <3>3 DEF ReadIn
    <3> QED
      BY <1>3, <2>1, <3>4 DEF b
  <2>4. Cardinality({k \in 1..Len(plan) : plan[k] \in V}) = Len(lists[j])
    <3> HIDE DEF V
    <3>1. OnlyOneIs(lists, n, j, V)
      BY <2>3 DEF OnlyOneIs
    <3> DEFINE U == Seq(T)
    <3>2. lists \in [1..n -> Seq(U)] /\ n \in Nat \ {0} /\ j \in 1..n
      BY <1>1, <2>1, <2>2
    <3> HIDE DEF U
    <3>3. Cardinality(PlacesOf(FlattenSeq(lists), V)) = Len(lists[j])
      BY ONLY <3>1, <3>2, FlattenCount
    <3> QED
      BY <1>1, <3>3 DEF PlacesOf
  <2>5. {k \in 1..Len(plan) : plan[k] \in V} = used
    <3>1. \A k \in 1..Len(plan) : plan[k] \in Seq(T)
      BY <1>4, ElementIs
    <3> QED
      BY <3>1
  <2>6. lists[j] = Chunks(Group(pages, country, c))
    BY <1>2, <2>1 DEF body
  <2> HIDE DEF used, V
  <2> QED
    BY <2>4, <2>5, <2>6 DEF used, plan
<1>7. CASE ~ \E j \in 1..n : countries[j] = c
  <2>1. used = {}
    BY <1>5, <1>7
  <2>2. Len(Chunks(Group(pages, country, c))) = 0
    <3> DEFINE places == {i \in DOMAIN pages : country[pages[i]] = c}
               q == (0 + BatchSize - 1) \div BatchSize
    <3>1. places = {}
      BY <1>3, <1>7
    <3>2. Len(Group(pages, country, c)) = Cardinality(places)
      BY GroupIs
    <3>3. Len(Group(pages, country, c)) = 0
      BY <3>1, <3>2, FS_EmptySet
    <3>4. q = 0
      <4>1. BatchSize \in Nat \ {0} /\ 0 + BatchSize - 1 \in Nat
        BY BatchSizeAssumption
      <4>2. q \in Nat /\ q * BatchSize <= BatchSize - 1
        BY <4>1, DivisionIs
      <4> HIDE DEF q
      <4>3. q * BatchSize >= BatchSize \/ q = 0
        BY <4>1, <4>2
      <4> QED
        BY <4>1, <4>2, <4>3
    <3>5. DOMAIN Chunks(Group(pages, country, c)) = 1..0
      BY <3>3, <3>4 DEF Chunks
    <3>6. Chunks(Group(pages, country, c)) \in Seq(Seq(T))
      BY GroupIs, ChunksAre
    <3> QED
      BY <3>5, <3>6
  <2> HIDE DEF used
  <2> QED
    BY <2>1, <2>2, FS_EmptySet DEF used, plan
<1> QED
  BY <1>6, <1>7

\* The tracked Pages are a list without repetitions, whatever countries they are read in.
LEMMA IdsAre ==
    ASSUME countryOf \in Seq(Countries)
    PROVE  /\ Ids \in Seq(Nat) /\ NoRepeats(Ids)
           /\ DOMAIN Ids = 1..Len(countryOf) /\ \A i \in 1..Len(countryOf) : Ids[i] = i
           /\ Elements(Ids) = 1..Len(countryOf) /\ In(Ids) = 1..Len(countryOf)
           /\ Plan \in Seq(Seq(Nat)) /\ CutUp(Plan, 1..Len(countryOf))
<1> DEFINE n == Len(countryOf)
<1>1. n \in Nat
  OBVIOUS
<1>2. Ids = [i \in 1..n |-> i]
  BY DEF Ids
<1> HIDE DEF n
<1>3. DOMAIN Ids = 1..n /\ (\A i \in 1..n : Ids[i] = i) /\ Ids \in [1..n -> Nat]
  BY <1>1, <1>2
<1>4. Ids \in Seq(Nat) /\ Len(Ids) = n
  BY <1>1, <1>3, ListIs
<1>5. NoRepeats(Ids) /\ Elements(Ids) = 1..n /\ In(Ids) = 1..n
  BY <1>3, <1>4 DEF NoRepeats, Elements, In
<1>6. Plan \in Seq(Seq(Nat)) /\ CutUp(Plan, 1..n)
  BY <1>4, <1>5, MakeBatchesIs DEF Plan
<1> QED
  BY <1>3, <1>4, <1>5, <1>6 DEF n

\* A Page in two places of the plan would be twice in a Batch, or in two of them.
LEMMA PlanTakesEveryPageOnce ==
    ASSUME countryOf \in Seq(Countries) PROVE EveryPageOnce
<1> DEFINE Spots(p) == {at \in (1..Len(Plan)) \X (1..BatchSize) :
                            at[2] <= Len(Plan[at[1]]) /\ Plan[at[1]][at[2]] = p}
<1> SUFFICES ASSUME NEW p \in In(Ids) PROVE Cardinality(Spots(p)) = 1
  BY DEF EveryPageOnce
<1>1. /\ p \in 1..Len(countryOf) /\ Plan \in Seq(Seq(Nat)) /\ CutUp(Plan, 1..Len(countryOf))
      /\ Ids \in Seq(Nat) /\ NoRepeats(Ids)
  BY IdsAre
<1>2. DOMAIN Plan = 1..Len(Plan)
  BY <1>1
<1>3. ASSUME NEW k \in 1..Len(Plan)
      PROVE  /\ Plan[k] \in Seq(Nat) /\ Len(Plan[k]) \in 1..BatchSize /\ NoRepeats(Plan[k])
             /\ DOMAIN Plan[k] = 1..Len(Plan[k])
  BY <1>1, EveryBatchIs, ElementIs DEF Plan
<1>4. PICK k \in 1..Len(Plan) : p \in Elements(Plan[k])
  BY <1>1, <1>2 DEF CutUp
<1>5. PICK i \in 1..Len(Plan[k]) : Plan[k][i] = p
  BY <1>3, <1>4 DEF Elements
<1>6. <<k, i>> \in Spots(p)
  <2>1. Len(Plan[k]) \in 1..BatchSize
    BY <1>3
  <2>2. i \in 1..BatchSize /\ i <= Len(Plan[k])
    <3> DEFINE l == Len(Plan[k])
    <3>1. l \in 1..BatchSize /\ i \in 1..l
      BY <2>1
    <3> HIDE DEF l
    <3>2. i \in 1..BatchSize /\ i <= l
      BY <3>1, BatchSizeAssumption
    <3> QED
      BY <3>2 DEF l
  <2> QED
    BY <1>5, <2>2
<1>7. ASSUME NEW at \in Spots(p) PROVE at = <<k, i>>
  <2>1. /\ at[1] \in 1..Len(Plan) /\ at[2] \in 1..BatchSize /\ at = <<at[1], at[2]>>
        /\ at[2] <= Len(Plan[at[1]]) /\ Plan[at[1]][at[2]] = p
    OBVIOUS
  <2> DEFINE l == at[1]
             j == at[2]
  <2>2. j \in 1..Len(Plan[l])
    <3>1. Len(Plan[l]) \in 1..BatchSize
      BY <1>3, <2>1
    <3> QED
      BY <2>1, <3>1, BatchSizeAssumption
  <2>3. p \in Elements(Plan[l])
    BY <1>3, <2>1, <2>2 DEF Elements
  <2>4. l = k
    BY <1>1, <1>2, <1>4, <2>1, <2>3 DEF CutUp
  <2>5. j = i
    BY <1>3, <1>5, <2>1, <2>2, <2>4 DEF NoRepeats
  <2> QED
    BY <2>1, <2>4, <2>5
<1>8. Spots(p) = {<<k, i>>}
  <2> HIDE DEF Spots
  <2> QED
    BY <1>6, <1>7
<1> HIDE DEF Spots
<1> QED
  BY <1>8, FS_Singleton

\* The plan is as full as BatchSize and the countries allow.
LEMMA PlanFitsActorRuns ==
    ASSUME countryOf \in Seq(Countries) PROVE BatchesFitAnActorRun
<1>1. Ids \in Seq(Nat) /\ NoRepeats(Ids) /\ Plan \in Seq(Seq(Nat))
  BY IdsAre
<1>2. ASSUME NEW k \in 1..Len(Plan)
      PROVE  /\ Len(Plan[k]) \in 1..BatchSize
             /\ Cardinality({countryOf[p] : p \in In(Plan[k])}) = 1
  <2> DEFINE countries == CountriesOf(Ids, countryOf)
             b == Plan[k]
  <2>1. /\ b \in Seq(Nat) /\ Len(b) \in 1..BatchSize
        /\ \E j \in 1..Len(countries) : ReadIn(b, countryOf, countries[j])
    BY <1>1, EveryBatchIs DEF Plan
  <2> HIDE DEF countries, b
  <2>2. PICK j \in 1..Len(countries) : ReadIn(b, countryOf, countries[j])
    BY <2>1
  <2>3. DOMAIN b = 1..Len(b) /\ 1 \in 1..Len(b)
    BY <2>1
  <2>4. \A i \in 1..Len(b) : countryOf[b[i]] = countries[j]
    BY <2>2, <2>3 DEF ReadIn
  <2>5. {countryOf[p] : p \in In(b)} = {countries[j]}
    BY <2>3, <2>4 DEF In
  <2> QED
    BY <2>1, <2>5, FS_Singleton DEF b
<1>3. ASSUME NEW c \in Countries
      PROVE  LET n == Cardinality({p \in In(Ids) : countryOf[p] = c})
                 used == Cardinality({k \in 1..Len(Plan) : countryOf[Plan[k][1]] = c})
             IN  used * BatchSize \in n..(n + BatchSize - 1)
  <2> DEFINE group == Group(Ids, countryOf, c)
             places == {i \in DOMAIN Ids : countryOf[Ids[i]] = c}
             pages == {p \in In(Ids) : countryOf[p] = c}
             n == Len(group)
             B == BatchSize
             q == (n + B - 1) \div B
  <2>1. group \in Seq(Nat) /\ NoRepeats(group) /\ n = Cardinality(places)
    <3>1. group \in Seq(Nat) /\ NoRepeats(group)
      BY <1>1, GroupIs
    <3>2. Len(Group(Ids, countryOf, c)) = Cardinality(places)
      BY <1>1, GroupIs
    <3> QED
      BY <3>1, <3>2
  <2>2. places = pages
    <3>1. DOMAIN Ids = In(Ids) /\ \A i \in DOMAIN Ids : Ids[i] = i
      BY IdsAre
    <3> QED
      BY <3>1
  <2>3. Cardinality({k \in 1..Len(Plan) : countryOf[Plan[k][1]] = c}) = Len(Chunks(group))
    BY <1>1, BatchesOfCountry DEF Plan
  <2>4. n \in Nat /\ B \in Nat \ {0}
    BY <2>1, BatchSizeAssumption
  <2>5. q \in Nat /\ q * B <= n + B - 1 /\ n + B - 1 < q * B + B
    <3>1. n + B - 1 \in Nat
      BY <2>4
    <3> HIDE DEF n, B
    <3> QED
      BY <2>4, <3>1, DivisionIs
  <2>6. Len(Chunks(group)) = q
    <3>1. Chunks(group) \in Seq(Seq(Nat))
      BY <2>1, ChunksAre
    <3>2. DOMAIN Chunks(group) = 1..q
      BY DEF Chunks
    <3> HIDE DEF q, group
    <3> QED
      BY <2>5, <3>1, <3>2
  <2> HIDE DEF q, n, B, group, places, pages
  <2>7. q * B \in n..(n + B - 1)
    <3>1. q * B \in Nat
      BY <2>4, <2>5
    <3> QED
      BY <2>4, <2>5, <3>1
  <2> QED
    BY <2>1, <2>2, <2>3, <2>6, <2>7 DEF pages, B
<1> QED
  BY <1>2, <1>3 DEF BatchesFitAnActorRun

\* Pages are added one at a time.
LEMMA CountriesTyped == PagesAdded => [](countryOf \in Seq(Countries))
<1>1. NoPages => countryOf \in Seq(Countries)
  BY DEF NoPages
<1>2. countryOf \in Seq(Countries) /\ [CreatePage]_countryOf => (countryOf \in Seq(Countries))'
  BY DEF CreatePage
<1> QED
  BY <1>1, <1>2, PTL DEF PagesAdded

\* However many Pages are tracked, of whatever countries: none is left out of the Batches
\* and none is in two places of them (make_batches).
THEOREM BatchesTakeEveryPage == PagesAdded => []EveryPageOnce
BY PlanTakesEveryPageOnce, CountriesTyped, PTL

\* And every Batch is one Actor run's: one country, one to BATCH_SIZE Pages, and only the
\* last Batch of a country is short (make_batches).
THEOREM BatchesAlwaysFit == PagesAdded => []BatchesFitAnActorRun
BY PlanFitsActorRuns, CountriesTyped, PTL

---------------------------------------------------------------------------
(* Types. *)

AnActor == [pages: SUBSET Pages, status: {"RUNNING", "SUCCEEDED", "REFUSED", "FAILED"},
            data: SUBSET AllAds]
ARecord == [id: Nat, pages: SUBSET Pages, attempt: 1..APIFY_ATTEMPTS,
            outcome: {"none", "stored", "failed"}]
ATask == [pages: SUBSET Pages, attached: Nat, at: Places, attempt: 0..APIFY_ATTEMPTS,
          cur: Nat, retry: BOOLEAN, ok: BOOLEAN, unread: SUBSET AllAds, complete: BOOLEAN]
Progress == [errors: Nat, total: Nat, done: Nat]

Types ==
    /\ actors \in Seq(AnActor)
    /\ recorded \in Seq(ARecord)
    /\ row \in [open: BOOLEAN, errors: Nat, total: Nat, done: Nat, pages: Nat]
    /\ stored \in SUBSET AllAds /\ gone \in SUBSET AllAds /\ tracked \in SUBSET Pages
    /\ worker \in {"up", "closing", "down"}
    /\ tasks \in Seq(ATask)
    /\ holder \in {None} \cup Tasks
    /\ mem \in Progress
    /\ conn \in {"ok", "aborted", "dead"}
    /\ faults \in [times: 0..MaxFaults, kinds: SUBSET Faults]

\* What is recorded of an Actor run is of one that was started.
Known ==
    /\ \A a \in DOMAIN actors : actors[a].data \subseteq AdsOfBatch(actors[a].pages)
    /\ \A k \in Rows : recorded[k].id \in DOMAIN actors
                       /\ recorded[k].pages = actors[recorded[k].id].pages

\* Where a Batch has an Actor run, and an attempt left.
Placed(t) ==
    /\ t.pages # {}
    /\ t.cur \in {None} \cup DOMAIN actors
    /\ t.attached # None => \E k \in Rows : recorded[k].id = t.attached
    /\ t.at = "attempting" => t.attempt < APIFY_ATTEMPTS
    /\ t.at = "starting" => t.attempt # 0 /\ actors[t.cur].pages = t.pages
    /\ t.at \in {"starting", "polling", "saving", "counting"} => t.cur # None
    /\ t.at \in {"queued", "attempting", "starting", "polling"} => ~t.ok
    /\ t.at = "waiting" /\ t.ok => t.cur # None

TypeInv ==
    /\ Types /\ Known
    /\ \A i \in Tasks : Placed(tasks[i])
    /\ worker = "down" /\ row.open => holder = None

\* There are finitely many Pages.
LEMMA FinitePages == ASSUME NEW P \in SUBSET Pages PROVE IsFiniteSet(P) /\ Cardinality(P) \in Nat
BY ApifyAssumption, FS_Subset, FS_CardinalityType

\* Pages nothing was started for are cut up into Batches.
LEMMA FreshIs ==
    ASSUME NEW P \in SUBSET Pages
    PROVE  /\ Fresh(P) \in Seq(ATask)
           /\ \A k \in DOMAIN Fresh(P) : /\ Fresh(P)[k] = Task(Fresh(P)[k].pages, None)
                                         /\ Fresh(P)[k].pages # {} /\ Fresh(P)[k].pages \subseteq P
           /\ \A k, l \in DOMAIN Fresh(P) : k # l => Fresh(P)[k].pages \cap Fresh(P)[l].pages = {}
           /\ \A p \in P : \E k \in DOMAIN Fresh(P) : p \in Fresh(P)[k].pages
<1> DEFINE plan == MakeBatches(InOrder(P), Country)
           body(k) == {plan[k][i] : i \in 1..Len(plan[k])}
<1>1. P \subseteq Nat /\ IsFiniteSet(P)
  BY ApifyAssumption, FinitePages
<1>2. InOrder(P) \in Seq(P) /\ Elements(InOrder(P)) = P /\ NoRepeats(InOrder(P))
  BY <1>1, InOrderIs
<1>3. plan \in Seq(Seq(P)) /\ CutUp(plan, P)
  BY <1>2, MakeBatchesIs
<1>4. Fresh(P) = [k \in 1..Len(plan) |-> Task(body(k), None)]
  BY DEF Fresh
<1> HIDE DEF plan
<1>5. DOMAIN plan = 1..Len(plan) /\ Len(plan) \in Nat
  BY <1>3
<1>6. \A k \in 1..Len(plan) : body(k) = Elements(plan[k])
  <2> SUFFICES ASSUME NEW k \in 1..Len(plan) PROVE body(k) = Elements(plan[k])
    OBVIOUS
  <2>1. plan[k] \in Seq(P)
    BY <1>3, <1>5
  <2>2. DOMAIN plan[k] = 1..Len(plan[k])
    BY <2>1
  <2> QED
    BY <2>2 DEF Elements
<1> HIDE DEF body
<1>7. /\ \A k \in 1..Len(plan) : body(k) # {} /\ body(k) \subseteq P
      /\ \A k, l \in 1..Len(plan) : k # l => body(k) \cap body(l) = {}
      /\ \A p \in P : \E k \in 1..Len(plan) : p \in body(k)
  <2> DEFINE D == 1..Len(plan)
  <2>1. DOMAIN plan = D /\ \A k \in D : body(k) = Elements(plan[k])
    BY <1>5, <1>6
  <2> HIDE DEF D
  <2>2. \A k \in D : body(k) # {} /\ body(k) \subseteq P
    BY <1>3, <2>1 DEF CutUp
  <2>3. \A k, l \in D : k # l => body(k) \cap body(l) = {}
    BY <1>3, <2>1 DEF CutUp
  <2>4. \A p \in P : \E k \in D : p \in body(k)
    BY <1>3, <2>1 DEF CutUp
  <2> QED
    BY <2>2, <2>3, <2>4 DEF D
<1>8. \A k \in 1..Len(plan) : Task(body(k), None) \in ATask /\ Task(body(k), None).pages = body(k)
  BY <1>7 DEF Task, ATask, None, Places, APIFY_ATTEMPTS
<1>9. Fresh(P) \in [1..Len(plan) -> ATask] /\ DOMAIN Fresh(P) = 1..Len(plan)
  BY <1>4, <1>8
<1>10. Fresh(P) \in Seq(ATask)
  BY <1>6, <1>9
<1>11. \A k \in 1..Len(plan) : Fresh(P)[k] = Task(body(k), None) /\ Fresh(P)[k].pages = body(k)
  BY <1>4, <1>8
<1> QED
  BY <1>7, <1>9, <1>10, <1>11

\* A statement that works or fails leaves the connection and the faults typed.
LEMMA ConnTyped ==
    ASSUME Types, NEW kind, StatementWorks \/ Fails(kind)
    PROVE  conn' \in {"ok", "aborted", "dead"} /\ faults' \in [times: 0..MaxFaults, kinds: SUBSET Faults]
BY ApifyAssumption DEF Types, StatementWorks, Fails, Fault

\* A fault is of a kind that may happen, and no more happen than the bound allows.
LEMMA FaultTyped ==
    ASSUME Types, NEW kind, CallFails \/ Fault(kind)
    PROVE  faults' \in [times: 0..MaxFaults, kinds: SUBSET Faults]
BY ApifyAssumption DEF Types, Fault, CallFails

\* One Batch becomes another.
LEMMA BecomeIs ==
    ASSUME Types, NEW i \in Tasks, NEW t \in ATask, Become(i, t)
    PROVE  /\ tasks' \in Seq(ATask) /\ Len(tasks') = Len(tasks) /\ Tasks' = Tasks
           /\ tasks'[i] = t /\ \A j \in Tasks : j # i => tasks'[j] = tasks[j]
BY DEF Types, Become, Tasks

\* A beat leaves the row typed.
LEMMA BeatenTyped ==
    ASSUME Types, NEW m \in Progress
    PROVE  Beaten(m) \in [open: BOOLEAN, errors: Nat, total: Nat, done: Nat, pages: Nat]
           /\ Beaten(m).open = row.open
BY DEF Types, Beaten, Progress

\* The Actor run a Batch is known by in the database.
IsLatest(j, P) ==
    /\ j \in Rows /\ recorded[j].pages = P
    /\ \A l \in Rows : recorded[l].pages = P => l <= j

\* Latest is the last row of its Pages.
LEMMA LatestIs ==
    ASSUME Types, NEW k \in Rows
    PROVE  \E j \in Rows : IsLatest(j, recorded[k].pages) /\ Latest(recorded[k].pages) = recorded[j]
<1> DEFINE P == recorded[k].pages
           Of == {j \in Rows : recorded[j].pages = P}
<1>1. Rows = 1..Len(recorded) /\ Len(recorded) \in Nat
  BY DEF Rows, Types
<1>2. \E x \in Of : \A y \in Of : y <= x
  <2>1. Of \subseteq Nat /\ Of # {} /\ \A y \in Of : y <= Len(recorded)
    BY <1>1
  <2> HIDE DEF Of
  <2> QED
    BY <1>1, <2>1, GreatestNatural
<1> HIDE DEF P
<1>3. \E j \in Rows : recorded[j].pages = P /\ \A l \in Rows : recorded[l].pages = P => l <= j
  BY <1>2
<1> DEFINE c == CHOOSE j \in Rows : recorded[j].pages = P
                                    /\ \A l \in Rows : recorded[l].pages = P => l <= j
<1>4. c \in Rows /\ recorded[c].pages = P /\ \A l \in Rows : recorded[l].pages = P => l <= c
  BY <1>3
<1>5. Latest(P) = recorded[c]
  BY DEF Latest
<1> HIDE DEF c
<1> QED
  BY <1>4, <1>5 DEF IsLatest, P

\* ... and every recorded Batch has a first one.
LEMMA FirstIs ==
    ASSUME Types, NEW k \in Rows
    PROVE  \E j \in FirstRows : recorded[j].pages = recorded[k].pages
<1> DEFINE P == recorded[k].pages
           Of == {j \in Rows : recorded[j].pages = P}
<1>1. Rows = 1..Len(recorded) /\ Len(recorded) \in Nat
  BY DEF Rows, Types
<1>2. \E x \in Of : \A y \in Of : x <= y
  <2>1. Of \subseteq Nat /\ Of # {}
    BY <1>1
  <2> HIDE DEF Of
  <2> QED
    BY <2>1, LeastNatural
<1> QED
  BY <1>2 DEF FirstRows

OpenRows == {k \in FirstRows : ~DealtWith(recorded[k].pages)}
Followed(m) == Task(recorded[m].pages \cap tracked, Latest(recorded[m].pages).id)

\* A Batch of the resumed run follows a recorded Actor run, or is new.
Resumed(t) ==
    \/ \E m \in OpenRows : t = Followed(m)
    \/ t = Task(t.pages, None) /\ t.pages \subseteq tracked \ Started

\* ... and no two of them are for the same Pages.
Apart(t, u) ==
    \/ \E m, n \in OpenRows : m # n /\ t = Followed(m) /\ u = Followed(n)
    \/ \E m \in OpenRows : t = Followed(m) /\ u.pages \subseteq tracked \ Started
    \/ \E m \in OpenRows : u = Followed(m) /\ t.pages \subseteq tracked \ Started
    \/ t.pages \cap u.pages = {}

\* The plan of a resumed run: Batches it follows, then new ones, none twice.
LEMMA ResumePlanIs ==
    ASSUME Types
    PROVE  /\ ResumePlan \in Seq(ATask)
           /\ \A k \in DOMAIN ResumePlan : Resumed(ResumePlan[k]) /\ ResumePlan[k].pages # {}
           /\ \A k, l \in DOMAIN ResumePlan : k # l => Apart(ResumePlan[k], ResumePlan[l])
           /\ \A m \in OpenRows : \E k \in DOMAIN ResumePlan : ResumePlan[k] = Followed(m)
           /\ \A p \in tracked \ Started : \E k \in DOMAIN ResumePlan : p \in ResumePlan[k].pages
           /\ \A k, l \in DOMAIN ResumePlan : k < l /\ ResumePlan[l].attached # None
                                              => \E m \in OpenRows : ResumePlan[k] = Followed(m)
<1> DEFINE o == InOrder(OpenRows)
           front == [k \in DOMAIN o |-> Followed(o[k])]
           back == Fresh(tracked \ Started)
           c == front \o back
           n == Len(o)
<1>1. Rows = 1..Len(recorded) /\ Len(recorded) \in Nat
  BY DEF Rows, Types
<1>2. OpenRows \subseteq Nat /\ IsFiniteSet(OpenRows)
  <2>1. OpenRows \in SUBSET (1..Len(recorded))
    BY <1>1 DEF OpenRows, FirstRows
  <2>2. IsFiniteSet(1..Len(recorded))
    BY <1>1, FS_Interval
  <2>3. IsFiniteSet(OpenRows)
    BY <2>1, <2>2, FS_Subset
  <2>4. \A x \in 1..Len(recorded) : x \in Nat
    OBVIOUS
  <2> QED
    BY <2>1, <2>3, <2>4
<1>3. o \in Seq(OpenRows) /\ Elements(o) = OpenRows /\ NoRepeats(o) /\ DOMAIN o = 1..n /\ n \in Nat
  <2>1. o \in Seq(OpenRows) /\ Elements(o) = OpenRows /\ NoRepeats(o)
    BY <1>2, InOrderIs
  <2> HIDE DEF o
  <2> QED
    BY <2>1
<1>4. ASSUME NEW m \in OpenRows
      PROVE  Followed(m) \in ATask /\ Followed(m).pages # {}
  <2>0. m \in Rows
    BY DEF OpenRows, FirstRows
  <2>1. PICK j \in Rows : Latest(recorded[m].pages) = recorded[j]
    BY <2>0, LatestIs
  <2>2. recorded[j] \in ARecord /\ recorded[m] \in ARecord
    BY <1>1, <2>0 DEF Types
  <2>3. recorded[m].pages \cap tracked # {}
    BY DEF OpenRows, DealtWith
  <2>4. Latest(recorded[m].pages).id \in Nat /\ recorded[m].pages \cap tracked \in SUBSET Pages
    BY <2>1, <2>2 DEF ARecord, Types
  <2> QED
    BY <2>3, <2>4 DEF Followed, Task, ATask, None, Places, APIFY_ATTEMPTS
<1>5. /\ back \in Seq(ATask)
      /\ \A k \in DOMAIN back : /\ back[k] = Task(back[k].pages, None)
                                /\ back[k].pages # {} /\ back[k].pages \subseteq tracked \ Started
      /\ \A k, l \in DOMAIN back : k # l => back[k].pages \cap back[l].pages = {}
      /\ \A p \in tracked \ Started : \E k \in DOMAIN back : p \in back[k].pages
  <2>1. tracked \ Started \in SUBSET Pages
    BY DEF Types
  <2> QED
    BY <2>1, FreshIs
<1>6. ResumePlan = c
  BY DEF ResumePlan, OpenRows, Followed
<1> HIDE DEF o, back, n
<1>7. \A k \in 1..n : o[k] \in OpenRows /\ front[k] = Followed(o[k])
  BY <1>3 DEF Elements
<1>8. front \in [1..n -> ATask] /\ front \in Seq(ATask) /\ Len(front) = n
  BY <1>3, <1>4, <1>7
<1> HIDE DEF front
<1> DEFINE b == Len(back)
<1>9. b \in Nat /\ DOMAIN back = 1..b
  BY <1>5
<1>10. c \in Seq(ATask) /\ DOMAIN c = 1..(n + b)
       /\ \A k \in 1..(n + b) : c[k] = IF k <= n THEN front[k] ELSE back[k - n]
  <2> HIDE DEF back
  <2>1. back \in Seq(ATask)
    BY <1>5
  <2> QED
    BY <1>3, <1>8, <2>1
<1> HIDE DEF c, b
<1>11. ASSUME NEW k \in DOMAIN c
       PROVE  \/ k \in 1..n /\ o[k] \in OpenRows /\ c[k] = Followed(o[k]) /\ c[k].pages # {}
              \/ /\ k - n \in DOMAIN back /\ c[k] = back[k - n]
                 /\ c[k] = Task(c[k].pages, None) /\ c[k].pages # {}
                 /\ c[k].pages \subseteq tracked \ Started
  <2>1. CASE k <= n
    BY <1>3, <1>4, <1>7, <1>9, <1>10, <2>1
  <2>2. CASE ~(k <= n)
    <3>1. k - n \in DOMAIN back /\ c[k] = back[k - n]
      BY <1>3, <1>9, <1>10, <2>2
    <3> QED
      BY <1>5, <3>1
  <2> QED
    BY <2>1, <2>2
<1>12. ASSUME NEW k \in DOMAIN c, NEW l \in DOMAIN c, k # l
       PROVE  Apart(c[k], c[l])
  <2>1. CASE k \in 1..n /\ o[k] \in OpenRows /\ c[k] = Followed(o[k])
             /\ l \in 1..n /\ o[l] \in OpenRows /\ c[l] = Followed(o[l])
    <3>1. o[k] # o[l]
      BY <1>3, <1>12, <2>1 DEF NoRepeats
    <3> QED
      BY <2>1, <3>1 DEF Apart
  <2>2. CASE /\ k - n \in DOMAIN back /\ c[k] = back[k - n]
             /\ l - n \in DOMAIN back /\ c[l] = back[l - n]
    <3>1. k - n # l - n
      BY <1>3, <1>10, <1>12
    <3> QED
      BY <1>5, <2>2, <3>1 DEF Apart
  <2> QED
    BY <1>11, <2>1, <2>2 DEF Apart
<1>13. ASSUME NEW m \in OpenRows PROVE \E k \in DOMAIN c : c[k] = Followed(m)
  <2>1. PICK k \in 1..n : o[k] = m
    BY <1>3 DEF Elements
  <2>2. k \in 1..(n + b) /\ k <= n
    BY <1>3, <1>9
  <2> QED
    BY <1>7, <1>10, <2>1, <2>2
<1>14. ASSUME NEW p \in tracked \ Started PROVE \E k \in DOMAIN c : p \in c[k].pages
  <2>1. PICK k \in DOMAIN back : p \in back[k].pages
    BY <1>5
  <2>2. k + n \in 1..(n + b) /\ ~(k + n <= n) /\ (k + n) - n = k
    BY <1>3, <1>9
  <2> QED
    BY <1>10, <2>1, <2>2
<1>15. ASSUME NEW k \in DOMAIN c, NEW l \in DOMAIN c, k < l, c[l].attached # None
       PROVE  \E m \in OpenRows : c[k] = Followed(m)
  <2>1. ~(c[l] = Task(c[l].pages, None))
    BY <1>15 DEF Task
  <2>2. l <= n
    BY <1>3, <1>11, <2>1
  <2>3. k \in 1..n
    BY <1>3, <1>9, <1>10, <1>15, <2>2
  <2> QED
    BY <1>7, <1>9, <1>10, <2>3
<1> QED
  BY <1>6, <1>10, <1>11, <1>12, <1>13, <1>14, <1>15 DEF Resumed

\* The Pages dealt with are counted: there are finitely many.
LEMMA PagesDealtWithTyped ==
    ASSUME Types PROVE PagesDealtWith \in Nat
<1> DEFINE S == {counted \in FirstRows \X Pages :
                    LET P == recorded[counted[1]].pages
                    IN  DealtWith(P) /\ counted[2] \in P}
<1>1. FirstRows \in SUBSET (1..Len(recorded)) /\ Len(recorded) \in Nat
  BY DEF FirstRows, Rows, Types
<1>2. IsFiniteSet(FirstRows)
  <2>1. IsFiniteSet(1..Len(recorded))
    BY <1>1, FS_Interval
  <2> QED
    BY <1>1, <2>1, FS_Subset
<1>3. IsFiniteSet(FirstRows \X Pages)
  BY <1>2, ApifyAssumption, FS_Product
<1>4. S \in SUBSET (FirstRows \X Pages)
  OBVIOUS
<1>5. PagesDealtWith = Cardinality(S)
  BY DEF PagesDealtWith
<1> HIDE DEF S
<1> QED
  BY <1>3, <1>4, <1>5, FS_Subset, FS_CardinalityType

Row == [open: BOOLEAN, errors: Nat, total: Nat, done: Nat, pages: Nat]
FaultsSoFar == [times: 0..MaxFaults, kinds: SUBSET Faults]

\* A Batch moves, and nothing is added on Apify or to what is recorded of it.
LEMMA QuietMove ==
    ASSUME TypeInv, NEW i \in Tasks, worker = "up",
           NEW t \in ATask, Placed(t), Become(i, t),
           UNCHANGED <<actors, recorded, tracked, worker>>,
           row' \in Row, stored' \in SUBSET AllAds, gone' \in SUBSET AllAds,
           holder' \in {None} \cup Tasks, mem' \in Progress,
           conn' \in {"ok", "aborted", "dead"}, faults' \in FaultsSoFar
    PROVE  TypeInv'
<1>1. /\ tasks' \in Seq(ATask) /\ Tasks' = Tasks
      /\ tasks'[i] = t /\ \A j \in Tasks : j # i => tasks'[j] = tasks[j]
  BY BecomeIs DEF TypeInv
<1>2. Types'
  BY <1>1 DEF TypeInv, Types, Row, FaultsSoFar
<1>3. Known'
  BY DEF TypeInv, Known, Rows
<1>4. ASSUME NEW j \in Tasks PROVE Placed(tasks[j])'
  <2> DEFINE u == tasks'[j]
  <2>1. Placed(u)
    BY <1>1 DEF TypeInv
  <2> HIDE DEF u
  <2>2. /\ u.pages # {}
        /\ u.cur \in {None} \cup DOMAIN actors'
        /\ u.attached # None => \E k \in Rows' : recorded'[k].id = u.attached
        /\ u.at = "attempting" => u.attempt < APIFY_ATTEMPTS
        /\ u.at = "starting" => u.attempt # 0 /\ actors'[u.cur].pages = u.pages
        /\ u.at \in {"starting", "polling", "saving", "counting"} => u.cur # None
        /\ u.at \in {"queued", "attempting", "starting", "polling"} => ~u.ok
        /\ u.at = "waiting" /\ u.ok => u.cur # None
    BY <2>1 DEF Placed, Rows
  <2> QED
    BY <2>2 DEF u, Placed
<1>5. worker' # "down"
  OBVIOUS
<1> QED
  BY <1>1, <1>2, <1>3, <1>4, <1>5 DEF TypeInv

\* Another attempt, or none, has its place.
LEMMA AfterFailurePlaced ==
    ASSUME NEW t \in ATask, t.pages # {}, ~t.ok, t.cur \in {None} \cup DOMAIN actors,
           t.attached # None => \E k \in Rows : recorded[k].id = t.attached
    PROVE  AfterFailure(t) \in ATask /\ Placed(AfterFailure(t))
<1>1. CASE t.attempt < APIFY_ATTEMPTS /\ t.retry
  BY <1>1 DEF AfterFailure, ATask, Placed, Places
<1>2. CASE ~(t.attempt < APIFY_ATTEMPTS /\ t.retry)
  BY <1>2 DEF AfterFailure, ATask, Placed, Places
<1> QED
  BY <1>1, <1>2

\* A recorded Actor run is the first attempt or the second.
LEMMA AttemptOfTyped ==
    ASSUME TypeInv, NEW id, \E k \in Rows : recorded[k].id = id
    PROVE  AttemptOf(id) \in 1..APIFY_ATTEMPTS
<1> DEFINE c == CHOOSE k \in Rows : recorded[k].id = id
<1>1. c \in Rows /\ AttemptOf(id) = recorded[c].attempt
  BY DEF AttemptOf
<1> HIDE DEF c
<1>2. recorded[c] \in ARecord
  BY <1>1 DEF TypeInv, Types, Rows
<1> QED
  BY <1>1, <1>2 DEF ARecord

\* An Actor run ends on Apify: its Pages stay.
LEMMA ActorEnds ==
    ASSUME TypeInv, NEW c \in DOMAIN actors, NEW a \in AnActor,
           a.pages = actors[c].pages, a.data \subseteq AdsOfBatch(a.pages),
           actors' = [actors EXCEPT ![c] = a],
           UNCHANGED <<database, tracked, worker, memory, faults>>
    PROVE  TypeInv'
<1>1. UNCHANGED <<recorded, row, stored, gone, tracked, worker, tasks, holder, mem, conn, faults>>
  BY DEF database, memory
<1>2. /\ actors' \in Seq(AnActor) /\ DOMAIN actors' = DOMAIN actors
      /\ actors'[c] = a /\ \A x \in DOMAIN actors : x # c => actors'[x] = actors[x]
  BY DEF TypeInv, Types
<1>3. \A x \in DOMAIN actors : actors'[x].pages = actors[x].pages
  BY <1>2
<1>4. Types'
  BY <1>1, <1>2 DEF TypeInv, Types, Tasks
<1>5. Known'
  BY <1>1, <1>2, <1>3 DEF TypeInv, Known, Rows
<1>6. ASSUME NEW j \in Tasks PROVE Placed(tasks[j])'
  <2>1. Placed(tasks[j])
    BY DEF TypeInv
  <2> QED
    BY <1>1, <1>2, <1>3, <2>1 DEF Placed, Rows, None
<1> QED
  BY <1>1, <1>4, <1>5, <1>6 DEF TypeInv, Tasks

\* A Batch an exception leaves.
RaisedFrom(i) == \E u \in ATask : Become(i, u) /\ Placed(u) /\ u = [tasks[i] EXCEPT !.at = "raised"]

\* An exception leaves a Batch of that type, and the lock free or with another.
LEMMA RaiseIs ==
    ASSUME TypeInv, NEW i \in Tasks, Raise(i)
    PROVE  holder' \in {None} \cup Tasks /\ RaisedFrom(i)
<1> DEFINE u == [tasks[i] EXCEPT !.at = "raised"]
<1>1. tasks[i] \in ATask /\ Placed(tasks[i]) /\ holder \in {None} \cup Tasks
  BY DEF TypeInv, Types, Tasks
<1>2. u \in ATask
  <2>1. "raised" \in Places
    BY DEF Places
  <2> QED
    BY <1>1, <2>1 DEF ATask
<1>3. Placed(u)
  BY <1>1 DEF Placed, ATask
<1> QED
  BY <1>1, <1>2, <1>3 DEF Raise, RaisedFrom

\* The steps that read keep the types.
LEMMA ReadingTyped ==
    ASSUME TypeInv, NEW i \in Tasks,
           \/ TakeSlot(i) \/ StartRun(i) \/ StartFails(i) \/ RecordRun(i) \/ LoseAnswer(i)
           \/ Follow(i) \/ Watch(i) \/ AbortRun(i) \/ PollFails(i) \/ SeeEnd(i)
    PROVE  TypeInv'
<1>0. Types /\ Known /\ tasks[i] \in ATask /\ Placed(tasks[i])
  BY DEF TypeInv, Types, Tasks
<1>a. APIFY_ATTEMPTS = 2
  BY DEF APIFY_ATTEMPTS
<1>b. /\ row \in Row /\ stored \in SUBSET AllAds /\ gone \in SUBSET AllAds
      /\ holder \in {None} \cup Tasks /\ mem \in Progress
      /\ conn \in {"ok", "aborted", "dead"} /\ faults \in FaultsSoFar
  BY <1>0 DEF Types, Row, FaultsSoFar
<1>1. CASE TakeSlot(i)
  <2> DEFINE n == IF tasks[i].attached = None THEN 0 ELSE AttemptOf(tasks[i].attached) - 1
             t == [tasks[i] EXCEPT !.at = "attempting", !.attempt = n]
  <2>1. n \in 0..1
    <3>1. CASE tasks[i].attached = None
      BY <3>1
    <3>2. CASE tasks[i].attached # None
      <4>1. AttemptOf(tasks[i].attached) \in 1..2
        BY <1>0, <1>a, <3>2, AttemptOfTyped DEF Placed
      <4> QED
        BY <3>2, <4>1
    <3> QED
      BY <3>1, <3>2
  <2>2. Become(i, t) /\ worker = "up" /\ tasks[i].at = "queued"
    BY <1>1 DEF TakeSlot, At
  <2> HIDE DEF n
  <2>3. t \in ATask
    <3>1. "attempting" \in Places /\ n \in 0..2
      BY <2>1 DEF Places
    <3> QED
      BY <1>0, <1>a, <3>1 DEF ATask
  <2>4. Placed(t)
    BY <1>0, <1>a, <2>1, <2>2 DEF ATask, Placed
  <2> HIDE DEF t
  <2> QED
    BY <1>1, <1>b, <2>2, <2>3, <2>4, QuietMove DEF TakeSlot, apify, database
<1>2. CASE StartRun(i)
  <2> DEFINE a == [pages |-> tasks[i].pages, status |-> "RUNNING", data |-> {}]
             n == Len(actors) + 1
             t == [tasks[i] EXCEPT !.at = "starting", !.attempt = @ + 1, !.cur = n]
  <2>1. /\ worker = "up" /\ tasks[i].at = "attempting"
        /\ actors' = Append(actors, a) /\ Become(i, t)
        /\ UNCHANGED <<recorded, row, stored, gone, tracked, worker, holder, mem, conn, faults>>
    BY <1>2 DEF StartRun, At, database
  <2>2. a \in AnActor /\ a.data = {}
    BY <1>0 DEF AnActor, ATask
  <2>3. n \in Nat \ {0}
    BY <1>0 DEF Types
  <2>4. /\ tasks[i].pages # {} /\ ~tasks[i].ok
        /\ tasks[i].attempt + 1 \in 0..2 /\ tasks[i].attempt + 1 # 0
    BY <1>0, <1>a, <2>1 DEF Placed, ATask
  <2> HIDE DEF a
  <2>5. /\ actors' \in Seq(AnActor) /\ DOMAIN actors' = DOMAIN actors \cup {n}
        /\ actors'[n] = a /\ \A x \in DOMAIN actors : actors'[x] = actors[x]
    BY <1>0, <2>1, <2>2 DEF Types
  <2> HIDE DEF n
  <2>6. t \in ATask
    <3>1. "starting" \in Places
      BY DEF Places
    <3> QED
      BY <1>0, <1>a, <2>3, <2>4, <3>1 DEF ATask
  <2>7. /\ t.pages # {} /\ ~t.ok /\ t.at = "starting" /\ t.attempt # 0 /\ t.cur = n
        /\ t.attached = tasks[i].attached /\ t.pages = tasks[i].pages /\ a.pages = tasks[i].pages
    BY <1>0, <2>4 DEF ATask, a
  <2> HIDE DEF t
  <2>8. /\ tasks' \in Seq(ATask) /\ Tasks' = Tasks
        /\ tasks'[i] = t /\ \A j \in Tasks : j # i => tasks'[j] = tasks[j]
    BY <1>0, <2>1, <2>6, BecomeIs
  <2>9. Types'
    BY <1>0, <2>1, <2>5, <2>8 DEF Types
  <2>10. Known'
    BY <1>0, <2>1, <2>2, <2>5 DEF Known, Rows
  <2>11. ASSUME NEW j \in Tasks PROVE Placed(tasks[j])'
    <3>1. CASE j = i
      BY <1>0, <2>1, <2>3, <2>5, <2>7, <2>8, <3>1 DEF Placed, Rows, None
    <3>2. CASE j # i
      <4>1. Placed(tasks[j]) /\ tasks'[j] = tasks[j]
        BY <2>8, <3>2 DEF TypeInv
      <4> QED
        BY <2>1, <2>5, <4>1 DEF Placed, Rows
    <3> QED
      BY <3>1, <3>2
  <2> QED
    BY <2>1, <2>8, <2>9, <2>10, <2>11 DEF TypeInv
<1>3. CASE StartFails(i)
  <2>1. PICK retry \in BOOLEAN :
           Become(i, AfterFailure([tasks[i] EXCEPT !.attempt = @ + 1, !.cur = None, !.retry = retry]))
    BY <1>3 DEF StartFails
  <2> DEFINE u == [tasks[i] EXCEPT !.attempt = @ + 1, !.cur = None, !.retry = retry]
             t == AfterFailure(u)
  <2>2. worker = "up" /\ tasks[i].at = "attempting"
    BY <1>3 DEF StartFails, At
  <2>3. u \in ATask /\ u.pages # {} /\ ~u.ok /\ u.cur = None /\ u.attached = tasks[i].attached
    <3>1. tasks[i].pages # {} /\ ~tasks[i].ok /\ tasks[i].attempt < 2
      BY <1>0, <1>a, <2>2 DEF Placed
    <3>2. tasks[i].attempt + 1 \in 0..2 /\ None \in Nat
      BY <1>0, <1>a, <3>1 DEF ATask, None
    <3> QED
      BY <1>0, <1>a, <3>1, <3>2 DEF ATask
  <2>4. Become(i, t)
    BY <2>1
  <2> HIDE DEF u
  <2>5. t \in ATask /\ Placed(t)
    BY <1>0, <2>3, AfterFailurePlaced DEF Placed
  <2>6. faults' \in FaultsSoFar
    BY <1>0, <1>3, FaultTyped DEF StartFails, FaultsSoFar
  <2> HIDE DEF t
  <2> QED
    BY <1>3, <1>b, <2>2, <2>4, <2>5, <2>6, QuietMove DEF StartFails, apify, database
<1>4. CASE RecordRun(i)
  <2> DEFINE r == [id |-> tasks[i].cur, pages |-> tasks[i].pages,
                   attempt |-> tasks[i].attempt, outcome |-> "none"]
             t == [tasks[i] EXCEPT !.at = "polling"]
             n == Len(recorded) + 1
  <2>1. worker = "up" /\ tasks[i].at = "starting" /\ Become(i, t)
    BY <1>4 DEF RecordRun, At
  <2>2. t \in ATask
    <3>1. "polling" \in Places
      BY DEF Places
    <3> QED
      BY <1>0, <3>1 DEF ATask
  <2>3. Placed(t)
    BY <1>0, <2>1 DEF Placed, ATask
  <2>4. /\ r \in ARecord /\ r.id \in DOMAIN actors /\ r.pages = actors[r.id].pages
    <3>1. /\ tasks[i].cur \in DOMAIN actors /\ tasks[i].attempt \in 1..2
          /\ tasks[i].pages = actors[tasks[i].cur].pages
      BY <1>0, <1>a, <2>1 DEF Placed, ATask
    <3>2. tasks[i].cur \in Nat /\ tasks[i].pages \in SUBSET Pages
      BY <1>0 DEF ATask
    <3> QED
      BY <1>a, <3>1, <3>2 DEF ARecord
  <2> HIDE DEF t
  <2>5. conn' \in {"ok", "aborted", "dead"} /\ faults' \in FaultsSoFar
    BY <1>0, <1>4, ConnTyped DEF RecordRun, FaultsSoFar
  <2>6. CASE UNCHANGED recorded
    BY <1>4, <1>b, <2>1, <2>2, <2>3, <2>5, <2>6, QuietMove DEF RecordRun, apify
  <2>7. CASE recorded' = Append(recorded, r)
    <3> HIDE DEF r
    <3>1. /\ recorded' \in Seq(ARecord) /\ Rows' = Rows \cup {n}
          /\ recorded'[n] = r /\ \A k \in Rows : recorded'[k] = recorded[k]
      BY <1>0, <2>4, <2>7 DEF Types, Rows
    <3> HIDE DEF n
    <3>2. /\ tasks' \in Seq(ATask) /\ Tasks' = Tasks
          /\ tasks'[i] = t /\ \A j \in Tasks : j # i => tasks'[j] = tasks[j]
      BY <1>0, <2>1, <2>2, BecomeIs
    <3>3. UNCHANGED <<actors, row, stored, gone, tracked, worker, holder, mem>>
      BY <1>4 DEF RecordRun, apify
    <3>4. Types'
      BY <1>0, <2>5, <3>1, <3>2, <3>3 DEF Types, FaultsSoFar
    <3>5. Known'
      BY <1>0, <2>4, <3>1, <3>3 DEF Known
    <3>6. ASSUME NEW j \in Tasks PROVE Placed(tasks[j])'
      <4>1. Placed(tasks[j]) /\ Placed(t)
        BY <2>3 DEF TypeInv
      <4>2. CASE j = i
        BY <3>1, <3>2, <3>3, <4>1, <4>2 DEF Placed
      <4>3. CASE j # i
        <5>1. tasks'[j] = tasks[j]
          BY <3>2, <4>3
        <5> QED
          BY <3>1, <3>3, <4>1, <5>1 DEF Placed
      <4> QED
        BY <4>2, <4>3
    <3> QED
      BY <2>1, <3>2, <3>3, <3>4, <3>5, <3>6 DEF TypeInv
  <2> QED
    BY <1>4, <2>6, <2>7 DEF RecordRun
<1>5. CASE LoseAnswer(i) \/ PollFails(i)
  <2>1. PICK u \in {[tasks[i] EXCEPT !.cur = None]} \cup {[tasks[i] EXCEPT !.retry = retry] : retry \in BOOLEAN} :
           Become(i, AfterFailure(u))
    BY <1>5 DEF LoseAnswer, PollFails
  <2> DEFINE t == AfterFailure(u)
  <2>2. worker = "up" /\ tasks[i].at \in {"starting", "polling"} /\ ~tasks[i].ok
    BY <1>0, <1>5 DEF LoseAnswer, PollFails, At, Placed
  <2>3. u \in ATask /\ u.pages # {} /\ ~u.ok /\ u.cur \in {tasks[i].cur, None} /\ u.attached = tasks[i].attached
    BY <1>0, <2>2 DEF ATask, Placed, None
  <2>4. t \in ATask /\ Placed(t)
    BY <1>0, <2>3, AfterFailurePlaced DEF Placed
  <2>5. faults' \in FaultsSoFar
    BY <1>0, <1>5, FaultTyped DEF LoseAnswer, PollFails, FaultsSoFar
  <2> HIDE DEF t
  <2> QED
    BY <1>5, <1>b, <2>1, <2>2, <2>4, <2>5, QuietMove DEF LoseAnswer, PollFails, apify, database, t
<1>6. CASE Follow(i)
  <2>1. worker = "up" /\ tasks[i].at = "attempting" /\ ~tasks[i].ok /\ tasks[i].attached # None
    BY <1>0, <1>6 DEF Follow, At, Placed, Follows
  <2>2. tasks[i].attempt + 1 \in 0..2
    BY <1>0, <1>a, <2>1 DEF ATask, Placed
  <2>3. UNCHANGED <<actors, recorded, row, stored, gone, tracked, worker, holder, mem, conn>>
    BY <1>6 DEF Follow, apify, database
  <2>4. CASE /\ Become(i, [tasks[i] EXCEPT !.at = "polling", !.attempt = @ + 1,
                                          !.cur = tasks[i].attached])
             /\ UNCHANGED faults
    <3> DEFINE t == [tasks[i] EXCEPT !.at = "polling", !.attempt = @ + 1, !.cur = tasks[i].attached]
    <3>1. t \in ATask
      <4>1. "polling" \in Places
        BY DEF Places
      <4> QED
        BY <1>0, <1>a, <2>2, <4>1 DEF ATask
    <3>2. tasks[i].attached \in DOMAIN actors
      BY <1>0, <2>1 DEF Placed, Known
    <3>3. Placed(t)
      BY <1>0, <2>1, <3>2 DEF Placed, ATask
    <3> HIDE DEF t
    <3> QED
      BY <1>b, <2>1, <2>3, <2>4, <3>1, <3>3, QuietMove DEF t
  <2>5. ASSUME CallFails, NEW retry \in BOOLEAN,
               Become(i, AfterFailure([tasks[i] EXCEPT !.attempt = @ + 1, !.cur = None, !.retry = retry]))
        PROVE  TypeInv'
    <3> DEFINE u == [tasks[i] EXCEPT !.attempt = @ + 1, !.cur = None, !.retry = retry]
               t == AfterFailure(u)
    <3>1. u \in ATask /\ u.pages = tasks[i].pages /\ ~u.ok /\ u.cur = None /\ u.attached = tasks[i].attached
      BY <1>0, <1>a, <2>1, <2>2 DEF ATask, None
    <3> HIDE DEF u
    <3>2. t \in ATask /\ Placed(t)
      BY <1>0, <3>1, AfterFailurePlaced DEF Placed
    <3>3. faults' \in FaultsSoFar
      BY <1>0, <2>5, FaultTyped DEF FaultsSoFar
    <3>4. Become(i, t)
      BY <2>5 DEF u
    <3> HIDE DEF t
    <3> QED
      BY <1>b, <2>1, <2>3, <3>2, <3>3, <3>4, QuietMove
  <2> QED
    BY <1>6, <2>4, <2>5 DEF Follow
<1>7. CASE Watch(i) \/ SeeEnd(i)
  <2>1. worker = "up" /\ tasks[i].at = "polling" /\ ~tasks[i].ok
    BY <1>0, <1>7 DEF Watch, SeeEnd, At, Placed
  <2>2. UNCHANGED <<actors, recorded, stored, gone, tracked, worker, mem>>
    BY <1>7 DEF Watch, SeeEnd, apify
  <2>3. conn' \in {"ok", "aborted", "dead"} /\ faults' \in FaultsSoFar
    BY <1>0, <1>7, ConnTyped DEF Watch, SeeEnd, FaultsSoFar, StatementFails
  <2>4. row' \in Row
    BY <1>0, <1>7, <1>b, BeatenTyped DEF Watch, SeeEnd, Row
  <2>5. ASSUME Raise(i) PROVE holder' \in {None} \cup Tasks /\ RaisedFrom(i)
    BY <1>0, <1>b, <2>5, RaiseIs
  <2>6. holder' \in {None} \cup Tasks
    BY <1>7, <1>b, <2>5 DEF Watch, SeeEnd
  <2>7. \E u \in ATask : Become(i, u) /\ Placed(u)
    <3>1. CASE UNCHANGED tasks
      <4>1. Become(i, tasks[i])
        BY <1>0, <3>1 DEF Become, Types
      <4> QED
        BY <1>0, <4>1
    <3>2. ASSUME NEW r \in BOOLEAN, Become(i, AfterFailure([tasks[i] EXCEPT !.retry = r]))
          PROVE  \E u \in ATask : Become(i, u) /\ Placed(u)
      <4> DEFINE u == [tasks[i] EXCEPT !.retry = r]
      <4>1. u \in ATask /\ u.pages # {} /\ ~u.ok /\ u.cur = tasks[i].cur /\ u.attached = tasks[i].attached
        BY <1>0, <2>1 DEF ATask, Placed
      <4>2. Become(i, AfterFailure(u))
        BY <3>2
      <4> HIDE DEF u
      <4>3. AfterFailure(u) \in ATask /\ Placed(AfterFailure(u))
        BY <1>0, <4>1, AfterFailurePlaced DEF Placed
      <4> QED
        BY <4>2, <4>3
    <3>3. ASSUME Become(i, AfterFailure(tasks[i]))
          PROVE  \E u \in ATask : Become(i, u) /\ Placed(u)
      <4>1. AfterFailure(tasks[i]) \in ATask /\ Placed(AfterFailure(tasks[i]))
        BY <1>0, <2>1, AfterFailurePlaced DEF Placed
      <4> QED
        BY <3>3, <4>1
    <3>4. ASSUME Become(i, [tasks[i] EXCEPT !.at = "waiting", !.ok = TRUE])
          PROVE  \E u \in ATask : Become(i, u) /\ Placed(u)
      <4> DEFINE u == [tasks[i] EXCEPT !.at = "waiting", !.ok = TRUE]
      <4>1. u \in ATask
        <5>1. "waiting" \in Places
          BY DEF Places
        <5> QED
          BY <1>0, <5>1 DEF ATask
      <4>2. Placed(u)
        BY <1>0, <2>1 DEF Placed, ATask
      <4> QED
        BY <3>4, <4>1, <4>2
    <3>5. CASE Raise(i)
      BY <2>5, <3>5 DEF RaisedFrom
    <3>6. CASE Watch(i)
      BY <3>1, <3>3, <3>6 DEF Watch
    <3>7. CASE SeeEnd(i)
      BY <3>2, <3>3, <3>4, <3>5, <3>7 DEF SeeEnd
    <3> QED
      BY <1>7, <3>6, <3>7
  <2> QED
    BY <1>b, <2>1, <2>2, <2>3, <2>4, <2>6, <2>7, QuietMove
<1>8. CASE AbortRun(i)
  <2> DEFINE c == tasks[i].cur
             a == [actors[c] EXCEPT !.status = "FAILED"]
  <2>1. c \in DOMAIN actors /\ actors' = [actors EXCEPT ![c].status = "FAILED"]
    BY <1>0, <1>8 DEF AbortRun, At, Placed
  <2>2. a \in AnActor /\ a.pages = actors[c].pages /\ a.data = actors[c].data
    <3>1. actors[c] \in AnActor
      BY <1>0, <2>1 DEF Types
    <3> QED
      BY <3>1 DEF AnActor
  <2>3. actors' = [actors EXCEPT ![c] = a] /\ a.data \subseteq AdsOfBatch(a.pages)
    BY <1>0, <2>1, <2>2 DEF Known
  <2> HIDE DEF a, c
  <2>4. UNCHANGED <<database, tracked, worker, memory, faults>>
    BY <1>8 DEF AbortRun
  <2> QED
    BY <2>1, <2>2, <2>3, <2>4, ActorEnds
<1> QED
  BY <1>1, <1>2, <1>3, <1>4, <1>5, <1>6, <1>7, <1>8

\* A move of a Batch within its places.
LEMMA PutAt ==
    ASSUME NEW t \in ATask, NEW place \in Places, NEW ads \in SUBSET AllAds,
           NEW ok \in BOOLEAN, NEW complete \in BOOLEAN
    PROVE  /\ [t EXCEPT !.at = place, !.unread = ads] \in ATask
           /\ [t EXCEPT !.at = place] \in ATask
           /\ [t EXCEPT !.unread = ads] \in ATask
           /\ [t EXCEPT !.at = place, !.complete = complete] \in ATask
           /\ [t EXCEPT !.at = place, !.ok = ok, !.complete = complete] \in ATask
BY DEF ATask

\* A Batch that moves on while storing keeps its Actor runs.
LEMMA MovedOn ==
    ASSUME NEW i \in Tasks, tasks[i] \in ATask, Placed(tasks[i]), NEW place \in Places,
           \/ place \in {"failing", "closing", "concluding", "done"}
           \/ place \in {"saving", "counting"} /\ tasks[i].at \in {"saving", "counting"},
           NEW ads \in SUBSET AllAds, NEW ok \in BOOLEAN, NEW complete \in BOOLEAN,
           NEW u, u \in { [tasks[i] EXCEPT !.at = place],
                          [tasks[i] EXCEPT !.at = place, !.unread = ads],
                          [tasks[i] EXCEPT !.at = place, !.complete = complete],
                          [tasks[i] EXCEPT !.at = place, !.ok = ok, !.complete = complete]}
    PROVE  u \in ATask /\ Placed(u)
<1>1. u \in ATask
  BY DEF ATask
<1>2. /\ u.at = place /\ u.pages = tasks[i].pages /\ u.cur = tasks[i].cur
      /\ u.attached = tasks[i].attached
  BY DEF ATask
<1> QED
  BY <1>1, <1>2 DEF Placed

\* The rows once an Actor run is concluded.
Concluded(last, outcome) ==
    [k \in Rows |-> IF recorded[k].id = last THEN [recorded[k] EXCEPT !.outcome = outcome]
                   ELSE recorded[k]]

\* Concluding an Actor run changes outcomes only.
LEMMA RowsConcluded ==
    ASSUME Types, NEW last, NEW outcome \in {"none", "stored", "failed"},
           recorded' = Concluded(last, outcome) \/ UNCHANGED recorded
    PROVE  /\ recorded' \in Seq(ARecord) /\ Rows' = Rows
           /\ \A k \in Rows : /\ recorded'[k].id = recorded[k].id
                              /\ recorded'[k].pages = recorded[k].pages
                              /\ recorded'[k].attempt = recorded[k].attempt
<1>1. Rows = 1..Len(recorded) /\ Len(recorded) \in Nat /\ \A k \in Rows : recorded[k] \in ARecord
  BY DEF Types, Rows
<1>2. CASE UNCHANGED recorded
  BY <1>1, <1>2 DEF Types, Rows
<1>3. CASE ~UNCHANGED recorded
  <2> DEFINE new(k) == IF recorded[k].id = last THEN [recorded[k] EXCEPT !.outcome = outcome] ELSE recorded[k]
  <2>1. \A k \in Rows : /\ new(k) \in ARecord /\ new(k).id = recorded[k].id
                        /\ new(k).pages = recorded[k].pages /\ new(k).attempt = recorded[k].attempt
    BY <1>1 DEF ARecord
  <2>2. recorded' = [k \in Rows |-> new(k)]
    BY <1>3 DEF Concluded
  <2> HIDE DEF new
  <2>3. recorded' \in [1..Len(recorded) -> ARecord] /\ DOMAIN recorded' = 1..Len(recorded)
    BY <1>1, <2>1, <2>2
  <2>4. recorded' \in Seq(ARecord)
    BY <1>1, <2>3
  <2> QED
    BY <1>1, <2>1, <2>2, <2>3, <2>4 DEF Rows
<1> QED
  BY <1>2, <1>3

\* The steps that store keep the types.
LEMMA StoringTyped ==
    ASSUME TypeInv, NEW i \in Tasks,
           \/ TakeStoreLock(i) \/ CountAd(i) \/ ReadFails(i) \/ ReadEverything(i)
           \/ FailPages(i) \/ FinishPages(i) \/ Conclude(i)
           \/ \E ad \in AllAds : StoreAd(i, ad)
    PROVE  TypeInv'
<1>0. Types /\ Known /\ tasks[i] \in ATask /\ Placed(tasks[i])
  BY DEF TypeInv, Types, Tasks
<1>b. /\ row \in Row /\ stored \in SUBSET AllAds /\ gone \in SUBSET AllAds
      /\ holder \in {None} \cup Tasks /\ mem \in Progress
      /\ conn \in {"ok", "aborted", "dead"} /\ faults \in FaultsSoFar
  BY <1>0 DEF Types, Row, FaultsSoFar
<1>c. {"saving", "failing", "counting", "closing", "concluding", "done"} \subseteq Places
  BY DEF Places
<1>1. CASE TakeStoreLock(i)
  <2>1. worker = "up" /\ tasks[i].at = "waiting"
    BY <1>1 DEF TakeStoreLock, At
  <2>2. UNCHANGED <<actors, recorded, stored, gone, tracked, worker, mem>>
    BY <1>1 DEF TakeStoreLock, apify
  <2>3. row' \in Row
    BY <1>0, <1>1, <1>b, BeatenTyped DEF TakeStoreLock, Row
  <2>4. conn' \in {"ok", "aborted", "dead"} /\ faults' \in FaultsSoFar
    BY <1>0, <1>1, <1>b, ConnTyped DEF TakeStoreLock, FaultsSoFar, StatementFails
  <2>5. holder' \in {None} \cup Tasks
    BY <1>1, RaiseIs DEF TakeStoreLock
  <2>6. \E u \in ATask : Become(i, u) /\ Placed(u)
    <3>1. ASSUME tasks[i].ok, Become(i, [tasks[i] EXCEPT !.at = "saving", !.unread = actors[tasks[i].cur].data])
          PROVE  \E u \in ATask : Become(i, u) /\ Placed(u)
      <4> DEFINE u == [tasks[i] EXCEPT !.at = "saving", !.unread = actors[tasks[i].cur].data]
      <4>1. tasks[i].cur # None /\ tasks[i].cur \in DOMAIN actors
        BY <1>0, <2>1, <3>1 DEF Placed
      <4>2. actors[tasks[i].cur].data \in SUBSET AllAds
        <5>1. actors[tasks[i].cur] \in AnActor
          BY <1>0, <4>1 DEF Types
        <5> QED
          BY <5>1 DEF AnActor
      <4>3. u \in ATask
        BY <1>0, <1>c, <4>2, PutAt
      <4>4. Placed(u)
        BY <1>0, <4>1 DEF Placed, ATask
      <4> QED
        BY <3>1, <4>3, <4>4
    <3>2. ASSUME Become(i, [tasks[i] EXCEPT !.at = "failing"])
          PROVE  \E u \in ATask : Become(i, u) /\ Placed(u)
      BY <1>0, <1>c, <3>2, PutAt, MovedOn
    <3>3. CASE Raise(i)
      BY <3>3, RaiseIs DEF RaisedFrom
    <3> QED
      BY <1>1, <3>1, <3>2, <3>3 DEF TakeStoreLock
  <2> QED
    BY <1>b, <2>1, <2>2, <2>3, <2>4, <2>5, <2>6, QuietMove
<1>2. CASE CountAd(i) \/ ReadFails(i) \/ ReadEverything(i) \/ \E ad \in AllAds : StoreAd(i, ad)
  <2>1. worker = "up" /\ tasks[i].at \in {"saving", "counting"}
    BY <1>2 DEF CountAd, ReadFails, ReadEverything, StoreAd, At
  <2>2. UNCHANGED <<actors, recorded, gone, tracked, worker, holder>>
    BY <1>2 DEF CountAd, ReadFails, ReadEverything, StoreAd, apify, database
  <2>3. row' \in Row
    BY <1>0, <1>2, <1>b, BeatenTyped DEF CountAd, ReadFails, ReadEverything, StoreAd, Row, database
  <2>4. conn' \in {"ok", "aborted", "dead"} /\ faults' \in FaultsSoFar
    <3>1. \/ StatementWorks
          \/ Fails("db")
          \/ UNCHANGED conn /\ (Fault("read") \/ Fault("summary"))
          \/ UNCHANGED faults /\ conn' \in {conn, "aborted"}
      <4>1. CASE CountAd(i)
        BY <4>1 DEF CountAd, StatementFails
      <4>2. CASE ReadFails(i)
        BY <4>2 DEF ReadFails
      <4>3. CASE ReadEverything(i)
        <5>1. UNCHANGED conn /\ (UNCHANGED faults \/ Fault("summary"))
          BY <4>3 DEF ReadEverything
        <5> QED
          BY <5>1
      <4>4. ASSUME NEW ad \in AllAds, StoreAd(i, ad)
            PROVE  \/ StatementWorks \/ Fails("db")
                   \/ UNCHANGED faults /\ conn' \in {conn, "aborted"}
        BY <4>4 DEF StoreAd, StatementFails
      <4> QED
        BY <1>2, <4>1, <4>2, <4>3, <4>4
    <3> QED
      BY <1>0, <1>b, <3>1, ConnTyped, FaultTyped DEF FaultsSoFar
  <2>5. stored' \in SUBSET AllAds /\ mem' \in Progress
    <3>1. \A ad \in AllAds : Counted(ad) \in Nat
      BY DEF Counted
    <3>2. mem' = mem \/ \E ad \in AllAds : mem' = [mem EXCEPT !.total = @ + Counted(ad)]
      BY <1>2 DEF CountAd, ReadFails, ReadEverything, StoreAd
    <3>3. mem' \in Progress
      BY <1>b, <3>1, <3>2 DEF Progress
    <3>4. stored' = stored \/ \E ad \in AllAds : stored' = stored \cup {ad}
      BY <1>2 DEF CountAd, ReadFails, ReadEverything, StoreAd, database
    <3> QED
      BY <1>b, <3>3, <3>4
  <2>6. \E u \in ATask : Become(i, u) /\ Placed(u)
    <3>1. tasks[i].unread \in SUBSET AllAds
      BY <1>0 DEF ATask
    <3>2. \E place \in {"saving", "counting", "failing", "closing"}, ads \in SUBSET AllAds, complete \in BOOLEAN :
             \E u \in { [tasks[i] EXCEPT !.at = place],
                        [tasks[i] EXCEPT !.at = place, !.unread = ads],
                        [tasks[i] EXCEPT !.at = place, !.complete = complete]} : Become(i, u)
      <4>1. CASE CountAd(i) \/ ReadFails(i)
        BY <4>1 DEF CountAd, ReadFails
      <4>2. CASE ReadEverything(i)
        <5>1. \E complete \in BOOLEAN : Become(i, [tasks[i] EXCEPT !.at = "closing", !.complete = complete])
          BY <4>2 DEF ReadEverything
        <5> QED
          BY <5>1
      <4>3. ASSUME NEW ad \in AllAds, StoreAd(i, ad)
            PROVE  \/ Become(i, [tasks[i] EXCEPT !.at = "counting", !.unread = @ \ {ad}])
                   \/ Become(i, [tasks[i] EXCEPT !.at = "failing"])
                   \/ Become(i, [tasks[i] EXCEPT !.at = "saving", !.unread = @ \ {ad}])
        <5>1. tasks[i].at = "saving"
          BY <4>3 DEF StoreAd, At
        <5>2. [tasks[i] EXCEPT !.unread = @ \ {ad}] = [tasks[i] EXCEPT !.at = "saving", !.unread = @ \ {ad}]
          BY <1>0, <5>1 DEF ATask
        <5> QED
          BY <4>3, <5>2 DEF StoreAd
      <4>4. ASSUME NEW ad \in AllAds, StoreAd(i, ad)
            PROVE  \E place \in {"saving", "counting", "failing"}, ads \in SUBSET AllAds :
                      \/ Become(i, [tasks[i] EXCEPT !.at = place])
                      \/ Become(i, [tasks[i] EXCEPT !.at = place, !.unread = ads])
        <5>1. tasks[i].unread \ {ad} \in SUBSET AllAds
          BY <3>1
        <5> QED
          BY <4>3, <4>4, <5>1
      <4> QED
        BY <1>2, <4>1, <4>2, <4>4
    <3>3. PICK place \in {"saving", "counting", "failing", "closing"}, ads \in SUBSET AllAds, complete \in BOOLEAN :
             \E u \in { [tasks[i] EXCEPT !.at = place],
                        [tasks[i] EXCEPT !.at = place, !.unread = ads],
                        [tasks[i] EXCEPT !.at = place, !.complete = complete]} : Become(i, u)
      BY <3>2
    <3>4. PICK u \in { [tasks[i] EXCEPT !.at = place],
                       [tasks[i] EXCEPT !.at = place, !.unread = ads],
                       [tasks[i] EXCEPT !.at = place, !.complete = complete]} : Become(i, u)
      BY <3>3
    <3>5. u \in ATask /\ Placed(u)
      <4>1. place \in Places
        BY <1>c
      <4>2. u \in ATask
        BY <1>0, <4>1 DEF ATask
      <4>3. /\ u.at = place /\ u.pages = tasks[i].pages /\ u.cur = tasks[i].cur
            /\ u.attached = tasks[i].attached
        BY <1>0 DEF ATask
      <4> HIDE <3>4
      <4> QED
        BY <1>0, <2>1, <4>2, <4>3 DEF Placed
    <3> QED
      BY <3>4, <3>5
  <2>7. holder' \in {None} \cup Tasks /\ gone' \in SUBSET AllAds
    BY <1>b, <2>2
  <2> QED
    BY <2>1, <2>2, <2>3, <2>4, <2>5, <2>6, <2>7, QuietMove
<1>3. CASE FailPages(i)
  <2> DEFINE u == [tasks[i] EXCEPT !.at = "closing", !.ok = FALSE, !.complete = FALSE]
  <2>1. worker = "up" /\ Become(i, u) /\ UNCHANGED <<actors, recorded, row, stored, gone, tracked, worker, holder, faults>>
    BY <1>3 DEF FailPages, At, apify, database
  <2>2. u \in ATask /\ Placed(u)
    BY <1>0, <1>c, MovedOn
  <2>3. mem' \in Progress
    <3>1. Cardinality(tasks[i].pages) \in Nat
      BY <1>0, FinitePages DEF ATask
    <3> QED
      BY <1>3, <1>b, <3>1 DEF FailPages, Progress
  <2>4. conn' \in {"ok", "aborted", "dead"}
    BY <1>3, <1>b DEF FailPages
  <2> HIDE DEF u
  <2> QED
    BY <1>b, <2>1, <2>2, <2>3, <2>4, QuietMove
<1>4. CASE FinishPages(i)
  <2>1. worker = "up" /\ UNCHANGED <<actors, recorded, stored, tracked, worker>>
    BY <1>4 DEF FinishPages, At, apify
  <2>2. tasks[i].pages \in SUBSET Pages /\ Cardinality(tasks[i].pages) \in Nat
    BY <1>0, FinitePages DEF ATask
  <2>3. mem' \in Progress
    <3>1. mem' = mem \/ mem' = [mem EXCEPT !.done = @ + Cardinality(tasks[i].pages)]
      BY <1>4 DEF FinishPages
    <3> QED
      BY <1>b, <2>2, <3>1 DEF Progress
  <2>4. row' \in Row
    <3>1. row' = row \/ row' = Beaten(mem')
      BY <1>4 DEF FinishPages
    <3> QED
      BY <1>0, <1>b, <2>3, <3>1, BeatenTyped DEF Row
  <2>5. gone' \in SUBSET AllAds
    <3>1. \E Q \in SUBSET tasks[i].pages : gone' = gone \/ gone' = gone \cup (AdsOfBatch(Q \cap tracked) \ stored)
      BY <1>4 DEF FinishPages
    <3>2. \A Q \in SUBSET tasks[i].pages : AdsOfBatch(Q \cap tracked) \subseteq AllAds
      BY <2>2 DEF AdsOfBatch, AllAds
    <3> QED
      BY <1>b, <3>1, <3>2
  <2>6. conn' \in {"ok", "aborted", "dead"} /\ faults' \in FaultsSoFar
    BY <1>0, <1>4, ConnTyped DEF FinishPages, StatementFails, FaultsSoFar
  <2>7. holder' \in {None} \cup Tasks
    BY <1>4, <1>b, RaiseIs DEF FinishPages
  <2>8. \E u \in ATask : Become(i, u) /\ Placed(u)
    <3> DEFINE u == [tasks[i] EXCEPT !.at = "concluding"]
    <3>1. u \in ATask /\ Placed(u)
      BY <1>0, <1>c, MovedOn
    <3>2. Become(i, u) \/ Raise(i)
      BY <1>4 DEF FinishPages
    <3> QED
      BY <3>1, <3>2, RaiseIs DEF RaisedFrom
  <2> QED
    BY <1>b, <2>1, <2>3, <2>4, <2>5, <2>6, <2>7, <2>8, QuietMove
<1>5. CASE Conclude(i)
  <2> DEFINE u == [tasks[i] EXCEPT !.at = "done"]
             outcome == IF tasks[i].ok THEN "stored" ELSE "failed"
             last == IF tasks[i].cur # None THEN tasks[i].cur ELSE tasks[i].attached
  <2>1. /\ worker = "up" /\ Become(i, u) /\ holder' = None
        /\ UNCHANGED <<actors, row, stored, gone, tracked, worker, mem>>
    BY <1>5 DEF Conclude, At, apify
  <2>2. u \in ATask /\ Placed(u)
    BY <1>0, <1>c, MovedOn
  <2>3. conn' \in {"ok", "aborted", "dead"} /\ faults' \in FaultsSoFar
    BY <1>0, <1>5, <1>b, ConnTyped DEF Conclude, StatementFails, FaultsSoFar
  <2>4. recorded' \in Seq(ARecord) /\ Rows' = Rows
        /\ \A k \in Rows : recorded'[k].id = recorded[k].id /\ recorded'[k].pages = recorded[k].pages
    <3>1. recorded' = Concluded(last, outcome) \/ UNCHANGED recorded
      BY <1>5 DEF Conclude, Concluded
    <3>2. outcome \in {"none", "stored", "failed"}
      OBVIOUS
    <3> HIDE DEF last, outcome
    <3> QED
      BY <1>0, <3>1, <3>2, RowsConcluded
  <2> HIDE DEF u
  <2>5. /\ tasks' \in Seq(ATask) /\ Tasks' = Tasks
        /\ tasks'[i] = u /\ \A j \in Tasks : j # i => tasks'[j] = tasks[j]
    BY <1>0, <2>1, <2>2, BecomeIs
  <2>6. Types'
    BY <1>0, <2>1, <2>3, <2>4, <2>5 DEF Types, FaultsSoFar
  <2>7. Known'
    BY <1>0, <2>1, <2>4 DEF Known
  <2>8. ASSUME NEW j \in Tasks PROVE Placed(tasks[j])'
    <3>1. Placed(tasks[j]) /\ (j = i \/ tasks'[j] = tasks[j])
      BY <2>5 DEF TypeInv
    <3> QED
      BY <2>1, <2>2, <2>4, <2>5, <3>1 DEF Placed
  <2> QED
    BY <2>1, <2>5, <2>6, <2>7, <2>8 DEF TypeInv
<1> QED
  BY <1>1, <1>2, <1>3, <1>4, <1>5

\* The worker's memory is gone, or replaced by what it plans.
LEMMA NewPlan ==
    ASSUME TypeInv, UNCHANGED <<actors, recorded, stored, gone, tracked>>,
           tasks' \in Seq(ATask), \A j \in Tasks' : Placed(tasks[j])',
           holder' = None, worker' \in {"up", "closing", "down"},
           mem' \in Progress, row' \in Row, conn' \in {"ok", "aborted", "dead"},
           faults' \in FaultsSoFar
    PROVE  TypeInv'
BY DEF TypeInv, Types, Known, Rows, Row, FaultsSoFar

\* A worker that is down has no Batches.
LEMMA NoPlan ==
    /\ <<>> \in Seq(ATask) /\ DOMAIN <<>> = {}
    /\ [errors |-> 0, total |-> 0, done |-> 0] \in Progress
BY DEF Progress

\* A run closed as interrupted is typed.
LEMMA InterruptedTyped ==
    ASSUME row \in Row
    PROVE  Interrupted \in Row /\ Interrupted.open = FALSE
<1>1. row.errors + 1 \in Nat /\ FALSE \in BOOLEAN
  BY DEF Row
<1> QED
  BY <1>1 DEF Interrupted, Row

\* A Batch that waits for a slot has its place.
LEMMA QueuedPlaced ==
    ASSUME NEW t, t.pages # {}, t.at = "queued", ~t.ok, t.cur = None,
           t.attached = None \/ \E k \in Rows : recorded[k].id = t.attached
    PROVE  Placed(t)
BY DEF Placed

\* A worker that goes down keeps the types.
LEMMA DownTyped ==
    ASSUME TypeInv, Crash \/ Stop
    PROVE  TypeInv'
<1>1. UNCHANGED <<actors, recorded, stored, gone, tracked>>
  BY DEF Crash, Stop, apify, database
<1>2. tasks' = <<>> /\ holder' = None /\ worker' = "down" /\ mem' \in Progress /\ conn' = "ok"
  BY NoPlan DEF Crash, Stop, Down
<1>3. Types /\ row \in Row
  BY DEF TypeInv, Types, Row
<1>4. Interrupted \in Row
  BY <1>3, InterruptedTyped
<1>5. row' \in Row
  BY <1>3, <1>4 DEF Crash, Stop, database
<1>6. faults' \in FaultsSoFar
  BY <1>3, FaultTyped DEF Crash, Stop, MayDie, FaultsSoFar
<1>7. tasks' \in Seq(ATask) /\ Tasks' = {}
  BY <1>2, NoPlan DEF Tasks
<1> QED
  BY <1>1, <1>2, <1>5, <1>6, <1>7, NewPlan

\* The steps of the run as a whole keep the types.
LEMMA RunTyped ==
    ASSUME TypeInv, Collected \/ CollectorFails \/ FinishRun \/ NextWorker
    PROVE  TypeInv'
<1>0. Types /\ row \in Row /\ mem \in Progress /\ faults \in FaultsSoFar
      /\ holder \in {None} \cup Tasks /\ \A j \in Tasks : Placed(tasks[j])
  BY DEF TypeInv, Types, Row, FaultsSoFar
<1>1. CASE Collected
  <2>1. worker' = "closing" /\ UNCHANGED <<actors, recorded, row, stored, gone, tracked, tasks, holder, mem, conn, faults>>
    BY <1>1 DEF Collected, apify, database, memory
  <2> QED
    BY <2>1 DEF TypeInv, Types, Known, Placed, Rows, Tasks
<1>2. CASE CollectorFails
  <2>1. UNCHANGED <<actors, recorded, row, stored, gone, tracked, conn, faults>>
    BY <1>2 DEF CollectorFails, apify, database
  <2>2. tasks' = <<>> /\ holder' = None /\ worker' = "closing"
    BY <1>2 DEF CollectorFails
  <2>3. mem' \in Progress
    BY <1>0, <1>2 DEF CollectorFails, Progress
  <2>4. tasks' \in Seq(ATask) /\ Tasks' = {}
    BY <2>2, NoPlan DEF Tasks
  <2>5. conn' \in {"ok", "aborted", "dead"}
    BY <1>0, <2>1 DEF Types
  <2> QED
    BY <1>0, <2>1, <2>2, <2>3, <2>4, <2>5, NewPlan
<1>3. CASE FinishRun
  <2>1. UNCHANGED <<actors, recorded, stored, gone, tracked, tasks, holder, mem, conn, faults>>
        /\ worker' = "down" /\ row' = [Beaten(mem) EXCEPT !.open = FALSE]
    BY <1>3 DEF FinishRun, apify, memory
  <2>2. Beaten(mem) \in Row
    BY <1>0, BeatenTyped DEF Row
  <2>3. row' \in Row /\ row'.open = FALSE
    BY <2>1, <2>2 DEF Row
  <2> QED
    BY <1>0, <2>1, <2>3 DEF TypeInv, Types, Known, Placed, Rows, Tasks, Row
<1>4. CASE Resume
  <2>1. /\ worker = "down" /\ row.open /\ worker' = "up" /\ tasks' = ResumePlan
        /\ row' = [row EXCEPT !.pages = Cardinality(Started) + Cardinality(tracked \ Started)]
        /\ mem' = [errors |-> row.errors, total |-> row.total, done |-> PagesDealtWith]
        /\ UNCHANGED <<actors, recorded, stored, gone, tracked, holder, conn, faults>>
    BY <1>4 DEF Resume, apify
  <2>2. row' \in Row
    <3>1. Started \in SUBSET Pages /\ tracked \ Started \in SUBSET Pages
      <4>1. \A k \in Rows : recorded[k] \in ARecord
        BY <1>0 DEF Types, Rows
      <4>2. \A k \in Rows : recorded[k].pages \in SUBSET Pages
        BY <4>1 DEF ARecord
      <4> QED
        BY <1>0, <4>2 DEF Started, Types
    <3>2. Cardinality(Started) \in Nat /\ Cardinality(tracked \ Started) \in Nat
      BY <3>1, FinitePages
    <3> QED
      BY <1>0, <2>1, <3>2 DEF Row
  <2>3. mem' \in Progress
    BY <1>0, <2>1, PagesDealtWithTyped DEF Progress, Row
  <2>4. holder' = None
    BY <2>1 DEF TypeInv
  <2>5. ResumePlan \in Seq(ATask)
    BY <1>0, ResumePlanIs
  <2>6. ASSUME NEW j \in DOMAIN ResumePlan PROVE Placed(ResumePlan[j])
    <3> DEFINE t == ResumePlan[j]
    <3>1. Resumed(t) /\ t.pages # {}
      BY <1>0, ResumePlanIs
    <3> HIDE DEF t
    <3> SUFFICES Placed(t)
      BY DEF t
    <3>2. CASE \E m \in OpenRows : t = Followed(m)
      <4>1. PICK m \in OpenRows : t = Followed(m)
        BY <3>2
      <4>2. \E k \in Rows : Latest(recorded[m].pages) = recorded[k]
        BY <1>0, LatestIs DEF OpenRows, FirstRows
      <4>3. t.at = "queued" /\ ~t.ok /\ t.cur = None /\ \E k \in Rows : recorded[k].id = t.attached
        BY <4>1, <4>2 DEF Followed, Task
      <4> QED
        BY <3>1, <4>3, QueuedPlaced
    <3>3. CASE t = Task(t.pages, None)
      <4>1. t.at = "queued" /\ ~t.ok /\ t.cur = None /\ t.attached = None
        BY <3>3 DEF Task
      <4> QED
        BY <3>1, <4>1, QueuedPlaced
    <3> QED
      BY <3>1, <3>2, <3>3 DEF Resumed
  <2>7. ASSUME NEW j \in Tasks' PROVE Placed(tasks[j])'
    <3>1. j \in DOMAIN ResumePlan
      BY <2>1 DEF Tasks
    <3>2. Placed(ResumePlan[j])
      BY <2>6, <3>1
    <3> DEFINE t == ResumePlan[j]
    <3>3. Placed(t) /\ tasks'[j] = t
      BY <2>1, <3>2
    <3> HIDE DEF t
    <3> QED
      BY <2>1, <3>3 DEF Placed, Rows
  <2> QED
    BY <1>0, <2>1, <2>2, <2>3, <2>4, <2>5, <2>7, NewPlan DEF Types
<1>5. CASE CloseInterrupted
  <2>1. UNCHANGED <<actors, recorded, stored, gone, tracked, worker, tasks, holder, mem, conn, faults>>
        /\ row' = Interrupted
    BY <1>5 DEF CloseInterrupted, apify, memory
  <2>2. row' \in Row /\ row'.open = FALSE
    BY <1>0, <2>1, InterruptedTyped
  <2> QED
    BY <1>0, <2>1, <2>2 DEF TypeInv, Types, Known, Placed, Rows, Tasks, Row
<1> QED
  BY <1>1, <1>2, <1>3, <1>4, <1>5 DEF NextWorker

\* What the admin and Apify do keeps the types.
LEMMA OutsideTyped ==
    ASSUME TypeInv, \/ \E p \in Pages : DeletePage(p)
                    \/ \E a \in DOMAIN actors : EndActorRun(a)
                    \/ UNCHANGED vars
    PROVE  TypeInv'
<1>0. Types /\ Known
  BY DEF TypeInv
<1>1. ASSUME NEW p \in Pages, DeletePage(p) PROVE TypeInv'
  <2>1. UNCHANGED <<actors, recorded, row, stored, gone, worker, tasks, holder, mem, conn>>
        /\ tracked' \subseteq tracked
    BY <1>1 DEF DeletePage, apify, database, memory
  <2>2. faults' \in FaultsSoFar
    BY <1>0, <1>1, FaultTyped DEF DeletePage, FaultsSoFar
  <2>3. Types'
    BY <1>0, <2>1, <2>2 DEF Types, FaultsSoFar, Tasks
  <2> QED
    BY <2>1, <2>3 DEF TypeInv, Known, Placed, Rows, Tasks
<1>2. ASSUME NEW c \in DOMAIN actors, EndActorRun(c) PROVE TypeInv'
  <2>0. UNCHANGED <<database, tracked, worker, memory, faults>>
    BY <1>2 DEF EndActorRun
  <2>1. PICK status \in {"SUCCEEDED", "REFUSED", "FAILED"}, data \in SUBSET AdsOfBatch(actors[c].pages) :
           actors' = [actors EXCEPT ![c].status = status, ![c].data = data]
    BY <1>2 DEF EndActorRun
  <2> DEFINE a == [actors[c] EXCEPT !.status = status, !.data = data]
  <2>2. actors[c] \in AnActor
    BY <1>0 DEF Types
  <2>3. AdsOfBatch(actors[c].pages) \subseteq AllAds
    BY <2>2 DEF AnActor, AdsOfBatch, AllAds
  <2>4. a \in AnActor /\ a.pages = actors[c].pages /\ a.data = data
    BY <2>2, <2>3 DEF AnActor
  <2>5. actors' = [actors EXCEPT ![c] = a]
    BY <2>1
  <2> HIDE DEF a
  <2> QED
    BY <2>0, <2>4, <2>5, ActorEnds
<1>3. CASE UNCHANGED vars
  BY <1>3 DEF vars, apify, database, memory, TypeInv, Types, Known, Placed, Rows, Tasks
<1> QED
  BY <1>1, <1>2, <1>3

\* Every step keeps the types.
LEMMA TypeInvStep ==
    ASSUME TypeInv, [Next]_vars
    PROVE  TypeInv'
BY ReadingTyped, StoringTyped, DownTyped, RunTyped, OutsideTyped DEF Next, TaskStep, Over

\* A run that was just opened is typed.
LEMMA TypeInvInit == Init => TypeInv
<1> SUFFICES ASSUME Init PROVE TypeInv
  OBVIOUS
<1>1. Pages \in SUBSET Pages /\ Cardinality(Pages) \in Nat
  BY FinitePages
<1>2. /\ tasks \in Seq(ATask)
      /\ \A k \in DOMAIN tasks : tasks[k] = Task(tasks[k].pages, None) /\ tasks[k].pages # {}
  BY <1>1, FreshIs DEF Init
<1>3. ASSUME NEW k \in Tasks PROVE Placed(tasks[k])
  <2> DEFINE t == tasks[k]
  <2>1. t = Task(t.pages, None) /\ t.pages # {}
    BY <1>2 DEF Tasks
  <2>2. t.at = "queued" /\ ~t.ok /\ t.cur = None /\ t.attached = None
    BY <2>1 DEF Task
  <2> HIDE DEF t
  <2>3. Placed(t)
    BY <2>1, <2>2 DEF Placed
  <2> QED
    BY <2>3 DEF t
<1>4. Types
  BY <1>1, <1>2, ApifyAssumption DEF Init, Types, Progress
<1>5. Known
  BY DEF Init, Known, Rows
<1> QED
  BY <1>3, <1>4, <1>5 DEF TypeInv, Init

\* The types hold in every behaviour.
LEMMA InvTyped == Spec => []TypeInv
BY TypeInvInit, TypeInvStep, PTL DEF Spec

\* Every variable has the values the code gives it, for any Pages, Batch size and faults.
THEOREM WellTyped == Spec => []TypeOK
<1>1. TypeInv => TypeOK
  <2> SUFFICES ASSUME TypeInv PROVE TypeOK
    OBVIOUS
  <2>1. Types /\ Known /\ \A i \in Tasks : Placed(tasks[i])
    BY DEF TypeInv
  <2>2. /\ \A a \in DOMAIN actors : actors[a] \in AnActor
        /\ \A k \in Rows : recorded[k] \in ARecord
        /\ \A i \in Tasks : tasks[i] \in ATask
    BY <2>1 DEF Types, Rows, Tasks
  <2>3. ASSUME NEW i \in Tasks PROVE tasks[i].attached \in {None} \cup DOMAIN actors
    BY <2>1 DEF Placed, Known
  <2>4. \A a \in DOMAIN actors : /\ actors[a].pages \subseteq Pages
          /\ actors[a].status \in {"RUNNING", "SUCCEEDED", "REFUSED", "FAILED"}
          /\ actors[a].data \subseteq AdsOfBatch(actors[a].pages)
    BY <2>1, <2>2 DEF Known, AnActor
  <2>5. \A k \in Rows :
          /\ recorded[k].id \in DOMAIN actors
          /\ recorded[k].pages = actors[recorded[k].id].pages
          /\ recorded[k].attempt \in 1..APIFY_ATTEMPTS
          /\ recorded[k].outcome \in {"none", "stored", "failed"}
    BY <2>1, <2>2 DEF Known, ARecord
  <2>6. ASSUME NEW i \in Tasks
        PROVE  /\ tasks[i].pages \subseteq Pages /\ tasks[i].pages # {}
               /\ tasks[i].at \in Places
               /\ tasks[i].attempt \in 0..APIFY_ATTEMPTS
               /\ tasks[i].cur \in {None} \cup DOMAIN actors
               /\ tasks[i].attached \in {None} \cup DOMAIN actors
               /\ tasks[i].unread \subseteq AllAds
    BY <2>1, <2>2, <2>3 DEF ATask, Placed
  <2>7. /\ row.open \in BOOLEAN
        /\ {row.errors, row.total, row.done, row.pages} \subseteq Nat
        /\ {mem.errors, mem.total, mem.done} \subseteq Nat
    BY <2>1 DEF Types, Progress
  <2> QED
    BY <2>1, <2>4, <2>5, <2>6, <2>7 DEF TypeOK, Types
<1> QED
  BY <1>1, InvTyped, PTL

\* Faults are added, never taken away.
LEMMA FaultsAddUp ==
    ASSUME NEW kind, Fault(kind)
    PROVE  faults'.kinds = faults.kinds \cup {kind}
BY DEF Fault

\* A Batch adds faults, and leaves the Pages and the worker alone.
LEMMA TaskFaults ==
    ASSUME NEW i \in Tasks, TaskStep(i)
    PROVE  faults.kinds \subseteq faults'.kinds /\ worker = "up" /\ worker' = "up" /\ UNCHANGED tracked
<1> USE DEF At
<1>1. CASE TakeSlot(i) \/ StartRun(i) \/ AbortRun(i) \/ FailPages(i)
  BY <1>1 DEF TakeSlot, StartRun, AbortRun, FailPages, memory
<1>2. CASE StartFails(i) \/ LoseAnswer(i) \/ Follow(i) \/ PollFails(i) \/ ReadFails(i)
  <2>1. UNCHANGED faults \/ \E kind \in {"call", "answer", "read"} : Fault(kind)
    BY <1>2 DEF StartFails, LoseAnswer, Follow, PollFails, ReadFails, CallFails
  <2>2. UNCHANGED tracked /\ worker = "up" /\ worker' = "up"
    BY <1>2 DEF StartFails, LoseAnswer, Follow, PollFails, ReadFails
  <2> QED
    BY <2>1, <2>2, FaultsAddUp
<1>3. CASE RecordRun(i) \/ Watch(i) \/ SeeEnd(i)
  BY <1>3, FaultsAddUp DEF RecordRun, Watch, SeeEnd, StatementWorks, StatementFails, Fails
<1>4. CASE TakeStoreLock(i) \/ CountAd(i) \/ ReadEverything(i)
  BY <1>4, FaultsAddUp DEF TakeStoreLock, CountAd, ReadEverything, StatementWorks, StatementFails, Fails
<1>5. CASE FinishPages(i) \/ Conclude(i)
  BY <1>5, FaultsAddUp DEF FinishPages, Conclude, StatementWorks, StatementFails, Fails
<1>6. ASSUME NEW ad \in AllAds, StoreAd(i, ad)
      PROVE  faults.kinds \subseteq faults'.kinds /\ worker = "up" /\ worker' = "up" /\ UNCHANGED tracked
  BY <1>6, FaultsAddUp DEF StoreAd, StatementWorks, StatementFails, Fails
<1> QED
  BY <1>1, <1>2, <1>3, <1>4, <1>5, <1>6 DEF TaskStep

\* A worker dies of a crash or a stop.
LEMMA DyingIsAFault ==
    ASSUME Crash \/ Stop
    PROVE  faults.kinds \subseteq faults'.kinds /\ faults'.kinds \cap {"crash", "midstart"} # {}
<1>1. \E kind \in {"crash", "midstart"} : Fault(kind)
  BY DEF Crash, Stop, MayDie
<1> QED
  BY <1>1, FaultsAddUp

\* What goes wrong stays known: the hypotheses of the properties held before, too.
LEMMA StepFaults ==
    ASSUME [Next]_vars
    PROVE  faults.kinds \subseteq faults'.kinds
<1>1. ASSUME NEW i \in Tasks, TaskStep(i) PROVE faults.kinds \subseteq faults'.kinds
  BY <1>1, TaskFaults
<1>2. CASE Crash \/ Stop
  BY <1>2, DyingIsAFault
<1>3. ASSUME NEW p \in Pages, DeletePage(p) PROVE faults.kinds \subseteq faults'.kinds
  BY <1>3, FaultsAddUp DEF DeletePage
<1>4. CASE Collected \/ CollectorFails \/ FinishRun \/ Resume \/ CloseInterrupted
  <2>1. UNCHANGED faults
    BY <1>4 DEF Collected, CollectorFails, FinishRun, Resume, CloseInterrupted
  <2> QED
    BY <2>1
<1>5. ASSUME NEW a \in DOMAIN actors, EndActorRun(a) PROVE faults' = faults
  BY <1>5 DEF EndActorRun
<1>6. CASE Over \/ UNCHANGED vars
  BY <1>6 DEF Over, vars
<1> QED
  BY <1>1, <1>2, <1>3, <1>4, <1>5, <1>6 DEF Next, NextWorker

---------------------------------------------------------------------------
(* How many ads a run stored. *)

CountInv ==
    /\ IsFiniteSet(stored)
    /\ "delete" \notin faults.kinds =>
          mem.total <= Cardinality(stored) /\ row.total <= Cardinality(stored)
    /\ faults.kinds \cap {"crash", "midstart", "delete"} = {} =>
          /\ worker # "down" => row.open /\ mem.total = Cardinality(stored)
          /\ worker = "down" => ~row.open /\ row.total = Cardinality(stored)

\* A step of a Batch counts the ad it stores, and writes what was counted.
LEMMA TaskCounts ==
    ASSUME TypeInv, NEW i \in Tasks, TaskStep(i)
    PROVE  /\ row'.open = row.open
           /\ \/ UNCHANGED stored /\ mem'.total = mem.total /\ row'.total \in {row.total, mem.total}
              \/ \E ad \in AllAds : /\ stored' = stored \cup {ad} /\ UNCHANGED row
                                    /\ mem'.total = mem.total + Counted(ad)
<1>0. row \in Row /\ mem \in Progress
  BY DEF TypeInv, Types, Row
<1>1. \A m \in Progress : Beaten(m).open = row.open /\ Beaten(m).total = m.total
  BY <1>0 DEF Beaten, Row
<1>2. CASE \/ TakeSlot(i) \/ StartRun(i) \/ AbortRun(i) \/ StartFails(i) \/ LoseAnswer(i)
           \/ Follow(i) \/ PollFails(i) \/ ReadFails(i) \/ ReadEverything(i) \/ RecordRun(i) \/ Conclude(i)
  BY <1>2 DEF TakeSlot, StartRun, AbortRun, StartFails, LoseAnswer, Follow, PollFails, ReadFails,
              ReadEverything, RecordRun, Conclude, memory, database
<1>3. CASE FailPages(i)
  <2>1. UNCHANGED <<stored, row>> /\ mem' = [mem EXCEPT !.errors = @ + Cardinality(tasks[i].pages)]
    BY <1>3 DEF FailPages, database
  <2> QED
    BY <1>0, <2>1 DEF Progress
<1>4. CASE Watch(i) \/ SeeEnd(i) \/ TakeStoreLock(i) \/ CountAd(i)
  <2>1. UNCHANGED <<stored, mem>> /\ (row' = row \/ row' = Beaten(mem))
    BY <1>4 DEF Watch, SeeEnd, TakeStoreLock, CountAd
  <2> QED
    BY <1>0, <1>1, <2>1
<1>5. CASE FinishPages(i)
  <2>1. UNCHANGED stored
    BY <1>5 DEF FinishPages
  <2>2. CASE UNCHANGED <<row, mem>>
    BY <2>1, <2>2
  <2>3. CASE mem' = [mem EXCEPT !.done = @ + Cardinality(tasks[i].pages)] /\ row' = Beaten(mem')
    <3>1. mem' \in Progress /\ mem'.total = mem.total
      <4>1. tasks[i].pages \in SUBSET Pages
        <5>1. tasks[i] \in ATask
          BY DEF TypeInv, Types, Tasks
        <5> QED
          BY <5>1 DEF ATask
      <4>2. Cardinality(tasks[i].pages) \in Nat
        BY <4>1, FinitePages
      <4>3. mem.done + Cardinality(tasks[i].pages) \in Nat
        BY <1>0, <4>2 DEF Progress
      <4> QED
        BY <1>0, <2>3, <4>3 DEF Progress
    <3> QED
      BY <1>1, <2>1, <2>3, <3>1
  <2> QED
    BY <1>5, <2>2, <2>3 DEF FinishPages
<1>6. ASSUME NEW ad \in AllAds, StoreAd(i, ad)
      PROVE  /\ UNCHANGED row
             /\ \/ UNCHANGED <<stored, mem>>
                \/ stored' = stored \cup {ad} /\ mem'.total = mem.total + Counted(ad)
  <2>1. UNCHANGED row
    BY <1>6 DEF StoreAd
  <2>2. CASE UNCHANGED <<stored, mem>>
    BY <2>1, <2>2
  <2>3. CASE stored' = stored \cup {ad} /\ mem' = [mem EXCEPT !.total = @ + Counted(ad)]
    BY <1>0, <2>1, <2>3 DEF Progress
  <2> QED
    BY <1>6, <2>2, <2>3 DEF StoreAd
<1> QED
  BY <1>2, <1>3, <1>4, <1>5, <1>6 DEF TaskStep

\* Every step keeps the count right.
LEMMA CountStep ==
    ASSUME TypeInv, CountInv, [Next]_vars
    PROVE  CountInv'
<1>0. /\ row.total \in Nat /\ mem.total \in Nat /\ row \in Row /\ mem \in Progress
      /\ IsFiniteSet(stored) /\ Cardinality(stored) \in Nat
  BY FS_CardinalityType DEF TypeInv, Types, Row, Progress, CountInv
<1>a. faults.kinds \subseteq faults'.kinds
  BY StepFaults
<1>1. ASSUME NEW i \in Tasks, TaskStep(i) PROVE CountInv'
  <2>0. worker = "up" /\ worker' = "up" /\ row'.open = row.open
    BY <1>1, TaskFaults, TaskCounts
  <2>1. CASE UNCHANGED stored /\ mem'.total = mem.total /\ row'.total \in {row.total, mem.total}
    BY <1>a, <2>0, <2>1 DEF CountInv
  <2>2. ASSUME NEW ad \in AllAds, stored' = stored \cup {ad}, UNCHANGED row,
               mem'.total = mem.total + Counted(ad)
        PROVE  CountInv'
    <3>1. IsFiniteSet(stored') /\ Cardinality(stored') = Cardinality(stored) + Counted(ad)
      BY <1>0, <2>2, FS_AddElement DEF Counted
    <3>2. Counted(ad) \in 0..1
      BY DEF Counted
    <3> QED
      BY <1>0, <1>a, <2>0, <2>2, <3>1, <3>2 DEF CountInv
  <2> QED
    BY <1>1, <2>1, <2>2, TaskCounts
<1>2. CASE Crash \/ Stop
  <2>1. UNCHANGED stored /\ mem'.total = 0 /\ row' \in {row, Interrupted}
    BY <1>2 DEF Crash, Stop, Down, database
  <2>2. row'.total = row.total
    BY <1>0, <2>1 DEF Interrupted, Row
  <2>3. faults'.kinds \cap {"crash", "midstart"} # {}
    BY <1>2, DyingIsAFault
  <2> QED
    BY <1>0, <1>a, <2>1, <2>2, <2>3 DEF CountInv
<1>3. ASSUME NEW p \in Pages, DeletePage(p) PROVE CountInv'
  <2>1. "delete" \in faults'.kinds /\ stored' \in SUBSET stored
    BY <1>3, FaultsAddUp DEF DeletePage, database
  <2>2. IsFiniteSet(stored')
    BY <1>0, <2>1, FS_Subset
  <2> QED
    BY <2>1, <2>2 DEF CountInv
<1>4. CASE Collected \/ CollectorFails
  <2>1. UNCHANGED <<row, stored>> /\ worker = "up" /\ worker' = "closing"
    BY <1>4 DEF Collected, CollectorFails, database
  <2>2. mem'.total = mem.total
    BY <1>0, <1>4 DEF Collected, CollectorFails, memory, Progress
  <2> QED
    BY <1>a, <2>1, <2>2 DEF CountInv
<1>5. CASE FinishRun
  <2>1. row'.total = mem.total /\ row'.open = FALSE /\ UNCHANGED <<stored, mem>> /\ worker = "closing" /\ worker' = "down"
    BY <1>0, <1>5 DEF FinishRun, Beaten, Row, memory
  <2> QED
    BY <1>a, <2>1 DEF CountInv
<1>6. CASE Resume
  <2>1. row'.total = row.total /\ mem'.total = row.total /\ UNCHANGED stored /\ worker = "down" /\ row.open
    BY <1>0, <1>6 DEF Resume, Row
  <2> QED
    BY <1>a, <2>1 DEF CountInv
<1>7. CASE CloseInterrupted
  <2>1. row'.total = row.total /\ UNCHANGED <<stored, mem>> /\ worker = "down" /\ row.open
    BY <1>0, <1>7 DEF CloseInterrupted, Interrupted, Row, memory
  <2> QED
    BY <1>a, <2>1 DEF CountInv
<1>8. CASE Over \/ UNCHANGED vars \/ \E a \in DOMAIN actors : EndActorRun(a)
  <2>1. UNCHANGED <<row, stored, mem, worker, faults>>
    BY <1>8 DEF Over, vars, EndActorRun, database, memory
  <2> QED
    BY <2>1 DEF CountInv
<1> QED
  BY <1>1, <1>2, <1>3, <1>4, <1>5, <1>6, <1>7, <1>8 DEF Next, NextWorker

\* The count is right in every behaviour.
LEMMA InvCounted == Spec => []CountInv
<1>1. Init => CountInv
  BY FS_EmptySet DEF Init, CountInv
<1> QED
  BY <1>1, CountStep, InvTyped, PTL DEF Spec

\* The row never says more ads than are stored, whatever fails.
THEOREM NothingCountedTwice == Spec => []NeverOvercounted
<1>1. CountInv => NeverOvercounted
  BY DEF CountInv, NeverOvercounted
<1> QED
  BY <1>1, InvCounted, PTL

\* A run closed without errors says how many ads it stored, unless a worker died between storing one
\* and counting it.
THEOREM AllCounted == Spec => []EveryAdCounted
<1>1. TypeInv /\ CountInv => EveryAdCounted
  BY DEF TypeInv, Types, CountInv, EveryAdCounted, CountedOnce
<1> QED
  BY <1>1, InvCounted, InvTyped, PTL

---------------------------------------------------------------------------
(* What the steps of a Batch do to it, field by field: t becomes u. *)

AttemptsBefore(t) == IF t.attached = None THEN 0 ELSE AttemptOf(t.attached) - 1

GetsSlot(t, u) ==
    /\ t.at = "queued" /\ u.at = "attempting" /\ u.attempt = AttemptsBefore(t)
    /\ u.cur = t.cur /\ u.ok = t.ok /\ u.retry = t.retry
    /\ UNCHANGED <<actors, recorded, row, stored, gone, holder, mem, conn, faults>>

Starts(t, u) ==
    /\ t.at = "attempting" /\ ~Follows(t) /\ u.at = "starting" /\ u.attempt = t.attempt + 1
    /\ u.cur = Len(actors) + 1 /\ u.ok = t.ok /\ u.retry = t.retry
    /\ actors' = Append(actors, [pages |-> t.pages, status |-> "RUNNING", data |-> {}])
    /\ UNCHANGED <<recorded, row, stored, gone, holder, mem, conn, faults>>

\* An attempt failed, and is repeated or was the last one.
TriesAgain(t, u) ==
    /\ \/ /\ t.at = "attempting" /\ u.attempt = t.attempt + 1 /\ u.cur = None
          /\ CallFails /\ UNCHANGED conn
       \/ /\ t.at = "starting" /\ u.attempt = t.attempt /\ u.cur = None
          /\ Fault("answer") /\ UNCHANGED conn
       \/ /\ t.at = "polling" /\ u.attempt = t.attempt /\ u.cur = t.cur
          /\ \/ CallFails /\ UNCHANGED conn
             \/ Fails("db")
             \/ /\ StatementWorks /\ actors[t.cur].status \in {"REFUSED", "FAILED"}
                /\ actors[t.cur].status = "REFUSED" => u.at = "waiting"
                /\ actors[t.cur].status = "FAILED" => u.retry = t.retry
                /\ u.at = "waiting" => t.attempt = APIFY_ATTEMPTS \/ ~u.retry
    /\ u.at \in {"attempting", "waiting"} /\ ~u.ok
    /\ u.at = "attempting" => u.attempt < APIFY_ATTEMPTS
    /\ UNCHANGED <<actors, recorded, stored, gone, holder, mem>> /\ row' \in {row, Beaten(mem)}

Records(t, u) ==
    /\ t.at = "starting" /\ u.at = "polling" /\ u.attempt = t.attempt /\ u.cur = t.cur /\ u.ok = t.ok
    /\ u.retry = t.retry
    /\ \/ /\ recorded' = Append(recorded, [id |-> t.cur, pages |-> t.pages,
                                           attempt |-> t.attempt, outcome |-> "none"])
          /\ StatementWorks
       \/ UNCHANGED recorded /\ Fails("record")
    /\ UNCHANGED <<actors, row, stored, gone, holder, mem>>

GoesOn(t, u) ==
    /\ t.at = "attempting" /\ Follows(t) /\ u.at = "polling" /\ u.attempt = t.attempt + 1
    /\ u.cur = t.attached /\ u.ok = t.ok /\ u.retry = t.retry
    /\ UNCHANGED <<actors, recorded, row, stored, gone, holder, mem, conn, faults>>

Waits(t, u) ==
    /\ t.at = "polling" /\ u = t /\ actors[t.cur].status = "RUNNING"
    /\ \/ actors' = [actors EXCEPT ![t.cur].status = "FAILED"] /\ UNCHANGED row
       \/ UNCHANGED actors /\ row' = Beaten(mem)
    /\ UNCHANGED <<recorded, stored, gone, holder, mem, conn, faults>>

Succeeds(t, u) ==
    /\ t.at = "polling" /\ u.at = "waiting" /\ actors[t.cur].status = "SUCCEEDED" /\ u.ok
    /\ u.cur = t.cur /\ u.attempt = t.attempt /\ row' = Beaten(mem)
    /\ UNCHANGED <<actors, recorded, stored, gone, holder, mem, conn, faults>>

Same(t, u) == u.cur = t.cur /\ u.attempt = t.attempt

Opens(t, u) ==
    /\ t.at = "waiting" /\ t.ok /\ u.at = "saving" /\ u.unread = actors[t.cur].data /\ u.ok /\ Same(t, u)
    /\ row' = Beaten(mem)
    /\ UNCHANGED <<actors, recorded, stored, gone, mem, conn, faults>>

Stores(t, u, ad) ==
    /\ t.at = "saving" /\ ad \in t.unread /\ ad \in AdsOfBatch(t.pages)
    /\ u.at = "counting" /\ u.unread = t.unread \ {ad} /\ u.ok = t.ok /\ Same(t, u)
    /\ stored' = stored \cup {ad} /\ mem' = [mem EXCEPT !.total = @ + Counted(ad)]
    /\ UNCHANGED <<actors, recorded, row, gone, holder, conn, faults>>

Skips(t, u, ad) ==
    /\ t.at = "saving" /\ ad \notin AdsOfBatch(t.pages)
    /\ u.at = "saving" /\ u.unread = t.unread \ {ad} /\ u.ok = t.ok /\ Same(t, u)
    /\ UNCHANGED <<actors, recorded, row, stored, gone, holder, mem, conn, faults>>

Counts(t, u) ==
    /\ t.at = "counting" /\ u.at = "saving" /\ u.unread = t.unread /\ u.ok = t.ok /\ Same(t, u)
    /\ row' = Beaten(mem)
    /\ UNCHANGED <<actors, recorded, stored, gone, holder, mem, conn, faults>>

\* Its Pages are to be counted as failed.
Breaks(t, u) ==
    /\ t.at \in {"waiting", "saving", "counting"} /\ u.at = "failing" /\ u.ok = t.ok /\ Same(t, u)
    /\ t.at = "waiting" => ~t.ok /\ UNCHANGED conn
    /\ \/ conn' = conn
       \/ Fails("db")
       \/ conn' = "aborted" /\ ~(AdsOfBatch(t.pages) \subseteq AdsOfBatch(tracked))
    /\ UNCHANGED <<actors, recorded, row, stored, gone, mem>>

ReadsAll(t, u) ==
    /\ t.at = "saving" /\ t.unread = {} /\ u.at = "closing" /\ u.ok = t.ok /\ Same(t, u)
    /\ \/ u.complete = (actors[t.cur].data = AdsOfBatch(actors[t.cur].pages)) /\ UNCHANGED faults
       \/ Raised
       \/ Fault("summary")
    /\ UNCHANGED <<actors, recorded, row, stored, gone, holder, mem, conn>>

CountsFailed(t, u) ==
    /\ t.at = "failing" /\ u.at = "closing" /\ ~u.ok /\ ~u.complete /\ Same(t, u)
    /\ mem' = [mem EXCEPT !.errors = @ + Cardinality(t.pages)]
    /\ conn' = IF conn = "aborted" THEN "ok" ELSE conn
    /\ UNCHANGED <<actors, recorded, row, stored, gone, holder, faults>>

Finishes(t, u) ==
    /\ t.at = "closing" /\ u.at = "concluding" /\ u.ok = t.ok /\ Same(t, u)
    /\ gone' = IF t.complete THEN gone \cup (AdsOfBatch(t.pages \cap tracked) \ stored) ELSE gone
    /\ mem' = [mem EXCEPT !.done = @ + Cardinality(t.pages)]
    /\ row' = Beaten(mem')
    /\ UNCHANGED <<actors, recorded, stored, holder, conn, faults>>

LastOf(t) == IF t.cur # None THEN t.cur ELSE t.attached
OutcomeOf(t) == IF t.ok THEN "stored" ELSE "failed"

Concludes(t, u) ==
    /\ t.at = "concluding" /\ u.at = "done" /\ u.ok = t.ok /\ Same(t, u)
    /\ \/ LastOf(t) # None /\ StatementWorks /\ recorded' = Concluded(LastOf(t), OutcomeOf(t))
       \/ LastOf(t) # None /\ Fails("db") /\ UNCHANGED recorded
       \/ LastOf(t) = None /\ UNCHANGED <<recorded, conn, faults>>
    /\ UNCHANGED <<actors, row, stored, gone, mem>>

IsRaised(t, u) ==
    /\ t.at \in {"polling", "waiting", "closing"} /\ u.at = "raised" /\ u.ok = t.ok /\ Same(t, u)
    /\ Fails("db")
    /\ UNCHANGED <<actors, recorded, row, stored, mem>>

Moves(t, u) ==
    \/ GetsSlot(t, u) \/ Starts(t, u) \/ TriesAgain(t, u) \/ Records(t, u) \/ GoesOn(t, u)
    \/ Waits(t, u) \/ Succeeds(t, u) \/ Opens(t, u) \/ \E ad \in AllAds : Stores(t, u, ad)
    \/ \E ad \in AllAds : Skips(t, u, ad)
    \/ Counts(t, u) \/ Breaks(t, u) \/ ReadsAll(t, u) \/ CountsFailed(t, u)
    \/ Finishes(t, u) \/ Concludes(t, u) \/ IsRaised(t, u)

\* Only this Batch becomes another, with the same Pages.
OnlyBatch(i) ==
    /\ Tasks' = Tasks /\ Len(tasks') = Len(tasks)
    /\ tasks'[i].pages = tasks[i].pages /\ tasks'[i].attached = tasks[i].attached
    /\ \A j \in Tasks : j # i => tasks'[j] = tasks[j]

\* After a failed attempt: the same Batch, attempting again or waiting to count its Pages as failed.
LEMMA AfterFailureIs ==
    ASSUME NEW t \in ATask
    PROVE  LET u == AfterFailure(t)
           IN  /\ u \in ATask /\ u.pages = t.pages /\ u.attached = t.attached
               /\ u.cur = t.cur /\ u.attempt = t.attempt
               /\ u.at \in {"attempting", "waiting"} /\ (~t.ok => ~u.ok)
               /\ u.at = "attempting" => u.attempt < APIFY_ATTEMPTS
               /\ u.retry = t.retry /\ (~t.retry => u.at = "waiting")
               /\ u.at = "waiting" => t.attempt = APIFY_ATTEMPTS \/ ~t.retry
<1>1. CASE t.attempt < APIFY_ATTEMPTS /\ t.retry
  BY <1>1 DEF AfterFailure, ATask, Places, APIFY_ATTEMPTS
<1>2. CASE ~(t.attempt < APIFY_ATTEMPTS /\ t.retry)
  <2>1. t.attempt \in 0..2 /\ APIFY_ATTEMPTS = 2
    BY DEF ATask, APIFY_ATTEMPTS
  <2>2. t.attempt = APIFY_ATTEMPTS \/ ~t.retry
    BY <1>2, <2>1
  <2>3. "waiting" \in Places
    BY DEF Places
  <2>4. AfterFailure(t) = [t EXCEPT !.at = "waiting", !.ok = FALSE]
    BY <1>2 DEF AfterFailure
  <2> QED
    BY <2>2, <2>3, <2>4 DEF ATask
<1> QED
  BY <1>1, <1>2

\* The steps that read, as moves.
LEMMA ReadingMoves ==
    ASSUME TypeInv, NEW i \in Tasks,
           \/ TakeSlot(i) \/ StartRun(i) \/ StartFails(i) \/ RecordRun(i) \/ LoseAnswer(i)
           \/ Follow(i) \/ Watch(i) \/ AbortRun(i) \/ PollFails(i) \/ SeeEnd(i)
    PROVE  OnlyBatch(i) /\ Moves(tasks[i], tasks'[i])
<1> DEFINE t == tasks[i]
<1>0. Types /\ t \in ATask /\ Placed(t) /\ APIFY_ATTEMPTS = 2
  BY DEF TypeInv, Types, Tasks, APIFY_ATTEMPTS
<1>a. ASSUME NEW u \in ATask, Become(i, u), u.pages = t.pages, u.attached = t.attached
      PROVE  tasks'[i] = u /\ OnlyBatch(i)
  <2> HIDE DEF t
  <2> QED
    BY <1>0, <1>a, BecomeIs DEF OnlyBatch, t
<1>1. CASE TakeSlot(i)
  <2> DEFINE u == [t EXCEPT !.at = "attempting", !.attempt = AttemptsBefore(t)]
  <2>1. Become(i, u) /\ t.at = "queued"
        /\ UNCHANGED <<actors, recorded, row, stored, gone, holder, mem, conn, faults>>
    BY <1>1 DEF TakeSlot, At, AttemptsBefore, apify, database
  <2>2. AttemptsBefore(t) \in 0..2
    <3>1. CASE t.attached = None
      BY <3>1 DEF AttemptsBefore
    <3>2. CASE t.attached # None
      <4>1. AttemptOf(t.attached) \in 1..2
        BY <1>0, <3>2, AttemptOfTyped DEF Placed
      <4> QED
        BY <3>2, <4>1 DEF AttemptsBefore
    <3> QED
      BY <3>1, <3>2
  <2> HIDE DEF t
  <2>3. u \in ATask /\ u.pages = t.pages /\ u.attached = t.attached /\ GetsSlot(t, u)
    <3>1. "attempting" \in Places
      BY DEF Places
    <3>2. u \in ATask
      BY <1>0, <2>2, <3>1 DEF ATask
    <3>3. /\ u.pages = t.pages /\ u.attached = t.attached /\ u.at = "attempting"
          /\ u.attempt = AttemptsBefore(t) /\ u.cur = t.cur /\ u.ok = t.ok /\ u.retry = t.retry
      BY <1>0 DEF ATask
    <3> HIDE DEF u
    <3> QED
      BY <2>1, <3>2, <3>3 DEF GetsSlot
  <2> HIDE DEF u
  <2> QED
    BY <1>a, <2>1, <2>3 DEF Moves, t
<1>2. CASE StartRun(i)
  <2> DEFINE u == [t EXCEPT !.at = "starting", !.attempt = @ + 1, !.cur = Len(actors) + 1]
  <2>1. /\ Become(i, u) /\ t.at = "attempting" /\ ~Follows(t)
        /\ actors' = Append(actors, [pages |-> t.pages, status |-> "RUNNING", data |-> {}])
        /\ UNCHANGED <<recorded, row, stored, gone, holder, mem, conn, faults>>
    BY <1>2 DEF StartRun, At, apify, database
  <2>2. t.attempt + 1 \in 0..2 /\ Len(actors) + 1 \in Nat
    <3>1. t.attempt < 2 /\ t.attempt \in 0..2
      BY <1>0, <2>1 DEF ATask, Placed
    <3>2. Len(actors) \in Nat
      BY <1>0 DEF Types
    <3> QED
      BY <3>1, <3>2
  <2> HIDE DEF t
  <2>3. u \in ATask /\ u.pages = t.pages /\ u.attached = t.attached /\ Starts(t, u)
    <3>1. "starting" \in Places
      BY DEF Places
    <3>2. u \in ATask
      BY <1>0, <2>2, <3>1 DEF ATask
    <3>3. /\ u.pages = t.pages /\ u.attached = t.attached /\ u.at = "starting"
          /\ u.attempt = t.attempt + 1 /\ u.cur = Len(actors) + 1 /\ u.ok = t.ok /\ u.retry = t.retry
      BY <1>0 DEF ATask
    <3> HIDE DEF u
    <3> QED
      BY <2>1, <3>2, <3>3 DEF Starts
  <2> HIDE DEF u
  <2> QED
    BY <1>a, <2>1, <2>3 DEF Moves, t
<1>3. ASSUME NEW retry \in BOOLEAN, t.at = "attempting", CallFails,
             Become(i, AfterFailure([t EXCEPT !.attempt = @ + 1, !.cur = None, !.retry = retry])),
             UNCHANGED <<actors, recorded, row, stored, gone, holder, mem, conn>>
      PROVE  OnlyBatch(i) /\ Moves(tasks[i], tasks'[i])
  <2> DEFINE v == [t EXCEPT !.attempt = @ + 1, !.cur = None, !.retry = retry]
             u == AfterFailure(v)
  <2>1. t.attempt + 1 \in 0..2 /\ None \in Nat /\ ~t.ok
    BY <1>0, <1>3 DEF ATask, Placed, None
  <2> HIDE DEF t
  <2>2. v \in ATask /\ v.pages = t.pages /\ v.attached = t.attached /\ v.cur = None
        /\ v.attempt = t.attempt + 1 /\ ~v.ok
    BY <1>0, <2>1 DEF ATask
  <2>3. Become(i, u)
    BY <1>3
  <2> HIDE DEF v
  <2>4. /\ u \in ATask /\ u.pages = t.pages /\ u.attached = t.attached /\ u.cur = None
        /\ u.attempt = t.attempt + 1 /\ ~u.ok /\ u.at \in {"attempting", "waiting"}
        /\ u.at = "attempting" => u.attempt < APIFY_ATTEMPTS
    BY <2>2, AfterFailureIs
  <2> HIDE DEF u
  <2>5. TriesAgain(t, u)
    BY <1>3, <2>4 DEF TriesAgain
  <2> QED
    BY <1>a, <2>3, <2>4, <2>5 DEF Moves, t
<1>4. CASE StartFails(i)
  BY <1>3, <1>4 DEF StartFails, At, apify, database
<1>5. CASE RecordRun(i)
  <2> DEFINE u == [t EXCEPT !.at = "polling"]
             r == [id |-> t.cur, pages |-> t.pages, attempt |-> t.attempt, outcome |-> "none"]
  <2>1. /\ Become(i, u) /\ t.at = "starting"
        /\ \/ recorded' = Append(recorded, r) /\ StatementWorks
           \/ UNCHANGED recorded /\ Fails("record")
        /\ UNCHANGED <<actors, row, stored, gone, holder, mem>>
    BY <1>5 DEF RecordRun, At, apify
  <2> HIDE DEF t
  <2>2. "polling" \in Places
    BY DEF Places
  <2>3. /\ u \in ATask /\ u.pages = t.pages /\ u.attached = t.attached /\ u.at = "polling"
        /\ u.attempt = t.attempt /\ u.cur = t.cur /\ u.ok = t.ok /\ u.retry = t.retry
    BY <1>0, <2>2 DEF ATask
  <2> HIDE DEF u
  <2>4. Records(t, u)
    BY <2>1, <2>3 DEF Records
  <2> QED
    BY <1>a, <2>1, <2>3, <2>4 DEF Moves, t
<1>6. CASE LoseAnswer(i)
  <2> DEFINE v == [t EXCEPT !.cur = None]
             u == AfterFailure(v)
  <2>1. /\ Become(i, u) /\ t.at = "starting" /\ Fault("answer")
        /\ UNCHANGED <<actors, recorded, row, stored, gone, holder, mem, conn>>
    BY <1>6 DEF LoseAnswer, At, apify, database
  <2> HIDE DEF t
  <2>2. v \in ATask /\ v.pages = t.pages /\ v.attached = t.attached /\ v.cur = None
        /\ v.attempt = t.attempt /\ ~v.ok
    BY <1>0, <2>1 DEF ATask, Placed, None
  <2> HIDE DEF v
  <2>4. /\ u \in ATask /\ u.pages = t.pages /\ u.attached = t.attached /\ u.cur = None
        /\ u.attempt = t.attempt /\ ~u.ok /\ u.at \in {"attempting", "waiting"}
        /\ u.at = "attempting" => u.attempt < APIFY_ATTEMPTS
    BY <2>2, AfterFailureIs
  <2> HIDE DEF u
  <2>5. TriesAgain(t, u)
    BY <2>1, <2>4 DEF TriesAgain
  <2> QED
    BY <1>a, <2>1, <2>4, <2>5 DEF Moves, t
<1>7. CASE Follow(i)
  <2>1. CASE /\ Become(i, [t EXCEPT !.at = "polling", !.attempt = @ + 1, !.cur = t.attached])
             /\ UNCHANGED faults
    <3> DEFINE u == [t EXCEPT !.at = "polling", !.attempt = @ + 1, !.cur = t.attached]
    <3>1. /\ Become(i, u) /\ t.at = "attempting" /\ Follows(t)
          /\ UNCHANGED <<actors, recorded, row, stored, gone, holder, mem, conn, faults>>
      BY <1>7, <2>1 DEF Follow, At, apify, database
    <3>2. t.attempt + 1 \in 0..2 /\ t.attached \in Nat
      BY <1>0, <3>1 DEF ATask, Placed
    <3> HIDE DEF t
    <3>3. "polling" \in Places
      BY DEF Places
    <3>4. u \in ATask
      BY <1>0, <3>2, <3>3 DEF ATask
    <3>5. /\ u.pages = t.pages /\ u.attached = t.attached /\ u.at = "polling"
          /\ u.attempt = t.attempt + 1 /\ u.cur = t.attached /\ u.ok = t.ok /\ u.retry = t.retry
      BY <1>0 DEF ATask
    <3> HIDE DEF u
    <3>6. GoesOn(t, u)
      BY <3>1, <3>5 DEF GoesOn
    <3> QED
      BY <1>a, <3>1, <3>4, <3>5, <3>6 DEF Moves, t
  <2> QED
    BY <1>3, <1>7, <2>1 DEF Follow, At, apify, database
<1>8. ASSUME NEW retry \in BOOLEAN, t.at = "polling",
             Become(i, AfterFailure([t EXCEPT !.retry = retry])),
             \/ CallFails /\ UNCHANGED conn
             \/ Fails("db")
             \/ /\ StatementWorks /\ actors[t.cur].status \in {"REFUSED", "FAILED"}
                /\ actors[t.cur].status = "REFUSED" => retry = FALSE
                /\ actors[t.cur].status = "FAILED" => retry = t.retry,
             UNCHANGED <<actors, recorded, stored, gone, holder, mem>>, row' \in {row, Beaten(mem)}
      PROVE  OnlyBatch(i) /\ Moves(tasks[i], tasks'[i])
  <2> DEFINE v == [t EXCEPT !.retry = retry]
             u == AfterFailure(v)
  <2>1. ~t.ok
    BY <1>0, <1>8 DEF Placed
  <2>2. Become(i, u)
    BY <1>8
  <2> HIDE DEF t
  <2>3. v \in ATask /\ v.pages = t.pages /\ v.attached = t.attached /\ v.cur = t.cur
        /\ v.attempt = t.attempt /\ ~v.ok /\ v.retry = retry
    BY <1>0, <2>1 DEF ATask
  <2> HIDE DEF v
  <2>4. /\ u \in ATask /\ u.pages = t.pages /\ u.attached = t.attached /\ u.cur = t.cur
        /\ u.attempt = t.attempt /\ ~u.ok /\ u.at \in {"attempting", "waiting"}
        /\ u.at = "attempting" => u.attempt < APIFY_ATTEMPTS
        /\ u.retry = retry /\ (~retry => u.at = "waiting")
        /\ u.at = "waiting" => t.attempt = APIFY_ATTEMPTS \/ ~retry
    BY <2>3, AfterFailureIs
  <2> HIDE DEF u
  <2>5. TriesAgain(t, u)
    BY <1>8, <2>4 DEF TriesAgain
  <2> QED
    BY <1>a, <2>2, <2>4, <2>5 DEF Moves, t
<1>9. t = [t EXCEPT !.retry = t.retry] /\ t.retry \in BOOLEAN
  BY <1>0 DEF ATask
<1>10. CASE PollFails(i)
  BY <1>8, <1>10 DEF PollFails, At, apify, database
<1>11. ASSUME t.at = "polling", actors[t.cur].status = "RUNNING", UNCHANGED tasks,
              \/ actors' = [actors EXCEPT ![t.cur].status = "FAILED"] /\ UNCHANGED row
              \/ UNCHANGED actors /\ row' = Beaten(mem),
              UNCHANGED <<recorded, stored, gone, holder, mem, conn, faults>>
       PROVE  OnlyBatch(i) /\ Moves(tasks[i], tasks'[i])
  BY <1>11 DEF OnlyBatch, Tasks, Moves, Waits
<1>12. CASE AbortRun(i)
  BY <1>11, <1>12 DEF AbortRun, At, Status, database, memory
<1>13. CASE Watch(i)
  <2>1. /\ t.at = "polling" /\ actors[t.cur].status = "RUNNING"
        /\ UNCHANGED <<actors, recorded, stored, gone, holder, mem>>
        /\ \/ UNCHANGED <<conn, faults, tasks>> /\ row' = Beaten(mem)
           \/ Fails("db") /\ Become(i, AfterFailure(t)) /\ UNCHANGED row
    BY <1>13 DEF Watch, At, Status, StatementWorks, StatementFails, apify
  <2>2. CASE UNCHANGED <<conn, faults, tasks>> /\ row' = Beaten(mem)
    BY <1>11, <2>1, <2>2
  <2>3. CASE Fails("db") /\ Become(i, AfterFailure(t)) /\ UNCHANGED row
    BY <1>8, <1>9, <2>1, <2>3
  <2> QED
    BY <2>1, <2>2, <2>3
<1>14. CASE SeeEnd(i)
  <2> DEFINE w == [t EXCEPT !.at = "waiting", !.ok = TRUE]
             x == [t EXCEPT !.at = "raised"]
  <2>0. /\ t.at = "polling" /\ actors[t.cur].status # "RUNNING"
        /\ UNCHANGED <<actors, recorded, stored, gone, mem>>
        /\ t.cur \in DOMAIN actors /\ actors[t.cur] \in AnActor
    <3>1. /\ t.at = "polling" /\ actors[t.cur].status # "RUNNING"
          /\ UNCHANGED <<actors, recorded, stored, gone, mem>>
      BY <1>14 DEF SeeEnd, At, Status, apify
    <3>2. t.cur \in DOMAIN actors
      BY <1>0, <3>1 DEF Placed
    <3> QED
      BY <1>0, <3>1, <3>2 DEF Types
  <2>1. \/ /\ StatementWorks /\ row' = Beaten(mem) /\ UNCHANGED holder
           /\ \/ actors[t.cur].status = "SUCCEEDED" /\ Become(i, w)
              \/ actors[t.cur].status = "REFUSED" /\ Become(i, AfterFailure([t EXCEPT !.retry = FALSE]))
              \/ actors[t.cur].status = "FAILED" /\ Become(i, AfterFailure(t))
        \/ Fails("db") /\ Become(i, x) /\ UNCHANGED row
    BY <1>14, <2>0 DEF SeeEnd, Status, StatementFails, Raise, AnActor
  <2>2. CASE StatementWorks /\ row' = Beaten(mem) /\ UNCHANGED holder /\ actors[t.cur].status = "SUCCEEDED" /\ Become(i, w)
    <3> HIDE DEF t
    <3>1. "waiting" \in Places
      BY DEF Places
    <3>2. /\ w \in ATask /\ w.pages = t.pages /\ w.attached = t.attached /\ w.at = "waiting"
          /\ w.attempt = t.attempt /\ w.cur = t.cur /\ w.ok
      BY <1>0, <3>1 DEF ATask
    <3> HIDE DEF w
    <3>3. Succeeds(t, w)
      BY <2>0, <2>2, <3>2 DEF Succeeds, StatementWorks
    <3> QED
      BY <1>a, <2>2, <3>2, <3>3 DEF Moves, t
  <2>3. CASE StatementWorks /\ row' = Beaten(mem) /\ UNCHANGED holder /\ actors[t.cur].status = "REFUSED"
             /\ Become(i, AfterFailure([t EXCEPT !.retry = FALSE]))
    BY <1>8, <2>0, <2>3
  <2>4. CASE StatementWorks /\ row' = Beaten(mem) /\ UNCHANGED holder /\ actors[t.cur].status = "FAILED"
             /\ Become(i, AfterFailure(t))
    BY <1>8, <1>9, <2>0, <2>4
  <2>5. CASE Fails("db") /\ Become(i, x) /\ UNCHANGED row
    <3> HIDE DEF t
    <3>1. "raised" \in Places
      BY DEF Places
    <3>2. /\ x \in ATask /\ x.pages = t.pages /\ x.attached = t.attached /\ x.at = "raised"
          /\ x.attempt = t.attempt /\ x.cur = t.cur /\ x.ok = t.ok
      BY <1>0, <3>1 DEF ATask
    <3> HIDE DEF x
    <3>3. IsRaised(t, x)
      BY <2>0, <2>5, <3>2 DEF IsRaised, Same
    <3> QED
      BY <1>a, <2>5, <3>2, <3>3 DEF Moves, t
  <2> QED
    BY <2>1, <2>2, <2>3, <2>4, <2>5
<1> QED
  BY <1>1, <1>2, <1>4, <1>5, <1>6, <1>7, <1>10, <1>12, <1>13, <1>14

\* The steps that store, as moves.
LEMMA StoringMoves ==
    ASSUME TypeInv, NEW i \in Tasks,
           \/ TakeStoreLock(i) \/ CountAd(i) \/ ReadFails(i) \/ ReadEverything(i)
           \/ FailPages(i) \/ FinishPages(i) \/ Conclude(i)
           \/ \E ad \in AllAds : StoreAd(i, ad)
    PROVE  OnlyBatch(i) /\ Moves(tasks[i], tasks'[i])
<1> DEFINE t == tasks[i]
<1>0. Types /\ t \in ATask /\ Placed(t)
  BY DEF TypeInv, Types, Tasks
<1>a. ASSUME NEW u \in ATask, Become(i, u), u.pages = t.pages, u.attached = t.attached
      PROVE  tasks'[i] = u /\ OnlyBatch(i)
  <2> HIDE DEF t
  <2> QED
    BY <1>0, <1>a, BecomeIs DEF OnlyBatch, t
<1>b. {"saving", "failing", "counting", "closing", "concluding", "done", "raised"} \subseteq Places
  BY DEF Places
<1> DEFINE x == [t EXCEPT !.at = "raised"]
           y == [t EXCEPT !.at = "failing"]
<1>c. /\ x \in ATask /\ x.pages = t.pages /\ x.attached = t.attached /\ x.at = "raised"
      /\ x.attempt = t.attempt /\ x.cur = t.cur /\ x.ok = t.ok
      /\ y \in ATask /\ y.pages = t.pages /\ y.attached = t.attached /\ y.at = "failing"
      /\ y.attempt = t.attempt /\ y.cur = t.cur /\ y.ok = t.ok
  <2> HIDE DEF t
  <2> QED
    BY <1>0, <1>b DEF ATask
<1>d. ASSUME t.at \in {"waiting", "closing"}, Fails("db"), Raise(i),
             UNCHANGED <<actors, recorded, row, stored, mem>>
      PROVE  OnlyBatch(i) /\ Moves(tasks[i], tasks'[i])
  <2>1. Become(i, x)
    BY <1>d DEF Raise
  <2> HIDE DEF x, t
  <2>2. IsRaised(t, x)
    BY <1>c, <1>d DEF IsRaised, Same
  <2> QED
    BY <1>a, <1>c, <2>1, <2>2 DEF Moves, t
<1>e. ASSUME t.at \in {"waiting", "saving", "counting"}, Become(i, y),
             t.at = "waiting" => ~t.ok /\ UNCHANGED conn,
             \/ conn' = conn
             \/ Fails("db")
             \/ conn' = "aborted" /\ ~(AdsOfBatch(t.pages) \subseteq AdsOfBatch(tracked)),
             UNCHANGED <<actors, recorded, row, stored, gone, mem>>
      PROVE  OnlyBatch(i) /\ Moves(tasks[i], tasks'[i])
  <2> HIDE DEF y, t
  <2>1. Breaks(t, y)
    BY <1>c, <1>e DEF Breaks, Same
  <2> QED
    BY <1>a, <1>c, <1>e, <2>1 DEF Moves, t
<1>1. CASE TakeStoreLock(i)
  <2> DEFINE u == [t EXCEPT !.at = "saving", !.unread = actors[t.cur].data]
  <2>1. t.at = "waiting" /\ UNCHANGED <<actors, recorded, stored, gone, mem>>
    BY <1>1 DEF TakeStoreLock, At, apify
  <2>2. CASE t.ok
    <3>1. \/ StatementWorks /\ row' = Beaten(mem) /\ Become(i, u)
          \/ Fails("db") /\ Raise(i) /\ UNCHANGED row
      BY <1>1, <2>2 DEF TakeStoreLock, StatementFails
    <3>2. CASE StatementWorks /\ row' = Beaten(mem) /\ Become(i, u)
      <4>1. actors[t.cur].data \in SUBSET AllAds
        <5>1. t.cur \in DOMAIN actors
          BY <1>0, <2>1, <2>2 DEF Placed
        <5>2. actors[t.cur] \in AnActor
          BY <1>0, <5>1 DEF Types
        <5> QED
          BY <5>2 DEF AnActor
      <4> HIDE DEF t
      <4>2. /\ u \in ATask /\ u.pages = t.pages /\ u.attached = t.attached /\ u.at = "saving"
            /\ u.attempt = t.attempt /\ u.cur = t.cur /\ u.ok = t.ok /\ u.unread = actors[t.cur].data
        BY <1>0, <1>b, <4>1 DEF ATask
      <4> HIDE DEF u
      <4>3. Opens(t, u)
        BY <2>1, <2>2, <3>2, <4>2 DEF Opens, Same, StatementWorks
      <4> QED
        BY <1>a, <3>2, <4>2, <4>3 DEF Moves, t
    <3>3. CASE Fails("db") /\ Raise(i) /\ UNCHANGED row
      BY <1>d, <2>1, <3>3
    <3> QED
      BY <3>1, <3>2, <3>3
  <2>3. CASE ~t.ok
    <3>1. Become(i, y) /\ UNCHANGED <<row, conn>>
      BY <1>1, <2>3 DEF TakeStoreLock
    <3> QED
      BY <1>e, <2>1, <2>3, <3>1
  <2> QED
    BY <2>2, <2>3
<1>2. CASE CountAd(i)
  <2> DEFINE u == [t EXCEPT !.at = "saving"]
  <2>1. /\ t.at = "counting" /\ UNCHANGED <<actors, recorded, stored, gone, holder, mem>>
        /\ \/ StatementWorks /\ row' = Beaten(mem) /\ Become(i, u)
           \/ Fails("db") /\ Become(i, y) /\ UNCHANGED row
    BY <1>2 DEF CountAd, At, apify, StatementFails
  <2>2. CASE StatementWorks /\ row' = Beaten(mem) /\ Become(i, u)
    <3> HIDE DEF t
    <3>1. /\ u \in ATask /\ u.pages = t.pages /\ u.attached = t.attached /\ u.at = "saving"
          /\ u.attempt = t.attempt /\ u.cur = t.cur /\ u.ok = t.ok /\ u.unread = t.unread
      BY <1>0, <1>b DEF ATask
    <3> HIDE DEF u
    <3>2. Counts(t, u)
      BY <2>1, <2>2, <3>1 DEF Counts, Same, StatementWorks
    <3> QED
      BY <1>a, <2>2, <3>1, <3>2 DEF Moves, t
  <2>3. CASE Fails("db") /\ Become(i, y) /\ UNCHANGED row
    BY <1>e, <2>1, <2>3
  <2> QED
    BY <2>1, <2>2, <2>3
<1>3. CASE ReadFails(i)
  <2>1. t.at = "saving" /\ Become(i, y) /\ UNCHANGED <<actors, recorded, row, stored, gone, mem, conn>>
    BY <1>3 DEF ReadFails, At, apify, database
  <2> QED
    BY <1>e, <2>1
<1>4. CASE ReadEverything(i)
  <2>1. PICK complete \in BOOLEAN :
           /\ Become(i, [t EXCEPT !.at = "closing", !.complete = complete])
           /\ \/ complete = (actors[t.cur].data = AdsOfBatch(actors[t.cur].pages)) /\ UNCHANGED faults
              \/ Raised
              \/ Fault("summary")
    BY <1>4 DEF ReadEverything
  <2>2. t.at = "saving" /\ t.unread = {} /\ UNCHANGED <<actors, recorded, row, stored, gone, holder, mem, conn>>
    BY <1>4 DEF ReadEverything, At, apify, database
  <2> DEFINE u == [t EXCEPT !.at = "closing", !.complete = complete]
  <2> HIDE DEF t
  <2>3. /\ u \in ATask /\ u.pages = t.pages /\ u.attached = t.attached /\ u.at = "closing"
        /\ u.attempt = t.attempt /\ u.cur = t.cur /\ u.ok = t.ok /\ u.complete = complete
    BY <1>0, <1>b DEF ATask
  <2> HIDE DEF u
  <2>4. ReadsAll(t, u) /\ Become(i, u)
    BY <2>1, <2>2, <2>3 DEF ReadsAll, Same, u
  <2> QED
    BY <1>a, <2>3, <2>4 DEF Moves, t
<1>5. CASE FailPages(i)
  <2> DEFINE u == [t EXCEPT !.at = "closing", !.ok = FALSE, !.complete = FALSE]
  <2>1. /\ t.at = "failing" /\ Become(i, u)
        /\ mem' = [mem EXCEPT !.errors = @ + Cardinality(t.pages)]
        /\ conn' = IF conn = "aborted" THEN "ok" ELSE conn
        /\ UNCHANGED <<actors, recorded, row, stored, gone, holder, faults>>
    BY <1>5 DEF FailPages, At, apify, database
  <2> HIDE DEF t
  <2>2. /\ u \in ATask /\ u.pages = t.pages /\ u.attached = t.attached /\ u.at = "closing"
        /\ u.attempt = t.attempt /\ u.cur = t.cur /\ ~u.ok /\ ~u.complete
    BY <1>0, <1>b DEF ATask
  <2> HIDE DEF u
  <2>3. CountsFailed(t, u)
    BY <2>1, <2>2 DEF CountsFailed, Same
  <2> QED
    BY <1>a, <2>1, <2>2, <2>3 DEF Moves, t
<1>6. CASE FinishPages(i)
  <2> DEFINE u == [t EXCEPT !.at = "concluding"]
  <2>1. t.at = "closing" /\ UNCHANGED <<actors, recorded, stored>>
    BY <1>6 DEF FinishPages, At, apify
  <2>2. \/ /\ StatementWorks
           /\ gone' = IF t.complete THEN gone \cup (AdsOfBatch(t.pages \cap tracked) \ stored) ELSE gone
           /\ mem' = [mem EXCEPT !.done = @ + Cardinality(t.pages)]
           /\ row' = Beaten(mem') /\ Become(i, u) /\ UNCHANGED holder
        \/ Fails("db") /\ Raise(i) /\ UNCHANGED <<row, mem>>
    BY <1>6 DEF FinishPages, StatementFails
  <2>3. CASE Fails("db") /\ Raise(i) /\ UNCHANGED <<row, mem>>
    BY <1>d, <2>1, <2>3
  <2>4. CASE
           /\ StatementWorks
           /\ gone' = IF t.complete THEN gone \cup (AdsOfBatch(t.pages \cap tracked) \ stored) ELSE gone
           /\ mem' = [mem EXCEPT !.done = @ + Cardinality(t.pages)]
           /\ row' = Beaten(mem') /\ Become(i, u) /\ UNCHANGED holder
    <3> HIDE DEF t
    <3>1. /\ u \in ATask /\ u.pages = t.pages /\ u.attached = t.attached /\ u.at = "concluding"
          /\ u.attempt = t.attempt /\ u.cur = t.cur /\ u.ok = t.ok
      BY <1>0, <1>b DEF ATask
    <3> HIDE DEF u
    <3>2. Finishes(t, u)
      BY <2>1, <2>4, <3>1 DEF Finishes, Same, StatementWorks
    <3> QED
      BY <1>a, <2>4, <3>1, <3>2 DEF Moves, t
  <2> QED
    BY <2>2, <2>3, <2>4
<1>7. CASE Conclude(i)
  <2> DEFINE u == [t EXCEPT !.at = "done"]
  <2>1. t.at = "concluding" /\ UNCHANGED <<actors, row, stored, gone, mem>> /\ Become(i, u)
    BY <1>7 DEF Conclude, At, apify
  <2>2. \/ LastOf(t) # None /\ StatementWorks /\ recorded' = Concluded(LastOf(t), OutcomeOf(t))
        \/ LastOf(t) # None /\ Fails("db") /\ UNCHANGED recorded
        \/ LastOf(t) = None /\ UNCHANGED <<recorded, conn, faults>>
    BY <1>7 DEF Conclude, LastOf, OutcomeOf, Concluded, StatementFails
  <2> HIDE DEF t
  <2>3. /\ u \in ATask /\ u.pages = t.pages /\ u.attached = t.attached /\ u.at = "done"
        /\ u.attempt = t.attempt /\ u.cur = t.cur /\ u.ok = t.ok
    BY <1>0, <1>b DEF ATask
  <2> HIDE DEF u
  <2>4. Concludes(t, u)
    BY <2>1, <2>2, <2>3 DEF Concludes, Same
  <2> QED
    BY <1>a, <2>1, <2>3, <2>4 DEF Moves, t
<1>8. ASSUME NEW ad \in AllAds, StoreAd(i, ad)
      PROVE  OnlyBatch(i) /\ Moves(tasks[i], tasks'[i])
  <2> DEFINE u == [t EXCEPT !.at = "counting", !.unread = @ \ {ad}]
             v == [t EXCEPT !.unread = @ \ {ad}]
  <2>1. t.at = "saving" /\ ad \in t.unread /\ UNCHANGED <<actors, recorded, row, gone, holder>>
    BY <1>8 DEF StoreAd, At, apify
  <2>2. CASE ad \in AdsOfBatch(t.pages)
    <3>1. \/ /\ StatementWorks /\ stored' = stored \cup {ad} /\ mem' = [mem EXCEPT !.total = @ + Counted(ad)]
             /\ Become(i, u)
          \/ /\ UNCHANGED <<stored, mem>> /\ Become(i, y)
             /\ \/ Fails("db")
                \/ ad \notin AdsOfBatch(tracked) /\ conn' = "aborted"
      BY <1>8, <2>2 DEF StoreAd, StatementFails
    <3>2. CASE /\ StatementWorks /\ stored' = stored \cup {ad} /\ mem' = [mem EXCEPT !.total = @ + Counted(ad)]
               /\ Become(i, u)
      <4> HIDE DEF t
      <4>1. /\ u \in ATask /\ u.pages = t.pages /\ u.attached = t.attached /\ u.at = "counting"
            /\ u.attempt = t.attempt /\ u.cur = t.cur /\ u.ok = t.ok /\ u.unread = t.unread \ {ad}
        <5>1. t.unread \ {ad} \in SUBSET AllAds
          BY <1>0 DEF ATask
        <5> QED
          BY <1>0, <1>b, <5>1 DEF ATask
      <4> HIDE DEF u
      <4>2. Stores(t, u, ad)
        BY <2>1, <2>2, <3>2, <4>1 DEF Stores, Same, StatementWorks
      <4> QED
        BY <1>a, <3>2, <4>1, <4>2 DEF Moves, t
    <3>3. CASE /\ UNCHANGED <<stored, mem>> /\ Become(i, y)
             /\ \/ Fails("db")
                \/ ad \notin AdsOfBatch(tracked) /\ conn' = "aborted"
      BY <1>e, <2>1, <2>2, <3>3
    <3> QED
      BY <3>1, <3>2, <3>3
  <2>3. CASE ad \notin AdsOfBatch(t.pages)
    <3>1. Become(i, v) /\ UNCHANGED <<stored, mem, conn, faults>>
      BY <1>8, <2>3 DEF StoreAd
    <3> HIDE DEF t
    <3>2. /\ v \in ATask /\ v.pages = t.pages /\ v.attached = t.attached /\ v.at = "saving"
          /\ v.attempt = t.attempt /\ v.cur = t.cur /\ v.ok = t.ok /\ v.unread = t.unread \ {ad}
      <4>1. t.unread \ {ad} \in SUBSET AllAds
        BY <1>0 DEF ATask
      <4> QED
        BY <1>0, <2>1, <4>1 DEF ATask
    <3> HIDE DEF v
    <3>3. Skips(t, v, ad)
      BY <2>1, <2>3, <3>1, <3>2 DEF Skips, Same
    <3> QED
      BY <1>a, <3>1, <3>2, <3>3 DEF Moves, t
  <2> QED
    BY <2>2, <2>3
<1> QED
  BY <1>1, <1>2, <1>3, <1>4, <1>5, <1>6, <1>7, <1>8

\* Every step of a Batch is a move of that Batch alone.
LEMMA TaskMoves ==
    ASSUME TypeInv, NEW i \in Tasks, TaskStep(i)
    PROVE  OnlyBatch(i) /\ Moves(tasks[i], tasks'[i])
BY ReadingMoves, StoringMoves DEF TaskStep

---------------------------------------------------------------------------
(* What was read, and what of it is stored. *)

\* Actor runs are added, and one that ended stays as it is.
ActorsGrow ==
    /\ DOMAIN actors \subseteq DOMAIN actors'
    /\ \A a \in DOMAIN actors : /\ actors'[a].pages = actors[a].pages
                                /\ actors[a].status # "RUNNING" => actors'[a] = actors[a]

\* A move adds to the Actor runs and to what is stored.
LEMMA MovesGrow ==
    ASSUME TypeInv, NEW i \in Tasks, Moves(tasks[i], tasks'[i])
    PROVE  ActorsGrow /\ stored \subseteq stored'
<1> DEFINE t == tasks[i]
           u == tasks'[i]
<1>0. Types /\ t \in ATask /\ Placed(t)
  BY DEF TypeInv, Types, Tasks
<1>1. CASE Starts(t, u)
  <2>1. DOMAIN actors' = DOMAIN actors \cup {Len(actors) + 1} /\ \A a \in DOMAIN actors : actors'[a] = actors[a]
    BY <1>0, <1>1 DEF Starts, Types
  <2> QED
    BY <1>1, <2>1 DEF ActorsGrow, Starts
<1>2. CASE Waits(t, u)
  <2>1. t.cur \in DOMAIN actors
    BY <1>0, <1>2 DEF Waits, Placed
  <2> HIDE DEF t, u
  <2>2. DOMAIN actors' = DOMAIN actors /\ \A a \in DOMAIN actors : a # t.cur => actors'[a] = actors[a]
    BY <1>0, <1>2 DEF Waits, Types
  <2>3. actors'[t.cur].pages = actors[t.cur].pages
    <3>1. actors[t.cur] \in AnActor
      BY <1>0, <2>1 DEF Types
    <3> QED
      BY <1>2, <2>1, <3>1 DEF Waits, AnActor
  <2> QED
    BY <1>2, <2>1, <2>2, <2>3 DEF ActorsGrow, Waits
<1>3. CASE UNCHANGED actors /\ stored \subseteq stored'
  BY <1>3 DEF ActorsGrow
<1> HIDE DEF t, u
<1>4. CASE GetsSlot(t, u) \/ TriesAgain(t, u) \/ Records(t, u) \/ GoesOn(t, u) \/ Succeeds(t, u)
           \/ Opens(t, u) \/ Counts(t, u) \/ Breaks(t, u) \/ ReadsAll(t, u) \/ CountsFailed(t, u)
           \/ Finishes(t, u) \/ Concludes(t, u) \/ IsRaised(t, u)
  <2>1. UNCHANGED <<actors, stored>>
    BY <1>4 DEF GetsSlot, TriesAgain, Records, GoesOn, Succeeds, Opens, Counts, Breaks, ReadsAll,
                CountsFailed, Finishes, Concludes, IsRaised
  <2> QED
    BY <1>3, <2>1
<1>5. ASSUME NEW ad \in AllAds, Stores(t, u, ad) \/ Skips(t, u, ad)
      PROVE  UNCHANGED actors /\ stored \subseteq stored'
  BY <1>5 DEF Stores, Skips
<1> QED
  BY <1>1, <1>2, <1>3, <1>4, <1>5 DEF Moves, t, u

\* An Actor run that ends stays as it is from then on.
LEMMA EndingGrows ==
    ASSUME TypeInv, NEW a \in DOMAIN actors, EndActorRun(a)
    PROVE  ActorsGrow
<1>1. PICK status, data : actors' = [actors EXCEPT ![a].status = status, ![a].data = data]
  BY DEF EndActorRun
<1>2. actors[a] \in AnActor /\ actors \in Seq(AnActor)
  BY DEF TypeInv, Types
<1>2a. actors[a].status = "RUNNING"
  BY DEF EndActorRun
<1>3. DOMAIN actors' = DOMAIN actors /\ \A b \in DOMAIN actors : b # a => actors'[b] = actors[b]
  BY <1>1, <1>2
<1>4. actors'[a].pages = actors[a].pages
  BY <1>1, <1>2 DEF AnActor
<1> QED
  BY <1>2a, <1>3, <1>4 DEF ActorsGrow

\* Every step adds to the Actor runs; what is stored stays unless a Page is deleted.
LEMMA StepGrows ==
    ASSUME TypeInv, [Next]_vars
    PROVE  ActorsGrow /\ ("delete" \notin faults'.kinds => stored \subseteq stored' /\ UNCHANGED tracked)
<1>1. ASSUME NEW i \in Tasks, TaskStep(i) PROVE ActorsGrow /\ stored \subseteq stored' /\ UNCHANGED tracked
  BY <1>1, TaskMoves, TaskFaults, MovesGrow
<1>2. CASE Crash \/ Stop \/ Collected \/ CollectorFails \/ FinishRun \/ NextWorker
  <2>1. UNCHANGED <<actors, stored, tracked>>
    BY <1>2 DEF Crash, Stop, Collected, CollectorFails, FinishRun, NextWorker, Resume, CloseInterrupted,
                apify, database
  <2> QED
    BY <2>1 DEF ActorsGrow
<1>3. ASSUME NEW p \in Pages, DeletePage(p) PROVE ActorsGrow /\ "delete" \in faults'.kinds
  BY <1>3, FaultsAddUp DEF DeletePage, apify, ActorsGrow
<1>4. ASSUME NEW a \in DOMAIN actors, EndActorRun(a) PROVE ActorsGrow /\ UNCHANGED <<stored, tracked>>
  BY <1>4, EndingGrows DEF EndActorRun, database
<1>5. CASE Over \/ UNCHANGED vars
  <2>1. UNCHANGED <<actors, stored, tracked>>
    BY <1>5 DEF Over, vars, apify, database
  <2> QED
    BY <2>1 DEF ActorsGrow
<1> QED
  BY <1>1, <1>2, <1>3, <1>4, <1>5 DEF Next

\* The Batches of the worker after a step that is not one of theirs: the same ones, none, or
\* the ones of a resumed run.
LEMMA OtherSteps ==
    ASSUME [Next]_vars, ~\E i \in Tasks : TaskStep(i)
    PROVE  \/ UNCHANGED tasks
           \/ tasks' = <<>>
           \/ Resume
BY DEF Next, Collected, CollectorFails, FinishRun, Crash, Stop, Down, NextWorker, CloseInterrupted,
       DeletePage, EndActorRun, Over, vars, memory

\* A Batch a resumed run follows: its Actor run was started for those of its Pages that are left.
LEMMA ResumedIs ==
    ASSUME TypeInv, NEW k \in DOMAIN ResumePlan
    PROVE  LET t == ResumePlan[k]
           IN  /\ t.at = "queued" /\ t.cur = None /\ ~t.ok /\ ~t.complete
               /\ t.attached # None => t.pages \subseteq actors[t.attached].pages
<1> DEFINE t == ResumePlan[k]
<1>1. Resumed(t) /\ Types /\ Known
  BY ResumePlanIs DEF TypeInv
<1> HIDE DEF t
<1>2. CASE t = Task(t.pages, None)
  BY <1>2 DEF Task, t
<1>3. CASE \E m \in OpenRows : t = Followed(m)
  <2>1. PICK m \in OpenRows : t = Followed(m)
    BY <1>3
  <2>2. m \in Rows
    BY DEF OpenRows, FirstRows
  <2>3. PICK j \in Rows : recorded[j].pages = recorded[m].pages /\ Latest(recorded[m].pages) = recorded[j]
    BY <1>1, <2>2, LatestIs DEF IsLatest
  <2>4. t.pages \subseteq recorded[j].pages /\ t.attached = recorded[j].id
    BY <2>1, <2>3 DEF Followed, Task
  <2>5. t.at = "queued" /\ t.cur = None /\ t.ok = FALSE /\ t.complete = FALSE
    BY <2>1 DEF Followed, Task
  <2> QED
    BY <1>1, <2>4, <2>5 DEF Known, t
<1> QED
  BY <1>1, <1>2, <1>3 DEF Resumed

ReadOf(t) ==
    /\ t.cur # None => t.pages \subseteq actors[t.cur].pages
    /\ t.attached # None => t.pages \subseteq actors[t.attached].pages
    /\ t.ok => t.cur # None /\ actors[t.cur].status = "SUCCEEDED"
    /\ t.at \in {"saving", "counting"} => t.ok

StoredOf(t) ==
    /\ t.at \in {"saving", "counting"} =>
          \A ad \in AdsOfBatch(t.pages) : ad \in actors[t.cur].data => ad \in t.unread \/ ad \in stored
    /\ t.at \in {"closing", "concluding", "done"} /\ t.ok =>
          \A ad \in AdsOfBatch(t.pages) : ad \in actors[t.cur].data => ad \in stored

ReadInv ==
    /\ \A i \in Tasks : ReadOf(tasks[i])
    /\ "delete" \notin faults.kinds => tracked = Pages /\ \A i \in Tasks : StoredOf(tasks[i])

\* A move keeps what its Batch read and stored.
LEMMA ReadMove ==
    ASSUME TypeInv, ReadInv, NEW i \in Tasks, OnlyBatch(i), Moves(tasks[i], tasks'[i])
    PROVE  ReadOf(tasks[i])' /\ ("delete" \notin faults.kinds => StoredOf(tasks[i])')
<1> DEFINE t == tasks[i]
           u == tasks'[i]
<1>0. Types /\ Known /\ t \in ATask /\ Placed(t) /\ ReadOf(t) /\ ("delete" \notin faults.kinds => StoredOf(t))
  BY DEF TypeInv, Types, Tasks, ReadInv
<1>1. u.pages = t.pages /\ u.attached = t.attached
  BY DEF OnlyBatch
<1>2. t.attached # None => t.attached \in DOMAIN actors
  BY <1>0 DEF Placed, Known
<1>3. ActorsGrow /\ stored \subseteq stored'
  BY MovesGrow
<1>4. t.cur \in {None} \cup DOMAIN actors
  BY <1>0 DEF Placed
<1> DEFINE Goal ==
       /\ u.cur # None => u.pages \subseteq actors'[u.cur].pages
       /\ u.attached # None => u.pages \subseteq actors'[u.attached].pages
       /\ u.ok => u.cur # None /\ actors'[u.cur].status = "SUCCEEDED"
       /\ u.at \in {"saving", "counting"} => u.ok
       /\ "delete" \notin faults.kinds =>
             /\ u.at \in {"saving", "counting"} =>
                   \A ad \in AdsOfBatch(u.pages) : ad \in actors'[u.cur].data => ad \in u.unread \/ ad \in stored'
             /\ u.at \in {"closing", "concluding", "done"} /\ u.ok =>
                   \A ad \in AdsOfBatch(u.pages) : ad \in actors'[u.cur].data => ad \in stored'
<1> SUFFICES Goal
  BY DEF ReadOf, StoredOf, AdsOfBatch
<1> HIDE DEF t, u
<1>a. u.attached # None => u.pages \subseteq actors'[u.attached].pages
  BY <1>0, <1>1, <1>2, <1>3 DEF ActorsGrow, ReadOf
<1>b. u.cur = t.cur /\ u.cur # None => u.pages \subseteq actors'[u.cur].pages
  BY <1>0, <1>1, <1>3, <1>4 DEF ActorsGrow, ReadOf
<1>c. t.ok => actors'[t.cur] = actors[t.cur]
  BY <1>0, <1>3, <1>4 DEF ActorsGrow, ReadOf
<1>5. CASE GetsSlot(t, u)
  BY <1>0, <1>a, <1>b, <1>5 DEF GetsSlot, Placed
<1>6. CASE Starts(t, u)
  <2>1. actors'[u.cur] = [pages |-> t.pages, status |-> "RUNNING", data |-> {}]
    BY <1>0, <1>6 DEF Starts, Types
  <2>2. ~u.ok /\ u.at = "starting" /\ actors'[u.cur].pages = u.pages
    BY <1>0, <1>1, <1>6, <2>1 DEF Starts, Placed
  <2> QED
    BY <1>a, <2>2
<1>7. CASE TriesAgain(t, u)
  BY <1>0, <1>a, <1>b, <1>7 DEF TriesAgain
<1>8. CASE Records(t, u) \/ Waits(t, u)
  BY <1>0, <1>a, <1>b, <1>8 DEF Records, Waits, Placed
<1>9. CASE GoesOn(t, u)
  BY <1>0, <1>1, <1>a, <1>9 DEF GoesOn, Placed
<1>10. CASE Succeeds(t, u)
  BY <1>0, <1>1, <1>a, <1>b, <1>10 DEF Succeeds, Placed
<1>11. CASE Opens(t, u)
  BY <1>0, <1>a, <1>b, <1>c, <1>11 DEF Opens, Same, ReadOf
<1>12. ASSUME NEW ad \in AllAds, Stores(t, u, ad) PROVE Goal
  BY <1>0, <1>1, <1>a, <1>b, <1>c, <1>12 DEF Stores, Same, ReadOf, StoredOf
<1>13. ASSUME NEW ad \in AllAds, Skips(t, u, ad) PROVE Goal
  BY <1>0, <1>1, <1>a, <1>b, <1>c, <1>13 DEF Skips, Same, ReadOf, StoredOf
<1>14. CASE Counts(t, u)
  BY <1>0, <1>1, <1>a, <1>b, <1>c, <1>14 DEF Counts, Same, ReadOf, StoredOf
<1>15. CASE ReadsAll(t, u)
  BY <1>0, <1>1, <1>a, <1>b, <1>c, <1>15 DEF ReadsAll, Same, ReadOf, StoredOf
<1>16. CASE Breaks(t, u)
  BY <1>0, <1>1, <1>a, <1>b, <1>c, <1>16 DEF Breaks, Same, ReadOf, StoredOf
<1>17. CASE CountsFailed(t, u)
  BY <1>0, <1>1, <1>a, <1>b, <1>c, <1>17 DEF CountsFailed, Same, ReadOf, StoredOf
<1>18. CASE Finishes(t, u)
  BY <1>0, <1>1, <1>a, <1>b, <1>c, <1>18 DEF Finishes, Same, ReadOf, StoredOf
<1>19. CASE Concludes(t, u)
  BY <1>0, <1>1, <1>a, <1>b, <1>c, <1>19 DEF Concludes, Same, ReadOf, StoredOf
<1>20. CASE IsRaised(t, u)
  BY <1>0, <1>1, <1>a, <1>b, <1>c, <1>20 DEF IsRaised, Same, ReadOf, StoredOf
<1> QED
  BY <1>5, <1>6, <1>7, <1>8, <1>9, <1>10, <1>11, <1>12, <1>13, <1>14, <1>15, <1>16, <1>17, <1>18, <1>19, <1>20
     DEF Moves, t, u

\* What was read stays read.
LEMMA StaysRead ==
    ASSUME TypeInv, NEW j \in Tasks, ReadOf(tasks[j]), ActorsGrow, j \in Tasks', tasks'[j] = tasks[j]
    PROVE  /\ ReadOf(tasks[j])'
           /\ StoredOf(tasks[j]) /\ stored \subseteq stored' => StoredOf(tasks[j])'
<1> DEFINE t == tasks[j]
<1>0. Known /\ Placed(t)
  BY DEF TypeInv
<1>1. t.cur \in {None} \cup DOMAIN actors /\ (t.attached # None => t.attached \in DOMAIN actors)
  BY <1>0 DEF Placed, Known
<1>2. /\ t.cur # None => actors'[t.cur].pages = actors[t.cur].pages
      /\ t.attached # None => actors'[t.attached].pages = actors[t.attached].pages
      /\ t.ok => actors'[t.cur] = actors[t.cur]
  BY <1>1 DEF ActorsGrow, ReadOf
<1>3. ReadOf(t)'
  BY <1>2 DEF ReadOf
<1>4. ASSUME StoredOf(t), stored \subseteq stored' PROVE StoredOf(t)'
  BY <1>2, <1>4 DEF StoredOf, ReadOf, AdsOfBatch
<1> QED
  BY <1>3, <1>4

\* Every step keeps what was read and stored.
LEMMA ReadStep ==
    ASSUME TypeInv, ReadInv, [Next]_vars
    PROVE  ReadInv'
<1>0. ActorsGrow /\ ("delete" \notin faults'.kinds => stored \subseteq stored' /\ UNCHANGED tracked)
  BY StepGrows
<1>1. "delete" \notin faults'.kinds => "delete" \notin faults.kinds /\ tracked' = Pages
  BY <1>0, StepFaults DEF ReadInv
<1>2. ASSUME NEW i \in Tasks, TaskStep(i) PROVE ReadInv'
  <2>1. OnlyBatch(i) /\ Moves(tasks[i], tasks'[i])
    BY <1>2, TaskMoves
  <2>2. ReadOf(tasks[i])' /\ ("delete" \notin faults.kinds => StoredOf(tasks[i])')
    BY <2>1, ReadMove
  <2>3. ASSUME NEW j \in Tasks, j # i
        PROVE  ReadOf(tasks[j])' /\ ("delete" \notin faults'.kinds => StoredOf(tasks[j])')
    BY <1>0, <1>1, <2>1, <2>3, StaysRead DEF ReadInv, OnlyBatch
  <2> QED
    BY <1>1, <2>1, <2>2, <2>3 DEF ReadInv, OnlyBatch
<1>3. CASE UNCHANGED tasks
  <2>1. ASSUME NEW j \in Tasks PROVE ReadOf(tasks[j])' /\ ("delete" \notin faults'.kinds => StoredOf(tasks[j])')
    BY <1>0, <1>1, <1>3, <2>1, StaysRead DEF ReadInv, Tasks
  <2> QED
    BY <1>1, <1>3, <2>1 DEF ReadInv, Tasks
<1>4. CASE tasks' = <<>>
  BY <1>1, <1>4 DEF ReadInv, Tasks
<1>5. CASE Resume
  <2>1. ASSUME NEW k \in Tasks' PROVE ReadOf(tasks[k])' /\ StoredOf(tasks[k])'
    <3> DEFINE t == ResumePlan[k]
    <3>1. k \in DOMAIN ResumePlan /\ tasks'[k] = t /\ UNCHANGED actors
      BY <1>5 DEF Resume, Tasks, apify
    <3>2. /\ t.at = "queued" /\ t.cur = None /\ ~t.ok
          /\ t.attached # None => t.pages \subseteq actors[t.attached].pages
      BY <3>1, ResumedIs
    <3> HIDE DEF t
    <3> QED
      BY <3>1, <3>2 DEF ReadOf, StoredOf
  <2> QED
    BY <1>1, <2>1 DEF ReadInv
<1> QED
  BY <1>2, <1>3, <1>4, <1>5, OtherSteps

\* Nothing was read yet.
LEMMA ReadInit == Init => ReadInv
<1> SUFFICES ASSUME Init PROVE ReadInv
  OBVIOUS
<1>1. \A k \in Tasks : tasks[k] = Task(tasks[k].pages, None)
  <2>1. Pages \in SUBSET Pages
    OBVIOUS
  <2> QED
    BY <2>1, FreshIs DEF Init, Tasks
<1>2. ASSUME NEW k \in Tasks PROVE ReadOf(tasks[k]) /\ StoredOf(tasks[k])
  <2> DEFINE t == tasks[k]
  <2>0. t = Task(t.pages, None)
    BY <1>1
  <2>1. t.at = "queued" /\ t.cur = None /\ t.ok = FALSE /\ t.attached = None
    BY <2>0 DEF Task
  <2> HIDE DEF t
  <2>2. ReadOf(t) /\ StoredOf(t)
    BY <2>1 DEF ReadOf, StoredOf
  <2> QED
    BY <2>2 DEF t
<1> QED
  BY <1>2 DEF ReadInv, Init

\* What was read and stored holds in every behaviour.
LEMMA InvRead == Spec => []ReadInv
BY ReadInit, ReadStep, InvTyped, PTL DEF Spec

---------------------------------------------------------------------------
(* No ad is wrongly marked as stopped. *)

GoneKinds == {"summary", "record", "db", "delete"}

\* A Batch said to have been read in full was.
InFull(t) ==
    /\ t.at # "raised"
    /\ t.at = "closing" /\ t.complete =>
          t.ok /\ actors[t.cur].data = AdsOfBatch(actors[t.cur].pages)

GoneInv ==
    faults.kinds \cap GoneKinds = {} =>
       conn = "ok" /\ gone = {} /\ \A i \in Tasks : InFull(tasks[i])

\* A statement fails and an exception is raised only where a fault allows it.
LEMMA NoFault ==
    ASSUME faults'.kinds \cap GoneKinds = {}, NEW kind \in GoneKinds
    PROVE  ~Fault(kind) /\ (conn = "ok" => ~Fails(kind))
BY FaultsAddUp DEF Fails

\* The ads of some of the Pages are among those of more.
LEMMA BatchesAds ==
    ASSUME NEW P, NEW Q, P \subseteq Q
    PROVE  AdsOfBatch(P) \subseteq AdsOfBatch(Q)
BY DEF AdsOfBatch

\* A move marks no ad that runs.
LEMMA GoneMove ==
    ASSUME TypeInv, ReadInv, GoneInv, NEW i \in Tasks, OnlyBatch(i), Moves(tasks[i], tasks'[i]),
           faults'.kinds \cap GoneKinds = {}, faults.kinds \cap GoneKinds = {}
    PROVE  conn' = "ok" /\ gone' = {} /\ InFull(tasks[i])'
<1> DEFINE t == tasks[i]
           u == tasks'[i]
<1>0. /\ ReadOf(t) /\ StoredOf(t) /\ InFull(t) /\ Placed(t)
      /\ conn = "ok" /\ gone = {} /\ tracked = Pages /\ ~Raised /\ t.pages \subseteq Pages
  <2>1. tasks[i] \in ATask
    BY DEF TypeInv, Types, Tasks
  <2> QED
    BY <2>1 DEF TypeInv, ReadInv, GoneInv, GoneKinds, Raised, InFull, ATask
<1>1. ~Fails("db") /\ ~Fails("record") /\ ~Fault("summary")
  BY <1>0, NoFault DEF GoneKinds
<1>2. u.pages = t.pages
  BY DEF OnlyBatch
<1>3. ActorsGrow /\ t.cur \in {None} \cup DOMAIN actors
  BY <1>0, MovesGrow DEF Placed
<1>4. t.ok => actors'[t.cur] = actors[t.cur]
  BY <1>0, <1>3 DEF ActorsGrow, ReadOf
<1> DEFINE Goal == /\ conn' = "ok" /\ gone' = {} /\ u.at # "raised"
                   /\ u.at = "closing" /\ u.complete =>
                         u.ok /\ actors'[u.cur].data = AdsOfBatch(actors'[u.cur].pages)
<1> SUFFICES Goal
  BY DEF InFull, AdsOfBatch
<1> HIDE DEF t, u
<1>5. CASE GetsSlot(t, u) \/ Starts(t, u) \/ GoesOn(t, u) \/ Succeeds(t, u) \/ Opens(t, u)
           \/ Counts(t, u)
  BY <1>0, <1>5 DEF GetsSlot, Starts, GoesOn, Succeeds, Opens, Counts
<1>6. CASE TriesAgain(t, u) \/ Records(t, u) \/ IsRaised(t, u)
  BY <1>0, <1>1, <1>6 DEF TriesAgain, Records, IsRaised, StatementWorks
<1>7. CASE Waits(t, u)
  BY <1>0, <1>7 DEF Waits
<1>8. ASSUME NEW ad \in AllAds, Stores(t, u, ad) \/ Skips(t, u, ad) PROVE Goal
  BY <1>0, <1>8 DEF Stores, Skips
<1>9. CASE Breaks(t, u)
  <2>1. AdsOfBatch(t.pages) \subseteq AdsOfBatch(tracked)
    BY <1>0, BatchesAds
  <2> QED
    BY <1>0, <1>1, <1>9, <2>1 DEF Breaks
<1>10. CASE ReadsAll(t, u)
  BY <1>0, <1>1, <1>4, <1>10 DEF ReadsAll, Same, ReadOf
<1>11. CASE CountsFailed(t, u)
  BY <1>0, <1>11 DEF CountsFailed
<1>12. CASE Finishes(t, u)
  <2>1. ASSUME t.complete PROVE AdsOfBatch(t.pages \cap tracked) \subseteq stored
    <3>1. t.ok /\ t.cur # None /\ actors[t.cur].data = AdsOfBatch(actors[t.cur].pages)
          /\ t.pages \subseteq actors[t.cur].pages
      BY <1>0, <1>12, <2>1 DEF Finishes, InFull, ReadOf
    <3>2. AdsOfBatch(t.pages) \subseteq actors[t.cur].data
      BY <3>1, BatchesAds
    <3>3. AdsOfBatch(t.pages) \subseteq stored
      BY <1>0, <1>12, <3>1, <3>2 DEF Finishes, StoredOf
    <3>4. t.pages \cap tracked = t.pages
      BY <1>0
    <3> QED
      BY <3>3, <3>4
  <2> QED
    BY <1>0, <1>12, <2>1 DEF Finishes
<1>13. CASE Concludes(t, u)
  BY <1>0, <1>1, <1>13 DEF Concludes, StatementWorks
<1> QED
  BY <1>5, <1>6, <1>7, <1>8, <1>9, <1>10, <1>11, <1>12, <1>13 DEF Moves, t, u

\* No step marks an ad that runs.
LEMMA GoneStep ==
    ASSUME TypeInv, ReadInv, GoneInv, [Next]_vars
    PROVE  GoneInv'
<1> SUFFICES ASSUME faults'.kinds \cap GoneKinds = {}
             PROVE  conn' = "ok" /\ gone' = {} /\ \A j \in Tasks' : InFull(tasks[j])'
  BY DEF GoneInv
<1>0. /\ faults.kinds \cap GoneKinds = {}
      /\ conn = "ok" /\ gone = {} /\ \A i \in Tasks : InFull(tasks[i])
  BY StepFaults DEF GoneInv
<1>1. ActorsGrow
  BY StepGrows
<1>2. ASSUME NEW j \in Tasks, j \in Tasks', tasks'[j] = tasks[j] PROVE InFull(tasks[j])'
  <2> DEFINE t == tasks[j]
  <2>1. InFull(t) /\ ReadOf(t) /\ t.cur \in {None} \cup DOMAIN actors
    BY <1>0 DEF TypeInv, Placed, ReadInv
  <2>2. t.ok => actors'[t.cur] = actors[t.cur]
    BY <1>1, <2>1 DEF ActorsGrow, ReadOf
  <2>3. tasks'[j] = t
    BY <1>2
  <2> HIDE DEF t
  <2> QED
    BY <2>1, <2>2, <2>3 DEF InFull, AdsOfBatch
<1>3. ASSUME NEW i \in Tasks, TaskStep(i)
      PROVE  conn' = "ok" /\ gone' = {} /\ \A j \in Tasks' : InFull(tasks[j])'
  <2>1. OnlyBatch(i) /\ Moves(tasks[i], tasks'[i])
    BY <1>3, TaskMoves
  <2>2. conn' = "ok" /\ gone' = {} /\ InFull(tasks[i])'
    BY <1>0, <2>1, GoneMove
  <2> QED
    BY <1>2, <2>1, <2>2 DEF OnlyBatch
<1>4. ASSUME ~\E i \in Tasks : TaskStep(i)
      PROVE  conn' = "ok" /\ gone' = {} /\ \A j \in Tasks' : InFull(tasks[j])'
  <2>1. ~\E p \in Pages : DeletePage(p)
    BY FaultsAddUp DEF DeletePage, GoneKinds
  <2>2. conn' = "ok" /\ gone' = {}
    BY <1>0, <1>4, <2>1 DEF Next, Collected, CollectorFails, FinishRun, Crash, Stop, Down, NextWorker, Resume,
       CloseInterrupted, EndActorRun, Over, vars, memory, database
  <2>3. CASE UNCHANGED tasks
    BY <1>2, <2>2, <2>3 DEF Tasks
  <2>4. CASE tasks' = <<>>
    BY <2>2, <2>4 DEF Tasks
  <2>5. CASE Resume
    <3>1. ASSUME NEW k \in Tasks' PROVE InFull(tasks[k])'
      <4> DEFINE t == ResumePlan[k]
      <4>1. k \in DOMAIN ResumePlan /\ tasks'[k] = t
        BY <2>5 DEF Resume, Tasks
      <4>2. t.at = "queued"
        BY <4>1, ResumedIs
      <4> HIDE DEF t
      <4> QED
        BY <4>1, <4>2 DEF InFull
    <3> QED
      BY <2>2, <3>1
  <2> QED
    BY <1>4, <2>3, <2>4, <2>5, OtherSteps
<1> QED
  BY <1>3, <1>4

\* Nothing is marked yet.
LEMMA GoneInit == Init => GoneInv
<1> SUFFICES ASSUME Init PROVE GoneInv
  OBVIOUS
<1>1. ASSUME NEW k \in Tasks PROVE InFull(tasks[k])
  <2> DEFINE t == tasks[k]
  <2>1. Pages \in SUBSET Pages
    OBVIOUS
  <2>2. t = Task(t.pages, None)
    BY <2>1, FreshIs DEF Init, Tasks
  <2>3. t.at = "queued"
    BY <2>2 DEF Task
  <2> HIDE DEF t
  <2>4. InFull(t)
    BY <2>3 DEF InFull
  <2> QED
    BY <2>4 DEF t
<1> QED
  BY <1>1 DEF GoneInv, Init

\* No ad that still runs on Meta is marked as gone: only a Batch read in full marks any, and all its ads
\* are stored by then.
THEOREM NothingWronglyGone == Spec => []NoAdWronglyGone
<1>1. GoneInv => NoAdWronglyGone
  BY DEF GoneInv, NoAdWronglyGone, GoneKinds
<1> QED
  BY <1>1, GoneInit, GoneStep, InvRead, InvTyped, PTL DEF Spec

---------------------------------------------------------------------------
(* Which rows are a Batch's, and which of them tells that it was dealt     *)
(* with.  Deleting a Page breaks this: a Batch is known by its Pages.      *)

EqualOrApart(P, Q) == P = Q \/ P \cap Q = {}

\* Rows of the same Pages are the attempts of one Batch, and only the last one may say
\* that it was dealt with.
RowsInv ==
    \A k, l \in Rows :
        /\ EqualOrApart(recorded[k].pages, recorded[l].pages)
        /\ recorded[k].id = recorded[l].id => k = l
        /\ k < l /\ recorded[k].pages = recorded[l].pages => recorded[k].outcome = "none"

\* Row k, seen from a Batch of the worker: a Batch that is not done was not dealt with, and
\* its Actor run is the last one recorded.  The one it follows was, until another replaced it.
RowOf(k, t) ==
    /\ EqualOrApart(recorded[k].pages, t.pages)
    /\ recorded[k].pages = t.pages /\ recorded[k].outcome # "none" => t.at = "done"
    /\ t.at = "starting" => recorded[k].id # t.cur
    /\ t.cur # None /\ recorded[k].id = t.cur => IsLatest(k, t.pages)
    /\ t.attached # None /\ recorded[k].id = t.attached =>
          \/ IsLatest(k, t.pages)
          \/ /\ t.cur # None /\ t.attempt = APIFY_ATTEMPTS
             /\ t.at \notin {"queued", "attempting", "starting"}

LinkOf(t) ==
    /\ t.cur # None => actors[t.cur].pages = t.pages
    /\ t.attached # None => actors[t.attached].pages = t.pages
    /\ t.at = "starting" /\ t.attached # None => t.attempt = APIFY_ATTEMPTS
    /\ t.at # "queued" /\ t.attached # None => t.attempt >= AttemptOf(t.attached) - 1
    /\ \A k \in Rows : RowOf(k, t)

LinkInv ==
    "delete" \notin faults.kinds =>
        /\ RowsInv
        /\ \A i \in Tasks : LinkOf(tasks[i])
        /\ \A i, j \in Tasks : i # j => tasks[i].pages \cap tasks[j].pages = {}

RowsKeep ==
    /\ Rows \subseteq Rows'
    /\ \A k \in Rows : /\ recorded'[k].id = recorded[k].id
                       /\ recorded'[k].pages = recorded[k].pages
                       /\ recorded'[k].attempt = recorded[k].attempt

NewRow(t) == [id |-> t.cur, pages |-> t.pages, attempt |-> t.attempt, outcome |-> "none"]

\* The rows a move leaves: one more, or the outcome of the Batch.
RowsMoved(t, u) ==
    \/ UNCHANGED recorded
    \/ /\ t.at = "starting" /\ u.at = "polling" /\ u.cur = t.cur
       /\ Rows' = Rows \cup {Len(recorded) + 1} /\ recorded'[Len(recorded) + 1] = NewRow(t)
       /\ \A k \in Rows : recorded'[k] = recorded[k]
    \/ /\ t.at = "concluding" /\ u.at = "done" /\ LastOf(t) # None
       /\ Rows' = Rows
       /\ \A k \in Rows : recorded[k].id # LastOf(t) => recorded'[k].outcome = recorded[k].outcome

\* A move keeps the rows, but for that.
LEMMA RowsMove ==
    ASSUME TypeInv, NEW i \in Tasks, Moves(tasks[i], tasks'[i])
    PROVE  RowsKeep /\ RowsMoved(tasks[i], tasks'[i])
<1> DEFINE t == tasks[i]
           u == tasks'[i]
<1>0. /\ Rows = 1..Len(recorded) /\ Len(recorded) \in Nat /\ Types
      /\ recorded \in Seq(ARecord)
  BY DEF TypeInv, Types, Rows
<1> SUFFICES RowsKeep /\ RowsMoved(t, u)
  OBVIOUS
<1>m. Moves(t, u)
  OBVIOUS
<1> HIDE DEF t, u
<1>1. CASE UNCHANGED recorded
  BY <1>1 DEF RowsKeep, RowsMoved, Rows
<1>2. CASE Records(t, u)
  <2>1. CASE recorded' = Append(recorded, NewRow(t))
    <3>1. Rows' = Rows \cup {Len(recorded) + 1} /\ recorded'[Len(recorded) + 1] = NewRow(t)
          /\ \A k \in Rows : recorded'[k] = recorded[k]
      <4> DEFINE r == NewRow(t)
      <4>1. recorded' = Append(recorded, r)
        BY <2>1
      <4> HIDE DEF r
      <4>2. Rows' = 1..(Len(recorded) + 1) /\ recorded'[Len(recorded) + 1] = r
            /\ \A k \in Rows : recorded'[k] = recorded[k]
        BY <1>0, <4>1 DEF Rows
      <4> QED
        BY <1>0, <4>2 DEF r
    <3>2. t.at = "starting" /\ u.at = "polling" /\ u.cur = t.cur
      BY <1>2 DEF Records
    <3>3. RowsKeep
      BY <3>1 DEF RowsKeep
    <3> QED
      BY <3>1, <3>2, <3>3 DEF RowsMoved
  <2> QED
    BY <1>1, <1>2, <2>1 DEF Records, NewRow
<1>3. CASE Concludes(t, u)
  <2>1. CASE LastOf(t) # None /\ recorded' = Concluded(LastOf(t), OutcomeOf(t))
    <3>1. OutcomeOf(t) \in {"none", "stored", "failed"}
      BY DEF OutcomeOf
    <3>2. RowsKeep /\ Rows' = Rows
      BY <1>0, <2>1, <3>1, RowsConcluded DEF RowsKeep
    <3>3. \A k \in Rows : recorded[k].id # LastOf(t) => recorded'[k] = recorded[k]
      BY <2>1 DEF Concluded
    <3>4. t.at = "concluding" /\ u.at = "done"
      BY <1>3 DEF Concludes
    <3> QED
      BY <2>1, <3>2, <3>3, <3>4 DEF RowsMoved
  <2> QED
    BY <1>1, <1>3, <2>1 DEF Concludes
<1>4. ASSUME NEW ad \in AllAds, Stores(t, u, ad) \/ Skips(t, u, ad) PROVE UNCHANGED recorded
  BY <1>4 DEF Stores, Skips
<1>5. ASSUME ~Records(t, u), ~Concludes(t, u) PROVE UNCHANGED recorded
  BY <1>m, <1>4, <1>5 DEF Moves, GetsSlot, Starts, TriesAgain, GoesOn, Waits, Succeeds, Opens, Counts, Breaks,
     ReadsAll, CountsFailed, Finishes, IsRaised
<1> QED
  BY <1>1, <1>2, <1>3, <1>5

\* The attempt a recorded Actor run is, when no other row is of it.
LEMMA AttemptIs ==
    ASSUME RowsInv, NEW k \in Rows
    PROVE  AttemptOf(recorded[k].id) = recorded[k].attempt
<1> DEFINE c == CHOOSE l \in Rows : recorded[l].id = recorded[k].id
<1>1. c \in Rows /\ recorded[c].id = recorded[k].id
  OBVIOUS
<1>2. AttemptOf(recorded[k].id) = recorded[c].attempt
  BY DEF AttemptOf
<1> HIDE DEF c
<1>3. c = k
  BY <1>1 DEF RowsInv
<1> QED
  BY <1>2, <1>3

\* ... which does not change.
LEMMA AttemptStays ==
    ASSUME RowsInv, RowsInv', RowsKeep, NEW k \in Rows
    PROVE  AttemptOf(recorded[k].id)' = recorded[k].attempt
<1> DEFINE c == CHOOSE l \in Rows' : recorded'[l].id = recorded'[k].id
<1>0. k \in Rows' /\ recorded'[k].attempt = recorded[k].attempt
  BY DEF RowsKeep
<1>1. c \in Rows' /\ recorded'[c].id = recorded'[k].id
  BY <1>0
<1>2. AttemptOf(recorded[k].id)' = recorded'[c].attempt
  BY DEF AttemptOf
<1> HIDE DEF c
<1>3. c = k
  BY <1>0, <1>1 DEF RowsInv
<1> QED
  BY <1>0, <1>2, <1>3

\* The Actor run a Batch is concluded by has the last row of its Pages.
LEMMA LastRow ==
    ASSUME NEW t, NEW k \in Rows, RowOf(k, t), t.at \notin {"queued", "attempting", "starting"},
           LastOf(t) # None, recorded[k].id = LastOf(t)
    PROVE  IsLatest(k, t.pages)
BY DEF RowOf, LastOf

\* A move keeps the rows apart.
LEMMA RowsInvMove ==
    ASSUME TypeInv, RowsInv, NEW i \in Tasks, LinkOf(tasks[i]), Moves(tasks[i], tasks'[i])
    PROVE  RowsInv'
<1> DEFINE t == tasks[i]
           u == tasks'[i]
<1>0. /\ Rows = 1..Len(recorded) /\ Len(recorded) \in Nat /\ LinkOf(t)
      /\ RowsKeep /\ RowsMoved(t, u)
  BY RowsMove DEF TypeInv, Types, Rows
<1> HIDE DEF t, u
<1>1. CASE UNCHANGED recorded
  BY <1>1 DEF RowsInv, Rows
<1>2. CASE /\ t.at = "starting"
           /\ Rows' = Rows \cup {Len(recorded) + 1} /\ recorded'[Len(recorded) + 1] = NewRow(t)
           /\ \A k \in Rows : recorded'[k] = recorded[k]
  <2> DEFINE n == Len(recorded) + 1
  <2>1. /\ n \notin Rows /\ \A k \in Rows : k < n
        /\ recorded'[n].pages = t.pages /\ recorded'[n].id = t.cur
    BY <1>0, <1>2 DEF NewRow
  <2>2. \A k \in Rows : /\ EqualOrApart(recorded[k].pages, t.pages)
                        /\ recorded[k].id # t.cur
                        /\ recorded[k].pages = t.pages => recorded[k].outcome = "none"
    BY <1>0, <1>2 DEF LinkOf, RowOf
  <2>3. Rows' = Rows \cup {n} /\ \A k \in Rows : recorded'[k] = recorded[k]
    BY <1>2
  <2>4. \A k, l \in Rows : k \in Int /\ l \in Int
    BY <1>0
  <2>5. n \in Int
    BY <1>0
  <2> HIDE DEF n
  <2>6. ASSUME NEW k \in Rows', NEW l \in Rows'
        PROVE  /\ EqualOrApart(recorded'[k].pages, recorded'[l].pages)
               /\ recorded'[k].id = recorded'[l].id => k = l
               /\ k < l /\ recorded'[k].pages = recorded'[l].pages => recorded'[k].outcome = "none"
    <3>1. CASE k \in Rows /\ l \in Rows
      BY <2>3, <3>1 DEF RowsInv
    <3>2. CASE k \in Rows /\ l = n
      BY <2>1, <2>2, <2>3, <3>2
    <3>3. CASE k = n /\ l \in Rows
      BY <2>1, <2>2, <2>3, <2>4, <2>5, <3>3 DEF EqualOrApart
    <3>4. CASE k = n /\ l = n
      BY <2>5, <3>4 DEF EqualOrApart
    <3> QED
      BY <2>3, <3>1, <3>2, <3>3, <3>4
  <2> QED
    BY <2>6 DEF RowsInv, EqualOrApart
<1>3. CASE /\ t.at = "concluding" /\ LastOf(t) # None /\ Rows' = Rows
           /\ \A k \in Rows : recorded[k].id # LastOf(t) => recorded'[k].outcome = recorded[k].outcome
  <2>1. ASSUME NEW k \in Rows, NEW l \in Rows, k < l, recorded[k].pages = recorded[l].pages
        PROVE  recorded'[k].outcome = "none"
    <3>1. recorded[k].id # LastOf(t)
      <4> SUFFICES ASSUME recorded[k].id = LastOf(t) PROVE FALSE
        OBVIOUS
      <4>1. IsLatest(k, t.pages)
        BY <1>0, <1>3, LastRow DEF LinkOf
      <4>2. l <= k
        BY <2>1, <4>1 DEF IsLatest
      <4>3. k \in Int /\ l \in Int
        BY <1>0
      <4> QED
        BY <2>1, <4>2, <4>3
    <3> QED
      BY <1>3, <2>1, <3>1 DEF RowsInv
  <2> QED
    BY <1>0, <1>3, <2>1 DEF RowsInv, RowsKeep, EqualOrApart
<1> QED
  BY <1>0, <1>1, <1>2, <1>3 DEF RowsMoved

\* ... and the other Batches.
LEMMA LinkOther ==
    ASSUME TypeInv, RowsInv, RowsInv', NEW i \in Tasks, NEW j \in Tasks, LinkOf(tasks[i]), LinkOf(tasks[j]),
           tasks[i].pages \cap tasks[j].pages = {}, tasks'[j] = tasks[j],
           OnlyBatch(i), Moves(tasks[i], tasks'[i])
    PROVE  LinkOf(tasks[j])'
<1> DEFINE t == tasks[i]
           v == tasks[j]
<1>0. /\ Rows = 1..Len(recorded) /\ Len(recorded) \in Nat /\ LinkOf(t) /\ LinkOf(v)
      /\ Placed(t) /\ Placed(v) /\ Known /\ t.pages \cap v.pages = {}
      /\ RowsKeep /\ RowsMoved(t, tasks'[i]) /\ ActorsGrow
  BY RowsMove, MovesGrow DEF TypeInv, Types, Rows
<1> SUFFICES LinkOf(v)'
  OBVIOUS
<1>v. v' = v
  OBVIOUS
<1> HIDE DEF t, v
<1>1. /\ v.cur # None => actors'[v.cur].pages = v.pages
      /\ v.attached # None => actors'[v.attached].pages = v.pages
  BY <1>0 DEF LinkOf, Placed, Known, ActorsGrow
<1>2. v.attached # None => AttemptOf(v.attached)' = AttemptOf(v.attached)
  <2> SUFFICES ASSUME v.attached # None PROVE AttemptOf(v.attached)' = AttemptOf(v.attached)
    OBVIOUS
  <2>1. PICK k \in Rows : recorded[k].id = v.attached
    BY <1>0 DEF Placed
  <2>2. AttemptOf(recorded[k].id) = recorded[k].attempt
    BY AttemptIs
  <2>3. AttemptOf(recorded[k].id)' = recorded[k].attempt
    BY <1>0, AttemptStays
  <2>4. (v.attached)' = v.attached /\ (recorded[k].id)' = recorded[k].id
    BY <1>0, <1>v DEF RowsKeep
  <2> QED
    BY <2>1, <2>2, <2>3, <2>4 DEF AttemptOf
<1>3. t.pages # v.pages /\ t.pages # {} /\ v.pages # {}
  BY <1>0 DEF Placed
<1>4. \A l \in Rows' \ Rows : recorded'[l].pages = t.pages /\ recorded'[l].id = t.cur
                              /\ recorded'[l].outcome = "none" /\ t.at = "starting"
  BY <1>0 DEF RowsMoved, NewRow, Rows
<1>5. \A k \in Rows : recorded[k].pages = v.pages => recorded'[k].outcome = recorded[k].outcome
  <2> SUFFICES ASSUME NEW k \in Rows, recorded[k].pages = v.pages
               PROVE  recorded'[k].outcome = recorded[k].outcome
    OBVIOUS
  <2>1. LastOf(t) # None => actors[LastOf(t)].pages = t.pages
    BY <1>0 DEF LastOf, LinkOf
  <2>2. LastOf(t) # None => recorded[k].id # LastOf(t)
    BY <1>0, <1>3, <2>1 DEF Known
  <2>3. CASE UNCHANGED recorded
    BY <2>3
  <2>4. CASE \A m \in Rows : recorded'[m] = recorded[m]
    BY <2>4
  <2>5. CASE LastOf(t) # None /\ \A m \in Rows : recorded[m].id # LastOf(t) => recorded'[m].outcome = recorded[m].outcome
    BY <2>2, <2>5
  <2> QED
    BY <1>0, <2>3, <2>4, <2>5 DEF RowsMoved
<1>6. t.at = "starting" /\ v.cur # None => v.cur # t.cur
  BY <1>0, <1>3 DEF LinkOf, Placed
<1>6a. t.at = "starting" => t.cur # None /\ actors[t.cur].pages = t.pages
  BY <1>0 DEF Placed
<1>6b. t.at = "starting" /\ v.attached # None => v.attached # t.cur
  BY <1>0, <1>3, <1>6a DEF LinkOf
<1>7. ASSUME NEW k \in Rows' PROVE RowOf(k, v)'
  <2>1. CASE k \in Rows
    <3>1. RowOf(k, v)
      BY <1>0, <2>1 DEF LinkOf
    <3>2. IsLatest(k, v.pages) => IsLatest(k, v.pages)'
      <4>1. \A l \in Rows' \ Rows : recorded'[l].pages # v.pages
        BY <1>3, <1>4
      <4>2. (v.pages)' = v.pages
        BY <1>v
      <4> QED
        BY <1>0, <4>1, <4>2 DEF IsLatest, RowsKeep
    <3> QED
      BY <1>0, <1>5, <1>v, <2>1, <3>1, <3>2 DEF RowOf, RowsKeep, EqualOrApart
  <2>2. CASE k \notin Rows
    <3>1. recorded'[k].pages = t.pages /\ recorded'[k].id = t.cur /\ t.at = "starting"
      BY <1>4, <1>7, <2>2
    <3>2. (v.cur # None => v.cur # t.cur) /\ (v.attached # None => v.attached # t.cur) /\ t.cur # None
      BY <1>6, <1>6a, <1>6b, <3>1
    <3>3. v.at = "starting" => v.cur # None
      BY <1>0 DEF Placed
    <3> QED
      BY <1>0, <1>3, <1>v, <3>1, <3>2, <3>3 DEF RowOf, EqualOrApart
  <2> QED
    BY <2>1, <2>2
<1>8. /\ v.at = "starting" /\ v.attached # None => v.attempt = APIFY_ATTEMPTS
      /\ v.at # "queued" /\ v.attached # None => v.attempt >= AttemptOf(v.attached)' - 1
  BY <1>0, <1>2 DEF LinkOf
<1> QED
  BY <1>1, <1>7, <1>8, <1>v DEF LinkOf, AttemptOf

\* ... and the Batch itself.
LEMMA LinkMove ==
    ASSUME TypeInv, RowsInv, RowsInv', NEW i \in Tasks, LinkOf(tasks[i]),
           OnlyBatch(i), Moves(tasks[i], tasks'[i])
    PROVE  LinkOf(tasks[i])'
<1> DEFINE t == tasks[i]
           u == tasks'[i]
           Then(id) == recorded'[CHOOSE k \in Rows' : recorded'[k].id = id].attempt
           LastThen(k, P) == /\ k \in Rows' /\ recorded'[k].pages = P
                         /\ \A l \in Rows' : recorded'[l].pages = P => l <= k
           RowThen(k) ==
               /\ EqualOrApart(recorded'[k].pages, u.pages)
               /\ recorded'[k].pages = u.pages /\ recorded'[k].outcome # "none" => u.at = "done"
               /\ u.at = "starting" => recorded'[k].id # u.cur
               /\ u.cur # None /\ recorded'[k].id = u.cur => LastThen(k, u.pages)
               /\ u.attached # None /\ recorded'[k].id = u.attached =>
                     \/ LastThen(k, u.pages)
                     \/ /\ u.cur # None /\ u.attempt = APIFY_ATTEMPTS
                        /\ u.at \notin {"queued", "attempting", "starting"}
           Goal ==
               /\ u.cur # None => actors'[u.cur].pages = u.pages
               /\ u.attached # None => actors'[u.attached].pages = u.pages
               /\ u.at = "starting" /\ u.attached # None => u.attempt = APIFY_ATTEMPTS
               /\ u.at # "queued" /\ u.attached # None => u.attempt >= Then(t.attached) - 1
               /\ \A k \in Rows' : RowThen(k)
<1>0. /\ Rows = 1..Len(recorded) /\ Len(recorded) \in Nat /\ LinkOf(t) /\ t \in ATask
      /\ Placed(t) /\ Known /\ RowsKeep /\ RowsMoved(t, u) /\ ActorsGrow /\ APIFY_ATTEMPTS = 2
      /\ u.pages = t.pages /\ u.attached = t.attached /\ Moves(t, u) /\ actors \in Seq(AnActor)
  BY RowsMove, MovesGrow DEF TypeInv, Types, Rows, OnlyBatch, Tasks, APIFY_ATTEMPTS
<1> SUFFICES Goal
  BY <1>0 DEF LinkOf, RowOf, IsLatest, AttemptOf, EqualOrApart
<1>v. t.attempt \in 0..2
  BY <1>0 DEF ATask
<1> HIDE DEF t, u
<1>2. t.attached # None =>
        \E a \in 1..2 : AttemptOf(t.attached) = a /\ Then(t.attached) = a
  <2> SUFFICES ASSUME t.attached # None
               PROVE  \E a \in 1..2 : AttemptOf(t.attached) = a /\ Then(t.attached) = a
    OBVIOUS
  <2>1. PICK k \in Rows : recorded[k].id = t.attached
    BY <1>0 DEF Placed
  <2>2. AttemptOf(recorded[k].id) = recorded[k].attempt
    BY AttemptIs
  <2>3. AttemptOf(recorded[k].id)' = recorded[k].attempt
    BY <1>0, AttemptStays
  <2>4. AttemptOf(recorded[k].id)' = Then(t.attached)
    <3>1. (recorded[k].id)' = t.attached
      BY <1>0, <2>1 DEF RowsKeep
    <3> QED
      BY <3>1 DEF AttemptOf
  <2>5. recorded[k].attempt \in 1..2
    <3>1. recorded[k] \in ARecord
      BY DEF TypeInv, Types, Rows
    <3> QED
      BY <1>0, <3>1 DEF ARecord
  <2> QED
    BY <2>1, <2>2, <2>3, <2>4, <2>5
<1> HIDE DEF Then
<1>3. u.attached # None => actors'[u.attached].pages = u.pages
  BY <1>0 DEF LinkOf, Placed, Known, ActorsGrow
<1>4. u.cur = t.cur /\ u.cur # None => actors'[u.cur].pages = u.pages
  BY <1>0 DEF LinkOf, Placed, ActorsGrow
<1>5. ASSUME UNCHANGED recorded, NEW k \in Rows'
      PROVE  /\ k \in Rows
             /\ recorded'[k].id = recorded[k].id /\ recorded'[k].outcome = recorded[k].outcome
             /\ EqualOrApart(recorded'[k].pages, u.pages)
             /\ recorded'[k].pages = t.pages /\ recorded'[k].outcome # "none" => t.at = "done"
             /\ t.at = "starting" => recorded'[k].id # t.cur
             /\ t.cur # None /\ recorded'[k].id = t.cur => LastThen(k, t.pages)
             /\ t.attached # None /\ recorded'[k].id = t.attached =>
                   \/ LastThen(k, u.pages)
                   \/ /\ t.cur # None /\ t.attempt = APIFY_ATTEMPTS
                      /\ t.at \notin {"queued", "attempting", "starting"}
             /\ recorded'[k].id \in DOMAIN actors
  BY <1>0, <1>5 DEF LinkOf, RowOf, IsLatest, Rows, Known
<1>6. CASE GetsSlot(t, u)
  <2>1. /\ UNCHANGED recorded /\ u.cur = t.cur /\ u.attempt = AttemptsBefore(t)
        /\ u.at = "attempting" /\ t.at = "queued"
    BY <1>6 DEF GetsSlot
  <2>2. \A k \in Rows' : RowThen(k)
    BY <1>0, <1>5, <2>1
  <2>3. u.attached # None => u.attempt >= Then(t.attached) - 1
    BY <1>0, <1>2, <2>1 DEF AttemptsBefore
  <2> QED
    BY <1>3, <1>4, <2>1, <2>2, <2>3
<1>7. CASE Starts(t, u)
  <2>1. /\ UNCHANGED recorded /\ u.cur = Len(actors) + 1 /\ u.attempt = t.attempt + 1
        /\ u.at = "starting" /\ t.at = "attempting" /\ ~Follows(t)
        /\ actors' = Append(actors, [pages |-> t.pages, status |-> "RUNNING", data |-> {}])
    BY <1>7 DEF Starts
  <2>2. u.cur \notin DOMAIN actors /\ actors'[u.cur].pages = u.pages
    BY <1>0, <2>1
  <2>3. t.attempt < 2
    BY <1>0, <2>1 DEF Placed
  <2>4. u.attached # None => u.attempt = 2 /\ u.attempt >= Then(t.attached) - 1
    <3> SUFFICES ASSUME t.attached # None PROVE u.attempt = 2 /\ u.attempt >= Then(t.attached) - 1
      BY <1>0
    <3>1. PICK a \in 1..2 : AttemptOf(t.attached) = a /\ Then(t.attached) = a
      BY <1>2
    <3>2. t.attempt >= a - 1 /\ a # t.attempt + 1
      BY <1>0, <2>1, <3>1 DEF LinkOf, Follows
    <3> QED
      BY <1>v, <2>1, <2>3, <3>1, <3>2
  <2>5. \A k \in Rows' : RowThen(k)
    BY <1>0, <1>5, <2>1, <2>2
  <2> QED
    BY <1>0, <1>3, <2>1, <2>2, <2>4, <2>5
<1>8. CASE TriesAgain(t, u)
  <2>1. /\ UNCHANGED recorded /\ u.cur \in {None, t.cur} /\ u.attempt \in {t.attempt, t.attempt + 1}
        /\ u.at \in {"attempting", "waiting"} /\ t.at \in {"attempting", "starting", "polling"}
        /\ u.at = "attempting" => u.attempt < 2
        /\ u.cur # t.cur => t.at \in {"attempting", "starting"}
        /\ t.at \in {"attempting", "starting"} => u.cur = None
        /\ t.at = "polling" => u.cur = t.cur /\ u.attempt = t.attempt
    BY <1>0, <1>8 DEF TriesAgain
  <2>2. u.attached # None => u.attempt >= Then(t.attached) - 1
    <3> SUFFICES ASSUME t.attached # None PROVE u.attempt >= Then(t.attached) - 1
      BY <1>0
    <3>1. PICK a \in 1..2 : AttemptOf(t.attached) = a /\ Then(t.attached) = a
      BY <1>2
    <3>2. t.attempt >= a - 1
      BY <1>0, <2>1, <3>1 DEF LinkOf
    <3> QED
      BY <1>v, <2>1, <3>1, <3>2
  <2>3. ASSUME NEW k \in Rows' PROVE RowThen(k)
    <3>1. CASE t.at = "polling"
      <4>1. t.attempt = 2 => u.at = "waiting"
        BY <2>1, <3>1
      <4> QED
        BY <1>0, <1>5, <2>1, <2>3, <3>1, <4>1
    <3>2. CASE t.at # "polling"
      BY <1>0, <1>5, <2>1, <2>3, <3>2
    <3> QED
      BY <3>1, <3>2
  <2> QED
    BY <1>0, <1>3, <1>4, <2>1, <2>2, <2>3
<1>9. CASE Records(t, u)
  <2>1. t.at = "starting" /\ u.at = "polling" /\ u.cur = t.cur /\ u.attempt = t.attempt
    BY <1>9 DEF Records
  <2>2. u.attached # None => u.attempt = 2 /\ u.attempt >= Then(t.attached) - 1
    <3> SUFFICES ASSUME t.attached # None PROVE u.attempt = 2 /\ u.attempt >= Then(t.attached) - 1
      BY <1>0
    <3>1. PICK a \in 1..2 : AttemptOf(t.attached) = a /\ Then(t.attached) = a
      BY <1>2
    <3> QED
      BY <1>0, <2>1, <3>1 DEF LinkOf
  <2>3. t.cur # None
    BY <1>0, <2>1 DEF Placed
  <2>4. ASSUME NEW k \in Rows' PROVE RowThen(k)
    <3>1. CASE UNCHANGED recorded
      BY <1>0, <1>5, <2>1, <2>2, <2>3, <2>4, <3>1
    <3>2. CASE /\ Rows' = Rows \cup {Len(recorded) + 1} /\ recorded'[Len(recorded) + 1] = NewRow(t)
               /\ \A l \in Rows : recorded'[l] = recorded[l]
      <4> DEFINE n == Len(recorded) + 1
      <4>1. n \notin Rows /\ recorded'[n].pages = t.pages /\ recorded'[n].id = t.cur
            /\ recorded'[n].outcome = "none" /\ (\A l \in Rows' : l <= n)
        BY <1>0, <3>2 DEF NewRow
      <4>2. n \in Rows' /\ LastThen(n, u.pages) /\ Rows' = Rows \cup {n}
        BY <1>0, <3>2, <4>1
      <4> HIDE DEF n
      <4>3. CASE k = n
        BY <1>0, <2>1, <2>2, <2>3, <4>1, <4>2, <4>3 DEF EqualOrApart
      <4>4. CASE k \in Rows
        <5>1. RowOf(k, t) /\ recorded'[k] = recorded[k]
          BY <1>0, <3>2, <4>4 DEF LinkOf
        <5> QED
          BY <1>0, <2>1, <2>2, <2>3, <4>4, <5>1 DEF RowOf
      <4> QED
        BY <2>4, <4>2, <4>3, <4>4
    <3> QED
      BY <1>0, <2>1, <3>1, <3>2 DEF RowsMoved
  <2> QED
    BY <1>0, <1>3, <1>4, <2>1, <2>2, <2>4
<1>10. CASE GoesOn(t, u)
  <2>1. /\ UNCHANGED recorded /\ u.cur = t.attached /\ u.attempt = t.attempt + 1
        /\ u.at = "polling" /\ t.at = "attempting" /\ Follows(t)
    BY <1>10 DEF GoesOn
  <2>2. t.attached # None /\ AttemptOf(t.attached) = t.attempt + 1
    BY <2>1 DEF Follows
  <2>3. u.attempt >= Then(t.attached) - 1
    BY <1>2, <2>1, <2>2
  <2>4. \A k \in Rows' : RowThen(k)
    BY <1>0, <1>5, <2>1, <2>2
  <2> QED
    BY <1>0, <1>3, <2>1, <2>2, <2>3, <2>4
<1>11. CASE /\ u.cur = t.cur /\ u.attempt = t.attempt
            /\ t.at \notin {"queued", "attempting", "starting", "done"}
            /\ u.at \notin {"queued", "attempting", "starting"}
  <2>2. u.attached # None => u.attempt >= Then(t.attached) - 1
    BY <1>0, <1>2, <1>11 DEF LinkOf
  <2>3. ASSUME NEW k \in Rows' PROVE RowThen(k)
    <3>1. CASE UNCHANGED recorded
      BY <1>0, <1>5, <1>11, <2>3, <3>1
    <3>2. CASE Rows' = Rows /\ u.at = "done"
      <4>1. k \in Rows /\ RowOf(k, t)
        BY <1>0, <2>3, <3>2 DEF LinkOf
      <4>2. \A P : IsLatest(k, P) => LastThen(k, P)
        BY <1>0, <3>2 DEF IsLatest, RowsKeep
      <4> QED
        BY <1>0, <1>11, <3>2, <4>1, <4>2 DEF RowOf, RowsKeep
    <3> QED
      BY <1>0, <1>11, <3>1, <3>2 DEF RowsMoved
  <2> QED
    BY <1>0, <1>3, <1>4, <1>11, <2>2, <2>3
<1> HIDE DEF Goal
<1>12. CASE Waits(t, u) \/ Succeeds(t, u)
  BY <1>11, <1>12 DEF Waits, Succeeds
<1>13. CASE Opens(t, u) \/ Counts(t, u) \/ Breaks(t, u) \/ ReadsAll(t, u) \/ CountsFailed(t, u)
            \/ Finishes(t, u) \/ Concludes(t, u) \/ IsRaised(t, u)
  BY <1>11, <1>13 DEF Opens, Counts, Breaks, ReadsAll, CountsFailed, Finishes, Concludes, IsRaised, Same
<1>14. ASSUME NEW ad \in AllAds, Stores(t, u, ad) \/ Skips(t, u, ad) PROVE Goal
  BY <1>11, <1>14 DEF Stores, Skips, Same
<1> QED
  BY <1>0, <1>6, <1>7, <1>8, <1>9, <1>10, <1>12, <1>13, <1>14 DEF Moves

\* A run that is resumed: its Batches are the ones not dealt with, and the Pages nothing was
\* started for.
LEMMA LinkResumed ==
    ASSUME TypeInv, RowsInv, tracked = Pages, NEW k \in DOMAIN ResumePlan
    PROVE  /\ LinkOf(ResumePlan[k])
           /\ \A l \in DOMAIN ResumePlan : k # l => ResumePlan[k].pages \cap ResumePlan[l].pages = {}
<1> DEFINE t == ResumePlan[k]
<1>0. /\ Types /\ Known /\ Resumed(t) /\ t.pages # {}
      /\ \A l \in DOMAIN ResumePlan : k # l => Apart(t, ResumePlan[l])
  BY ResumePlanIs DEF TypeInv
<1>1. \A m \in Rows : recorded[m].pages \cap tracked = recorded[m].pages
  <2> SUFFICES ASSUME NEW m \in Rows PROVE recorded[m].pages \cap tracked = recorded[m].pages
    OBVIOUS
  <2>1. recorded[m] \in ARecord
    BY <1>0 DEF Types, Rows
  <2> QED
    BY <2>1 DEF ARecord
<1> HIDE DEF t
<1>2. \A m \in OpenRows : m \in Rows /\ Followed(m).pages = recorded[m].pages
  BY <1>1 DEF OpenRows, FirstRows, Followed, Task
<1>3. \A m, n \in OpenRows : m # n => recorded[m].pages \cap recorded[n].pages = {}
  <2> SUFFICES ASSUME NEW m \in OpenRows, NEW n \in OpenRows, m # n
               PROVE  recorded[m].pages \cap recorded[n].pages = {}
    OBVIOUS
  <2>1. m \in Rows /\ n \in Rows /\ m \in Int /\ n \in Int
    BY <1>0, <1>2 DEF Rows, Types
  <2>2. recorded[m].pages = recorded[n].pages => m <= n /\ n <= m
    BY <2>1 DEF OpenRows, FirstRows
  <2>3. recorded[m].pages # recorded[n].pages
    BY <2>1, <2>2
  <2> QED
    BY <2>1, <2>3 DEF RowsInv, EqualOrApart
<1>4. \A m \in Rows : recorded[m].pages \subseteq Started
  BY DEF Started
<1>5. ASSUME NEW l \in DOMAIN ResumePlan, k # l PROVE t.pages \cap ResumePlan[l].pages = {}
  BY <1>0, <1>2, <1>3, <1>4, <1>5 DEF Apart
<1>6. ASSUME t = Task(t.pages, None), t.pages \subseteq tracked \ Started PROVE LinkOf(t)
  <2>1. t.at = "queued" /\ t.cur = None /\ t.attached = None
    BY <1>6 DEF Task
  <2>2. \A m \in Rows : recorded[m].pages \cap t.pages = {} /\ recorded[m].pages # t.pages
    BY <1>0, <1>4, <1>6
  <2>3. ASSUME NEW m \in Rows PROVE RowOf(m, t)
    BY <2>1, <2>2, <2>3 DEF RowOf, EqualOrApart
  <2> QED
    BY <2>1, <2>3 DEF LinkOf
<1>7. ASSUME NEW m \in OpenRows, t = Followed(m) PROVE LinkOf(t)
  <2> DEFINE P == recorded[m].pages
  <2>1. m \in Rows /\ ~DealtWith(P)
    BY <1>2 DEF OpenRows
  <2>2. PICK j \in Rows : IsLatest(j, P) /\ Latest(P) = recorded[j]
    BY <1>0, <2>1, LatestIs
  <2>3. t.at = "queued" /\ t.cur = None /\ t.attached = recorded[j].id /\ t.pages = P
    BY <1>2, <1>7, <2>2 DEF Followed, Task
  <2>4. recorded[j].outcome = "none" /\ recorded[j].pages = P
    BY <2>1, <2>2 DEF DealtWith, IsLatest
  <2>5. actors[recorded[j].id].pages = P
    BY <1>0, <2>4 DEF Known
  <2> HIDE DEF P
  <2>6. ASSUME NEW r \in Rows PROVE RowOf(r, t)
    <3>1. EqualOrApart(recorded[r].pages, t.pages)
      BY <2>3, <2>4 DEF RowsInv
    <3>2. ASSUME recorded[r].pages = P PROVE recorded[r].outcome = "none"
      <4>1. r <= j /\ r \in Int /\ j \in Int
        BY <1>0, <2>2, <3>2 DEF IsLatest, Rows, Types
      <4>2. CASE r = j
        BY <2>4, <4>2
      <4>3. CASE r # j
        BY <2>4, <3>2, <4>1, <4>3 DEF RowsInv
      <4> QED
        BY <4>2, <4>3
    <3>3. recorded[r].id = t.attached => r = j
      BY <2>3 DEF RowsInv
    <3> QED
      BY <2>2, <2>3, <3>1, <3>2, <3>3 DEF RowOf
  <2> QED
    BY <2>3, <2>5, <2>6 DEF LinkOf
<1> QED
  BY <1>0, <1>5, <1>6, <1>7 DEF Resumed, t

\* Nothing is recorded yet, and the Batches do not overlap.
LEMMA LinkInit == Init => LinkInv
<1> SUFFICES ASSUME Init PROVE LinkInv
  OBVIOUS
<1>1. Rows = {}
  BY DEF Init, Rows
<1>2. /\ \A k \in Tasks : tasks[k] = Task(tasks[k].pages, None)
      /\ \A k, l \in Tasks : k # l => tasks[k].pages \cap tasks[l].pages = {}
  <2>1. Pages \in SUBSET Pages
    OBVIOUS
  <2> QED
    BY <2>1, FreshIs DEF Init, Tasks
<1>3. ASSUME NEW k \in Tasks PROVE LinkOf(tasks[k])
  <2> DEFINE t == tasks[k]
  <2>0. t = Task(t.pages, None)
    BY <1>2
  <2>1. t.at = "queued" /\ t.cur = None /\ t.attached = None
    BY <2>0 DEF Task
  <2> HIDE DEF t
  <2>2. LinkOf(t)
    BY <1>1, <2>1 DEF LinkOf
  <2> QED
    BY <2>2 DEF t
<1> QED
  BY <1>1, <1>2, <1>3 DEF LinkInv, RowsInv

\* Every step keeps Batches and rows together.
LEMMA LinkStep ==
    ASSUME TypeInv, ReadInv, LinkInv, [Next]_vars
    PROVE  LinkInv'
<1> SUFFICES ASSUME "delete" \notin faults'.kinds PROVE LinkInv'
  BY DEF LinkInv
<1>0. /\ ActorsGrow /\ "delete" \notin faults.kinds /\ tracked = Pages
      /\ RowsInv /\ (\A i \in Tasks : LinkOf(tasks[i]))
      /\ \A i, j \in Tasks : i # j => tasks[i].pages \cap tasks[j].pages = {}
  BY StepGrows, StepFaults DEF LinkInv, ReadInv
<1>1. ASSUME NEW i \in Tasks, TaskStep(i) PROVE LinkInv'
  <2>1. OnlyBatch(i) /\ Moves(tasks[i], tasks'[i])
    BY <1>1, TaskMoves
  <2>2. RowsInv'
    BY <1>0, <2>1, RowsInvMove
  <2>3. LinkOf(tasks[i])'
    BY <1>0, <2>1, <2>2, LinkMove
  <2>4. ASSUME NEW j \in Tasks, j # i PROVE LinkOf(tasks[j])'
    BY <1>0, <2>1, <2>2, <2>4, LinkOther DEF OnlyBatch
  <2>5. Tasks' = Tasks /\ \A j \in Tasks : tasks'[j].pages = tasks[j].pages
    BY <2>1 DEF OnlyBatch
  <2> QED
    BY <1>0, <2>2, <2>3, <2>4, <2>5 DEF LinkInv
<1>2. ASSUME ~\E i \in Tasks : TaskStep(i) PROVE UNCHANGED recorded
  BY <1>2 DEF Next, Collected, CollectorFails, FinishRun, Crash, Stop, NextWorker, Resume, CloseInterrupted,
       DeletePage, EndActorRun, Over, vars, database
<1>3. ASSUME UNCHANGED recorded, NEW t, LinkOf(t), Placed(t), t' = t PROVE LinkOf(t)'
  <2>1. /\ t.cur # None => actors'[t.cur].pages = t.pages
        /\ t.attached # None => actors'[t.attached].pages = t.pages
    BY <1>0, <1>3 DEF LinkOf, Placed, ActorsGrow, TypeInv, Known
  <2> QED
    BY <1>3, <2>1 DEF LinkOf, RowOf, IsLatest, AttemptOf, Rows, EqualOrApart
<1>4. ASSUME UNCHANGED recorded PROVE RowsInv'
  BY <1>0, <1>4 DEF RowsInv, Rows, EqualOrApart
<1>5. CASE UNCHANGED tasks /\ UNCHANGED recorded
  <2>1. ASSUME NEW j \in Tasks PROVE LinkOf(tasks[j])'
    <3>1. LinkOf(tasks[j]) /\ Placed(tasks[j]) /\ (tasks[j])' = tasks[j]
      BY <1>0, <1>5 DEF TypeInv
    <3> QED
      BY <1>3, <1>5, <3>1
  <2> QED
    BY <1>0, <1>4, <1>5, <2>1 DEF LinkInv, Tasks
<1>6. CASE tasks' = <<>> /\ UNCHANGED recorded
  BY <1>4, <1>6 DEF LinkInv, Tasks
<1>7. CASE Resume
  <2>1. tasks' = ResumePlan /\ UNCHANGED <<recorded, actors>>
    BY <1>7 DEF Resume, apify
  <2>2. ASSUME NEW k \in Tasks'
        PROVE  LinkOf(tasks[k])' /\ \A l \in Tasks' : k # l => tasks'[k].pages \cap tasks'[l].pages = {}
    <3> DEFINE t == ResumePlan[k]
    <3>1. k \in DOMAIN ResumePlan /\ tasks'[k] = t
      BY <2>1 DEF Tasks
    <3>2. LinkOf(t) /\ \A l \in DOMAIN ResumePlan : k # l => t.pages \cap ResumePlan[l].pages = {}
      BY <1>0, <3>1, LinkResumed
    <3> HIDE DEF t
    <3> QED
      BY <2>1, <3>1, <3>2 DEF LinkOf, RowOf, IsLatest, AttemptOf, Rows, EqualOrApart, Tasks
  <2> QED
    BY <1>4, <2>1, <2>2 DEF LinkInv
<1> QED
  BY <1>1, <1>2, <1>5, <1>6, <1>7, OtherSteps

\* Batches and rows stay together in every behaviour.
LEMMA InvLinked == Spec => []LinkInv
BY LinkInit, LinkStep, InvTyped, InvRead, PTL DEF Spec

\* A Page whose Batch was dealt with is left be: a Batch that starts an Actor run is not done.
THEOREM DealtWithIsLeft == Spec => DealtWithForGood
<1> DEFINE Left == \A a \in DOMAIN actors' \ DOMAIN actors : \A k \in Rows :
                      recorded[k].outcome # "none" /\ "delete" \notin faults.kinds
                      => actors'[a].pages \cap recorded[k].pages = {}
<1>1. ASSUME TypeInv, LinkInv, [Next]_vars PROVE Left
  <2> SUFFICES ASSUME NEW a \in DOMAIN actors', a \notin DOMAIN actors, NEW k \in Rows,
                      recorded[k].outcome # "none", "delete" \notin faults.kinds
               PROVE  actors'[a].pages \cap recorded[k].pages = {}
    OBVIOUS
  <2>1. ~UNCHANGED actors /\ ~\E b \in DOMAIN actors : EndActorRun(b)
    <3>1. actors \in Seq(AnActor)
      BY <1>1 DEF TypeInv, Types
    <3>2. ASSUME NEW b \in DOMAIN actors, EndActorRun(b) PROVE DOMAIN actors' = DOMAIN actors
      BY <3>1, <3>2 DEF EndActorRun
    <3> QED
      BY <3>2
  <2>2. PICK i \in Tasks : TaskStep(i)
    BY <1>1, <2>1 DEF Next, Collected, CollectorFails, FinishRun, Crash, Stop, NextWorker, Resume,
       CloseInterrupted, DeletePage, Over, vars, apify
  <2>3. actors'[a].pages = tasks[i].pages /\ tasks[i].at = "attempting"
    <3> DEFINE t == tasks[i]
               u == tasks'[i]
    <3>1. Moves(t, u) /\ actors \in Seq(AnActor) /\ t.pages \in SUBSET Pages
      <4>1. t \in ATask /\ actors \in Seq(AnActor)
        BY <1>1 DEF TypeInv, Types, Tasks
      <4> QED
        BY <1>1, <2>2, <4>1, TaskMoves DEF ATask
    <3>2. CASE Starts(t, u)
      BY <3>1, <3>2 DEF Starts
    <3>3. CASE Waits(t, u)
      BY <3>1, <3>3 DEF Waits
    <3> HIDE DEF t, u
    <3>4. ASSUME ~Starts(t, u), ~Waits(t, u) PROVE UNCHANGED actors
      BY <3>1, <3>4 DEF Moves, GetsSlot, TriesAgain, Records, GoesOn, Succeeds, Opens, Stores, Skips, Counts,
         Breaks, ReadsAll, CountsFailed, Finishes, Concludes, IsRaised
    <3> QED
      BY <2>1, <3>2, <3>3, <3>4 DEF t
  <2>4. RowOf(k, tasks[i])
    BY <1>1 DEF LinkInv, LinkOf
  <2> QED
    BY <2>3, <2>4 DEF RowOf, EqualOrApart
<1> QED
  BY <1>1, InvTyped, InvLinked, PTL DEF Spec, DealtWithForGood

---------------------------------------------------------------------------
(* A Batch is sent to Apify twice at most.                                 *)

RetryKinds == {"crash", "call", "read", "summary"}

\* How often a Batch was sent by now, seen from a recorded attempt of it.
SentBy(k, t) ==
    recorded[k].pages = t.pages =>
        /\ t.at = "queued" => t.attached # None /\ recorded[k].attempt <= AttemptOf(t.attached)
        /\ t.at = "attempting" /\ Follows(t) => recorded[k].attempt <= t.attempt + 1
        /\ t.at = "attempting" /\ ~Follows(t) => recorded[k].attempt <= t.attempt
        /\ t.at = "starting" => recorded[k].attempt < t.attempt
        /\ t.at = "polling" => recorded[k].attempt <= t.attempt

\* Every Actor run is recorded, or about to be.
IsKnown(a) ==
    \/ \E k \in Rows : recorded[k].id = a
    \/ \E i \in Tasks : tasks[i].at = "starting" /\ tasks[i].cur = a

\* Nothing failed that would end the collection, or lose an Actor run.
Smooth ==
    /\ conn = "ok"
    /\ \A i \in Tasks : tasks[i].at # "raised" /\ (worker # "up" => tasks[i].at = "done")
    /\ \A a \in DOMAIN actors : IsKnown(a)

AttemptsRise ==
    \A k, l \in Rows : k < l /\ recorded[k].pages = recorded[l].pages
                       => recorded[k].attempt < recorded[l].attempt

RetryInv ==
    faults.kinds \subseteq RetryKinds =>
        /\ Smooth /\ AttemptsRise
        /\ \A i \in Tasks, k \in Rows : SentBy(k, tasks[i])

\* Statements work, and nobody has raised.
LEMMA SmoothSteps ==
    ASSUME Smooth, faults'.kinds \subseteq RetryKinds
    PROVE  /\ ~Raised
           /\ \A kind \in {"answer", "record", "db", "delete", "midstart"} : ~Fault(kind)
           /\ \A kind \in {"record", "db"} : ~Fails(kind)
BY FaultsAddUp DEF Smooth, Raised, Fails, RetryKinds

\* ... so that a move leaves the connection as it is, raises nothing, and records what it starts.
LEMMA SmoothMove ==
    ASSUME TypeInv, Smooth, faults'.kinds \subseteq RetryKinds, "delete" \notin faults.kinds, tracked = Pages,
           NEW i \in Tasks, worker = "up", worker' = "up", OnlyBatch(i), Moves(tasks[i], tasks'[i])
    PROVE  /\ Smooth'
           /\ ~IsRaised(tasks[i], tasks'[i])
           /\ Records(tasks[i], tasks'[i]) => recorded' = Append(recorded, NewRow(tasks[i]))
<1> DEFINE t == tasks[i]
           u == tasks'[i]
<1>0. /\ ~Raised /\ (\A kind \in {"answer", "record", "db", "delete", "midstart"} : ~Fault(kind))
      /\ \A kind \in {"record", "db"} : ~Fails(kind)
  BY SmoothSteps
<1>1. /\ Types /\ Placed(t) /\ Moves(t, u) /\ t \in ATask /\ RowsKeep /\ RowsMoved(t, u)
      /\ conn = "ok" /\ t.at # "raised"
  BY RowsMove DEF TypeInv, Types, Tasks, Smooth
<1>2. AdsOfBatch(t.pages) \subseteq AdsOfBatch(tracked)
  BY <1>1, BatchesAds DEF ATask
<1> SUFFICES Smooth' /\ ~IsRaised(t, u) /\ (Records(t, u) => recorded' = Append(recorded, NewRow(t)))
  OBVIOUS
<1>3. u.at = "starting" => Starts(t, u)
  <2> HIDE DEF t, u
  <2>1. ASSUME NEW ad \in AllAds, Stores(t, u, ad) \/ Skips(t, u, ad) PROVE u.at # "starting"
    BY <2>1 DEF Stores, Skips
  <2> QED
    BY <1>1, <2>1 DEF Moves, GetsSlot, TriesAgain, Records, GoesOn, Waits, Succeeds, Opens, Counts, Breaks,
       ReadsAll, CountsFailed, Finishes, Concludes, IsRaised
<1>4. conn' = "ok" /\ u.at # "raised"
  <2> HIDE DEF t, u
  <2>1. ASSUME NEW ad \in AllAds, Stores(t, u, ad) \/ Skips(t, u, ad) PROVE conn' = "ok" /\ u.at # "raised"
    BY <1>1, <2>1 DEF Stores, Skips
  <2>2. CASE GetsSlot(t, u) \/ Starts(t, u) \/ TriesAgain(t, u) \/ Records(t, u) \/ GoesOn(t, u)
             \/ Waits(t, u) \/ Succeeds(t, u) \/ Opens(t, u)
    BY <1>0, <1>1, <2>2 DEF GetsSlot, Starts, TriesAgain, Records, GoesOn, Waits, Succeeds, Opens, StatementWorks
  <2>3. CASE Counts(t, u) \/ Breaks(t, u) \/ ReadsAll(t, u) \/ CountsFailed(t, u) \/ Finishes(t, u)
             \/ Concludes(t, u) \/ IsRaised(t, u)
    BY <1>0, <1>1, <1>2, <2>3 DEF Counts, Breaks, ReadsAll, CountsFailed, Finishes, Concludes, IsRaised, StatementWorks
  <2> QED
    BY <1>1, <2>1, <2>2, <2>3 DEF Moves
<1>5. ~IsRaised(t, u) /\ (Records(t, u) => recorded' = Append(recorded, NewRow(t)))
  BY <1>0 DEF IsRaised, Records, NewRow
<1>6. t.at = "starting" => Records(t, u)
  <2> HIDE DEF t, u
  <2>1. ASSUME NEW ad \in AllAds, Stores(t, u, ad) \/ Skips(t, u, ad) PROVE t.at # "starting"
    BY <2>1 DEF Stores, Skips
  <2> QED
    BY <1>0, <1>1, <2>1 DEF Moves, GetsSlot, Starts, TriesAgain, GoesOn, Waits, Succeeds, Opens, Counts, Breaks,
       ReadsAll, CountsFailed, Finishes, Concludes, IsRaised
<1>7. ASSUME NEW a \in DOMAIN actors' PROVE IsKnown(a)'
  <2>1. CASE a \notin DOMAIN actors
    <3>1. Starts(t, u)
      <4> HIDE DEF t, u
      <4>1. ASSUME NEW ad \in AllAds, Stores(t, u, ad) \/ Skips(t, u, ad) PROVE UNCHANGED actors
        BY <4>1 DEF Stores, Skips
      <4>2. CASE Waits(t, u)
        BY <1>1, <2>1, <4>2 DEF Waits, Types
      <4> QED
        BY <1>1, <2>1, <4>1, <4>2 DEF Moves, GetsSlot, TriesAgain, Records, GoesOn, Succeeds, Opens, Counts, Breaks,
           ReadsAll, CountsFailed, Finishes, Concludes, IsRaised
    <3>2. a = Len(actors) + 1
      <4> HIDE DEF t, u
      <4> QED
        BY <1>1, <2>1, <3>1 DEF Starts, Types
    <3> QED
      BY <3>1, <3>2 DEF Starts, IsKnown, OnlyBatch
  <2>2. CASE \E k \in Rows : recorded[k].id = a
    BY <1>1, <2>2 DEF RowsKeep, IsKnown
  <2>3. ASSUME NEW j \in Tasks, tasks[j].at = "starting", tasks[j].cur = a PROVE IsKnown(a)'
    <3>1. CASE j # i
      BY <2>3, <3>1 DEF OnlyBatch, IsKnown
    <3>2. CASE j = i
      <4>1. recorded' = Append(recorded, NewRow(t)) /\ t.cur = a
        BY <1>5, <1>6, <2>3, <3>2
      <4> HIDE DEF t
      <4>2. Len(recorded) + 1 \in Rows' /\ recorded'[Len(recorded) + 1].id = a
        BY <1>1, <4>1 DEF Types, Rows, NewRow
      <4> QED
        BY <4>2 DEF IsKnown
    <3> QED
      BY <3>1, <3>2
  <2>4. a \in DOMAIN actors => IsKnown(a)
    BY DEF Smooth
  <2> QED
    BY <2>1, <2>2, <2>3, <2>4 DEF IsKnown
<1> QED
  BY <1>4, <1>5, <1>7 DEF Smooth, OnlyBatch

AttemptThen(id) == recorded'[CHOOSE k \in Rows' : recorded'[k].id = id].attempt

\* The attempt an Actor run is stays the same.
LEMMA AttemptKept ==
    ASSUME RowsInv, RowsInv', RowsKeep, NEW id, NEW k \in Rows, recorded[k].id = id
    PROVE  AttemptOf(id) = recorded[k].attempt /\ AttemptThen(id) = recorded[k].attempt
<1>1. AttemptOf(recorded[k].id) = recorded[k].attempt
  BY AttemptIs
<1>2. AttemptOf(recorded[k].id)' = recorded[k].attempt
  BY AttemptStays
<1>3. AttemptOf(recorded[k].id)' = AttemptThen(id)
  <2>1. (recorded[k].id)' = id
    BY DEF RowsKeep
  <2> QED
    BY <2>1 DEF AttemptOf, AttemptThen
<1> QED
  BY <1>1, <1>2, <1>3

\* A move counts the attempt it makes.
LEMMA SentMove ==
    ASSUME TypeInv, RowsInv, RowsInv', NEW i \in Tasks, LinkOf(tasks[i]),
           \A k \in Rows : SentBy(k, tasks[i]),
           ~Raised, \A kind \in {"answer", "record"} : ~Fault(kind),
           Records(tasks[i], tasks'[i]) => recorded' = Append(recorded, NewRow(tasks[i])),
           OnlyBatch(i), Moves(tasks[i], tasks'[i])
    PROVE  \A k \in Rows' : SentBy(k, tasks[i])'
<1> DEFINE t == tasks[i]
           u == tasks'[i]
           Fol == u.attached # None /\ AttemptThen(u.attached) = u.attempt + 1
           Sent(k) ==
               recorded'[k].pages = u.pages =>
                  /\ u.at = "queued" => u.attached # None /\ recorded'[k].attempt <= AttemptThen(u.attached)
                  /\ u.at = "attempting" /\ Fol => recorded'[k].attempt <= u.attempt + 1
                  /\ u.at = "attempting" /\ ~Fol => recorded'[k].attempt <= u.attempt
                  /\ u.at = "starting" => recorded'[k].attempt < u.attempt
                  /\ u.at = "polling" => recorded'[k].attempt <= u.attempt
<1>0. /\ Rows = 1..Len(recorded) /\ Len(recorded) \in Nat /\ LinkOf(t) /\ t \in ATask
      /\ Placed(t) /\ Known /\ RowsKeep /\ RowsMoved(t, u) /\ APIFY_ATTEMPTS = 2
      /\ u.pages = t.pages /\ u.attached = t.attached /\ Moves(t, u)
      /\ \A k \in Rows : recorded[k] \in ARecord /\ SentBy(k, t)
  BY RowsMove DEF TypeInv, Types, Rows, OnlyBatch, Tasks, APIFY_ATTEMPTS
<1> SUFFICES \A k \in Rows' : Sent(k)
  BY DEF SentBy, Follows, AttemptOf, AttemptThen
<1>v. t.attempt \in 0..2 /\ \A k \in Rows : recorded[k].attempt \in 1..2
  BY <1>0 DEF ATask, ARecord
<1> HIDE DEF t, u
<1>2. t.attached # None =>
        \E a \in 1..2 : AttemptOf(t.attached) = a /\ AttemptThen(t.attached) = a
  <2> SUFFICES ASSUME t.attached # None
               PROVE  \E a \in 1..2 : AttemptOf(t.attached) = a /\ AttemptThen(t.attached) = a
    OBVIOUS
  <2>1. PICK k \in Rows : recorded[k].id = t.attached
    BY <1>0 DEF Placed
  <2> QED
    BY <1>0, <1>v, <2>1, AttemptKept
<1>3. CASE u.at \notin {"queued", "attempting", "starting", "polling"}
  BY <1>3
<1>4. \A k \in Rows : recorded'[k].pages = recorded[k].pages /\ recorded'[k].attempt = recorded[k].attempt
  BY <1>0 DEF RowsKeep
<1>5. CASE GetsSlot(t, u)
  <2>1. Rows' = Rows /\ t.at = "queued" /\ u.at = "attempting" /\ u.attempt = AttemptsBefore(t)
    BY <1>5 DEF GetsSlot, Rows
  <2>2. ASSUME NEW k \in Rows', recorded'[k].pages = u.pages PROVE Sent(k)
    <3>1. t.attached # None /\ recorded[k].attempt <= AttemptOf(t.attached)
      BY <1>0, <1>4, <2>1, <2>2 DEF SentBy
    <3>2. PICK a \in 1..2 : AttemptOf(t.attached) = a /\ AttemptThen(t.attached) = a
      BY <1>2, <3>1
    <3>3. u.attempt = a - 1
      BY <2>1, <3>1, <3>2 DEF AttemptsBefore
    <3> QED
      BY <1>0, <1>4, <2>1, <3>1, <3>2, <3>3
  <2> QED
    BY <2>2
<1>6. CASE Starts(t, u)
  <2>1. Rows' = Rows /\ t.at = "attempting" /\ ~Follows(t) /\ u.at = "starting" /\ u.attempt = t.attempt + 1
    BY <1>6 DEF Starts, Rows
  <2> QED
    BY <1>0, <1>v, <1>4, <2>1 DEF SentBy
<1>7. CASE TriesAgain(t, u)
  <2>1. /\ Rows' = Rows /\ u.at \in {"attempting", "waiting"}
        /\ \/ t.at = "attempting" /\ u.attempt = t.attempt + 1
           \/ t.at = "polling" /\ u.attempt = t.attempt
    BY <1>0, <1>7 DEF TriesAgain, Rows
  <2>2. ASSUME NEW k \in Rows, recorded[k].pages = t.pages PROVE recorded[k].attempt <= u.attempt
    BY <1>0, <1>v, <2>1, <2>2 DEF SentBy
  <2>3. u.attempt \in Int
    BY <1>v, <2>1
  <2> QED
    BY <1>0, <1>v, <1>4, <2>1, <2>2, <2>3
<1>8. CASE Records(t, u)
  <2>1. t.at = "starting" /\ u.at = "polling" /\ u.attempt = t.attempt /\ recorded' = Append(recorded, NewRow(t))
    BY <1>0, <1>8 DEF Records, t, u
  <2>2. Rows' = Rows \cup {Len(recorded) + 1} /\ recorded'[Len(recorded) + 1].attempt = t.attempt
    <3> DEFINE r == NewRow(t)
    <3>1. recorded' = Append(recorded, r) /\ r.attempt = t.attempt
      BY <2>1 DEF NewRow
    <3> HIDE DEF r
    <3>2. recorded \in Seq(ARecord)
      BY DEF TypeInv, Types
    <3>3. Rows' = 1..(Len(recorded) + 1) /\ recorded'[Len(recorded) + 1] = r
      BY <1>0, <3>1, <3>2 DEF Rows
    <3> QED
      BY <1>0, <3>1, <3>3
  <2>3. \A k \in Rows : recorded[k].pages = t.pages => recorded[k].attempt < t.attempt
    BY <1>0, <2>1 DEF SentBy
  <2> QED
    BY <1>0, <1>v, <1>4, <2>1, <2>2, <2>3
<1>9. CASE GoesOn(t, u)
  <2>1. Rows' = Rows /\ t.at = "attempting" /\ Follows(t) /\ u.at = "polling" /\ u.attempt = t.attempt + 1
    BY <1>9 DEF GoesOn, Rows
  <2> QED
    BY <1>0, <1>v, <1>4, <2>1 DEF SentBy
<1>10. CASE Waits(t, u)
  <2>1. Rows' = Rows /\ t.at = "polling" /\ u.at = "polling" /\ u.attempt = t.attempt
    BY <1>10 DEF Waits, Rows
  <2> QED
    BY <1>0, <1>v, <1>4, <2>1 DEF SentBy
<1>11. ASSUME NEW ad \in AllAds, Stores(t, u, ad) \/ Skips(t, u, ad)
       PROVE  u.at \notin {"queued", "attempting", "starting", "polling"}
  BY <1>11 DEF Stores, Skips
<1> HIDE DEF Sent
<1>12. CASE Succeeds(t, u) \/ Opens(t, u) \/ Counts(t, u) \/ Breaks(t, u) \/ ReadsAll(t, u) \/ CountsFailed(t, u)
            \/ Finishes(t, u) \/ Concludes(t, u) \/ IsRaised(t, u)
  BY <1>3, <1>12 DEF Succeeds, Opens, Counts, Breaks, ReadsAll, CountsFailed, Finishes, Concludes, IsRaised
<1> QED
  BY <1>0, <1>3, <1>5, <1>6, <1>7, <1>8, <1>9, <1>10, <1>11, <1>12 DEF Moves

\* ... and the other Batches, of other Pages, have made theirs.
LEMMA SentOther ==
    ASSUME TypeInv, RowsInv, RowsInv', NEW i \in Tasks, NEW j \in Tasks,
           \A k \in Rows : SentBy(k, tasks[j]),
           tasks[i].pages \cap tasks[j].pages = {}, tasks'[j] = tasks[j], Moves(tasks[i], tasks'[i])
    PROVE  \A k \in Rows' : SentBy(k, tasks[j])'
<1> DEFINE t == tasks[i]
           v == tasks[j]
<1>0. /\ Placed(t) /\ Placed(v) /\ t.pages \cap v.pages = {} /\ RowsKeep /\ RowsMoved(t, tasks'[i])
      /\ \A k \in Rows : SentBy(k, v)
  BY RowsMove DEF TypeInv
<1> SUFFICES ASSUME NEW k \in Rows' PROVE SentBy(k, v)'
  OBVIOUS
<1>v. v' = v
  OBVIOUS
<1> HIDE DEF t, v
<1>1. t.pages # v.pages
  BY <1>0 DEF Placed
<1>2. k \notin Rows => recorded'[k].pages = t.pages
  BY <1>0 DEF RowsMoved, NewRow, Rows
<1>3. v.attached # None => AttemptThen(v.attached) = AttemptOf(v.attached)
  <2> SUFFICES ASSUME v.attached # None PROVE AttemptThen(v.attached) = AttemptOf(v.attached)
    OBVIOUS
  <2>1. PICK l \in Rows : recorded[l].id = v.attached
    BY <1>0 DEF Placed
  <2> QED
    BY <1>0, <2>1, AttemptKept
<1>4. CASE k \in Rows
  <2>1. SentBy(k, v) /\ recorded'[k].pages = recorded[k].pages /\ recorded'[k].attempt = recorded[k].attempt
    BY <1>0, <1>4 DEF RowsKeep
  <2>2. Follows(v)' <=> v.attached # None /\ AttemptThen(v.attached) = v.attempt + 1
    BY <1>v DEF Follows, AttemptOf, AttemptThen
  <2>3. (v.attached # None => AttemptOf(v.attached)' = AttemptOf(v.attached)) /\ (Follows(v)' <=> Follows(v))
    BY <1>v, <1>3, <2>2 DEF Follows, AttemptOf, AttemptThen
  <2> QED
    BY <1>v, <2>1, <2>3 DEF SentBy
<1>5. CASE k \notin Rows
  BY <1>1, <1>2, <1>5, <1>v DEF SentBy
<1> QED
  BY <1>4, <1>5

\* A row that is added is of an attempt after the ones before it.
LEMMA RiseMove ==
    ASSUME TypeInv, NEW i \in Tasks, AttemptsRise, \A k \in Rows : SentBy(k, tasks[i]),
           Records(tasks[i], tasks'[i]) => recorded' = Append(recorded, NewRow(tasks[i])),
           Moves(tasks[i], tasks'[i])
    PROVE  AttemptsRise'
<1> DEFINE t == tasks[i]
           u == tasks'[i]
<1>0. /\ Rows = 1..Len(recorded) /\ Len(recorded) \in Nat /\ RowsKeep /\ RowsMoved(t, u)
      /\ \A k \in Rows : SentBy(k, t)
  BY RowsMove DEF TypeInv, Types, Rows
<1> HIDE DEF t, u
<1>1. CASE Rows' = Rows
  BY <1>0, <1>1 DEF RowsKeep, AttemptsRise
<1>2. CASE /\ t.at = "starting" /\ Rows' = Rows \cup {Len(recorded) + 1}
           /\ recorded'[Len(recorded) + 1] = NewRow(t)
  <2> DEFINE n == Len(recorded) + 1
  <2>1. recorded'[n].pages = t.pages /\ recorded'[n].attempt = t.attempt
    BY <1>2 DEF NewRow
  <2>2. \A k \in Rows : recorded[k].pages = t.pages => recorded[k].attempt < t.attempt
    BY <1>0, <1>2 DEF SentBy
  <2>3. \A k \in Rows : k \in Int /\ k < n
    BY <1>0
  <2>4. Rows' = Rows \cup {n} /\ n \in Int
    BY <1>0, <1>2
  <2> HIDE DEF n
  <2>5. ASSUME NEW k \in Rows', NEW l \in Rows', k < l, recorded'[k].pages = recorded'[l].pages
        PROVE  recorded'[k].attempt < recorded'[l].attempt
    <3>1. k \in Rows
      BY <2>3, <2>4, <2>5
    <3>2. CASE l \in Rows
      BY <1>0, <2>5, <3>1, <3>2 DEF RowsKeep, AttemptsRise
    <3>3. CASE l = n
      BY <1>0, <2>1, <2>2, <2>5, <3>1, <3>3 DEF RowsKeep
    <3> QED
      BY <2>4, <3>2, <3>3
  <2> QED
    BY <2>5 DEF AttemptsRise
<1> QED
  BY <1>0, <1>1, <1>2 DEF RowsMoved, Rows

\* A Batch that is resumed goes on from the attempt recorded last.
LEMMA SentResumed ==
    ASSUME TypeInv, RowsInv, tracked = Pages, AttemptsRise, NEW n \in DOMAIN ResumePlan, NEW k \in Rows
    PROVE  SentBy(k, ResumePlan[n])
<1> DEFINE t == ResumePlan[n]
<1>0. Types /\ Known /\ Resumed(t) /\ t.pages # {} /\ t.at = "queued"
  BY ResumePlanIs, ResumedIs DEF TypeInv
<1> HIDE DEF t
<1> SUFFICES ASSUME recorded[k].pages = t.pages
             PROVE  t.attached # None /\ recorded[k].attempt <= AttemptOf(t.attached)
  BY <1>0 DEF SentBy, t
<1>1. recorded[k].pages \subseteq Started
  BY DEF Started
<1>2. PICK m \in OpenRows : t = Followed(m)
  BY <1>0, <1>1 DEF Resumed
<1>3. m \in Rows /\ Followed(m).pages = recorded[m].pages /\ Followed(m).attached = Latest(recorded[m].pages).id
  <2>1. m \in Rows
    BY DEF OpenRows, FirstRows
  <2>2. recorded[m] \in ARecord
    BY <1>0, <2>1 DEF Types, Rows
  <2>3. recorded[m].pages \cap tracked = recorded[m].pages
    BY <2>2 DEF ARecord
  <2> QED
    BY <2>1, <2>3 DEF Followed, Task
<1>4. PICK j \in Rows : IsLatest(j, recorded[m].pages) /\ Latest(recorded[m].pages) = recorded[j]
  BY <1>0, <1>3, LatestIs
<1>5. t.attached = recorded[j].id /\ recorded[j].pages = recorded[k].pages
  BY <1>2, <1>3, <1>4 DEF IsLatest
<1>6. AttemptOf(t.attached) = recorded[j].attempt
  BY <1>5, AttemptIs
<1>7. k <= j /\ k \in Int /\ j \in Int
  BY <1>0, <1>4, <1>5 DEF IsLatest, Rows, Types
<1>8. recorded[k].attempt <= recorded[j].attempt
  <2>1. recorded[j] \in ARecord /\ recorded[k] \in ARecord
    BY <1>0 DEF Types, Rows
  <2>2. recorded[j].attempt \in Int /\ recorded[k].attempt \in Int
    BY <2>1 DEF ARecord, APIFY_ATTEMPTS
  <2>3. CASE k = j
    BY <2>2, <2>3
  <2>4. CASE k # j
    BY <1>5, <1>7, <2>2, <2>4 DEF AttemptsRise
  <2> QED
    BY <2>3, <2>4
<1>9. recorded[j].id # None
  BY <1>0 DEF Known, None, Types
<1> QED
  BY <1>5, <1>6, <1>8, <1>9

\* Nothing was started yet.
LEMMA RetryInit == Init => RetryInv
<1> SUFFICES ASSUME Init PROVE RetryInv
  OBVIOUS
<1>1. Rows = {} /\ DOMAIN actors = {} /\ conn = "ok" /\ worker = "up"
  BY DEF Init, Rows
<1>2. ASSUME NEW k \in Tasks PROVE tasks[k].at = "queued"
  <2> DEFINE t == tasks[k]
  <2>0. Pages \in SUBSET Pages
    OBVIOUS
  <2>1. t = Task(t.pages, None)
    BY <2>0, FreshIs DEF Init, Tasks
  <2> QED
    BY <2>1 DEF Task
<1> QED
  BY <1>1, <1>2 DEF RetryInv, Smooth, AttemptsRise

\* Outside the Batches no row is added, and nothing is started.
LEMMA StepElse ==
    ASSUME TypeInv, [Next]_vars, ~\E i \in Tasks : TaskStep(i)
    PROVE  UNCHANGED recorded /\ DOMAIN actors' = DOMAIN actors
<1>1. UNCHANGED recorded
  BY DEF Next, Collected, CollectorFails, FinishRun, Crash, Stop, NextWorker, Resume, CloseInterrupted,
     DeletePage, EndActorRun, Over, vars, database
<1>2. actors \in Seq(AnActor)
  BY DEF TypeInv, Types
<1>3. ASSUME NEW a \in DOMAIN actors, EndActorRun(a) PROVE DOMAIN actors' = DOMAIN actors
  BY <1>2, <1>3 DEF EndActorRun
<1>4. ASSUME ~\E a \in DOMAIN actors : EndActorRun(a) PROVE UNCHANGED actors
  BY <1>4 DEF Next, Collected, CollectorFails, FinishRun, Crash, Stop, NextWorker, Resume, CloseInterrupted,
     DeletePage, Over, vars, apify
<1> QED
  BY <1>1, <1>3, <1>4

\* Every step keeps count of the attempts.
LEMMA RetryStep ==
    ASSUME TypeInv, ReadInv, LinkInv, RetryInv, [Next]_vars
    PROVE  RetryInv'
<1> SUFFICES ASSUME faults'.kinds \subseteq RetryKinds PROVE RetryInv'
  BY DEF RetryInv
<1>0. /\ ActorsGrow /\ "delete" \notin faults.kinds /\ tracked = Pages
      /\ RowsInv /\ (\A i \in Tasks : LinkOf(tasks[i])) /\ RowsInv'
      /\ \A i, j \in Tasks : i # j => tasks[i].pages \cap tasks[j].pages = {}
      /\ Smooth /\ AttemptsRise /\ \A i \in Tasks, k \in Rows : SentBy(k, tasks[i])
  <2>1. faults.kinds \subseteq RetryKinds /\ "delete" \notin faults.kinds /\ "delete" \notin faults'.kinds
    BY StepFaults DEF RetryKinds
  <2> QED
    BY <2>1, StepGrows, LinkStep DEF LinkInv, ReadInv, RetryInv
<1>1. /\ ~Raised /\ (\A kind \in {"answer", "record", "db", "delete", "midstart"} : ~Fault(kind))
  BY <1>0, SmoothSteps
<1>2. ASSUME NEW i \in Tasks, TaskStep(i) PROVE RetryInv'
  <2>1. OnlyBatch(i) /\ Moves(tasks[i], tasks'[i]) /\ worker = "up" /\ worker' = "up"
    BY <1>2, TaskMoves, TaskFaults
  <2>2. Smooth' /\ (Records(tasks[i], tasks'[i]) => recorded' = Append(recorded, NewRow(tasks[i])))
    BY <1>0, <2>1, SmoothMove
  <2>3. AttemptsRise'
    BY <1>0, <2>1, <2>2, RiseMove
  <2>4. \A k \in Rows' : SentBy(k, tasks[i])'
    BY <1>0, <1>1, <2>1, <2>2, SentMove
  <2>5. ASSUME NEW j \in Tasks, j # i PROVE \A k \in Rows' : SentBy(k, tasks[j])'
    BY <1>0, <2>1, <2>5, SentOther DEF OnlyBatch
  <2>6. Tasks' = Tasks
    BY <2>1 DEF OnlyBatch
  <2> QED
    BY <2>2, <2>3, <2>4, <2>5, <2>6 DEF RetryInv
<1>3. ASSUME ~\E i \in Tasks : TaskStep(i) PROVE UNCHANGED recorded /\ DOMAIN actors' = DOMAIN actors
  BY <1>3, StepElse
<1>4. ASSUME UNCHANGED recorded PROVE AttemptsRise'
  BY <1>0, <1>4 DEF AttemptsRise, Rows
<1>5. CASE UNCHANGED tasks /\ ~\E i \in Tasks : TaskStep(i)
  <2>1. conn' = "ok" /\ (worker' # "up" => worker # "up" \/ \A i \in Tasks : tasks[i].at = "done")
    <3>1. CASE Crash \/ Stop
      <4>1. conn' = "ok" /\ tasks = <<>>
        BY <1>5, <3>1 DEF Crash, Stop, Down
      <4> QED
        BY <4>1 DEF Tasks
    <3>2. CASE ~(Crash \/ Stop)
      <4>1. UNCHANGED conn /\ (Collected \/ FinishRun \/ worker' \in {worker, "up"})
        BY <1>1, <1>5, <3>2 DEF Next, Collected, CollectorFails, FinishRun, NextWorker, Resume, CloseInterrupted,
           DeletePage, EndActorRun, Over, vars, memory
      <4>2. conn = "ok"
        BY <1>0 DEF Smooth
      <4> QED
        BY <4>1, <4>2 DEF Collected, FinishRun
    <3> QED
      BY <3>1, <3>2
  <2>2. Smooth'
    BY <1>0, <1>3, <1>5, <2>1 DEF Smooth, IsKnown, Rows, Tasks
  <2>3. ASSUME NEW j \in Tasks, NEW k \in Rows PROVE SentBy(k, tasks[j])'
    <3>1. SentBy(k, tasks[j])
      BY <1>0
    <3> QED
      BY <1>3, <1>5, <3>1 DEF SentBy, Follows, AttemptOf, Rows
  <2> QED
    BY <1>3, <1>4, <1>5, <2>2, <2>3 DEF RetryInv, Tasks, Rows
<1>6. CASE tasks' = <<>> /\ ~\E i \in Tasks : TaskStep(i)
  <2>1. CASE Crash \/ Stop
    <3>1. conn' = "ok" /\ \A i \in Tasks : tasks[i].at # "starting"
      BY <1>1, <2>1 DEF Crash, Stop, Down, MayDie
    <3>2. Smooth'
      BY <1>0, <1>3, <1>6, <3>1 DEF Smooth, IsKnown, Rows, Tasks
    <3> QED
      BY <1>3, <1>4, <1>6, <3>2 DEF RetryInv, Tasks
  <2>2. CASE ~(Crash \/ Stop \/ Resume)
    <3>1. UNCHANGED tasks
      BY <1>0, <1>1, <1>6, <2>2 DEF Next, Collected, CollectorFails, FinishRun, NextWorker, CloseInterrupted,
         DeletePage, EndActorRun, Over, vars, memory
    <3> QED
      BY <1>5, <1>6, <3>1
  <2>3. CASE Resume
    <3>1. conn' = "ok" /\ \A i \in Tasks : tasks[i].at # "starting"
      BY <1>0, <2>3 DEF Resume, Smooth
    <3>2. Smooth'
      BY <1>0, <1>3, <1>6, <3>1 DEF Smooth, IsKnown, Rows, Tasks
    <3> QED
      BY <1>3, <1>4, <1>6, <3>2 DEF RetryInv, Tasks
  <2> QED
    BY <2>1, <2>2, <2>3
<1>7. CASE Resume
  <2>1. /\ tasks' = ResumePlan /\ UNCHANGED <<recorded, actors, conn>> /\ worker' = "up"
        /\ \A i \in Tasks : tasks[i].at # "starting"
    BY <1>0, <1>7 DEF Resume, apify, Smooth
  <2>2. ASSUME NEW n \in Tasks'
        PROVE  tasks'[n].at = "queued" /\ \A k \in Rows' : SentBy(k, tasks[n])'
    <3> DEFINE t == ResumePlan[n]
    <3>1. n \in DOMAIN ResumePlan /\ tasks'[n] = t
      BY <2>1 DEF Tasks
    <3>2. t.at = "queued" /\ \A k \in Rows : SentBy(k, t)
      BY <1>0, <3>1, SentResumed, ResumedIs
    <3> HIDE DEF t
    <3> QED
      BY <2>1, <3>1, <3>2 DEF SentBy, Follows, AttemptOf, Rows
  <2>3. Smooth'
    BY <1>0, <2>1, <2>2 DEF Smooth, IsKnown, Rows
  <2> QED
    BY <1>4, <2>1, <2>2, <2>3 DEF RetryInv
<1> QED
  BY <1>2, <1>5, <1>6, <1>7, OtherSteps

\* The attempts are counted in every behaviour.
LEMMA InvRetried == Spec => []RetryInv
BY RetryInit, RetryStep, InvTyped, InvRead, InvLinked, PTL DEF Spec

\* An Actor run of a Page, and which attempt it is.
IsAttempt(a, n) ==
    \/ \E k \in Rows : recorded[k].id = a /\ recorded[k].attempt = n
    \/ \E i \in Tasks : tasks[i].at = "starting" /\ tasks[i].cur = a /\ tasks[i].attempt = n

\* A failed Actor run is retried once: no Page is sent a third time, in any life of the worker.
THEOREM SentTwiceAtMost == Spec => []RetriedOnce
<1>1. ASSUME TypeInv, LinkInv, RetryInv PROVE RetriedOnce
  <2> SUFFICES ASSUME faults.kinds \subseteq RetryKinds, NEW p \in Pages
               PROVE  Cardinality({a \in DOMAIN actors : p \in actors[a].pages}) <= APIFY_ATTEMPTS
    BY DEF RetriedOnce, RetryKinds
  <2> DEFINE S == {a \in DOMAIN actors : p \in actors[a].pages}
  <2>0. /\ Types /\ Known /\ RowsInv /\ (\A i \in Tasks : LinkOf(tasks[i]))
        /\ \A i, j \in Tasks : i # j => tasks[i].pages \cap tasks[j].pages = {}
        /\ Smooth /\ AttemptsRise /\ (\A i \in Tasks, k \in Rows : SentBy(k, tasks[i]))
        /\ \A i \in Tasks : Placed(tasks[i])
    BY <1>1 DEF TypeInv, LinkInv, RetryInv, RetryKinds
  <2>1. ASSUME NEW a \in S PROVE \E n \in 1..2 : IsAttempt(a, n)
    <3>1. IsKnown(a)
      BY <2>0 DEF Smooth
    <3>2. ASSUME NEW k \in Rows, recorded[k].id = a PROVE recorded[k].attempt \in 1..2
      <4>1. recorded[k] \in ARecord
        BY <2>0 DEF Types, Rows
      <4> QED
        BY <4>1 DEF ARecord, APIFY_ATTEMPTS
    <3>3. ASSUME NEW i \in Tasks, tasks[i].at = "starting" PROVE tasks[i].attempt \in 1..2
      <4>1. tasks[i] \in ATask /\ Placed(tasks[i])
        BY <2>0 DEF Types, Tasks
      <4>2. tasks[i].attempt \in 0..2
        BY <4>1 DEF ATask, APIFY_ATTEMPTS
      <4> QED
        BY <3>3, <4>1, <4>2 DEF Placed
    <3> QED
      BY <3>1, <3>2, <3>3 DEF IsKnown, IsAttempt
  <2>2. ASSUME NEW a \in S, NEW b \in S, NEW n \in 1..2, IsAttempt(a, n), IsAttempt(b, n) PROVE a = b
    <3>1. ASSUME NEW k \in Rows, NEW l \in Rows, recorded[k].id = a, recorded[k].attempt = n,
                 recorded[l].id = b, recorded[l].attempt = n
          PROVE  a = b
      <4>1. p \in recorded[k].pages /\ p \in recorded[l].pages
        BY <2>0, <3>1 DEF Known
      <4>2. recorded[k].pages = recorded[l].pages
        BY <2>0, <4>1 DEF RowsInv, EqualOrApart
      <4>3. k \in Int /\ l \in Int
        BY <2>0 DEF Rows, Types
      <4>4. ~(k < l) /\ ~(l < k)
        BY <2>0, <3>1, <4>2 DEF AttemptsRise
      <4> QED
        BY <3>1, <4>3, <4>4
    <3>2. ASSUME NEW k \in Rows, NEW i \in Tasks, recorded[k].id \in {a, b}, recorded[k].attempt = n,
                 tasks[i].at = "starting", tasks[i].cur \in {a, b}, tasks[i].attempt = n
          PROVE  FALSE
      <4>1. p \in recorded[k].pages
        BY <2>0, <3>2 DEF Known
      <4>2. p \in tasks[i].pages
        BY <2>0, <3>2 DEF Placed
      <4>3. recorded[k].pages = tasks[i].pages
        BY <2>0, <4>1, <4>2 DEF LinkOf, RowOf, EqualOrApart
      <4>4. recorded[k].attempt < tasks[i].attempt
        BY <2>0, <3>2, <4>3 DEF SentBy
      <4> QED
        BY <3>2, <4>4
    <3>3. ASSUME NEW i \in Tasks, NEW j \in Tasks, tasks[i].at = "starting", tasks[i].cur = a,
                 tasks[j].at = "starting", tasks[j].cur = b
          PROVE  a = b
      <4>1. p \in tasks[i].pages /\ p \in tasks[j].pages
        BY <2>0, <3>3 DEF Placed
      <4> QED
        BY <2>0, <3>3, <4>1
    <3> QED
      BY <2>2, <3>1, <3>2, <3>3 DEF IsAttempt
  <2> DEFINE f == [a \in S |-> CHOOSE n \in 1..2 : IsAttempt(a, n)]
  <2>3. \A a \in S : f[a] \in 1..2 /\ IsAttempt(a, f[a])
    BY <2>1
  <2>4. f \in [S -> 1..2]
    BY <2>3
  <2> HIDE DEF f, S
  <2>5. f \in Injection(S, 1..2)
    BY <2>2, <2>3, <2>4 DEF Injection, IsInjective
  <2>6. IsFiniteSet(1..2) /\ Cardinality(1..2) = 2
    <3>1. 1 \in Int /\ 2 \in Int
      OBVIOUS
    <3>2. IsFiniteSet(1..2) /\ Cardinality(1..2) = IF 1 > 2 THEN 0 ELSE 2 - 1 + 1
      BY <3>1, FS_Interval
    <3> QED
      BY <3>2
  <2> QED
    BY <2>5, <2>6, FS_Injection DEF APIFY_ATTEMPTS, S
<1> QED
  BY <1>1, InvTyped, InvLinked, InvRetried, PTL DEF Spec

---------------------------------------------------------------------------
(* Nothing is paid for twice while the worker sees every Actor run.        *)

Ended(a) == actors[a].status \in {"REFUSED", "FAILED"}

\* The Actor run started last for these Pages.
Newest(a, P) ==
    /\ a \in DOMAIN actors /\ actors[a].pages = P
    /\ \A b \in DOMAIN actors : actors[b].pages = P => b <= a

\* A Batch is with the newest Actor run of its Pages, or about to start one: then the ones
\* before it have ended in vain.
SightOf(t) ==
    /\ t.at = "queued" /\ t.attached = None => \A a \in DOMAIN actors : actors[a].pages # t.pages
    /\ t.at = "queued" /\ t.attached # None => Newest(t.attached, t.pages)
    /\ t.at = "attempting" /\ Follows(t) => Newest(t.attached, t.pages)
    /\ t.at = "attempting" /\ ~Follows(t) => \A a \in DOMAIN actors : actors[a].pages = t.pages => Ended(a)
    /\ t.at \in {"starting", "polling"} => Newest(t.cur, t.pages)

OneAtATime ==
    \A a, b \in DOMAIN actors : a < b /\ actors[a].pages \cap actors[b].pages # {} => Ended(a)

RowsInOrder ==
    \A k, l \in Rows : k < l /\ recorded[k].pages = recorded[l].pages => recorded[k].id < recorded[l].id

SightInv == InSight => OneAtATime /\ RowsInOrder /\ \A i \in Tasks : SightOf(tasks[i])

\* The Pages of an Actor run are those of a Batch, or others.
LEMMA ActorsApart ==
    ASSUME TypeInv, Smooth, \A i \in Tasks : LinkOf(tasks[i]),
           \A i, j \in Tasks : i # j => tasks[i].pages \cap tasks[j].pages = {},
           NEW a \in DOMAIN actors, NEW i \in Tasks
    PROVE  EqualOrApart(actors[a].pages, tasks[i].pages)
<1>1. IsKnown(a)
  BY DEF Smooth
<1>2. ASSUME NEW k \in Rows, recorded[k].id = a PROVE EqualOrApart(actors[a].pages, tasks[i].pages)
  <2>1. actors[a].pages = recorded[k].pages
    BY <1>2 DEF TypeInv, Known
  <2> QED
    BY <2>1 DEF LinkOf, RowOf
<1>3. ASSUME NEW j \in Tasks, tasks[j].at = "starting", tasks[j].cur = a
      PROVE  EqualOrApart(actors[a].pages, tasks[i].pages)
  <2>1. actors[a].pages = tasks[j].pages
    BY <1>3 DEF TypeInv, Placed
  <2> QED
    BY <2>1 DEF EqualOrApart
<1> QED
  BY <1>1, <1>2, <1>3 DEF IsKnown

\* A Batch keeps sight while nothing is started for its Pages.
LEMMA SightStays ==
    ASSUME TypeInv, ActorsGrow, NEW v, v' = v, Placed(v), SightOf(v), Follows(v)' <=> Follows(v),
           \A a \in DOMAIN actors' \ DOMAIN actors : actors'[a].pages # v.pages
    PROVE  SightOf(v)'
<1>1. \A a : Newest(a, v.pages) => /\ a \in DOMAIN actors' /\ actors'[a].pages = v.pages
                                   /\ \A b \in DOMAIN actors' : actors'[b].pages = v.pages => b <= a
  BY DEF Newest, ActorsGrow
<1>2. \A a \in DOMAIN actors : Ended(a) => actors'[a].status \in {"REFUSED", "FAILED"}
  BY DEF Ended, ActorsGrow
<1>3. \A a \in DOMAIN actors' : actors'[a].pages = v.pages => a \in DOMAIN actors /\ actors[a].pages = v.pages
  BY DEF ActorsGrow
<1> QED
  BY <1>1, <1>2, <1>3 DEF SightOf, Newest, Ended

\* What a Batch follows does not change with another one's move.
LEMMA FollowsKept ==
    ASSUME RowsInv, RowsInv', RowsKeep, NEW v, v' = v, Placed(v)
    PROVE  Follows(v)' <=> Follows(v)
<1>1. v.attached # None => AttemptThen(v.attached) = AttemptOf(v.attached)
  <2> SUFFICES ASSUME v.attached # None PROVE AttemptThen(v.attached) = AttemptOf(v.attached)
    OBVIOUS
  <2>1. PICK l \in Rows : recorded[l].id = v.attached
    BY DEF Placed
  <2> QED
    BY <2>1, AttemptKept
<1> QED
  BY <1>1 DEF Follows, AttemptOf, AttemptThen

\* A move starts an Actor run only for its own Pages.
LEMMA NewActors ==
    ASSUME TypeInv, NEW i \in Tasks, Moves(tasks[i], tasks'[i])
    PROVE  \/ DOMAIN actors' = DOMAIN actors
           \/ /\ Starts(tasks[i], tasks'[i])
              /\ DOMAIN actors' = DOMAIN actors \cup {Len(actors) + 1} /\ Len(actors) + 1 \notin DOMAIN actors
              /\ actors'[Len(actors) + 1] = [pages |-> tasks[i].pages, status |-> "RUNNING", data |-> {}]
<1> DEFINE t == tasks[i]
           u == tasks'[i]
<1>0. Moves(t, u) /\ actors \in Seq(AnActor)
  BY DEF TypeInv, Types
<1> SUFFICES \/ DOMAIN actors' = DOMAIN actors
             \/ /\ Starts(t, u)
                /\ DOMAIN actors' = DOMAIN actors \cup {Len(actors) + 1} /\ Len(actors) + 1 \notin DOMAIN actors
                /\ actors'[Len(actors) + 1] = [pages |-> t.pages, status |-> "RUNNING", data |-> {}]
  OBVIOUS
<1> HIDE DEF t, u
<1>1. CASE Starts(t, u)
  <2> DEFINE a == [pages |-> t.pages, status |-> "RUNNING", data |-> {}]
  <2>1. actors' = Append(actors, a)
    BY <1>1 DEF Starts
  <2> HIDE DEF a
  <2>2. DOMAIN actors' = DOMAIN actors \cup {Len(actors) + 1} /\ Len(actors) + 1 \notin DOMAIN actors
        /\ actors'[Len(actors) + 1] = a
    BY <1>0, <2>1
  <2> QED
    BY <1>1, <2>2 DEF a
<1>2. CASE Waits(t, u)
  BY <1>0, <1>2 DEF Waits
<1>3. ASSUME NEW ad \in AllAds, Stores(t, u, ad) \/ Skips(t, u, ad) PROVE UNCHANGED actors
  BY <1>3 DEF Stores, Skips
<1>4. ASSUME ~Starts(t, u), ~Waits(t, u) PROVE UNCHANGED actors
  BY <1>0, <1>3, <1>4 DEF Moves, GetsSlot, TriesAgain, Records, GoesOn, Succeeds, Opens, Counts, Breaks,
     ReadsAll, CountsFailed, Finishes, Concludes, IsRaised
<1> QED
  BY <1>1, <1>2, <1>4

\* A move keeps the Actor runs one at a time.
LEMMA OneMove ==
    ASSUME TypeInv, OneAtATime, ActorsGrow, NEW i \in Tasks, SightOf(tasks[i]),
           \A a \in DOMAIN actors : EqualOrApart(actors[a].pages, tasks[i].pages),
           Moves(tasks[i], tasks'[i])
    PROVE  OneAtATime'
<1>1. \A a \in DOMAIN actors : actors'[a].pages = actors[a].pages /\ (Ended(a) => Ended(a)')
  BY DEF ActorsGrow, Ended
<1>2. DOMAIN actors = 1..Len(actors) /\ Len(actors) \in Nat
  BY DEF TypeInv, Types
<1>3. CASE DOMAIN actors' = DOMAIN actors
  BY <1>1, <1>3 DEF OneAtATime, Ended
<1>4. CASE /\ Starts(tasks[i], tasks'[i])
           /\ DOMAIN actors' = DOMAIN actors \cup {Len(actors) + 1} /\ Len(actors) + 1 \notin DOMAIN actors
           /\ actors'[Len(actors) + 1] = [pages |-> tasks[i].pages, status |-> "RUNNING", data |-> {}]
  <2> DEFINE n == Len(actors) + 1
  <2>1. actors'[n].pages = tasks[i].pages /\ DOMAIN actors' = DOMAIN actors \cup {n}
    BY <1>4
  <2>2. \A a \in DOMAIN actors : actors[a].pages = tasks[i].pages => Ended(a)
    BY <1>4 DEF Starts, SightOf
  <2>3. \A a \in DOMAIN actors : a < n /\ ~(n < a)
    BY <1>2
  <2>4. ~(n < n)
    BY <1>2
  <2> HIDE DEF n
  <2>5. ASSUME NEW a \in DOMAIN actors', NEW b \in DOMAIN actors', a < b,
               actors'[a].pages \cap actors'[b].pages # {}
        PROVE  Ended(a)'
    <3>1. a \in DOMAIN actors
      BY <2>1, <2>3, <2>4, <2>5
    <3>2. CASE b \in DOMAIN actors
      BY <1>1, <2>5, <3>1, <3>2 DEF OneAtATime
    <3>3. CASE b = n
      BY <1>1, <2>1, <2>2, <2>5, <3>1, <3>3 DEF EqualOrApart
    <3> QED
      BY <2>1, <3>2, <3>3
  <2> QED
    BY <2>5 DEF OneAtATime, Ended
<1> QED
  BY <1>3, <1>4, NewActors

\* A move keeps sight of the Batch's own Actor runs.
LEMMA SightMove ==
    ASSUME TypeInv, RowsInv, RowsInv', OneAtATime, NEW i \in Tasks, LinkOf(tasks[i]), SightOf(tasks[i]),
           \A k \in Rows : SentBy(k, tasks[i]),
           ~Raised, \A kind \in {"answer", "call"} : ~Fault(kind), ~Fails("db"),
           OnlyBatch(i), Moves(tasks[i], tasks'[i])
    PROVE  SightOf(tasks[i])'
<1> DEFINE t == tasks[i]
           u == tasks'[i]
           Fol == u.attached # None /\ AttemptThen(u.attached) = u.attempt + 1
           NewestThen(a) == /\ a \in DOMAIN actors' /\ actors'[a].pages = u.pages
                      /\ \A b \in DOMAIN actors' : actors'[b].pages = u.pages => b <= a
           Goal ==
               /\ u.at = "queued" /\ u.attached = None => \A a \in DOMAIN actors' : actors'[a].pages # u.pages
               /\ u.at = "queued" /\ u.attached # None => NewestThen(u.attached)
               /\ u.at = "attempting" /\ Fol => NewestThen(u.attached)
               /\ u.at = "attempting" /\ ~Fol => \A a \in DOMAIN actors' : actors'[a].pages = u.pages
                                                     => actors'[a].status \in {"REFUSED", "FAILED"}
               /\ u.at \in {"starting", "polling"} => NewestThen(u.cur)
<1>0. /\ LinkOf(t) /\ SightOf(t) /\ t \in ATask /\ Placed(t) /\ Known /\ RowsKeep /\ ActorsGrow
      /\ APIFY_ATTEMPTS = 2 /\ u.pages = t.pages /\ u.attached = t.attached /\ Moves(t, u)
      /\ actors \in Seq(AnActor) /\ \A k \in Rows : SentBy(k, t)
  BY RowsMove, MovesGrow DEF TypeInv, Types, OnlyBatch, Tasks, APIFY_ATTEMPTS
<1> SUFFICES Goal
  BY DEF SightOf, Newest, Ended, Follows, AttemptOf, AttemptThen
<1>v. t.attempt \in 0..2 /\ DOMAIN actors = 1..Len(actors) /\ Len(actors) \in Nat
  BY <1>0 DEF ATask
<1> HIDE DEF t, u
<1>2. ASSUME NEW k \in Rows, t.attached # None, recorded[k].id = t.attached
      PROVE  /\ AttemptOf(t.attached) = recorded[k].attempt /\ AttemptThen(u.attached) = recorded[k].attempt
             /\ recorded[k].pages = t.pages /\ recorded[k].attempt \in 1..2
  <2>1. recorded[k] \in ARecord
    BY DEF TypeInv, Types, Rows
  <2> QED
    BY <1>0, <1>2, <2>1, AttemptKept DEF ARecord, LinkOf, Known
<1>2a. t.attached # None => \E k \in Rows : recorded[k].id = t.attached
  BY <1>0 DEF Placed
<1>3. CASE GetsSlot(t, u)
  <2>1. t.at = "queued" /\ u.at = "attempting" /\ u.attempt = AttemptsBefore(t) /\ UNCHANGED actors
    BY <1>3 DEF GetsSlot
  <2>2. CASE t.attached = None
    BY <1>0, <2>1, <2>2 DEF SightOf
  <2>3. CASE t.attached # None
    <3>1. PICK k \in Rows : recorded[k].id = t.attached
      BY <1>2a, <2>3
    <3>2. Fol
      BY <1>0, <1>2, <2>1, <2>3, <3>1 DEF AttemptsBefore
    <3>3. Newest(t.attached, t.pages)
      BY <1>0, <2>1, <2>3 DEF SightOf
    <3> QED
      BY <1>0, <2>1, <3>2, <3>3 DEF Newest
  <2> QED
    BY <2>2, <2>3
<1>4. CASE Starts(t, u)
  <2>1. u.at = "starting" /\ u.cur = Len(actors) + 1
    BY <1>4 DEF Starts
  <2>2. DOMAIN actors' = DOMAIN actors \cup {u.cur} /\ actors'[u.cur].pages = u.pages
    <3> DEFINE a == [pages |-> t.pages, status |-> "RUNNING", data |-> {}]
    <3>1. actors' = Append(actors, a) /\ a.pages = u.pages
      BY <1>0, <1>4 DEF Starts
    <3> HIDE DEF a
    <3> QED
      BY <1>0, <2>1, <3>1
  <2>3. NewestThen(u.cur)
    BY <1>v, <2>1, <2>2
  <2> QED
    BY <2>1, <2>3
<1>5. CASE TriesAgain(t, u)
  <2>1. /\ t.at = "polling" /\ u.attempt = t.attempt /\ u.cur = t.cur /\ UNCHANGED actors
        /\ Ended(t.cur) /\ u.at \in {"attempting", "waiting"}
    BY <1>0, <1>5 DEF TriesAgain, CallFails, Ended, Raised
  <2>2. ~Fol
    <3> SUFFICES ASSUME Fol PROVE FALSE
      OBVIOUS
    <3>1. PICK k \in Rows : recorded[k].id = t.attached
      BY <1>0, <1>2a
    <3>2. AttemptThen(u.attached) = recorded[k].attempt /\ recorded[k].pages = t.pages
          /\ recorded[k].attempt \in 1..2
      BY <1>0, <1>2, <3>1
    <3>3. recorded[k].attempt <= t.attempt
      BY <1>0, <2>1, <3>2 DEF SentBy
    <3> QED
      BY <1>v, <2>1, <3>2, <3>3
  <2>3. ASSUME NEW a \in DOMAIN actors, actors[a].pages = t.pages PROVE Ended(a)
    <3>1. Newest(t.cur, t.pages) /\ t.pages # {}
      BY <1>0, <2>1 DEF SightOf, Placed
    <3>2. CASE a = t.cur
      BY <2>1, <3>2
    <3>3. CASE a # t.cur
      <4>1. a < t.cur /\ t.cur \in DOMAIN actors /\ actors[t.cur].pages = t.pages
        BY <1>v, <2>3, <3>1, <3>3 DEF Newest
      <4> QED
        BY <2>3, <3>1, <4>1 DEF OneAtATime
    <3> QED
      BY <3>2, <3>3
  <2> QED
    BY <1>0, <2>1, <2>2, <2>3 DEF Ended
<1>6. CASE Records(t, u)
  <2>1. t.at = "starting" /\ u.at = "polling" /\ u.cur = t.cur /\ UNCHANGED actors
    BY <1>6 DEF Records
  <2> QED
    BY <1>0, <2>1 DEF SightOf, Newest
<1>7. CASE GoesOn(t, u)
  <2>1. t.at = "attempting" /\ Follows(t) /\ u.at = "polling" /\ u.cur = t.attached /\ UNCHANGED actors
    BY <1>7 DEF GoesOn
  <2> QED
    BY <1>0, <2>1 DEF SightOf, Newest
<1>8. CASE Waits(t, u)
  <2>1. t.at = "polling" /\ u.at = "polling" /\ u.cur = t.cur
    BY <1>8 DEF Waits
  <2>2. DOMAIN actors' = DOMAIN actors /\ \A a \in DOMAIN actors : actors'[a].pages = actors[a].pages
    BY <1>0, <1>8 DEF Waits, ActorsGrow
  <2> QED
    BY <1>0, <2>1, <2>2 DEF SightOf, Newest
<1>9. CASE u.at \notin {"queued", "attempting", "starting", "polling"}
  BY <1>9
<1>10. ASSUME NEW ad \in AllAds, Stores(t, u, ad) \/ Skips(t, u, ad)
       PROVE  u.at \notin {"queued", "attempting", "starting", "polling"}
  BY <1>10 DEF Stores, Skips
<1> HIDE DEF Goal
<1>11. CASE Succeeds(t, u) \/ Opens(t, u) \/ Counts(t, u) \/ Breaks(t, u) \/ ReadsAll(t, u) \/ CountsFailed(t, u)
            \/ Finishes(t, u) \/ Concludes(t, u) \/ IsRaised(t, u)
  BY <1>9, <1>11 DEF Succeeds, Opens, Counts, Breaks, ReadsAll, CountsFailed, Finishes, Concludes, IsRaised
<1> QED
  BY <1>0, <1>3, <1>4, <1>5, <1>6, <1>7, <1>8, <1>9, <1>10, <1>11 DEF Moves

\* A row that is added is of the newest Actor run.
LEMMA OrderMove ==
    ASSUME TypeInv, RowsInOrder, NEW i \in Tasks, LinkOf(tasks[i]), SightOf(tasks[i]), Moves(tasks[i], tasks'[i])
    PROVE  RowsInOrder'
<1> DEFINE t == tasks[i]
           u == tasks'[i]
<1>0. /\ Rows = 1..Len(recorded) /\ Len(recorded) \in Nat /\ RowsKeep /\ RowsMoved(t, u)
      /\ LinkOf(t) /\ SightOf(t) /\ Known /\ actors \in Seq(AnActor) /\ Placed(t)
  BY RowsMove DEF TypeInv, Types, Rows
<1> HIDE DEF t, u
<1>1. CASE Rows' = Rows
  BY <1>0, <1>1 DEF RowsKeep, RowsInOrder
<1>2. CASE /\ t.at = "starting" /\ Rows' = Rows \cup {Len(recorded) + 1}
           /\ recorded'[Len(recorded) + 1] = NewRow(t)
  <2> DEFINE n == Len(recorded) + 1
  <2>1. recorded'[n].pages = t.pages /\ recorded'[n].id = t.cur
    BY <1>2 DEF NewRow
  <2>2. ASSUME NEW k \in Rows, recorded[k].pages = t.pages PROVE recorded[k].id < t.cur
    <3>1. recorded[k].id \in DOMAIN actors /\ actors[recorded[k].id].pages = t.pages
      BY <1>0, <2>2 DEF Known
    <3>2. recorded[k].id <= t.cur /\ t.cur \in DOMAIN actors
      BY <1>0, <1>2, <3>1 DEF SightOf, Newest
    <3>3. recorded[k].id # t.cur
      BY <1>0, <1>2 DEF LinkOf, RowOf
    <3>4. recorded[k].id \in Int /\ t.cur \in Int
      BY <1>0, <3>1, <3>2
    <3> QED
      BY <3>2, <3>3, <3>4
  <2>3. \A k \in Rows : k \in Int /\ k < n
    BY <1>0
  <2>4. Rows' = Rows \cup {n} /\ n \in Int
    BY <1>0, <1>2
  <2> HIDE DEF n
  <2>5. ASSUME NEW k \in Rows', NEW l \in Rows', k < l, recorded'[k].pages = recorded'[l].pages
        PROVE  recorded'[k].id < recorded'[l].id
    <3>1. k \in Rows
      BY <2>3, <2>4, <2>5
    <3>2. CASE l \in Rows
      BY <1>0, <2>5, <3>1, <3>2 DEF RowsKeep, RowsInOrder
    <3>3. CASE l = n
      BY <1>0, <2>1, <2>2, <2>5, <3>1, <3>3 DEF RowsKeep
    <3> QED
      BY <2>4, <3>2, <3>3
  <2> QED
    BY <2>5 DEF RowsInOrder
<1> QED
  BY <1>0, <1>1, <1>2 DEF RowsMoved, Rows

\* A Batch that is resumed is with the newest Actor run of its Pages, or new to Apify.
LEMMA SightResumed ==
    ASSUME TypeInv, RowsInv, tracked = Pages, RowsInOrder, NEW n \in DOMAIN ResumePlan,
           \A a \in DOMAIN actors : \E k \in Rows : recorded[k].id = a
    PROVE  SightOf(ResumePlan[n])
<1> DEFINE t == ResumePlan[n]
<1>0. Types /\ Known /\ Resumed(t) /\ t.pages # {} /\ t.at = "queued"
  BY ResumePlanIs, ResumedIs DEF TypeInv
<1> HIDE DEF t
<1>1. CASE t = Task(t.pages, None) /\ t.pages \subseteq tracked \ Started
  <2>1. t.attached = None
    BY <1>1 DEF Task
  <2>2. ASSUME NEW a \in DOMAIN actors PROVE actors[a].pages # t.pages
    <3>1. PICK k \in Rows : recorded[k].id = a
      OBVIOUS
    <3>2. recorded[k].pages \subseteq Started /\ recorded[k].pages = actors[a].pages
      BY <1>0, <3>1 DEF Started, Known
    <3> QED
      BY <1>0, <1>1, <3>2
  <2> QED
    BY <1>0, <2>1, <2>2 DEF SightOf, t
<1>2. ASSUME NEW m \in OpenRows, t = Followed(m) PROVE SightOf(t)
  <2>1. m \in Rows
    BY DEF OpenRows, FirstRows
  <2>2. PICK j \in Rows : IsLatest(j, recorded[m].pages) /\ Latest(recorded[m].pages) = recorded[j]
    BY <1>0, <2>1, LatestIs
  <2>3. recorded[m].pages \cap tracked = recorded[m].pages
    <3>1. recorded[m] \in ARecord
      BY <1>0, <2>1 DEF Types, Rows
    <3> QED
      BY <3>1 DEF ARecord
  <2>4. t.attached = recorded[j].id /\ t.pages = recorded[j].pages
    BY <1>2, <2>2, <2>3 DEF Followed, Task, IsLatest
  <2>5. recorded[j].id \in DOMAIN actors /\ actors[recorded[j].id].pages = t.pages
        /\ recorded[j].id \in Int /\ recorded[j].id # None
    <3>1. recorded[j].id \in DOMAIN actors /\ actors[recorded[j].id].pages = t.pages
      BY <1>0, <2>4 DEF Known
    <3>2. DOMAIN actors \subseteq Nat \ {0}
      BY <1>0 DEF Types
    <3> QED
      BY <3>1, <3>2 DEF None
  <2>6. ASSUME NEW b \in DOMAIN actors, actors[b].pages = t.pages PROVE b <= recorded[j].id
    <3>1. PICK k \in Rows : recorded[k].id = b
      OBVIOUS
    <3>2. recorded[k].pages = t.pages
      BY <1>0, <2>6, <3>1 DEF Known
    <3>3. k <= j /\ k \in Int /\ j \in Int
      BY <1>0, <2>2, <2>4, <3>2 DEF IsLatest, Rows, Types
    <3>4. b \in Int
      BY <1>0 DEF Types
    <3>5. CASE k = j
      BY <2>5, <3>1, <3>5
    <3>6. CASE k # j
      <4>1. recorded[k].id < recorded[j].id
        BY <2>4, <3>2, <3>3, <3>6 DEF RowsInOrder
      <4> QED
        BY <2>5, <3>1, <3>4, <4>1
    <3> QED
      BY <3>5, <3>6
  <2> QED
    BY <1>0, <2>4, <2>5, <2>6 DEF SightOf, Newest
<1> QED
  BY <1>0, <1>1, <1>2 DEF Resumed, t

\* Nothing was started yet.
LEMMA SightInit == Init => SightInv
<1> SUFFICES ASSUME Init PROVE SightInv
  OBVIOUS
<1>1. Rows = {} /\ DOMAIN actors = {}
  BY DEF Init, Rows
<1>2. ASSUME NEW k \in Tasks PROVE tasks[k].at = "queued" /\ tasks[k].attached = None
  <2> DEFINE t == tasks[k]
  <2>0. Pages \in SUBSET Pages
    OBVIOUS
  <2>1. t = Task(t.pages, None)
    BY <2>0, FreshIs DEF Init, Tasks
  <2> QED
    BY <2>1 DEF Task
<1>3. ASSUME NEW k \in Tasks PROVE SightOf(tasks[k])
  BY <1>1, <1>2 DEF SightOf
<1> QED
  BY <1>1, <1>3 DEF SightInv, OneAtATime, RowsInOrder

\* Every step keeps sight of the Actor runs.
LEMMA SightStep ==
    ASSUME TypeInv, ReadInv, LinkInv, RetryInv, SightInv, [Next]_vars
    PROVE  SightInv'
<1> SUFFICES ASSUME faults'.kinds \subseteq {"crash", "read", "summary"} PROVE SightInv'
  BY DEF SightInv, InSight
<1>0. /\ ActorsGrow /\ tracked = Pages /\ RowsInv /\ (\A i \in Tasks : LinkOf(tasks[i])) /\ RowsInv'
      /\ \A i, j \in Tasks : i # j => tasks[i].pages \cap tasks[j].pages = {}
      /\ Smooth /\ (\A i \in Tasks, k \in Rows : SentBy(k, tasks[i]))
      /\ OneAtATime /\ RowsInOrder /\ \A i \in Tasks : SightOf(tasks[i])
  <2>1. faults.kinds \subseteq {"crash", "read", "summary"}
    BY StepFaults
  <2>2. faults.kinds \subseteq RetryKinds /\ "delete" \notin faults.kinds /\ "delete" \notin faults'.kinds
    BY <2>1 DEF RetryKinds
  <2> QED
    BY <2>1, <2>2, StepGrows, LinkStep DEF LinkInv, ReadInv, RetryInv, SightInv, InSight
<1>1. /\ ~Raised /\ (\A kind \in {"answer", "record", "db", "delete", "midstart", "call"} : ~Fault(kind))
      /\ ~Fails("db")
  <2>1. \A kind \in {"answer", "record", "db", "delete", "midstart", "call"} : ~Fault(kind)
    BY FaultsAddUp
  <2> QED
    BY <1>0, <2>1 DEF Smooth, Raised, Fails
<1>2. ASSUME NEW i \in Tasks, TaskStep(i) PROVE SightInv'
  <2>1. OnlyBatch(i) /\ Moves(tasks[i], tasks'[i])
    BY <1>2, TaskMoves
  <2>2. \A a \in DOMAIN actors : EqualOrApart(actors[a].pages, tasks[i].pages)
    BY <1>0, ActorsApart
  <2>3. OneAtATime'
    BY <1>0, <2>1, <2>2, OneMove
  <2>4. RowsInOrder'
    BY <1>0, <2>1, OrderMove
  <2>5. SightOf(tasks[i])'
    BY <1>0, <1>1, <2>1, SightMove
  <2>6. ASSUME NEW j \in Tasks, j # i PROVE SightOf(tasks[j])'
    <3>1. /\ (tasks[j])' = tasks[j] /\ Placed(tasks[j]) /\ Placed(tasks[i]) /\ RowsKeep
          /\ tasks[i].pages # tasks[j].pages
      BY <1>0, <2>1, <2>6, RowsMove DEF OnlyBatch, TypeInv, Placed
    <3>2. Follows(tasks[j])' <=> Follows(tasks[j])
      BY <1>0, <3>1, FollowsKept
    <3>3. \A a \in DOMAIN actors' \ DOMAIN actors : actors'[a].pages # tasks[j].pages
      <4> SUFFICES ASSUME NEW a \in DOMAIN actors' \ DOMAIN actors PROVE actors'[a].pages = tasks[i].pages
        BY <3>1
      <4>1. actors'[a] = [pages |-> tasks[i].pages, status |-> "RUNNING", data |-> {}]
        BY <2>1, NewActors
      <4> QED
        BY <4>1
    <3> QED
      BY <1>0, <3>1, <3>2, <3>3, SightStays
  <2> QED
    BY <2>1, <2>3, <2>4, <2>5, <2>6 DEF SightInv, OnlyBatch
<1>3. ASSUME ~\E i \in Tasks : TaskStep(i) PROVE UNCHANGED recorded /\ DOMAIN actors' = DOMAIN actors
  BY <1>3, StepElse
<1>4. ASSUME ~\E i \in Tasks : TaskStep(i) PROVE OneAtATime' /\ RowsInOrder'
  BY <1>0, <1>3, <1>4 DEF OneAtATime, RowsInOrder, Rows, ActorsGrow, Ended
<1>5. CASE UNCHANGED tasks /\ ~\E i \in Tasks : TaskStep(i)
  <2>1. ASSUME NEW j \in Tasks PROVE SightOf(tasks[j])'
    <3>1. SightOf(tasks[j]) /\ Placed(tasks[j]) /\ (tasks[j])' = tasks[j]
      BY <1>0, <1>5 DEF TypeInv
    <3>2. Follows(tasks[j])' <=> Follows(tasks[j])
      BY <1>3, <1>5 DEF Follows, AttemptOf, Rows
    <3> QED
      BY <1>0, <1>3, <1>5, <3>1, <3>2, SightStays
  <2> QED
    BY <1>4, <1>5, <2>1 DEF SightInv, Tasks
<1>6. CASE tasks' = <<>> /\ ~\E i \in Tasks : TaskStep(i)
  BY <1>4, <1>6 DEF SightInv, Tasks
<1>7. CASE Resume /\ ~\E i \in Tasks : TaskStep(i)
  <2>1. tasks' = ResumePlan /\ UNCHANGED <<recorded, actors>> /\ \A i \in Tasks : tasks[i].at # "starting"
    BY <1>0, <1>7 DEF Resume, apify, Smooth
  <2>2. \A a \in DOMAIN actors : \E k \in Rows : recorded[k].id = a
    BY <1>0, <2>1 DEF Smooth, IsKnown
  <2>3. ASSUME NEW n \in Tasks' PROVE SightOf(tasks[n])'
    <3> DEFINE t == ResumePlan[n]
    <3>1. n \in DOMAIN ResumePlan /\ tasks'[n] = t
      BY <2>1 DEF Tasks
    <3>2. SightOf(t) /\ t.at = "queued"
      BY <1>0, <2>2, <3>1, SightResumed, ResumedIs
    <3> HIDE DEF t
    <3> QED
      BY <2>1, <3>1, <3>2 DEF SightOf, Newest
  <2> QED
    BY <1>4, <1>7, <2>3 DEF SightInv
<1> QED
  BY <1>2, <1>5, <1>6, <1>7, OtherSteps

\* Sight of the Actor runs is kept in every behaviour.
LEMMA InvInSight == Spec => []SightInv
BY SightInit, SightStep, InvTyped, InvRead, InvLinked, InvRetried, PTL DEF Spec

\* However often the worker dies and is resumed, no Page is read by two Actor runs at a time,
\* or again after one read it well.
THEOREM PaidOnce == Spec => []NothingPaidTwice
<1>1. SightInv => NothingPaidTwice
  BY DEF SightInv, NothingPaidTwice, OneAtATime, Ended
<1> QED
  BY <1>1, InvInSight, PTL

---------------------------------------------------------------------------
(* No more Actor runs at a time than the limit.                            *)

\* An Actor run that runs, or failed and is to be retried, ...
CanRun(a) ==
    \/ actors[a].status = "RUNNING"
    \/ /\ actors[a].status = "FAILED"
       /\ \A k \in Rows : recorded[k].id = a => recorded[k].attempt < APIFY_ATTEMPTS

\* ... and was not yet.
Live(a) == CanRun(a) /\ Newest(a, actors[a].pages)

\* A Batch is about to start its first Actor run.
New(t) == t.at = "attempting" /\ \A a \in DOMAIN actors : actors[a].pages # t.pages

\* The Batches that have an Actor run, or may start one without waiting for a slot.
Claimed ==
    {P \in SUBSET Pages : \/ \E a \in DOMAIN actors : Live(a) /\ actors[a].pages = P
                          \/ \E i \in Tasks : New(tasks[i]) /\ tasks[i].pages = P}

LimitOf(t) ==
    /\ t.at \in {"queued", "attempting", "starting", "polling"} => t.retry
    /\ t.at = "attempting" /\ ~Follows(t) => \A a \in DOMAIN actors : Newest(a, t.pages) => CanRun(a)
    /\ t.at = "polling" => \A k \in Rows : recorded[k].id = t.cur => recorded[k].attempt = t.attempt

\* The Batches that follow an Actor run are the first in line.
FollowersFirst == \A i, j \in Tasks : i < j /\ tasks[i].attached = None => tasks[j].attached = None

\* A Batch of the worker is on this Actor run, or in line for it.
HasBatch(a) == \E i \in Tasks : tasks[i].pages = actors[a].pages /\ tasks[i].at \in Reading \cup {"queued"}

Attended(a) ==
    Live(a) => /\ worker = "up" => HasBatch(a)
               /\ \A k \in Rows : recorded[k].id = a => recorded[k].outcome = "none"

LimitInv ==
    InSight =>
        /\ Cardinality(Claimed) <= Parallel
        /\ FollowersFirst
        /\ \A i \in Tasks : LimitOf(tasks[i])
        /\ \A a \in DOMAIN actors : actors[a].pages # {} /\ Attended(a)

\* What the layers before say while the worker sees every Actor run.
Seen ==
    /\ TypeInv /\ RowsInv /\ tracked = Pages /\ Smooth /\ OneAtATime /\ RowsInOrder
    /\ \A i \in Tasks : LinkOf(tasks[i]) /\ SightOf(tasks[i])
    /\ \A i, j \in Tasks : i # j => tasks[i].pages \cap tasks[j].pages = {}

\* No call and no statement fails.
Works == ~Raised /\ (\A kind \in {"answer", "record", "call"} : ~Fault(kind)) /\ ~Fails("db")

\* A slot is given to the first in line, if there is one.
LEMMA SlotIsFree ==
    ASSUME NEW i \in Tasks, TaskStep(i)
    PROVE  /\ worker = "up" /\ UNCHANGED worker
           /\ tasks[i].at = "queued" => /\ \A j \in Tasks : j < i => tasks[j].at # "queued"
                                        /\ Cardinality({j \in Tasks : tasks[j].at \in Reading}) < Parallel
<1>1. ASSUME NEW ad \in AllAds, StoreAd(i, ad)
      PROVE worker = "up" /\ UNCHANGED worker /\ tasks[i].at # "queued"
  BY <1>1 DEF StoreAd, At
<1>2. CASE TakeSlot(i)
  BY <1>2 DEF TakeSlot, At
<1>3. CASE StartRun(i) \/ StartFails(i) \/ RecordRun(i) \/ LoseAnswer(i) \/ Follow(i) \/ Watch(i)
           \/ AbortRun(i) \/ PollFails(i) \/ SeeEnd(i)
  BY <1>3 DEF StartRun, StartFails, RecordRun, LoseAnswer, Follow, Watch, AbortRun, PollFails, SeeEnd, At
<1>4. CASE TakeStoreLock(i) \/ CountAd(i) \/ ReadFails(i) \/ ReadEverything(i)
           \/ FailPages(i) \/ FinishPages(i) \/ Conclude(i)
  BY <1>4 DEF TakeStoreLock, CountAd, ReadFails, ReadEverything, FailPages, FinishPages, Conclude, At
<1> QED
  BY <1>1, <1>2, <1>3, <1>4 DEF TaskStep

\* An Actor run that ended stays as it is, and its retry is counted for good.
LEMMA CanRunStays ==
    ASSUME ActorsGrow, RowsKeep, NEW a \in DOMAIN actors
    PROVE  /\ CanRun(a)' => CanRun(a)
           /\ \A P : Newest(a, P)' => Newest(a, P)
           /\ Live(a)' => Live(a) /\ actors'[a].pages = actors[a].pages
<1>1. CanRun(a)' => CanRun(a)
  BY DEF ActorsGrow, RowsKeep, CanRun
<1>2. \A P : Newest(a, P)' => Newest(a, P)
  BY DEF ActorsGrow, Newest
<1> QED
  BY <1>1, <1>2 DEF Live, ActorsGrow

\* There are finitely many claims.
LEMMA ClaimsFinite == IsFiniteSet(Claimed)
<1>1. IsFiniteSet(SUBSET Pages)
  BY ApifyAssumption, FS_SUBSET
<1>2. Claimed \in SUBSET SUBSET Pages
  BY DEF Claimed
<1> QED
  BY <1>1, <1>2, FS_Subset

\* Claims that are not added to stay within the limit.
LEMMA FewerClaims ==
    ASSUME Cardinality(Claimed) <= Parallel, Claimed' \subseteq Claimed
    PROVE  Cardinality(Claimed') <= Parallel
<1>1. /\ IsFiniteSet(Claimed') /\ Cardinality(Claimed') <= Cardinality(Claimed)
      /\ Cardinality(Claimed') \in Nat /\ Cardinality(Claimed) \in Nat
  BY ClaimsFinite, FS_Subset, FS_CardinalityType
<1> QED
  BY <1>1, ApifyAssumption

\* No claim is added while no Actor run is started and no new Batch gets a slot.
LEMMA ClaimsStay ==
    ASSUME ActorsGrow, RowsKeep, DOMAIN actors' = DOMAIN actors,
           \A j \in Tasks' : New(tasks[j])' => \E i \in Tasks : New(tasks[i]) /\ tasks[i].pages = tasks'[j].pages
    PROVE  Claimed' \subseteq Claimed
<1>1. \A a \in DOMAIN actors : Live(a)' => Live(a) /\ actors'[a].pages = actors[a].pages
  BY CanRunStays
<1> QED
  BY <1>1 DEF Claimed

\* A new Batch gets a slot: then every claim is a Batch with a slot.
LEMMA SlotClaims ==
    ASSUME Seen, NEW i \in Tasks, TaskStep(i), OnlyBatch(i), GetsSlot(tasks[i], tasks'[i]),
           tasks[i].attached = None, FollowersFirst, \A a \in DOMAIN actors : Attended(a)
    PROVE  Cardinality(Claimed') <= Parallel
<1> DEFINE R == {j \in Tasks : tasks[j].at \in Reading}
           T == R \cup {i}
<1>0. /\ Types /\ Tasks = 1..Len(tasks) /\ Len(tasks) \in Nat /\ tasks[i].at = "queued"
      /\ UNCHANGED <<actors, recorded>> /\ Tasks' = Tasks /\ worker = "up"
  <2>1. Types /\ Tasks = 1..Len(tasks) /\ Len(tasks) \in Nat
    BY DEF Seen, TypeInv, Types, Tasks
  <2>2. tasks[i].at = "queued" /\ UNCHANGED <<actors, recorded>> /\ Tasks' = Tasks
    BY DEF GetsSlot, OnlyBatch
  <2> QED
    BY <2>1, <2>2, SlotIsFree
<1>1. IsFiniteSet(R) /\ IsFiniteSet(T) /\ Cardinality(T) <= Parallel
  <2>1. IsFiniteSet(Tasks)
    BY <1>0, FS_Interval
  <2>2. IsFiniteSet(R) /\ Cardinality(R) \in Nat
    BY <2>1, FS_Subset, FS_CardinalityType
  <2>3. Cardinality(R) < Parallel
    BY <1>0, SlotIsFree
  <2>4. i \notin R
    BY <1>0 DEF Reading
  <2> HIDE DEF R
  <2>5. IsFiniteSet(T) /\ Cardinality(T) = Cardinality(R) + 1
    BY <2>2, <2>4, FS_AddElement
  <2> QED
    BY <2>2, <2>3, <2>5, ApifyAssumption
<1>2. ASSUME NEW a \in DOMAIN actors, Live(a) PROVE \E j \in R : tasks[j].pages = actors[a].pages
  <2>1. PICK j \in Tasks : tasks[j].pages = actors[a].pages /\ tasks[j].at \in Reading \cup {"queued"}
    BY <1>0, <1>2 DEF Attended, HasBatch
  <2>2. tasks[j].at # "queued"
    <3> SUFFICES ASSUME tasks[j].at = "queued" PROVE FALSE
      OBVIOUS
    <3>1. ~(j < i)
      BY <1>0, SlotIsFree
    <3>2. tasks[j].attached = None
      BY <1>0, <3>1 DEF FollowersFirst
    <3> QED
      BY <2>1, <3>2 DEF Seen, SightOf
  <2> QED
    BY <2>1, <2>2
<1>3. ASSUME NEW P \in Claimed' PROVE \E j \in T : tasks[j].pages = P
  <2>1. CASE \E a \in DOMAIN actors' : Live(a)' /\ actors'[a].pages = P
    <3>1. PICK a \in DOMAIN actors : Live(a)' /\ actors[a].pages = P
      BY <1>0, <2>1
    <3>2. Live(a)
      BY <1>0, <3>1 DEF Live, CanRun, Newest, Rows
    <3> QED
      BY <1>2, <3>1, <3>2
  <2>2. CASE \E j \in Tasks' : New(tasks[j])' /\ tasks'[j].pages = P
    <3>1. PICK j \in Tasks : New(tasks[j])' /\ tasks'[j].pages = P
      BY <1>0, <2>2
    <3>2. CASE j = i
      BY <3>1, <3>2 DEF OnlyBatch
    <3>3. CASE j # i
      BY <3>1, <3>3 DEF OnlyBatch, New, Reading
    <3> QED
      BY <3>2, <3>3
  <2> QED
    BY <2>1, <2>2 DEF Claimed
<1> DEFINE f == [P \in Claimed' |-> CHOOSE j \in T : tasks[j].pages = P]
<1>4. \A P \in Claimed' : f[P] \in T /\ tasks[f[P]].pages = P
  BY <1>3
<1>5. f \in Injection(Claimed', T)
  <2>1. f \in [Claimed' -> T]
    BY <1>4
  <2> HIDE DEF f
  <2> QED
    BY <1>4, <2>1 DEF Injection, IsInjective
<1> HIDE DEF f, T
<1>6. Cardinality(Claimed') <= Cardinality(T)
  BY <1>1, <1>5, FS_Injection
<1>7. Cardinality(Claimed') \in Nat /\ Cardinality(T) \in Nat
  <2>1. IsFiniteSet(Claimed')
    BY <1>1, <1>5, FS_Injection
  <2> QED
    BY <1>1, <2>1, FS_CardinalityType
<1> QED
  BY <1>1, <1>6, <1>7, ApifyAssumption

\* A new Actor run takes over the claim of its Batch.
LEMMA StartClaims ==
    ASSUME Seen, NEW i \in Tasks, OnlyBatch(i), Starts(tasks[i], tasks'[i]), LimitOf(tasks[i])
    PROVE  Claimed' \subseteq Claimed
<1> DEFINE n == Len(actors) + 1
           t == tasks[i]
<1>0. /\ DOMAIN actors = 1..Len(actors) /\ Len(actors) \in Nat /\ Placed(t) /\ TypeInv
      /\ Tasks' = Tasks /\ t.at = "attempting" /\ tasks'[i].at = "starting" /\ ~Follows(t)
      /\ UNCHANGED recorded
  BY DEF Seen, TypeInv, Types, Starts, OnlyBatch
<1>1. DOMAIN actors' = DOMAIN actors \cup {n} /\ actors'[n].pages = t.pages
  BY <1>0 DEF TypeInv, Types, Starts
<1>2. ActorsGrow /\ RowsKeep
  <2>1. Moves(tasks[i], tasks'[i])
    BY DEF Moves
  <2> QED
    BY <1>0, <2>1, MovesGrow, RowsMove
<1>3. t.pages \in Claimed
  <2>0. t.pages \in SUBSET Pages
    <3>1. t \in ATask
      BY <1>0 DEF TypeInv, Types, Tasks
    <3> QED
      BY <3>1 DEF ATask
  <2> DEFINE Of == {a \in DOMAIN actors : actors[a].pages = t.pages}
  <2>1. CASE Of = {}
    <3>1. New(t)
      BY <1>0, <2>1 DEF New
    <3> QED
      BY <2>0, <3>1 DEF Claimed
  <2>2. CASE Of # {}
    <3>1. Of \subseteq Nat /\ \A a \in Of : a <= Len(actors)
      BY <1>0
    <3> HIDE DEF Of
    <3>2. PICK a \in Of : \A b \in Of : b <= a
      BY <1>0, <2>2, <3>1, GreatestNatural
    <3> USE DEF Of
    <3>3. Newest(a, t.pages)
      BY <3>2 DEF Newest
    <3>4. Live(a) /\ actors[a].pages = t.pages
      BY <1>0, <3>3 DEF LimitOf, Live, Newest
    <3> QED
      BY <2>0, <3>2, <3>4 DEF Claimed
  <2> QED
    BY <2>1, <2>2
<1> SUFFICES ASSUME NEW P \in Claimed' PROVE P \in Claimed
  OBVIOUS
<1> HIDE DEF n
<1>4. CASE \E a \in DOMAIN actors' : Live(a)' /\ actors'[a].pages = P
  <2>1. PICK a \in DOMAIN actors' : Live(a)' /\ actors'[a].pages = P
    BY <1>4
  <2>2. CASE a = n
    BY <1>1, <1>3, <2>1, <2>2
  <2>3. CASE a \in DOMAIN actors
    <3>1. Live(a) /\ actors[a].pages = P
      BY <1>2, <2>1, <2>3, CanRunStays
    <3> QED
      BY <2>3, <3>1 DEF Claimed
  <2> QED
    BY <1>1, <2>1, <2>2, <2>3
<1>5. CASE \E j \in Tasks' : New(tasks[j])' /\ tasks'[j].pages = P
  <2>1. PICK j \in Tasks : New(tasks[j])' /\ tasks'[j].pages = P
    BY <1>0, <1>5
  <2>2. j # i
    BY <1>0, <2>1 DEF New
  <2>3. New(tasks[j]) /\ tasks[j].pages = P
    BY <1>1, <1>2, <2>1, <2>2 DEF OnlyBatch, New, ActorsGrow
  <2> QED
    BY <2>3 DEF Claimed
<1> QED
  BY <1>4, <1>5 DEF Claimed

\* No move puts the claims above the limit.
LEMMA ClaimsMove ==
    ASSUME Seen, Works, NEW i \in Tasks, TaskStep(i), OnlyBatch(i), Moves(tasks[i], tasks'[i]),
           LimitOf(tasks[i]), FollowersFirst, \A a \in DOMAIN actors : Attended(a),
           Cardinality(Claimed) <= Parallel
    PROVE  Cardinality(Claimed') <= Parallel
<1> DEFINE t == tasks[i]
           u == tasks'[i]
<1>0. /\ TypeInv /\ LinkOf(t) /\ Placed(t) /\ ActorsGrow /\ RowsKeep /\ Moves(t, u)
      /\ u.pages = t.pages /\ Tasks' = Tasks
  BY MovesGrow, RowsMove DEF Seen, TypeInv, OnlyBatch
<1>1. CASE GetsSlot(t, u) /\ t.attached = None
  BY <1>1, SlotClaims
<1>2. CASE Starts(t, u)
  BY <1>2, StartClaims, FewerClaims
<1>3. CASE ~Starts(t, u) /\ ~(GetsSlot(t, u) /\ t.attached = None)
  <2>1. DOMAIN actors' = DOMAIN actors
    BY <1>0, <1>3, NewActors
  <2> HIDE DEF t, u
  <2>2. u.at = "attempting" => \E a \in DOMAIN actors : actors[a].pages = t.pages
    <3>1. CASE GetsSlot(t, u)
      <4>1. t.attached # None /\ \E k \in Rows : recorded[k].id = t.attached
        BY <1>0, <1>3, <3>1 DEF Placed
      <4>2. t.attached \in DOMAIN actors
        BY <1>0, <4>1 DEF TypeInv, Known
      <4> QED
        BY <1>0, <4>1, <4>2 DEF LinkOf
    <3>2. CASE TriesAgain(t, u)
      <4>1. t.at = "polling"
        BY <3>2 DEF TriesAgain, CallFails, Works
      <4>2. t.cur # None /\ t.cur \in DOMAIN actors
        BY <1>0, <4>1 DEF Placed
      <4> QED
        BY <1>0, <4>2 DEF LinkOf
    <3>3. ASSUME NEW ad \in AllAds, Stores(t, u, ad) \/ Skips(t, u, ad) PROVE u.at # "attempting"
      BY <3>3 DEF Stores, Skips
    <3>4. ASSUME ~GetsSlot(t, u), ~TriesAgain(t, u) PROVE u.at # "attempting"
      BY <1>0, <1>3, <3>3, <3>4 DEF Moves, Records, GoesOn, Waits, Succeeds, Opens, Counts, Breaks, ReadsAll,
         CountsFailed, Finishes, Concludes, IsRaised
    <3> QED
      BY <3>1, <3>2, <3>4
  <2>3. ASSUME NEW j \in Tasks', New(tasks[j])'
        PROVE  \E k \in Tasks : New(tasks[k]) /\ tasks[k].pages = tasks'[j].pages
    <3>1. j # i
      <4> SUFFICES ASSUME j = i PROVE FALSE
        OBVIOUS
      <4>1. u.at = "attempting" /\ \A a \in DOMAIN actors' : actors'[a].pages # u.pages
        BY <2>3 DEF New, u
      <4> QED
        BY <1>0, <2>1, <2>2, <4>1 DEF ActorsGrow
    <3>2. tasks'[j] = tasks[j] /\ j \in Tasks
      BY <1>0, <3>1 DEF OnlyBatch
    <3>3. New(tasks[j])
      BY <1>0, <2>1, <2>3, <3>2 DEF New, ActorsGrow
    <3> QED
      BY <3>2, <3>3
  <2> QED
    BY <1>0, <2>1, <2>3, ClaimsStay, FewerClaims
<1> QED
  BY <1>1, <1>2, <1>3

\* A move keeps the Batch's own retry in sight.
LEMMA LimitMove ==
    ASSUME Seen, Works, RowsInv', NEW i \in Tasks, LimitOf(tasks[i]), OnlyBatch(i), Moves(tasks[i], tasks'[i])
    PROVE  LimitOf(tasks[i])'
<1> DEFINE t == tasks[i]
           u == tasks'[i]
           Fol == u.attached # None /\ AttemptThen(u.attached) = u.attempt + 1
           CanRunThen(a) ==
               \/ actors'[a].status = "RUNNING"
               \/ /\ actors'[a].status = "FAILED"
                  /\ \A k \in Rows' : recorded'[k].id = a => recorded'[k].attempt < APIFY_ATTEMPTS
           NewestThen(a) == /\ a \in DOMAIN actors' /\ actors'[a].pages = u.pages
                            /\ \A b \in DOMAIN actors' : actors'[b].pages = u.pages => b <= a
           Goal ==
               /\ u.at \in {"queued", "attempting", "starting", "polling"} => u.retry
               /\ u.at = "attempting" /\ ~Fol => \A a \in DOMAIN actors' : NewestThen(a) => CanRunThen(a)
               /\ u.at = "polling" => \A k \in Rows' : recorded'[k].id = u.cur => recorded'[k].attempt = u.attempt
<1>0. /\ LinkOf(t) /\ SightOf(t) /\ LimitOf(t) /\ t \in ATask /\ Placed(t) /\ Known /\ RowsKeep /\ ActorsGrow
      /\ APIFY_ATTEMPTS = 2 /\ u.pages = t.pages /\ u.attached = t.attached /\ Moves(t, u) /\ RowsMoved(t, u)
      /\ actors \in Seq(AnActor) /\ RowsInv /\ recorded \in Seq(ARecord)
  BY RowsMove, MovesGrow DEF Seen, TypeInv, Types, OnlyBatch, Tasks, APIFY_ATTEMPTS
<1> SUFFICES Goal
  BY DEF LimitOf, Newest, CanRun, Follows, AttemptOf, AttemptThen
<1>v. t.attempt \in 0..2 /\ DOMAIN actors = 1..Len(actors) /\ Len(actors) \in Nat
  BY <1>0 DEF ATask
<1> HIDE DEF t, u
<1>2. ASSUME NEW k \in Rows, t.attached # None, recorded[k].id = t.attached
      PROVE  /\ AttemptOf(t.attached) = recorded[k].attempt /\ AttemptThen(u.attached) = recorded[k].attempt
             /\ recorded[k].attempt \in 1..2
  <2>1. recorded[k] \in ARecord
    BY <1>0 DEF Rows
  <2> QED
    BY <1>0, <1>2, <2>1, AttemptKept DEF ARecord
<1>2a. t.attached # None => \E k \in Rows : recorded[k].id = t.attached
  BY <1>0 DEF Placed
<1>3. CASE GetsSlot(t, u)
  <2>1. t.at = "queued" /\ u.at = "attempting" /\ u.attempt = AttemptsBefore(t) /\ UNCHANGED actors
        /\ u.retry = t.retry
    BY <1>3 DEF GetsSlot
  <2>2. CASE t.attached = None
    BY <1>0, <2>1, <2>2 DEF SightOf, LimitOf
  <2>3. CASE t.attached # None
    <3>1. PICK k \in Rows : recorded[k].id = t.attached
      BY <1>2a, <2>3
    <3>2. Fol
      BY <1>0, <1>2, <2>1, <2>3, <3>1 DEF AttemptsBefore
    <3> QED
      BY <1>0, <2>1, <3>2 DEF LimitOf
  <2> QED
    BY <2>2, <2>3
<1>4. CASE Starts(t, u)
  BY <1>0, <1>4 DEF Starts, LimitOf
<1>5. CASE TriesAgain(t, u)
  <2>1. /\ t.at = "polling" /\ u.attempt = t.attempt /\ u.cur = t.cur /\ UNCHANGED <<actors, recorded>>
        /\ u.at \in {"attempting", "waiting"} /\ (u.at = "attempting" => u.attempt < 2)
        /\ u.at = "attempting" => actors[t.cur].status = "FAILED" /\ u.retry = t.retry
    BY <1>0, <1>5 DEF TriesAgain, CallFails, Works
  <2>2. ASSUME NEW a \in DOMAIN actors, NewestThen(a), u.at = "attempting" PROVE CanRunThen(a)
    <3>1. Newest(t.cur, t.pages)
      BY <1>0, <2>1 DEF SightOf
    <3>2. a = t.cur
      BY <1>0, <1>v, <2>1, <2>2, <3>1 DEF Newest
    <3> QED
      BY <1>0, <2>1, <2>2, <3>2 DEF LimitOf, Rows
  <2> HIDE DEF NewestThen, CanRunThen
  <2> QED
    BY <1>0, <2>1, <2>2 DEF LimitOf
<1>6. CASE Records(t, u)
  <2>1. t.at = "starting" /\ u.at = "polling" /\ u.cur = t.cur /\ u.attempt = t.attempt /\ u.retry = t.retry
    BY <1>6 DEF Records
  <2>2. ASSUME NEW k \in Rows', recorded'[k].id = u.cur PROVE recorded'[k].attempt = u.attempt
    <3>1. k \notin Rows
      BY <1>0, <2>1, <2>2 DEF LinkOf, RowOf, RowsKeep
    <3>2. recorded'[k] = NewRow(t)
      BY <1>0, <2>1, <3>1 DEF RowsMoved, Rows
    <3> QED
      BY <2>1, <3>2 DEF NewRow
  <2> QED
    BY <1>0, <2>1, <2>2 DEF LimitOf
<1>7. CASE GoesOn(t, u)
  <2>1. /\ t.at = "attempting" /\ Follows(t) /\ u.at = "polling" /\ u.cur = t.attached /\ UNCHANGED recorded
        /\ u.attempt = t.attempt + 1 /\ u.retry = t.retry
    BY <1>7 DEF GoesOn
  <2>2. ASSUME NEW k \in Rows, recorded[k].id = t.attached PROVE recorded[k].attempt = u.attempt
    BY <1>2, <2>1, <2>2 DEF Follows
  <2> QED
    BY <1>0, <2>1, <2>2 DEF LimitOf, Rows
<1>8. CASE Waits(t, u)
  <2>1. t.at = "polling" /\ u = t /\ UNCHANGED recorded
    BY <1>8 DEF Waits
  <2> QED
    BY <1>0, <2>1 DEF LimitOf, Rows
<1>9. CASE u.at \notin {"queued", "attempting", "starting", "polling"}
  BY <1>9
<1>10. ASSUME NEW ad \in AllAds, Stores(t, u, ad) \/ Skips(t, u, ad)
       PROVE  u.at \notin {"queued", "attempting", "starting", "polling"}
  BY <1>10 DEF Stores, Skips
<1> HIDE DEF Goal
<1>11. CASE Succeeds(t, u) \/ Opens(t, u) \/ Counts(t, u) \/ Breaks(t, u) \/ ReadsAll(t, u) \/ CountsFailed(t, u)
            \/ Finishes(t, u) \/ Concludes(t, u) \/ IsRaised(t, u)
  BY <1>9, <1>11 DEF Succeeds, Opens, Counts, Breaks, ReadsAll, CountsFailed, Finishes, Concludes, IsRaised
<1> QED
  BY <1>0, <1>3, <1>4, <1>5, <1>6, <1>7, <1>8, <1>9, <1>10, <1>11 DEF Moves

\* A Batch keeps its retry in sight while nothing is started or recorded for its Pages.
LEMMA LimitStays ==
    ASSUME Types, ActorsGrow, RowsKeep, NEW v, v' = v, Placed(v), LinkOf(v), SightOf(v), LimitOf(v),
           Follows(v)' <=> Follows(v),
           \A a \in DOMAIN actors' \ DOMAIN actors : actors'[a].pages # v.pages,
           \A k \in Rows' \ Rows : recorded'[k].id \in DOMAIN actors
                                   /\ actors[recorded'[k].id].pages # v.pages
    PROVE  LimitOf(v)'
<1>1. ASSUME v.at = "attempting", ~Follows(v), NEW a \in DOMAIN actors', Newest(a, v.pages)' PROVE CanRun(a)'
  <2>1. a \in DOMAIN actors /\ actors[a].pages = v.pages
    BY <1>1 DEF Newest, ActorsGrow
  <2>2. Newest(a, v.pages)
    BY <1>1, <2>1 DEF Newest, ActorsGrow
  <2>3. CanRun(a) /\ Ended(a)
    BY <1>1, <2>1, <2>2 DEF LimitOf, SightOf
  <2>4. actors'[a] = actors[a] /\ actors[a].status = "FAILED"
    BY <2>1, <2>3 DEF CanRun, Ended, ActorsGrow
  <2>5. ASSUME NEW k \in Rows', recorded'[k].id = a PROVE recorded'[k].attempt < APIFY_ATTEMPTS
    <3>1. k \in Rows
      BY <2>1, <2>5
    <3> QED
      BY <2>3, <2>4, <2>5, <3>1 DEF CanRun, RowsKeep
  <2> QED
    BY <2>4, <2>5 DEF CanRun, APIFY_ATTEMPTS
<1>2. ASSUME v.at = "polling", NEW k \in Rows', recorded'[k].id = v.cur PROVE recorded'[k].attempt = v.attempt
  <2>1. v.cur # None
    BY <1>2 DEF Placed
  <2>2. k \in Rows
    BY <1>2, <2>1 DEF LinkOf
  <2> QED
    BY <1>2, <2>2 DEF LimitOf, RowsKeep
<1> QED
  BY <1>1, <1>2 DEF LimitOf

\* A Batch leaves its Actor run when that succeeded, or when its attempts are used up.
LEMMA LeavesReading ==
    ASSUME Seen, Works, NEW i \in Tasks, LimitOf(tasks[i]), Moves(tasks[i], tasks'[i]),
           tasks[i].at \in Reading \cup {"queued"}, tasks'[i].at \notin Reading \cup {"queued"}
    PROVE  /\ tasks[i].at = "polling"
           /\ \/ actors[tasks[i].cur].status \in {"SUCCEEDED", "REFUSED"}
              \/ actors[tasks[i].cur].status = "FAILED" /\ tasks[i].attempt = APIFY_ATTEMPTS
<1> DEFINE t == tasks[i]
           u == tasks'[i]
<1>0. /\ Moves(t, u) /\ LimitOf(t) /\ t.at \in {"attempting", "starting", "polling", "queued"}
      /\ u.at \notin {"attempting", "starting", "polling", "queued"}
  BY DEF Reading
<1> SUFFICES /\ t.at = "polling"
             /\ \/ actors[t.cur].status \in {"SUCCEEDED", "REFUSED"}
                \/ actors[t.cur].status = "FAILED" /\ t.attempt = APIFY_ATTEMPTS
  OBVIOUS
<1> HIDE DEF t, u
<1>1. CASE Succeeds(t, u)
  BY <1>1 DEF Succeeds
<1>2. CASE TriesAgain(t, u)
  <2>1. t.at = "polling" /\ u.at = "waiting"
        /\ actors[t.cur].status \in {"REFUSED", "FAILED"}
        /\ (actors[t.cur].status = "FAILED" => u.retry = t.retry)
        /\ (t.attempt = APIFY_ATTEMPTS \/ ~u.retry)
    BY <1>0, <1>2 DEF TriesAgain, CallFails, Works
  <2>2. t.retry
    BY <1>0, <2>1 DEF LimitOf
  <2> QED
    BY <2>1, <2>2
<1>3. CASE IsRaised(t, u)
  BY <1>3 DEF IsRaised, Works
<1>4. ASSUME NEW ad \in AllAds PROVE ~Stores(t, u, ad) /\ ~Skips(t, u, ad)
  BY <1>0 DEF Stores, Skips
<1>5. ~(GetsSlot(t, u) \/ Starts(t, u) \/ Records(t, u) \/ GoesOn(t, u) \/ Waits(t, u) \/ Opens(t, u) \/ Counts(t, u)
        \/ Breaks(t, u) \/ ReadsAll(t, u) \/ CountsFailed(t, u) \/ Finishes(t, u) \/ Concludes(t, u))
  BY <1>0 DEF GetsSlot, Starts, Records, GoesOn, Waits, Opens, Counts, Breaks, ReadsAll, CountsFailed,
              Finishes, Concludes
<1> QED
  BY <1>0, <1>1, <1>2, <1>3, <1>4, <1>5 DEF Moves

\* An Actor run that can run is not left by its Batch.
LEMMA AttendedMove ==
    ASSUME Seen, Works, NEW i \in Tasks, TaskStep(i), OnlyBatch(i), Moves(tasks[i], tasks'[i]), LimitOf(tasks[i]),
           \A a \in DOMAIN actors : actors[a].pages # {} /\ Attended(a)
    PROVE  \A a \in DOMAIN actors' : actors'[a].pages # {} /\ Attended(a)'
<1> DEFINE t == tasks[i]
           u == tasks'[i]
<1>0. /\ Types /\ Known /\ Placed(t) /\ LinkOf(t) /\ SightOf(t) /\ LimitOf(t) /\ ActorsGrow /\ RowsKeep /\ RowsMoved(t, u)
      /\ u.pages = t.pages /\ Tasks' = Tasks /\ Moves(t, u)
      /\ worker = "up" /\ worker' = "up" /\ DOMAIN actors = 1..Len(actors) /\ Len(actors) \in Nat
      /\ \A j \in Tasks : Placed(tasks[j]) /\ (j # i => tasks[j].pages # t.pages)
  <2>1. \A j \in Tasks : Placed(tasks[j])
    BY DEF Seen, TypeInv
  <2>2. \A j \in Tasks : j # i => tasks[j].pages # t.pages
    BY <2>1 DEF Seen, Placed
  <2>3. TypeInv /\ DOMAIN actors = 1..Len(actors) /\ Len(actors) \in Nat
    BY DEF Seen, TypeInv, Types
  <2>4. ActorsGrow /\ RowsKeep /\ RowsMoved(tasks[i], tasks'[i])
    BY <2>3, MovesGrow, RowsMove
  <2>5. worker = "up" /\ worker' = "up"
    BY SlotIsFree
  <2>6. tasks'[i].pages = tasks[i].pages /\ Tasks' = Tasks
    BY DEF OnlyBatch
  <2>7. LinkOf(tasks[i]) /\ SightOf(tasks[i])
    BY DEF Seen
  <2> QED
    BY <2>1, <2>2, <2>3, <2>4, <2>5, <2>6, <2>7 DEF TypeInv
<1>1. ASSUME NEW a \in DOMAIN actors', a \notin DOMAIN actors PROVE actors'[a].pages # {} /\ Attended(a)'
  <2>1. Starts(t, u) /\ actors'[a].pages = t.pages
    <3>1. TypeInv
      BY DEF Seen
    <3>2. /\ Starts(tasks[i], tasks'[i]) /\ a = Len(actors) + 1
          /\ actors'[Len(actors) + 1] = [pages |-> tasks[i].pages, status |-> "RUNNING", data |-> {}]
      BY <1>0, <1>1, <3>1, NewActors
    <3> QED
      BY <3>2
  <2> HIDE DEF t
  <2>2. u.at = "starting" /\ UNCHANGED recorded
    BY <2>1 DEF Starts
  <2>3. \A k \in Rows : recorded[k].id # a
    BY <1>0, <1>1 DEF Known
  <2>4. tasks'[i].pages = actors'[a].pages /\ tasks'[i].at \in Reading' \cup {"queued"} /\ i \in Tasks'
    BY <1>0, <2>1, <2>2 DEF Reading
  <2> QED
    BY <1>0, <2>1, <2>2, <2>3, <2>4 DEF Attended, HasBatch, Rows, Placed
<1>2. ASSUME NEW a \in DOMAIN actors PROVE actors'[a].pages # {} /\ Attended(a)'
  <2>1. actors'[a].pages = actors[a].pages /\ actors[a].pages # {}
    BY <1>0 DEF ActorsGrow
  <2> SUFFICES ASSUME Live(a)' PROVE Attended(a)'
    BY <2>1 DEF Attended
  <2>2. Live(a)
    BY <1>0, CanRunStays
  <2>3. PICK j \in Tasks : tasks[j].pages = actors[a].pages /\ tasks[j].at \in Reading \cup {"queued"}
    BY <1>0, <2>2 DEF Attended, HasBatch
  <2>4. tasks'[j].at \in Reading \cup {"queued"} /\ tasks'[j].pages = actors[a].pages
    <3>1. CASE j # i
      BY <2>3, <3>1 DEF OnlyBatch
    <3>2. CASE j = i
      <4> SUFFICES ASSUME u.at \notin Reading \cup {"queued"} PROVE FALSE
        BY <1>0, <2>3, <3>2
      <4>1. /\ t.at = "polling"
            /\ \/ actors[t.cur].status \in {"SUCCEEDED", "REFUSED"}
               \/ actors[t.cur].status = "FAILED" /\ t.attempt = APIFY_ATTEMPTS
        BY <2>3, <3>2, LeavesReading
      <4>2. t.pages = actors[a].pages
        BY <2>3, <3>2
      <4> HIDE DEF t, u
      <4>3. t.cur = a
        <5>1. Newest(t.cur, t.pages) /\ Newest(a, t.pages)
          BY <1>0, <2>2, <4>1, <4>2 DEF SightOf, Live
        <5> QED
          BY <1>0, <5>1 DEF Newest
      <4>4. actors[a].status = "FAILED" /\ t.attempt = APIFY_ATTEMPTS
        BY <2>2, <4>1, <4>3 DEF Live, CanRun
      <4>5. \A k \in Rows : recorded[k].id # a
        <5> SUFFICES ASSUME NEW k \in Rows, recorded[k].id = a PROVE FALSE
          OBVIOUS
        <5>1. recorded[k].attempt = APIFY_ATTEMPTS
          BY <1>0, <4>1, <4>3, <4>4 DEF LimitOf
        <5>2. recorded[k].attempt < APIFY_ATTEMPTS
          BY <2>2, <4>4 DEF Live, CanRun
        <5> QED
          BY <5>1, <5>2 DEF APIFY_ATTEMPTS
      <4>6. PICK l \in Tasks : tasks[l].at = "starting" /\ tasks[l].cur = a
        BY <4>5 DEF Seen, Smooth, IsKnown
      <4>7. tasks[l].pages = t.pages
        BY <1>0, <4>2, <4>6 DEF Placed
      <4>8. l = i
        BY <1>0, <4>7
      <4> QED
        BY <4>1, <4>6, <4>8 DEF t
    <3> QED
      BY <3>1, <3>2
  <2>5. ASSUME NEW k \in Rows', recorded'[k].id = a PROVE recorded'[k].outcome = "none"
    <3>0. k \in Rows => recorded[k].id = a /\ recorded[k].outcome = "none"
      BY <1>0, <2>2, <2>5 DEF RowsKeep, Attended
    <3> HIDE DEF t, u
    <3>1. CASE UNCHANGED recorded
      BY <2>5, <3>0, <3>1 DEF Rows
    <3>2. CASE /\ Rows' = Rows \cup {Len(recorded) + 1} /\ recorded'[Len(recorded) + 1] = NewRow(t)
               /\ \A l \in Rows : recorded'[l] = recorded[l]
      BY <2>5, <3>0, <3>2 DEF NewRow
    <3>3. CASE /\ t.at = "concluding" /\ LastOf(t) # None /\ Rows' = Rows
               /\ \A l \in Rows : recorded[l].id # LastOf(t) => recorded'[l].outcome = recorded[l].outcome
      <4>1. LastOf(t) # a
        <5> SUFFICES ASSUME LastOf(t) = a PROVE FALSE
          OBVIOUS
        <5>1. actors[a].pages = t.pages
          BY <1>0, <3>3 DEF LastOf, LinkOf
        <5>2. j = i
          BY <1>0, <2>3, <5>1
        <5> QED
          BY <2>3, <3>3, <5>2 DEF Reading, t
      <4> QED
        BY <2>5, <3>0, <3>3, <4>1
    <3> QED
      BY <1>0, <3>1, <3>2, <3>3 DEF RowsMoved
  <2>6. HasBatch(a)'
    BY <1>0, <2>1, <2>4 DEF HasBatch, Reading
  <2> QED
    BY <2>5, <2>6 DEF Attended
<1> QED
  BY <1>1, <1>2

\* The plan of a resumed run has its followers first, and one for each Actor run that can run.
LEMMA LimitResumed ==
    ASSUME Seen, \A a \in DOMAIN actors : \E k \in Rows : recorded[k].id = a,
           \A a \in DOMAIN actors : actors[a].pages # {} /\ Attended(a)
    PROVE  /\ \A n \in DOMAIN ResumePlan : ResumePlan[n].at = "queued" /\ ResumePlan[n].retry
           /\ \A i, j \in DOMAIN ResumePlan :
                 i < j /\ ResumePlan[i].attached = None => ResumePlan[j].attached = None
           /\ \A a \in DOMAIN actors : Live(a) => \E n \in DOMAIN ResumePlan : ResumePlan[n].pages = actors[a].pages
<1>0. /\ Types /\ Known /\ RowsInOrder /\ tracked = Pages /\ Rows = 1..Len(recorded) /\ Len(recorded) \in Nat
      /\ DOMAIN actors = 1..Len(actors) /\ Len(actors) \in Nat
  BY DEF Seen, TypeInv, Types, Rows
<1>1. ASSUME NEW n \in DOMAIN ResumePlan PROVE ResumePlan[n].at = "queued" /\ ResumePlan[n].retry
  <2> DEFINE t == ResumePlan[n]
  <2>1. Resumed(t)
    BY <1>0, ResumePlanIs
  <2> HIDE DEF t
  <2>2. t.at = "queued" /\ t.retry
    <3>1. CASE t = Task(t.pages, None)
      BY <3>1 DEF Task
    <3>2. CASE \E m \in OpenRows : t = Followed(m)
      BY <3>2 DEF Followed, Task
    <3> QED
      BY <2>1, <3>1, <3>2 DEF Resumed
  <2> QED
    BY <2>2 DEF t
<1>2. ASSUME NEW i \in DOMAIN ResumePlan, NEW j \in DOMAIN ResumePlan, i < j, ResumePlan[i].attached = None
      PROVE  ResumePlan[j].attached = None
  <2> SUFFICES ASSUME ResumePlan[j].attached # None PROVE FALSE
    OBVIOUS
  <2>1. PICK m \in OpenRows : ResumePlan[i] = Followed(m)
    BY <1>0, <1>2, ResumePlanIs
  <2>2. m \in Rows
    BY DEF OpenRows, FirstRows
  <2>3. PICK l \in Rows : Latest(recorded[m].pages) = recorded[l]
    BY <1>0, <2>2, LatestIs
  <2>4. recorded[l].id \in DOMAIN actors
    BY <1>0 DEF Known
  <2>5. recorded[l].id # None
    BY <1>0, <2>4 DEF None
  <2>6. Followed(m).attached = recorded[l].id
    BY <2>3 DEF Followed, Task
  <2> QED
    BY <1>2, <2>1, <2>5, <2>6
<1>3. ASSUME NEW a \in DOMAIN actors, Live(a) PROVE \E n \in DOMAIN ResumePlan : ResumePlan[n].pages = actors[a].pages
  <2>1. PICK k \in Rows : recorded[k].id = a
    OBVIOUS
  <2>2. recorded[k].pages = actors[a].pages /\ actors[a].pages # {}
    BY <1>0, <2>1 DEF Known
  <2>3. PICK l \in Rows : IsLatest(l, recorded[k].pages) /\ Latest(recorded[k].pages) = recorded[l]
    BY <1>0, LatestIs
  <2>4. recorded[l].id = a
    <3> SUFFICES ASSUME l # k PROVE FALSE
      BY <2>1
    <3>1. k < l /\ recorded[l].pages = recorded[k].pages
      BY <1>0, <2>3 DEF IsLatest
    <3>2. a < recorded[l].id
      BY <1>0, <2>1, <3>1 DEF RowsInOrder
    <3>3. recorded[l].id \in DOMAIN actors /\ actors[recorded[l].id].pages = actors[a].pages
      BY <1>0, <2>2, <3>1 DEF Known
    <3>4. recorded[l].id <= a
      BY <1>3, <3>3 DEF Live, Newest
    <3> QED
      BY <1>0, <3>2, <3>3, <3>4
  <2>5. PICK m \in FirstRows : recorded[m].pages = recorded[k].pages
    BY <1>0, FirstIs
  <2>6. recorded[k].pages \cap tracked = recorded[k].pages
    <3>1. recorded[k] \in ARecord
      BY <1>0 DEF Types
    <3> QED
      BY <1>0, <3>1 DEF ARecord
  <2>7. recorded[l].outcome = "none"
    BY <1>3, <2>4 DEF Attended
  <2>8. m \in OpenRows
    BY <2>2, <2>3, <2>5, <2>6, <2>7 DEF OpenRows, DealtWith
  <2>9. PICK n \in DOMAIN ResumePlan : ResumePlan[n] = Followed(m)
    BY <1>0, <2>8, ResumePlanIs
  <2>10. Followed(m).pages = actors[a].pages
    BY <2>2, <2>5, <2>6 DEF Followed, Task
  <2> QED
    BY <2>9, <2>10
<1> QED
  BY <1>1, <1>2, <1>3

\* Nothing runs yet, and no Batch has a slot.
LEMMA LimitInit == Init => LimitInv
<1> SUFFICES ASSUME Init PROVE LimitInv
  OBVIOUS
<1>1. Rows = {} /\ DOMAIN actors = {}
  BY DEF Init, Rows
<1>2. ASSUME NEW k \in Tasks PROVE tasks[k].at = "queued" /\ tasks[k].attached = None /\ tasks[k].retry
  <2> DEFINE t == tasks[k]
  <2>0. Pages \in SUBSET Pages
    OBVIOUS
  <2>1. t = Task(t.pages, None)
    BY <2>0, FreshIs DEF Init, Tasks
  <2> QED
    BY <2>1 DEF Task
<1>3. Claimed = {}
  BY <1>1, <1>2 DEF Claimed, New
<1>4. Cardinality(Claimed) <= Parallel
  BY <1>3, FS_EmptySet, ApifyAssumption
<1> QED
  BY <1>1, <1>2, <1>4 DEF LimitInv, FollowersFirst, LimitOf

\* Every step keeps the claims within the limit.
LEMMA LimitStep ==
    ASSUME TypeInv, ReadInv, LinkInv, RetryInv, SightInv, LimitInv, [Next]_vars
    PROVE  LimitInv'
<1> SUFFICES ASSUME faults'.kinds \subseteq {"crash", "read", "summary"} PROVE LimitInv'
  BY DEF LimitInv, InSight
<1>0. /\ ActorsGrow /\ RowsInv' /\ Seen
      /\ Cardinality(Claimed) <= Parallel /\ FollowersFirst /\ (\A i \in Tasks : LimitOf(tasks[i]))
      /\ \A a \in DOMAIN actors : actors[a].pages # {} /\ Attended(a)
  <2>1. faults.kinds \subseteq {"crash", "read", "summary"}
    BY StepFaults
  <2>2. faults.kinds \subseteq RetryKinds /\ "delete" \notin faults.kinds /\ "delete" \notin faults'.kinds
    BY <2>1 DEF RetryKinds
  <2> QED
    BY <2>1, <2>2, StepGrows, LinkStep DEF LinkInv, ReadInv, RetryInv, SightInv, LimitInv, InSight, Seen
<1>1. Works
  <2>1. \A kind \in {"answer", "record", "db", "call"} : ~Fault(kind)
    BY FaultsAddUp
  <2> QED
    BY <1>0, <2>1 DEF Seen, Smooth, Raised, Fails, Works
<1>2. ASSUME NEW i \in Tasks, TaskStep(i) PROVE LimitInv'
  <2>1. OnlyBatch(i) /\ Moves(tasks[i], tasks'[i]) /\ RowsKeep /\ RowsMoved(tasks[i], tasks'[i])
    BY <1>2, TaskMoves, RowsMove
  <2>2. Cardinality(Claimed)' <= Parallel
    BY <1>0, <1>1, <1>2, <2>1, ClaimsMove
  <2>3. LimitOf(tasks[i])'
    BY <1>0, <1>1, <2>1, LimitMove
  <2>4. \A a \in DOMAIN actors' : actors'[a].pages # {} /\ Attended(a)'
    BY <1>0, <1>1, <1>2, <2>1, AttendedMove
  <2>5. FollowersFirst'
    BY <1>0, <2>1 DEF FollowersFirst, OnlyBatch
  <2>6. ASSUME NEW j \in Tasks, j # i PROVE LimitOf(tasks[j])'
    <3>1. /\ (tasks[j])' = tasks[j] /\ Placed(tasks[j]) /\ Placed(tasks[i]) /\ LinkOf(tasks[j]) /\ SightOf(tasks[j])
          /\ tasks[i].pages # tasks[j].pages /\ RowsInv /\ Types /\ LimitOf(tasks[j])
      BY <1>0, <2>1, <2>6 DEF OnlyBatch, TypeInv, Placed, Seen
    <3>2. Follows(tasks[j])' <=> Follows(tasks[j])
      BY <1>0, <2>1, <3>1, FollowsKept
    <3>3. \A a \in DOMAIN actors' \ DOMAIN actors : actors'[a].pages # tasks[j].pages
      <4> SUFFICES ASSUME NEW a \in DOMAIN actors' \ DOMAIN actors PROVE actors'[a].pages = tasks[i].pages
        BY <3>1
      <4>1. actors'[a] = [pages |-> tasks[i].pages, status |-> "RUNNING", data |-> {}]
        BY <2>1, NewActors
      <4> QED
        BY <4>1
    <3>4. \A k \in Rows' \ Rows : recorded'[k].id \in DOMAIN actors /\ actors[recorded'[k].id].pages # tasks[j].pages
      <4> SUFFICES ASSUME NEW k \in Rows' \ Rows
                   PROVE  recorded'[k].id \in DOMAIN actors /\ actors[recorded'[k].id].pages = tasks[i].pages
        BY <3>1
      <4>1. tasks[i].at = "starting" /\ recorded'[k] = NewRow(tasks[i])
        BY <2>1 DEF RowsMoved, Rows
      <4>2. recorded'[k].id = tasks[i].cur
        BY <4>1 DEF NewRow
      <4> QED
        BY <3>1, <4>1, <4>2 DEF Placed
    <3> QED
      BY <1>0, <2>1, <3>1, <3>2, <3>3, <3>4, LimitStays
  <2> QED
    BY <2>1, <2>2, <2>3, <2>4, <2>5, <2>6 DEF LimitInv, OnlyBatch
<1>3. ASSUME ~\E i \in Tasks : TaskStep(i)
      PROVE  /\ UNCHANGED recorded /\ DOMAIN actors' = DOMAIN actors /\ RowsKeep /\ Rows' = Rows
             /\ \A a \in DOMAIN actors : actors'[a].pages = actors[a].pages /\ (Live(a)' => Live(a))
  <2>1. UNCHANGED recorded /\ DOMAIN actors' = DOMAIN actors
    BY <1>3, StepElse
  <2>2. RowsKeep /\ Rows' = Rows
    BY <2>1 DEF RowsKeep, Rows
  <2> QED
    BY <1>0, <2>1, <2>2, CanRunStays DEF ActorsGrow
<1>4. ASSUME ~\E i \in Tasks : TaskStep(i), UNCHANGED tasks \/ \A i \in Tasks' : tasks'[i].at = "queued"
      PROVE  Cardinality(Claimed)' <= Parallel
  <2>1. ASSUME NEW j \in Tasks', New(tasks[j])'
        PROVE  \E i \in Tasks : New(tasks[i]) /\ tasks[i].pages = tasks'[j].pages
    <3>1. UNCHANGED tasks
      BY <1>4, <2>1 DEF New
    <3> QED
      BY <1>3, <1>4, <2>1, <3>1 DEF New, Tasks
  <2> QED
    BY <1>0, <1>3, <1>4, <2>1, ClaimsStay, FewerClaims
<1>5. CASE UNCHANGED tasks /\ (worker' = "up" => worker = "up") /\ ~\E i \in Tasks : TaskStep(i)
  <2>1. ASSUME NEW j \in Tasks PROVE LimitOf(tasks[j])'
    <3>1. /\ (tasks[j])' = tasks[j] /\ Placed(tasks[j]) /\ LinkOf(tasks[j]) /\ SightOf(tasks[j])
          /\ Types /\ LimitOf(tasks[j])
      BY <1>0, <1>5 DEF TypeInv, Seen
    <3>2. Follows(tasks[j])' <=> Follows(tasks[j])
      BY <1>3, <1>5 DEF Follows, AttemptOf, Rows
    <3> QED
      BY <1>0, <1>3, <1>5, <3>1, <3>2, LimitStays
  <2>2. FollowersFirst'
    BY <1>0, <1>5 DEF FollowersFirst, Tasks
  <2>3. ASSUME NEW a \in DOMAIN actors' PROVE actors'[a].pages # {} /\ Attended(a)'
    BY <1>0, <1>3, <1>5, <2>3 DEF Attended, HasBatch, Tasks, Reading
  <2> QED
    BY <1>4, <1>5, <2>1, <2>2, <2>3 DEF LimitInv, Tasks
<1>6. CASE tasks' = <<>> /\ worker' # "up" /\ ~\E i \in Tasks : TaskStep(i)
  <2>1. Tasks' = {}
    BY <1>6 DEF Tasks
  <2>2. ASSUME NEW a \in DOMAIN actors' PROVE actors'[a].pages # {} /\ Attended(a)'
    BY <1>0, <1>3, <1>6, <2>2 DEF Attended
  <2> QED
    BY <1>4, <1>6, <2>1, <2>2 DEF LimitInv, FollowersFirst
<1>7. CASE Resume /\ ~\E i \in Tasks : TaskStep(i)
  <2>1. tasks' = ResumePlan /\ UNCHANGED <<recorded, actors>> /\ \A i \in Tasks : tasks[i].at # "starting"
    BY <1>0, <1>7 DEF Resume, apify, Smooth, Seen
  <2>2. \A a \in DOMAIN actors : \E k \in Rows : recorded[k].id = a
    BY <1>0, <2>1 DEF Smooth, IsKnown, Seen
  <2>3. /\ \A n \in Tasks' : tasks'[n].at = "queued" /\ tasks'[n].retry
        /\ \A i, j \in Tasks' : i < j /\ tasks'[i].attached = None => tasks'[j].attached = None
        /\ \A a \in DOMAIN actors : Live(a) => \E n \in Tasks' : tasks'[n].pages = actors[a].pages
    BY <1>0, <2>1, <2>2, LimitResumed DEF Tasks
  <2>4. ASSUME NEW a \in DOMAIN actors' PROVE actors'[a].pages # {} /\ Attended(a)'
    BY <1>0, <1>3, <1>7, <2>1, <2>3, <2>4 DEF Attended, HasBatch, Tasks, Reading
  <2>5. FollowersFirst'
    BY <2>3 DEF FollowersFirst
  <2>6. ASSUME NEW n \in Tasks' PROVE LimitOf(tasks[n])'
    BY <2>3 DEF LimitOf
  <2> QED
    BY <1>4, <1>7, <2>3, <2>4, <2>5, <2>6 DEF LimitInv
<1>8. ASSUME ~\E i \in Tasks : TaskStep(i)
      PROVE  \/ UNCHANGED tasks /\ (worker' = "up" => worker = "up")
             \/ tasks' = <<>> /\ worker' # "up"
             \/ Resume
  BY <1>8 DEF Next, Collected, CollectorFails, FinishRun, Crash, Stop, Down, NextWorker, CloseInterrupted,
       DeletePage, EndActorRun, Over, vars, memory
<1> QED
  BY <1>2, <1>5, <1>6, <1>7, <1>8

\* The claims are within the limit in every behaviour.
LEMMA InvLimited == Spec => []LimitInv
BY LimitInit, LimitStep, InvTyped, InvRead, InvLinked, InvRetried, InvInSight, PTL DEF Spec

\* Actor runs that run are of Batches that claim a slot, each its own.
LEMMA RunningAreClaims ==
    ASSUME TypeInv, OneAtATime, \A a \in DOMAIN actors : actors[a].pages # {},
           Cardinality(Claimed) <= Parallel
    PROVE  ParallelAlways
<1> DEFINE R == {a \in DOMAIN actors : actors[a].status = "RUNNING"}
           f == [a \in R |-> actors[a].pages]
<1>0. DOMAIN actors = 1..Len(actors) /\ Len(actors) \in Nat /\ actors \in Seq(AnActor)
  BY DEF TypeInv, Types
<1>1. ASSUME NEW a \in DOMAIN actors, NEW b \in DOMAIN actors, actors[a].status = "RUNNING",
             actors[b].pages = actors[a].pages
      PROVE  b <= a
  <2> SUFFICES ASSUME a < b PROVE FALSE
    BY <1>0
  <2> QED
    BY <1>1 DEF OneAtATime, Ended
<1>2. ASSUME NEW a \in R PROVE actors[a].pages \in Claimed
  <2>1. Live(a)
    BY <1>1 DEF Live, Newest, CanRun
  <2>2. actors[a].pages \in SUBSET Pages
    <3>1. actors[a] \in AnActor
      BY <1>0
    <3> QED
      BY <3>1 DEF AnActor
  <2> QED
    BY <2>1, <2>2 DEF Claimed
<1>3. f \in Injection(R, Claimed)
  <2>1. f \in [R -> Claimed]
    BY <1>2
  <2>2. ASSUME NEW a \in R, NEW b \in R, f[a] = f[b] PROVE a = b
    BY <1>0, <1>1, <2>2
  <2> HIDE DEF f, R
  <2> QED
    BY <2>1, <2>2 DEF Injection, IsInjective
<1> HIDE DEF f
<1>4. IsFiniteSet(R) /\ Cardinality(R) <= Cardinality(Claimed)
  BY <1>3, ClaimsFinite, FS_Injection
<1>5. Cardinality(R) \in Nat /\ Cardinality(Claimed) \in Nat
  BY <1>4, ClaimsFinite, FS_CardinalityType
<1> QED
  BY <1>4, <1>5, ApifyAssumption DEF ParallelAlways

\* Never more Actor runs at a time than the limit, whoever of the workers started them.
THEOREM WithinTheLimit == Spec => []ParallelLimit
<1>1. TypeInv /\ SightInv /\ LimitInv => ParallelLimit
  BY RunningAreClaims DEF SightInv, LimitInv, ParallelLimit
<1> QED
  BY <1>1, InvTyped, InvInSight, InvLimited, PTL

---------------------------------------------------------------------------
(* A run that closes without errors read every Page.                       *)

\* What an Actor run read, and all of it is stored.
ReadWell(a) == actors[a].status = "SUCCEEDED" /\ actors[a].data \subseteq stored

\* Every Page was read well by an Actor run.
Complete == \A p \in Pages : \E a \in DOMAIN actors : p \in actors[a].pages /\ ReadWell(a)

\* The Pages of this Batch are counted as done.
IsCounted(t) == t.at \in {"concluding", "done"}
\* The Pages that are not.
Pending == UNION {tasks[i].pages : i \in {j \in Tasks : ~IsCounted(tasks[j])}}

\* A row that says stored tells the truth, and one that says failed was counted as an error.
OutcomesInv ==
    \A k \in Rows : /\ recorded[k].outcome = "stored" => ReadWell(recorded[k].id)
                    /\ recorded[k].outcome = "failed" => row.errors > 0

\* A Batch that was not stored counts as errors, first in memory, then in the row.
ErrorsOf(t) ==
    ~t.ok => /\ t.at = "closing" => mem.errors > 0
             /\ IsCounted(t) => row.errors > 0

ErrorsInv ==
    /\ row.errors > 0 /\ worker # "down" => mem.errors > 0
    /\ \A i \in Tasks : ErrorsOf(tasks[i])

\* Every Page is in a Batch of the worker or in one that was dealt with, and is counted.
Cared(p) ==
    \/ \E i \in Tasks : p \in tasks[i].pages
    \/ \E k \in Rows : p \in recorded[k].pages /\ recorded[k].outcome # "none"

PagesInv ==
    /\ row.pages = Cardinality(Pages)
    /\ worker = "up" => /\ mem.done = Cardinality(Pages \ Pending)
                        /\ \A p \in Pages : Cared(p)

\* Once all is collected, and once the run is closed: an error, or every Page read and counted.
ClosesWell ==
    /\ worker = "closing" => mem.errors > 0 \/ (Complete /\ mem.done = row.pages)
    /\ ~row.open => /\ worker = "down"
                    /\ row.errors > 0 \/ (Complete /\ row.done = row.pages)

CleanInv == "delete" \notin faults.kinds => OutcomesInv /\ ErrorsInv /\ PagesInv /\ ClosesWell

\* What was read well stays read well.
LEMMA WellStays ==
    ASSUME ActorsGrow, stored \subseteq stored', NEW a \in DOMAIN actors, ReadWell(a)
    PROVE  a \in DOMAIN actors' /\ actors'[a] = actors[a] /\ ReadWell(a)'
<1>1. actors'[a] = actors[a] /\ a \in DOMAIN actors'
  BY DEF ActorsGrow, ReadWell
<1> QED
  BY <1>1 DEF ReadWell

\* ... and Pages that were read stay so.
LEMMA CompleteStays ==
    ASSUME ActorsGrow, stored \subseteq stored', Complete
    PROVE  Complete'
<1> SUFFICES ASSUME NEW p \in Pages
             PROVE  \E a \in DOMAIN actors' : p \in actors'[a].pages /\ ReadWell(a)'
  BY DEF Complete
<1>1. PICK a \in DOMAIN actors : p \in actors[a].pages /\ ReadWell(a)
  BY DEF Complete
<1> QED
  BY <1>1, WellStays

\* What a move does to the progress, in memory and in the row.
LEMMA ProgressMoves ==
    ASSUME TypeInv, TypeInv', ReadInv, NEW i \in Tasks, OnlyBatch(i), Moves(tasks[i], tasks'[i])
    PROVE  LET t == tasks[i]
               u == tasks'[i]
           IN  /\ mem.errors > 0 => mem'.errors > 0
               /\ row'.errors \in {row.errors, mem'.errors} /\ row'.pages = row.pages
               /\ u.at = "closing" => u.ok \/ mem'.errors > 0
               /\ u.at = "concluding" => t.at = "closing" /\ u.ok = t.ok /\ row'.errors = mem.errors
               /\ u.at = "done" => t.at = "concluding" /\ u.ok = t.ok /\ UNCHANGED row
               /\ IsCounted(t) => u.at = "done"
               /\ mem'.done = IF u.at = "concluding" THEN mem.done + Cardinality(t.pages) ELSE mem.done
<1> DEFINE t == tasks[i]
           u == tasks'[i]
           c == Cardinality(t.pages)
<1>0. /\ row \in Row /\ mem \in Progress /\ t \in ATask /\ Placed(t) /\ ReadOf(t)
      /\ row' \in Row /\ mem' \in Progress
  BY DEF TypeInv, Types, Row, Tasks, ReadInv
<1>1. c \in Nat /\ c > 0
  <2>1. t.pages \in SUBSET Pages /\ t.pages # {}
    BY <1>0 DEF ATask, Placed
  <2> HIDE DEF t
  <2>2. IsFiniteSet(t.pages) /\ Cardinality(t.pages) \in Nat
    BY <2>1, FinitePages
  <2>3. Cardinality(t.pages) # 0
    BY <2>1, <2>2, FS_EmptySet
  <2> QED
    BY <2>2, <2>3
<1>2. \A m \in Progress : /\ Beaten(m).errors = m.errors /\ Beaten(m).pages = row.pages
                          /\ Beaten(m).done = m.done
  BY <1>0 DEF Beaten, Row
<1> DEFINE Goal ==
               /\ mem.errors > 0 => mem'.errors > 0
               /\ row'.errors \in {row.errors, mem'.errors} /\ row'.pages = row.pages
               /\ u.at = "closing" => u.ok \/ mem'.errors > 0
               /\ u.at = "concluding" => t.at = "closing" /\ u.ok = t.ok /\ row'.errors = mem.errors
               /\ u.at = "done" => t.at = "concluding" /\ u.ok = t.ok /\ UNCHANGED row
               /\ IsCounted(t) => u.at = "done"
               /\ mem'.done = IF u.at = "concluding" THEN mem.done + c ELSE mem.done
<1> SUFFICES Goal
  OBVIOUS
<1>m. Moves(t, u)
  OBVIOUS
<1> HIDE DEF t, u, c
<1>3. CASE GetsSlot(t, u) \/ Starts(t, u) \/ GoesOn(t, u) \/ Records(t, u)
  BY <1>3 DEF GetsSlot, Starts, GoesOn, Records, IsCounted
<1>4. CASE TriesAgain(t, u)
  <2>1. UNCHANGED mem /\ row' \in {row, Beaten(mem)}
    BY <1>4 DEF TriesAgain
  <2>2. t.at \in {"attempting", "starting", "polling"} /\ u.at \in {"attempting", "waiting"}
    BY <1>4 DEF TriesAgain
  <2> QED
    BY <1>0, <1>2, <2>1, <2>2 DEF IsCounted
<1>5. CASE Waits(t, u) \/ Succeeds(t, u) \/ Opens(t, u) \/ Counts(t, u)
  <2>1. UNCHANGED mem /\ row' \in {row, Beaten(mem)}
    BY <1>5 DEF Waits, Succeeds, Opens, Counts
  <2>2. t.at \in {"polling", "waiting", "counting"} /\ u.at \in {"polling", "waiting", "saving"}
    BY <1>5 DEF Waits, Succeeds, Opens, Counts
  <2> QED
    BY <1>0, <1>2, <2>1, <2>2 DEF IsCounted
<1>6. ASSUME NEW ad \in AllAds, Stores(t, u, ad) \/ Skips(t, u, ad) PROVE Goal
  <2>1. UNCHANGED row /\ mem'.errors = mem.errors /\ mem'.done = mem.done
    BY <1>0, <1>6 DEF Stores, Skips, Progress
  <2>2. t.at = "saving" /\ u.at \in {"saving", "counting"}
    BY <1>6 DEF Stores, Skips
  <2> QED
    BY <2>1, <2>2 DEF IsCounted
<1>7. CASE Breaks(t, u) \/ IsRaised(t, u)
  BY <1>7 DEF Breaks, IsRaised, IsCounted
<1>8. CASE ReadsAll(t, u)
  <2>1. t.at = "saving" /\ u.at = "closing" /\ u.ok = t.ok /\ UNCHANGED <<row, mem>>
    BY <1>8 DEF ReadsAll
  <2> QED
    BY <1>0, <2>1 DEF IsCounted, ReadOf
<1>9. CASE CountsFailed(t, u)
  <2>1. t.at = "failing" /\ u.at = "closing" /\ UNCHANGED row /\ mem' = [mem EXCEPT !.errors = @ + c]
    BY <1>9 DEF CountsFailed, c
  <2>2. mem'.errors = mem.errors + c /\ mem'.done = mem.done /\ mem.errors \in Nat
    BY <1>0, <2>1 DEF Progress
  <2> QED
    BY <1>1, <2>1, <2>2 DEF IsCounted
<1>10. CASE Finishes(t, u)
  <2>1. t.at = "closing" /\ u.at = "concluding" /\ u.ok = t.ok /\ row' = Beaten(mem')
        /\ mem' = [mem EXCEPT !.done = @ + c]
    BY <1>10 DEF Finishes, c
  <2>2. mem'.errors = mem.errors /\ mem'.done = mem.done + c
    BY <1>0, <2>1 DEF Progress
  <2>3. row'.errors = mem'.errors /\ row'.pages = row.pages
    BY <1>0, <1>2, <2>1
  <2> QED
    BY <2>1, <2>2, <2>3 DEF IsCounted
<1>11. CASE Concludes(t, u)
  BY <1>11 DEF Concludes, IsCounted
<1> QED
  BY <1>m, <1>3, <1>4, <1>5, <1>6, <1>7, <1>8, <1>9, <1>10, <1>11 DEF Moves

\* What a move does to the outcomes: that of its own rows is told, all others are as they were.
LEMMA OutcomesMove ==
    ASSUME TypeInv, NEW i \in Tasks, Moves(tasks[i], tasks'[i]), NEW k \in Rows'
    PROVE  \/ k \in Rows /\ recorded'[k] = recorded[k]
           \/ recorded'[k].outcome = "none" /\ k \notin Rows
           \/ /\ k \in Rows /\ tasks[i].at = "concluding" /\ recorded[k].id = LastOf(tasks[i])
              /\ recorded'[k].id = recorded[k].id
              /\ recorded'[k].outcome = OutcomeOf(tasks[i])
<1> DEFINE t == tasks[i]
           u == tasks'[i]
<1>0. Types /\ RowsKeep /\ Rows = 1..Len(recorded) /\ Len(recorded) \in Nat
  BY RowsMove DEF TypeInv, Types, Rows
<1>m. RowsMoved(t, u)
  BY RowsMove
<1>n. Moves(t, u)
  OBVIOUS
<1> HIDE DEF t, u
<1>1. CASE UNCHANGED recorded
  BY <1>1 DEF Rows
<1>2. CASE /\ Rows' = Rows \cup {Len(recorded) + 1} /\ recorded'[Len(recorded) + 1] = NewRow(t)
           /\ \A l \in Rows : recorded'[l] = recorded[l]
  <2>1. CASE k \in Rows
    BY <1>2, <2>1
  <2>2. CASE k = Len(recorded) + 1
    <3>1. k \notin Rows /\ recorded'[k].outcome = "none"
      BY <1>0, <1>2, <2>2 DEF NewRow
    <3> QED
      BY <3>1
  <2> QED
    BY <1>2, <2>1, <2>2
<1>3. CASE t.at = "concluding" /\ Rows' = Rows
  <2>1. Concludes(t, u)
    BY <1>n, <1>3 DEF Moves, GetsSlot, Starts, TriesAgain, Records, GoesOn, Waits, Succeeds, Opens, Stores, Skips,
       Counts, Breaks, ReadsAll, CountsFailed, Finishes, IsRaised
  <2>2. CASE recorded' = Concluded(LastOf(t), OutcomeOf(t))
    <3>1. k \in Rows /\ recorded[k] \in ARecord
      BY <1>0, <1>3 DEF Types
    <3>2. recorded'[k] = IF recorded[k].id = LastOf(t)
                         THEN [recorded[k] EXCEPT !.outcome = OutcomeOf(t)] ELSE recorded[k]
      BY <2>2, <3>1 DEF Concluded
    <3>3. CASE recorded[k].id = LastOf(t)
      <4>1. recorded'[k].id = recorded[k].id /\ recorded'[k].outcome = OutcomeOf(t)
        BY <3>1, <3>2, <3>3 DEF ARecord
      <4> QED
        BY <1>3, <3>1, <3>3, <4>1 DEF t
    <3> QED
      BY <3>1, <3>2, <3>3
  <2> QED
    BY <1>1, <2>1, <2>2 DEF Concludes
<1> QED
  BY <1>m, <1>1, <1>2, <1>3 DEF RowsMoved

\* A Batch that is stored was read well.
LEMMA StoredIsWell ==
    ASSUME TypeInv, ReadInv, "delete" \notin faults.kinds, NEW i \in Tasks,
           IsCounted(tasks[i]), tasks[i].ok, LinkOf(tasks[i])
    PROVE  /\ tasks[i].cur \in DOMAIN actors /\ actors[tasks[i].cur].pages = tasks[i].pages
           /\ ReadWell(tasks[i].cur)
<1> DEFINE t == tasks[i]
<1>1. Known /\ ReadOf(t) /\ StoredOf(t) /\ Placed(t)
  BY DEF TypeInv, ReadInv
<1> HIDE DEF t
<1>2. t.cur \in DOMAIN actors /\ actors[t.cur].pages = t.pages /\ actors[t.cur].status = "SUCCEEDED"
  BY <1>1 DEF ReadOf, Placed, LinkOf, t
<1>3. actors[t.cur].data \subseteq AdsOfBatch(t.pages)
  BY <1>1, <1>2 DEF Known
<1>4. \A ad \in AdsOfBatch(t.pages) : ad \in actors[t.cur].data => ad \in stored
  BY <1>1 DEF StoredOf, IsCounted, t
<1> QED
  BY <1>2, <1>3, <1>4 DEF ReadWell, t

\* The outcomes stay true.
LEMMA OutcomesStep ==
    ASSUME TypeInv, TypeInv', ReadInv, "delete" \notin faults.kinds, OutcomesInv, ErrorsInv,
           NEW i \in Tasks, LinkOf(tasks[i]), worker = "up", OnlyBatch(i), Moves(tasks[i], tasks'[i])
    PROVE  /\ row.errors > 0 => row'.errors > 0
           /\ OutcomesInv'
           /\ \A k \in Rows : recorded[k].outcome # "none" => recorded'[k].outcome # "none"
<1> DEFINE t == tasks[i]
           u == tasks'[i]
<1>0. Known /\ ActorsGrow /\ stored \subseteq stored' /\ RowsKeep
  BY MovesGrow, RowsMove DEF TypeInv
<1>1. row.errors > 0 => row'.errors > 0
  BY ProgressMoves DEF ErrorsInv
<1>2. ASSUME NEW k \in Rows'
      PROVE  /\ recorded'[k].outcome = "stored" => ReadWell(recorded[k].id)'
             /\ recorded'[k].outcome = "failed" => row'.errors > 0
             /\ k \in Rows /\ recorded[k].outcome # "none" => recorded'[k].outcome # "none"
  <2>1. CASE k \in Rows /\ recorded'[k] = recorded[k]
    <3>1. recorded[k].id \in DOMAIN actors
      BY <1>0, <2>1 DEF Known
    <3>2. ReadWell(recorded[k].id) => ReadWell(recorded[k].id)'
      <4> DEFINE a == recorded[k].id
      <4>1. a' = a /\ a \in DOMAIN actors
        BY <2>1, <3>1
      <4>2. ASSUME ReadWell(a) PROVE actors'[a] = actors[a]
        BY <1>0, <3>1, <4>2, WellStays
      <4> QED
        BY <1>0, <4>1, <4>2 DEF ReadWell
    <3> QED
      BY <1>1, <2>1, <3>2 DEF OutcomesInv
  <2>2. CASE recorded'[k].outcome = "none" /\ k \notin Rows
    BY <2>2
  <2>3. CASE /\ k \in Rows /\ t.at = "concluding" /\ recorded[k].id = LastOf(t)
             /\ recorded'[k].id = recorded[k].id
             /\ recorded'[k].outcome = OutcomeOf(t)
    <3>1. ASSUME t.ok PROVE ReadWell(recorded[k].id)'
      <4>1. t.cur \in DOMAIN actors /\ ReadWell(t.cur)
        BY <2>3, <3>1, StoredIsWell DEF IsCounted
      <4>2. recorded[k].id = t.cur
        BY <2>3, <3>1 DEF LastOf, ReadInv, ReadOf
      <4>3. actors'[t.cur] = actors[t.cur]
        BY <1>0, <4>1, WellStays
      <4> QED
        BY <1>0, <2>3, <4>1, <4>2, <4>3 DEF ReadWell
    <3>2. ASSUME ~t.ok PROVE row.errors > 0
      BY <2>3, <3>2 DEF ErrorsInv, ErrorsOf, IsCounted
    <3> QED
      BY <1>1, <2>3, <3>1, <3>2 DEF OutcomeOf
  <2> QED
    BY <2>1, <2>2, <2>3, OutcomesMove
<1> QED
  BY <1>0, <1>1, <1>2 DEF OutcomesInv, RowsKeep

\* ... and so do the errors.
LEMMA ErrorsStep ==
    ASSUME TypeInv, TypeInv', ReadInv, ErrorsInv, NEW i \in Tasks,
           worker = "up", worker' = "up", OnlyBatch(i), Moves(tasks[i], tasks'[i])
    PROVE  ErrorsInv'
<1> DEFINE t == tasks[i]
           u == tasks'[i]
<1>1. /\ mem.errors > 0 => mem'.errors > 0
      /\ row'.errors \in {row.errors, mem'.errors}
      /\ u.at = "closing" => u.ok \/ mem'.errors > 0
      /\ u.at = "concluding" => t.at = "closing" /\ u.ok = t.ok /\ row'.errors = mem.errors
      /\ u.at = "done" => t.at = "concluding" /\ u.ok = t.ok /\ UNCHANGED row
  BY ProgressMoves
<1>2. row'.errors > 0 => mem'.errors > 0
  BY <1>1 DEF ErrorsInv
<1>3. row.errors > 0 => row'.errors > 0
  BY <1>1 DEF ErrorsInv
<1>4. ErrorsOf(t) /\ \A j \in Tasks : ErrorsOf(tasks[j])
  BY DEF ErrorsInv
<1>5. ErrorsOf(tasks[i])'
  BY <1>1, <1>4 DEF ErrorsOf, IsCounted
<1>6. ASSUME NEW j \in Tasks, j # i PROVE ErrorsOf(tasks[j])'
  <2>1. tasks'[j] = tasks[j]
    BY <1>6 DEF OnlyBatch
  <2> QED
    BY <1>1, <1>3, <1>4, <2>1 DEF ErrorsOf, IsCounted
<1> QED
  BY <1>2, <1>5, <1>6 DEF ErrorsInv, OnlyBatch

\* The Pages of the others are counted when the Batch they are in is.
LEMMA PagesStep ==
    ASSUME TypeInv, TypeInv', ReadInv, PagesInv, NEW i \in Tasks,
           \A j, l \in Tasks : j # l => tasks[j].pages \cap tasks[l].pages = {},
           \A k \in Rows : recorded[k].outcome # "none" => recorded'[k].outcome # "none",
           worker = "up", OnlyBatch(i), Moves(tasks[i], tasks'[i])
    PROVE  PagesInv'
<1> DEFINE t == tasks[i]
           u == tasks'[i]
<1>0. t \in ATask /\ u \in ATask /\ RowsKeep /\ u.pages = t.pages /\ Tasks' = Tasks
      /\ \A j \in Tasks : j # i => tasks'[j] = tasks[j]
  BY RowsMove DEF TypeInv, Types, Tasks, OnlyBatch
<1>1. /\ u.at = "concluding" => t.at = "closing"
      /\ u.at = "done" => t.at = "concluding"
      /\ IsCounted(t) => u.at = "done"
      /\ mem'.done = IF u.at = "concluding" THEN mem.done + Cardinality(t.pages) ELSE mem.done
      /\ row'.pages = row.pages
  BY ProgressMoves
<1>2. t.pages \in SUBSET Pages /\ IsFiniteSet(t.pages) /\ IsFiniteSet(Pages)
  <2>1. t.pages \in SUBSET Pages
    BY <1>0 DEF ATask
  <2> QED
    BY <2>1, FinitePages
<1>3. ASSUME NEW p \in Pages PROVE Cared(p)'
  <2>1. Cared(p)
    BY DEF PagesInv
  <2>2. \A j \in Tasks : tasks'[j].pages = tasks[j].pages
    BY <1>0
  <2> QED
    BY <1>0, <2>1, <2>2 DEF Cared, RowsKeep
<1>4. CASE u.at # "concluding"
  <2>1. IsCounted(u) <=> IsCounted(t)
    BY <1>1, <1>4 DEF IsCounted
  <2>2. \A j \in Tasks : tasks'[j].pages = tasks[j].pages /\ (IsCounted(tasks'[j]) <=> IsCounted(tasks[j]))
    BY <1>0, <2>1
  <2>3. Pending' = Pending
    BY <1>0, <2>2 DEF Pending, IsCounted
  <2> QED
    BY <1>1, <1>3, <1>4, <2>3 DEF PagesInv
<1>5. CASE u.at = "concluding"
  <2>1. ~IsCounted(t) /\ IsCounted(u)
    BY <1>1, <1>5 DEF IsCounted
  <2>2. t.pages \subseteq Pending
    BY <2>1 DEF Pending
  <2>3. Pending' = Pending \ t.pages
    <3>1. \A p : p \in Pending <=> \E j \in Tasks : ~IsCounted(tasks[j]) /\ p \in tasks[j].pages
      BY DEF Pending
    <3>2. \A p : p \in Pending' <=> \E j \in Tasks : ~IsCounted(tasks'[j]) /\ p \in tasks'[j].pages
      BY <1>0 DEF Pending, IsCounted
    <3>3. \A j \in Tasks : j # i => (IsCounted(tasks'[j]) <=> IsCounted(tasks[j])) /\ tasks'[j].pages = tasks[j].pages
      BY <1>0
    <3>4. ASSUME NEW p, p \in Pending' PROVE p \in Pending \ t.pages
      <4>1. PICK j \in Tasks : ~IsCounted(tasks'[j]) /\ p \in tasks'[j].pages
        BY <3>2, <3>4
      <4>2. j # i
        BY <2>1, <4>1
      <4> QED
        BY <3>1, <3>3, <4>1, <4>2
    <3>5. ASSUME NEW p, p \in Pending \ t.pages PROVE p \in Pending'
      <4>1. PICK j \in Tasks : ~IsCounted(tasks[j]) /\ p \in tasks[j].pages
        BY <3>1, <3>5
      <4>2. j # i
        BY <3>5, <4>1
      <4> QED
        BY <3>2, <3>3, <4>1, <4>2
    <3> QED
      BY <3>4, <3>5
  <2> DEFINE A == Pages \ Pending
  <2>4. Pages \ Pending' = A \cup t.pages /\ A \cap t.pages = {}
    BY <1>2, <2>2, <2>3
  <2>5. IsFiniteSet(A)
    BY <1>2, FS_Difference
  <2>6. Cardinality(A \cup t.pages) = Cardinality(A) + Cardinality(t.pages)
    <3> HIDE DEF A, t
    <3>1. Cardinality(A \cup t.pages) = Cardinality(A) + Cardinality(t.pages) - Cardinality(A \cap t.pages)
      BY <1>2, <2>5, FS_Union
    <3>2. Cardinality(A \cap t.pages) = 0 /\ Cardinality(A) \in Nat /\ Cardinality(t.pages) \in Nat
      BY <1>2, <2>4, <2>5, FS_EmptySet, FS_CardinalityType
    <3> QED
      BY <3>1, <3>2
  <2>7. mem'.done = Cardinality(Pages \ Pending')
    BY <1>1, <1>5, <2>4, <2>6 DEF PagesInv
  <2> QED
    BY <1>1, <1>3, <2>7 DEF PagesInv
<1> QED
  BY <1>4, <1>5

\* The run is closed well once all its Batches are done.
LEMMA AllDone ==
    ASSUME TypeInv, ReadInv, "delete" \notin faults.kinds, OutcomesInv, ErrorsInv, PagesInv, worker = "up",
           \A i \in Tasks : LinkOf(tasks[i]) /\ tasks[i].at = "done"
    PROVE  mem.errors > 0 \/ (Complete /\ mem.done = row.pages)
<1> SUFFICES ASSUME ~(mem.errors > 0) PROVE Complete /\ mem.done = row.pages
  OBVIOUS
<1>1. ~(row.errors > 0)
  BY DEF ErrorsInv
<1>2. Pending = {}
  BY DEF Pending, IsCounted
<1>3. mem.done = row.pages
  <2>1. Pages \ {} = Pages
    OBVIOUS
  <2> QED
    BY <1>2, <2>1 DEF PagesInv
<1>4. ASSUME NEW p \in Pages PROVE \E a \in DOMAIN actors : p \in actors[a].pages /\ ReadWell(a)
  <2>1. ASSUME NEW i \in Tasks, p \in tasks[i].pages
        PROVE  \E a \in DOMAIN actors : p \in actors[a].pages /\ ReadWell(a)
    <3>1. IsCounted(tasks[i]) /\ tasks[i].ok
      BY <1>1 DEF ErrorsInv, ErrorsOf, IsCounted
    <3> QED
      BY <2>1, <3>1, StoredIsWell
  <2>2. ASSUME NEW k \in Rows, p \in recorded[k].pages, recorded[k].outcome # "none"
        PROVE  \E a \in DOMAIN actors : p \in actors[a].pages /\ ReadWell(a)
    <3>1. Known /\ recorded[k] \in ARecord
      BY DEF TypeInv, Types, Rows
    <3>2. recorded[k].outcome = "stored"
      BY <1>1, <2>2, <3>1 DEF ARecord, OutcomesInv
    <3> QED
      BY <2>2, <3>1, <3>2 DEF OutcomesInv, Known
  <2> QED
    BY <2>1, <2>2 DEF PagesInv, Cared
<1> QED
  BY <1>3, <1>4 DEF Complete

\* A worker that resumes the run finds every Page in its plan or dealt with, and counts those.
LEMMA ResumedPages ==
    ASSUME TypeInv, RowsInv, tracked = Pages, Resume
    PROVE  PagesInv'
<1> DEFINE Of(m) == recorded[m].pages
           Done == {p \in Pages : \E m \in FirstRows : DealtWith(Of(m)) /\ p \in Of(m)}
           Pairs == {counted \in FirstRows \X Pages : DealtWith(Of(counted[1])) /\ counted[2] \in Of(counted[1])}
<1>0. /\ Types /\ FirstRows \subseteq Rows /\ IsFiniteSet(Pages) /\ row \in Row
      /\ Rows = 1..Len(recorded) /\ Len(recorded) \in Nat
      /\ \A k \in Rows : Of(k) \in SUBSET Pages
  <2>1. Types /\ row \in Row /\ \A k \in Rows : recorded[k] \in ARecord
    BY DEF TypeInv, Types, Rows, Row
  <2> QED
    BY <2>1, ApifyAssumption DEF ARecord, FirstRows, Types, Rows
<1>1. /\ tasks' = ResumePlan /\ worker' = "up" /\ mem'.done = PagesDealtWith
      /\ row'.pages = Cardinality(Started) + Cardinality(Pages \ Started)
      /\ UNCHANGED recorded
  BY <1>0 DEF Resume, Row
<1>2. PagesDealtWith = Cardinality(Pairs)
  BY DEF PagesDealtWith
<1>3. row'.pages = Cardinality(Pages)
  <2>1. Started \in SUBSET Pages
    BY <1>0 DEF Started
  <2>2. Cardinality(Pages \ Started) = Cardinality(Pages) - Cardinality(Pages \cap Started)
    BY <1>0, FS_Difference
  <2>3. Pages \cap Started = Started
    BY <2>1
  <2>4. Cardinality(Pages) \in Nat /\ Cardinality(Started) \in Nat
    BY <1>0, <2>1, FinitePages
  <2> QED
    BY <1>1, <2>2, <2>3, <2>4
<1>4. /\ \A k \in DOMAIN ResumePlan : Resumed(ResumePlan[k]) /\ ResumePlan[k].at = "queued"
      /\ \A m \in OpenRows : \E k \in DOMAIN ResumePlan : ResumePlan[k] = Followed(m)
      /\ \A p \in Pages \ Started : \E k \in DOMAIN ResumePlan : p \in ResumePlan[k].pages
  BY <1>0, ResumePlanIs, ResumedIs
<1>5. \A p : p \in Pending' <=> \E k \in DOMAIN ResumePlan : p \in ResumePlan[k].pages
  <2>1. \A k \in Tasks' : ~IsCounted(tasks'[k])
    BY <1>1, <1>4 DEF IsCounted, Tasks
  <2>2. \A p : p \in Pending' <=> \E k \in Tasks' : ~IsCounted(tasks'[k]) /\ p \in tasks'[k].pages
    BY DEF Pending, IsCounted
  <2> QED
    BY <1>1, <2>1, <2>2 DEF Tasks
<1>6. ASSUME NEW p \in Done PROVE p \notin Pending'
  <2>1. PICK m \in FirstRows : DealtWith(Of(m)) /\ p \in Of(m)
    OBVIOUS
  <2>2. ASSUME NEW k \in DOMAIN ResumePlan, p \in ResumePlan[k].pages PROVE FALSE
    <3>1. CASE \E n \in OpenRows : ResumePlan[k] = Followed(n)
      <4>1. PICK n \in OpenRows : ResumePlan[k] = Followed(n)
        BY <3>1
      <4>2. n \in Rows /\ ~DealtWith(Of(n)) /\ p \in Of(n)
        BY <2>2, <4>1 DEF OpenRows, FirstRows, Followed, Task
      <4>3. EqualOrApart(Of(m), Of(n))
        BY <1>0, <4>2 DEF RowsInv
      <4> QED
        BY <2>1, <4>2, <4>3 DEF EqualOrApart
    <3>2. CASE ResumePlan[k].pages \subseteq tracked \ Started
      BY <1>0, <2>1, <2>2, <3>2 DEF Started
    <3> QED
      BY <1>4, <3>1, <3>2 DEF Resumed
  <2> QED
    BY <1>5, <2>2
<1>7. ASSUME NEW p \in Pages, p \notin Done PROVE p \in Pending'
  <2>1. CASE p \in Started
    <3>1. PICK k \in Rows : p \in Of(k)
      BY <2>1 DEF Started
    <3>2. PICK m \in FirstRows : Of(m) = Of(k)
      BY <1>0, FirstIs
    <3>3. m \in OpenRows
      BY <1>7, <3>1, <3>2 DEF OpenRows
    <3>4. PICK l \in DOMAIN ResumePlan : ResumePlan[l] = Followed(m)
      BY <1>4, <3>3
    <3>5. p \in Followed(m).pages
      BY <3>1, <3>2 DEF Followed, Task
    <3> QED
      BY <1>5, <3>4, <3>5
  <2> QED
    BY <1>4, <1>5, <2>1
<1>8. Pages \ Pending' = Done
  BY <1>6, <1>7
<1>9. Cardinality(Done) = Cardinality(Pairs)
  <2> DEFINE f == [c \in Pairs |-> c[2]]
  <2>1. \A c \in Pairs : /\ c[1] \in FirstRows /\ c[2] \in Pages /\ c = <<c[1], c[2]>>
                         /\ DealtWith(Of(c[1])) /\ c[2] \in Of(c[1])
    OBVIOUS
  <2>2. f \in [Pairs -> Done]
    BY <2>1
  <2>3. \A p \in Done : \E c \in Pairs : f[c] = p
    <3> SUFFICES ASSUME NEW p \in Done PROVE \E c \in Pairs : f[c] = p
      OBVIOUS
    <3>1. PICK m \in FirstRows : DealtWith(Of(m)) /\ p \in Of(m)
      OBVIOUS
    <3>2. <<m, p>> \in Pairs /\ f[<<m, p>>] = p
      BY <3>1
    <3> QED
      BY <3>2
  <2>4. ASSUME NEW c \in Pairs, NEW d \in Pairs, f[c] = f[d] PROVE c = d
    <3>1. c[2] = d[2]
      BY <2>4
    <3>2. EqualOrApart(Of(c[1]), Of(d[1]))
      BY <1>0, <2>1 DEF RowsInv
    <3>3. Of(c[1]) = Of(d[1])
      BY <2>1, <3>1, <3>2 DEF EqualOrApart
    <3>4. c[1] \in Nat /\ d[1] \in Nat /\ c[1] <= d[1] /\ d[1] <= c[1]
      BY <1>0, <2>1, <3>3 DEF FirstRows
    <3> QED
      BY <2>1, <3>1, <3>4
  <2>5. IsFiniteSet(Done)
    <3>1. Done \in SUBSET Pages
      OBVIOUS
    <3> HIDE DEF Done
    <3> QED
      BY <1>0, <3>1, FS_Subset
  <2> HIDE DEF f, Done, Pairs, Of
  <2>6. f \in Injection(Pairs, Done) /\ f \in Surjection(Pairs, Done)
    BY <2>2, <2>3, <2>4 DEF Injection, Surjection, IsInjective
  <2> QED
    BY <2>5, <2>6, FS_Injection
<1>10. ASSUME NEW p \in Pages PROVE Cared(p)'
  <2>1. CASE p \in Done
    <3>1. PICK m \in FirstRows : DealtWith(Of(m)) /\ p \in Of(m)
      BY <2>1
    <3>2. PICK j \in Rows : IsLatest(j, Of(m)) /\ Latest(Of(m)) = recorded[j]
      BY <1>0, LatestIs
    <3>3. recorded[j].outcome # "none" /\ recorded[j].pages = Of(m)
      BY <3>1, <3>2 DEF DealtWith, IsLatest
    <3> QED
      BY <1>1, <3>1, <3>3 DEF Cared, Rows
  <2>2. CASE p \notin Done
    BY <1>1, <1>5, <1>7, <2>2 DEF Cared, Tasks
  <2> QED
    BY <2>1, <2>2
<1> QED
  BY <1>1, <1>2, <1>3, <1>8, <1>9, <1>10 DEF PagesInv

\* A run that was just opened.
LEMMA CleanInit == Init => CleanInv
<1> SUFFICES ASSUME Init PROVE CleanInv
  OBVIOUS
<1>1. Pages \in SUBSET Pages /\ IsFiniteSet(Pages)
  BY ApifyAssumption
<1>2. /\ \A k \in Tasks : tasks[k] = Task(tasks[k].pages, None)
      /\ \A p \in Pages : \E k \in Tasks : p \in tasks[k].pages
  BY <1>1, FreshIs DEF Init, Tasks
<1>3. \A k \in Tasks : tasks[k].at = "queued"
  <2> SUFFICES ASSUME NEW k \in Tasks PROVE tasks[k].at = "queued"
    OBVIOUS
  <2> DEFINE t == tasks[k]
  <2>1. t = Task(t.pages, None)
    BY <1>2
  <2> QED
    BY <2>1 DEF Task
<1>4. Pages \ Pending = {}
  <2>1. ASSUME NEW p \in Pages PROVE p \in Pending
    <3>1. PICK k \in Tasks : p \in tasks[k].pages
      BY <1>2
    <3>2. ~IsCounted(tasks[k])
      BY <1>3 DEF IsCounted
    <3> QED
      BY <3>1, <3>2 DEF Pending
  <2> QED
    BY <2>1
<1>5. PagesInv
  <2>1. mem.done = Cardinality(Pages \ Pending)
    BY <1>4, FS_EmptySet DEF Init
  <2> QED
    BY <1>2, <2>1 DEF Init, PagesInv, Cared
<1>6. ErrorsInv
  BY <1>3 DEF Init, ErrorsInv, ErrorsOf, IsCounted
<1>7. OutcomesInv /\ ClosesWell
  BY DEF Init, OutcomesInv, ClosesWell, Rows
<1> QED
  BY <1>5, <1>6, <1>7 DEF CleanInv

\* A step of the run as a whole keeps it, too: the row is written from memory, or closed with an error.
LEMMA CleanRunStep ==
    ASSUME TypeInv, TypeInv', ReadInv, "delete" \notin faults.kinds, \A i \in Tasks : LinkOf(tasks[i]),
           OutcomesInv, ErrorsInv, PagesInv, ClosesWell,
           Collected \/ CollectorFails \/ FinishRun \/ Crash \/ Stop \/ CloseInterrupted
    PROVE  OutcomesInv' /\ ErrorsInv' /\ PagesInv' /\ ClosesWell'
<1>0. /\ row \in Row /\ mem \in Progress /\ UNCHANGED <<actors, recorded, stored>>
      /\ row' \in Row /\ mem' \in Progress
  BY DEF TypeInv, Types, Row, Collected, CollectorFails, FinishRun, Crash, Stop, CloseInterrupted, apify,
         database
<1>1. (\A a : ReadWell(a)' <=> ReadWell(a)) /\ (Complete' <=> Complete) /\ Rows' = Rows
  BY <1>0 DEF ReadWell, Complete, Rows
<1>2. ASSUME row.errors > 0 => row'.errors > 0 PROVE OutcomesInv'
  BY <1>0, <1>1, <1>2 DEF OutcomesInv
<1>3. CASE Collected
  <2>1. UNCHANGED <<row, mem, tasks>> /\ worker = "up" /\ worker' = "closing" /\ \A i \in Tasks : tasks[i].at = "done"
    BY <1>3 DEF Collected, database, memory
  <2>2. mem.errors > 0 \/ (Complete /\ mem.done = row.pages)
    BY <2>1, AllDone
  <2>3. row.open
    BY <2>1 DEF ClosesWell
  <2>4. OutcomesInv'
    BY <1>2, <2>1
  <2>5. ErrorsInv'
    BY <2>1 DEF ErrorsInv, ErrorsOf, IsCounted, Tasks
  <2> QED
    BY <1>1, <2>1, <2>2, <2>3, <2>4, <2>5 DEF PagesInv, ClosesWell
<1>4. CASE CollectorFails
  <2>1. UNCHANGED row /\ worker = "up" /\ worker' = "closing" /\ tasks' = <<>>
        /\ mem' = [mem EXCEPT !.errors = @ + 1]
    BY <1>4 DEF CollectorFails, database
  <2>2. mem'.errors > 0
    BY <1>0, <2>1 DEF Progress
  <2>3. row.open
    BY <2>1 DEF ClosesWell
  <2>4. OutcomesInv'
    BY <1>2, <2>1
  <2>5. ErrorsInv'
    BY <2>1, <2>2 DEF ErrorsInv, Tasks
  <2> QED
    BY <2>1, <2>2, <2>3, <2>4, <2>5 DEF PagesInv, ClosesWell
<1>5. CASE FinishRun
  <2>1. UNCHANGED <<mem, tasks>> /\ worker = "closing" /\ worker' = "down"
        /\ row' = [Beaten(mem) EXCEPT !.open = FALSE]
    BY <1>5 DEF FinishRun, memory
  <2>2. row'.errors = mem.errors /\ row'.done = mem.done /\ row'.pages = row.pages /\ row'.open = FALSE
    BY <1>0, <2>1 DEF Beaten, Row
  <2>3. OutcomesInv'
    BY <1>2, <2>1, <2>2 DEF ErrorsInv
  <2>4. ErrorsInv'
    BY <2>1, <2>2 DEF ErrorsInv, ErrorsOf, IsCounted, Tasks
  <2> QED
    BY <1>1, <2>1, <2>2, <2>3, <2>4 DEF PagesInv, ClosesWell
<1>6. CASE Crash \/ Stop
  <2>1. worker # "down" /\ worker' = "down" /\ tasks' = <<>> /\ row' \in {row, Interrupted}
    BY <1>6 DEF Crash, Stop, MayDie, Down, database
  <2>2. row.open /\ row'.pages = row.pages /\ (row.errors > 0 => row'.errors > 0)
        /\ (~row'.open => row'.errors > 0)
    <3>1. row.open
      BY <2>1 DEF ClosesWell
    <3>2. Interrupted.pages = row.pages /\ Interrupted.errors = row.errors + 1 /\ row.errors \in Nat
      BY <1>0 DEF Interrupted, Row
    <3> QED
      BY <2>1, <3>1, <3>2
  <2>3. OutcomesInv'
    BY <1>2, <2>2
  <2>4. ErrorsInv'
    BY <2>1 DEF ErrorsInv, Tasks
  <2> QED
    BY <2>1, <2>2, <2>3, <2>4 DEF PagesInv, ClosesWell
<1>7. CASE CloseInterrupted
  <2>1. UNCHANGED <<tasks, mem, worker>> /\ worker = "down" /\ row' = Interrupted
    BY <1>7 DEF CloseInterrupted, memory
  <2>2. row'.errors > 0 /\ row'.pages = row.pages
    BY <1>0, <2>1 DEF Interrupted, Row
  <2>3. OutcomesInv'
    BY <1>2, <2>2
  <2>4. ErrorsInv'
    BY <2>1, <2>2 DEF ErrorsInv, ErrorsOf, Tasks
  <2> QED
    BY <2>1, <2>2, <2>3, <2>4 DEF PagesInv, ClosesWell
<1> QED
  BY <1>3, <1>4, <1>5, <1>6, <1>7

\* Nothing of the run changes, but for what is on Apify.
LEMMA CleanStays ==
    ASSUME TypeInv, ActorsGrow, UNCHANGED <<recorded, row, stored, worker, tasks, mem>>,
           OutcomesInv, ErrorsInv, PagesInv, ClosesWell
    PROVE  OutcomesInv' /\ ErrorsInv' /\ PagesInv' /\ ClosesWell'
<1>1. Rows' = Rows /\ Tasks' = Tasks /\ \A k \in Rows : recorded[k].id \in DOMAIN actors
  BY DEF Rows, Tasks, TypeInv, Known
<1>2. Complete => Complete'
  BY CompleteStays
<1>3. ASSUME NEW k \in Rows, ReadWell(recorded[k].id) PROVE ReadWell(recorded[k].id)'
  <2>1. actors'[recorded[k].id] = actors[recorded[k].id]
    BY <1>1, <1>3, WellStays
  <2> QED
    BY <1>3, <2>1 DEF ReadWell
<1>4. OutcomesInv'
  BY <1>1, <1>3 DEF OutcomesInv
<1>5. ErrorsInv'
  BY <1>1 DEF ErrorsInv, ErrorsOf, IsCounted
<1>6. Pending' = Pending
  BY <1>1 DEF Pending, IsCounted
<1>7. PagesInv'
  BY <1>1, <1>6 DEF PagesInv, Cared
<1> QED
  BY <1>2, <1>4, <1>5, <1>7 DEF ClosesWell

\* A worker that resumes the run starts from the row.
LEMMA CleanResumed ==
    ASSUME TypeInv, RowsInv, tracked = Pages, OutcomesInv, Resume
    PROVE  OutcomesInv' /\ ErrorsInv' /\ PagesInv' /\ ClosesWell'
<1>0. /\ row \in Row /\ UNCHANGED <<actors, recorded, stored>> /\ worker' = "up" /\ tasks' = ResumePlan
      /\ row.open /\ mem'.errors = row.errors
  BY DEF TypeInv, Types, Row, Resume, apify
<1>1. row'.errors = row.errors /\ row'.open = row.open
  BY <1>0 DEF Resume, Row
<1>2. OutcomesInv'
  BY <1>0, <1>1 DEF OutcomesInv, ReadWell, Rows
<1>3. \A k \in Tasks' : tasks'[k].at = "queued"
  BY <1>0, ResumedIs DEF Tasks
<1>4. ErrorsInv'
  BY <1>0, <1>1, <1>3 DEF ErrorsInv, ErrorsOf, IsCounted
<1> QED
  BY <1>0, <1>1, <1>2, <1>4, ResumedPages DEF ClosesWell

\* Every step keeps it.
LEMMA CleanStep ==
    ASSUME TypeInv, TypeInv', ReadInv, LinkInv, CleanInv, [Next]_vars
    PROVE  CleanInv'
<1> SUFFICES ASSUME "delete" \notin faults'.kinds
             PROVE  OutcomesInv' /\ ErrorsInv' /\ PagesInv' /\ ClosesWell'
  BY DEF CleanInv
<1>0. /\ ActorsGrow /\ "delete" \notin faults.kinds /\ tracked = Pages
      /\ RowsInv /\ (\A i \in Tasks : LinkOf(tasks[i]))
      /\ \A i, j \in Tasks : i # j => tasks[i].pages \cap tasks[j].pages = {}
      /\ OutcomesInv /\ ErrorsInv /\ PagesInv /\ ClosesWell
  BY StepGrows, StepFaults DEF LinkInv, ReadInv, CleanInv
<1>1. ASSUME NEW i \in Tasks, TaskStep(i) PROVE OutcomesInv' /\ ErrorsInv' /\ PagesInv' /\ ClosesWell'
  <2>1. /\ OnlyBatch(i) /\ Moves(tasks[i], tasks'[i])
        /\ worker = "up" /\ worker' = "up" /\ row'.open = row.open
    BY <1>1, TaskMoves, TaskFaults, TaskCounts
  <2>2. OutcomesInv' /\ \A k \in Rows : recorded[k].outcome # "none" => recorded'[k].outcome # "none"
    BY <1>0, <2>1, OutcomesStep
  <2>3. ErrorsInv'
    BY <1>0, <2>1, ErrorsStep
  <2>4. PagesInv'
    BY <1>0, <2>1, <2>2, PagesStep
  <2> QED
    BY <1>0, <2>1, <2>2, <2>3, <2>4 DEF ClosesWell
<1>2. CASE Collected \/ CollectorFails \/ FinishRun \/ Crash \/ Stop \/ CloseInterrupted
  BY <1>0, <1>2, CleanRunStep
<1>3. CASE Resume
  BY <1>0, <1>3, CleanResumed
<1>4. ASSUME NEW p \in Pages, DeletePage(p) PROVE FALSE
  BY <1>4, FaultsAddUp DEF DeletePage
<1>5. CASE Over \/ UNCHANGED vars \/ \E a \in DOMAIN actors : EndActorRun(a)
  <2>1. UNCHANGED <<recorded, row, stored, worker, tasks, mem>>
    BY <1>5 DEF Over, vars, EndActorRun, database, memory
  <2> QED
    BY <1>0, <2>1, CleanStays
<1> QED
  BY <1>1, <1>2, <1>3, <1>4, <1>5 DEF Next, NextWorker

\* It holds in every behaviour.
LEMMA InvClean == Spec => []CleanInv
BY CleanInit, CleanStep, InvTyped, InvRead, InvLinked, PTL DEF Spec

\* A run that closes without errors read every Page, whoever carried it on, and counted it.
THEOREM CleanRunsAreComplete == Spec => []CleanRunIsComplete
<1>1. TypeInv /\ CleanInv => CleanRunIsComplete
  <2> SUFFICES ASSUME TypeInv, CleanInv, ~row.open, row.errors = 0, "delete" \notin faults.kinds
               PROVE  Complete /\ row.done = row.pages
    BY DEF CleanRunIsComplete, Complete, ReadWell
  <2> QED
    BY DEF CleanInv, ClosesWell
<1> QED
  BY <1>1, InvClean, InvTyped, PTL

=============================================================================
