---------------------------- MODULE ReplayProofs ----------------------------
(***************************************************************************)
(* What TLAPS proves of the replay, for every choice of timestamps, window *)
(* lengths, rates, lead of sound and reordering within the shortest        *)
(* window: first of the ring alone, then of the ring, the ring of sound    *)
(* beside it and the bookmarks, as the engine keeps them.                  *)
(***************************************************************************)
EXTENDS Replay, FiniteSetTheorems, WellFoundedInduction, TLAPS

(***************************************************************************)
(* A nonempty set of naturals below n has a largest and a smallest         *)
(* element: what Max and Min of FiniteSetsExt choose exists.               *)
(***************************************************************************)
LEMMA HasMax ==
  ASSUME NEW n \in Nat, NEW S \in SUBSET (1..n), S # {}
  PROVE  \E m \in S : \A k \in S : m >= k
<1> DEFINE Above(m) == S \cap (m..n)
           T == {Above(m) : m \in S}
<1>1. IsFiniteSet(S)
  <2>1. IsFiniteSet(1..n)
    BY FS_Interval
  <2> QED BY <2>1, FS_Subset
<1>2. T \subseteq FiniteSubsetsOf(S)
  <2>1. \A m \in S : Above(m) \subseteq S
    OBVIOUS
  <2>2. \A m \in S : IsFiniteSet(Above(m))
    BY <1>1, <2>1, FS_Subset
  <2> QED BY <2>1, <2>2 DEF FiniteSubsetsOf
<1>3. T # {}
  OBVIOUS
<1>4. PICK x \in T : \A y \in T : ~ (<<y, x>> \in StrictSubsetOrdering(S))
  <2> HIDE DEF T
  <2> QED BY <1>2, <1>3, FS_StrictSubsetOrderingWellFounded, WFMin
<1>5. PICK m \in S : x = Above(m)
  OBVIOUS
<1>6. SUFFICES ASSUME NEW k \in S, ~ (m >= k) PROVE FALSE
  OBVIOUS
<1>7. /\ Above(k) \subseteq Above(m)
      /\ m \in Above(m)
      /\ m \notin Above(k)
  BY <1>6
<1>8. <<Above(k), Above(m)>> \in StrictSubsetOrdering(S)
  BY <1>7 DEF StrictSubsetOrdering
<1> QED BY <1>4, <1>5, <1>8

LEMMA HasMin ==
  ASSUME NEW n \in Nat, NEW S \in SUBSET (1..n), S # {}
  PROVE  \E m \in S : \A k \in S : m <= k
<1> DEFINE T == {n + 1 - k : k \in S}
<1>1. T \in SUBSET (1..n) /\ T # {}
  <2>1. \A k \in S : n + 1 - k \in 1..n
    OBVIOUS
  <2>2. PICK k \in S : TRUE
    OBVIOUS
  <2>3. n + 1 - k \in T
    OBVIOUS
  <2> QED BY <2>1, <2>3
<1>2. PICK t \in T : \A k \in T : t >= k
  <2> HIDE DEF T
  <2> QED BY <1>1, HasMax
<1>3. PICK m \in S : t = n + 1 - m
  OBVIOUS
<1>4. \A k \in S : n + 1 - k \in T /\ k \in Int
  OBVIOUS
<1>5. \A k \in S : t >= n + 1 - k
  <2> HIDE DEF T
  <2> QED BY <1>2, <1>4
<1> QED BY <1>3, <1>5, <1>4

LEMMA FrameFields ==
  ASSUME NEW f \in Frame
  PROVE  f.pts \in Pts /\ f.pts \in Int /\ f.pts >= 0 /\ f.id \in Int
<1>1. f.pts \in Pts /\ f.id \in Nat
  BY DEF Frame
<1>2. f.pts \in Nat
  BY <1>1, PtsAssumption
<1> QED BY <1>1, <1>2

LEMMA ElementsOfQueue ==
  ASSUME NEW S, NEW q \in Seq(S)
  PROVE  /\ ToSet(q) = {q[i] : i \in 1..Len(q)}
         /\ \A i \in 1..Len(q) : q[i] \in S
<1>1. DOMAIN q = 1..Len(q)
  OBVIOUS
<1> QED BY <1>1 DEF ToSet

(***************************************************************************)
(* Inserting: the back-scan stops right behind the last frame that is not  *)
(* later, so a sorted queue stays sorted and gains exactly that frame.     *)
(***************************************************************************)
LEMMA InsertPosition ==
  ASSUME NEW S, NEW q \in Seq(S), NEW f \in S
  PROVE  \E k \in 0..Len(q) :
           /\ InsertTsOrdered(q, f) = InsertAt(q, k + 1, f)
           /\ k > 0 => q[k].pts <= f.pts
           /\ \A j \in (k+1)..Len(q) : ~ (q[j].pts <= f.pts)
<1> DEFINE I == {i \in 1..Len(q) : q[i].pts <= f.pts}
<1>1. InsertTsOrdered(q, f) = InsertAt(q, (IF I # {} THEN Max(I) ELSE 0) + 1, f)
  BY DEF InsertTsOrdered, SelectLastInSeq
<1>2. CASE I = {}
  <2>1. InsertTsOrdered(q, f) = InsertAt(q, 0 + 1, f)
    BY <1>1, <1>2
  <2>2. \A j \in 1..Len(q) : ~ (q[j].pts <= f.pts)
    BY <1>2
  <2>3. 0 \in 0..Len(q) /\ 0 + 1 = 1
    OBVIOUS
  <2> QED BY <2>1, <2>2, <2>3
<1>3. CASE I # {}
  <2>1. \E m \in I : \A k \in I : m >= k
    <3>1. Len(q) \in Nat /\ I \in SUBSET (1..Len(q))
      OBVIOUS
    <3> HIDE DEF I
    <3> QED BY <1>3, <3>1, HasMax
  <2>2. Max(I) \in I /\ \A k \in I : Max(I) >= k
    <3> HIDE DEF I
    <3> QED BY <2>1 DEF Max
  <2>3. Max(I) \in 0..Len(q)
    BY <2>2
  <2> DEFINE m == Max(I)
  <2>4. InsertTsOrdered(q, f) = InsertAt(q, m + 1, f)
    BY <1>1, <1>3
  <2>5. \A j \in (m+1)..Len(q) : ~ (q[j].pts <= f.pts)
    <3> SUFFICES ASSUME NEW j \in (m+1)..Len(q), q[j].pts <= f.pts PROVE FALSE
      OBVIOUS
    <3>1. j \in I
      BY <2>3
    <3>2. m >= j /\ m \in Int
      BY <3>1, <2>2, <2>3
    <3> HIDE DEF m
    <3> QED BY <3>2
  <2> QED BY <2>2, <2>3, <2>4, <2>5
<1> QED BY <1>2, <1>3

\* t is q, a sequence over S, with f put in after the first k elements.
HasInserted(t, S, q, f, k) ==
    /\ t \in Seq(S)
    /\ Len(t) = Len(q) + 1
    /\ \A i \in 1..(Len(q) + 1) :
          t[i] = IF i <= k THEN q[i] ELSE IF i = k + 1 THEN f ELSE q[i-1]

LEMMA InsertAtElements ==
  ASSUME NEW S, NEW q \in Seq(S), NEW f \in S, NEW k \in 0..Len(q)
  PROVE  HasInserted(InsertAt(q, k + 1, f), S, q, f, k)
<1> DEFINE a == SubSeq(q, 1, k)
           b == SubSeq(q, k + 1, Len(q))
<1>1. a \in Seq(S) /\ Len(a) = k /\ \A i \in 1..k : a[i] = q[i]
  OBVIOUS
<1>2. /\ b \in Seq(S)
      /\ Len(b) = Len(q) - k
      /\ \A i \in 1..(Len(q) - k) : b[i] = q[k + i]
  OBVIOUS
<1>3. InsertAt(q, k + 1, f) = a \o <<f>> \o b
  <2>1. (k + 1) - 1 = k
    OBVIOUS
  <2> QED BY <2>1 DEF InsertAt
<1> HIDE DEF a, b
<1> DEFINE c == a \o <<f>>
<1>4. c \in Seq(S) /\ Len(c) = k + 1
  BY <1>1
<1>5. \A i \in 1..(k + 1) : c[i] = IF i <= k THEN q[i] ELSE f
  BY <1>1
<1> HIDE DEF c
<1> DEFINE r == c \o b
<1>6. r \in Seq(S) /\ Len(r) = Len(q) + 1
  BY <1>2, <1>4
<1>7. \A i \in 1..(k + 1) : r[i] = c[i]
  BY <1>2, <1>4
<1>8. \A i \in (k + 2)..(Len(q) + 1) : r[i] = q[i-1]
  <2> SUFFICES ASSUME NEW i \in (k + 2)..(Len(q) + 1) PROVE r[i] = q[i-1]
    OBVIOUS
  <2>1. r[i] = b[i - (k + 1)]
    BY <1>2, <1>4
  <2>2. b[i - (k + 1)] = q[k + (i - (k + 1))]
    BY <1>2
  <2>3. k + (i - (k + 1)) = i - 1
    OBVIOUS
  <2> QED BY <2>1, <2>2, <2>3
<1>9. InsertAt(q, k + 1, f) = r
  BY <1>3 DEF c
<1> HIDE DEF r
<1> QED BY <1>5, <1>6, <1>7, <1>8, <1>9 DEF HasInserted

LEMMA InsertElements ==
  ASSUME NEW S, NEW q \in Seq(S), NEW f \in S
  PROVE  /\ InsertTsOrdered(q, f) \in Seq(S)
         /\ ToSet(InsertTsOrdered(q, f)) = ToSet(q) \cup {f}
<1>1. PICK k \in 0..Len(q) : InsertTsOrdered(q, f) = InsertAt(q, k + 1, f)
  BY InsertPosition
<1> DEFINE r == InsertTsOrdered(q, f)
<1>2. /\ r \in Seq(S)
      /\ Len(r) = Len(q) + 1
      /\ \A i \in 1..(Len(q) + 1) :
            r[i] = IF i <= k THEN q[i] ELSE IF i = k + 1 THEN f ELSE q[i-1]
  <2>1. HasInserted(InsertAt(q, k + 1, f), S, q, f, k)
    BY InsertAtElements
  <2>2. HasInserted(r, S, q, f, k)
    BY <1>1, <2>1
  <2> HIDE DEF r
  <2> QED BY <2>2 DEF HasInserted
<1> HIDE DEF r
<1>3. ToSet(r) = ToSet(q) \cup {f}
  <2>1. /\ ToSet(r) = {r[i] : i \in 1..Len(r)}
        /\ ToSet(q) = {q[i] : i \in 1..Len(q)}
    BY <1>2, ElementsOfQueue
  <2>2. ASSUME NEW i \in 1..Len(r) PROVE r[i] \in ToSet(q) \cup {f}
    <3>1. CASE i <= k
      BY <3>1, <1>2, <2>1
    <3>2. CASE i = k + 1
      BY <3>2, <1>2
    <3>3. CASE i > k + 1
      <4>1. r[i] = q[i-1] /\ i-1 \in 1..Len(q)
        BY <3>3, <1>2
      <4> QED BY <4>1, <2>1
    <3> QED BY <3>1, <3>2, <3>3, <1>2
  <2>3. f \in ToSet(r)
    <3>1. k + 1 \in 1..Len(r) /\ r[k + 1] = f
      BY <1>2
    <3> QED BY <3>1, <2>1
  <2>4. ASSUME NEW i \in 1..Len(q) PROVE q[i] \in ToSet(r)
    <3>1. CASE i <= k
      <4>1. i \in 1..Len(r) /\ r[i] = q[i]
        BY <3>1, <1>2
      <4> QED BY <4>1, <2>1
    <3>2. CASE i > k
      <4>1. i + 1 \in 1..Len(r) /\ r[i + 1] = q[i]
        BY <3>2, <1>2
      <4> QED BY <4>1, <2>1
    <3> QED BY <3>1, <3>2
  <2> QED BY <2>1, <2>2, <2>3, <2>4
<1> QED BY <1>2, <1>3 DEF r

(***************************************************************************)
(* Climbing: a set that holds 0 and, with i - 1, also i, holds 0..n.  (The *)
(* least element that is missing has no predecessor.)                      *)
(***************************************************************************)
LEMMA Climb ==
  ASSUME NEW n \in Nat, NEW S, 0 \in S, \A i \in 1..n : i - 1 \in S => i \in S
  PROVE  \A i \in 0..n : i \in S
<1> DEFINE T == {i \in 1..n : i \notin S}
<1>1. SUFFICES ASSUME T # {} PROVE FALSE
  OBVIOUS
<1>2. PICK m \in T : \A k \in T : m <= k
  <2>1. T \in SUBSET (1..n)
    OBVIOUS
  <2> HIDE DEF T
  <2> QED BY <1>1, <2>1, HasMin
<1>3. m - 1 \in 0..n /\ m - 1 \notin T
  BY <1>2
<1> QED BY <1>3

(***************************************************************************)
(* Sums of weights, and how they change when an element is put in or when  *)
(* only a part is looked at.  sums[i] is the weight of the first i.        *)
(***************************************************************************)
Weighs(sums, w, n) ==
    /\ sums \in [0..n -> Int]
    /\ sums[0] = 0
    /\ \A i \in 1..n : sums[i] = sums[i - 1] + w[i]

Weights(n) == [1..n -> Nat]

\* v is what w is behind its first a elements, and w with x put in behind k.
IsPart(v, w, a, n) == \A i \in 1..n : v[i] = w[a + i]

IsWidened(v, w, n, k, x) ==
    \A i \in 1..(n + 1) :
        v[i] = IF i <= k THEN w[i] ELSE IF i = k + 1 THEN x ELSE w[i - 1]

LEMMA WeighsFacts ==
  ASSUME NEW n \in Nat, NEW w \in Weights(n), NEW sums, Weighs(sums, w, n)
  PROVE  /\ sums[0] = 0
         /\ \A i \in 0..n : sums[i] \in Int
         /\ \A i \in 1..n : /\ sums[i] = sums[i - 1] + w[i]
                            /\ sums[i - 1] \in Int /\ w[i] \in Int /\ w[i] >= 0
<1>1. \A i \in 1..n : i - 1 \in 0..n
  OBVIOUS
<1>2. \A i \in 0..n : sums[i] \in Int
  BY DEF Weighs
<1>3. \A i \in 1..n : w[i] \in Int /\ w[i] >= 0
  <2>1. \A i \in 1..n : w[i] \in Nat
    BY DEF Weights
  <2> QED BY <2>1
<1>4. sums[0] = 0 /\ \A i \in 1..n : sums[i] = sums[i - 1] + w[i]
  BY DEF Weighs
<1> QED BY <1>1, <1>2, <1>3, <1>4

LEMMA WeighsExists ==
  ASSUME NEW n \in Nat, NEW w \in Weights(n)
  PROVE  \E sums : Weighs(sums, w, n)
<1> DEFINE T == {m \in 0..n : \E g : Weighs(g, w, m)}
<1>1. 0 \in T
  <2>1. Weighs([i \in 0..0 |-> 0], w, 0)
    BY DEF Weighs
  <2> QED BY <2>1
<1>2. ASSUME NEW m \in 1..n, m - 1 \in T PROVE m \in T
  <2>1. PICK g : Weighs(g, w, m - 1)
    BY <1>2
  <2> DEFINE h == [i \in 0..m |-> IF i < m THEN g[i] ELSE g[m - 1] + w[m]]
  <2>2. w[m] \in Int
    BY DEF Weights
  <2>3. h \in [0..m -> Int]
    BY <2>1, <2>2 DEF Weighs
  <2>4. h[0] = 0
    BY <2>1 DEF Weighs
  <2>5. \A i \in 1..m : h[i] = h[i - 1] + w[i]
    BY <2>1 DEF Weighs
  <2> HIDE DEF h
  <2>6. Weighs(h, w, m)
    BY <2>3, <2>4, <2>5 DEF Weighs
  <2> QED BY <2>6
<1>3. n \in T
  <2>1. n \in 0..n
    OBVIOUS
  <2> HIDE DEF T
  <2> QED BY <1>1, <1>2, <2>1, Climb
<1> QED BY <1>3

LEMMA WeighsAscend ==
  ASSUME NEW n \in Nat, NEW w \in Weights(n), NEW sums, Weighs(sums, w, n),
         NEW i \in 0..n, NEW j \in 0..n, i <= j
  PROVE  sums[i] <= sums[j]
<1> DEFINE T == {m \in 0..(n - i) : sums[i] <= sums[i + m]}
<1>0. sums[i] \in Int
  BY WeighsFacts
<1>1. 0 \in T
  BY <1>0
<1>2. ASSUME NEW m \in 1..(n - i), m - 1 \in T PROVE m \in T
  <2> DEFINE k == i + m
  <2>1. k \in 1..n /\ i + (m - 1) = k - 1
    OBVIOUS
  <2>2. sums[i] <= sums[k - 1]
    BY <1>2, <2>1
  <2> HIDE DEF k
  <2>3. /\ sums[k] = sums[k - 1] + w[k] /\ sums[k - 1] \in Int
        /\ w[k] \in Int /\ w[k] >= 0
    BY <2>1, WeighsFacts
  <2>4. sums[i] <= sums[k]
    BY <1>0, <2>2, <2>3
  <2> QED BY <2>4 DEF k
<1>3. j - i \in T
  <2>1. j - i \in 0..(n - i) /\ n - i \in Nat
    OBVIOUS
  <2> HIDE DEF T
  <2> QED BY <1>1, <1>2, <2>1, Climb
<1>4. i + (j - i) = j
  OBVIOUS
<1> QED BY <1>3, <1>4

LEMMA WeighsPart ==
  ASSUME NEW n \in Nat, NEW w \in Weights(n), NEW sums, Weighs(sums, w, n),
         NEW a \in 0..n, NEW b \in a..n, NEW v, IsPart(v, w, a, b - a)
  PROVE  \E s : Weighs(s, v, b - a) /\ s[b - a] = sums[b] - sums[a]
<1> DEFINE g == [i \in 0..(b - a) |-> sums[a + i] - sums[a]]
<1>1. g \in [0..(b - a) -> Int] /\ g[0] = 0
  <2>1. \A i \in 0..(b - a) : a + i \in 0..n
    OBVIOUS
  <2>2. \A i \in 0..n : sums[i] \in Int
    BY WeighsFacts
  <2>3. \A i \in 0..(b - a) : sums[a + i] \in Int
    BY <2>1, <2>2
  <2> QED BY <2>2, <2>3
<1>2. ASSUME NEW i \in 1..(b - a) PROVE g[i] = g[i - 1] + v[i]
  <2> DEFINE k == a + i
  <2>1. k \in 1..n /\ k - 1 = a + (i - 1)
    OBVIOUS
  <2>2. g[i] = sums[k] - sums[a] /\ g[i - 1] = sums[k - 1] - sums[a] /\ v[i] = w[k]
    BY <2>1 DEF IsPart
  <2> HIDE DEF k, g
  <2>3. /\ sums[k] = sums[k - 1] + w[k]
        /\ sums[k - 1] \in Int /\ sums[a] \in Int /\ w[k] \in Int
    BY <2>1, WeighsFacts
  <2> QED BY <2>2, <2>3
<1>3. g[b - a] = sums[b] - sums[a]
  <2>1. b - a \in 0..(b - a) /\ a + (b - a) = b
    OBVIOUS
  <2> QED BY <2>1
<1> HIDE DEF g
<1>4. Weighs(g, v, b - a)
  BY <1>1, <1>2 DEF Weighs
<1> QED BY <1>3, <1>4

LEMMA WeighsInserted ==
  ASSUME NEW n \in Nat, NEW w \in Weights(n), NEW sums, Weighs(sums, w, n),
         NEW k \in 0..n, NEW x \in Nat, NEW v, IsWidened(v, w, n, k, x)
  PROVE  \E s : Weighs(s, v, n + 1) /\ s[n + 1] = sums[n] + x
<1> DEFINE g == [i \in 0..(n + 1) |-> IF i <= k THEN sums[i] ELSE sums[i - 1] + x]
<1>1. /\ \A i \in 0..n : sums[i] \in Int
      /\ sums[0] = 0
      /\ \A i \in 1..n : sums[i] = sums[i - 1] + w[i] /\ w[i] \in Int
  BY WeighsFacts
<1>2. g \in [0..(n + 1) -> Int] /\ g[0] = 0
  <2>1. ASSUME NEW i \in 0..(n + 1)
        PROVE  (IF i <= k THEN sums[i] ELSE sums[i - 1] + x) \in Int
    <3>1. CASE i <= k
      BY <3>1, <1>1
    <3>2. CASE ~ (i <= k)
      <4>1. i - 1 \in 0..n
        BY <3>2
      <4> QED BY <3>2, <4>1, <1>1
    <3> QED BY <3>1, <3>2
  <2> QED BY <2>1, <1>1
<1>3. ASSUME NEW i \in 1..(n + 1) PROVE g[i] = g[i - 1] + v[i]
  <2>1. i \in Int /\ i - 1 \in 0..n /\ i \in 0..(n + 1) /\ i - 1 \in 0..(n + 1)
    OBVIOUS
  <2>2. CASE i <= k
    <3>1. g[i] = sums[i] /\ g[i - 1] = sums[i - 1] /\ v[i] = w[i] /\ i \in 1..n
      BY <2>1, <2>2 DEF IsWidened
    <3> QED BY <3>1, <1>1
  <2>3. CASE i = k + 1
    <3>1. g[i] = sums[i - 1] + x /\ g[i - 1] = sums[i - 1] /\ v[i] = x
      BY <2>1, <2>3 DEF IsWidened
    <3> QED BY <3>1
  <2>4. CASE i > k + 1
    <3>1. /\ g[i] = sums[i - 1] + x
          /\ g[i - 1] = sums[(i - 1) - 1] + x
          /\ v[i] = w[i - 1] /\ i - 1 \in 1..n /\ (i - 1) - 1 \in 0..n
      BY <2>1, <2>4 DEF IsWidened
    <3>2. /\ sums[i - 1] = sums[(i - 1) - 1] + w[i - 1]
          /\ sums[(i - 1) - 1] \in Int /\ w[i - 1] \in Int
      BY <3>1, <1>1
    <3> QED BY <3>1, <3>2
  <2> QED BY <2>1, <2>2, <2>3, <2>4
<1>4. g[n + 1] = sums[n] + x
  <2>1. n + 1 \in 0..(n + 1) /\ ~ (n + 1 <= k) /\ (n + 1) - 1 = n
    OBVIOUS
  <2> QED BY <2>1
<1> HIDE DEF g
<1>5. Weighs(g, v, n + 1)
  BY <1>2, <1>3 DEF Weighs
<1> QED BY <1>4, <1>5

(***************************************************************************)
(* What a queue weighs: the size of the whole, of a part, and of the queue *)
(* with one frame more.                                                    *)
(***************************************************************************)
Sizes(q) == [i \in 1..Len(q) |-> Size(q[i])]

LEMMA SizesAreWeights ==
  ASSUME NEW S, NEW q \in Seq(S)
  PROVE  /\ Len(q) \in Nat
         /\ Sizes(q) \in Weights(Len(q))
         /\ \A i \in 1..Len(q) : Sizes(q)[i] = Size(q[i])
<1>1. \A f : Size(f) \in Nat
  BY DEF Size
<1> QED BY <1>1 DEF Sizes, Weights

LEMMA TotalIsSum ==
  ASSUME NEW S, NEW q \in Seq(S), NEW w, NEW sums, Weighs(sums, w, Len(q)),
         \A i \in 1..Len(q) : w[i] = Size(q[i])
  PROVE  TotalSize(q) = sums[Len(q)]
<1> DEFINE Rec(g) == g = [n \in 0..Len(q) |-> IF n = 0 THEN 0 ELSE g[n - 1] + Size(q[n])]
           total == CHOOSE g : Rec(g)
<1>1. Rec(sums)
  BY DEF Weighs
<1>2. Rec(total)
  BY <1>1
<1>3. TotalSize(q) = total[Len(q)]
  BY DEF TotalSize
<1> HIDE DEF total
<1>4. total[0] = 0 /\ \A n \in 1..Len(q) : total[n] = total[n - 1] + Size(q[n])
  BY <1>2
<1> HIDE DEF Rec
<1> DEFINE T == {m \in 0..Len(q) : total[m] = sums[m]}
<1>5. 0 \in T
  BY <1>4 DEF Weighs
<1>6. ASSUME NEW m \in 1..Len(q), m - 1 \in T PROVE m \in T
  <2>1. total[m] = total[m - 1] + Size(q[m])
    BY <1>4
  <2>2. sums[m] = sums[m - 1] + Size(q[m])
    BY DEF Weighs
  <2> QED BY <1>6, <2>1, <2>2
<1>7. Len(q) \in T
  <2>1. Len(q) \in Nat /\ Len(q) \in 0..Len(q)
    OBVIOUS
  <2> HIDE DEF T
  <2> QED BY <1>5, <1>6, <2>1, Climb
<1> QED BY <1>3, <1>7

LEMMA TotalWeighs ==
  ASSUME NEW S, NEW q \in Seq(S)
  PROVE  \E sums : Weighs(sums, Sizes(q), Len(q)) /\ TotalSize(q) = sums[Len(q)]
<1>1. PICK sums : Weighs(sums, Sizes(q), Len(q))
  BY SizesAreWeights, WeighsExists
<1> QED BY <1>1, SizesAreWeights, TotalIsSum

LEMMA TotalInt ==
  ASSUME NEW S, NEW q \in Seq(S)
  PROVE  TotalSize(q) \in Nat
<1>1. PICK sums : Weighs(sums, Sizes(q), Len(q)) /\ TotalSize(q) = sums[Len(q)]
  BY TotalWeighs
<1>2. Len(q) \in Nat /\ 0 \in 0..Len(q) /\ Len(q) \in 0..Len(q) /\ 0 <= Len(q)
  OBVIOUS
<1>3. sums[0] <= sums[Len(q)]
  BY <1>1, <1>2, SizesAreWeights, WeighsAscend
<1>4. sums[0] = 0 /\ sums[Len(q)] \in Int
  BY <1>1, <1>2 DEF Weighs
<1> QED BY <1>1, <1>3, <1>4

LEMMA TotalEmpty == TotalSize(<<>>) = 0
<1>1. <<>> \in Seq({}) /\ Len(<<>>) = 0
  OBVIOUS
<1>2. PICK sums : Weighs(sums, Sizes(<<>>), 0) /\ TotalSize(<<>>) = sums[0]
  BY <1>1, TotalWeighs
<1> QED BY <1>2 DEF Weighs

LEMMA TotalOfPart ==
  ASSUME NEW S, NEW q \in Seq(S), NEW sums, Weighs(sums, Sizes(q), Len(q)),
         NEW a \in 0..Len(q), NEW b \in a..Len(q)
  PROVE  TotalSize(SubSeq(q, a + 1, b)) = sums[b] - sums[a]
<1> DEFINE r == SubSeq(q, a + 1, b)
<1>1. /\ r \in Seq(S) /\ Len(r) = b - a
      /\ \A i \in 1..(b - a) : r[i] = q[a + i]
  OBVIOUS
<1> HIDE DEF r
<1>2. \A i \in 1..(b - a) : Sizes(r)[i] = Sizes(q)[a + i] /\ Sizes(r)[i] = Size(r[i])
  <2>1. \A i \in 1..(b - a) : a + i \in 1..Len(q)
    OBVIOUS
  <2> QED BY <1>1, <2>1, SizesAreWeights
<1>3. PICK s : Weighs(s, Sizes(r), b - a) /\ s[b - a] = sums[b] - sums[a]
  <2> DEFINE n == Len(q)
             w == Sizes(q)
             v == Sizes(r)
  <2>1. /\ n \in Nat /\ w \in Weights(n) /\ Weighs(sums, w, n)
        /\ a \in 0..n /\ b \in a..n
        /\ IsPart(v, w, a, b - a)
    BY <1>2, SizesAreWeights DEF IsPart
  <2> HIDE DEF n, w, v
  <2>2. \E s : Weighs(s, v, b - a) /\ s[b - a] = sums[b] - sums[a]
    BY <2>1, WeighsPart
  <2> QED BY <2>2 DEF v
<1>4. TotalSize(r) = s[b - a]
  BY <1>1, <1>2, <1>3, TotalIsSum
<1> QED BY <1>3, <1>4 DEF r

LEMMA TotalInserted ==
  ASSUME NEW S, NEW q \in Seq(S), NEW f \in S, NEW k \in 0..Len(q), NEW t,
         HasInserted(t, S, q, f, k)
  PROVE  TotalSize(t) = TotalSize(q) + Size(f)
<1> DEFINE n == Len(q)
<1>1. PICK sums : Weighs(sums, Sizes(q), n) /\ TotalSize(q) = sums[n]
  BY TotalWeighs
<1>2. /\ t \in Seq(S) /\ Len(t) = n + 1
      /\ \A i \in 1..(n + 1) :
            t[i] = IF i <= k THEN q[i] ELSE IF i = k + 1 THEN f ELSE q[i - 1]
  BY DEF HasInserted
<1>3. Sizes(q) \in Weights(n) /\ \A i \in 1..n : Sizes(q)[i] = Size(q[i])
  BY SizesAreWeights
<1>4. \A i \in 1..(n + 1) : Sizes(t)[i] = Size(t[i])
  BY <1>2, SizesAreWeights
<1>5. n \in Nat /\ k \in 0..n /\ Size(f) \in Nat
  BY DEF Size
<1> HIDE DEF n
<1>6. ASSUME NEW i \in 1..(n + 1)
      PROVE  Sizes(t)[i] = IF i <= k THEN Sizes(q)[i]
                           ELSE IF i = k + 1 THEN Size(f) ELSE Sizes(q)[i - 1]
  <2>1. CASE i <= k
    BY <2>1, <1>2, <1>3, <1>4, <1>5
  <2>2. CASE i = k + 1
    BY <2>2, <1>2, <1>4, <1>5
  <2>3. CASE i > k + 1
    <3>1. i - 1 \in 1..n /\ ~ (i <= k) /\ i # k + 1
      BY <2>3, <1>5
    <3> QED BY <3>1, <1>2, <1>3, <1>4
  <2> QED BY <2>1, <2>2, <2>3, <1>5
<1>7. PICK s : Weighs(s, Sizes(t), n + 1) /\ s[n + 1] = sums[n] + Size(f)
  <2> DEFINE w == Sizes(q)
             v == Sizes(t)
             x == Size(f)
  <2>1. /\ w \in Weights(n) /\ Weighs(sums, w, n) /\ x \in Nat
        /\ IsWidened(v, w, n, k, x)
    BY <1>1, <1>3, <1>5, <1>6 DEF IsWidened
  <2> HIDE DEF w, v, x
  <2>2. \E s : Weighs(s, v, n + 1) /\ s[n + 1] = sums[n] + x
    BY <1>5, <2>1, WeighsInserted
  <2> QED BY <2>2 DEF v, x
<1>8. TotalSize(t) = s[n + 1]
  BY <1>2, <1>4, <1>7, TotalIsSum
<1> QED BY <1>1, <1>7, <1>8

LEMMA TotalAfterInsert ==
  ASSUME NEW S, NEW q \in Seq(S), NEW f \in S
  PROVE  TotalSize(InsertTsOrdered(q, f)) = TotalSize(q) + Size(f)
<1>1. PICK k \in 0..Len(q) : InsertTsOrdered(q, f) = InsertAt(q, k + 1, f)
  BY InsertPosition
<1>2. HasInserted(InsertTsOrdered(q, f), S, q, f, k)
  BY <1>1, InsertAtElements
<1> QED BY <1>2, TotalInserted

LEMMA InsertKeepsSorted ==
  ASSUME NEW q \in Seq(Frame), NEW f \in Frame, Sorted(q),
         \A i \in 1..Len(q) : q[i].id < f.id
  PROVE  /\ InsertTsOrdered(q, f) \in Seq(Frame)
         /\ Sorted(InsertTsOrdered(q, f))
         /\ ToSet(InsertTsOrdered(q, f)) = ToSet(q) \cup {f}
<1>1. PICK k \in 0..Len(q) :
        /\ InsertTsOrdered(q, f) = InsertAt(q, k + 1, f)
        /\ k > 0 => q[k].pts <= f.pts
        /\ \A j \in (k+1)..Len(q) : ~ (q[j].pts <= f.pts)
  BY InsertPosition
<1> DEFINE r == InsertTsOrdered(q, f)
<1>2. /\ r \in Seq(Frame)
      /\ Len(r) = Len(q) + 1
      /\ \A i \in 1..(Len(q) + 1) :
            r[i] = IF i <= k THEN q[i] ELSE IF i = k + 1 THEN f ELSE q[i-1]
  <2>1. HasInserted(InsertAt(q, k + 1, f), Frame, q, f, k)
    BY InsertAtElements
  <2>2. HasInserted(r, Frame, q, f, k)
    BY <1>1, <2>1
  <2> HIDE DEF r
  <2> QED BY <2>2 DEF HasInserted
<1> HIDE DEF r
<1>3. \A i \in 1..Len(q) : q[i] \in Frame /\ q[i].pts \in Int /\ q[i].id \in Int
  BY FrameFields
<1>4. f.pts \in Int /\ f.id \in Int
  BY FrameFields
<1>5. \A i \in 1..k : Before(q[i], f)
  <2> SUFFICES ASSUME NEW i \in 1..k PROVE Before(q[i], f)
    OBVIOUS
  <2>1. q[k].pts <= f.pts /\ k \in 1..Len(q) /\ i \in 1..Len(q)
    BY <1>1
  <2>2. q[i].pts <= q[k].pts
    BY <2>1, <1>3 DEF Sorted, Before
  <2> QED BY <2>1, <2>2, <1>3, <1>4 DEF Before
<1>6. \A j \in (k+1)..Len(q) : Before(f, q[j])
  BY <1>1, <1>3, <1>4 DEF Before
<1>7. Sorted(r)
  <2> SUFFICES ASSUME NEW i \in 1..Len(r), NEW j \in 1..Len(r), i < j
               PROVE  Before(r[i], r[j])
    BY DEF Sorted
  <2>1. CASE j <= k
    BY <2>1, <1>2 DEF Sorted
  <2>2. CASE j = k + 1
    BY <2>2, <1>2, <1>5
  <2>3. CASE j > k + 1 /\ i = k + 1
    <3>1. r[i] = f /\ r[j] = q[j-1] /\ j-1 \in (k+1)..Len(q)
      BY <2>3, <1>2
    <3> QED BY <3>1, <1>6
  <2>4. CASE j > k + 1 /\ i <= k
    <3>1. r[i] = q[i] /\ r[j] = q[j-1] /\ i < j-1 /\ i \in 1..Len(q) /\ j-1 \in 1..Len(q)
      BY <2>4, <1>2
    <3> QED BY <3>1 DEF Sorted
  <2>5. CASE j > k + 1 /\ i > k + 1
    <3>1. /\ r[i] = q[i-1] /\ r[j] = q[j-1] /\ i-1 < j-1
          /\ i-1 \in 1..Len(q) /\ j-1 \in 1..Len(q)
      BY <2>5, <1>2
    <3> QED BY <3>1 DEF Sorted
  <2> QED BY <2>1, <2>2, <2>3, <2>4, <2>5, <1>2
<1>8. ToSet(r) = ToSet(q) \cup {f}
  BY InsertElements DEF r
<1> QED BY <1>2, <1>7, <1>8 DEF r

(***************************************************************************)
(* Evicting: on a sorted queue, popping the front while it is too old      *)
(* keeps exactly the frames that are not, wherever they stand.             *)
(***************************************************************************)
LEMMA EvictPosition ==
  ASSUME NEW S, NEW q \in Seq(S), NEW cutoff \in Int
  PROVE  \/ /\ EvictBefore(q, cutoff) = <<>>
            /\ \A i \in 1..Len(q) : ~ (q[i].pts >= cutoff)
         \/ \E m \in 1..Len(q) :
               /\ EvictBefore(q, cutoff) = SubSeq(q, m, Len(q))
               /\ q[m].pts >= cutoff
               /\ \A i \in 1..(m-1) : ~ (q[i].pts >= cutoff)
<1> DEFINE I == {i \in 1..Len(q) : q[i].pts >= cutoff}
           first == IF I # {} THEN Min(I) ELSE 0
<1>1. EvictBefore(q, cutoff) =
        IF first = 0 THEN <<>> ELSE SubSeq(q, first, Len(q))
  BY DEF EvictBefore, SelectInSeq
<1>2. CASE I = {}
  BY <1>1, <1>2
<1>3. CASE I # {}
  <2>1. \E m \in I : \A k \in I : m <= k
    <3>1. Len(q) \in Nat /\ I \in SUBSET (1..Len(q))
      OBVIOUS
    <3> HIDE DEF I
    <3> QED BY <1>3, <3>1, HasMin
  <2> DEFINE m == Min(I)
  <2>2. m \in I /\ \A k \in I : m <= k
    <3> HIDE DEF I
    <3> QED BY <2>1 DEF Min
  <2>3. m \in 1..Len(q) /\ q[m].pts >= cutoff
    BY <2>2
  <2>4. EvictBefore(q, cutoff) = SubSeq(q, m, Len(q))
    <3>1. first = m /\ first # 0
      BY <1>3, <2>3
    <3> QED BY <1>1, <3>1
  <2>5. \A i \in 1..(m-1) : ~ (q[i].pts >= cutoff)
    <3> SUFFICES ASSUME NEW i \in 1..(m-1), q[i].pts >= cutoff PROVE FALSE
      OBVIOUS
    <3>1. i \in I
      BY <2>3
    <3>2. m <= i /\ m \in Int
      BY <3>1, <2>2, <2>3
    <3> HIDE DEF m
    <3> QED BY <3>2
  <2> QED BY <2>3, <2>4, <2>5
<1> QED BY <1>2, <1>3

LEMMA EvictKeepsSorted ==
  ASSUME NEW q \in Seq(Frame), NEW cutoff \in Int, Sorted(q)
  PROVE  /\ EvictBefore(q, cutoff) \in Seq(Frame)
         /\ Sorted(EvictBefore(q, cutoff))
         /\ ToSet(EvictBefore(q, cutoff)) = {f \in ToSet(q) : f.pts >= cutoff}
<1>0. /\ ToSet(q) = {q[i] : i \in 1..Len(q)}
      /\ \A i \in 1..Len(q) : q[i] \in Frame /\ q[i].pts \in Int
  BY ElementsOfQueue, FrameFields
<1>1. CASE /\ EvictBefore(q, cutoff) = <<>>
           /\ \A i \in 1..Len(q) : ~ (q[i].pts >= cutoff)
  <2>1. ToSet(EvictBefore(q, cutoff)) = {}
    BY <1>1 DEF ToSet
  <2>2. {f \in ToSet(q) : f.pts >= cutoff} = {}
    BY <1>0, <1>1
  <2>3. <<>> \in Seq(Frame) /\ Sorted(<<>>)
    BY DEF Sorted
  <2> QED BY <1>1, <2>1, <2>2, <2>3
<1>2. ASSUME NEW m \in 1..Len(q),
             EvictBefore(q, cutoff) = SubSeq(q, m, Len(q)),
             q[m].pts >= cutoff,
             \A i \in 1..(m-1) : ~ (q[i].pts >= cutoff)
      PROVE  /\ EvictBefore(q, cutoff) \in Seq(Frame)
             /\ Sorted(EvictBefore(q, cutoff))
             /\ ToSet(EvictBefore(q, cutoff)) = {f \in ToSet(q) : f.pts >= cutoff}
  <2> DEFINE r == SubSeq(q, m, Len(q))
             n == Len(q) - m + 1
  <2>1. /\ r \in Seq(Frame) /\ Len(r) = n /\ n \in Nat
        /\ \A i \in 1..n : r[i] = q[m + i - 1] /\ m + i - 1 \in 1..Len(q)
    OBVIOUS
  <2>2. ToSet(r) = {r[i] : i \in 1..n}
    BY <2>1, ElementsOfQueue
  <2>3. \A i \in m..Len(q) : q[i].pts >= cutoff
    <3> SUFFICES ASSUME NEW i \in m..Len(q), i # m PROVE q[i].pts >= cutoff
      BY <1>2
    <3>1. Before(q[m], q[i])
      BY DEF Sorted
    <3>2. q[m].pts <= q[i].pts
      BY <3>1, <1>0 DEF Before
    <3> QED BY <3>2, <1>0, <1>2
  <2> HIDE DEF r
  <2>4. Sorted(r)
    <3> SUFFICES ASSUME NEW i \in 1..n, NEW j \in 1..n, i < j
                 PROVE  Before(r[i], r[j])
      BY <2>1 DEF Sorted
    <3>1. /\ r[i] = q[m + i - 1] /\ r[j] = q[m + j - 1]
          /\ m + i - 1 \in 1..Len(q) /\ m + j - 1 \in 1..Len(q)
          /\ m + i - 1 < m + j - 1
      BY <2>1
    <3> QED BY <3>1 DEF Sorted
  <2>5. ASSUME NEW i \in 1..n PROVE r[i] \in {f \in ToSet(q) : f.pts >= cutoff}
    <3>1. r[i] = q[m + i - 1] /\ m + i - 1 \in m..Len(q) /\ m + i - 1 \in 1..Len(q)
      BY <2>1
    <3>2. q[m + i - 1].pts >= cutoff
      BY <3>1, <2>3
    <3> QED BY <3>1, <3>2, <1>0
  <2>6. ASSUME NEW i \in 1..Len(q), q[i].pts >= cutoff PROVE q[i] \in ToSet(r)
    <3>1. i >= m
      BY <2>6, <1>2
    <3>2. i - m + 1 \in 1..n /\ m + (i - m + 1) - 1 = i
      BY <3>1
    <3>3. r[i - m + 1] = q[i]
      BY <3>2, <2>1
    <3> QED BY <3>2, <3>3, <2>2
  <2>7. ToSet(r) = {f \in ToSet(q) : f.pts >= cutoff}
    BY <2>2, <2>5, <2>6, <1>0
  <2> QED BY <1>2, <2>1, <2>4, <2>7 DEF r
<1> QED BY <1>1, <1>2, EvictPosition

-----------------------------------------------------------------------------

(***************************************************************************)
(* The inductive invariant.  Gapless is not inductive: a late frame could  *)
(* be older than one evicted before it.  It is not, because whatever was   *)
(* evicted was already more than Reorder behind the anchor at that time    *)
(* (EvictedLongAgo), the anchor never goes back between two clears, and it *)
(* is the timestamp of a frame received since the last one (Anchor), which *)
(* is what the encoder's reordering is bounded against.                    *)
(***************************************************************************)
Ids == \A f \in received : f.id <= arrived

Anchor ==
    /\ \A f \in received : f.pts <= max_pts
    /\ \/ received = {} /\ max_pts = NoPts
       \/ \E f \in received : f.pts = max_pts

EvictedLongAgo == \A f \in received \ Held : f.pts < max_pts - Reorder

IInv ==
    /\ TypeOK
    /\ Ordered
    /\ SpanBounded
    /\ Gapless
    /\ Ids
    /\ Anchor
    /\ Held \subseteq received
    /\ EvictedLongAgo
    /\ BytesExact

LEMMA CapacityTicks ==
  ASSUME NEW c \in Capacities
  PROVE  c * TicksPerSec \in Int /\ Reorder <= c * TicksPerSec /\ Reorder \in Nat
<1>1. c \in Nat /\ TicksPerSec \in Nat
  BY CapacitiesAssumption, TicksAssumption
<1>2. c * TicksPerSec \in Int
  BY <1>1
<1> QED BY <1>2, ReorderAssumption

LEMMA EmptyQueue == <<>> \in Seq(Frame) /\ Sorted(<<>>) /\ ToSet(<<>>) = {}
<1>1. <<>> \in Seq(Frame) /\ Sorted(<<>>)
  BY DEF Sorted
<1>2. ToSet(<<>>) = {}
  BY DEF ToSet
<1> QED BY <1>1, <1>2

LEMMA InitInv == Init => IInv
<1> SUFFICES ASSUME Init PROVE IInv
  OBVIOUS
<1>1. frames = <<>> /\ Held = {} /\ received = {} /\ max_pts = NoPts /\ arrived = 0
  BY EmptyQueue DEF Init, Held
<1>2. TypeOK
  <2>1. capacity_ticks \in {c * TicksPerSec : c \in Capacities}
    BY DEF Init
  <2>2. arrived \in 0..MaxArrivals
    BY <1>1, MaxArrivalsAssumption
  <2> QED BY <1>1, <2>1, <2>2, EmptyQueue DEF TypeOK
<1>3. Ordered
  BY <1>1, EmptyQueue DEF Ordered
<1>4. SpanBounded /\ Gapless /\ Ids /\ Anchor /\ EvictedLongAgo /\ Held \subseteq received
  BY <1>1 DEF SpanBounded, Gapless, Ids, Anchor, EvictedLongAgo
<1>5. BytesExact
  BY <1>1, TotalEmpty DEF Init, BytesExact
<1> QED BY <1>2, <1>3, <1>4, <1>5 DEF IInv

(***************************************************************************)
(* What a push does to the set of frames held.                             *)
(***************************************************************************)
Arrival(pts, key) == [id |-> arrived + 1, pts |-> pts, key |-> key]

LEMMA PushHeld ==
  ASSUME IInv, NEW pts \in Pts, NEW key \in BOOLEAN, Push(pts, key)
  PROVE  /\ Arrival(pts, key) \in Frame
         /\ frames' \in Seq(Frame)
         /\ Ordered'
         /\ max_pts' = Newest(max_pts, pts)
         /\ received' = received \cup {Arrival(pts, key)}
         /\ Held' = {g \in Held \cup {Arrival(pts, key)} :
                        g.pts >= max_pts' - capacity_ticks}
<1> DEFINE f == Arrival(pts, key)
           newest == Newest(max_pts, pts)
           queue == InsertTsOrdered(frames, f)
           kept == EvictBefore(queue, newest - capacity_ticks)
<1>1. /\ max_pts' = newest
      /\ frames' = kept
      /\ received' = received \cup {f}
  BY DEF Push, Arrival
<1>2. f \in Frame /\ f.id = arrived + 1
  BY DEF Arrival, Frame, IInv, TypeOK
<1>3. frames \in Seq(Frame) /\ Sorted(frames) /\ \A i \in 1..Len(frames) : frames[i].id < f.id
  <2>1. frames \in Seq(Frame) /\ Sorted(frames)
    BY DEF IInv, TypeOK, Ordered
  <2>2. ASSUME NEW i \in 1..Len(frames) PROVE frames[i].id < f.id
    <3>1. frames[i] \in Held /\ frames[i] \in Frame
      BY <2>1, ElementsOfQueue DEF Held
    <3>2. frames[i].id <= arrived /\ frames[i].id \in Int /\ arrived \in Int
      BY <3>1, FrameFields DEF IInv, Ids, TypeOK
    <3> QED BY <1>2, <3>2
  <2> QED BY <2>1, <2>2
<1>4. newest - capacity_ticks \in Int
  <2>1. newest \in Int
    BY PtsAssumption DEF Newest, IInv, TypeOK, NoPts
  <2>2. capacity_ticks \in Int
    BY CapacityTicks DEF IInv, TypeOK
  <2> QED BY <2>1, <2>2
<1> HIDE DEF f, newest
<1>5. /\ queue \in Seq(Frame)
      /\ Sorted(queue)
      /\ ToSet(queue) = Held \cup {f}
  BY <1>2, <1>3, InsertKeepsSorted DEF Held
<1> HIDE DEF queue
<1>6. /\ kept \in Seq(Frame)
      /\ Sorted(kept)
      /\ ToSet(kept) = {g \in Held \cup {f} : g.pts >= newest - capacity_ticks}
  BY <1>4, <1>5, EvictKeepsSorted
<1> QED BY <1>1, <1>2, <1>6 DEF f, Ordered, Held, newest

(***************************************************************************)
(* What a resize does to it.                                               *)
(***************************************************************************)
LEMMA SetCapacityHeld ==
  ASSUME IInv, NEW c \in Capacities, SetCapacity(c)
  PROVE  /\ frames' \in Seq(Frame)
         /\ Ordered'
         /\ Held' = {g \in Held : g.pts >= max_pts - capacity_ticks'}
         /\ max_pts = NoPts => Held = {}
<1>1. /\ capacity_ticks' = c * TicksPerSec
      /\ frames' = IF max_pts = NoPts THEN frames
                    ELSE EvictBefore(frames, max_pts - c * TicksPerSec)
  BY DEF SetCapacity
<1>2. frames \in Seq(Frame) /\ Sorted(frames)
  BY DEF IInv, TypeOK, Ordered
<1>3. max_pts = NoPts => Held = {}
  <2> SUFFICES ASSUME max_pts = NoPts, NEW f \in received PROVE FALSE
    BY DEF IInv
  <2>1. f \in Frame
    BY DEF IInv, TypeOK
  <2>2. f.pts \in Int /\ f.pts >= 0
    BY <2>1, FrameFields
  <2>3. f.pts <= NoPts
    BY DEF IInv, Anchor
  <2> QED BY <2>2, <2>3 DEF NoPts
<1>4. CASE max_pts = NoPts
  <2>1. frames' = frames
    BY <1>1, <1>4
  <2>2. Held' = {}
    BY <2>1, <1>3, <1>4 DEF Held
  <2> QED BY <2>1, <2>2, <1>2, <1>3, <1>4 DEF Ordered
<1>5. CASE max_pts # NoPts
  <2>1. max_pts - c * TicksPerSec \in Int
    <3>1. max_pts \in Int
      BY <1>5, PtsAssumption DEF IInv, TypeOK
    <3>2. c * TicksPerSec \in Int
      BY CapacityTicks
    <3> QED BY <3>1, <3>2
  <2>2. frames' = EvictBefore(frames, max_pts - c * TicksPerSec)
    BY <1>1, <1>5
  <2>3. /\ frames' \in Seq(Frame)
        /\ Sorted(frames')
        /\ ToSet(frames') = {g \in ToSet(frames) : g.pts >= max_pts - c * TicksPerSec}
    BY <1>2, <2>1, <2>2, EvictKeepsSorted
  <2> QED BY <1>1, <1>3, <2>3 DEF Ordered, Held
<1> QED BY <1>4, <1>5

(***************************************************************************)
(* The counter of bytes goes up by what is inserted and down by what is    *)
(* evicted.                                                                *)
(***************************************************************************)
LEMMA PushBytes ==
  ASSUME IInv, NEW pts \in Pts, NEW key \in BOOLEAN, Push(pts, key)
  PROVE  BytesExact'
<1> DEFINE f == Arrival(pts, key)
           queue == InsertTsOrdered(frames, f)
<1>1. bytes' = bytes + Size(f) - (TotalSize(queue) - TotalSize(frames'))
  BY DEF Push, Arrival
<1>2. f \in Frame /\ frames' \in Seq(Frame) /\ frames \in Seq(Frame)
  BY PushHeld DEF IInv, TypeOK
<1> HIDE DEF f
<1>3. TotalSize(queue) = TotalSize(frames) + Size(f)
  BY <1>2, TotalAfterInsert
<1>4. TotalSize(frames') \in Int /\ TotalSize(frames) \in Int /\ Size(f) \in Int
  BY <1>2, TotalInt DEF Size
<1>5. bytes = TotalSize(frames)
  BY DEF IInv, BytesExact
<1> QED BY <1>1, <1>3, <1>4, <1>5 DEF BytesExact

LEMMA SetCapacityBytes ==
  ASSUME IInv, NEW c \in Capacities, SetCapacity(c)
  PROVE  BytesExact'
<1>1. bytes' = bytes - (TotalSize(frames) - TotalSize(frames'))
  BY DEF SetCapacity
<1>2. frames' \in Seq(Frame) /\ frames \in Seq(Frame)
  BY SetCapacityHeld DEF IInv, TypeOK
<1>3. TotalSize(frames') \in Int /\ TotalSize(frames) \in Int
  BY <1>2, TotalInt
<1> QED BY <1>1, <1>3 DEF IInv, BytesExact

(***************************************************************************)
(* Each operation keeps the invariant.                                     *)
(***************************************************************************)
LEMMA Numbers ==
  ASSUME IInv
  PROVE  /\ max_pts \in Int /\ arrived \in Nat
         /\ capacity_ticks \in Int /\ Reorder <= capacity_ticks /\ Reorder \in Nat
         /\ \A f \in received : f \in Frame /\ f.pts \in Int /\ f.pts >= 0 /\ f.id \in Int
<1>1. max_pts \in Int
  <2>1. TypeOK
    BY DEF IInv
  <2>2. max_pts \in Pts \cup {NoPts}
    BY <2>1 DEF TypeOK
  <2> QED BY <2>2, PtsAssumption DEF NoPts
<1>2. arrived \in Nat
  BY DEF IInv, TypeOK
<1>3. capacity_ticks \in Int /\ Reorder <= capacity_ticks /\ Reorder \in Nat
  BY CapacityTicks DEF IInv, TypeOK
<1>4. \A f \in received : f \in Frame
  BY DEF IInv, TypeOK
<1> QED BY <1>1, <1>2, <1>3, <1>4, FrameFields

LEMMA PushInv ==
  ASSUME IInv, NEW pts \in Pts, NEW key \in BOOLEAN, Push(pts, key)
  PROVE  IInv'
<1> DEFINE f == Arrival(pts, key)
<1>1. /\ f \in Frame /\ f.pts = pts /\ f.id = arrived + 1 /\ pts \in Int /\ pts >= 0
  BY PushHeld, FrameFields DEF Arrival
<1>2. /\ frames' \in Seq(Frame)
      /\ Ordered'
      /\ max_pts' = Newest(max_pts, pts)
      /\ received' = received \cup {f}
      /\ Held' = {g \in Held \cup {f} : g.pts >= max_pts' - capacity_ticks}
  BY PushHeld
<1>3. /\ arrived' = arrived + 1 /\ arrived < MaxArrivals
      /\ capacity_ticks' = capacity_ticks
      /\ \A g \in received : pts >= g.pts - Reorder
  BY DEF Push, InOrder
<1> HIDE DEF f
<1>4. /\ max_pts' \in Pts /\ max_pts' \in Int
      /\ max_pts' >= max_pts /\ max_pts' >= pts
      /\ max_pts' \in {max_pts, pts}
  <2>1. max_pts' \in {max_pts, pts} /\ max_pts' >= max_pts /\ max_pts' >= pts
    BY <1>1, <1>2, Numbers DEF Newest
  <2>2. max_pts' \in Pts
    BY <2>1, <1>1, PtsAssumption DEF IInv, TypeOK, NoPts
  <2> QED BY <2>1, <2>2, PtsAssumption
<1>5. TypeOK'
  <2>1. arrived' \in 0..MaxArrivals
    BY <1>3, Numbers, MaxArrivalsAssumption
  <2>2. received' \in SUBSET Frame
    BY <1>1, <1>2 DEF IInv, TypeOK
  <2>3. capacity_ticks' \in {c * TicksPerSec : c \in Capacities}
    BY <1>3 DEF IInv, TypeOK
  <2> QED BY <1>2, <1>4, <2>1, <2>2, <2>3 DEF TypeOK
<1>6. Held \subseteq received /\ Held' \subseteq received'
  BY <1>2 DEF IInv
<1>7. \A g \in received' : g.pts \in Int /\ g.pts <= max_pts' /\ g.id <= arrived'
  <2>1. ASSUME NEW g \in received
        PROVE  g.pts \in Int /\ g.pts <= max_pts' /\ g.id <= arrived'
    <3>1. g.pts \in Int /\ g.id \in Int /\ arrived \in Nat /\ max_pts \in Int
      BY Numbers
    <3>2. g.pts <= max_pts /\ g.id <= arrived
      BY DEF IInv, Anchor, Ids
    <3> QED BY <3>1, <3>2, <1>3, <1>4
  <2>2. f.pts \in Int /\ f.pts <= max_pts' /\ f.id <= arrived'
    BY <1>1, <1>3, <1>4, Numbers
  <2> QED BY <2>1, <2>2, <1>2
<1>8. SpanBounded'
  BY <1>2, <1>3, <1>6, <1>7 DEF SpanBounded
<1>9. Anchor'
  <2>1. \E g \in received' : g.pts = max_pts'
    <3>1. CASE max_pts' = pts
      BY <3>1, <1>1, <1>2
    <3>2. CASE max_pts' # pts
      <4>1. max_pts' = max_pts /\ max_pts # NoPts
        BY <3>2, <1>4, <1>1 DEF NoPts
      <4>2. PICK g \in received : g.pts = max_pts
        BY <4>1 DEF IInv, Anchor
      <4> QED BY <4>1, <4>2, <1>2
    <3> QED BY <3>1, <3>2
  <2> QED BY <2>1, <1>7 DEF Anchor
<1>10. ASSUME NEW g \in received' \ Held'
       PROVE  \/ g \in received \ Held /\ g.pts < max_pts - Reorder /\ g.pts < pts
              \/ g.pts < max_pts' - capacity_ticks
  <2>1. CASE g \in Held \cup {f}
    <3>1. ~ (g.pts >= max_pts' - capacity_ticks)
      BY <2>1, <1>2
    <3> QED BY <3>1, <1>4, <1>7, Numbers
  <2>2. CASE g \in received \ Held
    <3>1. g.pts < max_pts - Reorder
      BY <2>2 DEF IInv, EvictedLongAgo
    <3>2. PICK r \in received : r.pts = max_pts
      BY <2>2 DEF IInv, Anchor
    <3>3. pts >= max_pts - Reorder
      BY <3>2, <1>3
    <3> QED BY <2>2, <3>1, <3>3, <1>1, <1>7, Numbers
  <2> QED BY <2>1, <2>2, <1>2
<1>11. EvictedLongAgo'
  <2> SUFFICES ASSUME NEW g \in received' \ Held' PROVE g.pts < max_pts' - Reorder
    BY DEF EvictedLongAgo
  <2> QED BY <1>4, <1>7, <1>10, Numbers
<1>12. Gapless'
  <2> SUFFICES ASSUME NEW g \in received' \ Held', NEW h \in Held'
               PROVE  g.pts < h.pts
    BY DEF Gapless
  <2>1. h.pts \in Int /\ g.pts \in Int /\ h.pts >= max_pts' - capacity_ticks /\ h \in Held \cup {f}
    BY <1>2, <1>6, <1>7
  <2>2. CASE g \in received \ Held /\ g.pts < pts
    <3>1. CASE h \in Held
      BY <2>2, <3>1 DEF IInv, Gapless
    <3>2. CASE h = f
      BY <2>2, <3>2, <1>1
    <3> QED BY <3>1, <3>2, <2>1
  <2>3. CASE g.pts < max_pts' - capacity_ticks
    BY <2>1, <2>3, <1>4, Numbers
  <2> QED BY <2>2, <2>3, <1>10
<1>13. Ids'
  BY <1>7 DEF Ids
<1>14. BytesExact'
  BY PushBytes
<1> QED BY <1>2, <1>5, <1>6, <1>8, <1>9, <1>11, <1>12, <1>13, <1>14 DEF IInv

LEMMA SetCapacityInv ==
  ASSUME IInv, NEW c \in Capacities, SetCapacity(c)
  PROVE  IInv'
<1>1. /\ frames' \in Seq(Frame)
      /\ Ordered'
      /\ Held' = {g \in Held : g.pts >= max_pts - capacity_ticks'}
  BY SetCapacityHeld
<1>2. /\ max_pts' = max_pts /\ received' = received /\ arrived' = arrived
      /\ capacity_ticks' = c * TicksPerSec
  BY DEF SetCapacity
<1>3. capacity_ticks' \in Int /\ Reorder <= capacity_ticks'
  BY <1>2, CapacityTicks
<1>4. TypeOK'
  BY <1>1, <1>2 DEF IInv, TypeOK
<1>5. Held' \subseteq received'
  BY <1>1, <1>2 DEF IInv
<1>6. Ids' /\ Anchor'
  BY <1>2 DEF IInv, Ids, Anchor
<1>7. SpanBounded'
  BY <1>1, <1>2, <1>5 DEF SpanBounded, IInv, Anchor
<1>8. ASSUME NEW g \in received' \ Held'
      PROVE  g \in received \ Held \/ g.pts < max_pts - capacity_ticks'
  <2>1. CASE g \in Held
    <3>1. ~ (g.pts >= max_pts - capacity_ticks')
      BY <2>1, <1>1
    <3>2. g.pts \in Int /\ max_pts \in Int
      BY <1>2, Numbers
    <3> QED BY <3>1, <3>2, <1>3
  <2> QED BY <2>1, <1>2
<1>9. EvictedLongAgo'
  <2> SUFFICES ASSUME NEW g \in received' \ Held' PROVE g.pts < max_pts - Reorder
    BY <1>2 DEF EvictedLongAgo
  <2>1. g.pts \in Int /\ max_pts \in Int /\ Reorder \in Nat
    BY <1>2, Numbers
  <2>2. CASE g \in received \ Held
    BY <2>2 DEF IInv, EvictedLongAgo
  <2>3. CASE g.pts < max_pts - capacity_ticks'
    BY <2>1, <2>3, <1>3
  <2> QED BY <1>8, <2>2, <2>3
<1>10. Gapless'
  <2> SUFFICES ASSUME NEW g \in received' \ Held', NEW h \in Held'
               PROVE  g.pts < h.pts
    BY DEF Gapless
  <2>1. h \in Held /\ h.pts >= max_pts - capacity_ticks'
    BY <1>1
  <2>2. g.pts \in Int /\ h.pts \in Int /\ max_pts \in Int
    BY <1>2, <1>5, Numbers
  <2>3. CASE g \in received \ Held
    BY <2>1, <2>3 DEF IInv, Gapless
  <2>4. CASE g.pts < max_pts - capacity_ticks'
    BY <2>1, <2>2, <2>4, <1>3
  <2> QED BY <1>8, <2>3, <2>4
<1>11. BytesExact'
  BY SetCapacityBytes
<1> QED BY <1>1, <1>4, <1>5, <1>6, <1>7, <1>9, <1>10, <1>11 DEF IInv

LEMMA ClearInv ==
  ASSUME IInv, Clear
  PROVE  IInv'
<1>1. /\ frames' = <<>> /\ received' = {} /\ max_pts' = NoPts
      /\ capacity_ticks' = capacity_ticks /\ arrived' = arrived
  BY DEF Clear
<1>2. frames' \in Seq(Frame) /\ Sorted(frames') /\ ToSet(frames') = {}
  BY <1>1, EmptyQueue
<1>3. TypeOK'
  BY <1>1, <1>2 DEF IInv, TypeOK
<1>4. Ordered' /\ Held' = {}
  BY <1>2 DEF Ordered, Held
<1>5. SpanBounded' /\ Gapless' /\ Ids' /\ Anchor' /\ EvictedLongAgo' /\ (Held \subseteq received)'
  BY <1>1, <1>4 DEF SpanBounded, Gapless, Ids, Anchor, EvictedLongAgo
<1>6. BytesExact'
  BY <1>1, TotalEmpty DEF Clear, BytesExact
<1> QED BY <1>3, <1>4, <1>5, <1>6 DEF IInv

LEMMA StepInv == IInv /\ [Next]_vars => IInv'
<1> SUFFICES ASSUME IInv, [Next]_vars PROVE IInv'
  OBVIOUS
<1>1. CASE \E pts \in Pts, key \in BOOLEAN : Push(pts, key)
  BY <1>1, PushInv
<1>2. CASE \E c \in Capacities : SetCapacity(c)
  BY <1>2, SetCapacityInv
<1>3. CASE Clear
  BY <1>3, ClearInv
<1>4. CASE UNCHANGED vars
  BY <1>4 DEF vars, IInv, TypeOK, Ordered, Sorted, SpanBounded, Gapless, Ids,
              Anchor, EvictedLongAgo, BytesExact, Held
<1> QED BY <1>1, <1>2, <1>3, <1>4 DEF Next

-----------------------------------------------------------------------------

(***************************************************************************)
(* The inductive invariant holds.                                          *)
(***************************************************************************)
LEMMA Invariance == Spec => []IInv
<1>1. Init => IInv
  BY InitInv
<1>2. IInv /\ [Next]_vars => IInv'
  BY StepInv
<1> QED BY <1>1, <1>2, PTL DEF Spec

(***************************************************************************)
(* Type correctness of the ring's state.                                   *)
(***************************************************************************)
THEOREM TypeCorrect == Spec => []TypeOK
<1>1. IInv => TypeOK
  BY DEF IInv
<1> QED BY <1>1, Invariance, PTL

(***************************************************************************)
(* order.rs: however the encoder reorders frames, the queue is in          *)
(* presentation order, arrival order among equal timestamps.               *)
(***************************************************************************)
THEOREM AlwaysOrdered == Spec => []Ordered
<1>1. IInv => Ordered
  BY DEF IInv
<1> QED BY <1>1, Invariance, PTL

(***************************************************************************)
(* ring.rs evict_before: the footage never exceeds the window, whatever    *)
(* its length and however it is resized.                                   *)
(***************************************************************************)
THEOREM AlwaysBounded == Spec => []SpanBounded
<1>1. IInv => SpanBounded
  BY DEF IInv
<1> QED BY <1>1, Invariance, PTL

(***************************************************************************)
(* The ring never has a hole: what left it is older than all that is held. *)
(***************************************************************************)
THEOREM AlwaysGapless == Spec => []Gapless
<1>1. IInv => Gapless
  BY DEF IInv
<1> QED BY <1>1, Invariance, PTL

(***************************************************************************)
(* ring.rs bytes(): the counter kept by push, eviction and clear is the    *)
(* size of the frames held; it never drifts and never goes below zero.     *)
(***************************************************************************)
THEOREM AlwaysBytesExact == Spec => []BytesExact
<1>1. IInv => BytesExact
  BY DEF IInv
<1> QED BY <1>1, Invariance, PTL

-----------------------------------------------------------------------------

(***************************************************************************)
(* The queue of ring.rs implements the set of store.rs: initial states and *)
(* steps of the ring are initial states and steps of FrameStore.           *)
(***************************************************************************)
LEMMA InitRefines == Init => Store!Init
<1> SUFFICES ASSUME Init PROVE Store!Init
  OBVIOUS
<1>1. Held = {}
  BY EmptyQueue DEF Init, Held
<1> QED BY <1>1 DEF Init, Store!Init, NoPts, Store!NoPts

LEMMA StepRefines == IInv /\ [Next]_vars => [Store!Next]_(Store!vars)
<1> SUFFICES ASSUME IInv, [Next]_vars PROVE [Store!Next]_(Store!vars)
  OBVIOUS
<1>1. ASSUME NEW pts \in Pts, NEW key \in BOOLEAN, Push(pts, key)
      PROVE  Store!Push(pts, key)
  <2>1. /\ arrived < MaxArrivals /\ InOrder(received, pts)
        /\ arrived' = arrived + 1 /\ UNCHANGED capacity_ticks
    BY <1>1 DEF Push
  <2>2. /\ max_pts' = Newest(max_pts, pts)
        /\ received' = received \cup {Arrival(pts, key)}
        /\ Held' = {g \in Held \cup {Arrival(pts, key)} :
                       g.pts >= max_pts' - capacity_ticks}
    BY <1>1, PushHeld
  <2> QED BY <2>1, <2>2 DEF Store!Push, Store!InWindow, Arrival,
                        InOrder, Store!InOrder, Newest, Store!Newest
<1>2. ASSUME NEW c \in Capacities, SetCapacity(c)
      PROVE  Store!SetCapacity(c)
  <2>1. /\ capacity_ticks' = c * TicksPerSec
        /\ UNCHANGED <<arrived, received, max_pts>>
    BY <1>2 DEF SetCapacity
  <2>2. /\ Held' = {g \in Held : g.pts >= max_pts - capacity_ticks'}
        /\ max_pts = NoPts => Held = {}
    BY <1>2, SetCapacityHeld
  <2>3. Held' = IF max_pts = NoPts THEN Held
                ELSE Store!InWindow(Held, max_pts, c * TicksPerSec)
    BY <2>1, <2>2 DEF Store!InWindow
  <2> QED BY <2>1, <2>3 DEF Store!SetCapacity, NoPts, Store!NoPts
<1>3. ASSUME Clear PROVE Store!Clear
  <2>1. Held' = {}
    BY <1>3, EmptyQueue DEF Clear, Held
  <2> QED BY <1>3, <2>1 DEF Clear, Store!Clear, NoPts, Store!NoPts
<1>4. ASSUME UNCHANGED vars PROVE UNCHANGED Store!vars
  BY <1>4 DEF vars, Store!vars, Held
<1> QED BY <1>1, <1>2, <1>3, <1>4 DEF Next, Store!Next

(***************************************************************************)
(* Every push, resize and clear of the queue is that operation on the set  *)
(* of frames of FrameStore.                                                *)
(***************************************************************************)
THEOREM Implements == Spec => ImplementsFrameStore
<1> QED BY InitRefines, StepRefines, Invariance, PTL
        DEF Spec, Store!Spec, ImplementsFrameStore

-----------------------------------------------------------------------------

(***************************************************************************)
(* Selecting a clip: the position found is that of the latest keyframe old *)
(* enough, or else of the earliest one, and the range from a position of a *)
(* sorted queue is the set of frames that are not before it.               *)
(***************************************************************************)
LastOf(I) == IF I # {} THEN Max(I) ELSE 0
FirstOf(I) == IF I # {} THEN Min(I) ELSE 0

LEMMA LastOfIs ==
  ASSUME NEW n \in Nat, NEW I \in SUBSET (1..n)
  PROVE  \/ I = {} /\ LastOf(I) = 0
         \/ LastOf(I) \in I /\ \A k \in I : LastOf(I) >= k
<1>1. CASE I = {}
  BY <1>1 DEF LastOf
<1>2. CASE I # {}
  <2>1. \E m \in I : \A k \in I : m >= k
    BY <1>2, HasMax
  <2>2. Max(I) \in I /\ \A k \in I : Max(I) >= k
    BY <2>1 DEF Max
  <2> QED BY <1>2, <2>2 DEF LastOf
<1> QED BY <1>1, <1>2

LEMMA FirstOfIs ==
  ASSUME NEW n \in Nat, NEW I \in SUBSET (1..n)
  PROVE  \/ I = {} /\ FirstOf(I) = 0
         \/ FirstOf(I) \in I /\ \A k \in I : FirstOf(I) <= k
<1>1. CASE I = {}
  BY <1>1 DEF FirstOf
<1>2. CASE I # {}
  <2>1. \E m \in I : \A k \in I : m <= k
    BY <1>2, HasMin
  <2>2. Min(I) \in I /\ \A k \in I : Min(I) <= k
    BY <2>1 DEF Min
  <2> QED BY <1>2, <2>2 DEF FirstOf
<1> QED BY <1>1, <1>2

LEMMA RangeOfSorted ==
  ASSUME NEW q \in Seq(Frame), Sorted(q), NEW m \in 1..Len(q)
  PROVE  /\ SubSeq(q, m, Len(q))[1] = q[m]
         /\ ToSet(SubSeq(q, m, Len(q))) = {f \in ToSet(q) : f = q[m] \/ Before(q[m], f)}
         /\ \A f \in ToSet(q) : (f = q[m] \/ Before(q[m], f)) <=> ~ Before(f, q[m])
<1> DEFINE r == SubSeq(q, m, Len(q))
           n == Len(q) - m + 1
<1>1. /\ r \in Seq(Frame) /\ Len(r) = n /\ n \in Nat
      /\ \A i \in 1..n : r[i] = q[m + i - 1] /\ m + i - 1 \in 1..Len(q)
  OBVIOUS
<1>2. r[1] = q[m]
  OBVIOUS
<1> HIDE DEF r
<1>3. /\ ToSet(r) = {r[i] : i \in 1..n}
      /\ ToSet(q) = {q[i] : i \in 1..Len(q)}
  BY <1>1, ElementsOfQueue
<1>4. \A i \in 1..Len(q) : q[i].pts \in Int /\ q[i].id \in Int
  BY ElementsOfQueue, FrameFields
<1>5. ASSUME NEW i \in 1..Len(q)
      PROVE  /\ i >= m => (q[i] = q[m] \/ Before(q[m], q[i])) /\ ~ Before(q[i], q[m])
             /\ i < m => Before(q[i], q[m]) /\ q[i] # q[m] /\ ~ Before(q[m], q[i])
  <2>1. CASE i = m
    BY <2>1, <1>4 DEF Before
  <2>2. CASE i > m
    <3>1. Before(q[m], q[i])
      BY <2>2 DEF Sorted
    <3> QED BY <2>2, <3>1, <1>4 DEF Before
  <2>3. CASE i < m
    <3>1. Before(q[i], q[m])
      BY <2>3 DEF Sorted
    <3> QED BY <2>3, <3>1, <1>4 DEF Before
  <2> QED BY <2>1, <2>2, <2>3
<1>6. ASSUME NEW i \in 1..n PROVE r[i] \in {f \in ToSet(q) : f = q[m] \/ Before(q[m], f)}
  <2>1. r[i] = q[m + i - 1] /\ m + i - 1 \in 1..Len(q) /\ m + i - 1 >= m
    BY <1>1
  <2>2. q[m + i - 1] = q[m] \/ Before(q[m], q[m + i - 1])
    BY <2>1, <1>5
  <2> QED BY <2>1, <2>2, <1>3
<1>7. ASSUME NEW i \in 1..Len(q), q[i] = q[m] \/ Before(q[m], q[i]) PROVE q[i] \in ToSet(r)
  <2>1. i >= m
    BY <1>5, <1>7
  <2>2. i - m + 1 \in 1..n /\ m + (i - m + 1) - 1 = i
    BY <2>1
  <2>3. r[i - m + 1] = q[i]
    BY <2>2, <1>1
  <2> QED BY <2>2, <2>3, <1>3
<1>8. ToSet(r) = {f \in ToSet(q) : f = q[m] \/ Before(q[m], f)}
  BY <1>3, <1>6, <1>7
<1>9. \A f \in ToSet(q) : (f = q[m] \/ Before(q[m], f)) <=> ~ Before(f, q[m])
  BY <1>3, <1>5
<1> QED BY <1>2, <1>8, <1>9 DEF r

(***************************************************************************)
(* The newest frame there was is still there, at the end of the queue.     *)
(***************************************************************************)
LEMMA NewestIsLast ==
  ASSUME IInv, frames # <<>>
  PROVE  /\ Len(frames) \in 1..Len(frames)
         /\ frames[Len(frames)].pts = max_pts
<1>1. frames \in Seq(Frame) /\ Sorted(frames)
  BY DEF IInv, TypeOK, Ordered
<1>2. Len(frames) \in 1..Len(frames)
  BY <1>1
<1>3. Held = {frames[i] : i \in 1..Len(frames)}
  BY <1>1, ElementsOfQueue DEF Held
<1>4. frames[Len(frames)] \in Held
  BY <1>2, <1>3
<1>5. PICK g \in received : g.pts = max_pts
  BY <1>4 DEF IInv, Anchor
<1>6. max_pts \in Int /\ Reorder \in Nat /\ g.pts \in Int
  BY <1>5, Numbers
<1>7. g \in Held
  BY <1>5, <1>6 DEF IInv, EvictedLongAgo
<1>8. PICK i \in 1..Len(frames) : frames[i] = g
  BY <1>3, <1>7
<1>9. \A j \in 1..Len(frames) : frames[j].pts \in Int /\ frames[j].pts <= max_pts
  BY <1>1, <1>3, ElementsOfQueue, FrameFields DEF IInv, SpanBounded
<1>10. CASE i = Len(frames)
  BY <1>2, <1>5, <1>8, <1>10
<1>11. CASE i < Len(frames)
  <2>1. Before(frames[i], frames[Len(frames)])
    BY <1>1, <1>2, <1>11 DEF Sorted
  <2>2. frames[Len(frames)].pts >= max_pts
    BY <2>1, <1>2, <1>5, <1>6, <1>8, <1>9 DEF Before
  <2> QED BY <2>2, <1>2, <1>6, <1>9
<1> QED BY <1>2, <1>10, <1>11

(***************************************************************************)
(* The clip in the ring is the clip of FrameStore.                         *)
(***************************************************************************)
Early(start) == {i \in 1..Len(frames) : frames[i].key /\ frames[i].pts <= start}
Keys == {i \in 1..Len(frames) : frames[i].key}

LEMMA ClipPosition ==
  ASSUME IInv, NEW seconds \in Nat
  PROVE  LET start == max_pts - seconds * TicksPerSec
             m == SelectClip(frames, seconds)
         IN  \/ m = 0 /\ Keys = {}
             \/ m \in Early(start) /\ \A k \in Early(start) : m >= k
             \/ m \in Keys /\ Early(start) = {} /\ \A k \in Keys : m <= k
<1> DEFINE start == max_pts - seconds * TicksPerSec
<1>1. frames \in Seq(Frame) /\ Len(frames) \in Nat
  BY DEF IInv, TypeOK
<1>2. CASE frames = <<>>
  BY <1>2 DEF SelectClip, Keys
<1>3. CASE frames # <<>>
  <2>1. frames[Len(frames)].pts = max_pts
    BY <1>3, NewestIsLast
  <2>2. SelectClip(frames, seconds) =
          IF LastOf(Early(start)) # 0 THEN LastOf(Early(start)) ELSE FirstOf(Keys)
    BY <1>3, <2>1 DEF SelectClip, SelectLastInSeq, SelectInSeq, LastOf, FirstOf, Early, Keys
  <2> HIDE DEF start
  <2>3. Early(start) \in SUBSET (1..Len(frames)) /\ Keys \in SUBSET (1..Len(frames))
    BY DEF Early, Keys
  <2>4. /\ \/ Early(start) = {} /\ LastOf(Early(start)) = 0
           \/ /\ LastOf(Early(start)) \in Early(start)
              /\ \A k \in Early(start) : LastOf(Early(start)) >= k
        /\ \/ Keys = {} /\ FirstOf(Keys) = 0
           \/ FirstOf(Keys) \in Keys /\ \A k \in Keys : FirstOf(Keys) <= k
    BY <1>1, <2>3, LastOfIs, FirstOfIs
  <2> QED BY <2>2, <2>3, <2>4 DEF start
<1> QED BY <1>2, <1>3

\* x comes last of the frames of F, or first.
IsLatest(x, F) == x \in F /\ \A j \in F : j = x \/ Before(j, x)
IsEarliest(x, F) == x \in F /\ \A j \in F : j = x \/ Before(x, j)

LEMMA OnlyOne ==
  ASSUME NEW F, \A f \in F : f.pts \in Int /\ f.id \in Int,
         NEW x
  PROVE  /\ IsLatest(x, F) => x = CHOOSE k \in F : \A j \in F : j = k \/ Before(j, k)
         /\ IsEarliest(x, F) => x = CHOOSE k \in F : \A j \in F : j = k \/ Before(k, j)
<1>1. ASSUME NEW a \in F, NEW b \in F, Before(a, b), Before(b, a) PROVE FALSE
  <2>1. a.pts \in Int /\ a.id \in Int /\ b.pts \in Int /\ b.id \in Int
    OBVIOUS
  <2> QED BY <1>1, <2>1 DEF Before
<1>2. \A y : IsLatest(x, F) /\ IsLatest(y, F) => x = y
  BY <1>1 DEF IsLatest
<1>3. \A y : IsEarliest(x, F) /\ IsEarliest(y, F) => x = y
  BY <1>1 DEF IsEarliest
<1>4. ASSUME IsLatest(x, F)
      PROVE  x = CHOOSE k \in F : \A j \in F : j = k \/ Before(j, k)
  BY <1>2, <1>4 DEF IsLatest
<1>5. ASSUME IsEarliest(x, F)
      PROVE  x = CHOOSE k \in F : \A j \in F : j = k \/ Before(k, j)
  BY <1>3, <1>5 DEF IsEarliest
<1> QED BY <1>4, <1>5

KeyFrames == {f \in Held : f.key}
EarlyKeys(start) == {f \in KeyFrames : f.pts <= start}

(***************************************************************************)
(* What the clip starts on, of the set of keyframes that are held.         *)
(***************************************************************************)
LEMMA ClipStart ==
  ASSUME IInv, NEW seconds \in Nat
  PROVE  LET start == max_pts - seconds * TicksPerSec
             m == SelectClip(frames, seconds)
         IN  \/ m = 0 /\ KeyFrames = {}
             \/ /\ m \in 1..Len(frames)
                /\ \/ IsLatest(frames[m], EarlyKeys(start))
                   \/ IsEarliest(frames[m], KeyFrames) /\ EarlyKeys(start) = {}
<1> DEFINE start == max_pts - seconds * TicksPerSec
           m == SelectClip(frames, seconds)
<1>1. frames \in Seq(Frame) /\ Sorted(frames)
  BY DEF IInv, TypeOK, Ordered
<1>2. Held = {frames[i] : i \in 1..Len(frames)}
  BY <1>1, ElementsOfQueue DEF Held
<1>3. \A i, j \in 1..Len(frames) : i <= j => frames[i] = frames[j] \/ Before(frames[i], frames[j])
  BY <1>1 DEF Sorted
<1>4. \/ m = 0 /\ Keys = {}
      \/ m \in Early(start) /\ \A k \in Early(start) : m >= k
      \/ m \in Keys /\ Early(start) = {} /\ \A k \in Keys : m <= k
  BY ClipPosition
<1> HIDE DEF start, m
<1>5. /\ KeyFrames = {frames[i] : i \in Keys}
      /\ EarlyKeys(start) = {frames[i] : i \in Early(start)}
      /\ Keys \subseteq 1..Len(frames) /\ Early(start) \subseteq 1..Len(frames)
  BY <1>2 DEF KeyFrames, EarlyKeys, Keys, Early
<1>6. CASE m = 0 /\ Keys = {}
  BY <1>5, <1>6 DEF m
<1>7. CASE m \in Early(start) /\ \A k \in Early(start) : m >= k
  <2>1. IsLatest(frames[m], EarlyKeys(start))
    <3> SUFFICES ASSUME NEW i \in Early(start)
                 PROVE  frames[i] = frames[m] \/ Before(frames[i], frames[m])
      BY <1>5, <1>7 DEF IsLatest
    <3> QED BY <1>3, <1>5, <1>7
  <2> QED BY <1>5, <1>7, <2>1 DEF m, start
<1>8. CASE m \in Keys /\ Early(start) = {} /\ \A k \in Keys : m <= k
  <2>1. IsEarliest(frames[m], KeyFrames)
    <3> SUFFICES ASSUME NEW i \in Keys
                 PROVE  frames[i] = frames[m] \/ Before(frames[m], frames[i])
      BY <1>5, <1>8 DEF IsEarliest
    <3> QED BY <1>3, <1>5, <1>8
  <2> QED BY <1>5, <1>8, <2>1 DEF m, start
<1> QED BY <1>4, <1>6, <1>7, <1>8

LEMMA ClipIsPromised ==
  ASSUME IInv, NEW seconds \in Nat
  PROVE  ToSet(ClipOf(frames, seconds)) = Store!Clip(seconds)
<1> DEFINE start == max_pts - seconds * TicksPerSec
           m == SelectClip(frames, seconds)
           from == IF EarlyKeys(start) # {}
                   THEN CHOOSE k \in EarlyKeys(start) :
                            \A j \in EarlyKeys(start) : j = k \/ Before(j, k)
                   ELSE CHOOSE k \in KeyFrames : \A j \in KeyFrames : j = k \/ Before(k, j)
<1>1. Store!Clip(seconds) =
        IF KeyFrames = {} THEN {} ELSE {f \in Held : f = from \/ Before(from, f)}
  BY DEF Store!Clip, Store!Before, Before, KeyFrames, EarlyKeys
<1>2. frames \in Seq(Frame) /\ Sorted(frames)
  BY DEF IInv, TypeOK, Ordered
<1>3. \A f \in Held : f.pts \in Int /\ f.id \in Int
  BY <1>2, ElementsOfQueue, FrameFields DEF Held
<1>4. \/ m = 0 /\ KeyFrames = {}
      \/ /\ m \in 1..Len(frames)
         /\ \/ IsLatest(frames[m], EarlyKeys(start))
            \/ IsEarliest(frames[m], KeyFrames) /\ EarlyKeys(start) = {}
  BY ClipStart
<1>5. ClipOf(frames, seconds) = IF m = 0 THEN <<>> ELSE SubSeq(frames, m, Len(frames))
  BY DEF ClipOf
<1>6. CASE m = 0 /\ KeyFrames = {}
  <2>1. ToSet(<<>>) = {}
    BY EmptyQueue
  <2> QED BY <1>1, <1>5, <1>6, <2>1
<1>7. ASSUME m \in 1..Len(frames),
             \/ IsLatest(frames[m], EarlyKeys(start))
             \/ IsEarliest(frames[m], KeyFrames) /\ EarlyKeys(start) = {}
      PROVE  ToSet(ClipOf(frames, seconds)) = Store!Clip(seconds)
  <2>1. EarlyKeys(start) \subseteq Held /\ KeyFrames \subseteq Held
    BY DEF EarlyKeys, KeyFrames
  <2>2. frames[m] = from /\ KeyFrames # {}
    <3>1. CASE IsLatest(frames[m], EarlyKeys(start))
      <4>1. EarlyKeys(start) # {} /\ KeyFrames # {}
        BY <3>1 DEF IsLatest, EarlyKeys
      <4>2. \A f \in EarlyKeys(start) : f.pts \in Int /\ f.id \in Int
        BY <1>3, <2>1
      <4> HIDE DEF start, m
      <4> QED BY <3>1, <4>1, <4>2, OnlyOne
    <3>2. CASE IsEarliest(frames[m], KeyFrames) /\ EarlyKeys(start) = {}
      <4>1. KeyFrames # {}
        BY <3>2 DEF IsEarliest
      <4>2. \A f \in KeyFrames : f.pts \in Int /\ f.id \in Int
        BY <1>3, <2>1
      <4> HIDE DEF start, m
      <4> QED BY <3>2, <4>1, <4>2, OnlyOne
    <3> QED BY <1>7, <3>1, <3>2
  <2> HIDE DEF from, m
  <2>3. ToSet(SubSeq(frames, m, Len(frames))) =
            {f \in Held : f = frames[m] \/ Before(frames[m], f)}
    BY <1>2, <1>7, RangeOfSorted DEF Held
  <2>4. ClipOf(frames, seconds) = SubSeq(frames, m, Len(frames))
    BY <1>5, <1>7
  <2> QED BY <1>1, <2>2, <2>3, <2>4
<1> QED BY <1>4, <1>6, <1>7

(***************************************************************************)
(* A clip holds every frame received from its start on: those that are     *)
(* gone are older than all that are held.                                  *)
(***************************************************************************)
LEMMA ClipIsComplete == IInv => ClipComplete
<1> SUFFICES ASSUME IInv, NEW seconds \in Requests, \E f \in Held : f.key
             PROVE  LET clip == ClipOf(frames, seconds)
                        start == max_pts - seconds * TicksPerSec
                    IN  /\ clip[1].key
                        /\ ToSet(clip) = {f \in received : ~ Before(f, clip[1])}
                        /\ \A f \in Held : f.key /\ f.pts <= start =>
                                  clip[1].pts <= start /\ ~ Before(clip[1], f)
  BY DEF ClipComplete
<1> DEFINE start == max_pts - seconds * TicksPerSec
           m == SelectClip(frames, seconds)
           clip == ClipOf(frames, seconds)
<1>1. frames \in Seq(Frame) /\ Sorted(frames)
  BY DEF IInv, TypeOK, Ordered
<1>2. /\ m \in 1..Len(frames)
      /\ \/ IsLatest(frames[m], EarlyKeys(start))
         \/ IsEarliest(frames[m], KeyFrames) /\ EarlyKeys(start) = {}
  <2>1. seconds \in Nat
    BY RequestsAssumption
  <2>2. KeyFrames # {}
    BY DEF KeyFrames
  <2> QED BY <2>1, <2>2, ClipStart
<1>3. clip = SubSeq(frames, m, Len(frames))
  BY <1>2 DEF ClipOf
<1> HIDE DEF start, m, clip
<1> DEFINE g == frames[m]
<1>4. /\ clip[1] = g
      /\ ToSet(clip) = {f \in Held : f = g \/ Before(g, f)}
      /\ \A f \in Held : (f = g \/ Before(g, f)) <=> ~ Before(f, g)
  BY <1>1, <1>2, <1>3, RangeOfSorted DEF Held
<1>5. g \in Held /\ g.key
  BY <1>2 DEF IsLatest, IsEarliest, EarlyKeys, KeyFrames
<1> HIDE DEF g
<1>6. \A f \in received \ Held : Before(f, g)
  BY <1>5 DEF IInv, Gapless, Before
<1>7. ToSet(clip) = {f \in received : ~ Before(f, g)}
  BY <1>4, <1>6 DEF IInv
<1>8. ASSUME NEW f \in Held, f.key, f.pts <= start
      PROVE  g.pts <= start /\ ~ Before(g, f)
  <2>1. f \in EarlyKeys(start)
    BY <1>8 DEF EarlyKeys, KeyFrames
  <2>2. IsLatest(g, EarlyKeys(start))
    BY <1>2, <2>1 DEF g
  <2>3. g.pts <= start
    BY <2>2 DEF IsLatest, EarlyKeys
  <2>4. f = g \/ Before(f, g)
    BY <2>1, <2>2 DEF IsLatest
  <2>5. f.pts \in Int /\ f.id \in Int /\ g.pts \in Int /\ g.id \in Int
    BY <1>1, <1>5, ElementsOfQueue, FrameFields DEF Held
  <2> QED BY <2>3, <2>4, <2>5 DEF Before
<1> QED BY <1>4, <1>5, <1>7, <1>8 DEF start, clip

(***************************************************************************)
(* The frames a screenshot decodes are the clip of the last zero seconds.  *)
(***************************************************************************)
LEMMA GopIsClip == IInv => LatestGop(frames) = ClipOf(frames, 0)
<1> SUFFICES ASSUME IInv PROVE LatestGop(frames) = ClipOf(frames, 0)
  OBVIOUS
<1> DEFINE m == SelectClip(frames, 0)
           start == max_pts - 0 * TicksPerSec
           last == LastOf(Keys)
<1>1. frames \in Seq(Frame) /\ Len(frames) \in Nat
  BY DEF IInv, TypeOK
<1>2. Early(start) = Keys
  <2>1. start = max_pts
    <3>1. max_pts \in Int /\ TicksPerSec \in Int
      BY Numbers, TicksAssumption
    <3> QED BY <3>1
  <2>2. \A i \in 1..Len(frames) : frames[i].pts <= max_pts
    BY <1>1, ElementsOfQueue DEF IInv, SpanBounded, Held
  <2> QED BY <2>1, <2>2 DEF Early, Keys
<1>3. \/ m = 0 /\ Keys = {}
      \/ m \in Keys /\ \A k \in Keys : m >= k
  <2>1. 0 \in Nat
    OBVIOUS
  <2>2. \/ m = 0 /\ Keys = {}
        \/ m \in Early(start) /\ \A k \in Early(start) : m >= k
        \/ m \in Keys /\ Early(start) = {} /\ \A k \in Keys : m <= k
    BY <2>1, ClipPosition
  <2> HIDE DEF m, start
  <2> QED BY <1>2, <2>2
<1>4. Keys \in SUBSET (1..Len(frames))
  BY DEF Keys
<1>5. \/ Keys = {} /\ last = 0
      \/ last \in Keys /\ \A k \in Keys : last >= k
  BY <1>1, <1>4, LastOfIs
<1>6. LatestGop(frames) = IF last = 0 THEN <<>> ELSE SubSeq(frames, last, Len(frames))
  BY DEF LatestGop, SelectLastInSeq, LastOf, Keys
<1>7. ClipOf(frames, 0) = IF m = 0 THEN <<>> ELSE SubSeq(frames, m, Len(frames))
  BY DEF ClipOf
<1> HIDE DEF m, last
<1>8. m = last
  <2>1. \A k \in Keys : k \in Int
    BY <1>1, <1>4
  <2>2. CASE Keys = {}
    BY <2>2, <1>3, <1>5
  <2>3. CASE Keys # {}
    <3>1. m \in Keys /\ last \in Keys /\ m >= last /\ last >= m
      BY <2>3, <1>3, <1>5
    <3>2. m \in Int /\ last \in Int
      BY <2>1, <3>1
    <3> QED BY <3>1, <3>2
  <2> QED BY <2>2, <2>3
<1> QED BY <1>6, <1>7, <1>8

(***************************************************************************)
(* clip.rs select_clip, engine.rs take_clip and take_latest_gop: the range *)
(* of positions that is saved is the clip the abstract store promises,     *)
(* starts on a keyframe, and misses no frame received since.               *)
(***************************************************************************)
THEOREM AlwaysClipAsPromised == Spec => []ClipAsPromised
<1>1. IInv => ClipAsPromised
  <2> SUFFICES ASSUME IInv PROVE ClipAsPromised
    OBVIOUS
  <2>1. 0 \in Nat /\ \A seconds \in Requests : seconds \in Nat
    BY RequestsAssumption
  <2>2. ClipComplete
    BY ClipIsComplete
  <2>3. \A seconds \in Requests : ToSet(ClipOf(frames, seconds)) = Store!Clip(seconds)
    BY <2>1, ClipIsPromised
  <2>4. ToSet(LatestGop(frames)) = Store!Clip(0)
    BY <2>1, GopIsClip, ClipIsPromised
  <2> QED BY <2>2, <2>3, <2>4 DEF ClipAsPromised
<1> QED BY <1>1, Invariance, PTL

-----------------------------------------------------------------------------


(***************************************************************************)
(* The ring in the replay takes the steps of the ring alone.               *)
(***************************************************************************)
LEMMA ReplayStep == [ReplayNext]_replayVars => [Next]_vars
<1> SUFFICES ASSUME [ReplayNext]_replayVars PROVE [Next]_vars
  OBVIOUS
<1>1. CASE \E pts \in Pts, key \in BOOLEAN : DrainVideo(pts, key)
  BY <1>1 DEF DrainVideo, Next
<1>2. CASE \E t \in AudioTimes : DrainAudio(t)
  BY <1>2 DEF DrainAudio, ringVars
<1>3. CASE Mark
  BY <1>3 DEF Mark, ringVars
<1>4. CASE \E c \in Capacities : Resize(c)
  BY <1>4 DEF Resize, Next
<1>5. CASE ClearReplay
  BY <1>5 DEF ClearReplay, Next
<1>6. CASE UNCHANGED replayVars
  BY <1>6 DEF replayVars, ringVars
<1> QED BY <1>1, <1>2, <1>3, <1>4, <1>5, <1>6 DEF ReplayNext

LEMMA ReplayIsRing == ReplaySpec => Spec
<1>1. ReplayInit => Init
  BY DEF ReplayInit
<1> QED BY <1>1, ReplayStep, PTL DEF ReplaySpec, Spec

(***************************************************************************)
(* engine.rs drain_available, set_capacity_seconds, clear: the ring has no *)
(* holes, whatever happens to sound and bookmarks between its steps.       *)
(***************************************************************************)
THEOREM ReplayGapless == ReplaySpec => []Gapless
<1> QED BY ReplayIsRing, AlwaysGapless, PTL

(***************************************************************************)
(* engine.rs take_clip, take_latest_gop: so every clip and screenshot the  *)
(* engine saves is the one the abstract store promises.                    *)
(***************************************************************************)
THEOREM ReplayClipAsPromised == ReplaySpec => []ClipAsPromised
<1> QED BY ReplayIsRing, AlwaysClipAsPromised, PTL

(***************************************************************************)
(* The engine's ring of video is the store that store.rs promises.         *)
(***************************************************************************)
THEOREM ReplayImplements == ReplaySpec => ImplementsFrameStore
<1> QED BY ReplayIsRing, Implements, PTL

-----------------------------------------------------------------------------
(* Conversion from ticks truncates; it keeps order, and is exact for whole *)
(* seconds, which is what windows are counted in.                          *)

LEMMA DivFloor ==
  ASSUME NEW a \in Int, NEW d \in Nat \ {0}
  PROVE  /\ a \div d \in Int
         /\ d * (a \div d) <= a /\ a < d * (a \div d) + d
  OBVIOUS

LEMMA DivBetween ==
  ASSUME NEW a \in Int, NEW d \in Nat \ {0}, NEW q \in Int, d * q <= a
  PROVE  q <= a \div d
<1> DEFINE p == a \div d
<1>1. p \in Int /\ a < d * p + d
  BY DivFloor
<1> HIDE DEF p
<1>2. SUFFICES ASSUME q >= p + 1 PROVE FALSE
  BY <1>1 DEF p
<1>3. d * q >= d * (p + 1)
  BY <1>1, <1>2
<1>4. d * (p + 1) = d * p + d
  BY <1>1
<1> QED BY <1>1, <1>3, <1>4

LEMMA MicrosInt ==
  ASSUME NEW a \in Int
  PROVE  Micros(a) \in Int /\ a * MicrosPerSec \in Int
<1>1. a * MicrosPerSec \in Int
  BY ReplayAssumption
<1> QED BY <1>1, DivFloor, TicksAssumption DEF Micros

LEMMA MicrosMonotone ==
  ASSUME NEW a \in Int, NEW b \in Int, a <= b
  PROVE  Micros(a) <= Micros(b)
<1> DEFINE x == a * MicrosPerSec
           y == b * MicrosPerSec
           q == x \div TicksPerSec
<1>1. x \in Int /\ y \in Int /\ x <= y
  BY ReplayAssumption
<1> HIDE DEF x, y
<1>2. q \in Int /\ TicksPerSec * q <= x
  BY <1>1, DivFloor, TicksAssumption
<1> HIDE DEF q
<1>3. TicksPerSec * q \in Int
  BY <1>2, TicksAssumption
<1>4. TicksPerSec * q <= y
  BY <1>1, <1>2, <1>3
<1>5. q <= y \div TicksPerSec
  BY <1>1, <1>2, <1>4, DivBetween, TicksAssumption
<1> QED BY <1>5 DEF Micros, q, x, y

LEMMA MicrosOfWindow ==
  ASSUME NEW a \in Int, NEW c \in Capacities
  PROVE  /\ c * MicrosPerSec \in Int
         /\ Micros(a) - c * MicrosPerSec <= Micros(a - c * TicksPerSec)
         /\ Micros(c * TicksPerSec) = c * MicrosPerSec
<1> DEFINE x == a * MicrosPerSec
           w == c * MicrosPerSec
           q == x \div TicksPerSec
<1>1. x \in Int /\ w \in Int /\ c \in Int /\ c * TicksPerSec \in Int
  BY ReplayAssumption, CapacitiesAssumption, TicksAssumption
<1>2. /\ (a - c * TicksPerSec) * MicrosPerSec = x - TicksPerSec * w
      /\ (c * TicksPerSec) * MicrosPerSec = TicksPerSec * w
  BY <1>1, ReplayAssumption, TicksAssumption
<1> HIDE DEF x, w
<1>3. q \in Int /\ TicksPerSec * q <= x
  BY <1>1, DivFloor, TicksAssumption
<1> HIDE DEF q
<1>4. TicksPerSec * (q - w) = TicksPerSec * q - TicksPerSec * w
  BY <1>1, <1>3, TicksAssumption
<1>5. TicksPerSec * w \in Int /\ TicksPerSec * q \in Int
  BY <1>1, <1>3, TicksAssumption
<1>6. TicksPerSec * (q - w) <= x - TicksPerSec * w
  BY <1>1, <1>3, <1>4, <1>5
<1>7. q - w <= (x - TicksPerSec * w) \div TicksPerSec
  BY <1>1, <1>3, <1>5, <1>6, DivBetween, TicksAssumption
<1>8. (TicksPerSec * w) \div TicksPerSec = w
  <2> DEFINE p == (TicksPerSec * w) \div TicksPerSec
  <2>1. p \in Int /\ TicksPerSec * p <= TicksPerSec * w
    BY <1>5, DivFloor, TicksAssumption
  <2>2. w <= p
    BY <1>1, <1>5, DivBetween, TicksAssumption
  <2> HIDE DEF p
  <2>3. p <= w
    <3> SUFFICES ASSUME p >= w + 1 PROVE FALSE
      BY <1>1, <2>1
    <3>1. TicksPerSec * p >= TicksPerSec * (w + 1)
      BY <1>1, <2>1, TicksAssumption
    <3>2. TicksPerSec * (w + 1) = TicksPerSec * w + TicksPerSec
      BY <1>1, TicksAssumption
    <3>3. TicksPerSec * p \in Int
      BY <2>1, TicksAssumption
    <3> QED BY <1>5, <2>1, <3>1, <3>2, <3>3, TicksAssumption
  <2> QED BY <1>1, <2>1, <2>2, <2>3 DEF p
<1> QED BY <1>1, <1>2, <1>7, <1>8 DEF Micros, q, w, x

-----------------------------------------------------------------------------

Packet == [pts : AudioTimes]

\* The times of the packets that are held.
Kept == {a.pts : a \in ToSet(audio)}

(***************************************************************************)
(* The inductive invariant.  A packet that is gone lay a whole window      *)
(* behind one received since (LostLongAgo), and sound runs at most         *)
(* AudioLead ahead of the newest frame (SoundLeads).  So it lies less than *)
(* AudioLead after every frame of a window (LostBehind), those that are    *)
(* still to come included.                                                 *)
(***************************************************************************)
LostLongAgo ==
    \A t \in heard \ Kept : \E u \in heard, c \in Capacities :
        t < u - c * MicrosPerSec

SoundLeads == max_pts # NoPts => Leads(max_pts, heard)

LostBehind ==
    \A t \in heard \ Kept, f \in Held : t < Micros(f.pts) + AudioLead

AudioTypeOK ==
    /\ audio \in Seq(Packet)
    /\ heard \subseteq AudioTimes
    /\ Kept \subseteq heard

AInv ==
    /\ IInv
    /\ AudioTypeOK
    /\ LostLongAgo
    /\ SoundLeads
    /\ LostBehind

LEMMA HeardAreInts ==
  ASSUME AudioTypeOK
  PROVE  \A t \in heard : t \in Int
BY ReplayAssumption DEF AudioTypeOK

LEMMA RingInts ==
  ASSUME IInv
  PROVE  /\ max_pts \in Int
         /\ \E c \in Capacities : capacity_ticks = c * TicksPerSec
         /\ \A f \in Held : f \in Frame /\ f.pts \in Int
<1>1. max_pts \in Int
  <2>1. TypeOK
    BY DEF IInv
  <2>2. max_pts \in Pts \cup {NoPts}
    BY <2>1 DEF TypeOK
  <2> QED BY <2>2, PtsAssumption DEF NoPts
<1>2. \E c \in Capacities : capacity_ticks = c * TicksPerSec
  BY DEF IInv, TypeOK
<1>3. \A f \in Held : f \in Frame /\ f.pts \in Int
  <2>1. frames \in Seq(Frame)
    BY DEF IInv, TypeOK
  <2> QED BY <2>1, ElementsOfQueue, FrameFields DEF Held
<1> QED BY <1>1, <1>2, <1>3

LEMMA AnchorSeen ==
  ASSUME IInv, NEW f \in Held
  PROVE  max_pts # NoPts
<1>1. f \in received /\ f \in Frame
  BY RingInts DEF IInv
<1>2. PICK g \in received : g.pts = max_pts
  BY <1>1 DEF IInv, Anchor
<1>3. g \in Frame
  BY DEF IInv, TypeOK
<1> QED BY <1>2, <1>3, FrameFields DEF NoPts

(***************************************************************************)
(* EvictAudio keeps what is within the window behind the newest packet.    *)
(***************************************************************************)
LEMMA EvictKeeps ==
  ASSUME NEW S, NEW q \in Seq(S), NEW cutoff \in Int
  PROVE  /\ EvictBefore(q, cutoff) \in Seq(S)
         /\ ToSet(EvictBefore(q, cutoff)) \subseteq ToSet(q)
         /\ \A a \in ToSet(q) : a.pts >= cutoff => a \in ToSet(EvictBefore(q, cutoff))
<1> DEFINE r == EvictBefore(q, cutoff)
<1>0. ToSet(q) = {q[i] : i \in 1..Len(q)}
  BY ElementsOfQueue
<1>1. CASE /\ r = <<>>
           /\ \A i \in 1..Len(q) : ~ (q[i].pts >= cutoff)
  <2>1. ToSet(<<>>) = {} /\ <<>> \in Seq(S)
    BY DEF ToSet
  <2> HIDE DEF r
  <2>2. /\ r \in Seq(S) /\ ToSet(r) \subseteq ToSet(q)
        /\ \A a \in ToSet(q) : a.pts >= cutoff => a \in ToSet(r)
    BY <1>0, <1>1, <2>1
  <2> QED BY <2>2 DEF r
<1>2. ASSUME NEW m \in 1..Len(q),
             r = SubSeq(q, m, Len(q)),
             \A i \in 1..(m-1) : ~ (q[i].pts >= cutoff)
      PROVE  /\ r \in Seq(S) /\ ToSet(r) \subseteq ToSet(q)
             /\ \A a \in ToSet(q) : a.pts >= cutoff => a \in ToSet(r)
  <2> DEFINE t == SubSeq(q, m, Len(q))
             n == Len(q) - m + 1
  <2>1. /\ t \in Seq(S) /\ Len(t) = n /\ n \in Nat
        /\ \A i \in 1..n : t[i] = q[m + i - 1] /\ m + i - 1 \in 1..Len(q)
    OBVIOUS
  <2>2. r = t
    BY <1>2
  <2> HIDE DEF r, t
  <2>3. ToSet(r) = {r[i] : i \in 1..n}
    <3>1. r \in Seq(S) /\ Len(r) = n
      BY <2>1, <2>2
    <3>2. DOMAIN r = 1..n
      BY <3>1
    <3> QED BY <3>2 DEF ToSet
  <2>4. ToSet(r) \subseteq ToSet(q)
    <3>1. ASSUME NEW i \in 1..n PROVE r[i] \in ToSet(q)
      <4>1. r[i] = q[m + i - 1] /\ m + i - 1 \in 1..Len(q)
        BY <2>1, <2>2
      <4> QED BY <4>1, <1>0
    <3> QED BY <3>1, <2>3
  <2>5. ASSUME NEW i \in 1..Len(q), q[i].pts >= cutoff PROVE q[i] \in ToSet(r)
    <3>1. i >= m
      BY <2>5, <1>2
    <3>2. i - m + 1 \in 1..n /\ m + (i - m + 1) - 1 = i
      BY <3>1
    <3>3. r[i - m + 1] = q[i]
      BY <3>2, <2>1, <2>2
    <3> QED BY <3>2, <3>3, <2>3
  <2> QED BY <1>0, <2>1, <2>2, <2>4, <2>5
<1>3. \/ /\ r = <<>>
         /\ \A i \in 1..Len(q) : ~ (q[i].pts >= cutoff)
      \/ \E m \in 1..Len(q) :
            /\ r = SubSeq(q, m, Len(q))
            /\ \A i \in 1..(m-1) : ~ (q[i].pts >= cutoff)
  BY EvictPosition
<1> QED BY <1>1, <1>2, <1>3 DEF r

LEMMA PacketTimes ==
  ASSUME NEW q \in Seq(Packet)
  PROVE  \A a \in ToSet(q) : a.pts \in Int
<1>1. \A a \in ToSet(q) : a \in Packet
  BY ElementsOfQueue
<1>2. \A a \in Packet : a.pts \in AudioTimes
  BY DEF Packet
<1>3. \A t \in AudioTimes : t \in Int
  BY ReplayAssumption
<1> QED BY <1>1, <1>2, <1>3

LEMMA AudioEviction ==
  ASSUME NEW q \in Seq(Packet), NEW c \in Capacities
  PROVE  LET r == EvictAudio(q, c * TicksPerSec)
         IN  /\ r \in Seq(Packet)
             /\ ToSet(r) \subseteq ToSet(q)
             /\ \A a \in ToSet(q) \ ToSet(r) :
                   \E b \in ToSet(q) : a.pts < b.pts - c * MicrosPerSec
<1> DEFINE r == EvictAudio(q, c * TicksPerSec)
           w == c * MicrosPerSec
<1>1. CASE q = <<>>
  BY <1>1 DEF EvictAudio
<1>2. CASE q # <<>>
  <2> DEFINE b == q[Len(q)]
             cutoff == b.pts - w
  <2>1. Len(q) \in 1..Len(q) /\ ToSet(q) = {q[i] : i \in 1..Len(q)}
    BY <1>2, ElementsOfQueue
  <2>2. b \in Packet /\ b \in ToSet(q)
    BY <2>1
  <2>3. w \in Int /\ Micros(c * TicksPerSec) = w
    <3>1. 0 \in Int
      OBVIOUS
    <3> QED BY <3>1, MicrosOfWindow
  <2>4. \A a \in ToSet(q) : a.pts \in Int
    BY PacketTimes
  <2>5. r = EvictBefore(q, cutoff)
    BY <1>2, <2>3 DEF EvictAudio, AudioWindow
  <2> HIDE DEF b, w
  <2>6. cutoff \in Int
    BY <2>2, <2>3, <2>4
  <2> HIDE DEF r, cutoff
  <2>7. /\ r \in Seq(Packet) /\ ToSet(r) \subseteq ToSet(q)
        /\ \A a \in ToSet(q) : a.pts >= cutoff => a \in ToSet(r)
    BY <2>5, <2>6, EvictKeeps
  <2>8. \A a \in ToSet(q) \ ToSet(r) : a.pts < b.pts - w
    <3> SUFFICES ASSUME NEW a \in ToSet(q) \ ToSet(r) PROVE a.pts < cutoff
      BY DEF cutoff
    <3> QED BY <2>4, <2>6, <2>7
  <2> QED BY <2>2, <2>7, <2>8 DEF r, w
<1> QED BY <1>1, <1>2

LEMMA AudioInit == ReplayInit => AInv
<1> SUFFICES ASSUME ReplayInit PROVE AInv
  OBVIOUS
<1>1. IInv
  BY InitInv DEF ReplayInit
<1>2. audio = <<>> /\ heard = {} /\ frames = <<>> /\ max_pts = NoPts
  BY DEF ReplayInit, Init
<1>3. audio \in Seq(Packet) /\ Kept = {}
  BY <1>2 DEF Kept, ToSet
<1> QED BY <1>1, <1>2, <1>3
        DEF AInv, AudioTypeOK, LostLongAgo, SoundLeads, LostBehind

(***************************************************************************)
(* Steps that change neither ring of sound nor what was heard: they must   *)
(* keep the packets that are lost behind what the ring of video holds.     *)
(***************************************************************************)
LEMMA VideoStep ==
  ASSUME AInv, NEW pts \in Pts, NEW key \in BOOLEAN, DrainVideo(pts, key)
  PROVE  AInv'
<1>1. IInv'
  BY PushInv DEF AInv, DrainVideo
<1>2. audio' = audio /\ heard' = heard /\ Kept' = Kept
  BY DEF DrainVideo, Kept
<1>3. AudioTypeOK' /\ LostLongAgo'
  BY <1>2 DEF AInv, AudioTypeOK, LostLongAgo
<1>4. SoundLeads'
  BY <1>2 DEF DrainVideo, SoundLeads, Leads
<1>5. ASSUME NEW t \in heard \ Kept, NEW f \in Held'
      PROVE  t < Micros(f.pts) + AudioLead
  <2>1. /\ max_pts' = Newest(max_pts, pts)
        /\ received' = received \cup {Arrival(pts, key)}
        /\ Held' \subseteq Held \cup {Arrival(pts, key)}
    BY PushHeld DEF AInv, DrainVideo
  <2>2. CASE f \in Held
    BY <2>2 DEF AInv, LostBehind
  <2>3. CASE f = Arrival(pts, key)
    <3>1. PICK u \in heard, c \in Capacities : t < u - c * MicrosPerSec
      BY DEF AInv, LostLongAgo
    <3>2. f.pts = pts /\ pts \in Int /\ max_pts' \in Int
      <4>1. pts \in Int /\ max_pts \in Int
        BY RingInts, PtsAssumption DEF AInv
      <4> QED BY <2>1, <2>3, <4>1 DEF Arrival, Newest
    <3>3. u <= Micros(max_pts') + AudioLead
      BY DEF DrainVideo, Leads
    <3>4. max_pts' - c * TicksPerSec <= pts
      <4>1. Reorder <= c * TicksPerSec /\ c * TicksPerSec \in Int /\ Reorder \in Nat
        BY CapacityTicks
      <4>2. max_pts' - Reorder <= pts
        <5>1. max_pts \in Int
          BY RingInts DEF AInv
        <5>2. CASE max_pts = NoPts
          BY <2>1, <3>2, <4>1, <5>2, PtsAssumption DEF Newest, NoPts
        <5>3. CASE max_pts # NoPts
          <6>1. PICK g \in received : g.pts = max_pts
            BY <5>3 DEF AInv, IInv, Anchor
          <6>2. pts >= max_pts - Reorder
            BY <6>1 DEF DrainVideo, Push, InOrder
          <6> QED BY <2>1, <3>2, <4>1, <5>1, <6>2 DEF Newest
        <5> QED BY <5>2, <5>3
      <4> DEFINE w == c * TicksPerSec
                 n == max_pts'
      <4>3. Reorder <= w /\ w \in Int /\ Reorder \in Int
        BY <4>1
      <4>4. n \in Int /\ pts \in Int /\ n - Reorder <= pts
        BY <3>2, <4>2
      <4> HIDE DEF w, n
      <4>5. n - w <= pts
        BY <4>3, <4>4
      <4> QED BY <4>5 DEF w, n
    <3>5. c * TicksPerSec \in Int /\ max_pts' - c * TicksPerSec \in Int
      BY <3>2, CapacityTicks
    <3>6. Micros(max_pts' - c * TicksPerSec) <= Micros(pts)
      BY <3>2, <3>4, <3>5, MicrosMonotone
    <3>7. /\ c * MicrosPerSec \in Int
          /\ Micros(max_pts') - c * MicrosPerSec <= Micros(max_pts' - c * TicksPerSec)
      BY <3>2, MicrosOfWindow
    <3>8. /\ Micros(max_pts') \in Int /\ Micros(pts) \in Int
          /\ Micros(max_pts' - c * TicksPerSec) \in Int
      BY <3>2, <3>5, MicrosInt
    <3>9. t \in Int /\ u \in Int /\ AudioLead \in Int
      BY HeardAreInts, ReplayAssumption DEF AInv
    <3> QED BY <3>1, <3>2, <3>3, <3>6, <3>7, <3>8, <3>9
  <2> QED BY <2>1, <2>2, <2>3
<1>6. LostBehind'
  BY <1>2, <1>5 DEF LostBehind
<1> QED BY <1>1, <1>3, <1>4, <1>6 DEF AInv

(***************************************************************************)
(* A packet that leaves the ring of sound, because another came or because *)
(* the window was made smaller, lies behind the frames that are held then. *)
(***************************************************************************)
LEMMA LeavesBehind ==
  ASSUME NEW newest \in Int, NEW c \in Capacities, NEW u \in Int, NEW t \in Int,
         NEW f, f.pts \in Int, f.pts >= newest - c * TicksPerSec,
         u <= Micros(newest) + AudioLead, t < u - c * MicrosPerSec
  PROVE  t < Micros(f.pts) + AudioLead
<1>1. c * TicksPerSec \in Int /\ newest - c * TicksPerSec \in Int
  BY CapacityTicks
<1>2. Micros(newest - c * TicksPerSec) <= Micros(f.pts)
  BY <1>1, MicrosMonotone
<1>3. /\ c * MicrosPerSec \in Int
      /\ Micros(newest) - c * MicrosPerSec <= Micros(newest - c * TicksPerSec)
  BY MicrosOfWindow
<1>4. /\ Micros(newest) \in Int /\ Micros(f.pts) \in Int
      /\ Micros(newest - c * TicksPerSec) \in Int
  BY <1>1, MicrosInt
<1> DEFINE mf == Micros(f.pts)
           mn == Micros(newest)
           mw == Micros(newest - c * TicksPerSec)
           w == c * MicrosPerSec
<1>5. /\ mw <= mf /\ mn - w <= mw /\ u <= mn + AudioLead /\ t < u - w
      /\ mf \in Int /\ mn \in Int /\ mw \in Int /\ w \in Int /\ AudioLead \in Int
  BY <1>2, <1>3, <1>4, ReplayAssumption
<1> HIDE DEF mf, mn, mw, w
<1>6. t < mf + AudioLead
  BY <1>5
<1> QED BY <1>6 DEF mf

LEMMA AudioStep ==
  ASSUME AInv, NEW t \in AudioTimes, DrainAudio(t)
  PROVE  AInv'
<1>1. IInv'
  BY StepInv DEF AInv, DrainAudio, ringVars
<1>2. /\ UNCHANGED <<frames, max_pts, capacity_ticks>> /\ Held' = Held
      /\ heard' = heard \cup {t}
      /\ max_pts # NoPts => t <= Micros(max_pts) + AudioLead
  BY DEF DrainAudio, ringVars, vars, Held, Leads
<1> DEFINE a == [pts |-> t]
           q == InsertTsOrdered(audio, a)
<1>3. a \in Packet /\ a.pts = t
  BY DEF Packet
<1>4. q \in Seq(Packet) /\ ToSet(q) = ToSet(audio) \cup {a}
  BY <1>3, InsertElements DEF AInv, AudioTypeOK
<1>5. PICK c \in Capacities : capacity_ticks = c * TicksPerSec
  BY RingInts DEF AInv
<1>6. audio' = EvictAudio(q, c * TicksPerSec)
  BY <1>5 DEF DrainAudio
<1> HIDE DEF q, a
<1>7. /\ audio' \in Seq(Packet)
      /\ ToSet(audio') \subseteq ToSet(q)
      /\ \A x \in ToSet(q) \ ToSet(audio') :
            \E b \in ToSet(q) : x.pts < b.pts - c * MicrosPerSec
  BY <1>4, <1>6, AudioEviction
<1>8. \A b \in ToSet(q) : b.pts \in heard'
  BY <1>2, <1>3, <1>4 DEF AInv, AudioTypeOK, Kept
<1>9. AudioTypeOK'
  BY <1>2, <1>7, <1>8 DEF AInv, AudioTypeOK, Kept
<1>10. ASSUME NEW x \in heard' \ Kept', x \notin heard \ Kept
       PROVE  \E u \in heard' : x < u - c * MicrosPerSec
  <2>1. PICK y \in ToSet(q) : y.pts = x
    BY <1>2, <1>3, <1>4, <1>10 DEF Kept
  <2>2. y \notin ToSet(audio')
    BY <1>10, <2>1 DEF Kept
  <2> QED BY <1>7, <1>8, <2>1, <2>2
<1>11. LostLongAgo'
  BY <1>2, <1>10 DEF AInv, LostLongAgo
<1>12. SoundLeads'
  BY <1>2 DEF AInv, SoundLeads, Leads
<1>13. ASSUME NEW x \in heard' \ Kept', NEW f \in Held'
       PROVE  x < Micros(f.pts) + AudioLead
  <2>1. CASE x \in heard \ Kept
    BY <1>2, <2>1 DEF AInv, LostBehind
  <2>2. CASE x \notin heard \ Kept
    <3>1. PICK u \in heard' : x < u - c * MicrosPerSec
      BY <1>10, <2>2
    <3>2. /\ max_pts \in Int /\ f.pts \in Int
          /\ f.pts >= max_pts - c * TicksPerSec
      BY <1>2, <1>5, RingInts DEF AInv, IInv, SpanBounded
    <3>3. max_pts # NoPts
      BY <1>2, AnchorSeen DEF AInv
    <3>4. u <= Micros(max_pts) + AudioLead
      BY <1>2, <1>12, <3>3 DEF SoundLeads, Leads
    <3>5. x \in Int /\ u \in Int
      BY <1>9, ReplayAssumption DEF AudioTypeOK
    <3> QED BY <3>1, <3>2, <3>4, <3>5, LeavesBehind
  <2> QED BY <2>1, <2>2
<1>14. LostBehind'
  BY <1>13 DEF LostBehind
<1> QED BY <1>1, <1>9, <1>11, <1>12, <1>14 DEF AInv

LEMMA ResizeStep ==
  ASSUME AInv, NEW c \in Capacities, Resize(c)
  PROVE  AInv'
<1>1. IInv'
  BY SetCapacityInv DEF AInv, Resize
<1>2. /\ capacity_ticks' = c * TicksPerSec
      /\ max_pts' = max_pts /\ heard' = heard
      /\ audio' = EvictAudio(audio, c * TicksPerSec)
  BY DEF Resize, SetCapacity
<1>3. Held' = {g \in Held : g.pts >= max_pts - c * TicksPerSec}
  BY <1>2, SetCapacityHeld DEF AInv, Resize
<1>4. /\ audio' \in Seq(Packet)
      /\ ToSet(audio') \subseteq ToSet(audio)
      /\ \A x \in ToSet(audio) \ ToSet(audio') :
            \E b \in ToSet(audio) : x.pts < b.pts - c * MicrosPerSec
  BY <1>2, AudioEviction DEF AInv, AudioTypeOK
<1>5. \A b \in ToSet(audio) : b.pts \in heard
  BY DEF AInv, AudioTypeOK, Kept
<1>6. AudioTypeOK'
  BY <1>2, <1>4, <1>5 DEF AInv, AudioTypeOK, Kept
<1>7. ASSUME NEW x \in heard \ Kept', x \notin heard \ Kept
      PROVE  \E u \in heard : x < u - c * MicrosPerSec
  <2>1. PICK y \in ToSet(audio) : y.pts = x
    BY <1>7 DEF Kept
  <2>2. y \notin ToSet(audio')
    BY <1>7, <2>1 DEF Kept
  <2> QED BY <1>4, <1>5, <2>1, <2>2
<1>8. LostLongAgo'
  BY <1>2, <1>7 DEF AInv, LostLongAgo
<1>9. SoundLeads'
  BY <1>2 DEF AInv, SoundLeads, Leads
<1>10. ASSUME NEW x \in heard \ Kept', NEW f \in Held'
       PROVE  x < Micros(f.pts) + AudioLead
  <2>1. CASE x \in heard \ Kept
    BY <1>3, <2>1 DEF AInv, LostBehind
  <2>2. CASE x \notin heard \ Kept
    <3>1. PICK u \in heard : x < u - c * MicrosPerSec
      BY <1>7, <2>2
    <3>2. /\ max_pts \in Int /\ f \in Held /\ f.pts \in Int
          /\ f.pts >= max_pts - c * TicksPerSec
      BY <1>3, RingInts DEF AInv
    <3>3. max_pts # NoPts
      BY <3>2, AnchorSeen DEF AInv
    <3>4. u <= Micros(max_pts) + AudioLead
      BY <3>3 DEF AInv, SoundLeads, Leads
    <3>5. x \in Int /\ u \in Int
      BY HeardAreInts DEF AInv
    <3> QED BY <3>1, <3>2, <3>4, <3>5, LeavesBehind
  <2> QED BY <2>1, <2>2
<1>11. LostBehind'
  BY <1>2, <1>10 DEF LostBehind
<1> QED BY <1>1, <1>6, <1>8, <1>9, <1>11 DEF AInv

LEMMA AudioInvStep == AInv /\ [ReplayNext]_replayVars => AInv'
<1> SUFFICES ASSUME AInv, [ReplayNext]_replayVars PROVE AInv'
  OBVIOUS
<1>1. CASE \E pts \in Pts, key \in BOOLEAN : DrainVideo(pts, key)
  BY <1>1, VideoStep
<1>2. CASE \E t \in AudioTimes : DrainAudio(t)
  BY <1>2, AudioStep
<1>3. CASE Mark \/ UNCHANGED replayVars
  <2>1. UNCHANGED vars /\ audio' = audio /\ heard' = heard
    BY <1>3 DEF Mark, replayVars, ringVars
  <2>2. IInv'
    BY <2>1, StepInv DEF AInv
  <2>3. Held' = Held /\ Kept' = Kept /\ max_pts' = max_pts
    BY <2>1 DEF Held, Kept, vars
  <2> QED BY <2>1, <2>2, <2>3
          DEF AInv, AudioTypeOK, LostLongAgo, SoundLeads, LostBehind, Leads
<1>4. CASE \E c \in Capacities : Resize(c)
  BY <1>4, ResizeStep
<1>5. CASE ClearReplay
  <2>1. IInv'
    BY <1>5, ClearInv DEF AInv, ClearReplay
  <2>2. audio' = <<>> /\ heard' = {} /\ max_pts' = NoPts
    BY <1>5 DEF ClearReplay, Clear
  <2>3. audio' \in Seq(Packet) /\ Kept' = {}
    BY <2>2 DEF Kept, ToSet
  <2> QED BY <2>1, <2>2, <2>3
          DEF AInv, AudioTypeOK, LostLongAgo, SoundLeads, LostBehind
<1> QED BY <1>1, <1>2, <1>3, <1>4, <1>5 DEF ReplayNext

LEMMA AudioInvariance == ReplaySpec => []AInv
<1> QED BY AudioInit, AudioInvStep, PTL DEF ReplaySpec

-----------------------------------------------------------------------------

(***************************************************************************)
(* clip.rs: a clip is cut from the queue, so it starts on a frame held.    *)
(***************************************************************************)
LEMMA SelectedIsHeld ==
  ASSUME IInv, NEW clip \in ClipsOf(frames)
  PROVE  First(clip) \in Int /\ \E f \in Held : f.pts = First(clip)
<1>1. PICK seconds \in Requests : clip = ClipOf(frames, seconds) /\ clip # <<>>
  BY DEF ClipsOf
<1> DEFINE start == SelectClip(frames, seconds)
<1>2. start # 0 /\ clip = SubSeq(frames, start, Len(frames))
  BY <1>1 DEF ClipOf
<1>3. frames \in Seq(Frame) /\ Len(frames) \in Nat
  BY DEF IInv, TypeOK
<1>4. start \in 0..Len(frames)
  <2> DEFINE window_start == frames[Len(frames)].pts - seconds * TicksPerSec
             I == {i \in 1..Len(frames) :
                      frames[i].key /\ frames[i].pts <= window_start}
             J == {i \in 1..Len(frames) : frames[i].key}
  <2>1. start = IF frames = <<>> THEN 0
                ELSE IF (IF I # {} THEN Max(I) ELSE 0) # 0
                     THEN (IF I # {} THEN Max(I) ELSE 0)
                     ELSE IF J # {} THEN Min(J) ELSE 0
    BY DEF SelectClip, SelectLastInSeq, SelectInSeq
  <2>2. I \in SUBSET (1..Len(frames)) /\ J \in SUBSET (1..Len(frames))
    OBVIOUS
  <2> HIDE DEF I, J, start
  <2>3. I # {} => Max(I) \in I
    <3> SUFFICES ASSUME I # {} PROVE Max(I) \in I
      OBVIOUS
    <3>1. \E m \in I : \A k \in I : m >= k
      BY <1>3, <2>2, HasMax
    <3> QED BY <3>1 DEF Max
  <2>4. J # {} => Min(J) \in J
    <3> SUFFICES ASSUME J # {} PROVE Min(J) \in J
      OBVIOUS
    <3>1. \E m \in J : \A k \in J : m <= k
      BY <1>3, <2>2, HasMin
    <3> QED BY <3>1 DEF Min
  <2> QED BY <1>3, <2>1, <2>2, <2>3, <2>4
<1> HIDE DEF start
<1>5. clip[1] = frames[start] /\ start \in 1..Len(frames)
  BY <1>2, <1>3, <1>4
<1>6. frames[start] \in Held
  BY <1>3, <1>5, ElementsOfQueue DEF Held
<1> QED BY <1>5, <1>6, RingInts DEF First

(***************************************************************************)
(* audio.rs, engine.rs take_clip: a clip has the sound of its span, but    *)
(* for at most the lead at its head, although the ring of sound evicts     *)
(* behind its own newest packet and the ring of video behind its own       *)
(* newest frame, in whatever order both are drained, resized and cleared.  *)
(***************************************************************************)
THEOREM ReplayClipHasSound == ReplaySpec => []ClipHasSound
<1>1. AInv => ClipHasSound
  <2> SUFFICES ASSUME AInv,
                      NEW clip \in ClipsOf(frames), NEW t \in heard,
                      t >= Micros(First(clip)) + AudioLead,
                      t <= Micros(End(clip))
               PROVE  t \in Sound(clip)
    BY DEF ClipHasSound
  <2>1. PICK f \in Held : f.pts = First(clip)
    BY SelectedIsHeld DEF AInv
  <2>2. First(clip) \in Int
    BY SelectedIsHeld DEF AInv
  <2>3. /\ Micros(First(clip)) \in Int /\ AudioLead \in Nat /\ t \in Int
    BY <2>2, MicrosInt, HeardAreInts, ReplayAssumption DEF AInv
  <2>4. t \in Kept
    <3> SUFFICES ASSUME t \notin Kept PROVE FALSE
      OBVIOUS
    <3>1. t < Micros(f.pts) + AudioLead
      BY DEF AInv, LostBehind
    <3> QED BY <2>1, <2>3, <3>1
  <2>5. PICK a \in ToSet(audio) : a.pts = t
    BY <2>4 DEF Kept
  <2>6. t >= Micros(First(clip))
    BY <2>3
  <2> QED BY <2>5, <2>6 DEF Sound
<1> QED BY <1>1, AudioInvariance, PTL

=============================================================================
