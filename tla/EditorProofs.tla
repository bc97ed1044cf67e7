----------------------------- MODULE EditorProofs -----------------------------
(***************************************************************************)
(* What TLAPS proves of the editor: the cut list stays well formed, what is  *)
(* previewed is what is exported, cutting the selection out takes that and   *)
(* no more, and undo and redo walk one line of edits.                        *)
(***************************************************************************)
EXTENDS Editor, FiniteSetTheorems, WellFoundedInduction, TLAPS

\* The well-formed cut lists.
Lists == {s \in Seq(Segment) : CutLists(s)}

-----------------------------------------------------------------------------
(* Sets of numbers.                                                        *)

LEMMA HasLeast ==
  ASSUME NEW S \in SUBSET Nat, S # {}
  PROVE  \E m \in S : \A k \in S : m <= k
<1> DEFINE R == {p \in Nat \X Nat : p[1] < p[2]}
<1>1. IsWellFoundedOn(R, Nat)
  BY NatLessThanWellFounded DEF OpToRel
<1>2. PICK m \in S : \A k \in S : ~(<<k, m>> \in R)
  <2> HIDE DEF R
  <2> QED BY <1>1, WFMin
<1>3. \A k \in S : ~(k < m)
  BY <1>2
<1> QED BY <1>3

LEMMA Bounds ==
  /\ Duration \in Nat /\ Duration > 0 /\ MinSeg \in Nat /\ MinSeg > 0 /\ MinSel \in Nat /\ MinSel > 0
  /\ MinSeg <= Duration /\ MinSel <= Duration
  /\ 0 \in Times /\ Duration \in Times
  /\ \A t \in Times : t \in Nat /\ t <= Duration
  /\ \A t \in Nat : t <= Duration => t \in Times
<1> QED BY CutListAssumption DEF Times

\* A time that is clamped is a time of the clip.
LEMMA Clamps ==
  ASSUME NEW t \in Int
  PROVE  Clamp(t) \in Times /\ (t \in Times => Clamp(t) = t)
<1> QED BY Bounds DEF Clamp, Larger, Smaller, Times

-----------------------------------------------------------------------------
(* The pieces of a cut list.                                               *)

LEMMA SegmentFields ==
  ASSUME NEW p \in Segment
  PROVE  /\ p.start \in Nat /\ p.end \in Nat /\ p.start <= Duration /\ p.end <= Duration
         /\ p.start \in Times /\ p.end \in Times /\ p.enabled \in BOOLEAN
<1>1. p.start \in Times /\ p.end \in Times
  BY DEF Segment
<1>2. p.enabled \in BOOLEAN
  BY Zenon DEF Segment
<1> QED BY <1>1, <1>2, Bounds

LEMMA MovedSegment ==
  ASSUME NEW p \in Segment, NEW t \in Times
  PROVE  /\ [p EXCEPT !.end = t] \in Segment /\ [p EXCEPT !.start = t] \in Segment
         /\ [p EXCEPT !.end = t].end = t /\ [p EXCEPT !.end = t].start = p.start
         /\ [p EXCEPT !.end = t].enabled = p.enabled
         /\ [p EXCEPT !.start = t].end = p.end /\ [p EXCEPT !.start = t].start = t
         /\ [p EXCEPT !.start = t].enabled = p.enabled
<1>1. [p EXCEPT !.end = t] \in Segment /\ [p EXCEPT !.start = t] \in Segment
  BY Zenon DEF Segment
<1> QED BY <1>1 DEF Segment

LEMMA SwitchedSegment ==
  ASSUME NEW p \in Segment, NEW on \in BOOLEAN
  PROVE  /\ [p EXCEPT !.enabled = on] \in Segment
         /\ [p EXCEPT !.enabled = on].end = p.end /\ [p EXCEPT !.enabled = on].start = p.start
         /\ [p EXCEPT !.enabled = on].enabled = on
<1>1. [p EXCEPT !.enabled = on] \in Segment
  BY Zenon DEF Segment
<1> QED BY <1>1 DEF Segment

\* What a well-formed list is, piece by piece.
LEMMA Pieces ==
  ASSUME NEW s \in Lists
  PROVE  /\ s \in Seq(Segment) /\ Len(s) \in Nat /\ Len(s) >= 1 /\ DOMAIN s = 1..Len(s) /\ s # <<>>
         /\ s[1].start = 0 /\ s[Len(s)].end = Duration
         /\ \A i \in 1..Len(s) :
              /\ s[i] \in Segment /\ s[i].start \in Nat /\ s[i].end \in Nat
              /\ s[i].start <= Duration /\ s[i].end <= Duration /\ s[i].end - s[i].start >= MinSeg
         /\ \A i \in 2..Len(s) : s[i].start = s[i - 1].end /\ i - 1 \in 1..Len(s)
<1>1. s \in Seq(Segment) /\ CutLists(s)
  BY DEF Lists
<1>2. Len(s) \in Nat /\ DOMAIN s = 1..Len(s) /\ s # <<>>
  BY <1>1 DEF CutLists
<1>3. Len(s) >= 1
  BY <1>1, <1>2
<1>4. \A i \in 1..Len(s) : s[i] \in Segment /\ s[i].end - s[i].start >= MinSeg
  BY <1>1, <1>2 DEF CutLists
<1>5. \A i \in 2..Len(s) : s[i].start = s[i - 1].end /\ i - 1 \in 1..Len(s)
  BY <1>1, <1>2 DEF CutLists, Cuts
<1>6. s[1].start = 0 /\ s[Len(s)].end = Duration
  BY <1>1 DEF CutLists
<1> QED BY <1>1, <1>2, <1>3, <1>4, <1>5, <1>6, SegmentFields

LEMMA IsList ==
  ASSUME NEW s \in Seq(Segment), Len(s) >= 1, s[1].start = 0, s[Len(s)].end = Duration,
         \A i \in 1..Len(s) : s[i].end - s[i].start >= MinSeg,
         \A i \in 2..Len(s) : s[i].start = s[i - 1].end
  PROVE  s \in Lists
<1>1. DOMAIN s = 1..Len(s) /\ s # <<>>
  OBVIOUS
<1>2. \A i \in 1..Len(s) : s[i] \in Segment
  OBVIOUS
<1> QED BY <1>1, <1>2 DEF Lists, CutLists, Cuts

\* A piece ends before the later ones begin.
LEMMA InOrder ==
  ASSUME NEW s \in Lists, NEW i \in 1..Len(s), NEW j \in 1..Len(s), i < j
  PROVE  s[i].end <= s[j].start
<1> DEFINE S == {k \in Nat : k \in 1..Len(s) /\ i < k /\ ~(s[i].end <= s[k].start)}
<1>1. Len(s) \in Nat
  BY Pieces
<1>2. SUFFICES ASSUME S # {} PROVE FALSE
  BY <1>1
<1>3. PICK m \in S : \A k \in S : m <= k
  <2>1. S \in SUBSET Nat
    OBVIOUS
  <2> HIDE DEF S
  <2> QED BY <1>2, <2>1, HasLeast
<1>4. m \in 2..Len(s) /\ m - 1 \in 1..Len(s) /\ m \in 1..Len(s)
  BY <1>1, <1>3
<1>5. s[m].start = s[m - 1].end
  BY <1>4, Pieces
<1>6. s[i].end <= s[m - 1].end
  <2>1. CASE m - 1 = i
    BY <2>1, Pieces
  <2>2. CASE m - 1 # i
    <3>1. ~(m - 1 \in S)
      BY <1>3, <1>4
    <3>2. m - 1 \in Nat /\ i < m - 1
      BY <1>1, <1>3, <1>4, <2>2
    <3>3. s[i].end <= s[m - 1].start
      BY <1>4, <3>1, <3>2
    <3>4. s[m - 1].end - s[m - 1].start >= MinSeg /\ s[m - 1].end \in Nat /\ s[m - 1].start \in Nat
      BY <1>4, Pieces
    <3>5. s[i].end \in Nat
      BY Pieces
    <3> QED BY <3>3, <3>4, <3>5, Bounds
  <2> QED BY <2>1, <2>2
<1> QED BY <1>3, <1>5, <1>6

\* A piece and the one a time belongs to.
LEMMA Indexed ==
  ASSUME NEW s \in Lists, NEW t \in Times
  PROVE  /\ IndexAt(s, t) \in 1..Len(s)
         /\ s[IndexAt(s, t)].start <= t /\ t <= s[IndexAt(s, t)].end
         /\ t < Duration => t < s[IndexAt(s, t)].end
         /\ \A j \in 1..Len(s) : j < IndexAt(s, t) => s[j].end <= t
<1>1. /\ s \in Seq(Segment) /\ Len(s) \in Nat /\ Len(s) >= 1 /\ DOMAIN s = 1..Len(s)
      /\ s[1].start = 0 /\ s[Len(s)].end = Duration /\ t \in Nat /\ t <= Duration /\ Duration \in Nat
      /\ \A i \in 1..Len(s) : s[i].start \in Nat /\ s[i].end \in Nat /\ s[i].end <= Duration
                             /\ s[i].end - s[i].start >= MinSeg
      /\ \A i \in 2..Len(s) : s[i].start = s[i - 1].end /\ i - 1 \in 1..Len(s)
      /\ MinSeg \in Nat
  BY Pieces, Bounds
<1> DEFINE S == {i \in 1..Len(s) : t < s[i].end}
           x == IndexAt(s, t)
<1>2. CASE S # {}
  <2>1. PICK m \in S : \A k \in S : m <= k
    <3>1. S \in SUBSET Nat
      BY <1>1
    <3> HIDE DEF S
    <3> QED BY <1>2, <3>1, HasLeast
  <2>2. m \in DOMAIN s /\ t < s[m].end /\ \A j \in 1..(m - 1) : t >= s[j].end
    <3>1. \A j \in 1..(m - 1) : j \in 1..Len(s) /\ ~(j \in S)
      BY <1>1, <2>1
    <3> QED BY <1>1, <2>1, <3>1
  <2>3. x \in DOMAIN s /\ t < s[x].end /\ \A j \in 1..(x - 1) : t >= s[j].end
    BY <2>2 DEF IndexAt
  <2> HIDE DEF x
  <2>4. s[x].start <= t
    <3>1. CASE x = 1
      BY <1>1, <3>1
    <3>2. CASE x # 1
      <4>1. x \in 2..Len(s) /\ x - 1 \in 1..(x - 1)
        BY <1>1, <2>3, <3>2
      <4> QED BY <1>1, <2>3, <4>1
    <3> QED BY <3>1, <3>2
  <2>5. \A j \in 1..Len(s) : j < x => s[j].end <= t
    BY <1>1, <2>3
  <2>6. t <= s[x].end
    BY <1>1, <2>3
  <2> QED BY <1>1, <2>3, <2>4, <2>5, <2>6 DEF x
<1>3. CASE S = {}
  <2>1. x = Len(s)
    <3>1. ~(\E i \in DOMAIN s : t < s[i].end)
      BY <1>1, <1>3
    <3> HIDE DEF S
    <3> QED BY <3>1 DEF IndexAt
  <2>2. \A j \in 1..Len(s) : s[j].end <= t
    <3> SUFFICES ASSUME NEW j \in 1..Len(s)
                 PROVE  s[j].end <= t
      OBVIOUS
    <3>1. ~(t < s[j].end)
      BY <1>3
    <3>2. s[j].end \in Nat /\ t \in Nat
      BY <1>1
    <3> QED BY <3>1, <3>2
  <2>3. t = Duration
    BY <1>1, <2>2
  <2>4. s[Len(s)].start <= t
    BY <1>1, <2>3
  <2> HIDE DEF x
  <2>5. x \in 1..Len(s) /\ s[x].start <= t /\ t <= s[x].end
    BY <1>1, <2>1, <2>3, <2>4
  <2> QED BY <1>1, <2>2, <2>3, <2>5 DEF x
<1> QED BY <1>2, <1>3

\* The ticks a cut list keeps are those of its enabled pieces.
LEMMA Kepts ==
  ASSUME NEW s \in Lists
  PROVE  \A k : k \in KeptTicks(s) <=>
           \E i \in 1..Len(s) : s[i].enabled /\ k \in s[i].start..(s[i].end - 1)
<1>1. DOMAIN s = 1..Len(s)
  BY Pieces
<1> QED BY <1>1 DEF KeptTicks

LEMMA KeptInClip ==
  ASSUME NEW s \in Lists
  PROVE  KeptTicks(s) \in SUBSET (0..(Duration - 1))
<1> SUFFICES ASSUME NEW k \in KeptTicks(s)
             PROVE  k \in 0..(Duration - 1)
  OBVIOUS
<1>1. PICK i \in 1..Len(s) : k \in s[i].start..(s[i].end - 1)
  BY Kepts
<1>2. s[i].start \in Nat /\ s[i].end \in Nat /\ s[i].end <= Duration
  BY Pieces
<1> QED BY <1>1, <1>2, Bounds

-----------------------------------------------------------------------------
(* Splitting.                                                              *)

LEMMA Concats ==
  ASSUME NEW S, NEW x \in Seq(S), NEW y \in Seq(S)
  PROVE  /\ x \o y \in Seq(S) /\ Len(x \o y) = Len(x) + Len(y)
         /\ \A j \in 1..(Len(x) + Len(y)) : (x \o y)[j] = IF j <= Len(x) THEN x[j] ELSE y[j - Len(x)]
<1> QED OBVIOUS

\* What a list becomes when a piece is put into it, and when one is taken out.
LEMMA Inserts ==
  ASSUME NEW S, NEW s \in Seq(S), NEW e \in S, NEW i \in 1..(Len(s) + 1)
  PROVE  /\ InsertAt(s, i, e) \in Seq(S) /\ Len(InsertAt(s, i, e)) = Len(s) + 1
         /\ \A j \in 1..(Len(s) + 1) :
              InsertAt(s, i, e)[j] = IF j < i THEN s[j] ELSE IF j = i THEN e ELSE s[j - 1]
<1> DEFINE a == SubSeq(s, 1, i - 1)
           b == SubSeq(s, i, Len(s))
           c == a \o <<e>>
<1>1. a \in Seq(S) /\ Len(a) = i - 1 /\ \A j \in 1..(i - 1) : a[j] = s[j]
  OBVIOUS
<1>2. b \in Seq(S) /\ Len(b) = Len(s) + 1 - i /\ \A j \in 1..(Len(s) + 1 - i) : b[j] = s[i + j - 1]
  OBVIOUS
<1> HIDE DEF a, b
<1>3. c \in Seq(S) /\ Len(c) = i /\ \A j \in 1..i : c[j] = IF j < i THEN s[j] ELSE e
  BY <1>1
<1> HIDE DEF c
<1>4. /\ c \o b \in Seq(S) /\ Len(c \o b) = Len(s) + 1
      /\ \A j \in 1..(Len(s) + 1) : (c \o b)[j] = IF j <= i THEN c[j] ELSE b[j - i]
  <2>1. i + (Len(s) + 1 - i) = Len(s) + 1
    OBVIOUS
  <2> QED BY <1>2, <1>3, <2>1, Concats
<1>5. InsertAt(s, i, e) = c \o b
  BY DEF InsertAt, a, b, c
<1> DEFINE r == InsertAt(s, i, e)
<1> HIDE DEF r
<1>6. ASSUME NEW j \in 1..(Len(s) + 1)
      PROVE  r[j] = IF j < i THEN s[j] ELSE IF j = i THEN e ELSE s[j - 1]
  <2>1. r[j] = IF j <= i THEN c[j] ELSE b[j - i]
    BY <1>4, <1>5 DEF r
  <2>2. CASE j <= i
    BY <1>3, <2>1, <2>2
  <2>3. CASE j > i
    <3>1. j - i \in 1..(Len(s) + 1 - i) /\ i + (j - i) - 1 = j - 1
      BY <2>3
    <3>2. b[j - i] = s[i + (j - i) - 1]
      BY <1>2, <3>1
    <3> QED BY <2>1, <2>3, <3>1, <3>2
  <2> QED BY <2>2, <2>3
<1> QED BY <1>4, <1>5, <1>6 DEF r

LEMMA InsertsAfter ==
  ASSUME NEW S, NEW s \in Seq(S), NEW e \in S, NEW x \in 1..Len(s)
  PROVE  /\ InsertAt(s, x + 1, e) \in Seq(S) /\ Len(InsertAt(s, x + 1, e)) = Len(s) + 1
         /\ \A j \in 1..(Len(s) + 1) :
              InsertAt(s, x + 1, e)[j] = IF j <= x THEN s[j] ELSE IF j = x + 1 THEN e ELSE s[j - 1]
<1> DEFINE k == x + 1
           r == InsertAt(s, k, e)
<1>1. k \in 1..(Len(s) + 1)
  OBVIOUS
<1> HIDE DEF k
<1>2. /\ r \in Seq(S) /\ Len(r) = Len(s) + 1
      /\ \A j \in 1..(Len(s) + 1) : r[j] = IF j < k THEN s[j] ELSE IF j = k THEN e ELSE s[j - 1]
  BY <1>1, Inserts
<1> HIDE DEF r
<1>3. \A j \in 1..(Len(s) + 1) : r[j] = IF j <= x THEN s[j] ELSE IF j = x + 1 THEN e ELSE s[j - 1]
  BY <1>2 DEF k
<1>4. r \in Seq(S) /\ Len(r) = Len(s) + 1
  BY <1>2
<1> QED BY <1>3, <1>4 DEF r, k

LEMMA Removes ==
  ASSUME NEW S, NEW s \in Seq(S), NEW i \in 1..Len(s)
  PROVE  /\ RemoveAt(s, i) \in Seq(S) /\ Len(RemoveAt(s, i)) = Len(s) - 1
         /\ \A j \in 1..(Len(s) - 1) : RemoveAt(s, i)[j] = IF j < i THEN s[j] ELSE s[j + 1]
<1> DEFINE a == SubSeq(s, 1, i - 1)
           b == SubSeq(s, i + 1, Len(s))
           r == RemoveAt(s, i)
<1>1. a \in Seq(S) /\ Len(a) = i - 1 /\ \A j \in 1..(i - 1) : a[j] = s[j]
  OBVIOUS
<1>2. b \in Seq(S) /\ Len(b) = Len(s) - i /\ \A j \in 1..(Len(s) - i) : b[j] = s[i + j]
  OBVIOUS
<1>3. r = a \o b
  BY DEF RemoveAt
<1> HIDE DEF a, b, r
<1>4. /\ r \in Seq(S) /\ Len(r) = Len(s) - 1
      /\ \A j \in 1..(Len(s) - 1) : r[j] = IF j <= i - 1 THEN a[j] ELSE b[j - (i - 1)]
  <2>1. (i - 1) + (Len(s) - i) = Len(s) - 1
    OBVIOUS
  <2>2. /\ a \o b \in Seq(S) /\ Len(a \o b) = Len(a) + Len(b)
        /\ \A j \in 1..(Len(a) + Len(b)) : (a \o b)[j] = IF j <= Len(a) THEN a[j] ELSE b[j - Len(a)]
    BY <1>1, <1>2, Concats
  <2>3. Len(a) = i - 1 /\ Len(a) + Len(b) = Len(s) - 1
    BY <1>1, <1>2, <2>1
  <2> QED BY <1>3, <2>2, <2>3
<1>5. ASSUME NEW j \in 1..(Len(s) - 1)
      PROVE  r[j] = IF j < i THEN s[j] ELSE s[j + 1]
  <2>1. CASE j < i
    BY <1>1, <1>4, <2>1
  <2>2. CASE j >= i
    <3>1. j - (i - 1) \in 1..(Len(s) - i) /\ i + (j - (i - 1)) = j + 1
      BY <2>2
    <3>2. b[j - (i - 1)] = s[i + (j - (i - 1))]
      BY <1>2, <3>1
    <3> QED BY <1>4, <2>2, <3>1, <3>2
  <2> QED BY <2>1, <2>2
<1> QED BY <1>4, <1>5 DEF r

\* A list r that is s with piece x divided at t.
Divided(s, r, x, t) ==
  /\ r \in Seq(Segment) /\ Len(r) = Len(s) + 1
  /\ \A j \in 1..Len(r) :
       /\ r[j].start = IF j <= x THEN s[j].start ELSE IF j = x + 1 THEN t ELSE s[j - 1].start
       /\ r[j].end = IF j < x THEN s[j].end ELSE IF j = x THEN t ELSE s[j - 1].end
       /\ r[j].enabled = IF j <= x THEN s[j].enabled ELSE s[j - 1].enabled

LEMMA Splits ==
  ASSUME NEW s \in Lists, NEW t \in Times
  PROVE  \/ /\ SplitAt(s, t) = s
            /\ \/ t - s[IndexAt(s, t)].start < MinSeg
               \/ s[IndexAt(s, t)].end - t < MinSeg
         \/ /\ Divided(s, SplitAt(s, t), IndexAt(s, t), t)
            /\ t - s[IndexAt(s, t)].start >= MinSeg /\ s[IndexAt(s, t)].end - t >= MinSeg
<1> DEFINE x == IndexAt(s, t)
           u == [s EXCEPT ![x].end = t]
           e == [s[x] EXCEPT !.start = t]
           r == InsertAt(u, x + 1, e)
<1>1. x \in 1..Len(s) /\ s \in Seq(Segment) /\ Len(s) \in Nat /\ DOMAIN s = 1..Len(s) /\ s[x] \in Segment
      /\ s[x].start \in Nat /\ s[x].end \in Nat /\ t \in Nat /\ MinSeg \in Nat
  BY Indexed, Pieces, Bounds
<1>2. SplitAt(s, t) = IF t - s[x].start < MinSeg \/ s[x].end - t < MinSeg THEN s ELSE r
  BY DEF SplitAt
<1>3. e \in Segment /\ e.start = t /\ e.end = s[x].end /\ e.enabled = s[x].enabled
  BY <1>1, MovedSegment
<1> DEFINE d == [s[x] EXCEPT !.end = t]
<1>4. d \in Segment /\ d.start = s[x].start /\ d.end = t /\ d.enabled = s[x].enabled
  BY <1>1, MovedSegment
<1>5. u = [s EXCEPT ![x] = d]
  BY <1>1
<1> HIDE DEF x, e, d
<1>6. u \in Seq(Segment) /\ Len(u) = Len(s) /\ \A j \in 1..Len(s) : u[j] = IF j = x THEN d ELSE s[j]
  BY <1>1, <1>4, <1>5
<1> HIDE DEF u
<1>7. /\ r \in Seq(Segment) /\ Len(r) = Len(s) + 1
      /\ \A j \in 1..(Len(s) + 1) : r[j] = IF j <= x THEN u[j] ELSE IF j = x + 1 THEN e ELSE u[j - 1]
  <2>1. u \in Seq(Segment) /\ e \in Segment /\ x \in 1..Len(u) /\ Len(u) = Len(s)
    BY <1>1, <1>3, <1>6
  <2> HIDE DEF r
  <2>2. /\ InsertAt(u, x + 1, e) \in Seq(Segment) /\ Len(InsertAt(u, x + 1, e)) = Len(u) + 1
        /\ \A j \in 1..(Len(u) + 1) :
             InsertAt(u, x + 1, e)[j] = IF j <= x THEN u[j] ELSE IF j = x + 1 THEN e ELSE u[j - 1]
    BY <2>1, InsertsAfter
  <2> QED BY <2>1, <2>2 DEF r
<1> HIDE DEF r
<1>8. Divided(s, r, x, t)
  <2> SUFFICES ASSUME NEW j \in 1..Len(r)
               PROVE  /\ r[j].start = IF j <= x THEN s[j].start ELSE IF j = x + 1 THEN t ELSE s[j - 1].start
                      /\ r[j].end = IF j < x THEN s[j].end ELSE IF j = x THEN t ELSE s[j - 1].end
                      /\ r[j].enabled = IF j <= x THEN s[j].enabled ELSE s[j - 1].enabled
    BY <1>7 DEF Divided
  <2>1. CASE j < x
    <3>1. r[j] = s[j]
      <4>1. j \in 1..Len(s) /\ j \in 1..(Len(s) + 1) /\ j <= x /\ j # x
        BY <1>1, <1>7, <2>1
      <4>2. r[j] = u[j]
        BY <1>7, <4>1
      <4>3. u[j] = s[j]
        BY <1>6, <4>1
      <4> QED BY <4>2, <4>3
    <3> QED BY <1>1, <1>7, <2>1, <3>1
  <2>2. CASE j = x
    <3>1. r[j] = d
      BY <1>1, <1>6, <1>7, <2>2
    <3> QED BY <1>1, <1>4, <2>2, <3>1
  <2>3. CASE j = x + 1
    <3>1. r[j] = e /\ j - 1 = x
      BY <1>1, <1>7, <2>3
    <3> QED BY <1>1, <1>3, <2>3, <3>1
  <2>4. CASE j > x + 1
    <3>1. r[j] = s[j - 1] /\ ~(j <= x) /\ j # x + 1 /\ ~(j < x) /\ j # x
      <4>1. j - 1 \in 1..Len(s) /\ j \in 1..(Len(s) + 1) /\ ~(j <= x) /\ j # x + 1 /\ j - 1 # x
            /\ ~(j < x) /\ j # x
        BY <1>1, <1>7, <2>4
      <4>2. r[j] = u[j - 1]
        BY <1>7, <4>1
      <4>3. u[j - 1] = s[j - 1]
        BY <1>6, <4>1
      <4> QED BY <4>1, <4>2, <4>3
    <3> QED BY <3>1
  <2> QED BY <1>1, <1>7, <2>1, <2>2, <2>3, <2>4
<1> QED BY <1>1, <1>2, <1>8 DEF x

\* Every piece of r lies within one of s that is kept as it is.
Refines(r, s) ==
  \A j \in 1..Len(r) : \E i \in 1..Len(s) :
    r[j].start >= s[i].start /\ r[j].end <= s[i].end /\ r[j].enabled = s[i].enabled

\* No piece has room for a cut at t.
NoRoom(s, t) == \A i \in 1..Len(s) : t - s[i].start < MinSeg \/ s[i].end - t < MinSeg

\* A division with room on both sides is a cut list of smaller pieces.
LEMMA DivisionIsList ==
  ASSUME NEW s \in Lists, NEW t \in Times, NEW x \in 1..Len(s), NEW r, Divided(s, r, x, t),
         t - s[x].start >= MinSeg, s[x].end - t >= MinSeg
  PROVE  r \in Lists
<1>1. /\ Len(s) \in Nat /\ Len(s) >= 1 /\ s[1].start = 0 /\ s[Len(s)].end = Duration
      /\ \A i \in 1..Len(s) : s[i].start \in Nat /\ s[i].end \in Nat /\ s[i].end - s[i].start >= MinSeg
      /\ \A i \in 2..Len(s) : s[i].start = s[i - 1].end
      /\ t \in Nat /\ MinSeg \in Nat
  BY Pieces, Bounds
<1>2. r \in Seq(Segment) /\ Len(r) = Len(s) + 1
  BY DEF Divided
<1>3. ASSUME NEW j \in 1..Len(r)
      PROVE  /\ r[j].start = IF j <= x THEN s[j].start ELSE IF j = x + 1 THEN t ELSE s[j - 1].start
             /\ r[j].end = IF j < x THEN s[j].end ELSE IF j = x THEN t ELSE s[j - 1].end
  BY DEF Divided
<1>4. r[1].start = 0
  BY <1>1, <1>2, <1>3
<1>5. r[Len(r)].end = Duration
  <2>1. Len(r) \in 1..Len(r) /\ ~(Len(r) < x) /\ Len(r) # x /\ Len(r) - 1 = Len(s)
    BY <1>1, <1>2
  <2>2. r[Len(r)].end = s[Len(r) - 1].end
    BY <1>3, <2>1
  <2> QED BY <1>1, <2>1, <2>2
<1>6. ASSUME NEW j \in 1..Len(r)
      PROVE  r[j].end - r[j].start >= MinSeg
  <2>1. CASE j < x
    <3>1. j \in 1..Len(s) /\ j <= x
      BY <1>1, <1>2, <2>1
    <3>2. r[j].start = s[j].start /\ r[j].end = s[j].end
      BY <1>3, <2>1, <3>1
    <3> QED BY <1>1, <3>1, <3>2
  <2>2. CASE j = x
    <3>1. j <= x /\ ~(j < x)
      BY <2>2
    <3>2. r[j].start = s[x].start /\ r[j].end = t
      BY <1>3, <2>2, <3>1
    <3> QED BY <3>2
  <2>3. CASE j = x + 1
    <3>1. j - 1 = x /\ ~(j <= x) /\ ~(j < x) /\ j # x
      BY <2>3
    <3>2. r[j].start = t /\ r[j].end = s[j - 1].end
      BY <1>3, <2>3, <3>1
    <3>3. r[j].end = s[x].end
      BY <3>1, <3>2
    <3> QED BY <3>2, <3>3
  <2>4. CASE j > x + 1
    <3> DEFINE i == j - 1
    <3>1. i \in 1..Len(s) /\ ~(j <= x) /\ j # x + 1 /\ ~(j < x) /\ j # x
      BY <1>1, <1>2, <2>4
    <3>2. r[j].start = s[i].start /\ r[j].end = s[i].end
      BY <1>3, <3>1
    <3> HIDE DEF i
    <3> QED BY <1>1, <3>1, <3>2
  <2> QED BY <1>1, <1>2, <2>1, <2>2, <2>3, <2>4
<1>7. ASSUME NEW j \in 2..Len(r)
      PROVE  r[j].start = r[j - 1].end
  <2>1. j \in 1..Len(r) /\ j - 1 \in 1..Len(r)
    BY <1>1, <1>2
  <2> DEFINE h == j - 1
  <2>2. h \in 1..Len(r) /\ j = h + 1
    BY <2>1, <1>2
  <2>3. r[h].end = IF h < x THEN s[h].end ELSE IF h = x THEN t ELSE s[h - 1].end
    BY <1>3, <2>2
  <2>4. r[j].start = IF j <= x THEN s[j].start ELSE IF j = x + 1 THEN t ELSE s[h].start
    BY <1>3, <2>1
  <2> SUFFICES r[j].start = r[h].end
    OBVIOUS
  <2> HIDE DEF h
  <2>5. CASE j <= x
    <3>1. j \in 2..Len(s) /\ j - 1 = h /\ h < x
      BY <1>1, <2>2, <2>5
    <3> QED BY <1>1, <2>3, <2>4, <2>5, <3>1
  <2>6. CASE j = x + 1
    BY <2>2, <2>3, <2>4, <2>6
  <2>7. CASE j > x + 1
    <3>1. h \in 2..Len(s) /\ ~(h < x) /\ h # x /\ ~(j <= x) /\ j # x + 1
      BY <1>1, <1>2, <2>2, <2>7
    <3>2. s[h].start = s[h - 1].end
      BY <1>1, <3>1
    <3>3. r[h].end = s[h - 1].end
      BY <2>3, <3>1
    <3>4. r[j].start = s[h].start
      BY <2>4, <3>1
    <3> QED BY <3>2, <3>3, <3>4
  <2>8. j <= x \/ j = x + 1 \/ j > x + 1
    BY <1>1, <1>2
  <2> QED BY <2>5, <2>6, <2>7, <2>8
<1>8. Len(r) >= 1
  BY <1>1, <1>2
<1>9. \A j \in 1..Len(r) : r[j].end - r[j].start >= MinSeg
  BY <1>6
<1>10. \A j \in 2..Len(r) : r[j].start = r[j - 1].end
  BY <1>7
<1> QED BY <1>2, <1>4, <1>5, <1>8, <1>9, <1>10, IsList

LEMMA DivisionRefines ==
  ASSUME NEW s \in Lists, NEW t \in Times, NEW x \in 1..Len(s), NEW r, Divided(s, r, x, t),
         t - s[x].start >= MinSeg, s[x].end - t >= MinSeg
  PROVE  Refines(r, s)
<1>1. /\ Len(s) \in Nat /\ t \in Nat /\ MinSeg \in Nat
      /\ \A i \in 1..Len(s) : s[i].start \in Nat /\ s[i].end \in Nat
  BY Pieces, Bounds
<1>2. Len(r) = Len(s) + 1
  BY DEF Divided
<1> SUFFICES ASSUME NEW j \in 1..Len(r)
             PROVE  \E i \in 1..Len(s) : /\ r[j].start >= s[i].start /\ r[j].end <= s[i].end
                                         /\ r[j].enabled = s[i].enabled
  BY DEF Refines
<1>3. /\ r[j].start = IF j <= x THEN s[j].start ELSE IF j = x + 1 THEN t ELSE s[j - 1].start
      /\ r[j].end = IF j < x THEN s[j].end ELSE IF j = x THEN t ELSE s[j - 1].end
      /\ r[j].enabled = IF j <= x THEN s[j].enabled ELSE s[j - 1].enabled
  BY DEF Divided
<1>4. CASE j < x
  <2>1. j \in 1..Len(s) /\ j <= x
    BY <1>1, <1>2, <1>4
  <2>2. r[j].start = s[j].start /\ r[j].end = s[j].end /\ r[j].enabled = s[j].enabled
    BY <1>3, <1>4, <2>1
  <2>3. s[j].start \in Nat /\ s[j].end \in Nat
    BY <1>1, <2>1
  <2>4. r[j].start >= s[j].start /\ r[j].end <= s[j].end
    BY <2>2, <2>3
  <2> QED BY <2>1, <2>2, <2>4
<1>5. CASE j = x
  BY <1>1, <1>3, <1>5
<1>6. CASE j = x + 1
  <2>1. j - 1 = x /\ ~(j <= x) /\ ~(j < x) /\ j # x
    BY <1>1, <1>6
  <2>2. r[j].start = t /\ r[j].end = s[x].end /\ r[j].enabled = s[x].enabled
    BY <1>3, <1>6, <2>1
  <2> QED BY <1>1, <2>2
<1>7. CASE j > x + 1
  <2> DEFINE i == j - 1
  <2>1. i \in 1..Len(s) /\ ~(j <= x) /\ j # x + 1 /\ ~(j < x) /\ j # x
    BY <1>1, <1>2, <1>7
  <2>2. r[j].start = s[i].start /\ r[j].end = s[i].end /\ r[j].enabled = s[i].enabled
    BY <1>3, <2>1
  <2> HIDE DEF i
  <2>3. s[i].start \in Nat /\ s[i].end \in Nat
    BY <1>1, <2>1
  <2>4. r[j].start >= s[i].start /\ r[j].end <= s[i].end
    BY <2>2, <2>3
  <2> QED BY <2>1, <2>2, <2>4
<1> QED BY <1>1, <1>2, <1>4, <1>5, <1>6, <1>7

\* Lists within one another keep no more.
LEMMA RefinesKeeps ==
  ASSUME NEW s \in Lists, NEW r \in Lists, Refines(r, s)
  PROVE  KeptTicks(r) \subseteq KeptTicks(s)
<1> SUFFICES ASSUME NEW k \in KeptTicks(r)
             PROVE  k \in KeptTicks(s)
  OBVIOUS
<1>1. PICK j \in 1..Len(r) : r[j].enabled /\ k \in r[j].start..(r[j].end - 1)
  BY Kepts
<1>2. PICK i \in 1..Len(s) : r[j].start >= s[i].start /\ r[j].end <= s[i].end /\ r[j].enabled = s[i].enabled
  BY DEF Refines
<1>3. r[j].start \in Nat /\ r[j].end \in Nat /\ s[i].start \in Nat /\ s[i].end \in Nat
  BY Pieces
<1>4. k \in Int /\ r[j].start <= k /\ k <= r[j].end - 1
  BY <1>1, <1>3
<1>5. s[i].start <= k /\ k <= s[i].end - 1
  BY <1>2, <1>3, <1>4
<1>6. k \in s[i].start..(s[i].end - 1)
  BY <1>3, <1>4, <1>5
<1>7. s[i].enabled
  BY <1>1, <1>2
<1> QED BY <1>6, <1>7, Kepts

LEMMA DivisionKeeps ==
  ASSUME NEW s \in Lists, NEW t \in Times, NEW x \in 1..Len(s), NEW r \in Lists, Divided(s, r, x, t),
         t - s[x].start >= MinSeg, s[x].end - t >= MinSeg
  PROVE  KeptTicks(r) = KeptTicks(s)
<1>1. /\ Len(s) \in Nat /\ t \in Nat /\ MinSeg \in Nat
      /\ \A i \in 1..Len(s) : s[i].start \in Nat /\ s[i].end \in Nat
  BY Pieces, Bounds
<1>2. Len(r) = Len(s) + 1
  BY DEF Divided
<1>3. KeptTicks(r) \subseteq KeptTicks(s)
  BY DivisionRefines, RefinesKeeps
<1>4. ASSUME NEW k \in KeptTicks(s)
      PROVE  k \in KeptTicks(r)
  <2>1. PICK i \in 1..Len(s) : s[i].enabled /\ k \in s[i].start..(s[i].end - 1)
    BY Kepts
  <2>2. ASSUME NEW j \in 1..Len(r)
        PROVE  /\ r[j].start = IF j <= x THEN s[j].start ELSE IF j = x + 1 THEN t ELSE s[j - 1].start
               /\ r[j].end = IF j < x THEN s[j].end ELSE IF j = x THEN t ELSE s[j - 1].end
               /\ r[j].enabled = IF j <= x THEN s[j].enabled ELSE s[j - 1].enabled
    BY DEF Divided
  <2>3. \E j \in 1..Len(r) : r[j].enabled /\ k \in r[j].start..(r[j].end - 1)
    <3>1. CASE i < x
      <4>1. i \in 1..Len(r) /\ i <= x
        BY <1>1, <1>2, <3>1
      <4>2. r[i].start = s[i].start /\ r[i].end = s[i].end /\ r[i].enabled = s[i].enabled
        BY <2>2, <3>1, <4>1
      <4> QED BY <2>1, <4>1, <4>2
    <3>2. CASE i = x /\ k < t
      <4>1. x \in 1..Len(r)
        BY <1>1, <1>2
      <4>2. r[x].start = s[x].start /\ r[x].end = t /\ r[x].enabled = s[x].enabled
        BY <2>2, <4>1
      <4>3. k \in r[x].start..(r[x].end - 1)
        BY <1>1, <2>1, <3>2, <4>2
      <4> QED BY <2>1, <3>2, <4>1, <4>2, <4>3
    <3>3. CASE i = x /\ ~(k < t)
      <4> DEFINE j == x + 1
      <4>1. j \in 1..Len(r) /\ j - 1 = x /\ ~(j <= x) /\ ~(j < x) /\ j # x
        BY <1>1, <1>2
      <4>2. r[j].start = t /\ r[j].end = s[x].end /\ r[j].enabled = s[x].enabled
        BY <2>2, <4>1
      <4> HIDE DEF j
      <4>3. k \in r[j].start..(r[j].end - 1)
        BY <1>1, <2>1, <3>3, <4>2
      <4> QED BY <2>1, <3>3, <4>1, <4>2, <4>3
    <3>4. CASE i > x
      <4> DEFINE j == i + 1
      <4>1. j \in 1..Len(r) /\ j - 1 = i /\ ~(j <= x) /\ j # x + 1 /\ ~(j < x) /\ j # x
        BY <1>1, <1>2, <3>4
      <4>2. r[j].start = s[i].start /\ r[j].end = s[i].end /\ r[j].enabled = s[i].enabled
        BY <2>2, <4>1
      <4> HIDE DEF j
      <4> QED BY <2>1, <4>1, <4>2
    <3> QED BY <1>1, <3>1, <3>2, <3>3, <3>4
  <2> QED BY <2>3, Kepts
<1> QED BY <1>3, <1>4

LEMMA DivisionFills ==
  ASSUME NEW s \in Lists, NEW t \in Times, NEW r, Divided(s, r, IndexAt(s, t), t)
  PROVE  NoRoom(r, t)
<1> DEFINE x == IndexAt(s, t)
<1>1. /\ Len(s) \in Nat /\ t \in Nat /\ MinSeg \in Nat /\ MinSeg > 0
      /\ \A i \in 1..Len(s) : s[i].start \in Nat /\ s[i].end \in Nat
  BY Pieces, Bounds
<1>2. x \in 1..Len(s) /\ t <= s[x].end /\ \A j \in 1..Len(s) : j < x => s[j].end <= t
  BY Indexed
<1>3. \A j \in 1..Len(s) : x < j => s[j].start >= t
  BY <1>1, <1>2, InOrder
<1> HIDE DEF x
<1>4. Len(r) = Len(s) + 1
  BY DEF Divided
<1> SUFFICES ASSUME NEW j \in 1..Len(r)
             PROVE  t - r[j].start < MinSeg \/ r[j].end - t < MinSeg
  BY DEF NoRoom
<1>5. /\ r[j].start = IF j <= x THEN s[j].start ELSE IF j = x + 1 THEN t ELSE s[j - 1].start
      /\ r[j].end = IF j < x THEN s[j].end ELSE IF j = x THEN t ELSE s[j - 1].end
  BY DEF Divided, x
<1>6. CASE j < x
  BY <1>1, <1>2, <1>4, <1>5, <1>6
<1>7. CASE j = x
  BY <1>1, <1>2, <1>5, <1>7
<1>8. CASE j = x + 1
  BY <1>1, <1>2, <1>5, <1>8
<1>9. CASE j > x + 1
  <2> DEFINE i == j - 1
  <2>1. i \in 1..Len(s) /\ x < i /\ ~(j <= x) /\ j # x + 1
    BY <1>1, <1>2, <1>4, <1>9
  <2>2. r[j].start = s[i].start
    BY <1>5, <2>1
  <2> HIDE DEF i
  <2> QED BY <1>1, <1>3, <2>1, <2>2
<1> QED BY <1>1, <1>2, <1>4, <1>6, <1>7, <1>8, <1>9

LEMMA RefinesRefl ==
  ASSUME NEW s \in Lists
  PROVE  Refines(s, s)
<1>1. \A i \in 1..Len(s) : s[i].start \in Nat /\ s[i].end \in Nat
  BY Pieces
<1> QED BY <1>1 DEF Refines

\* What splitting does: a cut list as before, with no room left where it was split.
LEMMA SplitList ==
  ASSUME NEW s \in Lists, NEW t \in Times
  PROVE  /\ SplitAt(s, t) \in Lists /\ KeptTicks(SplitAt(s, t)) = KeptTicks(s)
         /\ Refines(SplitAt(s, t), s) /\ NoRoom(SplitAt(s, t), t)
<1> DEFINE x == IndexAt(s, t)
           r == SplitAt(s, t)
<1>1. x \in 1..Len(s) /\ s[x].start <= t /\ t <= s[x].end /\ \A j \in 1..Len(s) : j < x => s[j].end <= t
  BY Indexed
<1>2. \/ /\ r = s
         /\ t - s[x].start < MinSeg \/ s[x].end - t < MinSeg
      \/ /\ Divided(s, r, x, t)
         /\ t - s[x].start >= MinSeg /\ s[x].end - t >= MinSeg
  BY Splits
<1>3. CASE r = s /\ (t - s[x].start < MinSeg \/ s[x].end - t < MinSeg)
  <2>1. NoRoom(s, t)
    <3>1. \A j \in 1..Len(s) : x < j => s[j].start >= s[x].end
      BY <1>1, InOrder
    <3>2. /\ \A j \in 1..Len(s) : s[j].start \in Nat /\ s[j].end \in Nat
          /\ t \in Nat /\ MinSeg \in Nat /\ MinSeg > 0 /\ Len(s) \in Nat
      BY Pieces, Bounds
    <3> SUFFICES ASSUME NEW j \in 1..Len(s)
                 PROVE  t - s[j].start < MinSeg \/ s[j].end - t < MinSeg
      BY DEF NoRoom
    <3> HIDE DEF x, r
    <3>3. CASE j < x
      BY <1>1, <3>2, <3>3
    <3>4. CASE j = x
      BY <1>3, <3>4
    <3>5. CASE x < j
      BY <1>1, <3>1, <3>2, <3>5
    <3> QED BY <1>1, <3>2, <3>3, <3>4, <3>5
  <2>2. r = s
    BY <1>3
  <2> HIDE DEF r
  <2>3. r \in Lists /\ KeptTicks(r) = KeptTicks(s) /\ Refines(r, s) /\ NoRoom(r, t)
    BY <2>1, <2>2, RefinesRefl
  <2> QED BY <2>3 DEF r
<1>4. CASE Divided(s, r, x, t) /\ t - s[x].start >= MinSeg /\ s[x].end - t >= MinSeg
  <2>1. NoRoom(r, t)
    BY <1>4, DivisionFills
  <2> HIDE DEF r, x
  <2>2. r \in Lists
    BY <1>1, <1>4, DivisionIsList
  <2>3. Refines(r, s)
    BY <1>1, <1>4, DivisionRefines
  <2>4. KeptTicks(r) = KeptTicks(s)
    BY <1>1, <1>4, <2>2, DivisionKeeps
  <2>5. r \in Lists /\ KeptTicks(r) = KeptTicks(s) /\ Refines(r, s) /\ NoRoom(r, t)
    BY <2>1, <2>2, <2>3, <2>4
  <2> QED BY <2>5 DEF r
<1> QED BY <1>2, <1>3, <1>4

-----------------------------------------------------------------------------
(* Cutting a range out.                                                    *)

\* Pieces with the ends of a cut list are a cut list.
LEMMA SameEnds ==
  ASSUME NEW s \in Lists, NEW r \in Seq(Segment), Len(r) = Len(s),
         \A j \in 1..Len(s) : r[j].start = s[j].start /\ r[j].end = s[j].end
  PROVE  r \in Lists
<1>1. /\ Len(s) \in Nat /\ Len(s) >= 1 /\ s[1].start = 0 /\ s[Len(s)].end = Duration
      /\ \A i \in 1..Len(s) : s[i].end - s[i].start >= MinSeg
      /\ \A i \in 2..Len(s) : s[i].start = s[i - 1].end
  BY Pieces
<1>2. r[1].start = 0 /\ r[Len(r)].end = Duration
  BY <1>1
<1>3. \A i \in 1..Len(r) : r[i].end - r[i].start >= MinSeg
  BY <1>1
<1>4. ASSUME NEW i \in 2..Len(r)
      PROVE  r[i].start = r[i - 1].end
  <2>1. i \in 1..Len(s) /\ i - 1 \in 1..Len(s) /\ i \in 2..Len(s)
    BY <1>1
  <2>2. r[i].start = s[i].start /\ r[i - 1].end = s[i - 1].end
    BY <2>1
  <2> QED BY <1>1, <2>1, <2>2
<1>5. \A i \in 2..Len(r) : r[i].start = r[i - 1].end
  BY <1>4
<1> QED BY <1>1, <1>2, <1>3, <1>5, IsList

\* Whether a piece lies within a range, MIN_SEG around it included.
Within(p, a, b) == p.start >= a - MinSeg /\ p.end <= b + MinSeg

LEMMA Disabled ==
  ASSUME NEW s \in Lists, NEW a, NEW b
  PROVE  /\ DisableWithin(s, a, b) \in Lists /\ Len(DisableWithin(s, a, b)) = Len(s)
         /\ \A j \in 1..Len(s) :
              /\ DisableWithin(s, a, b)[j].start = s[j].start
              /\ DisableWithin(s, a, b)[j].end = s[j].end
              /\ DisableWithin(s, a, b)[j].enabled <=> (s[j].enabled /\ ~Within(s[j], a, b))
<1> DEFINE r == DisableWithin(s, a, b)
           q(j) == [s[j] EXCEPT !.enabled = s[j].enabled /\ ~Within(s[j], a, b)]
<1>1. Len(s) \in Nat /\ DOMAIN s = 1..Len(s) /\ \A j \in 1..Len(s) : s[j] \in Segment
  BY Pieces
<1>2. r = [j \in 1..Len(s) |-> q(j)]
  BY <1>1 DEF DisableWithin, Within
<1>3. ASSUME NEW j \in 1..Len(s)
      PROVE  /\ q(j) \in Segment /\ q(j).start = s[j].start /\ q(j).end = s[j].end
             /\ q(j).enabled = (s[j].enabled /\ ~Within(s[j], a, b))
  <2> DEFINE on == s[j].enabled /\ ~Within(s[j], a, b)
  <2>1. on \in BOOLEAN
    OBVIOUS
  <2> HIDE DEF on
  <2>2. /\ [s[j] EXCEPT !.enabled = on] \in Segment
        /\ [s[j] EXCEPT !.enabled = on].end = s[j].end /\ [s[j] EXCEPT !.enabled = on].start = s[j].start
        /\ [s[j] EXCEPT !.enabled = on].enabled = on
    BY <1>1, <2>1, SwitchedSegment
  <2> QED BY <2>2 DEF on
<1> HIDE DEF r, q
<1>4. r \in Seq(Segment) /\ Len(r) = Len(s) /\ \A j \in 1..Len(s) : r[j] = q(j)
  <2>1. \A j \in 1..Len(s) : q(j) \in Segment
    BY <1>3
  <2> QED BY <1>1, <1>2, <2>1
<1>5. ASSUME NEW j \in 1..Len(s)
      PROVE  /\ r[j].start = s[j].start /\ r[j].end = s[j].end
             /\ r[j].enabled <=> (s[j].enabled /\ ~Within(s[j], a, b))
  <2>1. r[j] = q(j)
    BY <1>4
  <2>2. r[j].start = s[j].start /\ r[j].end = s[j].end
    BY <1>3, <2>1
  <2>3. r[j].enabled = (s[j].enabled /\ ~Within(s[j], a, b))
    BY Zenon, <1>3, <2>1
  <2> QED BY Zenon, <2>2, <2>3
<1>6. r \in Lists
  BY <1>4, <1>5, SameEnds
<1> QED BY Zenon, <1>4, <1>5, <1>6 DEF r

LEMMA NoRoomRefined ==
  ASSUME NEW s \in Lists, NEW r \in Lists, Refines(r, s), NEW t \in Times, NoRoom(s, t)
  PROVE  NoRoom(r, t)
<1> SUFFICES ASSUME NEW j \in 1..Len(r)
             PROVE  t - r[j].start < MinSeg \/ r[j].end - t < MinSeg
  BY DEF NoRoom
<1>1. PICK i \in 1..Len(s) : r[j].start >= s[i].start /\ r[j].end <= s[i].end
  BY DEF Refines
<1>2. r[j].start \in Nat /\ r[j].end \in Nat /\ s[i].start \in Nat /\ s[i].end \in Nat
  BY Pieces
<1>3. t - s[i].start < MinSeg \/ s[i].end - t < MinSeg
  BY DEF NoRoom
<1>4. t \in Nat /\ MinSeg \in Nat
  BY Bounds
<1> DEFINE p == r[j].start
           q == r[j].end
           v == s[i].start
           w == s[i].end
<1>5. /\ p \in Nat /\ q \in Nat /\ v \in Nat /\ w \in Nat /\ p >= v /\ q <= w
      /\ t - v < MinSeg \/ w - t < MinSeg
  BY <1>1, <1>2, <1>3
<1> SUFFICES t - p < MinSeg \/ q - t < MinSeg
  OBVIOUS
<1> HIDE DEF p, q, v, w
<1>6. CASE t - v < MinSeg
  BY <1>4, <1>5, <1>6
<1>7. CASE w - t < MinSeg
  BY <1>4, <1>5, <1>7
<1> QED BY <1>5, <1>6, <1>7

\* Cutting a range takes what is MIN_SEG or more inside it, and nothing MIN_SEG
\* or more outside it.
LEMMA CutsRange ==
  ASSUME NEW s \in Lists, NEW a \in Times, NEW b \in Times
  PROVE  /\ CutRange(s, a, b) \in Lists
         /\ KeptTicks(CutRange(s, a, b)) \cap ((a + MinSeg - 1)..(b - MinSeg)) = {}
         /\ KeptTicks(s) \ KeptTicks(CutRange(s, a, b)) \subseteq (a - MinSeg)..(b + MinSeg - 1)
         /\ ~CutRangeReports(s, a, b) => KeptTicks(CutRange(s, a, b)) = KeptTicks(s)
<1>1. a \in Nat /\ b \in Nat /\ MinSeg \in Nat /\ MinSeg > 0
  BY Bounds
<1>2. CASE b - a < MinSeg
  <2>1. CutRange(s, a, b) = s
    BY <1>2 DEF CutRange
  <2>2. (a + MinSeg - 1)..(b - MinSeg) = {}
    BY <1>1, <1>2
  <2>3. KeptTicks(s) \ KeptTicks(s) = {}
    OBVIOUS
  <2> QED BY <2>1, <2>2, <2>3
<1>3. CASE ~(b - a < MinSeg)
  <2> DEFINE p == SplitAt(s, a)
             q == SplitAt(p, b)
             r == DisableWithin(q, a, b)
  <2>1. CutRange(s, a, b) = r
    BY <1>3 DEF CutRange
  <2>2. CutRangeReports(s, a, b) <=> r # q
    BY <1>1, <1>3 DEF CutRangeReports
  <2>3. p \in Lists /\ KeptTicks(p) = KeptTicks(s) /\ NoRoom(p, a)
    BY SplitList
  <2> HIDE DEF p
  <2>4. q \in Lists /\ KeptTicks(q) = KeptTicks(p) /\ NoRoom(q, b) /\ Refines(q, p)
    BY <2>3, SplitList
  <2> HIDE DEF q
  <2>5. NoRoom(q, a)
    BY <2>3, <2>4, NoRoomRefined
  <2>6. /\ r \in Lists /\ Len(r) = Len(q)
        /\ \A j \in 1..Len(q) : /\ r[j].start = q[j].start /\ r[j].end = q[j].end
                                /\ r[j].enabled <=> (q[j].enabled /\ ~Within(q[j], a, b))
    BY <2>4, Disabled
  <2> HIDE DEF r
  <2>7. \A j \in 1..Len(q) : q[j].start \in Nat /\ q[j].end \in Nat
    BY <2>4, Pieces
  <2>8. ASSUME NEW k \in KeptTicks(r), k \in (a + MinSeg - 1)..(b - MinSeg)
        PROVE  FALSE
    <3>1. PICK j \in 1..Len(r) : r[j].enabled /\ k \in r[j].start..(r[j].end - 1)
      BY <2>6, Kepts
    <3>2. /\ j \in 1..Len(q) /\ r[j].start = q[j].start /\ r[j].end = q[j].end
          /\ q[j].start \in Nat /\ q[j].end \in Nat /\ ~Within(q[j], a, b)
      BY <2>6, <2>7, <3>1
    <3>3. /\ a - q[j].start < MinSeg \/ q[j].end - a < MinSeg
          /\ b - q[j].start < MinSeg \/ q[j].end - b < MinSeg
      BY <2>4, <2>5, <3>2 DEF NoRoom
    <3>4. k \in Int /\ q[j].start <= k /\ k <= q[j].end - 1 /\ a + MinSeg - 1 <= k /\ k <= b - MinSeg
      <4>1. k \in q[j].start..(q[j].end - 1)
        BY <3>1, <3>2
      <4> QED BY <1>1, <2>8, <3>2, <4>1
    <3>5. q[j].start >= a - MinSeg /\ q[j].end <= b + MinSeg
      BY <1>1, <3>2, <3>3, <3>4
    <3> QED BY <3>2, <3>5 DEF Within
  <2>9. ASSUME NEW k \in KeptTicks(s), ~(k \in KeptTicks(r))
        PROVE  k \in (a - MinSeg)..(b + MinSeg - 1)
    <3>1. PICK j \in 1..Len(q) : q[j].enabled /\ k \in q[j].start..(q[j].end - 1)
      BY <2>3, <2>4, Kepts
    <3>2. ~r[j].enabled
      <4>1. k \in r[j].start..(r[j].end - 1) /\ j \in 1..Len(r)
        BY <2>6, <3>1
      <4> QED BY <2>6, <2>9, <4>1, Kepts
    <3>3. Within(q[j], a, b)
      BY <2>6, <3>1, <3>2
    <3>4. q[j].start >= a - MinSeg /\ q[j].end <= b + MinSeg /\ q[j].start \in Nat /\ q[j].end \in Nat
      BY <2>7, <3>3 DEF Within
    <3> QED BY <1>1, <3>1, <3>4
  <2>10. KeptTicks(r) \cap ((a + MinSeg - 1)..(b - MinSeg)) = {}
    BY <2>8
  <2>11. KeptTicks(s) \ KeptTicks(r) \subseteq (a - MinSeg)..(b + MinSeg - 1)
    BY <2>9
  <2>12. r = q => KeptTicks(r) = KeptTicks(s)
    BY <2>3, <2>4
  <2> QED BY <2>1, <2>2, <2>6, <2>10, <2>11, <2>12
<1> QED BY <1>2, <1>3

-----------------------------------------------------------------------------
(* Toggling, joining and moving a cut.                                     *)

LEMMA ToggledList ==
  ASSUME NEW s \in Lists, NEW t \in Times
  PROVE  ToggleAt(s, t) \in Lists
<1> DEFINE i == IndexAt(s, t)
           on == ~s[i].enabled
           e == [s[i] EXCEPT !.enabled = on]
           r == [s EXCEPT ![i] = e]
<1>1. /\ i \in 1..Len(s) /\ s \in Seq(Segment) /\ Len(s) \in Nat /\ DOMAIN s = 1..Len(s)
      /\ s[i] \in Segment
  BY Indexed, Pieces
<1>2. ToggleAt(s, t) = r
  BY DEF ToggleAt
<1>3. on \in BOOLEAN
  OBVIOUS
<1> HIDE DEF i, on
<1>4. e \in Segment /\ e.start = s[i].start /\ e.end = s[i].end
  BY <1>1, <1>3, SwitchedSegment
<1> HIDE DEF e
<1>5. r \in Seq(Segment) /\ Len(r) = Len(s) /\ \A j \in 1..Len(s) : r[j] = IF j = i THEN e ELSE s[j]
  BY <1>1, <1>4
<1> HIDE DEF r
<1>6. \A j \in 1..Len(s) : r[j].start = s[j].start /\ r[j].end = s[j].end
  BY <1>4, <1>5
<1> QED BY <1>2, <1>5, <1>6, SameEnds

\* Of the cuts there are, one is nearest.
LEMMA NearestIsCut ==
  ASSUME NEW s \in Lists, NEW t \in Int, Cuts(s) # {}
  PROVE  NearestCut(s, t) \in Cuts(s)
<1>1. Len(s) \in Nat /\ Cuts(s) = 2..Len(s) /\ \A i \in 2..Len(s) : s[i].start \in Nat
  BY Pieces DEF Cuts
<1> DEFINE d(k) == Apart(s[k].start, t)
           S == {n \in Nat : \E i \in Cuts(s) : d(i) = n}
<1>2. \A i \in Cuts(s) : d(i) \in Nat
  BY <1>1 DEF Apart
<1>3. S # {} /\ S \in SUBSET Nat
  BY <1>2
<1>4. PICK m \in S : \A k \in S : m <= k
  <2> HIDE DEF S
  <2> QED BY <1>3, HasLeast
<1>5. \A j \in Cuts(s) : m <= d(j)
  BY <1>2, <1>4
<1> DEFINE I == {i \in Cuts(s) : d(i) = m}
<1>6. I # {} /\ I \in SUBSET Nat
  BY <1>1, <1>4
<1>7. PICK x \in I : \A k \in I : x <= k
  <2> HIDE DEF I
  <2> QED BY <1>6, HasLeast
<1>8. ASSUME NEW j \in Cuts(s)
      PROVE  d(x) < d(j) \/ (d(x) = d(j) /\ x <= j)
  <2>1. d(x) = m /\ m \in Nat
    BY <1>4, <1>7
  <2>2. m <= d(j) /\ d(j) \in Nat
    BY <1>2, <1>5
  <2>3. d(j) = m => x <= j
    BY <1>7
  <2> HIDE DEF d
  <2> QED BY <2>1, <2>2, <2>3
<1>9. x \in Cuts(s)
  BY <1>7
<1>10. \E i \in Cuts(s) : \A j \in Cuts(s) : d(i) < d(j) \/ (d(i) = d(j) /\ i <= j)
  <2> HIDE DEF d
  <2> QED BY <1>8, <1>9
<1> QED BY <1>10 DEF NearestCut

LEMMA JoinedList ==
  ASSUME NEW s \in Lists, NEW t \in Int
  PROVE  JoinAt(s, t) \in Lists
<1>1. CASE Cuts(s) = {}
  BY <1>1 DEF JoinAt
<1>2. CASE Cuts(s) # {}
  <2> DEFINE i == NearestCut(s, t)
             h == i - 1
             on == s[h].enabled \/ s[i].enabled
             c == [s[h] EXCEPT !.end = s[i].end]
             e == [c EXCEPT !.enabled = on]
             u == [s EXCEPT ![h] = e]
             r == RemoveAt(u, i)
  <2>1. /\ s \in Seq(Segment) /\ Len(s) \in Nat /\ DOMAIN s = 1..Len(s)
        /\ s[1].start = 0 /\ s[Len(s)].end = Duration
        /\ \A j \in 1..Len(s) : s[j] \in Segment /\ s[j].start \in Nat /\ s[j].end \in Nat
                               /\ s[j].end - s[j].start >= MinSeg
        /\ \A j \in 2..Len(s) : s[j].start = s[j - 1].end
        /\ MinSeg \in Nat
    BY Pieces, Bounds
  <2>2. i \in 2..Len(s) /\ i \in 1..Len(s) /\ h \in 1..Len(s) /\ i = h + 1 /\ h < i
    <3>1. i \in Cuts(s)
      BY <1>2, NearestIsCut
    <3> HIDE DEF i
    <3>2. i \in 2..Len(s)
      BY <3>1 DEF Cuts
    <3> QED BY <2>1, <3>2
  <2>3. JoinAt(s, t) = r
    <3>1. c \in Segment /\ c.enabled = s[h].enabled
      <4>1. s[h] \in Segment /\ s[i].end \in Times
        BY <2>1, <2>2, SegmentFields
      <4> HIDE DEF h, i
      <4> QED BY <4>1, MovedSegment
    <3>2. JoinAt(s, t) = RemoveAt([s EXCEPT ![i - 1].end = s[i].end,
                                            ![i - 1].enabled = @ \/ s[i].enabled], i)
      BY <1>2 DEF JoinAt
    <3>3. [s EXCEPT ![i - 1].end = s[i].end, ![i - 1].enabled = @ \/ s[i].enabled]
            = [s EXCEPT ![h] = e]
      BY <2>1, <2>2, <3>1
    <3> QED BY <3>2, <3>3
  <2>4. e \in Segment /\ e.start = s[h].start /\ e.end = s[i].end
    <3>1. c \in Segment /\ c.start = s[h].start /\ c.end = s[i].end
      <4>1. s[h] \in Segment /\ s[i].end \in Times
        BY <2>1, <2>2, SegmentFields
      <4> HIDE DEF h, i
      <4> QED BY <4>1, MovedSegment
    <3>2. on \in BOOLEAN
      OBVIOUS
    <3> HIDE DEF c, on
    <3> QED BY <3>1, <3>2, SwitchedSegment
  <2> HIDE DEF i, e
  <2>5. u \in Seq(Segment) /\ Len(u) = Len(s) /\ \A j \in 1..Len(s) : u[j] = IF j = h THEN e ELSE s[j]
    <3> HIDE DEF h
    <3> QED BY <2>1, <2>2, <2>4
  <2> HIDE DEF u, h
  <2>6. /\ r \in Seq(Segment) /\ Len(r) = Len(s) - 1
        /\ \A j \in 1..(Len(s) - 1) : r[j] = IF j < i THEN u[j] ELSE u[j + 1]
    <3>1. i \in 1..Len(u)
      BY <2>2, <2>5
    <3>2. /\ r \in Seq(Segment) /\ Len(r) = Len(u) - 1
          /\ \A j \in 1..(Len(u) - 1) : r[j] = IF j < i THEN u[j] ELSE u[j + 1]
      BY <2>5, <3>1, Removes
    <3> HIDE DEF r
    <3> QED BY <2>5, <3>2
  <2> HIDE DEF r
  <2>7. \A j \in 1..(Len(s) - 1) : j < h => r[j] = s[j]
    <3> SUFFICES ASSUME NEW j \in 1..(Len(s) - 1), j < h PROVE r[j] = s[j]
      OBVIOUS
    <3>1. j \in 1..Len(s) /\ j < i /\ j # h
      BY <2>1, <2>2
    <3>2. r[j] = u[j] /\ u[j] = s[j]
      BY <2>5, <2>6, <3>1
    <3> QED BY <3>2
  <2>8. h \in 1..(Len(s) - 1) /\ r[h] = e
    BY <2>1, <2>2, <2>5, <2>6
  <2>9. \A j \in 1..(Len(s) - 1) : j >= i => r[j] = s[j + 1]
    <3> SUFFICES ASSUME NEW j \in 1..(Len(s) - 1), j >= i PROVE r[j] = s[j + 1]
      OBVIOUS
    <3>1. j + 1 \in 1..Len(s) /\ ~(j < i) /\ j + 1 # h
      BY <2>1, <2>2
    <3>2. r[j] = u[j + 1] /\ u[j + 1] = s[j + 1]
      BY <2>5, <2>6, <3>1
    <3> QED BY <3>2
  <2>10. r[1].start = 0
    <3>1. CASE h = 1
      BY <2>1, <2>4, <2>8, <3>1
    <3>2. CASE h # 1
      <4>1. s[1].start = 0
        BY <2>1
      <4>2. Len(s) \in Nat
        BY <2>1
      <4>3. 1 \in 1..(Len(s) - 1) /\ 1 < h
        BY <2>8, <3>2, <4>2
      <4> QED BY <2>7, <4>1, <4>3
    <3> QED BY <3>1, <3>2
  <2>11. r[Len(r)].end = Duration
    <3> DEFINE n == Len(s) - 1
    <3>1. n \in 1..n /\ n + 1 = Len(s) /\ (n = h \/ n >= i) /\ (n = h => i = Len(s))
      <4> DEFINE l == Len(s)
      <4>1. l \in Nat
        BY <2>1
      <4>2. i \in 2..l
        BY <2>2
      <4>3. h \in 1..l
        BY <2>2
      <4>4. i = h + 1
        BY <2>2
      <4> HIDE DEF l
      <4>5. l - 1 \in 1..(l - 1) /\ (l - 1) + 1 = l /\ (l - 1 = h \/ l - 1 >= i) /\ (l - 1 = h => i = l)
        BY <4>1, <4>2, <4>3, <4>4
      <4> QED BY <4>5 DEF l
    <3>2. r[n].end = Duration
      BY <2>1, <2>4, <2>8, <2>9, <3>1
    <3> QED BY <2>6, <3>2
  <2>12. \A j \in 1..Len(r) : r[j].end - r[j].start >= MinSeg
    <3> SUFFICES ASSUME NEW j \in 1..(Len(s) - 1) PROVE r[j].end - r[j].start >= MinSeg
      BY <2>6
    <3>1. CASE j < h
      BY <2>1, <2>7, <3>1
    <3>2. CASE j = h
      <4>1. s[i].end - s[i].start >= MinSeg /\ s[h].end - s[h].start >= MinSeg /\ s[i].start = s[h].end
        <5>1. i - 1 = h
          BY <2>1, <2>2
        <5> QED BY <2>1, <2>2, <5>1
      <4>2. s[i].end \in Nat /\ s[i].start \in Nat /\ s[h].start \in Nat /\ s[h].end \in Nat
        BY <2>1, <2>2
      <4>3. r[j].start = s[h].start /\ r[j].end = s[i].end
        BY <2>4, <2>8, <3>2
      <4> QED BY <2>1, <4>1, <4>2, <4>3
    <3>3. CASE j >= i
      <4>1. j + 1 \in 1..Len(s)
        BY <2>1
      <4>2. r[j] = s[j + 1]
        BY <2>9, <3>3
      <4> QED BY <2>1, <4>1, <4>2
    <3> QED BY <2>1, <2>2, <3>1, <3>2, <3>3
  <2>13. \A j \in 2..Len(r) : r[j].start = r[j - 1].end
    <3> SUFFICES ASSUME NEW j \in 2..(Len(s) - 1) PROVE r[j].start = r[j - 1].end
      BY <2>6
    <3>1. j \in 1..(Len(s) - 1) /\ j - 1 \in 1..(Len(s) - 1) /\ j \in 2..Len(s) /\ j + 1 \in 2..Len(s)
      BY <2>1
    <3>2. CASE j < h
      <4>1. r[j] = s[j] /\ r[j - 1] = s[j - 1]
        BY <2>1, <2>2, <2>7, <3>1, <3>2
      <4> QED BY <2>1, <3>1, <4>1
    <3>3. CASE j = h
      <4>1. r[j].start = s[h].start /\ r[j - 1] = s[j - 1]
        BY <2>1, <2>2, <2>4, <2>7, <2>8, <3>1, <3>3
      <4>2. s[j].start = s[j - 1].end
        BY <2>1, <3>1
      <4> QED BY <3>3, <4>1, <4>2
    <3>4. CASE j = i
      <4>1. r[j] = s[j + 1] /\ j - 1 = h
        BY <2>1, <2>2, <2>9, <3>1, <3>4
      <4>2. r[j - 1].end = s[j].end
        BY <2>4, <2>8, <3>4, <4>1
      <4>3. s[j + 1].start = s[(j + 1) - 1].end /\ (j + 1) - 1 = j
        BY <2>1, <3>1
      <4> QED BY <4>1, <4>2, <4>3
    <3>5. CASE j > i
      <4>1. r[j] = s[j + 1] /\ r[j - 1] = s[(j - 1) + 1] /\ (j - 1) + 1 = j
        BY <2>1, <2>2, <2>9, <3>1, <3>5
      <4>2. s[j + 1].start = s[(j + 1) - 1].end /\ (j + 1) - 1 = j
        BY <2>1, <3>1
      <4> QED BY <4>1, <4>2
    <3> QED BY <2>1, <2>2, <3>2, <3>3, <3>4, <3>5
  <2>14. Len(r) >= 1
    BY <2>1, <2>2, <2>6
  <2>15. r \in Lists
    BY <2>6, <2>10, <2>11, <2>12, <2>13, <2>14, IsList
  <2> QED BY <2>3, <2>15
<1> QED BY <1>1, <1>2

\* A cut that can be moved lands between its neighbours.
LEMMA MovedCut ==
  ASSUME NEW s \in Lists, NEW i \in Nat, Movable(s, i), NEW t \in Times
  PROVE  /\ i \in 2..Len(s) /\ i - 1 \in 1..Len(s) /\ MovedTo(s, i, t) \in Times
         /\ MovedTo(s, i, t) - s[i - 1].start >= MinSeg /\ s[i].end - MovedTo(s, i, t) >= MinSeg
<1>1. i \in 2..Len(s) /\ s[i].end - MinSeg >= s[i - 1].start + MinSeg
  BY DEF Movable, Cuts
<1>2. i - 1 \in 1..Len(s) /\ i \in 1..Len(s)
  BY <1>1, Pieces
<1>3. s[i].end \in Nat /\ s[i].end <= Duration /\ s[i - 1].start \in Nat
  BY <1>2, Pieces
<1>4. t \in Nat /\ MinSeg \in Nat /\ MinSeg > 0 /\ Duration \in Nat
  BY Bounds
<1> DEFINE m == MovedTo(s, i, t)
<1>5. m \in Nat /\ m <= Duration /\ m - s[i - 1].start >= MinSeg /\ s[i].end - m >= MinSeg
  <2> DEFINE v == s[i - 1].start
             w == s[i].end
  <2>1. v \in Nat /\ w \in Nat /\ w <= Duration /\ w - MinSeg >= v + MinSeg
    BY <1>1, <1>3
  <2>2. m = Larger(v + MinSeg, Smaller(t, w - MinSeg))
    BY DEF MovedTo
  <2> SUFFICES m \in Nat /\ m <= Duration /\ m - v >= MinSeg /\ w - m >= MinSeg
    OBVIOUS
  <2> HIDE DEF v, w, m
  <2> QED BY <1>4, <2>1, <2>2 DEF Larger, Smaller
<1> HIDE DEF m
<1>6. m \in Times
  BY <1>5, Bounds
<1> QED BY <1>1, <1>2, <1>5, <1>6 DEF m

LEMMA MovedList ==
  ASSUME NEW s \in Lists, NEW i \in Nat, NEW t \in Times
  PROVE  MoveCut(s, i, t) \in Lists
<1>1. CASE ~Movable(s, i)
  BY <1>1 DEF MoveCut
<1>2. CASE Movable(s, i)
  <2> DEFINE h == i - 1
             m == MovedTo(s, i, t)
             c == [s[h] EXCEPT !.end = m]
             e == [s[i] EXCEPT !.start = m]
             r == [[s EXCEPT ![h] = c] EXCEPT ![i] = e]
  <2>1. /\ s \in Seq(Segment) /\ Len(s) \in Nat /\ DOMAIN s = 1..Len(s)
        /\ s[1].start = 0 /\ s[Len(s)].end = Duration
        /\ \A j \in 1..Len(s) : s[j] \in Segment /\ s[j].end - s[j].start >= MinSeg
        /\ \A j \in 2..Len(s) : s[j].start = s[j - 1].end
    BY Pieces
  <2>2. /\ i \in 2..Len(s) /\ i \in 1..Len(s) /\ h \in 1..Len(s) /\ i = h + 1 /\ h # i /\ m \in Times
        /\ m - s[h].start >= MinSeg /\ s[i].end - m >= MinSeg
    <3>1. /\ i \in 2..Len(s) /\ h \in 1..Len(s) /\ m \in Times
          /\ m - s[h].start >= MinSeg /\ s[i].end - m >= MinSeg
      BY <1>2, MovedCut
    <3> QED BY <2>1, <3>1
  <2>3. MoveCut(s, i, t) = r
    <3>1. MoveCut(s, i, t) = [s EXCEPT ![h].end = m, ![i].start = m]
      BY <1>2 DEF MoveCut
    <3> HIDE DEF h, m
    <3>2. [s EXCEPT ![h].end = m, ![i].start = m] = r
      BY <2>1, <2>2
    <3> QED BY <3>1, <3>2
  <2>4. c \in Segment /\ c.start = s[h].start /\ c.end = m
    BY <2>1, <2>2, MovedSegment
  <2>5. e \in Segment /\ e.start = m /\ e.end = s[i].end
    BY <2>1, <2>2, MovedSegment
  <2> HIDE DEF c, e, h, m
  <2>6. /\ r \in Seq(Segment) /\ Len(r) = Len(s) /\ r[h] = c /\ r[i] = e
        /\ \A j \in 1..Len(s) : j # h /\ j # i => r[j] = s[j]
    BY <2>1, <2>2, <2>4, <2>5
  <2> HIDE DEF r
  <2>7. r[1].start = 0
    <3>1. CASE h = 1
      BY <2>1, <2>4, <2>6, <3>1
    <3>2. CASE h # 1
      BY <2>1, <2>2, <2>6, <3>2
    <3> QED BY <3>1, <3>2
  <2>8. r[Len(r)].end = Duration
    <3> DEFINE n == Len(s)
    <3>1. n \in 1..Len(s) /\ n # h
      BY <2>1, <2>2
    <3>2. r[n].end = Duration
      BY <2>1, <2>5, <2>6, <3>1
    <3> QED BY <2>6, <3>2
  <2>9. \A j \in 1..Len(r) : r[j].end - r[j].start >= MinSeg
    BY <2>1, <2>2, <2>4, <2>5, <2>6
  <2>10. \A j \in 2..Len(r) : r[j].start = r[j - 1].end
    <3> SUFFICES ASSUME NEW j \in 2..Len(s) PROVE r[j].start = r[j - 1].end
      BY <2>6
    <3>1. j \in 1..Len(s) /\ j - 1 \in 1..Len(s) /\ s[j].start = s[j - 1].end
      BY <2>1
    <3>2. CASE j = i
      <4>1. j - 1 = h
        BY <2>1, <2>2, <3>2
      <4> QED BY <2>4, <2>5, <2>6, <3>2, <4>1
    <3>3. CASE j = h
      <4>1. j - 1 # h /\ j - 1 # i
        BY <2>1, <2>2, <3>3
      <4>2. r[j - 1] = s[j - 1] /\ r[j].start = s[j].start
        BY <2>4, <2>6, <3>1, <3>3, <4>1
      <4> QED BY <3>1, <4>2
    <3>4. CASE j = i + 1
      <4>1. j # h /\ j # i /\ j - 1 = i
        BY <2>1, <2>2, <3>4
      <4>2. r[j] = s[j] /\ r[j - 1].end = s[j - 1].end
        BY <2>5, <2>6, <3>1, <4>1
      <4> QED BY <3>1, <4>2
    <3>5. CASE j # i /\ j # h /\ j # i + 1
      <4>1. j - 1 # h /\ j - 1 # i
        BY <2>1, <2>2, <3>5
      <4>2. r[j] = s[j] /\ r[j - 1] = s[j - 1]
        BY <2>6, <3>1, <3>5, <4>1
      <4> QED BY <3>1, <4>2
    <3> QED BY <3>2, <3>3, <3>4, <3>5
  <2>11. Len(r) >= 1
    BY <2>1, <2>2, <2>6
  <2>12. r \in Lists
    BY <2>6, <2>7, <2>8, <2>9, <2>10, <2>11, IsList
  <2> QED BY <2>3, <2>12
<1> QED BY <1>1, <1>2

LEMMA NewList ==
  NewSegments \in Lists
<1> DEFINE p == [start |-> 0, end |-> Duration, enabled |-> TRUE]
<1>1. p \in Segment
  <2>1. 0 \in Times /\ Duration \in Times
    BY Bounds
  <2> QED BY Zenon, <2>1 DEF Segment
<1>2. p.start = 0 /\ p.end = Duration /\ NewSegments = <<p>>
  BY DEF NewSegments
<1> HIDE DEF p
<1>3. NewSegments \in Seq(Segment) /\ Len(NewSegments) = 1 /\ NewSegments[1] = p
  BY <1>1, <1>2
<1>4. \A i \in 2..Len(NewSegments) : NewSegments[i].start = NewSegments[i - 1].end
  BY <1>3
<1>5. \A i \in 1..Len(NewSegments) : NewSegments[i].end - NewSegments[i].start >= MinSeg
  BY <1>2, <1>3, Bounds
<1> QED BY <1>2, <1>3, <1>4, <1>5, IsList

-----------------------------------------------------------------------------
(* What is kept of a selection.                                            *)

\* What kept_within does with one piece p.
Added(a, b, spans, p) ==
    LET from == Larger(p.start, a)
        to   == Smaller(p.end, b)
    IN  IF ~p.enabled \/ 2 * (to - from) <= MinSeg THEN spans
        ELSE IF spans # <<>> /\ Last(spans)[2] = from
          THEN Append(Front(spans), <<Last(spans)[1], to>>)
          ELSE Append(spans, <<from, to>>)

\* kept_within takes the pieces one by one.
LEMMA KeptSteps ==
  ASSUME NEW s \in Lists, NEW a \in Times, NEW b \in Times
  PROVE  \E f : /\ f[0] = <<>> /\ KeptWithin(s, a, b) = f[Len(s)]
                /\ \A n \in 1..Len(s) : f[n] = Added(a, b, f[n - 1], s[n])
<1> DEFINE add(spans, p) ==
          LET from == Larger(p.start, a)
              to   == Smaller(p.end, b)
          IN  IF ~p.enabled \/ 2 * (to - from) <= MinSeg THEN spans
              ELSE IF spans # <<>> /\ Last(spans)[2] = from
                THEN Append(Front(spans), <<Last(spans)[1], to>>)
                ELSE Append(spans, <<from, to>>)
    upTo[n \in 0..Len(s)] == IF n = 0 THEN <<>> ELSE add(upTo[n - 1], s[n])
    Is(g, N) == g = [n \in 0..N |-> IF n = 0 THEN <<>> ELSE add(g[n - 1], s[n])]
<1>1. KeptWithin(s, a, b) = upTo[Len(s)]
  BY DEF KeptWithin
<1>2. upTo = CHOOSE g : Is(g, Len(s))
  <2> HIDE DEF add
  <2> QED OBVIOUS
<1> HIDE DEF upTo
<1>3. Len(s) \in Nat
  BY Pieces
<1>4. \A N \in Nat : \E g : Is(g, N)
  <2> DEFINE S == {N \in Nat : ~(\E g : Is(g, N))}
  <2> SUFFICES ASSUME S # {} PROVE FALSE
    OBVIOUS
  <2>1. PICK M \in S : \A k \in S : M <= k
    <3> HIDE DEF Is
    <3>1. S \in SUBSET Nat
      OBVIOUS
    <3> HIDE DEF S
    <3> QED BY <3>1, HasLeast
  <2> HIDE DEF add
  <2>2. M # 0
    <3> DEFINE g == [n \in 0..0 |-> <<>>]
    <3>1. Is(g, 0)
      OBVIOUS
    <3> QED BY <2>1, <3>1
  <2> DEFINE N == M - 1
  <2>3. N \in Nat /\ M = N + 1
    BY <2>1, <2>2
  <2>4. PICK g : Is(g, N)
    BY <2>1, <2>3
  <2> DEFINE h == [n \in 0..M |-> IF n <= N THEN g[n] ELSE add(g[N], s[M])]
  <2>5. ASSUME NEW n \in 0..M
        PROVE  h[n] = IF n = 0 THEN <<>> ELSE add(h[n - 1], s[n])
    <3>1. CASE n = 0
      BY <2>3, <2>4, <3>1
    <3>2. CASE n # 0 /\ n <= N
      <4>1. n - 1 \in 0..M /\ n - 1 <= N /\ n \in 0..N
        BY <2>3, <3>2
      <4>2. h[n - 1] = g[n - 1] /\ h[n] = g[n]
        BY <3>2, <4>1
      <4>3. g[n] = add(g[n - 1], s[n])
        BY <2>4, <3>2, <4>1
      <4> QED BY <3>2, <4>2, <4>3
    <3>3. CASE n = M
      <4>1. n - 1 = N /\ N \in 0..M /\ ~(M <= N) /\ n # 0
        BY <2>3, <3>3
      <4>2. h[n] = add(g[N], s[M]) /\ h[N] = g[N]
        BY <3>3, <4>1
      <4> HIDE DEF N
      <4> QED BY <3>3, <4>1, <4>2
    <3> QED BY <2>3, <3>1, <3>2, <3>3
  <2>6. Is(h, M)
    <3> DEFINE k == [n \in 0..M |-> IF n = 0 THEN <<>> ELSE add(h[n - 1], s[n])]
    <3>1. h = k
      <4>1. \A n \in 0..M : h[n] = k[n]
        BY <2>5
      <4>2. h = [n \in 0..M |-> h[n]] /\ k = [n \in 0..M |-> k[n]]
        OBVIOUS
      <4> HIDE DEF h, k
      <4> QED BY <4>1, <4>2
    <3> HIDE DEF h
    <3> QED BY <3>1
  <2> QED BY <2>1, <2>6
<1>5. Is(upTo, Len(s))
  BY <1>2, <1>3, <1>4
<1> HIDE DEF add
<1>6. upTo[0] = <<>> /\ \A n \in 1..Len(s) : upTo[n] = add(upTo[n - 1], s[n])
  BY <1>3, <1>5
<1> QED BY <1>1, <1>6 DEF add, Added

\* A list of spans, none of them empty; and whether it covers a tick.
SpanLists == {x \in Seq(Nat \X Nat) : \A i \in 1..Len(x) : x[i][1] < x[i][2]}
Covers(spans, k) == \E i \in 1..Len(spans) : spans[i][1] <= k /\ k < spans[i][2]

\* Whether tick k of piece p is kept within a and b: pieces too short there are not.
Takes(p, a, b, k) ==
  /\ p.enabled /\ 2 * (Smaller(p.end, b) - Larger(p.start, a)) > MinSeg
  /\ Larger(p.start, a) <= k /\ k < Smaller(p.end, b)

LEMMA Appended ==
  ASSUME NEW S, NEW s \in Seq(S), NEW e \in S
  PROVE  /\ Append(s, e) \in Seq(S) /\ Len(Append(s, e)) = Len(s) + 1
         /\ \A j \in 1..Len(s) : Append(s, e)[j] = s[j]
         /\ Append(s, e)[Len(s) + 1] = e
<1> QED OBVIOUS

LEMMA Fronts ==
  ASSUME NEW S, NEW s \in Seq(S), s # <<>>
  PROVE  /\ Len(s) \in Nat /\ Len(s) >= 1
         /\ Front(s) \in Seq(S) /\ Len(Front(s)) = Len(s) - 1
         /\ \A j \in 1..(Len(s) - 1) : Front(s)[j] = s[j]
         /\ Last(s) = s[Len(s)] /\ Last(s) \in S
<1>1. Len(s) \in Nat /\ Len(s) >= 1
  OBVIOUS
<1>2. Front(s) = SubSeq(s, 1, Len(s) - 1)
  BY DEF Front
<1>3. /\ SubSeq(s, 1, Len(s) - 1) \in Seq(S) /\ Len(SubSeq(s, 1, Len(s) - 1)) = Len(s) - 1
      /\ \A j \in 1..(Len(s) - 1) : SubSeq(s, 1, Len(s) - 1)[j] = s[j]
  <2> DEFINE n == Len(s) - 1
             y == SubSeq(s, 1, n)
  <2>1. n \in Nat /\ n <= Len(s)
    BY <1>1
  <2>2. \A j \in 1..n : s[j] \in S
    BY <1>1
  <2> HIDE DEF n
  <2>3. Len(y) = n /\ \A j \in 1..n : y[j] = s[j]
    BY <2>1
  <2>4. y \in Seq(S)
    BY <2>1, <2>2
  <2> HIDE DEF y
  <2>5. y \in Seq(S) /\ Len(y) = n /\ \A j \in 1..n : y[j] = s[j]
    BY <2>3, <2>4
  <2> QED BY <2>5 DEF y, n
<1>4. Last(s) = s[Len(s)] /\ Last(s) \in S
  BY <1>1 DEF Last
<1> QED BY <1>1, <1>2, <1>3, <1>4

LEMMA AddedSpans ==
  ASSUME NEW z \in SpanLists, NEW p \in Segment, NEW a \in Times, NEW b \in Times
  PROVE  /\ Added(a, b, z, p) \in SpanLists
         /\ \A k \in Int : Covers(Added(a, b, z, p), k) <=> Covers(z, k) \/ Takes(p, a, b, k)
<1> DEFINE from == Larger(p.start, a)
           to == Smaller(p.end, b)
           r == Added(a, b, z, p)
<1>1. from \in Nat /\ to \in Nat /\ MinSeg \in Nat /\ MinSeg > 0
  BY SegmentFields, Bounds DEF Larger, Smaller
<1>2. /\ z \in Seq(Nat \X Nat) /\ Len(z) \in Nat
      /\ \A i \in 1..Len(z) : z[i][1] \in Nat /\ z[i][2] \in Nat /\ z[i][1] < z[i][2]
  <2>1. z \in Seq(Nat \X Nat) /\ \A i \in 1..Len(z) : z[i][1] < z[i][2]
    BY DEF SpanLists
  <2>2. \A i \in 1..Len(z) : z[i] \in Nat \X Nat
    BY <2>1
  <2> QED BY <2>1, <2>2
<1>3. \A k \in Int : Takes(p, a, b, k) <=> p.enabled /\ 2 * (to - from) > MinSeg /\ from <= k /\ k < to
  BY DEF Takes
<1>4. r = IF ~p.enabled \/ 2 * (to - from) <= MinSeg THEN z
          ELSE IF z # <<>> /\ Last(z)[2] = from THEN Append(Front(z), <<Last(z)[1], to>>)
          ELSE Append(z, <<from, to>>)
  BY DEF Added
<1> SUFFICES /\ r \in SpanLists
             /\ \A k \in Int : Covers(r, k) <=> Covers(z, k) \/ Takes(p, a, b, k)
  OBVIOUS
<1> HIDE DEF from, to, r
<1>5. CASE ~p.enabled \/ 2 * (to - from) <= MinSeg
  <2>1. r = z
    BY <1>4, <1>5
  <2>2. \A k \in Int : ~Takes(p, a, b, k)
    BY <1>1, <1>3, <1>5
  <2> QED BY <2>1, <2>2
<1>6. CASE p.enabled /\ 2 * (to - from) > MinSeg /\ z # <<>> /\ Last(z)[2] = from
  <2> DEFINE n == Len(z)
             y == Front(z)
             first == Last(z)[1]
             e == <<first, to>>
  <2>1. /\ n \in Nat /\ n >= 1 /\ y \in Seq(Nat \X Nat) /\ Len(y) = n - 1
        /\ (\A j \in 1..(n - 1) : y[j] = z[j]) /\ Last(z) = z[n]
    BY <1>2, <1>6, Fronts
  <2>2. first \in Nat /\ first < from /\ first = z[n][1] /\ z[n][2] = from
    BY <1>2, <1>6, <2>1
  <2>3. from < to
    BY <1>1, <1>6
  <2>4. r = Append(y, e)
    <3>1. ~(~p.enabled \/ 2 * (to - from) <= MinSeg)
      BY <1>1, <1>6
    <3> QED BY <1>4, <1>6, <3>1
  <2> HIDE DEF first, y
  <2>5. e \in Nat \X Nat /\ e[1] = first /\ e[2] = to
    BY <1>1, <2>2
  <2> HIDE DEF e, n
  <2>6. r \in Seq(Nat \X Nat) /\ Len(r) = n /\ (\A j \in 1..(n - 1) : r[j] = y[j]) /\ r[n] = e
    <3>1. /\ Append(y, e) \in Seq(Nat \X Nat) /\ Len(Append(y, e)) = Len(y) + 1
          /\ \A j \in 1..Len(y) : Append(y, e)[j] = y[j]
          /\ Append(y, e)[Len(y) + 1] = e
      BY <2>1, <2>5, Appended
    <3>2. Len(y) + 1 = n
      BY <2>1
    <3> QED BY <2>1, <2>4, <3>1, <3>2
  <2>7. \A j \in 1..(n - 1) : r[j] = z[j]
    BY <2>1, <2>6
  <2>8. \A j \in 1..n : j # n => j \in 1..(n - 1)
    BY <2>1
  <2>9. r \in SpanLists
    <3>1. ASSUME NEW j \in 1..Len(r) PROVE r[j][1] < r[j][2]
      <4>1. CASE j = n
        BY <2>2, <2>3, <2>5, <2>6, <4>1, <1>1
      <4>2. CASE j # n
        <5>1. j \in 1..(n - 1) /\ j \in 1..Len(z)
          BY <2>1, <2>6, <2>8, <4>2 DEF n
        <5>2. r[j] = z[j] /\ z[j][1] < z[j][2]
          BY <1>2, <2>7, <5>1
        <5> QED BY <5>2
      <4> QED BY <4>1, <4>2
    <3> QED BY <2>6, <3>1 DEF SpanLists
  <2>10. ASSUME NEW k \in Int
         PROVE  Covers(r, k) <=> Covers(z, k) \/ Takes(p, a, b, k)
    <3>1. r[n][1] = first /\ r[n][2] = to
      BY <2>5, <2>6
    <3>2. Takes(p, a, b, k) <=> from <= k /\ k < to
      BY <1>3, <1>6
    <3>3. ASSUME Covers(r, k) PROVE Covers(z, k) \/ Takes(p, a, b, k)
      <4>1. PICK j \in 1..n : r[j][1] <= k /\ k < r[j][2]
        BY <2>6, <3>3 DEF Covers
      <4>2. CASE j = n
        <5>1. first <= k /\ k < to
          BY <3>1, <4>1, <4>2
        <5>2. CASE k < from
          <6>1. n \in 1..Len(z) /\ z[n][1] <= k /\ k < z[n][2]
            BY <2>1, <2>2, <5>1, <5>2 DEF n
          <6> QED BY <6>1 DEF Covers
        <5>3. CASE ~(k < from)
          BY <1>1, <3>2, <5>1, <5>3
        <5> QED BY <5>2, <5>3
      <4>3. CASE j # n
        <5>1. j \in 1..Len(z) /\ r[j] = z[j]
          BY <2>1, <2>7, <2>8, <4>3 DEF n
        <5> QED BY <4>1, <5>1 DEF Covers
      <4> QED BY <4>2, <4>3
    <3>4. ASSUME Covers(z, k) PROVE Covers(r, k)
      <4>1. PICK j \in 1..n : z[j][1] <= k /\ k < z[j][2]
        BY <3>4 DEF Covers, n
      <4>2. j \in 1..Len(r) /\ r[j][1] <= k /\ k < r[j][2]
        <5>1. CASE j = n
          <6>1. first <= k /\ k < to
            BY <1>1, <2>2, <2>3, <4>1, <5>1
          <6> QED BY <2>6, <3>1, <5>1, <6>1
        <5>2. CASE j # n
          BY <2>6, <2>7, <2>8, <4>1, <5>2
        <5> QED BY <5>1, <5>2
      <4> QED BY <4>2 DEF Covers
    <3>5. ASSUME Takes(p, a, b, k) PROVE Covers(r, k)
      <4>1. n \in 1..Len(r) /\ r[n][1] <= k /\ k < r[n][2]
        BY <1>1, <2>1, <2>2, <2>6, <3>1, <3>2, <3>5
      <4> QED BY <4>1 DEF Covers
    <3> QED BY <3>3, <3>4, <3>5
  <2> QED BY <2>9, <2>10
<1>7. CASE p.enabled /\ 2 * (to - from) > MinSeg /\ ~(z # <<>> /\ Last(z)[2] = from)
  <2> DEFINE n == Len(z)
             e == <<from, to>>
  <2>1. from < to
    BY <1>1, <1>7
  <2>2. r = Append(z, e)
    <3>1. ~(~p.enabled \/ 2 * (to - from) <= MinSeg)
      BY <1>1, <1>7
    <3> QED BY <1>4, <1>7, <3>1
  <2>3. e \in Nat \X Nat /\ e[1] = from /\ e[2] = to
    BY <1>1
  <2> HIDE DEF e
  <2>4. r \in Seq(Nat \X Nat) /\ Len(r) = n + 1 /\ (\A j \in 1..n : r[j] = z[j]) /\ r[n + 1] = e
    BY <1>2, <2>2, <2>3, Appended
  <2>5. n \in Nat
    BY <1>2
  <2> HIDE DEF n
  <2>6. r \in SpanLists
    <3>1. ASSUME NEW j \in 1..Len(r) PROVE r[j][1] < r[j][2]
      <4>1. CASE j = n + 1
        BY <2>1, <2>3, <2>4, <4>1
      <4>2. CASE j # n + 1
        <5>1. j \in 1..n
          BY <2>4, <2>5, <4>2
        <5>2. r[j] = z[j] /\ z[j][1] < z[j][2]
          BY <1>2, <2>4, <5>1 DEF n
        <5> QED BY <5>2
      <4> QED BY <4>1, <4>2
    <3> QED BY <2>4, <3>1 DEF SpanLists
  <2>7. ASSUME NEW k \in Int
        PROVE  Covers(r, k) <=> Covers(z, k) \/ Takes(p, a, b, k)
    <3>1. r[n + 1][1] = from /\ r[n + 1][2] = to
      BY <2>3, <2>4
    <3>2. Takes(p, a, b, k) <=> from <= k /\ k < to
      BY <1>3, <1>7
    <3>3. Covers(r, k) <=> \E j \in 1..(n + 1) : r[j][1] <= k /\ k < r[j][2]
      BY <2>4 DEF Covers
    <3>4. Covers(z, k) <=> \E j \in 1..n : r[j][1] <= k /\ k < r[j][2]
      BY <2>4 DEF Covers, n
    <3>5. \A j \in 1..(n + 1) : j \in 1..n \/ j = n + 1
      BY <2>5
    <3>6. n + 1 \in 1..(n + 1) /\ \A j \in 1..n : j \in 1..(n + 1)
      BY <2>5
    <3>7. CASE Covers(r, k)
      <4>1. PICK j \in 1..(n + 1) : r[j][1] <= k /\ k < r[j][2]
        BY <3>3, <3>7
      <4> QED BY <3>1, <3>2, <3>4, <3>5, <3>7, <4>1
    <3>8. CASE ~Covers(r, k)
      <4>1. ~Covers(z, k)
        BY <3>3, <3>4, <3>6, <3>8
      <4>2. ~(from <= k /\ k < to)
        BY <3>1, <3>3, <3>6, <3>8
      <4> QED BY <3>2, <3>8, <4>1, <4>2
    <3> QED BY <3>7, <3>8
  <2> QED BY <2>6, <2>7
<1> QED BY <1>1, <1>5, <1>6, <1>7

\* kept_within covers the ticks of the kept pieces that lie in the selection,
\* but for those of pieces too short there.
LEMMA KeptSpans ==
  ASSUME NEW s \in Lists, NEW a \in Times, NEW b \in Times
  PROVE  /\ KeptWithin(s, a, b) \in SpanLists
         /\ \A k \in Int : Covers(KeptWithin(s, a, b), k) <=> \E j \in 1..Len(s) : Takes(s[j], a, b, k)
<1>1. PICK f : /\ f[0] = <<>> /\ KeptWithin(s, a, b) = f[Len(s)]
               /\ \A n \in 1..Len(s) : f[n] = Added(a, b, f[n - 1], s[n])
  BY KeptSteps
<1>2. Len(s) \in Nat /\ \A n \in 1..Len(s) : s[n] \in Segment
  BY Pieces
<1> DEFINE W(n) == /\ f[n] \in SpanLists
                   /\ \A k \in Int : Covers(f[n], k) <=> \E j \in 1..n : Takes(s[j], a, b, k)
           S == {n \in 0..Len(s) : ~W(n)}
<1>3. W(0)
  <2>1. f[0] \in SpanLists
    <3>1. <<>> \in Seq(Nat \X Nat) /\ Len(<<>>) = 0
      OBVIOUS
    <3>2. 1..0 = {}
      OBVIOUS
    <3> QED BY <1>1, <3>1, <3>2 DEF SpanLists
  <2>2. \A k \in Int : ~Covers(f[0], k)
    <3>1. Len(f[0]) = 0
      BY <1>1
    <3> QED BY <3>1 DEF Covers
  <2> QED BY <2>1, <2>2
<1>4. ASSUME NEW n \in 1..Len(s), W(n - 1)
      PROVE  W(n)
  <2>1. /\ f[n] \in SpanLists
        /\ \A k \in Int : Covers(f[n], k) <=> Covers(f[n - 1], k) \/ Takes(s[n], a, b, k)
    <3>1. f[n - 1] \in SpanLists /\ s[n] \in Segment
      BY <1>2, <1>4
    <3>2. /\ Added(a, b, f[n - 1], s[n]) \in SpanLists
          /\ \A k \in Int : Covers(Added(a, b, f[n - 1], s[n]), k)
                              <=> Covers(f[n - 1], k) \/ Takes(s[n], a, b, k)
      BY Zenon, <3>1, AddedSpans
    <3>3. f[n] = Added(a, b, f[n - 1], s[n])
      BY <1>1
    <3> QED BY <3>2, <3>3
  <2>2. \A j : j \in 1..n <=> j \in 1..(n - 1) \/ j = n
    BY <1>2
  <2>3. ASSUME NEW k \in Int
        PROVE  Covers(f[n], k) <=> \E j \in 1..n : Takes(s[j], a, b, k)
    <3>1. Covers(f[n - 1], k) <=> \E j \in 1..(n - 1) : Takes(s[j], a, b, k)
      BY <1>4
    <3>2. Covers(f[n], k) <=> Covers(f[n - 1], k) \/ Takes(s[n], a, b, k)
      BY <2>1
    <3> QED BY Zenon, <2>2, <3>1, <3>2
  <2> QED BY <2>1, <2>3
<1> HIDE DEF W
<1>5. S = {}
  <2> SUFFICES ASSUME S # {} PROVE FALSE
    OBVIOUS
  <2>1. PICK m \in S : \A k \in S : m <= k
    <3>1. S \in SUBSET Nat
      BY <1>2
    <3> HIDE DEF S
    <3> QED BY <3>1, HasLeast
  <2>2. m \in 1..Len(s)
    BY <1>2, <1>3, <2>1
  <2>3. m - 1 \in 0..Len(s) /\ ~(m <= m - 1)
    BY <1>2, <2>2
  <2>4. W(m - 1)
    BY <2>1, <2>3
  <2> QED BY <1>4, <2>1, <2>2, <2>4
<1>6. W(Len(s))
  BY <1>2, <1>5
<1> QED BY <1>1, <1>6 DEF W

LEMMA TicksCovered ==
  ASSUME NEW z \in SpanLists
  PROVE  \A k : k \in TicksOf(z) <=> k \in Int /\ Covers(z, k)
<1>1. DOMAIN z = 1..Len(z) /\ \A i \in 1..Len(z) : z[i][1] \in Nat /\ z[i][2] \in Nat
  <2>1. z \in Seq(Nat \X Nat)
    BY DEF SpanLists
  <2>2. \A i \in 1..Len(z) : z[i] \in Nat \X Nat
    BY <2>1
  <2> QED BY <2>1, <2>2
<1>2. \A k : k \in TicksOf(z) <=> \E i \in 1..Len(z) : k \in z[i][1]..(z[i][2] - 1)
  BY <1>1 DEF TicksOf
<1>3. ASSUME NEW i \in 1..Len(z)
      PROVE  \A k : k \in z[i][1]..(z[i][2] - 1) <=> k \in Int /\ z[i][1] <= k /\ k < z[i][2]
  BY <1>1
<1> QED BY <1>2, <1>3 DEF Covers

\* Where a playing position is sent is a time, and one that is not sent
\* anywhere, within the selection, is in a kept piece.
LEMMA SkipsCuts ==
  ASSUME NEW s \in Lists, NEW t \in Times, NEW out \in Times
  PROVE  /\ SkipTarget(s, t, out) \in Times \cup {NoTime}
         /\ t < out /\ SkipTarget(s, t, out) \in {NoTime, t} => t \in KeptTicks(s)
<1> DEFINE i == IndexAt(s, t)
           later == {j \in (i + 1)..Len(s) : s[j].enabled /\ s[j].end > t}
           next == CHOOSE j \in later : \A k \in later : j <= k
           to == Smaller(Larger(s[next].start, t), out)
           r == SkipTarget(s, t, out)
<1>1. /\ i \in 1..Len(s) /\ s[i].start <= t /\ t <= s[i].end /\ (t < Duration => t < s[i].end)
      /\ Len(s) \in Nat /\ \A j \in 1..Len(s) : s[j].start \in Nat /\ s[j].end \in Nat /\ s[j].start <= Duration
      /\ t \in Nat /\ out \in Nat /\ out <= Duration /\ Duration \in Nat
  BY Indexed, Pieces, Bounds
<1>2. r = IF s[i].enabled THEN NoTime ELSE IF later = {} THEN out ELSE to
  BY DEF SkipTarget
<1>3. \A j \in 1..Len(s) : i < j => s[j].start >= s[i].end
  BY <1>1, InOrder
<1>4. later # {} => next \in later
  <2> SUFFICES ASSUME later # {} PROVE next \in later
    OBVIOUS
  <2>1. later \in SUBSET Nat
    BY <1>1
  <2> HIDE DEF later
  <2>2. \E j \in later : \A k \in later : j <= k
    BY <2>1, HasLeast
  <2> QED BY <2>2
<1> HIDE DEF next, i, r
<1>5. later # {} => /\ next \in 1..Len(s) /\ i < next /\ s[next].start \in Nat /\ s[next].start <= Duration
                    /\ s[next].start >= s[i].end
  BY <1>1, <1>3, <1>4
<1> HIDE DEF later
<1>6. later # {} => to \in Times /\ (t < out => to > t)
  <2> SUFFICES ASSUME later # {} PROVE to \in Times /\ (t < out => to > t)
    OBVIOUS
  <2> DEFINE v == s[next].start
  <2>1. v \in Nat /\ v <= Duration /\ (t < Duration => t < v)
    BY <1>1, <1>5
  <2>2. to = Smaller(Larger(v, t), out)
    OBVIOUS
  <2> HIDE DEF v, to
  <2>3. to \in Nat /\ to <= Duration /\ (t < out => to > t)
    BY <1>1, <2>1, <2>2 DEF Smaller, Larger
  <2> QED BY <2>3, Bounds
<1> HIDE DEF to
<1>7. r \in Times \cup {NoTime}
  BY <1>2, <1>6
<1>8. ASSUME t < out, r \in {NoTime, t}
      PROVE  t \in KeptTicks(s)
  <2>1. s[i].enabled
    <3> SUFFICES ASSUME ~s[i].enabled PROVE FALSE
      OBVIOUS
    <3>1. r = NoTime \/ r = t
      BY <1>8
    <3>2. r = out \/ (later # {} /\ r = to)
      BY <1>2
    <3>3. to \in Times => to \in Nat
      BY Bounds
    <3> QED BY <1>1, <1>6, <1>8, <3>1, <3>2, <3>3 DEF NoTime
  <2>2. t \in s[i].start..(s[i].end - 1)
    BY <1>1, <1>8
  <2> QED BY <1>1, <2>1, <2>2, Kepts
<1> QED BY <1>7, <1>8 DEF r

-----------------------------------------------------------------------------
(* The inductive invariant.                                                *)

\* A selection of at least MIN_SEL within the clip.
GoodTimeline(tl) == tl \in Timeline /\ tl.out - tl.in >= MinSel

Players == [playing : BOOLEAN, pos : Times]

Histories == [undo : Seq(Lists), redo : Seq(Lists)]
GoodHistory(h) == h \in Histories /\ Len(h.undo) <= MaxUndo /\ Len(h.redo) <= MaxUndo

\* Exactly a drag of a cut keeps the cut list from before it.
Drags == [target : {"none", "In", "Out", "Playhead", "Cut"}, cut : Nat, undo : Lists \cup {<<>>}]
GoodDrag(d) == d \in Drags /\ (d.target = "Cut" <=> d.undo # <<>>)

EditorInv ==
  /\ GoodTimeline(timeline) /\ player \in Players
  /\ segs \in Lists /\ GoodHistory(history)
  /\ markers \in SUBSET Times /\ probed \in BOOLEAN
  /\ GoodDrag(drag)
  /\ edits \in 0..MaxEdits

LEMMA OneSpan ==
  ASSUME NEW a, NEW b
  PROVE  TicksOf(<<<<a, b>>>>) = a..(b - 1)
<1> DEFINE z == <<<<a, b>>>>
<1>1. DOMAIN z = {1} /\ z[1][1] = a /\ z[1][2] = b
  OBVIOUS
<1> HIDE DEF z
<1>2. TicksOf(z) = UNION {z[i][1]..(z[i][2] - 1) : i \in {1}}
  BY <1>1 DEF TicksOf
<1>3. TicksOf(z) = z[1][1]..(z[1][2] - 1)
  BY Zenon, <1>2
<1>4. TicksOf(z) = a..(b - 1)
  BY Zenon, <1>1, <1>3
<1> QED BY <1>4 DEF z

\* A well-formed editor exports what it shows.
LEMMA ExportHolds ==
  ASSUME EditorInv
  PROVE  ExportTicks \subseteq Kept /\ \A t \in Kept \ ExportTicks : Sliver(t)
<1> DEFINE a == timeline.in
           b == timeline.out
           K == KeptWithin(segs, a, b)
<1>1. segs \in Lists /\ a \in Times /\ b \in Times /\ a \in Nat /\ b \in Nat /\ b <= Duration /\ Duration \in Nat
  <2>1. segs \in Lists /\ timeline \in Timeline
    BY DEF EditorInv, GoodTimeline
  <2>2. a \in Times /\ b \in Times
    BY <2>1 DEF Timeline
  <2> QED BY <2>1, <2>2, Bounds
<1>2. Kept = KeptTicks(segs) \cap (a..(b - 1))
  BY DEF Kept
<1>3. CurrentTrim = IF a = 0 /\ b = Duration THEN NoSpan ELSE <<a, b>>
  BY DEF CurrentTrim, IsFull
<1>4. Spans = IF IsTrivial(segs) \/ K = <<<<a, b>>>> THEN Whole ELSE K
  BY DEF Spans, ExportSpans
<1>5. \A t : Sliver(t) <=> 2 * (Smaller(segs[IndexAt(segs, t)].end, b)
                                  - Larger(segs[IndexAt(segs, t)].start, a)) <= MinSeg
  BY DEF Sliver
<1> HIDE DEF a, b, K
<1>6. K \in SpanLists /\ \A k \in Int : Covers(K, k) <=> \E j \in 1..Len(segs) : Takes(segs[j], a, b, k)
  BY <1>1, KeptSpans DEF K
<1>7. K # Whole
  <2> SUFFICES ASSUME K = Whole PROVE FALSE
    OBVIOUS
  <2>1. Len(K) = 1 /\ K[1] = NoSpan
    BY DEF Whole
  <2>2. K \in Seq(Nat \X Nat)
    BY <1>6 DEF SpanLists
  <2>3. K[1] \in Nat \X Nat
    <3>1. \A S : K \in Seq(S) /\ 1 \in 1..Len(K) => K[1] \in S
      OBVIOUS
    <3>2. 1 \in 1..Len(K)
      BY <2>1
    <3> QED BY Zenon, <2>2, <3>1, <3>2
  <2> QED BY <2>1, <2>3 DEF NoSpan, NoTime
<1>8. ASSUME NEW k, k \in TicksOf(K)
      PROVE  k \in KeptTicks(segs) /\ k \in a..(b - 1)
  <2>1. k \in Int /\ Covers(K, k)
    BY <1>6, <1>8, TicksCovered
  <2>2. PICK j \in 1..Len(segs) : Takes(segs[j], a, b, k)
    BY <1>6, <2>1
  <2> DEFINE v == segs[j].start
             w == segs[j].end
  <2>3. v \in Nat /\ w \in Nat
    BY <1>1, Pieces
  <2>4. segs[j].enabled /\ Larger(v, a) <= k /\ k < Smaller(w, b)
    BY <2>2 DEF Takes
  <2>5. k \in v..(w - 1) /\ k \in a..(b - 1)
    <3> HIDE DEF v, w
    <3> QED BY <1>1, <2>1, <2>3, <2>4 DEF Larger, Smaller
  <2> QED BY <1>1, <2>4, <2>5, Kepts
<1>9. CASE Spans # Whole
  <2>1. ExportTicks = TicksOf(K)
    BY <1>4, <1>9 DEF ExportTicks
  <2>2. ExportTicks \subseteq Kept
    BY <1>2, <1>8, <2>1
  <2>3. ASSUME NEW t \in Kept \ ExportTicks
        PROVE  Sliver(t)
    <3>1. t \in KeptTicks(segs) /\ t \in a..(b - 1)
      BY <1>2
    <3>2. PICK j \in 1..Len(segs) : segs[j].enabled /\ t \in segs[j].start..(segs[j].end - 1)
      BY <1>1, <3>1, Kepts
    <3> DEFINE x == IndexAt(segs, t)
    <3>3. t \in Times
      BY <1>1, <3>1, Bounds
    <3>4. /\ x \in 1..Len(segs) /\ segs[x].start <= t /\ (t < Duration => t < segs[x].end)
          /\ \A i \in 1..Len(segs) : i < x => segs[i].end <= t
      BY <1>1, <3>3, Indexed
    <3> HIDE DEF x
    <3>5. j = x
      <4>1. /\ Len(segs) \in Nat /\ segs[j].start \in Nat /\ segs[j].end \in Nat
            /\ segs[x].end \in Nat /\ segs[x].start \in Nat
        BY <1>1, <3>4, Pieces
      <4>2. ~(j < x)
        BY <3>2, <3>4, <4>1
      <4>3. x < j => segs[x].end <= segs[j].start
        BY <1>1, <3>4, InOrder
      <4>4. t < segs[x].end
        BY <1>1, <3>1, <3>4
      <4>5. ~(x < j)
        BY <3>1, <3>2, <4>1, <4>3, <4>4
      <4> QED BY <3>4, <4>1, <4>2, <4>5
    <3> DEFINE v == segs[x].start
               w == segs[x].end
    <3>6. ~Takes(segs[x], a, b, t)
      <4>1. t \in Int /\ ~Covers(K, t)
        BY <1>6, <2>1, <3>1, TicksCovered
      <4> QED BY <1>6, <3>4, <4>1
    <3>7. v \in Nat /\ w \in Nat /\ segs[x].enabled /\ v <= t /\ t < w /\ a <= t /\ t < b /\ t \in Nat
      <4>1. v \in Nat /\ w \in Nat
        BY <1>1, <3>4, Pieces
      <4> QED BY <1>1, <3>1, <3>2, <3>5, <4>1
    <3>8. ~(2 * (Smaller(w, b) - Larger(v, a)) > MinSeg /\ Larger(v, a) <= t /\ t < Smaller(w, b))
      BY <3>6, <3>7 DEF Takes
    <3>9. 2 * (Smaller(w, b) - Larger(v, a)) <= MinSeg
      <4> HIDE DEF v, w
      <4> QED BY <1>1, <3>7, <3>8, Bounds DEF Larger, Smaller
    <3> QED BY <1>5, <3>9 DEF x
  <2> QED BY <2>2, <2>3
<1>10. CASE Spans = Whole
  <2>1. ExportTicks = a..(b - 1)
    <3>1. CASE a = 0 /\ b = Duration
      BY <1>3, <1>10, <3>1 DEF ExportTicks
    <3>2. CASE ~(a = 0 /\ b = Duration)
      <4>1. CurrentTrim = <<a, b>> /\ <<a, b>> # NoSpan
        BY <1>1, <1>3, <3>2 DEF NoSpan, NoTime
      <4>2. ExportTicks = TicksOf(<<<<a, b>>>>)
        BY <1>10, <4>1 DEF ExportTicks
      <4>3. TicksOf(<<<<a, b>>>>) = a..(b - 1)
        BY OneSpan
      <4> QED BY <4>2, <4>3
    <3> QED BY <3>1, <3>2
  <2>2. ExportTicks \subseteq KeptTicks(segs)
    <3>1. CASE IsTrivial(segs)
      <4>1. Len(segs) = 1 /\ segs[1].enabled /\ segs[1].start = 0 /\ segs[1].end = Duration
        BY <1>1, <3>1, Pieces DEF IsTrivial
      <4> SUFFICES ASSUME NEW k \in a..(b - 1) PROVE k \in KeptTicks(segs)
        BY <2>1
      <4>2. 1 \in 1..Len(segs) /\ k \in segs[1].start..(segs[1].end - 1)
        BY <1>1, <4>1
      <4> QED BY <1>1, <4>1, <4>2, Kepts
    <3>2. CASE K = <<<<a, b>>>>
      <4>1. TicksOf(<<<<a, b>>>>) = a..(b - 1)
        BY OneSpan
      <4> QED BY <1>8, <2>1, <3>2, <4>1
    <3> QED BY <1>4, <1>7, <1>10, <3>1, <3>2
  <2> QED BY <1>2, <2>1, <2>2
<1> QED BY <1>9, <1>10

\* A position that plays within the selection plays a kept piece.
LEMMA PlaysKept ==
  ASSUME EditorInv, player.playing, UpToDate, player.pos \in timeline.in..(timeline.out - 1)
  PROVE  player.pos \in Kept
<1> DEFINE t == player.pos
           out == timeline.out
<1>1. /\ segs \in Lists /\ timeline \in Timeline /\ player \in Players
  BY DEF EditorInv, GoodTimeline
<1>2. t \in Times /\ out \in Times /\ t \in Nat /\ out \in Nat /\ out <= Duration /\ t < out
      /\ timeline.in \in Nat /\ Duration \in Nat
  <2>1. t \in Times /\ out \in Times /\ timeline.in \in Times
    BY <1>1 DEF Timeline, Players
  <2>2. t \in Nat /\ out \in Nat /\ out <= Duration /\ timeline.in \in Nat /\ Duration \in Nat
    BY <2>1, Bounds
  <2>3. t < out
    BY <2>2
  <2> QED BY <2>1, <2>2, <2>3
<1>3. timeline.playhead = t /\ Skips(timeline) \in {NoTime, t}
  BY DEF UpToDate
<1>4. t \in KeptTicks(segs)
  <2>1. CASE IsTrivial(segs)
    <3>1. Len(segs) = 1 /\ segs[1].enabled /\ segs[1].start = 0 /\ segs[1].end = Duration
      BY <1>1, <2>1, Pieces DEF IsTrivial
    <3>2. 1 \in 1..Len(segs) /\ t \in segs[1].start..(segs[1].end - 1)
      BY <1>2, <3>1
    <3> QED BY <1>1, <3>1, <3>2, Kepts
  <2>2. CASE ~IsTrivial(segs)
    <3>1. SkipTarget(segs, t, out) \in {NoTime, t}
      BY <1>3, <2>2 DEF Skips
    <3> QED BY <1>1, <1>2, <3>1, SkipsCuts
  <2> QED BY <2>1, <2>2
<1> QED BY <1>2, <1>4 DEF Kept

-----------------------------------------------------------------------------
(* What the inputs are made of keeps its part of the invariant.            *)

LEMMA TimelineFields ==
  ASSUME NEW tl, GoodTimeline(tl)
  PROVE  /\ tl.in \in Times /\ tl.out \in Times /\ tl.playhead \in Times
         /\ tl.in \in Nat /\ tl.out \in Nat /\ tl.playhead \in Nat
         /\ tl.in <= Duration /\ tl.out <= Duration /\ tl.playhead <= Duration
<1>1. tl.in \in Times /\ tl.out \in Times /\ tl.playhead \in Times
  BY DEF GoodTimeline, Timeline
<1> QED BY <1>1, Bounds

LEMMA SetTimeline ==
  ASSUME NEW tl, GoodTimeline(tl), NEW t \in Int
  PROVE  /\ GoodTimeline(SetPlayhead(tl, t)) /\ GoodTimeline(SetIn(tl, t)) /\ GoodTimeline(SetOut(tl, t))
         /\ SetIn(tl, t).in \in Int /\ SetOut(tl, t).out \in Int
<1>1. /\ tl \in Timeline /\ tl.out - tl.in >= MinSel /\ tl.in \in Nat /\ tl.out \in Nat
      /\ tl.in <= Duration /\ tl.out <= Duration
  BY TimelineFields DEF GoodTimeline
<1>2. Duration \in Nat /\ MinSel \in Nat
  BY Bounds
<1> DEFINE p == Clamp(t)
           a == Larger(Smaller(p, tl.out - MinSel), 0)
           b == Smaller(Larger(p, tl.in + MinSel), Duration)
<1>3. p \in Times /\ p \in Nat /\ p <= Duration
  BY Clamps, Bounds
<1> HIDE DEF p
<1>4. a \in Nat /\ a <= Duration /\ tl.out - a >= MinSel
  BY <1>1, <1>2, <1>3 DEF Larger, Smaller
<1>5. b \in Nat /\ b <= Duration /\ b - tl.in >= MinSel
  BY <1>1, <1>2, <1>3 DEF Larger, Smaller
<1>6. /\ SetPlayhead(tl, t) = [tl EXCEPT !.playhead = p]
      /\ SetIn(tl, t) = [tl EXCEPT !.in = a, !.playhead = a]
      /\ SetOut(tl, t) = [tl EXCEPT !.out = b, !.playhead = b]
  BY DEF SetPlayhead, SetIn, SetOut, p
<1> HIDE DEF a, b
<1>7. a \in Times /\ b \in Times
  BY <1>4, <1>5, Bounds
<1>8. [tl EXCEPT !.playhead = p] \in Timeline /\ [tl EXCEPT !.playhead = p].in = tl.in
      /\ [tl EXCEPT !.playhead = p].out = tl.out
  BY <1>1, <1>3 DEF Timeline
<1>9. [tl EXCEPT !.in = a, !.playhead = a] \in Timeline /\ [tl EXCEPT !.in = a, !.playhead = a].in = a
      /\ [tl EXCEPT !.in = a, !.playhead = a].out = tl.out
  BY <1>1, <1>7 DEF Timeline
<1>10. [tl EXCEPT !.out = b, !.playhead = b] \in Timeline /\ [tl EXCEPT !.out = b, !.playhead = b].out = b
       /\ [tl EXCEPT !.out = b, !.playhead = b].in = tl.in
  BY <1>1, <1>7 DEF Timeline
<1>11. GoodTimeline(SetPlayhead(tl, t))
  BY <1>1, <1>6, <1>8 DEF GoodTimeline
<1>12. GoodTimeline(SetIn(tl, t)) /\ SetIn(tl, t).in \in Int
  BY <1>4, <1>6, <1>9 DEF GoodTimeline
<1>13. GoodTimeline(SetOut(tl, t)) /\ SetOut(tl, t).out \in Int
  BY <1>5, <1>6, <1>10 DEF GoodTimeline
<1> QED BY <1>11, <1>12, <1>13

LEMMA PlayerSet ==
  ASSUME NEW p \in Players, NEW t \in Int
  PROVE  [p EXCEPT !.pos = Clamp(t)] \in Players
<1>1. Clamp(t) \in Times
  BY Clamps
<1> QED BY Zenon, <1>1 DEF Players

LEMMA PausedSet ==
  ASSUME NEW p \in Players
  PROVE  Paused(p) \in Players
<1>1. [p EXCEPT !.playing = FALSE] \in Players
  BY Zenon DEF Players
<1> QED BY <1>1 DEF Paused

LEMMA SeekKeeps ==
  ASSUME NEW tl, GoodTimeline(tl), NEW t \in Int, player \in Players, SeekTo(tl, t)
  PROVE  GoodTimeline(timeline') /\ player' \in Players
<1>1. timeline' = SetPlayhead(tl, t) /\ player' = [player EXCEPT !.pos = Clamp(t)]
  BY DEF SeekTo
<1>2. GoodTimeline(SetPlayhead(tl, t))
  BY SetTimeline
<1> QED BY <1>1, <1>2, PlayerSet

LEMMA ScrubKeeps ==
  ASSUME NEW p \in Players, NEW tl, GoodTimeline(tl), NEW t \in Int, NEW force \in BOOLEAN,
         Scrub(p, tl, t, force)
  PROVE  GoodTimeline(timeline') /\ player' \in Players
<1>1. timeline' = SetPlayhead(tl, t) /\ (player' = p \/ player' = [p EXCEPT !.pos = Clamp(t)])
  BY DEF Scrub
<1>2. GoodTimeline(SetPlayhead(tl, t))
  BY SetTimeline
<1> QED BY <1>1, <1>2, PlayerSet

LEMMA ToggledKeeps ==
  ASSUME player \in Players, GoodTimeline(timeline)
  PROVE  Toggled(player) \in Players
<1>1. CASE player.playing
  BY <1>1, PausedSet DEF Toggled
<1>2. CASE ~player.playing
  <2> DEFINE pos == IF player.pos < timeline.in \/ player.pos >= timeline.out - MinSeg
                      THEN timeline.in ELSE player.pos
  <2>1. pos \in Times
    <3>1. player.pos \in Times
      BY Zenon DEF Players
    <3> QED BY <3>1, TimelineFields
  <2>2. Toggled(player) = [playing |-> TRUE, pos |-> pos]
    BY <1>2 DEF Toggled
  <2> HIDE DEF pos
  <2>3. [playing |-> TRUE, pos |-> pos] \in Players
    BY Zenon, <2>1 DEF Players
  <2> QED BY <2>2, <2>3
<1> QED BY <1>1, <1>2

LEMMA Snaps ==
  ASSUME NEW ms \in SUBSET Times, NEW t \in Times, NEW radius
  PROVE  Snap(ms, t, radius) \in Times
<1>1. NearestMarkers(ms, t, radius) \subseteq Times
  BY DEF NearestMarkers
<1> QED BY <1>1 DEF Snap

\* The history takes one more, and drops the oldest when it is full.
LEMMA Pushed ==
  ASSUME NEW x \in Seq(Lists), Len(x) <= MaxUndo, NEW e \in Lists
  PROVE  Newest(Append(x, e)) \in Seq(Lists) /\ Len(Newest(Append(x, e))) <= MaxUndo
<1> DEFINE y == Append(x, e)
<1>1. MaxUndo \in Nat
  BY EditorAssumption
<1>2. \A S : x \in Seq(S) /\ e \in S => /\ Append(x, e) \in Seq(S) /\ Len(Append(x, e)) = Len(x) + 1
                                        /\ Len(x) \in Nat /\ Append(x, e) # <<>>
  OBVIOUS
<1>3. y \in Seq(Lists) /\ Len(y) = Len(x) + 1 /\ Len(x) \in Nat /\ y # <<>>
  BY Zenon, <1>2
<1> HIDE DEF y
<1>4. \A S : y \in Seq(S) /\ y # <<>> => Tail(y) \in Seq(S) /\ Len(Tail(y)) = Len(y) - 1
  OBVIOUS
<1>5. Tail(y) \in Seq(Lists) /\ Len(Tail(y)) = Len(y) - 1
  BY Zenon, <1>3, <1>4
<1>6. Newest(y) = IF Len(y) > MaxUndo THEN Tail(y) ELSE y
  BY DEF Newest
<1>7. Newest(y) \in Seq(Lists) /\ Len(Newest(y)) <= MaxUndo
  BY <1>1, <1>3, <1>5, <1>6
<1> QED BY <1>7 DEF y

LEMMA HistoryFields ==
  ASSUME NEW h, GoodHistory(h)
  PROVE  /\ h.undo \in Seq(Lists) /\ h.redo \in Seq(Lists)
         /\ Len(h.undo) <= MaxUndo /\ Len(h.redo) <= MaxUndo
<1>1. h.undo \in Seq(Lists) /\ h.redo \in Seq(Lists)
  BY Zenon DEF GoodHistory, Histories
<1> QED BY <1>1 DEF GoodHistory

LEMMA IsHistory ==
  ASSUME NEW u \in Seq(Lists), NEW r \in Seq(Lists), Len(u) <= MaxUndo, Len(r) <= MaxUndo
  PROVE  GoodHistory([undo |-> u, redo |-> r])
<1> DEFINE h == [undo |-> u, redo |-> r]
<1>1. h \in Histories
  BY Zenon DEF Histories
<1>2. h.undo = u /\ h.redo = r
  BY Zenon
<1> HIDE DEF h
<1>3. GoodHistory(h)
  BY <1>1, <1>2 DEF GoodHistory
<1> QED BY <1>3 DEF h

LEMMA PushKeeps ==
  ASSUME NEW h, GoodHistory(h), NEW e \in Lists
  PROVE  GoodHistory(Push(h, e))
<1>1. h.undo \in Seq(Lists) /\ Len(h.undo) <= MaxUndo
  BY HistoryFields
<1>2. Newest(Append(h.undo, e)) \in Seq(Lists) /\ Len(Newest(Append(h.undo, e))) <= MaxUndo
  BY <1>1, Pushed
<1>3. <<>> \in Seq(Lists)
  OBVIOUS
<1>4. Len(<<>>) <= MaxUndo
  BY EditorAssumption
<1> QED BY <1>2, <1>3, <1>4, IsHistory DEF Push

LEMMA Popped ==
  ASSUME NEW x \in Seq(Lists), x # <<>>, Len(x) <= MaxUndo
  PROVE  Last(x) \in Lists /\ Front(x) \in Seq(Lists) /\ Len(Front(x)) <= MaxUndo
<1>1. Len(x) \in Nat /\ Front(x) \in Seq(Lists) /\ Len(Front(x)) = Len(x) - 1 /\ Last(x) \in Lists
  BY Fronts
<1>2. MaxUndo \in Nat
  BY EditorAssumption
<1> QED BY <1>1, <1>2

LEMMA UndoKeeps ==
  ASSUME segs \in Lists, GoodHistory(history), UndoCut \/ RedoCut
  PROVE  segs' \in Lists /\ GoodHistory(history')
<1>1. /\ history.undo \in Seq(Lists) /\ history.redo \in Seq(Lists)
      /\ Len(history.undo) <= MaxUndo /\ Len(history.redo) <= MaxUndo
  BY HistoryFields
<1>2. CASE UndoCut /\ CanUndo
  <2>1. /\ segs' = Last(history.undo)
        /\ history' = [undo |-> Front(history.undo), redo |-> Newest(Append(history.redo, segs))]
    BY <1>2 DEF UndoCut
  <2>2. /\ Last(history.undo) \in Lists /\ Front(history.undo) \in Seq(Lists)
        /\ Len(Front(history.undo)) <= MaxUndo
    BY <1>1, <1>2, Popped DEF CanUndo
  <2>3. /\ Newest(Append(history.redo, segs)) \in Seq(Lists)
        /\ Len(Newest(Append(history.redo, segs))) <= MaxUndo
    BY <1>1, Pushed
  <2> QED BY <2>1, <2>2, <2>3, IsHistory
<1>3. CASE RedoCut /\ CanRedo
  <2>1. /\ segs' = Last(history.redo)
        /\ history' = [undo |-> Newest(Append(history.undo, segs)), redo |-> Front(history.redo)]
    BY <1>3 DEF RedoCut
  <2>2. /\ Last(history.redo) \in Lists /\ Front(history.redo) \in Seq(Lists)
        /\ Len(Front(history.redo)) <= MaxUndo
    BY <1>1, <1>3, Popped DEF CanRedo
  <2>3. /\ Newest(Append(history.undo, segs)) \in Seq(Lists)
        /\ Len(Newest(Append(history.undo, segs))) <= MaxUndo
    BY <1>1, Pushed
  <2> QED BY <2>1, <2>2, <2>3, IsHistory
<1>4. CASE UndoCut /\ ~CanUndo
  BY <1>4 DEF UndoCut
<1>5. CASE RedoCut /\ ~CanRedo
  BY <1>5 DEF RedoCut
<1> QED BY <1>2, <1>3, <1>4, <1>5

LEMMA EditKeeps ==
  ASSUME segs \in Lists, GoodHistory(history), NEW new \in Lists, NEW reports, EditCuts(new, reports)
  PROVE  segs' \in Lists /\ GoodHistory(history')
<1>1. segs' = new /\ (history' = history \/ history' = Push(history, segs))
  BY DEF EditCuts
<1> QED BY <1>1, PushKeeps

-----------------------------------------------------------------------------
(* The steps.                                                              *)

\* What an action that only moves, and one that only edits, keeps.
LEMMA MovesKeep ==
  ASSUME EditorInv, GoodTimeline(timeline'), player' \in Players,
         UNCHANGED <<cutVars, markers, probed, drag, edits>>
  PROVE  EditorInv'
<1> QED BY DEF EditorInv, cutVars

LEMMA EditsKeep ==
  ASSUME EditorInv, segs' \in Lists, GoodHistory(history'), edits' \in 0..MaxEdits,
         UNCHANGED <<timeline, markers, probed, drag, player>>
  PROVE  EditorInv'
<1> QED BY DEF EditorInv

LEMMA EditBound ==
  ASSUME EditorInv, Edit
  PROVE  edits' \in 0..MaxEdits
<1>1. MaxEdits \in Nat
  BY EditorAssumption
<1> QED BY <1>1 DEF EditorInv, Edit

LEMMA Now ==
  ASSUME EditorInv
  PROVE  /\ GoodTimeline(timeline) /\ player \in Players /\ segs \in Lists /\ GoodHistory(history)
         /\ markers \in SUBSET Times /\ GoodDrag(drag)
         /\ timeline.playhead \in Times /\ timeline.playhead \in Int
         /\ timeline.in \in Int /\ timeline.out \in Int
         /\ timeline.in \in Times /\ timeline.out \in Times
         /\ player.pos \in Times /\ player.pos \in Int
<1>1. GoodTimeline(timeline) /\ player \in Players /\ segs \in Lists /\ GoodHistory(history)
      /\ markers \in SUBSET Times /\ GoodDrag(drag)
  BY DEF EditorInv
<1>2. player.pos \in Times
  BY Zenon, <1>1 DEF Players
<1>3. timeline.playhead \in Times /\ timeline.in \in Times /\ timeline.out \in Times
  BY <1>1, TimelineFields
<1>4. Times \subseteq Int
  BY DEF Times
<1> QED BY <1>1, <1>2, <1>3, <1>4

LEMMA FrameKeeps ==
  ASSUME EditorInv, Frame
  PROVE  EditorInv'
<1>1. PICK pos : /\ pos \in {player.pos, player.pos + 1}
                 /\ LET tl == SetPlayhead(timeline, pos)
                        to == IF Skips(tl) = NoTime THEN pos ELSE Skips(tl)
                    IN  SeekTo(tl, to)
                 /\ UNCHANGED <<cutVars, markers, probed, drag, edits>>
  BY DEF Frame
<1> DEFINE tl == SetPlayhead(timeline, pos)
           to == IF Skips(tl) = NoTime THEN pos ELSE Skips(tl)
<1>2. pos \in Int
  BY <1>1, Now
<1>3. GoodTimeline(tl)
  BY <1>2, Now, SetTimeline
<1>4. SeekTo(tl, to)
  BY <1>1
<1>5. to \in Int
  <2> HIDE DEF tl
  <2>1. tl.playhead \in Times /\ tl.out \in Times
    BY <1>3, TimelineFields
  <2>2. SkipTarget(segs, tl.playhead, tl.out) \in Times \cup {NoTime}
    BY <2>1, Now, SkipsCuts
  <2>3. Skips(tl) \in Times \cup {NoTime}
    BY <2>2 DEF Skips
  <2>4. Skips(tl) \in Int
    BY <2>3 DEF NoTime, Times
  <2> QED BY <1>2, <2>4
<1> HIDE DEF tl, to
<1>6. GoodTimeline(timeline') /\ player' \in Players
  BY <1>3, <1>4, <1>5, Now, SeekKeeps
<1> QED BY <1>1, <1>6, MovesKeep

LEMMA PlayerStepsKeep ==
  ASSUME EditorInv, AtOut \/ Stall
  PROVE  EditorInv'
<1>1. UNCHANGED <<timeline, cutVars, markers, probed, drag, edits>>
  BY DEF AtOut, Stall
<1>2. \A t \in Times : [player EXCEPT !.pos = t] \in Players
  BY Zenon, Now DEF Players
<1>3. player' \in Players
  <2>1. CASE AtOut
    <3>1. \/ player' = [player EXCEPT !.pos = timeline.in]
          \/ player' = Paused([player EXCEPT !.pos = timeline.out])
      BY <2>1 DEF AtOut
    <3> QED BY <1>2, <3>1, Now, PausedSet
  <2>2. CASE Stall
    BY <2>2, Now, PausedSet DEF Stall
  <2> QED BY <2>1, <2>2
<1>4. GoodTimeline(timeline')
  BY <1>1, Now
<1> QED BY <1>1, <1>3, <1>4, MovesKeep

LEMMA MarkersKeep ==
  ASSUME EditorInv, ChaptersArrive \/ MarkerKey
  PROVE  EditorInv'
<1>1. Chapters \in SUBSET Times
  BY EditorAssumption
<1>2. edits' \in 0..MaxEdits
  BY EditBound DEF ChaptersArrive, MarkerKey
<1>3. markers' \in SUBSET Times
  <2>1. markers \in SUBSET Times /\ timeline.playhead \in Times
    BY Now
  <2> QED BY <1>1, <2>1 DEF ChaptersArrive, MarkerKey
<1>4. probed' \in BOOLEAN
  BY DEF ChaptersArrive, MarkerKey, EditorInv
<1>5. UNCHANGED <<timeline, cutVars, drag, player>>
  BY DEF ChaptersArrive, MarkerKey
<1> QED BY <1>2, <1>3, <1>4, <1>5 DEF EditorInv, cutVars

LEMMA KeyMoveKeeps ==
  ASSUME EditorInv, KeyMove
  PROVE  EditorInv'
<1>1. UNCHANGED <<cutVars, markers, probed, drag, edits>>
  BY DEF KeyMove
<1> DEFINE ph == timeline.playhead
<1>2. ph \in Int /\ ph \in Times /\ timeline.in \in Int /\ timeline.out \in Int
      /\ GoodTimeline(timeline) /\ player \in Players /\ markers \in SUBSET Times
  BY Now
<1>3. GoodTimeline(timeline') /\ player' \in Players
  <2>1. CASE player' = Toggled(player) /\ UNCHANGED timeline
    BY <1>2, <2>1, ToggledKeeps
  <2>2. CASE \E d \in Steps : SeekTo(timeline, ph + d) \/ SeekTo(timeline, ph - d)
    <3>1. PICK d \in Steps : SeekTo(timeline, ph + d) \/ SeekTo(timeline, ph - d)
      BY <2>2
    <3>2. ph + d \in Int /\ ph - d \in Int
      BY <1>2, EditorAssumption
    <3> QED BY <1>2, <3>1, <3>2, SeekKeeps
  <2>3. CASE SeekTo(timeline, timeline.in) \/ SeekTo(timeline, timeline.out)
    BY <1>2, <2>3, SeekKeeps
  <2>4. CASE \E m \in markers : SeekTo(timeline, m)
    <3>1. PICK m \in markers : SeekTo(timeline, m)
      BY <2>4
    <3>2. m \in Int
      BY <1>2, Bounds
    <3> QED BY <1>2, <3>1, <3>2, SeekKeeps
  <2>5. CASE SeekTo(SetIn(timeline, ph), SetIn(timeline, ph).in)
    BY <1>2, <2>5, SetTimeline, SeekKeeps
  <2>6. CASE SeekTo(SetOut(timeline, ph), SetOut(timeline, ph).out)
    BY <1>2, <2>6, SetTimeline, SeekKeeps
  <2> QED BY <2>1, <2>2, <2>3, <2>4, <2>5, <2>6 DEF KeyMove, Moves, PrevMarkers, NextMarkers
<1> QED BY <1>1, <1>3, MovesKeep

LEMMA EditKeyKeeps ==
  ASSUME EditorInv, EditKey
  PROVE  EditorInv'
<1> DEFINE ph == timeline.playhead
<1>1. UNCHANGED <<timeline, markers, probed, drag, player>> /\ edits' \in 0..MaxEdits
  BY EditBound DEF EditKey
<1>2. segs \in Lists /\ GoodHistory(history) /\ ph \in Times /\ ph \in Int
  BY Now
<1> HIDE DEF ph
<1>3. SplitAt(segs, ph) \in Lists /\ ToggleAt(segs, ph) \in Lists /\ JoinAt(segs, ph) \in Lists
  BY <1>2, SplitList, ToggledList, JoinedList
<1>4. \/ EditCuts(SplitAt(segs, ph), SplitAt(segs, ph) # segs)
      \/ EditCuts(ToggleAt(segs, ph), TRUE)
      \/ EditCuts(JoinAt(segs, ph), Cuts(segs) # {})
  BY DEF EditKey, ph
<1>5. segs' \in Lists /\ GoodHistory(history')
  BY <1>2, <1>3, <1>4, EditKeeps
<1> QED BY <1>1, <1>5, EditsKeep

LEMMA UndoKeyKeeps ==
  ASSUME EditorInv, UndoKey
  PROVE  EditorInv'
<1>1. UndoCut \/ RedoCut
  BY DEF UndoKey
<1>2. segs' \in Lists /\ GoodHistory(history')
  BY <1>1, Now, UndoKeeps
<1>3. UNCHANGED <<timeline, markers, probed, drag, player>> /\ edits' \in 0..MaxEdits
  BY DEF UndoKey, EditorInv
<1> QED BY <1>2, <1>3, EditsKeep

LEMMA TransportKeeps ==
  ASSUME EditorInv, Transport
  PROVE  EditorInv'
<1>1. UNCHANGED <<cutVars, markers, probed, drag, edits>>
  BY DEF Transport
<1>2. GoodTimeline(timeline') /\ player' \in Players
  <2>1. CASE player' = Toggled(player) /\ UNCHANGED timeline
    BY <2>1, Now, ToggledKeeps
  <2>2. CASE \E t \in {timeline.in, timeline.out, timeline.playhead - 1, timeline.playhead + 1} :
               SeekTo(timeline, t)
    <3>1. PICK t \in {timeline.in, timeline.out, timeline.playhead - 1, timeline.playhead + 1} :
            SeekTo(timeline, t)
      BY <2>2
    <3>2. t \in Int
      BY <3>1, Now
    <3> QED BY <3>1, <3>2, Now, SeekKeeps
  <2> QED BY <2>1, <2>2 DEF Transport
<1> QED BY <1>1, <1>2, MovesKeep

LEMMA CutSelectionKeeps ==
  ASSUME EditorInv, CutSelection
  PROVE  EditorInv'
<1> DEFINE a == timeline.in
           b == timeline.out
           tl == SetIn(SetOut(timeline, Duration), 0)
<1>1. a \in Times /\ b \in Times /\ a \in Int /\ segs \in Lists /\ GoodHistory(history)
      /\ GoodTimeline(timeline) /\ player \in Players
  BY Now
<1>2. /\ EditCuts(CutRange(segs, a, b), CutRangeReports(segs, a, b))
      /\ SeekTo(tl, a)
      /\ UNCHANGED <<markers, probed, drag>>
  BY DEF CutSelection
<1> HIDE DEF a, b
<1>3. CutRange(segs, a, b) \in Lists
  BY <1>1, CutsRange
<1>4. segs' \in Lists /\ GoodHistory(history')
  BY <1>1, <1>2, <1>3, EditKeeps
<1>5. Duration \in Int /\ 0 \in Int
  BY Bounds
<1>6. GoodTimeline(tl)
  BY <1>1, <1>5, SetTimeline
<1> HIDE DEF tl
<1>7. GoodTimeline(timeline') /\ player' \in Players
  BY <1>1, <1>2, <1>6, SeekKeeps
<1>8. edits' \in 0..MaxEdits
  BY EditBound DEF CutSelection
<1> QED BY <1>2, <1>4, <1>7, <1>8 DEF EditorInv

LEMMA ToolsKeep ==
  ASSUME EditorInv, Tools
  PROVE  EditorInv'
<1> DEFINE ph == timeline.playhead
<1>1. segs \in Lists /\ GoodHistory(history) /\ ph \in Times /\ ph \in Int
  BY Now
<1>2. CASE CutSelection
  BY <1>2, CutSelectionKeeps
<1>3. CASE ~CutSelection
  <2>1. UNCHANGED <<timeline, probed, drag, player>>
    BY <1>3 DEF Tools
  <2>2. CASE /\ Edit /\ UNCHANGED markers
             /\ \/ EditCuts(SplitAt(segs, ph), SplitAt(segs, ph) # segs)
                \/ EditCuts(ToggleAt(segs, ph), TRUE)
                \/ EditCuts(NewSegments, TRUE)
    <3> HIDE DEF ph
    <3>1. SplitAt(segs, ph) \in Lists /\ ToggleAt(segs, ph) \in Lists /\ NewSegments \in Lists
      BY <1>1, SplitList, ToggledList, NewList
    <3>2. segs' \in Lists /\ GoodHistory(history')
      BY <1>1, <2>2, <3>1, EditKeeps
    <3> QED BY <2>1, <2>2, <3>2, EditBound, EditsKeep
  <2>3. CASE UNCHANGED <<markers, edits>> /\ (UndoCut \/ RedoCut)
    <3>1. segs' \in Lists /\ GoodHistory(history')
      BY <1>1, <2>3, UndoKeeps
    <3> QED BY <2>1, <2>3, <3>1 DEF EditorInv
  <2>4. CASE Edit /\ markers' = markers \cup {ph} /\ UNCHANGED cutVars
    <3>1. markers' \in SUBSET Times
      BY <1>1, <2>4, Now
    <3> QED BY <2>1, <2>4, <3>1, EditBound DEF EditorInv, cutVars
  <2> QED BY <1>3, <2>2, <2>3, <2>4 DEF Tools
<1> QED BY <1>2, <1>3

LEMMA TypeTimeKeeps ==
  ASSUME EditorInv, NEW field \in {"In", "Out", "Playhead"}, NEW t \in Times, TypeTime(field, t)
  PROVE  EditorInv'
<1> DEFINE tl == CASE field = "In" -> SetIn(timeline, t)
                   [] field = "Out" -> SetOut(timeline, t)
                   [] field = "Playhead" -> SetPlayhead(timeline, t)
<1>1. SeekTo(tl, tl.playhead) /\ UNCHANGED <<cutVars, markers, probed, drag, edits>>
  BY DEF TypeTime
<1>2. t \in Int
  BY Bounds
<1>3. GoodTimeline(tl)
  <2>1. /\ GoodTimeline(SetIn(timeline, t)) /\ GoodTimeline(SetOut(timeline, t))
        /\ GoodTimeline(SetPlayhead(timeline, t))
    BY <1>2, Now, SetTimeline
  <2>2. tl \in {SetIn(timeline, t), SetOut(timeline, t), SetPlayhead(timeline, t)}
    OBVIOUS
  <2> HIDE DEF tl
  <2> QED BY <2>1, <2>2
<1> HIDE DEF tl
<1>4. tl.playhead \in Int
  BY <1>3, TimelineFields
<1>5. GoodTimeline(timeline') /\ player' \in Players
  BY <1>1, <1>3, <1>4, Now, SeekKeeps
<1> QED BY <1>1, <1>5, MovesKeep

LEMMA ClickKeeps ==
  ASSUME EditorInv, NEW t \in Times, Click(t)
  PROVE  EditorInv'
<1>1. SeekTo(timeline, Snap(markers, t, SnapRadius)) /\ UNCHANGED <<cutVars, markers, probed, drag, edits>>
  BY DEF Click
<1>2. Snap(markers, t, SnapRadius) \in Int
  <2>1. Snap(markers, t, SnapRadius) \in Times
    BY Now, Snaps
  <2> QED BY <2>1 DEF Times
<1>3. GoodTimeline(timeline') /\ player' \in Players
  BY <1>1, <1>2, Now, SeekKeeps
<1> QED BY <1>1, <1>3, MovesKeep

LEMMA RightClickKeeps ==
  ASSUME EditorInv, NEW t \in Times, RightClick(t)
  PROVE  EditorInv'
<1> DEFINE close == {i \in Cuts(segs) : Apart(segs[i].start, t) <= Grab}
           c == segs[NearestCut(segs, t)].start
<1>1. segs \in Lists /\ GoodHistory(history) /\ t \in Int
  BY Now, Bounds
<1>2. UNCHANGED <<timeline, markers, probed, drag, player>> /\ edits' \in 0..MaxEdits
  BY EditBound DEF RightClick
<1>3. \/ Cuts(segs) # {} /\ EditCuts(JoinAt(segs, c), TRUE)
      \/ EditCuts(ToggleAt(segs, t), TRUE)
  BY DEF RightClick
<1>4. Cuts(segs) # {} => JoinAt(segs, c) \in Lists
  <2> SUFFICES ASSUME Cuts(segs) # {} PROVE JoinAt(segs, c) \in Lists
    OBVIOUS
  <2> DEFINE i == NearestCut(segs, t)
  <2>1. i \in Cuts(segs)
    BY <1>1, NearestIsCut
  <2> HIDE DEF i
  <2>2. i \in 1..Len(segs)
    BY <1>1, <2>1, Pieces DEF Cuts
  <2>3. segs[i].start \in Int
    BY <1>1, <2>2, Pieces
  <2>4. JoinAt(segs, segs[i].start) \in Lists
    BY <1>1, <2>3, JoinedList
  <2> QED BY <2>4 DEF i
<1>5. ToggleAt(segs, t) \in Lists
  BY <1>1, ToggledList
<1> HIDE DEF c
<1>6. segs' \in Lists /\ GoodHistory(history')
  BY <1>1, <1>3, <1>4, <1>5, EditKeeps
<1> QED BY <1>2, <1>6, EditsKeep

\* What the pointer takes hold of.
LEMMA GrabbedGood ==
  ASSUME EditorInv, NEW t \in Times
  PROVE  /\ GoodDrag(Grabbed(t)) /\ Grabbed(t).target # "none"
         /\ Grabbed(t).target = "Cut" <=> Grabbed(t).undo # <<>>
         /\ Grabbed(t).undo # <<>> => Grabbed(t).undo = segs
<1> DEFINE g == Grabbed(t)
           n == NearestCut(segs, t)
           held(x) == [target |-> x, cut |-> 0, undo |-> <<>>]
           cut == [target |-> "Cut", cut |-> n, undo |-> segs]
<1>1. segs \in Lists /\ segs # <<>> /\ t \in Int /\ Len(segs) \in Nat
  BY Now, Bounds, Pieces
<1>2. \A x \in {"In", "Out", "Playhead"} : [NoDrag EXCEPT !.target = x] = held(x)
  BY DEF NoDrag
<1>3. \/ g \in {held("In"), held("Out"), held("Playhead")}
      \/ Cuts(segs) # {} /\ g = cut
  <2> HIDE DEF held, n
  <2> QED BY <1>2 DEF Grabbed, n
<1>4. ASSUME NEW x \in {"In", "Out", "Playhead"}, g = held(x)
      PROVE  GoodDrag(g) /\ g.target # "none" /\ (g.target = "Cut" <=> g.undo # <<>>) /\ g.undo = <<>>
  <2>1. g.target = x /\ g.cut = 0 /\ g.undo = <<>>
    BY <1>4
  <2>2. held(x) \in Drags
    <3>1. x \in {"none", "In", "Out", "Playhead", "Cut"} /\ 0 \in Nat /\ <<>> \in Lists \cup {<<>>}
      OBVIOUS
    <3> QED BY Zenon, <3>1 DEF Drags
  <2>3. g \in Drags
    BY <1>4, <2>2
  <2> HIDE DEF g
  <2>4. x # "Cut" /\ x # "none"
    OBVIOUS
  <2> QED BY <2>1, <2>3, <2>4 DEF GoodDrag
<1>5. ASSUME Cuts(segs) # {}, g = cut
      PROVE  GoodDrag(g) /\ g.target # "none" /\ (g.target = "Cut" <=> g.undo # <<>>) /\ g.undo = segs
  <2>1. g.target = "Cut" /\ g.cut = n /\ g.undo = segs
    BY <1>5
  <2>2. n \in Nat
    <3>1. n \in Cuts(segs)
      BY <1>1, <1>5, NearestIsCut
    <3> HIDE DEF n
    <3> QED BY <1>1, <3>1 DEF Cuts
  <2> HIDE DEF n
  <2>3. cut \in Drags
    <3>1. "Cut" \in {"none", "In", "Out", "Playhead", "Cut"} /\ segs \in Lists \cup {<<>>}
      BY <1>1
    <3> QED BY Zenon, <2>2, <3>1 DEF Drags
  <2>4. g \in Drags
    BY <1>5, <2>3
  <2> HIDE DEF g
  <2> QED BY <1>1, <2>1, <2>4 DEF GoodDrag
<1> HIDE DEF g, held, cut
<1>6. CASE g \in {held("In"), held("Out"), held("Playhead")}
  <2>1. PICK x \in {"In", "Out", "Playhead"} : g = held(x)
    BY <1>6
  <2>2. GoodDrag(g) /\ g.target # "none" /\ (g.target = "Cut" <=> g.undo # <<>>) /\ g.undo = <<>>
    BY <1>4, <2>1
  <2> QED BY <2>2 DEF g
<1>7. CASE Cuts(segs) # {} /\ g = cut
  BY <1>5, <1>7 DEF g
<1> QED BY <1>3, <1>6, <1>7

LEMMA PullKeeps ==
  ASSUME EditorInv, NEW p \in Players, NEW held, GoodDrag(held), held.target # "none", NEW t \in Times,
         NEW force \in BOOLEAN, Pull(p, held, t, force)
  PROVE  segs' \in Lists /\ GoodTimeline(timeline') /\ player' \in Players
<1>1. segs \in Lists /\ GoodTimeline(timeline) /\ t \in Int
  BY Now, Bounds
<1>2. held.cut \in Nat /\ held.target \in {"none", "In", "Out", "Playhead", "Cut"}
  BY Zenon DEF GoodDrag, Drags
<1>3. segs' \in Lists
  <2>1. MoveCut(segs, held.cut, t) \in Lists
    BY <1>1, <1>2, MovedList
  <2> QED BY <1>1, <2>1 DEF Pull
<1>4. GoodTimeline(timeline') /\ player' \in Players
  <2>1. CASE held.target = "In"
    <3>1. Scrub(p, SetIn(timeline, t), SetIn(timeline, t).in, force)
      BY <2>1 DEF Pull
    <3> QED BY <1>1, <3>1, SetTimeline, ScrubKeeps
  <2>2. CASE held.target = "Out"
    <3>1. Scrub(p, SetOut(timeline, t), SetOut(timeline, t).out, force)
      BY <2>2 DEF Pull
    <3> QED BY <1>1, <3>1, SetTimeline, ScrubKeeps
  <2>3. CASE held.target = "Playhead"
    <3>1. Scrub(p, timeline, t, force)
      BY <2>3 DEF Pull
    <3> QED BY <1>1, <3>1, ScrubKeeps
  <2>4. CASE held.target = "Cut"
    <3> DEFINE i == held.cut
    <3>1. IF Movable(segs, i) THEN Scrub(p, timeline, MovedTo(segs, i, t), force)
          ELSE timeline' = timeline /\ player' = p
      BY <2>4 DEF Pull
    <3>2. i \in Nat
      BY <1>2
    <3> HIDE DEF i
    <3>3. CASE Movable(segs, i)
      <4>1. MovedTo(segs, i, t) \in Int
        <5>1. MovedTo(segs, i, t) \in Times
          BY <1>1, <3>2, <3>3, MovedCut
        <5> QED BY <5>1 DEF Times
      <4>2. Scrub(p, timeline, MovedTo(segs, i, t), force)
        BY <3>1, <3>3
      <4> QED BY <1>1, <4>1, <4>2, ScrubKeeps
    <3>4. CASE ~Movable(segs, i)
      BY <1>1, <3>1, <3>4
    <3> QED BY <3>3, <3>4
  <2> QED BY <1>2, <2>1, <2>2, <2>3, <2>4
<1> QED BY <1>3, <1>4

LEMMA DragKeeps ==
  ASSUME EditorInv, NEW t \in Times, DragStart(t) \/ DragMove(t)
  PROVE  EditorInv'
<1> DEFINE snap == Snap(markers, t, SnapRadius)
           g == Grabbed(t)
<1>1. snap \in Times
  BY Now, Snaps
<1>2. GoodDrag(g) /\ g.target # "none"
  BY GrabbedGood
<1> HIDE DEF snap, g
<1>3. CASE DragStart(t)
  <2>1. /\ IF g.target = "Cut" THEN Edit ELSE NoEdit
        /\ drag' = g /\ Pull(Paused(player), g, snap, TRUE) /\ UNCHANGED <<history, markers, probed>>
    BY <1>3 DEF DragStart, snap, g
  <2>2. Paused(player) \in Players
    BY Now, PausedSet
  <2>3. segs' \in Lists /\ GoodTimeline(timeline') /\ player' \in Players
    BY <1>1, <1>2, <2>1, <2>2, PullKeeps
  <2>4. edits' \in 0..MaxEdits
    BY <2>1, EditBound DEF EditorInv, NoEdit
  <2>5. GoodDrag(drag')
    BY <1>2, <2>1
  <2> QED BY <2>1, <2>3, <2>4, <2>5 DEF EditorInv
<1>4. CASE DragMove(t)
  <2>1. /\ drag.target # "none" /\ Pull(player, drag, snap, FALSE)
        /\ UNCHANGED <<history, markers, probed, drag, edits>>
    BY <1>4 DEF DragMove, Dragging, snap
  <2>2. segs' \in Lists /\ GoodTimeline(timeline') /\ player' \in Players
    BY <1>1, <2>1, Now, PullKeeps
  <2> QED BY <2>1, <2>2 DEF EditorInv
<1> QED BY <1>3, <1>4

LEMMA DragStopKeeps ==
  ASSUME EditorInv, DragStop
  PROVE  EditorInv'
<1>1. /\ drag' = NoDrag /\ Scrub(player, timeline, timeline.playhead, TRUE)
      /\ history' \in {history, Push(history, drag.undo)}
      /\ drag.undo = <<>> => history' = history
      /\ UNCHANGED <<segs, markers, probed, edits>>
  BY DEF DragStop
<1>2. GoodTimeline(timeline') /\ player' \in Players
  BY <1>1, Now, ScrubKeeps
<1>3. GoodHistory(history')
  <2>1. drag.undo \in Lists \cup {<<>>}
    BY Zenon, Now DEF GoodDrag, Drags
  <2>2. CASE drag.undo = <<>>
    BY <1>1, <2>2, Now
  <2>3. CASE drag.undo # <<>>
    <3>1. drag.undo \in Lists
      BY <2>1, <2>3
    <3>2. GoodHistory(Push(history, drag.undo))
      BY <3>1, Now, PushKeeps
    <3> QED BY <1>1, <3>2, Now
  <2> QED BY <2>2, <2>3
<1>4. GoodDrag(drag')
  <2>1. NoDrag \in Drags
    <3>1. "none" \in {"none", "In", "Out", "Playhead", "Cut"} /\ 0 \in Nat /\ <<>> \in Lists \cup {<<>>}
      OBVIOUS
    <3> QED BY Zenon, <3>1 DEF NoDrag, Drags
  <2>2. NoDrag.target = "none" /\ NoDrag.undo = <<>>
    BY DEF NoDrag
  <2>3. GoodDrag(NoDrag)
    BY <2>1, <2>2 DEF GoodDrag
  <2> QED BY <1>1, <2>3
<1> QED BY <1>1, <1>2, <1>3, <1>4 DEF EditorInv

LEMMA EditorStarts ==
  Init => EditorInv
<1> SUFFICES ASSUME Init PROVE EditorInv
  OBVIOUS
<1>1. GoodTimeline(timeline)
  <2>1. NewTimeline \in Timeline /\ NewTimeline.out - NewTimeline.in >= MinSel
    BY Bounds DEF NewTimeline, Timeline
  <2> QED BY <2>1 DEF Init, GoodTimeline
<1>2. player \in Players
  BY Bounds DEF Init, Players
<1>3. GoodHistory(history)
  <2>1. <<>> \in Seq(Lists)
    OBVIOUS
  <2>2. Len(<<>>) <= MaxUndo
    BY EditorAssumption
  <2> QED BY <2>1, <2>2, IsHistory DEF Init
<1>4. GoodDrag(drag)
  <2>1. NoDrag \in Drags
    <3>1. "none" \in {"none", "In", "Out", "Playhead", "Cut"} /\ 0 \in Nat /\ <<>> \in Lists \cup {<<>>}
      OBVIOUS
    <3> QED BY Zenon, <3>1 DEF NoDrag, Drags
  <2>2. NoDrag.target = "none" /\ NoDrag.undo = <<>>
    BY DEF NoDrag
  <2>3. GoodDrag(NoDrag)
    BY <2>1, <2>2 DEF GoodDrag
  <2> QED BY <2>3 DEF Init
<1>5. segs \in Lists /\ markers \in SUBSET Times /\ probed \in BOOLEAN /\ edits \in 0..MaxEdits
  <2>1. MaxEdits \in Nat
    BY EditorAssumption
  <2>2. segs = NewSegments /\ markers = {} /\ edits = 0
    BY DEF Init
  <2>3. probed = FALSE
    BY DEF Init
  <2>4. edits \in 0..MaxEdits
    BY <2>1, <2>2
  <2> QED BY <2>2, <2>3, <2>4, NewList
<1> QED BY <1>1, <1>2, <1>3, <1>4, <1>5 DEF EditorInv

LEMMA EditorStep ==
  EditorInv /\ [Next]_vars => EditorInv'
<1> SUFFICES ASSUME EditorInv, [Next]_vars
             PROVE  EditorInv'
  OBVIOUS
<1>1. CASE Frame
  BY <1>1, FrameKeeps
<1>2. CASE AtOut \/ Stall
  BY <1>2, PlayerStepsKeep
<1>3. CASE ChaptersArrive \/ MarkerKey
  BY <1>3, MarkersKeep
<1>4. CASE KeyMove
  BY <1>4, KeyMoveKeeps
<1>5. CASE EditKey
  BY <1>5, EditKeyKeeps
<1>6. CASE UndoKey
  BY <1>6, UndoKeyKeeps
<1>7. CASE Transport
  BY <1>7, TransportKeeps
<1>8. CASE Tools
  BY <1>8, ToolsKeep
<1>9. CASE Pointer
  BY <1>9, DragKeeps, DragStopKeeps, ClickKeeps, RightClickKeeps, TypeTimeKeeps DEF Pointer
<1>10. CASE UNCHANGED vars
  BY <1>10 DEF vars, EditorInv, cutVars
<1> QED BY <1>1, <1>2, <1>3, <1>4, <1>5, <1>6, <1>7, <1>8, <1>9, <1>10 DEF Next

LEMMA EditorInvariant ==
  Spec => []EditorInv
<1>1. Init => EditorInv
  BY EditorStarts
<1>2. EditorInv /\ [Next]_vars => EditorInv'
  BY EditorStep
<1> QED BY <1>1, <1>2, PTL DEF Spec

-----------------------------------------------------------------------------
(* The theorems.                                                           *)

LEMMA InvImpliesType ==
  EditorInv => TypeOK
<1> SUFFICES ASSUME EditorInv PROVE TypeOK
  OBVIOUS
<1>1. \A x : x \in Lists => CutLists(x)
  BY DEF Lists
<1>2. GoodTimeline(timeline) /\ segs \in Lists /\ GoodHistory(history) /\ GoodDrag(drag)
  BY Now
<1>3. \A s \in ToSet(history.undo) \cup ToSet(history.redo) : CutLists(s)
  <2>1. \A x \in Seq(Lists) : \A s \in ToSet(x) : s \in Lists
    <3>1. \A S : \A x \in Seq(S) : \A i \in DOMAIN x : x[i] \in S
      OBVIOUS
    <3> QED BY Zenon, <3>1 DEF ToSet
  <2>2. history.undo \in Seq(Lists) /\ history.redo \in Seq(Lists)
    BY <1>2, HistoryFields
  <2> QED BY Zenon, <1>1, <2>1, <2>2
<1>4. Len(history.undo) <= MaxUndo /\ Len(history.redo) <= MaxUndo
  BY <1>2, HistoryFields
<1>5. /\ drag.target \in {"none", "In", "Out", "Playhead", "Cut"} /\ drag.cut \in Nat
      /\ drag.undo \in Lists \cup {<<>>}
  BY Zenon, <1>2 DEF GoodDrag, Drags
<1>6. drag.undo = <<>> \/ CutLists(drag.undo)
  BY Zenon, <1>1, <1>5
<1>7. timeline \in Timeline /\ timeline.out - timeline.in >= MinSel
  BY <1>2 DEF GoodTimeline
<1>8. player \in [playing : BOOLEAN, pos : Times]
  BY Now DEF Players
<1>9. CutLists(segs) /\ markers \subseteq Times /\ probed \in BOOLEAN /\ edits \in 0..MaxEdits
  BY <1>1, <1>2 DEF EditorInv
<1> QED BY <1>3, <1>4, <1>5, <1>6, <1>7, <1>8, <1>9 DEF TypeOK

\* The cut list, all it can go back to and forward to, the selection and what
\* is dragged stay well formed in every run of the editor, on every clip.
THEOREM EditorTypeCorrect == Spec => []TypeOK
<1>1. EditorInv => TypeOK
  BY InvImpliesType
<1> QED BY <1>1, EditorInvariant, PTL

\* Whatever was split, joined, dragged, undone and redone: an export holds what
\* is kept of the selection but for slivers, and a position that plays in the
\* selection plays what is kept.
THEOREM EditsAreAlwaysSound == Spec => []EditsAreSound
<1>1. EditorInv => EditsAreSound
  <2> SUFFICES ASSUME EditorInv PROVE EditsAreSound
    OBVIOUS
  <2>1. TypeOK
    BY InvImpliesType
  <2>2. ExportTicks \subseteq Kept /\ \A t \in Kept \ ExportTicks : Sliver(t)
    BY ExportHolds
  <2>3. player.playing /\ UpToDate /\ player.pos \in timeline.in..(timeline.out - 1) => player.pos \in Kept
    BY PlaysKept
  <2> QED BY <2>1, <2>2, <2>3 DEF EditsAreSound, ExportIsPreview
<1> QED BY <1>1, EditorInvariant, PTL

LEMMA CutSelectionTakes ==
  ASSUME EditorInv, CutSelection
  PROVE  LET a == timeline.in
             b == timeline.out
         IN  /\ KeptTicks(segs') \cap ((a + MinSeg - 1)..(b - MinSeg)) = {}
             /\ KeptTicks(segs) \ KeptTicks(segs') \subseteq (a - MinSeg)..(b + MinSeg - 1)
<1> DEFINE a == timeline.in
           b == timeline.out
<1>1. segs \in Lists /\ a \in Times /\ b \in Times
  BY Now
<1>2. segs' = CutRange(segs, a, b)
  BY DEF CutSelection, EditCuts
<1> HIDE DEF a, b
<1>3. /\ KeptTicks(segs') \cap ((a + MinSeg - 1)..(b - MinSeg)) = {}
      /\ KeptTicks(segs) \ KeptTicks(segs') \subseteq (a - MinSeg)..(b + MinSeg - 1)
  BY <1>1, <1>2, CutsRange
<1> QED BY <1>3 DEF a, b

\* "Cut In->Out" takes all of the selection but less than MIN_SEG at its ends,
\* and no more than MIN_SEG around it.
THEOREM CuttingTakesTheSelection == Spec => CutRemovesSelection
<1>1. EditorInv /\ [Next]_vars =>
        [CutSelection =>
          LET a == timeline.in
              b == timeline.out
          IN  /\ KeptTicks(segs') \cap ((a + MinSeg - 1)..(b - MinSeg)) = {}
              /\ KeptTicks(segs) \ KeptTicks(segs') \subseteq (a - MinSeg)..(b + MinSeg - 1)
        ]_vars
  BY CutSelectionTakes
<1> QED BY <1>1, EditorInvariant, PTL DEF Spec, CutRemovesSelection

-----------------------------------------------------------------------------
(* Undo and redo are the abstract history.                                 *)

LEMMA TicksOfSome ==
  ASSUME NEW x \in Seq(Lists)
  PROVE  /\ DOMAIN Ticks(x) = 1..Len(x) /\ Len(Ticks(x)) = Len(x) /\ Len(x) \in Nat
         /\ Ticks(x) \in Seq(SUBSET Int)
         /\ \A i \in 1..Len(x) : Ticks(x)[i] = KeptTicks(x[i])
         /\ Ticks(x) = <<>> <=> x = <<>>
<1>1. \A S : x \in Seq(S) => DOMAIN x = 1..Len(x) /\ Len(x) \in Nat /\ (Len(x) = 0 <=> x = <<>>)
                             /\ \A i \in 1..Len(x) : x[i] \in S
  OBVIOUS
<1>2. DOMAIN x = 1..Len(x) /\ Len(x) \in Nat /\ (Len(x) = 0 <=> x = <<>>)
      /\ \A i \in 1..Len(x) : x[i] \in Lists
  BY Zenon, <1>1
<1>3. \A i \in 1..Len(x) : KeptTicks(x[i]) \in SUBSET Int
  <2> SUFFICES ASSUME NEW i \in 1..Len(x) PROVE KeptTicks(x[i]) \in SUBSET Int
    OBVIOUS
  <2>1. KeptTicks(x[i]) \in SUBSET (0..(Duration - 1))
    BY <1>2, KeptInClip
  <2> QED BY <2>1, Bounds
<1> DEFINE K(i) == KeptTicks(x[i])
           y == Ticks(x)
<1>4. y = [i \in 1..Len(x) |-> K(i)]
  BY <1>2 DEF Ticks
<1>5. \A i \in 1..Len(x) : K(i) \in SUBSET Int
  BY <1>3
<1> SUFFICES /\ DOMAIN y = 1..Len(x) /\ Len(y) = Len(x) /\ y \in Seq(SUBSET Int)
             /\ \A i \in 1..Len(x) : y[i] = K(i)
             /\ y = <<>> <=> x = <<>>
  BY <1>2
<1> HIDE DEF K, y
<1>6. y \in Seq(SUBSET Int) /\ Len(y) = Len(x) /\ DOMAIN y = 1..Len(x) /\ \A i \in 1..Len(x) : y[i] = K(i)
  BY <1>2, <1>4, <1>5
<1>7. y = <<>> <=> Len(y) = 0
  BY <1>6
<1> QED BY <1>2, <1>6, <1>7

\* Two sequences of the same length with the same elements.
LEMMA SameSequence ==
  ASSUME NEW S, NEW y \in Seq(S), NEW z \in Seq(S), Len(y) = Len(z), \A i \in 1..Len(y) : y[i] = z[i]
  PROVE  y = z
<1> QED OBVIOUS

LEMMA TicksAppend ==
  ASSUME NEW x \in Seq(Lists), NEW e \in Lists
  PROVE  Ticks(Append(x, e)) = Append(Ticks(x), KeptTicks(e))
<1> DEFINE w == Append(x, e)
           y == Ticks(w)
           v == Ticks(x)
           k == KeptTicks(e)
           z == Append(v, k)
<1>1. w \in Seq(Lists) /\ Len(w) = Len(x) + 1 /\ (\A j \in 1..Len(x) : w[j] = x[j]) /\ w[Len(x) + 1] = e
  BY Appended
<1> HIDE DEF w
<1>2. Len(y) = Len(w) /\ y \in Seq(SUBSET Int) /\ \A i \in 1..Len(w) : y[i] = KeptTicks(w[i])
  BY <1>1, TicksOfSome
<1>3. Len(v) = Len(x) /\ v \in Seq(SUBSET Int) /\ Len(x) \in Nat /\ \A i \in 1..Len(x) : v[i] = KeptTicks(x[i])
  BY TicksOfSome
<1>4. k \in SUBSET Int
  BY KeptInClip, Bounds
<1> HIDE DEF y, v, k
<1>5. /\ z \in Seq(SUBSET Int) /\ Len(z) = Len(v) + 1
      /\ (\A j \in 1..Len(v) : z[j] = v[j]) /\ z[Len(v) + 1] = k
  BY <1>3, <1>4, Appended
<1> HIDE DEF z
<1>6. ASSUME NEW i \in 1..Len(y)
      PROVE  y[i] = z[i]
  <2>1. y[i] = KeptTicks(w[i])
    BY <1>1, <1>2
  <2>2. CASE i = Len(x) + 1
    BY <1>1, <1>3, <1>5, <2>1, <2>2 DEF k
  <2>3. CASE i # Len(x) + 1
    <3>1. i \in 1..Len(x)
      BY <1>1, <1>2, <1>3, <2>3
    <3>2. w[i] = x[i] /\ z[i] = v[i] /\ v[i] = KeptTicks(x[i])
      BY <1>1, <1>3, <1>5, <3>1
    <3> QED BY <2>1, <3>2
  <2> QED BY <2>2, <2>3
<1>7. Len(y) = Len(z)
  BY <1>1, <1>2, <1>3, <1>5
<1>8. y = z
  BY <1>2, <1>5, <1>6, <1>7, SameSequence
<1> QED BY <1>8 DEF y, z, v, w, k

LEMMA Tails ==
  ASSUME NEW S, NEW s \in Seq(S), s # <<>>
  PROVE  /\ Len(s) \in Nat /\ Len(s) >= 1 /\ Tail(s) \in Seq(S) /\ Len(Tail(s)) = Len(s) - 1
         /\ \A j \in 1..(Len(s) - 1) : Tail(s)[j] = s[j + 1]
<1> QED OBVIOUS

LEMMA TicksTail ==
  ASSUME NEW x \in Seq(Lists), x # <<>>
  PROVE  Ticks(Tail(x)) = Tail(Ticks(x))
<1> DEFINE w == Tail(x)
           y == Ticks(w)
           v == Ticks(x)
           z == Tail(v)
<1>1. Len(x) \in Nat /\ w \in Seq(Lists) /\ Len(w) = Len(x) - 1 /\ \A j \in 1..(Len(x) - 1) : w[j] = x[j + 1]
  BY Tails
<1> HIDE DEF w
<1>2. Len(y) = Len(w) /\ y \in Seq(SUBSET Int) /\ \A i \in 1..Len(w) : y[i] = KeptTicks(w[i])
  BY <1>1, TicksOfSome
<1>3. Len(v) = Len(x) /\ v \in Seq(SUBSET Int) /\ v # <<>> /\ \A i \in 1..Len(x) : v[i] = KeptTicks(x[i])
  BY TicksOfSome
<1> HIDE DEF y, v
<1>4. z \in Seq(SUBSET Int) /\ Len(z) = Len(v) - 1 /\ \A j \in 1..(Len(v) - 1) : z[j] = v[j + 1]
  BY <1>3, Tails
<1> HIDE DEF z
<1>5. ASSUME NEW i \in 1..Len(y)
      PROVE  y[i] = z[i]
  <2>1. i \in 1..(Len(x) - 1) /\ i + 1 \in 1..Len(x)
    BY <1>1, <1>2
  <2>2. y[i] = KeptTicks(w[i]) /\ w[i] = x[i + 1]
    BY <1>1, <1>2, <2>1
  <2>3. z[i] = v[i + 1] /\ v[i + 1] = KeptTicks(x[i + 1])
    BY <1>3, <1>4, <2>1
  <2> QED BY <2>2, <2>3
<1>6. Len(y) = Len(z)
  BY <1>1, <1>2, <1>3, <1>4
<1>7. y = z
  BY <1>2, <1>4, <1>5, <1>6, SameSequence
<1> QED BY <1>7 DEF y, z, v, w

LEMMA TicksFront ==
  ASSUME NEW x \in Seq(Lists), x # <<>>
  PROVE  Ticks(Front(x)) = Front(Ticks(x)) /\ Last(Ticks(x)) = KeptTicks(Last(x))
<1> DEFINE w == Front(x)
           y == Ticks(w)
           v == Ticks(x)
           z == Front(v)
<1>1. /\ Len(x) \in Nat /\ Len(x) >= 1 /\ w \in Seq(Lists) /\ Len(w) = Len(x) - 1
      /\ \A j \in 1..(Len(x) - 1) : w[j] = x[j]
      /\ Last(x) = x[Len(x)]
  BY Fronts
<1> HIDE DEF w
<1>2. Len(y) = Len(w) /\ y \in Seq(SUBSET Int) /\ \A i \in 1..Len(w) : y[i] = KeptTicks(w[i])
  BY <1>1, TicksOfSome
<1>3. Len(v) = Len(x) /\ v \in Seq(SUBSET Int) /\ v # <<>> /\ \A i \in 1..Len(x) : v[i] = KeptTicks(x[i])
  BY TicksOfSome
<1> HIDE DEF y, v
<1>4. /\ z \in Seq(SUBSET Int) /\ Len(z) = Len(v) - 1 /\ \A j \in 1..(Len(v) - 1) : z[j] = v[j]
      /\ Last(v) = v[Len(v)]
  BY <1>3, Fronts
<1> HIDE DEF z
<1>5. ASSUME NEW i \in 1..Len(y)
      PROVE  y[i] = z[i]
  <2>1. i \in 1..(Len(x) - 1) /\ i \in 1..Len(x)
    BY <1>1, <1>2
  <2>2. y[i] = KeptTicks(w[i]) /\ w[i] = x[i]
    BY <1>1, <1>2, <2>1
  <2>3. z[i] = v[i] /\ v[i] = KeptTicks(x[i])
    BY <1>3, <1>4, <2>1
  <2> QED BY <2>2, <2>3
<1>6. Len(y) = Len(z)
  BY <1>1, <1>2, <1>3, <1>4
<1>7. y = z
  BY <1>2, <1>4, <1>5, <1>6, SameSequence
<1>8. Last(v) = KeptTicks(Last(x))
  <2>1. Len(x) \in 1..Len(x)
    BY <1>1
  <2>2. v[Len(x)] = KeptTicks(x[Len(x)])
    BY <1>3, <2>1
  <2> QED BY <1>1, <1>3, <1>4, <2>2
<1> QED BY <1>7, <1>8 DEF y, z, v, w

LEMMA TicksNewest ==
  ASSUME NEW x \in Seq(Lists), NEW e \in Lists
  PROVE  Ticks(Newest(Append(x, e))) = Newest(Append(Ticks(x), KeptTicks(e)))
<1> DEFINE w == Append(x, e)
           z == Append(Ticks(x), KeptTicks(e))
<1>1. Ticks(w) = z
  BY TicksAppend
<1>2. w \in Seq(Lists) /\ Len(w) = Len(x) + 1
  BY Appended
<1>3. Len(x) \in Nat /\ \A S : w \in Seq(S) /\ Len(w) >= 1 => w # <<>>
  <2>1. Len(x) \in Nat
    BY TicksOfSome
  <2> HIDE DEF w
  <2> QED BY <2>1
<1> HIDE DEF w, z
<1>4. w # <<>>
  BY <1>2, <1>3
<1>5. Len(z) = Len(w)
  BY <1>1, <1>2, TicksOfSome
<1>6. Ticks(Tail(w)) = Tail(z)
  BY <1>1, <1>2, <1>4, TicksTail
<1>7. Ticks(Newest(w)) = Newest(z)
  BY <1>1, <1>5, <1>6 DEF Newest
<1> QED BY <1>7 DEF w, z

\* The abstract steps, of what the history and the cut list keep.
LEMMA AbstractSteps ==
  /\ Present' \in SUBSET (0..(Duration - 1)) /\ Past' = Newest(Append(Past, Present)) /\ Future' = <<>>
       => History!Edit
  /\ Past # <<>> /\ Present' = Last(Past) /\ Past' = Front(Past) /\ Future' = Newest(Append(Future, Present))
       => History!Undo
  /\ Future # <<>> /\ Present' = Last(Future) /\ Future' = Front(Future) /\ Past' = Newest(Append(Past, Present))
       => History!Redo
  /\ Past' = Past /\ Present' = Present /\ Future' = Future => UNCHANGED History!vars
<1>1. Present' \in SUBSET (0..(Duration - 1)) /\ Past' = Newest(Append(Past, Present)) /\ Future' = <<>>
        => History!Edit
  BY DEF History!Edit, History!Newest, Newest, Past, Present, Future, Ticks, Base
<1>2. Past # <<>> /\ Present' = Last(Past) /\ Past' = Front(Past) /\ Future' = Newest(Append(Future, Present))
        => History!Undo
  BY DEF History!Undo, History!Last, History!Front, Last, Front, History!Newest, Newest, Past, Present, Future, Ticks, Base
<1>3. Future # <<>> /\ Present' = Last(Future) /\ Future' = Front(Future) /\ Past' = Newest(Append(Past, Present))
        => History!Redo
  BY DEF History!Redo, History!Last, History!Front, Last, Front, History!Newest, Newest, Past, Present, Future, Ticks, Base
<1>4. Past' = Past /\ Present' = Present /\ Future' = Future => UNCHANGED History!vars
  BY DEF History!vars, Past, Present, Future, Ticks, Base
<1> QED BY <1>1, <1>2, <1>3, <1>4

\* A new entry of the history is an edit, whatever it keeps.
LEMMA PushMaps ==
  ASSUME EditorInv, Base(drag, segs) \in Lists, Base(drag', segs') \in Lists,
         history' = Push(history, Base(drag, segs))
  PROVE  History!Edit
<1> DEFINE e == Base(drag, segs)
           u == history.undo
<1>1. u \in Seq(Lists)
  BY Now, HistoryFields
<1>2. history'.undo = Newest(Append(u, e)) /\ history'.redo = <<>>
  BY DEF Push
<1>3. Ticks(Newest(Append(u, e))) = Newest(Append(Ticks(u), KeptTicks(e)))
  BY <1>1, TicksNewest
<1>4. Past' = Newest(Append(Past, Present))
  BY <1>2, <1>3 DEF Past, Present, Ticks
<1>5. Future' = <<>>
  <2>1. <<>> \in Seq(Lists)
    OBVIOUS
  <2>2. Ticks(<<>>) = <<>>
    BY <2>1, TicksOfSome
  <2> QED BY <1>2, <2>2 DEF Future, Ticks
<1>6. Present' \in SUBSET (0..(Duration - 1))
  <2>1. KeptTicks(Base(drag', segs')) \in SUBSET (0..(Duration - 1))
    BY KeptInClip
  <2> QED BY <2>1 DEF Present, Base
<1> QED BY <1>4, <1>5, <1>6, AbstractSteps

\* The same steps, of the list as it is being dragged.
LEMMA DraggedSteps ==
  LET now == KeptTicks(segs) IN
  /\ now' \in SUBSET (0..(Duration - 1)) /\ Past' = Newest(Append(Past, now)) /\ Future' = <<>>
       => Dragged!Edit
  /\ Past # <<>> /\ now' = Last(Past) /\ Past' = Front(Past) /\ Future' = Newest(Append(Future, now))
       => Dragged!Undo
  /\ Future # <<>> /\ now' = Last(Future) /\ Future' = Front(Future) /\ Past' = Newest(Append(Past, now))
       => Dragged!Redo
  /\ Past' = Past /\ now' = now /\ Future' = Future => UNCHANGED Dragged!vars
<1> DEFINE now == KeptTicks(segs)
<1>1. now' \in SUBSET (0..(Duration - 1)) /\ Past' = Newest(Append(Past, now)) /\ Future' = <<>>
        => Dragged!Edit
  BY DEF Dragged!Edit, Dragged!Newest, Newest, Past, Future, Ticks
<1>2. Past # <<>> /\ now' = Last(Past) /\ Past' = Front(Past) /\ Future' = Newest(Append(Future, now))
        => Dragged!Undo
  BY DEF Dragged!Undo, Dragged!Last, Dragged!Front, Last, Front, Dragged!Newest, Newest, Past, Future, Ticks
<1>3. Future # <<>> /\ now' = Last(Future) /\ Future' = Front(Future) /\ Past' = Newest(Append(Past, now))
        => Dragged!Redo
  BY DEF Dragged!Redo, Dragged!Last, Dragged!Front, Last, Front, Dragged!Newest, Newest, Past, Future, Ticks
<1>4. Past' = Past /\ now' = now /\ Future' = Future => UNCHANGED Dragged!vars
  BY DEF Dragged!vars, Past, Future, Ticks
<1> QED BY <1>1, <1>2, <1>3, <1>4

\* A step of the history and the list as it is dragged is one of the history
\* when no cut is dragged, and a key's when one is.
LEMMA KeysMap ==
  ASSUME drag' = drag, [Dragged!Next]_(Dragged!vars)
  PROVE  [History!Next \/ KeyInDrag]_(History!vars)
<1>1. CASE drag.undo # <<>>
  <2>1. CASE Dragged!Next
    BY <1>1, <2>1 DEF KeyInDrag
  <2>2. CASE UNCHANGED Dragged!vars
    <3>1. Past' = Past /\ Future' = Future
      BY <2>2 DEF Dragged!vars
    <3>2. Present' = Present
      BY <1>1 DEF Present, Base
    <3> QED BY <3>1, <3>2 DEF History!vars
  <2> QED BY <2>1, <2>2
<1>2. CASE drag.undo = <<>>
  <2>1. Present = KeptTicks(segs) /\ Present' = KeptTicks(segs')
    BY <1>2 DEF Present, Base
  <2>2. UNCHANGED Dragged!vars => UNCHANGED History!vars
    BY <2>1 DEF Dragged!vars, History!vars
  <2>3. Dragged!Edit => History!Edit
    BY <2>1 DEF Dragged!Edit, History!Edit, Dragged!Newest, History!Newest
  <2>4. Dragged!Undo => History!Undo
    BY <2>1 DEF Dragged!Undo, History!Undo, Dragged!Newest, History!Newest,
                   Dragged!Last, History!Last, Dragged!Front, History!Front
  <2>5. Dragged!Redo => History!Redo
    BY <2>1 DEF Dragged!Redo, History!Redo, Dragged!Newest, History!Newest,
                   Dragged!Last, History!Last, Dragged!Front, History!Front
  <2> QED BY <2>2, <2>3, <2>4, <2>5 DEF Dragged!Next, History!Next
<1> QED BY <1>1, <1>2

\* Nothing happens to the history while it and what it would keep are the same.
LEMMA StillMaps ==
  ASSUME history' = history, KeptTicks(Base(drag', segs')) = KeptTicks(Base(drag, segs))
  PROVE  UNCHANGED History!vars
<1>1. Past' = Past /\ Future' = Future
  BY DEF Past, Future, Ticks
<1>2. Present' = Present
  BY DEF Present, Base
<1> QED BY <1>1, <1>2, AbstractSteps

\* Only a drag has something to go back to.
LEMMA AtRest ==
  ASSUME EditorInv, ~Dragging
  PROVE  Base(drag, segs) = segs /\ drag.undo = <<>>
<1>1. drag.target # "Cut"
  BY DEF Dragging
<1>2. drag.target = "Cut" <=> drag.undo # <<>>
  BY Now DEF GoodDrag
<1> QED BY <1>1, <1>2 DEF Base

LEMMA EditMaps ==
  ASSUME EditorInv, drag' = drag, NEW new \in Lists, NEW reports, EditCuts(new, reports),
         ~reports => KeptTicks(new) = KeptTicks(segs)
  PROVE  [History!Next \/ KeyInDrag]_(History!vars)
<1> DEFINE u == history.undo
<1>1. segs' = new /\ segs \in Lists /\ u \in Seq(Lists)
  BY Now, HistoryFields DEF EditCuts
<1>2. CASE reports
  <2>1. history'.undo = Newest(Append(u, segs)) /\ history'.redo = <<>>
    BY <1>2 DEF EditCuts, Push
  <2>2. Ticks(Newest(Append(u, segs))) = Newest(Append(Ticks(u), KeptTicks(segs)))
    BY <1>1, TicksNewest
  <2>3. Past' = Newest(Append(Past, KeptTicks(segs)))
    BY <2>1, <2>2 DEF Past, Ticks
  <2>4. Future' = <<>>
    <3>1. <<>> \in Seq(Lists)
      OBVIOUS
    <3>2. Ticks(<<>>) = <<>>
      BY <3>1, TicksOfSome
    <3> QED BY <2>1, <3>2 DEF Future, Ticks
  <2>5. KeptTicks(segs') \in SUBSET (0..(Duration - 1))
    BY <1>1, KeptInClip
  <2>6. Dragged!Edit
    BY <2>3, <2>4, <2>5, DraggedSteps
  <2> QED BY <2>6, KeysMap DEF Dragged!Next
<1>3. CASE ~reports
  <2>1. history' = history
    BY <1>3 DEF EditCuts
  <2>2. Past' = Past /\ Future' = Future
    BY <2>1 DEF Past, Future, Ticks
  <2>3. KeptTicks(segs') = KeptTicks(segs)
    BY <1>1, <1>3
  <2>4. UNCHANGED Dragged!vars
    BY <2>2, <2>3, DraggedSteps
  <2> QED BY <2>4, KeysMap
<1> QED BY <1>2, <1>3

LEMMA UndoMaps ==
  ASSUME EditorInv, drag' = drag, UndoCut \/ RedoCut
  PROVE  [History!Next \/ KeyInDrag]_(History!vars)
<1> DEFINE u == history.undo
           r == history.redo
<1>1. u \in Seq(Lists) /\ r \in Seq(Lists) /\ segs \in Lists
  BY Now, HistoryFields
<1>3. CASE UndoCut /\ CanUndo
  <2>1. segs' = Last(u) /\ history'.undo = Front(u) /\ history'.redo = Newest(Append(r, segs)) /\ u # <<>>
    BY <1>3 DEF UndoCut, CanUndo
  <2>2. Ticks(Front(u)) = Front(Ticks(u)) /\ Last(Ticks(u)) = KeptTicks(Last(u)) /\ Ticks(u) # <<>>
    BY <1>1, <2>1, TicksFront, TicksOfSome
  <2>3. Ticks(Newest(Append(r, segs))) = Newest(Append(Ticks(r), KeptTicks(segs)))
    BY <1>1, TicksNewest
  <2>4. Past # <<>> /\ Past' = Front(Past)
    BY <2>1, <2>2 DEF Past, Ticks
  <2>5. Future' = Newest(Append(Future, KeptTicks(segs)))
    BY <2>1, <2>3 DEF Future, Ticks
  <2>6. KeptTicks(segs') = Last(Past)
    BY <2>1, <2>2 DEF Past
  <2>7. Dragged!Undo
    BY <2>4, <2>5, <2>6, DraggedSteps
  <2> QED BY <2>7, KeysMap DEF Dragged!Next
<1>4. CASE RedoCut /\ CanRedo
  <2>1. segs' = Last(r) /\ history'.redo = Front(r) /\ history'.undo = Newest(Append(u, segs)) /\ r # <<>>
    BY <1>4 DEF RedoCut, CanRedo
  <2>2. Ticks(Front(r)) = Front(Ticks(r)) /\ Last(Ticks(r)) = KeptTicks(Last(r)) /\ Ticks(r) # <<>>
    BY <1>1, <2>1, TicksFront, TicksOfSome
  <2>3. Ticks(Newest(Append(u, segs))) = Newest(Append(Ticks(u), KeptTicks(segs)))
    BY <1>1, TicksNewest
  <2>4. Future # <<>> /\ Future' = Front(Future)
    BY <2>1, <2>2 DEF Future, Ticks
  <2>5. Past' = Newest(Append(Past, KeptTicks(segs)))
    BY <2>1, <2>3 DEF Past, Ticks
  <2>6. KeptTicks(segs') = Last(Future)
    BY <2>1, <2>2 DEF Future
  <2>7. Dragged!Redo
    BY <2>4, <2>5, <2>6, DraggedSteps
  <2> QED BY <2>7, KeysMap DEF Dragged!Next
<1>5. CASE (UndoCut /\ ~CanUndo) \/ (RedoCut /\ ~CanRedo)
  <2>1. segs' = segs /\ history' = history
    BY <1>5 DEF UndoCut, RedoCut
  <2>2. Past' = Past /\ Future' = Future /\ KeptTicks(segs') = KeptTicks(segs)
    BY <2>1 DEF Past, Future, Ticks
  <2>3. UNCHANGED Dragged!vars
    BY <2>2, DraggedSteps
  <2> QED BY <2>3, KeysMap
<1> QED BY <1>3, <1>4, <1>5

\* A drag of a cut changes the history when it ends.
LEMMA DragMaps ==
  ASSUME EditorInv, NEW t \in Times, DragStart(t) \/ DragMove(t)
  PROVE  UNCHANGED History!vars
<1>1. CASE DragStart(t)
  <2> DEFINE g == Grabbed(t)
             snap == Snap(markers, t, SnapRadius)
  <2>1. ~Dragging /\ drag' = g /\ history' = history /\ Pull(Paused(player), g, snap, TRUE)
    BY <1>1 DEF DragStart
  <2>2. Base(drag, segs) = segs
    BY <2>1, AtRest
  <2>3. (g.target = "Cut" <=> g.undo # <<>>) /\ (g.undo # <<>> => g.undo = segs)
    BY GrabbedGood
  <2> HIDE DEF g
  <2>4. g.target # "Cut" => segs' = segs
    BY <2>1 DEF Pull
  <2>5. Base(drag', segs') = segs
    BY <2>1, <2>3, <2>4 DEF Base
  <2> QED BY <2>1, <2>2, <2>5, StillMaps
<1>2. CASE DragMove(t)
  <2>1. drag' = drag /\ history' = history /\ Pull(player, drag, Snap(markers, t, SnapRadius), FALSE)
    BY <1>2 DEF DragMove
  <2>2. drag.target = "Cut" <=> drag.undo # <<>>
    BY Now DEF GoodDrag
  <2>3. drag.target # "Cut" => segs' = segs
    BY <2>1 DEF Pull
  <2>4. Base(drag', segs') = Base(drag, segs)
    BY <2>1, <2>2, <2>3 DEF Base
  <2> QED BY <2>1, <2>4, StillMaps
<1> QED BY <1>1, <1>2

LEMMA DragStopMaps ==
  ASSUME EditorInv, DragStop
  PROVE  [History!Next]_(History!vars)
<1>1. /\ drag' = NoDrag /\ segs' = segs
      /\ history' = IF drag.undo # <<>> /\ drag.undo # segs THEN Push(history, drag.undo) ELSE history
  BY DEF DragStop
<1>2. Base(drag', segs') = segs
  BY <1>1 DEF Base, NoDrag
<1>3. drag.undo \in Lists \cup {<<>>} /\ segs \in Lists
  <2>1. drag.undo \in Lists \cup {<<>>}
    BY Zenon, Now DEF GoodDrag, Drags
  <2> QED BY <2>1, Now
<1>4. CASE drag.undo # <<>> /\ drag.undo # segs
  <2>1. Base(drag, segs) = drag.undo /\ Base(drag, segs) \in Lists
    BY <1>3, <1>4 DEF Base
  <2>2. history' = Push(history, Base(drag, segs))
    BY <1>1, <1>4, <2>1
  <2>3. History!Edit
    BY <1>2, <1>3, <2>1, <2>2, PushMaps
  <2> QED BY <2>3 DEF History!Next
<1>5. CASE ~(drag.undo # <<>> /\ drag.undo # segs)
  <2>1. Base(drag, segs) = segs /\ history' = history
    BY <1>1, <1>5 DEF Base
  <2> QED BY <1>2, <2>1, StillMaps
<1> QED BY <1>4, <1>5

LEMMA SplitMaps ==
  ASSUME EditorInv, drag' = drag, NEW t \in Times,
         \/ EditCuts(SplitAt(segs, t), SplitAt(segs, t) # segs)
         \/ EditCuts(ToggleAt(segs, t), TRUE)
         \/ EditCuts(JoinAt(segs, t), Cuts(segs) # {})
         \/ EditCuts(NewSegments, TRUE)
  PROVE  [History!Next \/ KeyInDrag]_(History!vars)
<1>1. segs \in Lists /\ t \in Int
  BY Now, Bounds
<1>2. CASE EditCuts(SplitAt(segs, t), SplitAt(segs, t) # segs)
  <2>1. SplitAt(segs, t) \in Lists /\ (~(SplitAt(segs, t) # segs) => KeptTicks(SplitAt(segs, t)) = KeptTicks(segs))
    BY <1>1, SplitList
  <2> QED BY <1>2, <2>1, EditMaps
<1>3. CASE EditCuts(ToggleAt(segs, t), TRUE)
  <2>1. ToggleAt(segs, t) \in Lists
    BY <1>1, ToggledList
  <2> QED BY <1>3, <2>1, EditMaps
<1>4. CASE EditCuts(JoinAt(segs, t), Cuts(segs) # {})
  <2>1. JoinAt(segs, t) \in Lists
    BY <1>1, JoinedList
  <2>2. ~(Cuts(segs) # {}) => JoinAt(segs, t) = segs
    BY DEF JoinAt
  <2>3. ~(Cuts(segs) # {}) => KeptTicks(JoinAt(segs, t)) = KeptTicks(segs)
    BY <2>2
  <2> QED BY <1>4, <2>1, <2>3, EditMaps
<1>5. CASE EditCuts(NewSegments, TRUE)
  BY <1>5, NewList, EditMaps
<1> QED BY <1>2, <1>3, <1>4, <1>5

LEMMA CutSelectionMaps ==
  ASSUME EditorInv, CutSelection
  PROVE  [History!Next \/ KeyInDrag]_(History!vars)
<1> DEFINE a == timeline.in
           b == timeline.out
           new == CutRange(segs, a, b)
           reports == CutRangeReports(segs, a, b)
<1>1. segs \in Lists /\ a \in Times /\ b \in Times
  BY Now
<1>2. drag' = drag /\ EditCuts(new, reports)
  BY DEF CutSelection
<1> HIDE DEF a, b
<1>3. new \in Lists /\ (~reports => KeptTicks(new) = KeptTicks(segs))
  BY <1>1, CutsRange
<1> HIDE DEF new, reports
<1> QED BY <1>2, <1>3, EditMaps

LEMMA RightClickMaps ==
  ASSUME EditorInv, NEW t \in Times, RightClick(t)
  PROVE  [History!Next \/ KeyInDrag]_(History!vars)
<1> DEFINE c == segs[NearestCut(segs, t)].start
<1>1. drag' = drag
  BY DEF RightClick
<1>2. \/ Cuts(segs) # {} /\ EditCuts(JoinAt(segs, c), TRUE)
      \/ EditCuts(ToggleAt(segs, t), TRUE)
  BY DEF RightClick
<1>3. CASE Cuts(segs) # {} /\ EditCuts(JoinAt(segs, c), TRUE)
  <2>1. segs \in Lists /\ t \in Int
    BY Now, Bounds
  <2> DEFINE i == NearestCut(segs, t)
  <2>2. i \in Cuts(segs)
    BY <1>3, <2>1, NearestIsCut
  <2>3. c = segs[i].start
    OBVIOUS
  <2> HIDE DEF i, c
  <2>4. i \in 1..Len(segs)
    BY <2>1, <2>2, Pieces DEF Cuts
  <2>5. c \in Int
    BY <2>1, <2>3, <2>4, Pieces
  <2>6. JoinAt(segs, c) \in Lists
    BY <2>1, <2>5, JoinedList
  <2> QED BY <1>1, <1>3, <2>6, EditMaps
<1>4. CASE EditCuts(ToggleAt(segs, t), TRUE)
  BY <1>1, <1>4, SplitMaps
<1> QED BY <1>2, <1>3, <1>4

\* Steps that touch neither the cut list nor what is dragged.
LEMMA OthersMap ==
  ASSUME UNCHANGED <<cutVars, drag>>
  PROVE  UNCHANGED History!vars
<1>1. history' = history /\ Base(drag', segs') = Base(drag, segs)
  BY DEF cutVars
<1> QED BY <1>1, StillMaps

LEMMA ToolsMap ==
  ASSUME EditorInv, Tools
  PROVE  [History!Next \/ KeyInDrag]_(History!vars)
<1>1. CASE CutSelection
  BY <1>1, CutSelectionMaps
<1>2. CASE ~CutSelection
  <2>1. drag' = drag
    BY <1>2 DEF Tools
  <2>2. timeline.playhead \in Times
    BY Now
  <2>3. \/ \/ EditCuts(SplitAt(segs, timeline.playhead), SplitAt(segs, timeline.playhead) # segs)
           \/ EditCuts(ToggleAt(segs, timeline.playhead), TRUE)
           \/ EditCuts(NewSegments, TRUE)
        \/ UndoCut \/ RedoCut
        \/ UNCHANGED cutVars
    BY <1>2 DEF Tools
  <2>4. CASE \/ EditCuts(SplitAt(segs, timeline.playhead), SplitAt(segs, timeline.playhead) # segs)
             \/ EditCuts(ToggleAt(segs, timeline.playhead), TRUE)
             \/ EditCuts(NewSegments, TRUE)
    BY <2>1, <2>2, <2>4, SplitMaps
  <2>5. CASE UndoCut \/ RedoCut
    BY <2>1, <2>5, UndoMaps
  <2>6. CASE UNCHANGED cutVars
    BY <2>1, <2>6, OthersMap
  <2> QED BY <2>3, <2>4, <2>5, <2>6
<1> QED BY <1>1, <1>2

LEMMA HistoryStarts ==
  Init => History!Init
<1> SUFFICES ASSUME Init PROVE History!Init
  OBVIOUS
<1>1. history = [undo |-> <<>>, redo |-> <<>>] /\ drag.undo = <<>> /\ segs = NewSegments
  BY DEF Init, NoDrag
<1>2. Ticks(<<>>) = <<>>
  <2>1. <<>> \in Seq(Lists)
    OBVIOUS
  <2> QED BY <2>1, TicksOfSome
<1>3. Past = <<>> /\ Future = <<>>
  BY <1>1, <1>2 DEF Past, Future
<1>4. Present = KeptTicks(NewSegments)
  BY <1>1 DEF Present, Base
<1>5. KeptTicks(NewSegments) = 0..(Duration - 1)
  <2>1. /\ Len(NewSegments) = 1 /\ NewSegments[1].enabled
        /\ NewSegments[1].start = 0 /\ NewSegments[1].end = Duration
    BY DEF NewSegments
  <2>2. \A k : k \in KeptTicks(NewSegments) <=> k \in 0..(Duration - 1)
    <3>1. \A k : k \in KeptTicks(NewSegments) <=>
             \E i \in 1..1 : NewSegments[i].enabled /\ k \in NewSegments[i].start..(NewSegments[i].end - 1)
      BY <2>1, NewList, Kepts
    <3>2. 1..1 = {1}
      OBVIOUS
    <3> QED BY <2>1, <3>1, <3>2
  <2> QED BY <2>2
<1> QED BY <1>3, <1>4, <1>5 DEF History!Init, Past, Present, Future, Ticks, Base

LEMMA HistoryStep ==
  EditorInv /\ [Next]_vars => [History!Next \/ KeyInDrag]_(History!vars)
<1> SUFFICES ASSUME EditorInv, [Next]_vars
             PROVE  [History!Next \/ KeyInDrag]_(History!vars)
  OBVIOUS
<1>2. CASE Frame \/ AtOut \/ Stall \/ ChaptersArrive \/ KeyMove \/ MarkerKey \/ Transport
  <2>1. UNCHANGED <<cutVars, drag>>
    BY <1>2 DEF Frame, AtOut, Stall, ChaptersArrive, KeyMove, MarkerKey, Transport
  <2> QED BY <2>1, OthersMap
<1>3. CASE EditKey
  <2>1. drag' = drag /\ timeline.playhead \in Times
    BY <1>3, Now DEF EditKey
  <2> QED BY <1>3, <2>1, SplitMaps DEF EditKey
<1>4. CASE UndoKey
  <2>1. drag' = drag /\ (UndoCut \/ RedoCut)
    BY <1>4 DEF UndoKey
  <2> QED BY <2>1, UndoMaps
<1>5. CASE Tools
  BY <1>5, ToolsMap
<1>6. CASE Pointer
  <2>1. CASE DragStop
    BY <2>1, DragStopMaps
  <2>2. CASE \E t \in Times : DragStart(t) \/ DragMove(t)
    BY <2>2, DragMaps
  <2>3. CASE \E t \in Times : RightClick(t)
    BY <2>3, RightClickMaps
  <2>4. CASE \E t \in Times : Click(t) \/ \E field \in {"In", "Out", "Playhead"} : TypeTime(field, t)
    <3>1. UNCHANGED <<cutVars, drag>>
      BY <2>4 DEF Click, TypeTime
    <3> QED BY <3>1, OthersMap
  <2> QED BY <1>6, <2>1, <2>2, <2>3, <2>4 DEF Pointer
<1>7. CASE UNCHANGED vars
  <2>1. UNCHANGED <<cutVars, drag>>
    BY <1>7 DEF vars, cutVars
  <2> QED BY <2>1, OthersMap
<1> QED BY <1>2, <1>3, <1>4, <1>5, <1>6, <1>7 DEF Next

\* Undo and redo are inverse, a drag is one edit of what it began with, and only
\* an edit cuts off the future, whenever keys are pressed: one pressed in the
\* middle of a drag of a cut does the same to the list as it is being dragged.
THEOREM HistoryGoesBackAndForth == Spec => ImplementsCutHistory
<1>1. Init => History!Init
  BY HistoryStarts
<1>2. EditorInv /\ [Next]_vars => [History!Next \/ KeyInDrag]_(History!vars)
  BY HistoryStep
<1> QED BY <1>1, <1>2, EditorInvariant, PTL DEF Spec, ImplementsCutHistory
=============================================================================
