----------------------------- MODULE DiskProofs -----------------------------
(***************************************************************************)
(* What TLAPS proves of the replay on disk, for every choice of            *)
(* timestamps, window lengths, budgets and thresholds, whatever fails and  *)
(* when.  The index of the spill file is a ring: with the entries taken as *)
(* frames it takes the steps of RingBuffer, and what ReplayProofs proves   *)
(* of that holds of it.  New is where the payloads are.                    *)
(***************************************************************************)
EXTENDS DiskFrameStore, TLAPS

\* The index without the places in the files.
Queue(q) == [i \in DOMAIN q |-> FrameOf(q[i])]

Ring == INSTANCE ReplayProofs WITH
    frames <- Queue(disk.index), bytes <- disk.live_bytes,
    Requests <- {}, MicrosPerSec <- 1, MillisPerSec <- 1, AudioTimes <- {},
    AudioLead <- 0, MaxMarks <- 0,
    audio <- <<>>, markers <- <<>>, heard <- {}, marked <- <<>>

(***************************************************************************)
(* What Ring assumes of its constants holds here.                          *)
(***************************************************************************)
LEMMA RingConstants ==
  /\ Pts \subseteq Nat
  /\ TicksPerSec \in Nat \ {0}
  /\ Capacities \subseteq Nat \ {0}
  /\ Reorder \in Nat /\ \A c \in Capacities : Reorder <= c * TicksPerSec
  /\ MaxArrivals \in Nat
  /\ {} \subseteq Nat
  /\ 1 \in Nat \ {0} /\ 0 \in Nat
BY PtsAssumption, TicksAssumption, CapacitiesAssumption, ReorderAssumption,
   MaxArrivalsAssumption

(***************************************************************************)
(* Ring speaks of queues with the operators of this module.                *)
(***************************************************************************)
LEMMA SameOperators ==
  /\ \A q : Ring!TotalSize(q) = TotalSize(q)
  /\ \A q, f : Ring!InsertTsOrdered(q, f) = InsertTsOrdered(q, f)
  /\ \A q, cutoff : Ring!EvictBefore(q, cutoff) = EvictBefore(q, cutoff)
  /\ \A f : Ring!Size(f) = Size(f)
  /\ Ring!Frame = Frame /\ Ring!NoPts = NoPts
<1>1. \A f : Ring!Size(f) = Size(f)
  BY DEF Size, Ring!Size
<1>2. \A q : Ring!TotalSize(q) = TotalSize(q)
  BY DEF TotalSize, Ring!TotalSize, Size, Ring!Size
<1>3. \A q, f : Ring!InsertTsOrdered(q, f) = InsertTsOrdered(q, f)
  BY DEF InsertTsOrdered, Ring!InsertTsOrdered, SelectLastInSeq, Ring!SelectLastInSeq,
         InsertAt, Ring!InsertAt, Max, Ring!Max
<1>4. \A q, cutoff : Ring!EvictBefore(q, cutoff) = EvictBefore(q, cutoff)
  BY DEF EvictBefore, Ring!EvictBefore, SelectInSeq, Ring!SelectInSeq, Min, Ring!Min
<1>5. Ring!Frame = Frame /\ Ring!NoPts = NoPts
  BY DEF Frame, Ring!Frame, NoPts, Ring!NoPts
<1> QED BY <1>1, <1>2, <1>3, <1>4, <1>5

-----------------------------------------------------------------------------

Entries == [id : Nat, pts : Pts, key : BOOLEAN,
            offset : Nat, new_offset : Nat \cup {NoOffset}]

LEMMA FrameOfEntry ==
  ASSUME NEW e \in Entries
  PROVE  /\ FrameOf(e) \in Frame
         /\ FrameOf(e).pts = e.pts /\ FrameOf(e).id = e.id /\ FrameOf(e).key = e.key
         /\ Size(FrameOf(e)) = Size(e)
         /\ e.pts \in Int
<1>1. e.id \in Nat /\ e.pts \in Pts /\ e.key \in BOOLEAN
  BY DEF Entries
<1>2. e.pts \in Nat
  BY <1>1, PtsAssumption, Zenon
<1>3. e.pts \in Int
  BY <1>2
<1>4. FrameOf(e) \in Frame
  BY <1>1 DEF FrameOf, Frame
<1> QED BY <1>3, <1>4 DEF FrameOf, Size

LEMMA QueueIs ==
  ASSUME NEW q \in Seq(Entries)
  PROVE  /\ Queue(q) \in Seq(Frame)
         /\ Len(Queue(q)) = Len(q)
         /\ \A i \in 1..Len(q) : /\ q[i] \in Entries
                                 /\ Queue(q)[i] = FrameOf(q[i])
                                 /\ Queue(q)[i].pts = q[i].pts
                                 /\ Size(Queue(q)[i]) = Size(q[i])
<1>1. DOMAIN q = 1..Len(q) /\ Len(q) \in Nat
  OBVIOUS
<1>2. \A i \in 1..Len(q) : q[i] \in Entries
  OBVIOUS
<1>3. \A i \in 1..Len(q) : FrameOf(q[i]) \in Frame
  BY <1>2, FrameOfEntry
<1>4. Queue(q) = [i \in 1..Len(q) |-> FrameOf(q[i])]
  BY <1>1 DEF Queue
<1>5. Queue(q) \in [1..Len(q) -> Frame]
  BY <1>3, <1>4
<1>6. Queue(q) \in Seq(Frame) /\ Len(Queue(q)) = Len(q)
  BY <1>1, <1>5
<1>7. \A i \in 1..Len(q) : Queue(q)[i] = FrameOf(q[i])
  BY <1>4
<1> QED BY <1>2, <1>6, <1>7, FrameOfEntry

(***************************************************************************)
(* Inserting, evicting and weighing entries is inserting, evicting and     *)
(* weighing their frames.                                                  *)
(***************************************************************************)
LEMMA InsertPlace ==
  ASSUME NEW S, NEW q \in Seq(S), NEW f \in S
  PROVE  \E k \in 0..Len(q) :
           /\ Ring!HasInserted(InsertTsOrdered(q, f), S, q, f, k)
           /\ k > 0 => q[k].pts <= f.pts
           /\ \A j \in (k+1)..Len(q) : ~ (q[j].pts <= f.pts)
<1>1. PICK k \in 0..Len(q) :
           /\ InsertTsOrdered(q, f) = Ring!InsertAt(q, k + 1, f)
           /\ k > 0 => q[k].pts <= f.pts
           /\ \A j \in (k+1)..Len(q) : ~ (q[j].pts <= f.pts)
  BY Ring!InsertPosition, RingConstants, SameOperators
<1>2. Ring!HasInserted(InsertTsOrdered(q, f), S, q, f, k)
  BY <1>1, Ring!InsertAtElements, RingConstants
<1> QED BY <1>1, <1>2

LEMMA InsertIs ==
  ASSUME NEW q \in Seq(Entries), NEW e \in Entries
  PROVE  \E k \in 0..Len(q) :
           /\ Ring!HasInserted(InsertTsOrdered(q, e), Entries, q, e, k)
           /\ Ring!HasInserted(InsertTsOrdered(Queue(q), FrameOf(e)), Frame,
                               Queue(q), FrameOf(e), k)
<1>1. PICK k \in 0..Len(q) :
           /\ Ring!HasInserted(InsertTsOrdered(q, e), Entries, q, e, k)
           /\ k > 0 => q[k].pts <= e.pts
           /\ \A j \in (k+1)..Len(q) : ~ (q[j].pts <= e.pts)
  BY InsertPlace
<1>2. /\ Queue(q) \in Seq(Frame) /\ FrameOf(e) \in Frame
      /\ Len(Queue(q)) = Len(q) /\ FrameOf(e).pts = e.pts
      /\ \A i \in 1..Len(q) : Queue(q)[i].pts = q[i].pts
  BY QueueIs, FrameOfEntry
<1>3. PICK m \in 0..Len(Queue(q)) :
           /\ Ring!HasInserted(InsertTsOrdered(Queue(q), FrameOf(e)), Frame,
                               Queue(q), FrameOf(e), m)
           /\ m > 0 => Queue(q)[m].pts <= FrameOf(e).pts
           /\ \A j \in (m+1)..Len(Queue(q)) : ~ (Queue(q)[j].pts <= FrameOf(e).pts)
  BY <1>2, InsertPlace
<1>4. m \in 0..Len(q) /\ Len(q) \in Nat
  BY <1>2
<1>5. /\ m > 0 => q[m].pts <= e.pts
      /\ \A j \in (m+1)..Len(q) : ~ (q[j].pts <= e.pts)
  BY <1>2, <1>3, <1>4
<1>6. m = k
  <2>1. CASE m > k
    <3>1. m \in (k+1)..Len(q) /\ m > 0
      BY <2>1, <1>4
    <3> QED BY <3>1, <1>1, <1>5
  <2>2. CASE m < k
    <3>1. k \in (m+1)..Len(q) /\ k > 0
      BY <2>2, <1>4
    <3> QED BY <3>1, <1>1, <1>5
  <2> QED BY <2>1, <2>2, <1>4
<1> QED BY <1>1, <1>3, <1>6

LEMMA InsertEntry ==
  ASSUME NEW q \in Seq(Entries), NEW e \in Entries
  PROVE  Queue(InsertTsOrdered(q, e)) = InsertTsOrdered(Queue(q), FrameOf(e))
<1>1. PICK k \in 0..Len(q) :
           /\ Ring!HasInserted(InsertTsOrdered(q, e), Entries, q, e, k)
           /\ Ring!HasInserted(InsertTsOrdered(Queue(q), FrameOf(e)), Frame,
                               Queue(q), FrameOf(e), k)
  BY InsertIs
<1> DEFINE r == InsertTsOrdered(q, e)
           t == InsertTsOrdered(Queue(q), FrameOf(e))
<1>2. /\ r \in Seq(Entries) /\ Len(r) = Len(q) + 1
      /\ \A i \in 1..(Len(q) + 1) :
            r[i] = IF i <= k THEN q[i] ELSE IF i = k + 1 THEN e ELSE q[i-1]
  BY <1>1 DEF Ring!HasInserted
<1>3. /\ t \in Seq(Frame) /\ Len(t) = Len(q) + 1
      /\ \A i \in 1..(Len(q) + 1) :
            t[i] = IF i <= k THEN Queue(q)[i]
                   ELSE IF i = k + 1 THEN FrameOf(e) ELSE Queue(q)[i-1]
  BY <1>1, QueueIs DEF Ring!HasInserted
<1> HIDE DEF r, t
<1>4. /\ Queue(r) \in Seq(Frame) /\ Len(Queue(r)) = Len(q) + 1
      /\ \A i \in 1..(Len(q) + 1) : Queue(r)[i] = FrameOf(r[i])
  BY <1>2, QueueIs
<1>5. ASSUME NEW i \in 1..(Len(q) + 1) PROVE Queue(r)[i] = t[i]
  <2>1. CASE i <= k
    <3>1. i \in 1..Len(q) /\ r[i] = q[i] /\ t[i] = Queue(q)[i]
      BY <2>1, <1>2, <1>3
    <3> QED BY <3>1, <1>4, QueueIs
  <2>2. CASE i = k + 1
    BY <2>2, <1>2, <1>3, <1>4
  <2>3. CASE i > k + 1
    <3>1. i - 1 \in 1..Len(q) /\ r[i] = q[i - 1] /\ t[i] = Queue(q)[i - 1]
      BY <2>3, <1>2, <1>3
    <3> QED BY <3>1, <1>4, QueueIs
  <2> QED BY <2>1, <2>2, <2>3
<1>6. Queue(r) = t
  BY <1>3, <1>4, <1>5
<1> QED BY <1>6 DEF r, t

LEMMA EvictIs ==
  ASSUME NEW q \in Seq(Entries), NEW cutoff \in Int
  PROVE  \/ EvictBefore(q, cutoff) = <<>> /\ EvictBefore(Queue(q), cutoff) = <<>>
         \/ \E m \in 1..Len(q) :
               /\ EvictBefore(q, cutoff) = SubSeq(q, m, Len(q))
               /\ EvictBefore(Queue(q), cutoff) = SubSeq(Queue(q), m, Len(q))
<1> DEFINE At(r, m) == /\ EvictBefore(r, cutoff) = SubSeq(r, m, Len(r))
                       /\ r[m].pts >= cutoff
                       /\ \A i \in 1..(m-1) : ~ (r[i].pts >= cutoff)
           None(r) == /\ EvictBefore(r, cutoff) = <<>>
                      /\ \A i \in 1..Len(r) : ~ (r[i].pts >= cutoff)
           r == Queue(q)
<1>1. None(q) \/ \E m \in 1..Len(q) : At(q, m)
  BY Ring!EvictPosition, RingConstants, SameOperators
<1>2. /\ r \in Seq(Frame) /\ Len(r) = Len(q)
      /\ \A i \in 1..Len(q) : r[i].pts = q[i].pts
  BY QueueIs
<1>3. None(r) \/ \E m \in 1..Len(r) : At(r, m)
  BY <1>2, Ring!EvictPosition, RingConstants, SameOperators
<1> HIDE DEF r
<1>4. CASE None(q)
  <2>1. \A m \in 1..Len(r) : ~ (r[m].pts >= cutoff)
    BY <1>2, <1>4
  <2>2. None(r)
    BY <1>3, <2>1
  <2> QED BY <1>4, <2>2 DEF r
<1>5. ASSUME NEW m \in 1..Len(q), At(q, m)
      PROVE  At(r, m)
  <2>1. r[m].pts >= cutoff
    BY <1>2, <1>5
  <2>2. PICK n \in 1..Len(r) : At(r, n)
    BY <1>2, <1>3, <2>1
  <2>3. m \in Int /\ n \in Int /\ n \in 1..Len(q) /\ m \in 1..Len(r)
    BY <1>2
  <2>4. CASE n < m
    <3>1. n \in 1..(m - 1)
      BY <2>3, <2>4
    <3> QED BY <3>1, <1>2, <1>5, <2>2, <2>3
  <2>5. CASE m < n
    <3>1. m \in 1..(n - 1)
      BY <2>3, <2>5
    <3> QED BY <3>1, <2>1, <2>2
  <2>6. n < m \/ m < n \/ n = m
    BY <2>3
  <2> QED BY <2>2, <2>4, <2>5, <2>6
<1> QED BY <1>1, <1>2, <1>4, <1>5 DEF r

LEMMA EvictEntries ==
  ASSUME NEW q \in Seq(Entries), NEW cutoff \in Int
  PROVE  Queue(EvictBefore(q, cutoff)) = EvictBefore(Queue(q), cutoff)
<1>1. CASE EvictBefore(q, cutoff) = <<>> /\ EvictBefore(Queue(q), cutoff) = <<>>
  BY <1>1 DEF Queue
<1>2. ASSUME NEW m \in 1..Len(q),
             EvictBefore(q, cutoff) = SubSeq(q, m, Len(q)),
             EvictBefore(Queue(q), cutoff) = SubSeq(Queue(q), m, Len(q))
      PROVE  Queue(EvictBefore(q, cutoff)) = EvictBefore(Queue(q), cutoff)
  <2> DEFINE n == Len(q) - m + 1
             r == SubSeq(q, m, Len(q))
             t == SubSeq(Queue(q), m, Len(q))
  <2>1. /\ r \in Seq(Entries) /\ Len(r) = n /\ n \in Nat
        /\ \A i \in 1..n : r[i] = q[m + i - 1] /\ m + i - 1 \in 1..Len(q)
    OBVIOUS
  <2>2. Queue(q) \in Seq(Frame) /\ Len(Queue(q)) = Len(q)
    BY QueueIs
  <2>3. t \in Seq(Frame) /\ Len(t) = n /\ \A i \in 1..n : t[i] = Queue(q)[m + i - 1]
    BY <2>2
  <2> HIDE DEF r, t
  <2>4. /\ Queue(r) \in Seq(Frame) /\ Len(Queue(r)) = n
        /\ \A i \in 1..n : Queue(r)[i] = FrameOf(r[i])
    BY <2>1, QueueIs
  <2>5. \A i \in 1..n : Queue(r)[i] = t[i]
    BY <2>1, <2>3, <2>4, QueueIs
  <2>6. Queue(r) = t
    BY <2>1, <2>3, <2>4, <2>5
  <2> QED BY <1>2, <2>6 DEF r, t
<1> QED BY <1>1, <1>2, EvictIs

LEMMA TotalOfEntries ==
  ASSUME NEW q \in Seq(Entries)
  PROVE  TotalSize(Queue(q)) = TotalSize(q)
<1>1. PICK sums : /\ Ring!Weighs(sums, Ring!Sizes(q), Len(q))
                  /\ TotalSize(q) = sums[Len(q)]
  BY Ring!TotalWeighs, RingConstants, SameOperators
<1> DEFINE w == Ring!Sizes(q)
           r == Queue(q)
<1>2. \A i \in 1..Len(q) : w[i] = Size(q[i])
  BY Ring!SizesAreWeights, RingConstants, SameOperators
<1>3. r \in Seq(Frame) /\ Len(r) = Len(q) /\ \A i \in 1..Len(q) : Size(r[i]) = Size(q[i])
  BY QueueIs
<1> HIDE DEF w, r
<1>4. Ring!Weighs(sums, w, Len(r)) /\ \A i \in 1..Len(r) : w[i] = Ring!Size(r[i])
  BY <1>1, <1>2, <1>3, SameOperators DEF w
<1>5. Ring!TotalSize(r) = sums[Len(r)]
  BY <1>3, <1>4, Ring!TotalIsSum, RingConstants
<1> QED BY <1>1, <1>3, <1>5, SameOperators DEF r

-----------------------------------------------------------------------------

(***************************************************************************)
(* Files.  A payload lies in a file where as many cells as it is long hold *)
(* its id, all of them before the end.                                     *)
(***************************************************************************)
Lies(file, end, offset, e) ==
    /\ offset \in Nat
    /\ offset + Size(e) <= end
    /\ \A k \in 1..Size(e) : file[offset + k] = e.id

LEMMA SizeIs == \A f : Size(f) \in Nat /\ Size(f) >= 1
BY DEF Size

LEMMA PayloadIs ==
  ASSUME NEW f, f.id \in Nat
  PROVE  /\ Payload(f) \in Seq(Nat) /\ Len(Payload(f)) = Size(f)
         /\ \A k \in 1..Size(f) : Payload(f)[k] = f.id
<1>1. Size(f) \in Nat
  BY SizeIs
<1> QED BY <1>1 DEF Payload

LEMMA Written ==
  ASSUME NEW file \in Seq(Nat), NEW offset \in Nat, offset <= Len(file),
         NEW cells \in Seq(Nat)
  PROVE  /\ WriteAt(file, offset, cells) \in Seq(Nat)
         /\ Len(WriteAt(file, offset, cells)) >= Len(file)
         /\ Len(WriteAt(file, offset, cells)) >= offset + Len(cells)
         /\ \A k \in 1..offset : WriteAt(file, offset, cells)[k] = file[k]
         /\ \A k \in 1..Len(cells) : WriteAt(file, offset, cells)[offset + k] = cells[k]
<1> DEFINE end == offset + Len(cells)
           n == IF end > Len(file) THEN end ELSE Len(file)
           At(k) == IF k > offset /\ k <= end THEN cells[k - offset]
                    ELSE IF k <= Len(file) THEN file[k] ELSE 0
           w == [k \in 1..n |-> At(k)]
<1>1. WriteAt(file, offset, cells) = w
  BY DEF WriteAt
<1>2. /\ end \in Nat /\ n \in Nat /\ n >= Len(file) /\ n >= end /\ end >= offset
      /\ Len(file) \in Nat /\ Len(cells) \in Nat
  OBVIOUS
<1>3. ASSUME NEW k \in 1..n PROVE At(k) \in Nat
  <2>1. CASE k > offset /\ k <= end
    <3>1. k - offset \in 1..Len(cells)
      BY <2>1
    <3> QED BY <2>1, <3>1
  <2>2. CASE ~ (k > offset /\ k <= end)
    <3>1. k <= Len(file) => k \in 1..Len(file)
      OBVIOUS
    <3> QED BY <2>2, <3>1
  <2> QED BY <2>1, <2>2
<1>4. w \in Seq(Nat) /\ Len(w) = n
  BY <1>2, <1>3
<1>5. ASSUME NEW k \in 1..offset PROVE w[k] = file[k]
  <2>1. k \in 1..n /\ ~ (k > offset) /\ k <= Len(file)
    BY <1>2
  <2> QED BY <2>1
<1>6. ASSUME NEW k \in 1..Len(cells) PROVE w[offset + k] = cells[k]
  <2>1. offset + k \in 1..n /\ offset + k > offset /\ offset + k <= end
        /\ (offset + k) - offset = k
    BY <1>2
  <2> QED BY <2>1
<1> HIDE DEF w
<1> QED BY <1>1, <1>2, <1>4, <1>5, <1>6

LEMMA ReadBack ==
  ASSUME NEW file \in Seq(Nat), NEW offset \in Nat, NEW len \in Nat
  PROVE  /\ ReadAt(file, offset, len) \in Seq(Nat)
         /\ Len(ReadAt(file, offset, len)) <= len
         /\ \A k \in 1..Len(ReadAt(file, offset, len)) :
               ReadAt(file, offset, len)[k] = file[offset + k]
         /\ offset + len <= Len(file) => Len(ReadAt(file, offset, len)) = len
<1> DEFINE b == IF offset + len <= Len(file) THEN offset + len ELSE Len(file)
           r == SubSeq(file, offset + 1, b)
<1>1. ReadAt(file, offset, len) = r
  BY DEF ReadAt
<1>2. b \in Nat /\ b <= Len(file) /\ b <= offset + len /\ Len(file) \in Nat
  OBVIOUS
<1>3. offset + len <= Len(file) => b = offset + len
  OBVIOUS
<1> HIDE DEF b
<1>4. /\ r \in Seq(Nat)
      /\ Len(r) = IF offset + 1 <= b THEN b - offset ELSE 0
      /\ \A k \in 1..Len(r) : r[k] = file[offset + k]
  BY <1>2
<1> HIDE DEF r
<1> QED BY <1>1, <1>2, <1>3, <1>4

LEMMA Appended ==
  ASSUME NEW file \in Seq(Nat), NEW cells \in Seq(Nat)
  PROVE  /\ file \o cells \in Seq(Nat)
         /\ Len(file \o cells) = Len(file) + Len(cells)
         /\ \A k \in 1..Len(file) : (file \o cells)[k] = file[k]
         /\ \A k \in 1..Len(cells) : (file \o cells)[Len(file) + k] = cells[k]
OBVIOUS

\* What is written behind the end is not seen before it.
LEMMA StillLies ==
  ASSUME NEW file, NEW end \in Nat, NEW offset, NEW e, Lies(file, end, offset, e),
         NEW g, NEW more \in Nat, more >= end,
         \A k \in 1..end : g[k] = file[k]
  PROVE  Lies(g, more, offset, e)
<1>1. offset \in Nat /\ offset + Size(e) <= end /\ Size(e) \in Nat
  BY SizeIs DEF Lies
<1>2. offset + Size(e) <= more
  BY <1>1
<1>3. \A k \in 1..Size(e) : offset + k \in 1..end
  BY <1>1
<1>4. \A k \in 1..Size(e) : g[offset + k] = e.id
  BY <1>3 DEF Lies
<1> QED BY <1>1, <1>2, <1>4 DEF Lies

\* A payload that lies in a file is read from there.
LEMMA LiesRead ==
  ASSUME NEW file \in Seq(Nat), NEW offset, NEW e, e.id \in Nat,
         Lies(file, Len(file), offset, e)
  PROVE  ReadAt(file, offset, Size(e)) = Payload(e)
<1>1. offset \in Nat /\ offset + Size(e) <= Len(file) /\ Size(e) \in Nat
  BY SizeIs DEF Lies
<1> DEFINE r == ReadAt(file, offset, Size(e))
<1>2. /\ r \in Seq(Nat) /\ Len(r) = Size(e)
      /\ \A k \in 1..Size(e) : r[k] = file[offset + k]
  BY <1>1, ReadBack
<1> HIDE DEF r
<1>3. /\ Payload(e) \in Seq(Nat) /\ Len(Payload(e)) = Size(e)
      /\ \A k \in 1..Size(e) : Payload(e)[k] = r[k]
  BY <1>2, PayloadIs DEF Lies
<1>4. r = Payload(e)
  BY <1>2, <1>3
<1> QED BY <1>4 DEF r

-----------------------------------------------------------------------------

(***************************************************************************)
(* What a compaction has copied fits the second file: no entry is copied   *)
(* twice.                                                                  *)
(***************************************************************************)
CopyWeights(q) ==
    [i \in 1..Len(q) |-> IF q[i].new_offset = NoOffset THEN 0 ELSE Size(q[i])]

CopiesFit(q, cells) ==
    \E sums : /\ Ring!Weighs(sums, CopyWeights(q), Len(q))
              /\ sums[Len(q)] <= Len(cells)

\* v is w with x more at place i.
IsRaised(v, w, n, i, x) ==
    \A j \in 1..n : v[j] = IF j = i THEN w[j] + x ELSE w[j]

LEMMA WeighsRaised ==
  ASSUME NEW n \in Nat, NEW w \in Ring!Weights(n), NEW sums, Ring!Weighs(sums, w, n),
         NEW i \in 1..n, NEW x \in Nat, NEW v, IsRaised(v, w, n, i, x)
  PROVE  \E s : Ring!Weighs(s, v, n) /\ s[n] = sums[n] + x
<1> DEFINE g == [j \in 0..n |-> IF j < i THEN sums[j] ELSE sums[j] + x]
<1>0. \A j \in 1..n : v[j] = IF j = i THEN w[j] + x ELSE w[j]
  BY DEF IsRaised
<1>1. /\ sums[0] = 0
      /\ \A j \in 0..n : sums[j] \in Int
      /\ \A j \in 1..n : sums[j] = sums[j - 1] + w[j] /\ w[j] \in Int
  BY Ring!WeighsFacts, RingConstants
<1>2. g \in [0..n -> Int] /\ g[0] = 0 /\ g[n] = sums[n] + x
  BY <1>1
<1>3. ASSUME NEW j \in 1..n PROVE g[j] = g[j - 1] + v[j]
  <2>1. j - 1 \in 0..n /\ j \in 0..n /\ sums[j - 1] \in Int
    BY <1>1
  <2>2. CASE j < i
    BY <2>1, <2>2, <1>0, <1>1
  <2>3. CASE j = i
    <3>1. g[j] = sums[j] + x /\ g[j - 1] = sums[j - 1] /\ v[j] = w[j] + x
      BY <2>1, <2>3, <1>0
    <3> QED BY <3>1, <2>1, <1>1
  <2>4. CASE j > i
    <3>1. g[j] = sums[j] + x /\ g[j - 1] = sums[j - 1] + x /\ v[j] = w[j]
      BY <2>1, <2>4, <1>0
    <3> QED BY <3>1, <2>1, <1>1
  <2> QED BY <2>2, <2>3, <2>4
<1> HIDE DEF g
<1>4. Ring!Weighs(g, v, n)
  BY <1>2, <1>3 DEF Ring!Weighs
<1> QED BY <1>2, <1>4

LEMMA CopyWeightsAre ==
  ASSUME NEW S, NEW q \in Seq(S)
  PROVE  /\ Len(q) \in Nat
         /\ CopyWeights(q) \in Ring!Weights(Len(q))
         /\ \A i \in 1..Len(q) : CopyWeights(q)[i] =
               IF q[i].new_offset = NoOffset THEN 0 ELSE Size(q[i])
<1>1. \A f : Size(f) \in Nat
  BY SizeIs
<1> QED BY <1>1 DEF CopyWeights, Ring!Weights

LEMMA FitForgotten ==
  ASSUME NEW q \in Seq(Entries), NEW cells \in Seq(Nat),
         \A i \in 1..Len(q) : q[i].new_offset = NoOffset
  PROVE  CopiesFit(q, cells)
<1> DEFINE n == Len(q)
           w == CopyWeights(q)
<1>1. n \in Nat /\ \A i \in 1..n : w[i] = 0
  BY CopyWeightsAre
<1> HIDE DEF n, w
<1> DEFINE g == [i \in 0..n |-> 0]
<1>2. Ring!Weighs(g, w, n)
  BY <1>1 DEF Ring!Weighs
<1>3. g[n] <= Len(cells)
  BY <1>1
<1> QED BY <1>2, <1>3 DEF CopiesFit, n, w

LEMMA FitNothing ==
  ASSUME NEW cells \in Seq(Nat)
  PROVE  CopiesFit(<<>>, cells)
<1>1. <<>> \in Seq(Entries)
  OBVIOUS
<1>2. \A i \in 1..Len(<<>>) : <<>>[i].new_offset = NoOffset
  OBVIOUS
<1> QED BY <1>1, <1>2, FitForgotten

LEMMA FitInserted ==
  ASSUME NEW q \in Seq(Entries), NEW e \in Entries, e.new_offset = NoOffset,
         NEW cells, CopiesFit(q, cells)
  PROVE  CopiesFit(InsertTsOrdered(q, e), cells)
<1> DEFINE r == InsertTsOrdered(q, e)
           n == Len(q)
           w == CopyWeights(q)
           v == CopyWeights(r)
<1>1. PICK k \in 0..n : Ring!HasInserted(r, Entries, q, e, k)
  BY InsertIs
<1>2. /\ r \in Seq(Entries) /\ Len(r) = n + 1
      /\ \A i \in 1..(n + 1) :
            r[i] = IF i <= k THEN q[i] ELSE IF i = k + 1 THEN e ELSE q[i - 1]
  BY <1>1 DEF Ring!HasInserted
<1>3. PICK sums : Ring!Weighs(sums, w, n) /\ sums[n] <= Len(cells)
  BY DEF CopiesFit
<1>4. /\ n \in Nat /\ w \in Ring!Weights(n) /\ k \in 0..n
      /\ \A i \in 1..n : w[i] = IF q[i].new_offset = NoOffset THEN 0 ELSE Size(q[i])
  BY CopyWeightsAre
<1>5. \A i \in 1..(n + 1) : v[i] = IF r[i].new_offset = NoOffset THEN 0 ELSE Size(r[i])
  BY <1>2, CopyWeightsAre
<1> HIDE DEF r, n, w, v
<1>6. ASSUME NEW i \in 1..(n + 1)
      PROVE  v[i] = IF i <= k THEN w[i] ELSE IF i = k + 1 THEN 0 ELSE w[i - 1]
  <2>1. CASE i <= k
    <3>1. i \in 1..n
      BY <2>1, <1>4
    <3> QED BY <3>1, <2>1, <1>2, <1>4, <1>5
  <2>2. CASE i = k + 1
    BY <2>2, <1>2, <1>4, <1>5
  <2>3. CASE i > k + 1
    <3>1. i - 1 \in 1..n /\ ~ (i <= k) /\ i # k + 1
      BY <2>3, <1>4
    <3> QED BY <3>1, <1>2, <1>4, <1>5
  <2> QED BY <2>1, <2>2, <2>3, <1>4
<1>7. Ring!IsWidened(v, w, n, k, 0)
  BY <1>6 DEF Ring!IsWidened
<1>8. PICK s : Ring!Weighs(s, v, n + 1) /\ s[n + 1] = sums[n] + 0
  BY <1>3, <1>4, <1>7, Ring!WeighsInserted, RingConstants
<1>9. sums[n] \in Int
  BY <1>3, <1>4 DEF Ring!Weighs
<1>10. s[n + 1] <= Len(cells)
  BY <1>3, <1>8, <1>9
<1> QED BY <1>2, <1>8, <1>10 DEF CopiesFit, r, v

LEMMA FitPart ==
  ASSUME NEW q \in Seq(Entries), NEW m \in 1..Len(q),
         NEW cells \in Seq(Nat), CopiesFit(q, cells)
  PROVE  CopiesFit(SubSeq(q, m, Len(q)), cells)
<1> DEFINE r == SubSeq(q, m, Len(q))
           n == Len(q)
           a == m - 1
           w == CopyWeights(q)
           v == CopyWeights(r)
<1>1. /\ r \in Seq(Entries) /\ Len(r) = n - a /\ a \in 0..n /\ n \in a..n
      /\ \A i \in 1..(n - a) : r[i] = q[a + i] /\ a + i \in 1..n
  OBVIOUS
<1>2. PICK sums : Ring!Weighs(sums, w, n) /\ sums[n] <= Len(cells)
  BY DEF CopiesFit
<1>3. /\ n \in Nat /\ w \in Ring!Weights(n)
      /\ \A i \in 1..n : w[i] = IF q[i].new_offset = NoOffset THEN 0 ELSE Size(q[i])
  BY CopyWeightsAre
<1> HIDE DEF r
<1>4. \A i \in 1..(n - a) : v[i] = IF r[i].new_offset = NoOffset THEN 0 ELSE Size(r[i])
  BY <1>1, CopyWeightsAre
<1> HIDE DEF n, a, w, v
<1>5. Ring!IsPart(v, w, a, n - a)
  BY <1>1, <1>3, <1>4 DEF Ring!IsPart
<1>6. PICK s : Ring!Weighs(s, v, n - a) /\ s[n - a] = sums[n] - sums[a]
  <2>1. /\ n \in Nat /\ w \in Ring!Weights(n) /\ Ring!Weighs(sums, w, n)
        /\ a \in 0..n /\ n \in a..n
    BY <1>1, <1>2, <1>3
  <2> QED BY <2>1, <1>5, Ring!WeighsPart, RingConstants
<1>7. 0 \in 0..n /\ n \in 0..n /\ 0 <= a
  BY <1>1, <1>3
<1>8. sums[0] <= sums[a]
  BY <1>1, <1>2, <1>3, <1>7, Ring!WeighsAscend, RingConstants
<1>9. sums[0] = 0 /\ sums[a] \in Int /\ sums[n] \in Int
  BY <1>1, <1>2, <1>7 DEF Ring!Weighs
<1>10. s[n - a] <= Len(cells)
  BY <1>2, <1>6, <1>8, <1>9
<1> QED BY <1>1, <1>6, <1>10 DEF CopiesFit, r, v, n

LEMMA FitCopied ==
  ASSUME NEW q \in Seq(Entries), NEW cells \in Seq(Nat), CopiesFit(q, cells),
         NEW r \in Seq(Entries), Len(r) = Len(q), NEW i \in 1..Len(q),
         \A j \in 1..Len(q) : j # i => r[j] = q[j],
         q[i].new_offset = NoOffset, Size(r[i]) = Size(q[i]), r[i].new_offset # NoOffset,
         NEW more \in Seq(Nat), Len(more) = Len(cells) + Size(q[i])
  PROVE  CopiesFit(r, more)
<1> DEFINE n == Len(q)
           w == CopyWeights(q)
           v == CopyWeights(r)
           x == Size(q[i])
<1>1. PICK sums : Ring!Weighs(sums, w, n) /\ sums[n] <= Len(cells)
  BY DEF CopiesFit
<1>2. /\ n \in Nat /\ w \in Ring!Weights(n)
      /\ \A j \in 1..n : w[j] = IF q[j].new_offset = NoOffset THEN 0 ELSE Size(q[j])
  BY CopyWeightsAre
<1>3. \A j \in 1..n : v[j] = IF r[j].new_offset = NoOffset THEN 0 ELSE Size(r[j])
  BY CopyWeightsAre
<1>4. x \in Nat /\ i \in 1..n /\ Len(cells) \in Nat
  BY SizeIs
<1> HIDE DEF n, w, v
<1>5. ASSUME NEW j \in 1..n PROVE v[j] = IF j = i THEN w[j] + x ELSE w[j]
  <2>1. CASE j = i
    BY <2>1, <1>2, <1>3, <1>4
  <2>2. CASE j # i
    <3>1. r[j] = q[j]
      BY <2>2 DEF n
    <3> QED BY <3>1, <2>2, <1>2, <1>3
  <2> QED BY <2>1, <2>2
<1> HIDE DEF x
<1>6. PICK s : Ring!Weighs(s, v, n) /\ s[n] = sums[n] + x
  <2>1. IsRaised(v, w, n, i, x)
    BY <1>5 DEF IsRaised
  <2> QED BY <2>1, <1>1, <1>2, <1>4, WeighsRaised
<1>7. sums[n] \in Int
  BY <1>1, <1>2 DEF Ring!Weighs
<1>8. s[n] <= Len(more)
  BY <1>1, <1>4, <1>6, <1>7 DEF x
<1> QED BY <1>6, <1>8 DEF CopiesFit, n, v

LEMMA FitAll ==
  ASSUME NEW q \in Seq(Entries), NEW cells, CopiesFit(q, cells),
         \A i \in 1..Len(q) : q[i].new_offset # NoOffset
  PROVE  TotalSize(q) <= Len(cells)
<1>1. PICK sums : Ring!Weighs(sums, CopyWeights(q), Len(q)) /\ sums[Len(q)] <= Len(cells)
  BY DEF CopiesFit
<1> DEFINE w == CopyWeights(q)
<1>2. \A i \in 1..Len(q) : w[i] = Ring!Size(q[i])
  BY CopyWeightsAre, SameOperators
<1> HIDE DEF w
<1>3. Ring!TotalSize(q) = sums[Len(q)]
  BY <1>1, <1>2, Ring!TotalIsSum, RingConstants DEF w
<1> QED BY <1>1, <1>3, SameOperators

-----------------------------------------------------------------------------

(***************************************************************************)
(* The store is sound: every payload lies in the file before the end of    *)
(* what was written, every copy in the second file, which holds them all,  *)
(* and the accounts are exact.                                             *)
(***************************************************************************)
Stores == [index : Seq(Entries), file : Seq(Nat), write_offset : Nat,
           live_bytes : Nat, dead_bytes : Nat,
           compaction : [on : BOOLEAN, cells : Seq(Nat)], linked : BOOLEAN]

Placed(q, file, end) ==
    /\ end <= Len(file)
    /\ \A i \in 1..Len(q) : Lies(file, end, q[i].offset, q[i])

Copied(q, cells) ==
    /\ \A i \in 1..Len(q) :
          q[i].new_offset # NoOffset => Lies(cells, Len(cells), q[i].new_offset, q[i])
    /\ CopiesFit(q, cells)

Accounted(d) ==
    /\ d.live_bytes = TotalSize(d.index)
    /\ d.live_bytes + d.dead_bytes = d.write_offset

Sound(d) ==
    /\ d \in Stores
    /\ Placed(d.index, d.file, d.write_offset)
    /\ Copied(d.index, d.compaction.cells)
    /\ ~ d.compaction.on => d.compaction.cells = <<>>
    /\ Accounted(d)

LEMMA StoreFields ==
  ASSUME NEW d \in Stores
  PROVE  /\ d.index \in Seq(Entries) /\ d.file \in Seq(Nat) /\ d.write_offset \in Nat
         /\ d.live_bytes \in Nat /\ d.dead_bytes \in Nat
         /\ d.compaction.on \in BOOLEAN /\ d.compaction.cells \in Seq(Nat)
         /\ d.linked \in BOOLEAN
BY DEF Stores

LEMMA TotalNat ==
  ASSUME NEW S, NEW q \in Seq(S)
  PROVE  TotalSize(q) \in Nat
BY Ring!TotalInt, RingConstants, SameOperators

\* Nothing is held, whatever is left in the file.
LEMMA FreshSound ==
  ASSUME NEW d \in Stores, d.index = <<>>, d.write_offset = 0,
         d.live_bytes = 0, d.dead_bytes = 0, d.compaction = NoCompaction
  PROVE  Sound(d) /\ Queue(d.index) = <<>>
<1>1. NoCompaction.on = FALSE /\ NoCompaction.cells = <<>>
  BY DEF NoCompaction
<1>2. Len(<<>>) = 0 /\ <<>> \in Seq(Nat) /\ Len(d.file) \in Nat
  BY StoreFields
<1>3. Placed(<<>>, d.file, 0)
  BY <1>2 DEF Placed
<1>4. Copied(<<>>, <<>>)
  <2>1. CopiesFit(<<>>, <<>>)
    BY <1>2, FitNothing
  <2> QED BY <1>2, <2>1 DEF Copied
<1>5. Accounted(d)
  BY SameOperators, Ring!TotalEmpty, RingConstants DEF Accounted
<1>6. Queue(<<>>) = <<>>
  BY DEF Queue
<1> QED BY <1>1, <1>3, <1>4, <1>5, <1>6 DEF Sound

LEMMA FreshIs ==
  /\ Fresh \in Stores /\ Fresh.index = <<>> /\ Fresh.write_offset = 0
  /\ Fresh.live_bytes = 0 /\ Fresh.dead_bytes = 0 /\ Fresh.compaction = NoCompaction
<1>1. <<>> \in Seq(Entries) /\ <<>> \in Seq(Nat)
  OBVIOUS
<1> QED BY <1>1 DEF Fresh, Stores, NoCompaction

\* Where the members of a queue with one entry more, or with fewer, are from.
LEMMA InsertedAre ==
  ASSUME NEW q \in Seq(Entries), NEW e \in Entries
  PROVE  /\ InsertTsOrdered(q, e) \in Seq(Entries)
         /\ \A i \in 1..Len(InsertTsOrdered(q, e)) :
               \/ InsertTsOrdered(q, e)[i] = e
               \/ \E j \in 1..Len(q) : InsertTsOrdered(q, e)[i] = q[j]
<1> DEFINE r == InsertTsOrdered(q, e)
           n == Len(q)
<1>1. PICK k \in 0..n : Ring!HasInserted(r, Entries, q, e, k)
  BY InsertIs
<1>2. /\ r \in Seq(Entries) /\ Len(r) = n + 1
      /\ \A i \in 1..(n + 1) :
            r[i] = IF i <= k THEN q[i] ELSE IF i = k + 1 THEN e ELSE q[i - 1]
  BY <1>1 DEF Ring!HasInserted
<1>3. n \in Nat
  OBVIOUS
<1> HIDE DEF r, n
<1>4. ASSUME NEW i \in 1..(n + 1) PROVE r[i] = e \/ \E j \in 1..n : r[i] = q[j]
  <2>1. CASE i <= k
    <3>1. i \in 1..n
      BY <2>1, <1>3
    <3> QED BY <3>1, <2>1, <1>2
  <2>2. CASE i = k + 1
    BY <2>2, <1>2, <1>3
  <2>3. CASE i > k + 1
    <3>1. i - 1 \in 1..n /\ ~ (i <= k) /\ i # k + 1
      BY <2>3, <1>3
    <3> QED BY <3>1, <1>2
  <2> QED BY <2>1, <2>2, <2>3, <1>3
<1> QED BY <1>2, <1>4 DEF r, n

LEMMA EvictedAre ==
  ASSUME NEW q \in Seq(Entries), NEW cutoff \in Int
  PROVE  /\ EvictBefore(q, cutoff) \in Seq(Entries)
         /\ \A i \in 1..Len(EvictBefore(q, cutoff)) :
               \E j \in 1..Len(q) : EvictBefore(q, cutoff)[i] = q[j]
         /\ \A cells \in Seq(Nat) :
               CopiesFit(q, cells) => CopiesFit(EvictBefore(q, cutoff), cells)
         /\ TotalSize(EvictBefore(q, cutoff)) <= TotalSize(q)
<1>1. CASE EvictBefore(q, cutoff) = <<>>
  <2>1. <<>> \in Seq(Entries) /\ Len(<<>>) = 0
    OBVIOUS
  <2>2. \A cells \in Seq(Nat) : CopiesFit(<<>>, cells)
    BY FitNothing
  <2>3. TotalSize(<<>>) = 0 /\ TotalSize(q) \in Nat
    BY TotalNat, SameOperators, Ring!TotalEmpty, RingConstants
  <2> QED BY <1>1, <2>1, <2>2, <2>3
<1>2. ASSUME NEW m \in 1..Len(q), EvictBefore(q, cutoff) = SubSeq(q, m, Len(q))
      PROVE  /\ EvictBefore(q, cutoff) \in Seq(Entries)
             /\ \A i \in 1..Len(EvictBefore(q, cutoff)) :
                   \E j \in 1..Len(q) : EvictBefore(q, cutoff)[i] = q[j]
             /\ \A cells \in Seq(Nat) :
                   CopiesFit(q, cells) => CopiesFit(EvictBefore(q, cutoff), cells)
             /\ TotalSize(EvictBefore(q, cutoff)) <= TotalSize(q)
  <2> DEFINE r == SubSeq(q, m, Len(q))
  <2>1. /\ r \in Seq(Entries)
        /\ \A i \in 1..Len(r) : m + i - 1 \in 1..Len(q) /\ r[i] = q[m + i - 1]
    OBVIOUS
  <2>2. \A cells \in Seq(Nat) : CopiesFit(q, cells) => CopiesFit(r, cells)
    BY FitPart
  <2>3. TotalSize(r) <= TotalSize(q)
    <3>1. PICK sums : /\ Ring!Weighs(sums, Ring!Sizes(q), Len(q))
                      /\ TotalSize(q) = sums[Len(q)]
      BY Ring!TotalWeighs, RingConstants, SameOperators
    <3> DEFINE n == Len(q)
               a == m - 1
               w == Ring!Sizes(q)
    <3>2. n \in Nat /\ a \in 0..n /\ n \in a..n /\ a + 1 = m /\ 0 \in 0..n /\ n \in 0..n /\ 0 <= a
      OBVIOUS
    <3>3. TotalSize(SubSeq(q, a + 1, n)) = sums[n] - sums[a]
      BY <3>1, <3>2, Ring!TotalOfPart, RingConstants, SameOperators
    <3>4. w \in Ring!Weights(n)
      BY Ring!SizesAreWeights, RingConstants
    <3> HIDE DEF a, w
    <3>5. sums[0] <= sums[a]
      BY <3>1, <3>2, <3>4, Ring!WeighsAscend, RingConstants DEF w
    <3>6. sums[0] = 0 /\ sums[a] \in Int /\ sums[n] \in Int
      BY <3>1, <3>2 DEF Ring!Weighs
    <3> QED BY <3>1, <3>2, <3>3, <3>5, <3>6
  <2> HIDE DEF r
  <2> QED BY <1>2, <2>1, <2>2, <2>3 DEF r
<1> QED BY <1>1, <1>2, EvictIs

(***************************************************************************)
(* Spilling, evicting.                                                     *)
(***************************************************************************)
LEMMA SpillSound ==
  ASSUME NEW d, Sound(d), NEW f \in Frame
  PROVE  LET s == Spill(d, f)
         IN  /\ Sound(s)
             /\ Queue(s.index) = InsertTsOrdered(Queue(d.index), f)
             /\ s.live_bytes = d.live_bytes + Size(f)
<1> DEFINE e == Entry(f, d.write_offset)
           s == Spill(d, f)
           q == InsertTsOrdered(d.index, e)
           file == WriteAt(d.file, d.write_offset, Payload(f))
<1>1. /\ d \in Stores /\ d.index \in Seq(Entries) /\ d.file \in Seq(Nat)
      /\ d.write_offset \in Nat /\ d.live_bytes \in Nat /\ d.dead_bytes \in Nat
      /\ d.compaction.cells \in Seq(Nat) /\ d.write_offset <= Len(d.file)
  BY StoreFields DEF Sound, Placed
<1>2. f.id \in Nat /\ f.pts \in Pts /\ f.key \in BOOLEAN /\ Size(f) \in Nat
  BY SizeIs DEF Frame
<1>3. /\ e \in Entries /\ e.new_offset = NoOffset /\ e.offset = d.write_offset
      /\ e.id = f.id /\ Size(e) = Size(f) /\ FrameOf(e) = f
  <2>1. e \in Entries
    BY <1>1, <1>2 DEF Entry, Entries
  <2>2. FrameOf(e) = f
    BY DEF Entry, FrameOf, Frame
  <2> QED BY <2>1, <2>2 DEF Entry, Size
<1>4. /\ s.index = q /\ s.file = file
      /\ s.write_offset = d.write_offset + Size(f)
      /\ s.live_bytes = d.live_bytes + Size(f) /\ s.dead_bytes = d.dead_bytes
      /\ s.compaction = d.compaction /\ s.linked = d.linked
      /\ s = [d EXCEPT !.index = q, !.file = file, !.write_offset = d.write_offset + Size(f),
                       !.live_bytes = d.live_bytes + Size(f)]
  BY <1>1 DEF Spill, Stores
<1> HIDE DEF s
<1>5. /\ file \in Seq(Nat)
      /\ Len(file) >= d.write_offset + Size(f)
      /\ \A k \in 1..d.write_offset : file[k] = d.file[k]
      /\ \A k \in 1..Size(f) : file[d.write_offset + k] = f.id
  <2> DEFINE cells == Payload(f)
  <2>1. /\ cells \in Seq(Nat) /\ Len(cells) = Size(f)
        /\ \A k \in 1..Size(f) : cells[k] = f.id
    BY <1>2, PayloadIs
  <2> HIDE DEF cells
  <2>2. /\ WriteAt(d.file, d.write_offset, cells) \in Seq(Nat)
        /\ Len(WriteAt(d.file, d.write_offset, cells)) >= d.write_offset + Len(cells)
        /\ \A k \in 1..d.write_offset :
              WriteAt(d.file, d.write_offset, cells)[k] = d.file[k]
        /\ \A k \in 1..Len(cells) :
              WriteAt(d.file, d.write_offset, cells)[d.write_offset + k] = cells[k]
    BY <1>1, <2>1, Written
  <2> QED BY <2>1, <2>2 DEF cells
<1>6. /\ q \in Seq(Entries)
      /\ \A i \in 1..Len(q) : q[i] = e \/ \E j \in 1..Len(d.index) : q[i] = d.index[j]
  BY <1>1, <1>3, InsertedAre
<1>7. Queue(q) = InsertTsOrdered(Queue(d.index), f)
  BY <1>1, <1>3, InsertEntry
<1>8. CopiesFit(q, d.compaction.cells)
  BY <1>1, <1>3, FitInserted DEF Sound, Copied
<1>9. TotalSize(q) = TotalSize(d.index) + Size(f)
  BY <1>1, <1>3, Ring!TotalAfterInsert, RingConstants, SameOperators
<1> HIDE DEF e, q, file
<1>10. s \in Stores
  <2>1. d.write_offset + Size(f) \in Nat /\ d.live_bytes + Size(f) \in Nat
    BY <1>1, <1>2
  <2> QED BY <2>1, <1>1, <1>4, <1>5, <1>6 DEF Stores
<1>11. Placed(s.index, s.file, s.write_offset)
  <2>1. ASSUME NEW i \in 1..Len(q)
        PROVE  Lies(file, s.write_offset, q[i].offset, q[i])
    <3>1. CASE q[i] = e
      BY <3>1, <1>1, <1>2, <1>3, <1>4, <1>5 DEF Lies
    <3>2. CASE \E j \in 1..Len(d.index) : q[i] = d.index[j]
      <4>1. Lies(d.file, d.write_offset, q[i].offset, q[i])
        BY <3>2 DEF Sound, Placed
      <4>2. s.write_offset \in Nat /\ s.write_offset >= d.write_offset
        BY <1>1, <1>2, <1>4
      <4> QED BY <4>1, <4>2, <1>1, <1>5, StillLies
    <3> QED BY <3>1, <3>2, <1>6
  <2> QED BY <2>1, <1>4, <1>5 DEF Placed
<1>12. Copied(s.index, s.compaction.cells)
  BY <1>3, <1>4, <1>6, <1>8 DEF Sound, Copied
<1>13. Accounted(s)
  BY <1>1, <1>2, <1>4, <1>9 DEF Sound, Accounted
<1>14. Sound(s)
  BY <1>4, <1>10, <1>11, <1>12, <1>13 DEF Sound
<1> QED BY <1>4, <1>7, <1>14 DEF s

LEMMA EvictSound ==
  ASSUME NEW d, Sound(d), NEW cutoff \in Int
  PROVE  LET s == Evict(d, cutoff)
         IN  /\ Sound(s)
             /\ Queue(s.index) = EvictBefore(Queue(d.index), cutoff)
             /\ s.live_bytes = d.live_bytes - (TotalSize(d.index) - TotalSize(s.index))
<1> DEFINE s == Evict(d, cutoff)
           q == EvictBefore(d.index, cutoff)
           gone == TotalSize(d.index) - TotalSize(q)
<1>1. /\ d \in Stores /\ d.index \in Seq(Entries) /\ d.file \in Seq(Nat)
      /\ d.write_offset \in Nat /\ d.live_bytes \in Nat /\ d.dead_bytes \in Nat
      /\ d.compaction.cells \in Seq(Nat)
  BY StoreFields DEF Sound
<1>2. /\ s.index = q /\ s.live_bytes = d.live_bytes - gone
      /\ s.dead_bytes = d.dead_bytes + gone
      /\ s.file = d.file /\ s.write_offset = d.write_offset
      /\ s.compaction = d.compaction /\ s.linked = d.linked
      /\ s = [d EXCEPT !.index = q, !.live_bytes = d.live_bytes - gone,
                       !.dead_bytes = d.dead_bytes + gone]
  BY <1>1 DEF Evict, Stores
<1> HIDE DEF s
<1>3. /\ q \in Seq(Entries)
      /\ \A i \in 1..Len(q) : \E j \in 1..Len(d.index) : q[i] = d.index[j]
      /\ CopiesFit(q, d.compaction.cells)
      /\ TotalSize(q) <= TotalSize(d.index)
  BY <1>1, EvictedAre DEF Sound, Copied
<1>4. Queue(q) = EvictBefore(Queue(d.index), cutoff)
  BY <1>1, EvictEntries
<1>5. /\ TotalSize(q) \in Nat /\ TotalSize(d.index) \in Nat
      /\ d.live_bytes = TotalSize(d.index)
      /\ d.live_bytes + d.dead_bytes = d.write_offset
  BY <1>1, <1>3, TotalNat DEF Sound, Accounted
<1> HIDE DEF q
<1>6. /\ gone \in Nat /\ d.live_bytes - gone = TotalSize(q)
      /\ (d.live_bytes - gone) + (d.dead_bytes + gone) = d.write_offset
      /\ d.dead_bytes + gone \in Nat
  <2>1. gone \in Nat /\ gone = d.live_bytes - TotalSize(q)
    BY <1>3, <1>5
  <2> HIDE DEF gone
  <2> QED BY <2>1, <1>1, <1>5
<1>7. s \in Stores
  BY <1>1, <1>2, <1>3, <1>5, <1>6 DEF Stores
<1>8. Placed(s.index, s.file, s.write_offset)
  BY <1>2, <1>3 DEF Sound, Placed
<1>9. Copied(s.index, s.compaction.cells)
  BY <1>2, <1>3 DEF Sound, Copied
<1>10. Accounted(s)
  BY <1>2, <1>6 DEF Accounted
<1>11. Sound(s)
  BY <1>2, <1>7, <1>8, <1>9, <1>10 DEF Sound
<1> QED BY <1>2, <1>4, <1>11 DEF s

(***************************************************************************)
(* Compaction changes where entries are, never which they are.             *)
(***************************************************************************)
Agrees(r, q) ==
    /\ r \in Seq(Entries)
    /\ Len(r) = Len(q)
    /\ \A i \in 1..Len(q) : FrameOf(r[i]) = FrameOf(q[i])

LEMMA AgreeingQueues ==
  ASSUME NEW q \in Seq(Entries), NEW r, Agrees(r, q)
  PROVE  /\ Queue(r) = Queue(q)
         /\ TotalSize(r) = TotalSize(q)
         /\ \A i \in 1..Len(q) : r[i].id = q[i].id /\ Size(r[i]) = Size(q[i])
<1>1. r \in Seq(Entries) /\ Len(r) = Len(q)
  BY DEF Agrees
<1>2. /\ Queue(r) \in Seq(Frame) /\ Len(Queue(r)) = Len(q)
      /\ \A i \in 1..Len(q) : r[i] \in Entries /\ Queue(r)[i] = FrameOf(r[i])
  BY <1>1, QueueIs
<1>3. /\ Queue(q) \in Seq(Frame) /\ Len(Queue(q)) = Len(q)
      /\ \A i \in 1..Len(q) : q[i] \in Entries /\ Queue(q)[i] = FrameOf(q[i])
  BY QueueIs
<1>4. \A i \in 1..Len(q) : Queue(r)[i] = Queue(q)[i]
  BY <1>2, <1>3 DEF Agrees
<1>5. Queue(r) = Queue(q)
  BY <1>2, <1>3, <1>4
<1>6. TotalSize(r) = TotalSize(q)
  BY <1>1, <1>5, TotalOfEntries
<1>7. \A i \in 1..Len(q) : r[i].id = q[i].id /\ Size(r[i]) = Size(q[i])
  BY <1>2, <1>3, FrameOfEntry DEF Agrees
<1> QED BY <1>5, <1>6, <1>7

LEMMA Forgotten ==
  ASSUME NEW q \in Seq(Entries)
  PROVE  /\ Agrees(ForgetCopies(q), q)
         /\ \A i \in 1..Len(q) : /\ ForgetCopies(q)[i].offset = q[i].offset
                                 /\ ForgetCopies(q)[i].new_offset = NoOffset
<1> DEFINE At(i) == [q[i] EXCEPT !.new_offset = NoOffset]
           r == [i \in 1..Len(q) |-> At(i)]
<1>1. DOMAIN q = 1..Len(q) /\ Len(q) \in Nat /\ \A i \in 1..Len(q) : q[i] \in Entries
  OBVIOUS
<1>2. ForgetCopies(q) = r
  BY <1>1 DEF ForgetCopies
<1>3. ASSUME NEW i \in 1..Len(q)
      PROVE  /\ At(i) \in Entries /\ At(i).offset = q[i].offset
             /\ At(i).new_offset = NoOffset /\ FrameOf(At(i)) = FrameOf(q[i])
  <2>1. q[i] \in Entries
    BY <1>1
  <2>2. At(i) \in Entries /\ At(i).offset = q[i].offset /\ At(i).new_offset = NoOffset
    BY <2>1 DEF Entries
  <2>3. At(i).id = q[i].id /\ At(i).pts = q[i].pts /\ At(i).key = q[i].key
    BY <2>1 DEF Entries
  <2> QED BY <2>2, <2>3 DEF FrameOf
<1>4. \A i \in 1..Len(q) : r[i] = At(i)
  OBVIOUS
<1>5. r \in Seq(Entries) /\ Len(r) = Len(q)
  BY <1>1, <1>3
<1> HIDE DEF At, r
<1>6. Agrees(r, q)
  BY <1>3, <1>4, <1>5 DEF Agrees
<1> QED BY <1>2, <1>3, <1>4, <1>6

\* Entries at the same places lie in the file as before.
LEMMA AgreeingPlaced ==
  ASSUME NEW q \in Seq(Entries), NEW r, Agrees(r, q),
         \A i \in 1..Len(q) : r[i].offset = q[i].offset,
         NEW file, NEW end, Placed(q, file, end)
  PROVE  Placed(r, file, end)
<1>1. /\ Len(r) = Len(q)
      /\ \A i \in 1..Len(q) : r[i].id = q[i].id /\ Size(r[i]) = Size(q[i])
  BY AgreeingQueues DEF Agrees
<1> QED BY <1>1 DEF Placed, Lies

LEMMA AbortSound ==
  ASSUME NEW d, Sound(d)
  PROVE  LET s == AbortCompaction(d)
         IN  Sound(s) /\ Queue(s.index) = Queue(d.index) /\ s.live_bytes = d.live_bytes
<1> DEFINE s == AbortCompaction(d)
           q == ForgetCopies(d.index)
<1>1. /\ d \in Stores /\ d.index \in Seq(Entries) /\ d.file \in Seq(Nat)
      /\ d.write_offset \in Nat /\ d.live_bytes \in Nat /\ d.dead_bytes \in Nat
  BY StoreFields DEF Sound
<1>2. /\ s.index = q /\ s.live_bytes = d.live_bytes /\ s.dead_bytes = d.dead_bytes
      /\ s.file = d.file /\ s.write_offset = d.write_offset
      /\ s.compaction = NoCompaction
      /\ s = [d EXCEPT !.compaction = NoCompaction, !.index = q]
  BY <1>1 DEF AbortCompaction, Stores
<1> HIDE DEF s
<1>3. /\ Agrees(q, d.index) /\ q \in Seq(Entries) /\ Len(q) = Len(d.index)
      /\ \A i \in 1..Len(d.index) : q[i].offset = d.index[i].offset
      /\ \A i \in 1..Len(q) : q[i].new_offset = NoOffset
  BY <1>1, Forgotten DEF Agrees
<1> HIDE DEF q
<1>4. Queue(q) = Queue(d.index) /\ TotalSize(q) = TotalSize(d.index)
  BY <1>1, <1>3, AgreeingQueues
<1>5. Placed(q, d.file, d.write_offset)
  BY <1>1, <1>3, AgreeingPlaced DEF Sound
<1>6. /\ NoCompaction.cells = <<>> /\ <<>> \in Seq(Nat)
      /\ NoCompaction \in [on : BOOLEAN, cells : Seq(Nat)]
  BY DEF NoCompaction
<1>7. Copied(q, <<>>)
  BY <1>3, <1>6, FitForgotten DEF Copied
<1>8. s \in Stores
  BY <1>1, <1>2, <1>3, <1>6 DEF Stores
<1>9. Accounted(s)
  BY <1>2, <1>4 DEF Sound, Accounted
<1>10. Sound(s)
  BY <1>2, <1>5, <1>6, <1>7, <1>8, <1>9 DEF Sound
<1> QED BY <1>2, <1>4, <1>10 DEF s

\* The swap is safe because every entry has its copy; and what the copies take
\* is what the index weighs, so the rest of the new file is dead.
LEMMA SwapSound ==
  ASSUME NEW d, Sound(d), \A i \in 1..Len(d.index) : d.index[i].new_offset # NoOffset
  PROVE  LET s == SwapFiles(d)
         IN  Sound(s) /\ Queue(s.index) = Queue(d.index) /\ s.live_bytes = d.live_bytes
<1> DEFINE s == SwapFiles(d)
           p == d.index
           cells == d.compaction.cells
           q == [i \in 1..Len(p) |-> Moved(p[i])]
           left == Len(cells) - d.live_bytes
           dead == IF left > 0 THEN left ELSE 0
<1>1. /\ d \in Stores /\ p \in Seq(Entries) /\ d.file \in Seq(Nat)
      /\ d.write_offset \in Nat /\ d.live_bytes \in Nat /\ d.dead_bytes \in Nat
      /\ cells \in Seq(Nat) /\ Len(cells) \in Nat
  BY StoreFields DEF Sound
<1>2. DOMAIN p = 1..Len(p) /\ Len(p) \in Nat /\ \A i \in 1..Len(p) : p[i] \in Entries
  BY <1>1
<1>3. /\ s.index = q /\ s.live_bytes = d.live_bytes /\ s.dead_bytes = dead
      /\ s.file = cells /\ s.write_offset = Len(cells)
      /\ s.compaction = NoCompaction
      /\ s = [d EXCEPT !.file = cells, !.index = q, !.write_offset = Len(cells),
                       !.dead_bytes = dead, !.linked = TRUE, !.compaction = NoCompaction]
  BY <1>1, <1>2 DEF SwapFiles, Stores
<1> HIDE DEF s
<1>4. ASSUME NEW i \in 1..Len(p)
      PROVE  /\ Moved(p[i]) \in Entries /\ Moved(p[i]).offset = p[i].new_offset
             /\ Moved(p[i]).new_offset = NoOffset /\ FrameOf(Moved(p[i])) = FrameOf(p[i])
  <2>1. p[i] \in Entries /\ p[i].new_offset # NoOffset
    BY <1>2
  <2>2. Moved(p[i]) = [p[i] EXCEPT !.offset = p[i].new_offset, !.new_offset = NoOffset]
    BY <2>1 DEF Moved
  <2>3. /\ Moved(p[i]) \in Entries /\ Moved(p[i]).offset = p[i].new_offset
        /\ Moved(p[i]).new_offset = NoOffset
    BY <2>1, <2>2 DEF Entries
  <2>4. /\ Moved(p[i]).id = p[i].id /\ Moved(p[i]).pts = p[i].pts
        /\ Moved(p[i]).key = p[i].key
    BY <2>1, <2>2 DEF Entries
  <2> QED BY <2>3, <2>4 DEF FrameOf
<1>5. /\ \A i \in 1..Len(p) : q[i] = Moved(p[i])
      /\ q \in Seq(Entries) /\ Len(q) = Len(p)
  BY <1>2, <1>4
<1> HIDE DEF q
<1>6. Agrees(q, p)
  BY <1>4, <1>5 DEF Agrees
<1>7. /\ Queue(q) = Queue(p) /\ TotalSize(q) = TotalSize(p)
      /\ \A i \in 1..Len(p) : q[i].id = p[i].id /\ Size(q[i]) = Size(p[i])
  BY <1>1, <1>6, AgreeingQueues
<1>8. Placed(q, cells, Len(cells))
  <2>1. ASSUME NEW i \in 1..Len(p) PROVE Lies(cells, Len(cells), q[i].offset, q[i])
    <3>1. Lies(cells, Len(cells), p[i].new_offset, p[i])
      BY DEF Sound, Copied
    <3> QED BY <3>1, <1>4, <1>5, <1>7 DEF Lies
  <2> QED BY <2>1, <1>1, <1>5 DEF Placed
<1>9. /\ NoCompaction.cells = <<>> /\ <<>> \in Seq(Nat)
      /\ NoCompaction \in [on : BOOLEAN, cells : Seq(Nat)]
  BY DEF NoCompaction
<1>10. Copied(q, <<>>)
  BY <1>4, <1>5, <1>9, FitForgotten DEF Copied
<1>11. d.live_bytes = TotalSize(p) /\ TotalSize(p) <= Len(cells)
  BY <1>1, FitAll DEF Sound, Copied, Accounted
<1>12. dead \in Nat /\ d.live_bytes + dead = Len(cells)
  BY <1>1, <1>11
<1> HIDE DEF p, cells, dead
<1>13. s \in Stores
  BY <1>1, <1>3, <1>5, <1>9, <1>12 DEF Stores
<1>14. Accounted(s)
  BY <1>3, <1>7, <1>11, <1>12 DEF Accounted
<1>15. Sound(s)
  BY <1>3, <1>8, <1>9, <1>10, <1>13, <1>14 DEF Sound
<1> QED BY <1>3, <1>7, <1>15 DEF s, p

(***************************************************************************)
(* A slice of the migration.  It leaves the entries what they are, keeps   *)
(* the copies whole and apart, and when it runs to the end every entry it  *)
(* has passed has its copy.                                                *)
(***************************************************************************)
Slices == [index : Seq(Entries), cells : Seq(Nat), left : Nat,
           ended : {"no", "remaining", "failed"}]

SliceOf(s, q, i) ==
    /\ s \in Slices
    /\ Agrees(s.index, q)
    /\ \A j \in 1..Len(q) : s.index[j].offset = q[j].offset
    /\ Copied(s.index, s.cells)
    /\ s.ended = "no" => \A j \in 1..i : s.index[j].new_offset # NoOffset

LEMMA CopyEntryKeeps ==
  ASSUME NEW q \in Seq(Entries), NEW file \in Seq(Nat), NEW end, Placed(q, file, end),
         NEW i \in 1..Len(q), NEW s, SliceOf(s, q, i - 1)
  PROVE  SliceOf(CopyEntry(s, file, i), q, i)
<1> DEFINE p == s.index
           e == p[i]
           payload == ReadAt(file, e.offset, Size(e))
           t == CopyEntry(s, file, i)
<1>1. /\ s \in Slices /\ p \in Seq(Entries) /\ Len(p) = Len(q) /\ Agrees(p, q)
      /\ s.cells \in Seq(Nat) /\ s.left \in Nat /\ e \in Entries
      /\ s.ended \in {"no", "remaining", "failed"}
      /\ Copied(p, s.cells)
  BY DEF SliceOf, Slices, Agrees
<1>2. /\ Lies(file, end, e.offset, e) /\ e.offset \in Nat /\ e.id \in Nat
      /\ e.offset = q[i].offset
  <2>1. Placed(p, file, end)
    BY <1>1, AgreeingPlaced DEF SliceOf
  <2> QED BY <1>1, <2>1 DEF Placed, SliceOf, Entries, Lies
<1>3. i \in Int /\ \A j \in 1..i : j \in 1..(i - 1) \/ j = i
  OBVIOUS
<1>4. CASE t = s /\ (s.ended # "no" \/ e.new_offset # NoOffset)
  BY <1>3, <1>4 DEF SliceOf
<1>5. CASE t = [s EXCEPT !.ended = "remaining"] \/ t = [s EXCEPT !.ended = "failed"]
  <2>1. t \in Slices /\ t.index = p /\ t.cells = s.cells /\ t.ended # "no"
    BY <1>1, <1>5 DEF Slices
  <2> QED BY <1>1, <2>1 DEF SliceOf
<1>6. CASE /\ t = [s EXCEPT !.index = CopiedTo(s.index, i, Len(s.cells)),
                            !.cells = s.cells \o payload, !.left = s.left - Size(e)]
           /\ e.new_offset = NoOffset
           /\ ~ (s.left < Size(e)) /\ ~ (Len(payload) < Size(e))
  <2> DEFINE place == Len(s.cells)
             g == [e EXCEPT !.new_offset = place]
             r == CopiedTo(p, i, place)
             more == s.cells \o payload
  <2>1. /\ t.index = r /\ t.cells = more /\ t.left = s.left - Size(e) /\ t.ended = s.ended
        /\ t = [s EXCEPT !.index = r, !.cells = more, !.left = s.left - Size(e)]
    BY <1>1, <1>6 DEF Slices
  <2>2. Size(e) \in Nat /\ Size(e) >= 1 /\ place \in Nat
    BY <1>1, SizeIs
  <2>3. /\ payload \in Seq(Nat) /\ Len(payload) = Size(e)
        /\ \A k \in 1..Size(e) : payload[k] = e.id
    <3>1. /\ payload \in Seq(Nat) /\ Len(payload) <= Size(e)
          /\ \A k \in 1..Len(payload) : payload[k] = file[e.offset + k]
      BY <1>2, <2>2, ReadBack
    <3>2. Len(payload) = Size(e)
      BY <1>6, <2>2, <3>1
    <3> QED BY <1>2, <3>1, <3>2 DEF Lies
  <2>4. /\ g \in Entries /\ g.new_offset = place /\ g.offset = e.offset /\ g.id = e.id
        /\ FrameOf(g) = FrameOf(e) /\ Size(g) = Size(e)
    BY <1>1, <2>2 DEF Entries, FrameOf, Size
  <2> HIDE DEF g, payload
  <2>5. /\ r \in Seq(Entries) /\ Len(r) = Len(q) /\ r[i] = g
        /\ \A j \in 1..Len(q) : j # i => r[j] = p[j]
    <3>1. r = [k \in 1..Len(q) |-> IF k = i THEN g ELSE p[k]]
      BY <1>1 DEF CopiedTo, g
    <3>2. \A k \in 1..Len(q) : (IF k = i THEN g ELSE p[k]) \in Entries
      BY <1>1, <2>4
    <3> HIDE DEF r
    <3> QED BY <3>1, <3>2
  <2>6. /\ more \in Seq(Nat) /\ Len(more) = place + Size(e)
        /\ \A k \in 1..place : more[k] = s.cells[k]
        /\ \A k \in 1..Size(e) : more[place + k] = e.id
    <3>1. /\ more \in Seq(Nat) /\ Len(more) = Len(s.cells) + Len(payload)
          /\ \A k \in 1..Len(s.cells) : more[k] = s.cells[k]
          /\ \A k \in 1..Len(payload) : more[Len(s.cells) + k] = payload[k]
      BY <1>1, <2>3, Appended
    <3> QED BY <2>3, <3>1
  <2> HIDE DEF t, r, more
  <2>7. Agrees(r, q)
    <3>1. ASSUME NEW j \in 1..Len(q) PROVE FrameOf(r[j]) = FrameOf(q[j])
      BY <1>1, <2>4, <2>5 DEF Agrees
    <3> QED BY <2>5, <3>1 DEF Agrees
  <2>8. \A j \in 1..Len(q) : r[j].offset = q[j].offset
    BY <1>2, <2>4, <2>5 DEF SliceOf
  <2>9. ASSUME NEW j \in 1..Len(r), r[j].new_offset # NoOffset
        PROVE  Lies(more, Len(more), r[j].new_offset, r[j])
    <3>1. CASE j = i
      <4>1. place + Size(g) <= Len(more)
        BY <2>2, <2>4, <2>6
      <4> QED BY <3>1, <4>1, <2>2, <2>4, <2>5, <2>6 DEF Lies
    <3>2. CASE j # i
      <4>1. r[j] = p[j] /\ j \in 1..Len(p)
        BY <1>1, <2>5, <3>2
      <4>2. Lies(s.cells, place, r[j].new_offset, r[j])
        BY <1>1, <2>9, <4>1 DEF Copied
      <4>3. Len(more) \in Nat /\ Len(more) >= place
        BY <2>2, <2>6
      <4> QED BY <2>2, <2>6, <4>2, <4>3, StillLies
    <3> QED BY <3>1, <3>2
  <2>10. r[i].new_offset # NoOffset
    BY <2>2, <2>4, <2>5 DEF NoOffset
  <2>11. CopiesFit(r, more)
    BY <1>1, <1>6, <2>4, <2>5, <2>6, <2>10, FitCopied DEF Copied
  <2>12. Copied(r, more)
    BY <2>9, <2>11 DEF Copied
  <2>13. t \in Slices
    <3>1. s.left - Size(e) \in Nat
      BY <1>1, <1>6, <2>2
    <3> QED BY <1>1, <2>1, <2>5, <2>6, <3>1 DEF Slices
  <2>14. t.ended = "no" => \A j \in 1..i : t.index[j].new_offset # NoOffset
    <3>1. ASSUME t.ended = "no", NEW j \in 1..i PROVE r[j].new_offset # NoOffset
      <4>1. CASE j = i
        BY <2>10, <4>1
      <4>2. CASE j # i
        <5>1. j \in 1..(i - 1) /\ j \in 1..Len(q)
          BY <1>3, <4>2
        <5> QED BY <2>1, <2>5, <3>1, <4>2, <5>1 DEF SliceOf
      <4> QED BY <4>1, <4>2
    <3> QED BY <2>1, <3>1
  <2> QED BY <2>1, <2>7, <2>8, <2>12, <2>13, <2>14 DEF SliceOf, t
<1> QED BY <1>4, <1>5, <1>6 DEF CopyEntry

\* The recursion of CopySlice has a solution, prefix by prefix; and what a copy
\* keeps, all of them keep.
LEMMA CopySliceKeeps ==
  ASSUME NEW q \in Seq(Entries), NEW cells \in Seq(Nat), Copied(q, cells),
         NEW file \in Seq(Nat), NEW end, Placed(q, file, end)
  PROVE  SliceOf(CopySlice(q, cells, file), q, Len(q))
<1> DEFINE n == Len(q)
           start == [index |-> q, cells |-> cells, left |-> Budget, ended |-> "no"]
           Rec(g, m) == g = [i \in 0..m |-> IF i = 0 THEN start
                                            ELSE CopyEntry(g[i - 1], file, i)]
           after == CHOOSE g : Rec(g, n)
<1>1. n \in Nat
  OBVIOUS
<1>2. \E g : Rec(g, n)
  <2> DEFINE T == {m \in 0..n : \E g : Rec(g, m)}
  <2> HIDE DEF start, n
  <2>1. 0 \in T
    <3>1. \E g : Rec(g, 0)
      <4>1. Rec([i \in 0..0 |-> start], 0)
        OBVIOUS
      <4> HIDE DEF Rec
      <4> QED BY <4>1
    <3>2. 0 \in 0..n
      BY <1>1
    <3> HIDE DEF Rec
    <3> QED BY <3>1, <3>2
  <2>2. ASSUME NEW m \in 1..n, m - 1 \in T PROVE m \in T
    <3>1. PICK g : Rec(g, m - 1)
      BY <2>2
    <3> DEFINE h == [i \in 0..m |-> IF i < m THEN g[i] ELSE CopyEntry(g[m - 1], file, m)]
    <3>2. m \in Int /\ m >= 1
      OBVIOUS
    <3>3. g[0] = start /\ \A i \in 1..(m - 1) : g[i] = CopyEntry(g[i - 1], file, i)
      BY <3>1, <3>2
    <3>4. ASSUME NEW i \in 0..m
          PROVE  h[i] = IF i = 0 THEN start ELSE CopyEntry(h[i - 1], file, i)
      <4>1. CASE i = 0
        BY <3>2, <3>3, <4>1
      <4>2. CASE i \in 1..(m - 1)
        <5>1. h[i] = g[i] /\ h[i - 1] = g[i - 1] /\ i # 0
          BY <3>2, <4>2
        <5> QED BY <3>3, <4>2, <5>1
      <4>3. CASE i = m
        <5>1. h[i] = CopyEntry(g[m - 1], file, m) /\ h[i - 1] = g[m - 1] /\ i # 0
          BY <3>2, <4>3
        <5> QED BY <4>3, <5>1
      <4> QED BY <3>2, <4>1, <4>2, <4>3
    <3>5. Rec(h, m)
      BY <3>4
    <3> HIDE DEF Rec
    <3> QED BY <3>5
  <2>3. n \in T
    <3>1. n \in 0..n
      BY <1>1
    <3> HIDE DEF T
    <3> QED BY <1>1, <2>1, <2>2, <3>1, Ring!Climb, RingConstants
  <2> QED BY <2>3
<1>3. Rec(after, n)
  BY <1>2
<1>4. CopySlice(q, cells, file) = after[n]
  BY DEF CopySlice
<1> HIDE DEF after
<1>5. after[0] = start /\ \A i \in 1..n : after[i] = CopyEntry(after[i - 1], file, i)
  <2> HIDE DEF start, n
  <2>1. 0 \in 0..n /\ \A i \in 1..n : i \in 0..n /\ i # 0
    BY <1>1
  <2> QED BY <1>3, <2>1
<1> HIDE DEF Rec
<1> DEFINE T == {m \in 0..n : SliceOf(after[m], q, m)}
<1>6. 0 \in T
  <2>1. /\ start.index = q /\ start.cells = cells /\ start.left = Budget
        /\ start.ended = "no" /\ start \in Slices
    BY BudgetAssumption DEF Slices
  <2>2. Agrees(q, q)
    BY DEF Agrees
  <2> HIDE DEF start
  <2>3. SliceOf(start, q, 0)
    BY <2>1, <2>2 DEF SliceOf
  <2> QED BY <1>1, <1>5, <2>3
<1>7. ASSUME NEW m \in 1..n, m - 1 \in T PROVE m \in T
  <2>1. SliceOf(after[m - 1], q, m - 1)
    BY <1>7
  <2>2. SliceOf(CopyEntry(after[m - 1], file, m), q, m)
    BY <2>1, CopyEntryKeeps
  <2> QED BY <1>5, <2>2
<1>8. n \in T
  <2>1. n \in 0..n
    BY <1>1
  <2> HIDE DEF T, n
  <2> QED BY <1>1, <1>6, <1>7, <2>1, Ring!Climb, RingConstants
<1> QED BY <1>4, <1>8

LEMMA CompactStepSound ==
  ASSUME NEW d, Sound(d), NEW io
  PROVE  LET s == CompactStep(d, io)
         IN  Sound(s) /\ Queue(s.index) = Queue(d.index) /\ s.live_bytes = d.live_bytes
<1> DEFINE q == IF d.compaction.on THEN d.index ELSE ForgetCopies(d.index)
           slice == CopySlice(q, d.compaction.cells, d.file)
           copied == [d EXCEPT !.index = slice.index,
                               !.compaction = [on |-> TRUE, cells |-> slice.cells]]
           Kept(s) == Sound(s) /\ Queue(s.index) = Queue(d.index) /\ s.live_bytes = d.live_bytes
<1>1. /\ d \in Stores /\ d.index \in Seq(Entries) /\ d.file \in Seq(Nat)
      /\ d.write_offset \in Nat /\ d.live_bytes \in Nat /\ d.dead_bytes \in Nat
      /\ d.compaction.on \in BOOLEAN /\ d.compaction.cells \in Seq(Nat)
  BY StoreFields DEF Sound
<1>2. /\ q \in Seq(Entries) /\ Len(q) = Len(d.index)
      /\ Queue(q) = Queue(d.index) /\ TotalSize(q) = TotalSize(d.index)
      /\ Placed(q, d.file, d.write_offset) /\ Copied(q, d.compaction.cells)
  <2>1. CASE d.compaction.on
    BY <1>1, <2>1 DEF Sound
  <2>2. CASE ~ d.compaction.on
    <3> DEFINE r == ForgetCopies(d.index)
    <3>1. /\ Agrees(r, d.index) /\ r \in Seq(Entries) /\ Len(r) = Len(d.index)
          /\ \A i \in 1..Len(d.index) : r[i].offset = d.index[i].offset
          /\ \A i \in 1..Len(r) : r[i].new_offset = NoOffset
      BY <1>1, Forgotten DEF Agrees
    <3>2. q = r
      BY <2>2
    <3> HIDE DEF r
    <3>3. Queue(r) = Queue(d.index) /\ TotalSize(r) = TotalSize(d.index)
      BY <1>1, <3>1, AgreeingQueues
    <3>4. Placed(r, d.file, d.write_offset)
      BY <1>1, <3>1, AgreeingPlaced DEF Sound
    <3>5. Copied(r, d.compaction.cells)
      BY <1>1, <3>1, FitForgotten DEF Copied
    <3> HIDE DEF q
    <3> QED BY <3>1, <3>2, <3>3, <3>4, <3>5
  <2> QED BY <2>1, <2>2, <1>1
<1> HIDE DEF q
<1>3. SliceOf(slice, q, Len(q))
  BY <1>1, <1>2, CopySliceKeeps
<1>4. CompactStep(d, io) =
         IF io = "copy_fails" \/ slice.ended = "failed" THEN AbortCompaction(d)
         ELSE IF slice.ended = "remaining" THEN copied
         ELSE IF io = "rename_fails" THEN AbortCompaction(copied)
         ELSE SwapFiles(copied)
  BY DEF CompactStep, q
<1> HIDE DEF slice
<1>5. /\ copied.index = slice.index /\ copied.file = d.file
      /\ copied.write_offset = d.write_offset /\ copied.live_bytes = d.live_bytes
      /\ copied.dead_bytes = d.dead_bytes
      /\ copied.compaction.on = TRUE /\ copied.compaction.cells = slice.cells
  BY <1>1 DEF Stores
<1>6. /\ slice.index \in Seq(Entries) /\ slice.cells \in Seq(Nat)
      /\ Agrees(slice.index, q) /\ Copied(slice.index, slice.cells)
      /\ slice.ended \in {"no", "remaining", "failed"}
      /\ Len(slice.index) = Len(q)
  BY <1>3 DEF SliceOf, Slices, Agrees
<1>7. copied \in Stores
  <2>1. [on |-> TRUE, cells |-> slice.cells] \in [on : BOOLEAN, cells : Seq(Nat)]
    BY <1>6
  <2> QED BY <1>1, <1>6, <2>1 DEF Stores
<1> HIDE DEF copied
<1>8. /\ Queue(slice.index) = Queue(d.index)
      /\ TotalSize(slice.index) = TotalSize(d.index)
  BY <1>2, <1>6, AgreeingQueues
<1>9. Placed(slice.index, d.file, d.write_offset)
  BY <1>2, <1>3, <1>6, AgreeingPlaced DEF SliceOf
<1>10. Sound(copied)
  <2>1. Accounted(copied)
    BY <1>5, <1>8 DEF Sound, Accounted
  <2> QED BY <1>5, <1>6, <1>7, <1>9, <2>1 DEF Sound
<1>11. Kept(copied)
  BY <1>5, <1>8, <1>10
<1>12. Kept(AbortCompaction(d)) /\ Kept(AbortCompaction(copied))
  BY <1>5, <1>8, <1>10, AbortSound
<1>13. slice.ended = "no" => Kept(SwapFiles(copied))
  <2> SUFFICES ASSUME slice.ended = "no" PROVE Kept(SwapFiles(copied))
    OBVIOUS
  <2>1. \A i \in 1..Len(copied.index) : copied.index[i].new_offset # NoOffset
    BY <1>3, <1>5, <1>6 DEF SliceOf
  <2> QED BY <1>5, <1>8, <1>10, <2>1, SwapSound
<1> HIDE DEF Kept
<1>14. Kept(CompactStep(d, io))
  BY <1>4, <1>6, <1>11, <1>12, <1>13
<1> QED BY <1>14 DEF Kept

LEMMA MaybeCompactSound ==
  ASSUME NEW d, Sound(d), NEW io
  PROVE  LET s == MaybeCompact(d, io)
         IN  Sound(s) /\ Queue(s.index) = Queue(d.index) /\ s.live_bytes = d.live_bytes
<1>1. MaybeCompact(d, io) \in {d, CompactStep(d, io)}
  BY DEF MaybeCompact
<1> QED BY <1>1, CompactStepSound

-----------------------------------------------------------------------------

(***************************************************************************)
(* The inductive invariant: the store is sound, and its index, without the *)
(* places, is a ring that satisfies the ring's invariant.                  *)
(***************************************************************************)
DInv == Sound(disk) /\ Ring!IInv

LEMMA DiskInit == Init => Ring!Init /\ Sound(disk)
<1> SUFFICES ASSUME Init PROVE Ring!Init /\ Sound(disk)
  OBVIOUS
<1>1. Sound(Fresh) /\ Queue(Fresh.index) = <<>> /\ Fresh.live_bytes = 0
  BY FreshIs, FreshSound
<1>2. Ring!Init
  BY <1>1, SameOperators DEF Init, Ring!Init
<1> QED BY <1>1, <1>2 DEF Init

\* A push is the ring's push, and leaves the store sound.
LEMMA PushSteps ==
  ASSUME DInv, NEW pts \in Pts, NEW key \in BOOLEAN, NEW io, Push(pts, key, io)
  PROVE  Ring!Push(pts, key) /\ Sound(disk')
<1> DEFINE f == [id |-> arrived + 1, pts |-> pts, key |-> key]
           newest == Newest(max_pts, pts)
           a == Spill(disk, f)
           b == Evict(a, newest - capacity_ticks)
           c == MaybeCompact(b, io)
<1>1. /\ arrived < MaxArrivals /\ InOrder(received, pts)
      /\ max_pts' = newest /\ disk' = c /\ received' = received \cup {f}
      /\ arrived' = arrived + 1 /\ capacity_ticks' = capacity_ticks
  BY DEF Push
<1>2. /\ arrived \in Nat /\ max_pts \in Int /\ capacity_ticks \in Int
  BY Ring!Numbers, RingConstants DEF DInv
<1>3. f \in Frame
  BY <1>2 DEF Frame
<1>4. newest \in Int /\ newest - capacity_ticks \in Int
  <2>1. pts \in Nat
    BY PtsAssumption, Zenon
  <2>2. newest \in Int
    BY <1>2, <2>1 DEF Newest
  <2> QED BY <1>2, <2>2
<1> HIDE DEF f, newest
<1>5. /\ Sound(a)
      /\ Queue(a.index) = InsertTsOrdered(Queue(disk.index), f)
      /\ a.live_bytes = disk.live_bytes + Size(f)
  BY <1>3, SpillSound DEF DInv
<1> HIDE DEF a
<1>6. /\ Sound(b)
      /\ Queue(b.index) = EvictBefore(Queue(a.index), newest - capacity_ticks)
      /\ b.live_bytes = a.live_bytes - (TotalSize(a.index) - TotalSize(b.index))
  BY <1>4, <1>5, EvictSound
<1> HIDE DEF b
<1>7. Sound(c) /\ Queue(c.index) = Queue(b.index) /\ c.live_bytes = b.live_bytes
  BY <1>6, MaybeCompactSound
<1> HIDE DEF c
<1>8. TotalSize(a.index) = TotalSize(Queue(a.index))
  BY <1>5, StoreFields, TotalOfEntries DEF Sound
<1>9. TotalSize(b.index) = TotalSize(Queue(b.index))
  BY <1>6, StoreFields, TotalOfEntries DEF Sound
<1> DEFINE queue == InsertTsOrdered(Queue(disk.index), f)
           kept == EvictBefore(queue, newest - capacity_ticks)
<1>10. /\ Queue(disk'.index) = kept
       /\ disk'.live_bytes =
             disk.live_bytes + Size(f) - (TotalSize(queue) - TotalSize(kept))
  <2>1. disk'.index = c.index /\ disk'.live_bytes = c.live_bytes
    BY <1>1
  <2>2. Queue(a.index) = queue /\ Queue(b.index) = kept /\ Queue(c.index) = kept
    BY <1>5, <1>6, <1>7, Zenon
  <2>3. c.live_bytes = a.live_bytes - (TotalSize(a.index) - TotalSize(b.index))
    BY <1>6, <1>7
  <2>4. TotalSize(a.index) = TotalSize(queue) /\ TotalSize(b.index) = TotalSize(kept)
    BY <1>8, <1>9, <2>2, Zenon
  <2> HIDE DEF queue, kept
  <2>5. Queue(disk'.index) = kept
    BY <2>1, <2>2
  <2>6. disk'.live_bytes = a.live_bytes - (TotalSize(queue) - TotalSize(kept))
    BY <2>1, <2>3, <2>4
  <2>7. TotalSize(queue) \in Nat /\ TotalSize(kept) \in Nat
    BY <1>5, <1>6, <2>4, StoreFields, TotalNat DEF Sound
  <2>8. disk.live_bytes \in Nat /\ Size(f) \in Nat
    BY StoreFields, SizeIs DEF DInv, Sound
  <2> QED BY <1>5, <2>5, <2>6, <2>7, <2>8
<1>11. Ring!Push(pts, key)
  <2>1. /\ Ring!Newest(max_pts, pts) = newest
        /\ Ring!InOrder(received, pts) <=> InOrder(received, pts)
    BY DEF newest, Newest, Ring!Newest, InOrder, Ring!InOrder, NoPts, Ring!NoPts
  <2> QED BY <1>1, <1>10, <2>1, SameOperators DEF Ring!Push, f
<1> QED BY <1>1, <1>7, <1>11

LEMMA SetCapacitySteps ==
  ASSUME DInv, NEW c \in Capacities, SetCapacity(c)
  PROVE  Ring!SetCapacity(c) /\ Sound(disk')
<1> DEFINE cutoff == max_pts - c * TicksPerSec
<1>1. /\ capacity_ticks' = c * TicksPerSec
      /\ disk' = IF max_pts = NoPts THEN disk ELSE Evict(disk, cutoff)
      /\ max_pts' = max_pts /\ arrived' = arrived /\ received' = received
  BY DEF SetCapacity
<1>2. cutoff \in Int
  <2>1. max_pts \in Int
    BY Ring!Numbers, RingConstants DEF DInv
  <2>2. c * TicksPerSec \in Int
    BY Ring!CapacityTicks, RingConstants
  <2> QED BY <2>1, <2>2
<1> HIDE DEF cutoff
<1> DEFINE kept == IF max_pts = NoPts THEN Queue(disk.index)
                   ELSE EvictBefore(Queue(disk.index), cutoff)
<1>3. /\ Sound(disk') /\ Queue(disk'.index) = kept
      /\ disk'.live_bytes =
            disk.live_bytes - (TotalSize(Queue(disk.index)) - TotalSize(kept))
  <2>1. /\ Sound(disk) /\ disk.index \in Seq(Entries) /\ disk.live_bytes \in Nat
        /\ TotalSize(disk.index) = TotalSize(Queue(disk.index))
        /\ TotalSize(disk.index) \in Nat
    BY StoreFields, TotalOfEntries, TotalNat DEF DInv, Sound
  <2>2. CASE max_pts = NoPts
    <3>1. disk' = disk
      BY <1>1, <2>2
    <3> QED BY <2>1, <2>2, <3>1
  <2>3. CASE max_pts # NoPts
    <3> DEFINE s == Evict(disk, cutoff)
    <3>1. disk' = s
      BY <1>1, <2>3
    <3>2. /\ Sound(s)
          /\ Queue(s.index) = EvictBefore(Queue(disk.index), cutoff)
          /\ s.live_bytes = disk.live_bytes - (TotalSize(disk.index) - TotalSize(s.index))
      BY <1>2, <2>1, EvictSound
    <3> HIDE DEF s
    <3>3. TotalSize(s.index) = TotalSize(Queue(s.index))
      BY <3>2, StoreFields, TotalOfEntries DEF Sound
    <3> QED BY <2>1, <2>3, <3>1, <3>2, <3>3
  <2> QED BY <2>2, <2>3
<1>4. Ring!SetCapacity(c)
  BY <1>1, <1>3, SameOperators DEF Ring!SetCapacity, cutoff
<1> QED BY <1>3, <1>4

LEMMA ClearSteps ==
  ASSUME DInv, Clear
  PROVE  Ring!Clear /\ Sound(disk')
<1>1. PICK file \in {<<>>, disk.file} :
          disk' = [Fresh EXCEPT !.file = file, !.linked = disk.linked]
  BY DEF Clear
<1>2. file \in Seq(Nat) /\ disk.linked \in BOOLEAN
  <2>1. <<>> \in Seq(Nat)
    OBVIOUS
  <2> QED BY <1>1, <2>1, StoreFields DEF DInv, Sound
<1>3. Sound(disk') /\ Queue(disk'.index) = <<>> /\ disk'.live_bytes = 0
  <2> DEFINE d == [Fresh EXCEPT !.file = file, !.linked = disk.linked]
  <2>1. d \in Stores
    BY <1>2, FreshIs DEF Stores
  <2>2. /\ d.index = <<>> /\ d.write_offset = 0
        /\ d.live_bytes = 0 /\ d.dead_bytes = 0 /\ d.compaction = NoCompaction
    BY FreshIs DEF Stores
  <2> HIDE DEF d
  <2>3. Sound(d) /\ Queue(d.index) = <<>>
    BY <2>1, <2>2, FreshSound
  <2> QED BY <1>1, <2>2, <2>3 DEF d
<1>4. Ring!Clear
  BY <1>3, SameOperators DEF Clear, Ring!Clear
<1> QED BY <1>3, <1>4

\* A frame whose write fails leaves nothing before the end of what was written;
\* the ring does not see it.
LEMMA WriteFailsSteps ==
  ASSUME DInv, NEW key \in BOOLEAN, WriteFails(key)
  PROVE  /\ Sound(disk') /\ Queue(disk'.index) = Queue(disk.index)
         /\ disk'.index = disk.index
         /\ disk'.live_bytes = disk.live_bytes
         /\ arrived < MaxArrivals /\ arrived' = arrived + 1
         /\ UNCHANGED <<capacity_ticks, max_pts, received>>
<1>1. PICK n \in 0..(Size([key |-> key]) - 1) :
          disk' = [disk EXCEPT !.file =
                      WriteAt(@, disk.write_offset, [k \in 1..n |-> arrived + 1])]
  BY DEF WriteFails
<1> DEFINE cells == [k \in 1..n |-> arrived + 1]
           file == WriteAt(disk.file, disk.write_offset, cells)
<1>2. /\ disk \in Stores /\ disk.index \in Seq(Entries) /\ disk.file \in Seq(Nat)
      /\ disk.write_offset \in Nat /\ disk.write_offset <= Len(disk.file)
  BY StoreFields DEF DInv, Sound, Placed
<1>3. cells \in Seq(Nat)
  <2>1. n \in Nat
    BY SizeIs
  <2>2. arrived + 1 \in Nat
    BY Ring!Numbers, RingConstants DEF DInv
  <2> QED BY <2>1, <2>2
<1>4. disk' = [disk EXCEPT !.file = file]
  BY <1>1, <1>2 DEF Stores
<1> HIDE DEF cells
<1>5. /\ file \in Seq(Nat) /\ Len(file) >= Len(disk.file)
      /\ \A k \in 1..disk.write_offset : file[k] = disk.file[k]
  BY <1>2, <1>3, Written
<1> HIDE DEF file
<1>6. /\ disk' \in Stores /\ disk'.index = disk.index /\ disk'.file = file
      /\ disk'.write_offset = disk.write_offset
      /\ disk'.live_bytes = disk.live_bytes /\ disk'.dead_bytes = disk.dead_bytes
      /\ disk'.compaction = disk.compaction
  BY <1>2, <1>4, <1>5 DEF Stores
<1>7. Placed(disk.index, file, disk.write_offset)
  <2>1. disk.write_offset <= Len(file)
    BY <1>2, <1>5
  <2>2. ASSUME NEW i \in 1..Len(disk.index)
        PROVE  Lies(file, disk.write_offset, disk.index[i].offset, disk.index[i])
    <3> DEFINE e == disk.index[i]
               end == disk.write_offset
    <3>1. Lies(disk.file, end, e.offset, e)
      BY DEF DInv, Sound, Placed
    <3>2. end \in Nat /\ end >= end /\ \A k \in 1..end : file[k] = disk.file[k]
      BY <1>2, <1>5
    <3> HIDE DEF e, end
    <3>3. Lies(file, end, e.offset, e)
      BY <3>1, <3>2, StillLies
    <3> QED BY <3>3 DEF e, end
  <2> QED BY <2>1, <2>2 DEF Placed
<1>8. Sound(disk')
  BY <1>6, <1>7 DEF DInv, Sound, Accounted
<1> QED BY <1>6, <1>8 DEF WriteFails

LEMMA WriteFailsInv ==
  ASSUME DInv, NEW key \in BOOLEAN, WriteFails(key)
  PROVE  DInv'
<1>1. /\ Sound(disk') /\ Queue(disk'.index) = Queue(disk.index)
      /\ disk'.live_bytes = disk.live_bytes
      /\ arrived < MaxArrivals /\ arrived' = arrived + 1
      /\ capacity_ticks' = capacity_ticks /\ max_pts' = max_pts /\ received' = received
  BY WriteFailsSteps
<1>2. arrived \in Nat /\ arrived' \in 0..MaxArrivals
  BY <1>1, Ring!Numbers, RingConstants DEF DInv
<1>3. Ring!TypeOK'
  BY <1>1, <1>2 DEF DInv, Ring!IInv, Ring!TypeOK
<1>4. Ring!Ids'
  <2> SUFFICES ASSUME NEW f \in received PROVE f.id <= arrived'
    BY <1>1 DEF Ring!Ids
  <2>1. f.id \in Int /\ f.id <= arrived
    BY Ring!Numbers, RingConstants DEF DInv, Ring!IInv, Ring!Ids
  <2> QED BY <1>1, <1>2, <2>1
<1>5. Ring!IInv'
  BY <1>1, <1>3, <1>4 DEF DInv, Ring!IInv, Ring!Ordered, Ring!SpanBounded, Ring!Gapless,
     Ring!Anchor, Ring!EvictedLongAgo, Ring!BytesExact, Ring!Held
<1> QED BY <1>1, <1>5 DEF DInv

LEMMA DiskStep == DInv /\ [Next]_vars => DInv'
<1> SUFFICES ASSUME DInv, [Next]_vars PROVE DInv'
  OBVIOUS
<1>1. ASSUME NEW pts \in Pts, NEW key \in BOOLEAN, NEW io, Push(pts, key, io)
      PROVE  DInv'
  <2>1. Ring!Push(pts, key) /\ Sound(disk')
    BY <1>1, PushSteps
  <2>2. Ring!IInv'
    BY <2>1, Ring!PushInv, RingConstants DEF DInv
  <2> QED BY <2>1, <2>2 DEF DInv
<1>2. ASSUME NEW c \in Capacities, SetCapacity(c) PROVE DInv'
  <2>1. Ring!SetCapacity(c) /\ Sound(disk')
    BY <1>2, SetCapacitySteps
  <2>2. Ring!IInv'
    BY <2>1, Ring!SetCapacityInv, RingConstants DEF DInv
  <2> QED BY <2>1, <2>2 DEF DInv
<1>3. CASE Clear
  <2>1. Ring!Clear /\ Sound(disk')
    BY <1>3, ClearSteps
  <2>2. Ring!IInv'
    BY <2>1, Ring!ClearInv, RingConstants DEF DInv
  <2> QED BY <2>1, <2>2 DEF DInv
<1>4. CASE \E key \in BOOLEAN : WriteFails(key)
  BY <1>4, WriteFailsInv
<1>5. CASE UNCHANGED vars
  <2>1. /\ disk' = disk /\ capacity_ticks' = capacity_ticks /\ max_pts' = max_pts
        /\ arrived' = arrived /\ received' = received
    BY <1>5 DEF vars
  <2>2. Ring!IInv'
    BY <2>1 DEF DInv, Ring!IInv, Ring!TypeOK, Ring!Ordered, Ring!SpanBounded, Ring!Gapless,
       Ring!Ids, Ring!Anchor, Ring!EvictedLongAgo, Ring!BytesExact, Ring!Held
  <2> QED BY <2>1, <2>2 DEF DInv
<1> QED BY <1>1, <1>2, <1>3, <1>4, <1>5 DEF Next

LEMMA DiskInvariance == Spec => []DInv
<1>1. Init => DInv
  BY DiskInit, Ring!InitInv, RingConstants DEF DInv
<1> QED BY <1>1, DiskStep, PTL DEF Spec

(***************************************************************************)
(* The accounts that decide when the file is compacted are exact: what a   *)
(* compaction leaves behind is neither counted twice nor forgotten.        *)
(***************************************************************************)
THEOREM AccountsAlwaysExact == Spec => []AccountsExact
<1>1. DInv => AccountsExact
  BY DEF DInv, Sound, Accounted, AccountsExact
<1> QED BY <1>1, DiskInvariance, PTL

-----------------------------------------------------------------------------

(***************************************************************************)
(* Reading back.  The reads of Window take runs of adjacent entries; the   *)
(* solution of its recursion is the payloads from each entry on.           *)
(***************************************************************************)
Payloads(q) == [i \in 1..(Len(q) + 1) |->
                   [n \in 1..(Len(q) + 1 - i) |-> Payload(q[i + n - 1])]]

\* The run that starts with entry i: its entries are adjacent.
LEMMA RunIs ==
  ASSUME NEW q \in Seq(Entries), NEW i \in 1..Len(q)
  PROVE  /\ LastOfRun(q, i) \in i..Len(q)
         /\ \A k \in (i + 1)..LastOfRun(q, i) :
               q[k].offset = q[k - 1].offset + Size(q[k - 1])
<1> DEFINE S == {j \in i..Len(q) : OneRead(q, i, j)}
<1>1. Len(q) \in Nat /\ S \in SUBSET (1..Len(q))
  OBVIOUS
<1>2. i \in S
  <2>1. OneRead(q, i, i)
    BY DEF OneRead
  <2> QED BY <2>1
<1>3. LastOfRun(q, i) = CHOOSE m \in S : \A k \in S : m >= k
  BY DEF LastOfRun, Max
<1> HIDE DEF S
<1>4. \E m \in S : \A k \in S : m >= k
  <2>1. S # {}
    BY <1>2
  <2> QED BY <1>1, <2>1, Ring!HasMax, RingConstants
<1>5. LastOfRun(q, i) \in S
  BY <1>3, <1>4
<1> QED BY <1>5 DEF S, OneRead

\* Where the k-th entry of a run lies is told by what lies before it.
LEMMA BytesAre ==
  ASSUME NEW q \in Seq(Entries)
  PROVE  \E sums :
           /\ sums[0] = 0
           /\ \A k \in 0..Len(q) : sums[k] \in Nat
           /\ \A k \in 1..Len(q) : sums[k] = sums[k - 1] + Size(q[k])
           /\ \A a, b \in 0..Len(q) : a <= b => sums[a] <= sums[b]
           /\ \A i \in 1..Len(q), k \in 1..(Len(q) + 1) :
                 i <= k => BytesTo(q, i, k) = sums[k - 1] - sums[i - 1]
<1> DEFINE n == Len(q)
           w == Ring!Sizes(q)
<1>1. PICK sums : Ring!Weighs(sums, w, n)
  BY Ring!TotalWeighs, RingConstants
<1>2. n \in Nat /\ w \in Ring!Weights(n) /\ \A k \in 1..n : w[k] = Size(q[k])
  BY Ring!SizesAreWeights, RingConstants, SameOperators
<1>3. ASSUME NEW i \in 1..n, NEW k \in 1..(n + 1), i <= k
      PROVE  BytesTo(q, i, k) = sums[k - 1] - sums[i - 1]
  <2> DEFINE a == i - 1
             b == k - 1
  <2>1. a \in 0..n /\ b \in a..n /\ a + 1 = i
    BY <1>2, <1>3
  <2> HIDE DEF a, b
  <2>2. Ring!TotalSize(SubSeq(q, a + 1, b)) = sums[b] - sums[a]
    BY <1>1, <2>1, Ring!TotalOfPart, RingConstants
  <2> QED BY <2>1, <2>2, SameOperators DEF BytesTo, a, b
<1> HIDE DEF n, w
<1>4. \A a, b \in 0..n : a <= b => sums[a] <= sums[b]
  BY <1>1, <1>2, Ring!WeighsAscend, RingConstants
<1>5. sums[0] = 0 /\ \A k \in 0..n : sums[k] \in Int
  BY <1>1 DEF Ring!Weighs
<1>6. \A k \in 1..n : sums[k] = sums[k - 1] + Size(q[k])
  BY <1>1, <1>2 DEF Ring!Weighs
<1>7. \A k \in 0..n : sums[k] \in Nat
  <2>1. \A k \in 0..n : 0 \in 0..n /\ 0 <= k
    BY <1>2
  <2> QED BY <1>4, <1>5, <2>1
<1> QED BY <1>3, <1>4, <1>5, <1>6, <1>7 DEF n

\* Arithmetic of places: behind a payload; the end of a run; a piece of a run.
LEMMA Places ==
  ASSUME NEW start \in Nat, NEW s \in Nat, NEW a \in Nat, NEW b \in Nat, NEW z \in Nat,
         s <= a, b = a + z
  PROVE  /\ start + (a - s) + z = start + (b - s)
         /\ a - s \in Nat /\ b - s \in Nat
         /\ (a - s) + z = b - s
         /\ \A c \in Nat : b <= c => b - s <= c - s
OBVIOUS

\* A part of a buffer; sequences that agree; and one followed by another.
LEMMA PartOf ==
  ASSUME NEW buf \in Seq(Nat), NEW from \in Nat, NEW m \in Nat, from + m <= Len(buf)
  PROVE  /\ SubSeq(buf, from + 1, from + m) \in Seq(Nat)
         /\ Len(SubSeq(buf, from + 1, from + m)) = m
         /\ \A x \in 1..m : /\ from + x \in 1..Len(buf)
                            /\ SubSeq(buf, from + 1, from + m)[x] = buf[from + x]
OBVIOUS

LEMMA SameSeq ==
  ASSUME NEW S, NEW T, NEW a \in Seq(S), NEW b \in Seq(T), Len(a) = Len(b),
         \A x \in 1..Len(a) : a[x] = b[x]
  PROVE  a = b
OBVIOUS

LEMMA JoinIs ==
  ASSUME NEW S, NEW head \in Seq(S), NEW tail \in Seq(S), NEW whole \in Seq(S),
         Len(whole) = Len(head) + Len(tail),
         \A x \in 1..Len(head) : head[x] = whole[x],
         \A x \in 1..Len(tail) : tail[x] = whole[Len(head) + x]
  PROVE  head \o tail = whole
<1>1. /\ head \o tail \in Seq(S) /\ Len(head \o tail) = Len(head) + Len(tail)
      /\ \A x \in 1..Len(head) : (head \o tail)[x] = head[x]
      /\ \A x \in 1..Len(tail) : (head \o tail)[Len(head) + x] = tail[x]
  OBVIOUS
<1>2. Len(head) \in Nat /\ Len(tail) \in Nat
  OBVIOUS
<1>3. ASSUME NEW x \in 1..(Len(head) + Len(tail)) PROVE (head \o tail)[x] = whole[x]
  <2>1. CASE x <= Len(head)
    <3>1. x \in 1..Len(head)
      BY <1>2, <2>1
    <3> QED BY <1>1, <3>1
  <2>2. CASE ~ (x <= Len(head))
    <3>1. x - Len(head) \in 1..Len(tail) /\ Len(head) + (x - Len(head)) = x
      BY <1>2, <2>2
    <3> QED BY <1>1, <3>1
  <2> QED BY <2>1, <2>2
<1> QED BY <1>1, <1>3, SameSeq

LEMMA RunReads ==
  ASSUME NEW q \in Seq(Entries), NEW file \in Seq(Nat), NEW end \in Nat,
         Placed(q, file, end), NEW i \in 1..Len(q), NEW g,
         g[LastOfRun(q, i) + 1] = Payloads(q)[LastOfRun(q, i) + 1]
  PROVE  RunFrom(q, file, g, i) = Payloads(q)[i]
<1> DEFINE len == Len(q)
           j == LastOfRun(q, i)
           start == q[i].offset
           size == BytesTo(q, i, j + 1)
           buf == ReadAt(file, start, size)
           Piece(n) == SubSeq(buf, BytesTo(q, i, i + n - 1) + 1, BytesTo(q, i, i + n))
           rest == Payloads(q)[j + 1]
<1>1. /\ len \in Nat /\ i \in 1..len /\ j \in i..len
      /\ \A k \in (i + 1)..j : q[k].offset = q[k - 1].offset + Size(q[k - 1])
      /\ \A k \in 1..len : q[k] \in Entries
  BY RunIs
<1>2. \A k \in 1..len : /\ q[k].offset \in Nat /\ q[k].id \in Nat
                        /\ Size(q[k]) \in Nat /\ Size(q[k]) >= 1
                        /\ Lies(file, end, q[k].offset, q[k])
  BY <1>1, SizeIs DEF Entries, Placed
<1>3. end <= Len(file) /\ Len(file) \in Nat
  BY DEF Placed
<1>4. PICK sums :
           /\ sums[0] = 0
           /\ \A k \in 0..len : sums[k] \in Nat
           /\ \A k \in 1..len : sums[k] = sums[k - 1] + Size(q[k])
           /\ \A a, b \in 0..len : a <= b => sums[a] <= sums[b]
           /\ \A a \in 1..len, k \in 1..(len + 1) :
                 a <= k => BytesTo(q, a, k) = sums[k - 1] - sums[a - 1]
  BY BytesAre
<1> HIDE DEF len, j
\* The k-th entry of the run.
<1>5. ASSUME NEW k \in i..j
      PROVE  q[k].offset = start + (sums[k - 1] - sums[i - 1])
  <2> DEFINE T == {m \in 0..(j - i) :
                      q[i + m].offset = start + (sums[i + m - 1] - sums[i - 1])}
  <2>1. 0 \in T
    <3>1. i - 1 \in 0..len /\ i + 0 = i /\ i + 0 - 1 = i - 1 /\ j - i \in Nat
      BY <1>1
    <3>2. sums[i - 1] \in Nat /\ start \in Nat
      BY <1>1, <1>2, <1>4, <3>1
    <3>3. start = start + (sums[i - 1] - sums[i - 1])
      BY <3>2
    <3> QED BY <3>1, <3>3
  <2>2. ASSUME NEW m \in 1..(j - i), m - 1 \in T PROVE m \in T
    <3> DEFINE x == i + m
    <3>0. /\ i \in Int /\ j \in Int /\ len \in Int /\ m \in Int
          /\ 1 <= i /\ i <= j /\ j <= len /\ 1 <= m /\ m <= j - i
      BY <1>1
    <3>1. /\ x \in (i + 1)..j /\ x - 1 \in 1..len /\ x \in 1..len
          /\ i + (m - 1) = x - 1 /\ i + (m - 1) - 1 = (x - 1) - 1
          /\ (x - 1) - 1 \in 0..len /\ x - 1 \in 0..len /\ i - 1 \in 0..len
          /\ m \in 0..(j - i) /\ i - 1 <= (x - 1) - 1
      BY <3>0
    <3>2. q[x - 1].offset = start + (sums[(x - 1) - 1] - sums[i - 1])
      BY <2>2, <3>1
    <3> HIDE DEF x
    <3>3. q[x].offset = q[x - 1].offset + Size(q[x - 1])
      BY <1>1, <3>1
    <3>4. sums[x - 1] = sums[(x - 1) - 1] + Size(q[x - 1])
      BY <1>4, <3>1
    <3>5. /\ sums[x - 1] \in Nat /\ sums[(x - 1) - 1] \in Nat /\ sums[i - 1] \in Nat
          /\ start \in Nat /\ Size(q[x - 1]) \in Nat
      BY <1>1, <1>2, <1>4, <3>1
    <3>6. sums[i - 1] <= sums[(x - 1) - 1]
      BY <1>4, <3>1
    <3>7. q[x].offset = start + (sums[x - 1] - sums[i - 1])
      <4> DEFINE s == sums[i - 1]
                 a == sums[(x - 1) - 1]
                 b == sums[x - 1]
                 z == Size(q[x - 1])
      <4> HIDE DEF s, a, b, z, start
      <4>1. start \in Nat /\ s \in Nat /\ a \in Nat /\ b \in Nat /\ z \in Nat
            /\ s <= a /\ b = a + z
        BY <3>4, <3>5, <3>6 DEF s, a, b, z
      <4>2. start + (a - s) + z = start + (b - s)
        BY <4>1, Places
      <4>3. q[x].offset = start + (a - s) + z
        BY <3>2, <3>3 DEF s, a, z
      <4> QED BY <4>2, <4>3 DEF s, b
    <3> QED BY <3>1, <3>7 DEF x
  <2>3. k - i \in T
    <3>1. j - i \in Nat /\ k - i \in 0..(j - i)
      BY <1>1
    <3> HIDE DEF T
    <3> QED BY <2>1, <2>2, <3>1, Ring!Climb, RingConstants
  <2>4. i + (k - i) = k
    BY <1>1
  <2> QED BY <2>3, <2>4
\* The buffer.
<1>6. /\ size = sums[j] - sums[i - 1] /\ size \in Nat
      /\ buf \in Seq(Nat) /\ Len(buf) = size
      /\ \A k \in 1..size : buf[k] = file[start + k]
  <2>1. /\ i - 1 \in 0..len /\ j - 1 \in 0..len /\ j \in 0..len /\ j \in 1..len
        /\ i - 1 <= j /\ j + 1 \in 1..(len + 1) /\ i <= j + 1 /\ (j + 1) - 1 = j
        /\ j \in i..j
    BY <1>1
  <2>2. size = sums[j] - sums[i - 1]
    BY <1>1, <1>4, <2>1
  <2>3. /\ sums[j] \in Nat /\ sums[i - 1] \in Nat /\ sums[j - 1] \in Nat
        /\ sums[i - 1] <= sums[j] /\ sums[j] = sums[j - 1] + Size(q[j])
    BY <1>4, <2>1
  <2>4. size \in Nat
    BY <2>2, <2>3
  <2>5. start \in Nat /\ q[j].offset \in Nat /\ Size(q[j]) \in Nat
    BY <1>1, <1>2, <2>1
  <2>6. q[j].offset = start + (sums[j - 1] - sums[i - 1])
    BY <1>5, <2>1
  <2>7. q[j].offset + Size(q[j]) <= end
    BY <1>2, <2>1 DEF Lies
  <2>8. start + size <= Len(file)
    <3> DEFINE s == sums[i - 1]
               a == sums[j - 1]
               b == sums[j]
               z == Size(q[j])
    <3>1. s <= a
      BY <1>1, <1>4, <2>1
    <3> HIDE DEF s, a, b, z, start, size
    <3>2. start \in Nat /\ s \in Nat /\ a \in Nat /\ b \in Nat /\ z \in Nat
          /\ s <= a /\ b = a + z
      BY <2>3, <2>5, <3>1 DEF s, a, b, z
    <3>3. start + (a - s) + z = start + size
      BY <2>2, <3>2, Places DEF s, b
    <3>4. q[j].offset + z = start + (a - s) + z
      BY <2>6 DEF s, a
    <3>5. start + size <= end
      BY <2>7, <3>3, <3>4 DEF z
    <3> QED BY <1>3, <2>4, <3>2, <3>5
  <2> HIDE DEF start, size
  <2>9. /\ ReadAt(file, start, size) \in Seq(Nat)
        /\ \A k \in 1..Len(ReadAt(file, start, size)) :
              ReadAt(file, start, size)[k] = file[start + k]
        /\ Len(ReadAt(file, start, size)) = size
    BY <2>4, <2>5, <2>8, ReadBack
  <2> QED BY <2>2, <2>4, <2>9
\* Its pieces.
<1>7. ASSUME NEW n \in 1..(j - i + 1) PROVE Piece(n) = Payload(q[i + n - 1])
  <2> DEFINE k == i + n - 1
             from == BytesTo(q, i, i + n - 1)
             to == BytesTo(q, i, i + n)
  <2>1. /\ k \in i..j /\ k \in 1..len /\ k - 1 \in 0..len /\ k \in 0..len
        /\ i - 1 \in 0..len /\ j \in 0..len /\ i <= k /\ i <= k + 1
        /\ k + 1 \in 1..(len + 1) /\ k \in 1..(len + 1) /\ i + n = k + 1
        /\ (k + 1) - 1 = k /\ i - 1 <= k - 1 /\ k <= j
    BY <1>1
  <2> HIDE DEF k
  <2>2. from = sums[k - 1] - sums[i - 1]
    BY <1>1, <1>4, <2>1 DEF k
  <2>3. to = sums[k] - sums[i - 1]
    BY <1>1, <1>4, <2>1
  <2>4. /\ sums[k] \in Nat /\ sums[k - 1] \in Nat /\ sums[i - 1] \in Nat /\ sums[j] \in Nat
        /\ sums[k] = sums[k - 1] + Size(q[k])
        /\ sums[i - 1] <= sums[k - 1] /\ sums[k] <= sums[j]
    BY <1>4, <2>1
  <2>5. /\ Size(q[k]) \in Nat /\ start \in Nat /\ q[k].id \in Nat
        /\ \A x \in 1..Size(q[k]) : file[q[k].offset + x] = q[k].id
    BY <1>1, <1>2, <2>1 DEF Lies
  <2>6. q[k].offset = start + from
    BY <1>5, <2>1, <2>2
  <2> HIDE DEF from, to, size
  <2>7. from \in Nat /\ to = from + Size(q[k]) /\ to <= size
    <3> DEFINE s == sums[i - 1]
               a == sums[k - 1]
               b == sums[k]
               z == Size(q[k])
               c == sums[j]
    <3> HIDE DEF s, a, b, z, c
    <3>1. s \in Nat /\ a \in Nat /\ b \in Nat /\ z \in Nat /\ c \in Nat
          /\ s <= a /\ b = a + z /\ b <= c
      BY <2>4, <2>5 DEF s, a, b, z, c
    <3>2. a - s \in Nat /\ (a - s) + z = b - s /\ b - s <= c - s
      BY <3>1, Places
    <3>3. from = a - s /\ to = b - s /\ size = c - s
      BY <1>6, <2>2, <2>3 DEF s, a, b, c
    <3> QED BY <3>2, <3>3 DEF z
  <2> HIDE DEF buf
  <2> DEFINE p == SubSeq(buf, from + 1, to)
  <2>8. /\ p \in Seq(Nat) /\ Len(p) = Size(q[k])
        /\ \A x \in 1..Size(q[k]) : p[x] = buf[from + x] /\ from + x \in 1..size
    <3> DEFINE z == Size(q[k])
    <3>1. z \in Nat /\ from + z <= Len(buf) /\ to = from + z
      BY <1>6, <2>5, <2>7
    <3> HIDE DEF z
    <3>2. /\ SubSeq(buf, from + 1, from + z) \in Seq(Nat)
          /\ Len(SubSeq(buf, from + 1, from + z)) = z
          /\ \A x \in 1..z : /\ from + x \in 1..Len(buf)
                             /\ SubSeq(buf, from + 1, from + z)[x] = buf[from + x]
      BY <1>6, <2>7, <3>1, PartOf
    <3> QED BY <1>6, <3>1, <3>2 DEF z
  <2> HIDE DEF p
  <2>9. ASSUME NEW x \in 1..Size(q[k]) PROVE p[x] = q[k].id
    <3>1. p[x] = file[start + (from + x)]
      BY <1>6, <2>8
    <3>2. start + (from + x) = q[k].offset + x
      BY <2>5, <2>6, <2>7
    <3> QED BY <2>5, <3>1, <3>2
  <2>10. /\ Payload(q[k]) \in Seq(Nat) /\ Len(Payload(q[k])) = Size(q[k])
         /\ \A x \in 1..Size(q[k]) : Payload(q[k])[x] = q[k].id
    BY <2>5, PayloadIs
  <2>11. p = Payload(q[k])
    <3> DEFINE r == Payload(q[k])
    <3>1. r \in Seq(Nat) /\ Len(p) = Len(r) /\ \A x \in 1..Len(p) : p[x] = r[x]
      BY <2>8, <2>9, <2>10
    <3> HIDE DEF r
    <3> QED BY <2>8, <3>1, SameSeq DEF r
  <2> QED BY <2>11 DEF p, k, from, to, buf
\* Read together.
<1>8. RunFrom(q, file, g, i) = [n \in 1..(j - i + 1) |-> Piece(n)] \o rest
  <2>1. ~ (Len(buf) < size)
    BY <1>6
  <2> QED BY <2>1 DEF RunFrom, j
<1>9. [n \in 1..(j - i + 1) |-> Piece(n)] \o rest = Payloads(q)[i]
  <2> DEFINE S == {Payload(q[k]) : k \in 1..len}
             head == [n \in 1..(j - i + 1) |-> Payload(q[i + n - 1])]
             tail == [n \in 1..(len + 1 - (j + 1)) |-> Payload(q[(j + 1) + n - 1])]
             whole == [n \in 1..(len + 1 - i) |-> Payload(q[i + n - 1])]
  <2>1. [n \in 1..(j - i + 1) |-> Piece(n)] = head
    BY <1>7
  <2>2. rest = tail /\ Payloads(q)[i] = whole
    <3>1. i \in 1..(len + 1) /\ j + 1 \in 1..(len + 1)
      BY <1>1
    <3> QED BY <3>1 DEF Payloads, len
  <2>3. /\ \A n \in 1..(j - i + 1) : i + n - 1 \in 1..len
        /\ \A n \in 1..(len + 1 - (j + 1)) : (j + 1) + n - 1 \in 1..len
        /\ \A n \in 1..(len + 1 - i) : i + n - 1 \in 1..len
        /\ j - i + 1 \in Nat /\ len + 1 - (j + 1) \in Nat /\ len + 1 - i \in Nat
    BY <1>1
  <2>4. head \in Seq(S) /\ Len(head) = j - i + 1
    <3>1. \A n \in 1..(j - i + 1) : Payload(q[i + n - 1]) \in S
      BY <2>3
    <3> HIDE DEF S
    <3> QED BY <2>3, <3>1
  <2>5. tail \in Seq(S) /\ Len(tail) = len + 1 - (j + 1)
    <3> DEFINE m == len + 1 - (j + 1)
    <3>1. m \in Nat /\ \A n \in 1..m : Payload(q[(j + 1) + n - 1]) \in S
      BY <2>3
    <3> HIDE DEF S, m
    <3>2. tail = [n \in 1..m |-> Payload(q[(j + 1) + n - 1])]
      BY DEF m
    <3> HIDE DEF tail
    <3>3. tail \in Seq(S) /\ Len(tail) = m
      BY <3>1, <3>2
    <3> QED BY <3>3 DEF m
  <2>6. whole \in Seq(S) /\ Len(whole) = len + 1 - i
    <3>1. \A n \in 1..(len + 1 - i) : Payload(q[i + n - 1]) \in S
      BY <2>3
    <3> HIDE DEF S
    <3> QED BY <2>3, <3>1
  <2>7. Len(whole) = Len(head) + Len(tail)
    BY <1>1, <2>4, <2>5, <2>6
  <2>8. \A x \in 1..Len(head) : head[x] = whole[x]
    <3> SUFFICES ASSUME NEW x \in 1..(j - i + 1) PROVE head[x] = whole[x]
      BY <2>4
    <3>1. x \in 1..(len + 1 - i)
      BY <1>1
    <3> QED BY <3>1
  <2>9. \A x \in 1..Len(tail) : tail[x] = whole[Len(head) + x]
    <3> SUFFICES ASSUME NEW x \in 1..(len + 1 - (j + 1))
                 PROVE  tail[x] = whole[(j - i + 1) + x]
      BY <2>4, <2>5
    <3>1. (j - i + 1) + x \in 1..(len + 1 - i)
          /\ i + ((j - i + 1) + x) - 1 = (j + 1) + x - 1
      BY <1>1
    <3> QED BY <3>1
  <2> HIDE DEF head, tail, whole, S
  <2>10. head \o tail = whole
    BY <2>4, <2>5, <2>6, <2>7, <2>8, <2>9, JoinIs
  <2> QED BY <2>1, <2>2, <2>10
<1> QED BY <1>8, <1>9

\* The recursion of Window has one solution: the payloads solve it, and two
\* solutions could only differ at a last entry, which RunReads excludes.
LEMMA WindowReads ==
  ASSUME NEW q \in Seq(Entries), NEW file \in Seq(Nat), NEW end \in Nat,
         Placed(q, file, end)
  PROVE  LET from[i \in 1..(Len(q) + 1)] ==
                IF i > Len(q) THEN <<>> ELSE RunFrom(q, file, from, i)
         IN  from[1] = [n \in 1..Len(q) |-> Payload(q[n])]
<1> DEFINE len == Len(q)
           P == Payloads(q)
           Body(g, i) == IF i > len THEN <<>> ELSE RunFrom(q, file, g, i)
           Rec(g) == g = [i \in 1..(len + 1) |-> Body(g, i)]
           from == CHOOSE g : Rec(g)
<1>1. len \in Nat
  OBVIOUS
<1>2. P = [i \in 1..(len + 1) |-> P[i]] /\ P[len + 1] = <<>>
  <2>1. len + 1 \in 1..(len + 1) /\ 1..(len + 1 - (len + 1)) = {}
    BY <1>1
  <2> QED BY <2>1 DEF Payloads
<1>3. ASSUME NEW g, NEW i \in 1..len, g[LastOfRun(q, i) + 1] = P[LastOfRun(q, i) + 1]
      PROVE  Body(g, i) = P[i]
  <2>1. ~ (i > len) /\ i \in 1..Len(q)
    BY <1>1
  <2>2. RunFrom(q, file, g, i) = P[i]
    BY <1>3, RunReads
  <2> QED BY <2>1, <2>2
<1> HIDE DEF P
<1>4. Rec(P)
  <2>1. ASSUME NEW i \in 1..(len + 1) PROVE Body(P, i) = P[i]
    <3>1. CASE i \in 1..len
      BY <1>3, <3>1
    <3>2. CASE i = len + 1
      BY <1>1, <1>2, <3>2
    <3> QED BY <1>1, <3>1, <3>2
  <2> HIDE DEF Body
  <2> QED BY <1>2, <2>1
<1>5. Rec(from)
  BY <1>4
<1> HIDE DEF from
<1>6. \A i \in 1..(len + 1) : from[i] = Body(from, i)
  <2> HIDE DEF Body
  <2> QED BY <1>5
<1>7. from[len + 1] = P[len + 1]
  <2>1. len + 1 > len /\ len + 1 \in 1..(len + 1)
    BY <1>1
  <2> QED BY <1>2, <1>6, <2>1
<1>8. \A i \in 1..len : from[i] = P[i]
  <2> DEFINE S == {i \in 1..len : from[i] # P[i]}
  <2>1. SUFFICES ASSUME S # {} PROVE FALSE
    OBVIOUS
  <2>2. PICK m \in S : \A k \in S : m >= k
    <3>1. S \in SUBSET (1..len)
      OBVIOUS
    <3> HIDE DEF S, len
    <3> QED BY <1>1, <2>1, <3>1, Ring!HasMax, RingConstants
  <2>3. m \in 1..len /\ from[m] # P[m]
    BY <2>2
  <2> DEFINE j == LastOfRun(q, m)
  <2>4. j \in m..len
    BY <2>3, RunIs
  <2> HIDE DEF j
  <2>5. j + 1 = len + 1 \/ (j + 1 \in 1..len /\ j + 1 > m)
    BY <1>1, <2>3, <2>4
  <2>6. from[j + 1] = P[j + 1]
    <3>1. CASE j + 1 = len + 1
      BY <1>7, <3>1
    <3>2. CASE j + 1 \in 1..len /\ j + 1 > m
      <4>1. j + 1 \notin S
        BY <2>2, <2>3, <3>2
      <4> QED BY <3>2, <4>1
    <3> QED BY <2>5, <3>1, <3>2
  <2>7. Body(from, m) = P[m]
    BY <1>3, <2>3, <2>6 DEF j
  <2>8. from[m] = Body(from, m)
    BY <1>1, <1>6, <2>3
  <2> QED BY <2>3, <2>7, <2>8
<1>9. 1 \in 1..(len + 1) /\ (1 \in 1..len \/ 1 = len + 1)
  BY <1>1
<1>10. from[1] = P[1]
  BY <1>7, <1>8, <1>9
<1>11. P[1] = [n \in 1..len |-> Payload(q[n])]
  <2>1. /\ 1..(len + 1 - 1) = 1..len
        /\ \A n \in 1..len : 1 + n - 1 = n
    BY <1>1
  <2>2. P[1] = [n \in 1..(len + 1 - 1) |-> Payload(q[1 + n - 1])]
    BY <1>9 DEF P, Payloads
  <2> HIDE DEF len
  <2> QED BY <2>1, <2>2
<1> QED BY <1>10, <1>11 DEF from

LEMMA SoundIntact == Sound(disk) => FootageIntact
<1> SUFFICES ASSUME Sound(disk) PROVE FootageIntact
  OBVIOUS
<1> DEFINE p == disk.index
           cells == disk.compaction.cells
<1>1. /\ disk \in Stores /\ p \in Seq(Entries) /\ disk.file \in Seq(Nat)
      /\ disk.write_offset \in Nat /\ cells \in Seq(Nat) /\ disk.compaction.on \in BOOLEAN
      /\ Placed(p, disk.file, disk.write_offset) /\ Copied(p, cells)
      /\ ~ disk.compaction.on => cells = <<>>
  BY StoreFields DEF Sound
<1>2. DOMAIN p = 1..Len(p) /\ Len(p) \in Nat /\ \A i \in 1..Len(p) : p[i] \in Entries
  BY <1>1
<1>3. PayloadsIntact
  <2> SUFFICES ASSUME NEW start \in 1..Len(p)
               PROVE  LET count == Len(p) + 1 - start
                      IN  Window(disk, start, count) =
                             [n \in 1..count |-> Payload(p[start + n - 1])]
    BY <1>2 DEF PayloadsIntact
  <2> DEFINE count == Len(p) + 1 - start
             q == SubSeq(p, start, start + count - 1)
             file == disk.file
             from == CHOOSE from : from =
                        [i \in 1..(Len(q) + 1) |->
                            IF i > Len(q) THEN <<>> ELSE RunFrom(q, file, from, i)]
  <2>1. /\ q \in Seq(Entries) /\ Len(q) = count /\ count \in Nat
        /\ \A n \in 1..count : q[n] = p[start + n - 1] /\ start + n - 1 \in 1..Len(p)
    BY <1>1, <1>2
  <2>2. Window(disk, start, count) = from[1]
    BY DEF Window
  <2> HIDE DEF q, p
  <2>3. Placed(q, file, disk.write_offset)
    BY <1>1, <2>1 DEF Placed
  <2>4. from[1] = [n \in 1..Len(q) |-> Payload(q[n])]
    BY <1>1, <2>1, <2>3, WindowReads
  <2> HIDE DEF from, count
  <2>5. [n \in 1..Len(q) |-> Payload(q[n])] = [n \in 1..count |-> Payload(p[start + n - 1])]
    BY <2>1
  <2> QED BY <2>2, <2>4, <2>5 DEF count
<1>4. CopiesIntact
  <2> SUFFICES ASSUME NEW i \in 1..Len(p), p[i].new_offset # NoOffset
               PROVE  /\ disk.compaction.on
                      /\ ReadAt(cells, p[i].new_offset, Size(p[i])) = Payload(p[i])
    BY <1>2 DEF CopiesIntact
  <2>1. Lies(cells, Len(cells), p[i].new_offset, p[i])
    BY <1>1 DEF Copied
  <2>2. disk.compaction.on
    <3>1. Size(p[i]) \in Nat /\ Size(p[i]) >= 1
      BY SizeIs
    <3>2. Len(cells) # 0
      BY <2>1, <3>1 DEF Lies
    <3> QED BY <1>1, <3>2
  <2>3. p[i].id \in Nat
    BY <1>2 DEF Entries
  <2>4. ReadAt(cells, p[i].new_offset, Size(p[i])) = Payload(p[i])
    <3> DEFINE e == p[i]
    <3> HIDE DEF e, cells
    <3> QED BY <1>1, <2>1, <2>3, LiesRead DEF e
  <2> QED BY <2>2, <2>4
<1> QED BY <1>3, <1>4 DEF FootageIntact

(***************************************************************************)
(* The footage is intact: a window read back is its frames' own payloads,  *)
(* all of them, whatever compactions, failed copies, failed renames,       *)
(* failed writes, resizes and clears came before, and what a compaction    *)
(* has copied is what the swap will find.                                  *)
(***************************************************************************)
THEOREM FootageAlwaysIntact == Spec => []FootageIntact
<1>1. DInv => FootageIntact
  BY SoundIntact DEF DInv
<1> QED BY <1>1, DiskInvariance, PTL

(***************************************************************************)
(* Type correctness of the disk store's state.                             *)
(***************************************************************************)
THEOREM DiskTypeCorrect == Spec => []TypeOK
<1>1. DInv => TypeOK
  <2> SUFFICES ASSUME DInv PROVE TypeOK
    OBVIOUS
  <2>1. /\ disk.index \in Seq(Entries) /\ disk.write_offset \in Nat
        /\ disk.live_bytes \in Nat /\ disk.dead_bytes \in Nat
        /\ disk.compaction.on \in BOOLEAN
    BY StoreFields DEF DInv, Sound
  <2>2. /\ capacity_ticks \in {c * TicksPerSec : c \in Capacities}
        /\ max_pts \in Pts \cup {NoPts} /\ arrived \in 0..MaxArrivals
        /\ received \in SUBSET Frame
    BY SameOperators DEF DInv, Ring!IInv, Ring!TypeOK
  <2> QED BY <2>1, <2>2 DEF TypeOK, Entries
<1> QED BY <1>1, DiskInvariance, PTL

-----------------------------------------------------------------------------

(***************************************************************************)
(* The spill file implements the set of store.rs, as the ring does.        *)
(***************************************************************************)
LEMMA HeldIs ==
  ASSUME NEW d, Sound(d)
  PROVE  {FrameOf(d.index[i]) : i \in DOMAIN d.index} = Ring!ToSet(Queue(d.index))
<1> DEFINE p == d.index
           r == Queue(p)
<1>1. p \in Seq(Entries)
  BY StoreFields DEF Sound
<1>2. /\ r \in Seq(Frame) /\ Len(r) = Len(p) /\ DOMAIN p = 1..Len(p)
      /\ \A i \in 1..Len(p) : r[i] = FrameOf(p[i])
  BY <1>1, QueueIs
<1> HIDE DEF r
<1>3. Ring!ToSet(r) = {r[i] : i \in 1..Len(r)}
  BY <1>2, Ring!ElementsOfQueue, RingConstants
<1>4. {FrameOf(p[i]) : i \in DOMAIN p} = {r[i] : i \in 1..Len(r)}
  BY <1>2
<1> QED BY <1>3, <1>4 DEF r

LEMMA DiskInitRefines == Init => Store!Init
<1> SUFFICES ASSUME Init PROVE Store!Init
  OBVIOUS
<1>1. Held = {}
  <2>1. disk.index = <<>>
    BY FreshIs DEF Init
  <2> QED BY <2>1 DEF Held
<1> QED BY <1>1 DEF Init, Store!Init, NoPts, Store!NoPts

LEMMA DiskStepRefines == DInv /\ [Next]_vars => [Store!Next]_(Store!vars)
<1> SUFFICES ASSUME DInv, [Next]_vars PROVE [Store!Next]_(Store!vars)
  OBVIOUS
<1>1. Held = Ring!Held
  BY HeldIs DEF DInv, Held, Ring!Held
<1>2. Sound(disk') => Held' = Ring!Held'
  BY HeldIs DEF Held, Ring!Held
<1>3. ASSUME NEW pts \in Pts, NEW key \in BOOLEAN, NEW io, Push(pts, key, io)
      PROVE  Store!Push(pts, key)
  <2> DEFINE f == [id |-> arrived + 1, pts |-> pts, key |-> key]
  <2>1. Ring!Push(pts, key) /\ Sound(disk')
    BY <1>3, PushSteps
  <2>2. /\ arrived < MaxArrivals /\ InOrder(received, pts)
        /\ max_pts' = Newest(max_pts, pts) /\ received' = received \cup {f}
        /\ arrived' = arrived + 1 /\ UNCHANGED capacity_ticks
    BY <1>3 DEF Push
  <2>3. Ring!Held' = {g \in Ring!Held \cup {f} : g.pts >= max_pts' - capacity_ticks}
    BY <2>1, Ring!PushHeld, RingConstants DEF DInv, Ring!Arrival
  <2>4. Held' = {g \in Held \cup {f} : g.pts >= max_pts' - capacity_ticks}
    BY <1>1, <1>2, <2>1, <2>3
  <2> QED BY <2>2, <2>4 DEF Store!Push, Store!InWindow, InOrder, Store!InOrder,
                        Newest, Store!Newest
<1>4. ASSUME NEW key \in BOOLEAN, WriteFails(key) PROVE Store!Lose
  <2>1. /\ Sound(disk') /\ disk'.index = disk.index
        /\ arrived < MaxArrivals /\ arrived' = arrived + 1
        /\ UNCHANGED <<capacity_ticks, max_pts, received>>
    BY <1>4, WriteFailsSteps
  <2>2. Held' = Held
    BY <2>1 DEF Held
  <2> QED BY <2>1, <2>2 DEF Store!Lose
<1>5. ASSUME NEW c \in Capacities, SetCapacity(c) PROVE Store!SetCapacity(c)
  <2>1. Ring!SetCapacity(c) /\ Sound(disk')
    BY <1>5, SetCapacitySteps
  <2>2. capacity_ticks' = c * TicksPerSec /\ UNCHANGED <<arrived, received, max_pts>>
    BY <1>5 DEF SetCapacity
  <2>3. /\ Ring!Held' = {g \in Ring!Held : g.pts >= max_pts - capacity_ticks'}
        /\ max_pts = NoPts => Ring!Held = {}
    BY <2>1, Ring!SetCapacityHeld, RingConstants, SameOperators DEF DInv
  <2>4. Held' = IF max_pts = NoPts THEN Held
                ELSE Store!InWindow(Held, max_pts, c * TicksPerSec)
    BY <1>1, <1>2, <2>1, <2>2, <2>3 DEF Store!InWindow
  <2> QED BY <2>2, <2>4 DEF Store!SetCapacity, NoPts, Store!NoPts
<1>6. ASSUME Clear PROVE Store!Clear
  <2>1. PICK file \in {<<>>, disk.file} :
            disk' = [Fresh EXCEPT !.file = file, !.linked = disk.linked]
    BY <1>6 DEF Clear
  <2>2. disk'.index = <<>>
    BY <2>1, FreshIs DEF Stores
  <2>3. Held' = {}
    BY <2>2 DEF Held
  <2> QED BY <1>6, <2>3 DEF Clear, Store!Clear, NoPts, Store!NoPts
<1>7. ASSUME UNCHANGED vars PROVE UNCHANGED Store!vars
  BY <1>7 DEF vars, Store!vars, Held
<1> QED BY <1>3, <1>4, <1>5, <1>6, <1>7 DEF Next, Store!Next

(***************************************************************************)
(* The two stores are interchangeable: every step of the disk store is the *)
(* step of FrameStore, on the set of frames it holds, that the ring takes  *)
(* too, except that a frame whose write fails is lost; a compaction is not *)
(* seen at all.                                                            *)
(***************************************************************************)
THEOREM DiskImplements == Spec => ImplementsFrameStore
<1> QED BY DiskInitRefines, DiskStepRefines, DiskInvariance, PTL
        DEF Spec, Store!Spec, ImplementsFrameStore
=============================================================================
