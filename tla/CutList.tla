------------------------------- MODULE CutList -------------------------------
(***************************************************************************)
(* The editor's pure models (ord-ui/src/timeline.rs, markers.rs): the trim  *)
(* points and playhead, and the cut list, as operators.  Times are ticks of *)
(* half the slivers kept_within drops; comparisons within an epsilon are    *)
(* equalities.                                                              *)
(***************************************************************************)
EXTENDS Integers, SequencesExt

CONSTANTS Duration,  \* length of the clip
          MinSeg,    \* MIN_SEG: smallest piece a split may produce
          MinSel     \* MIN_SEL: smallest selection

ASSUME CutListAssumption ==
    /\ Duration \in Nat \ {0} /\ MinSeg \in Nat \ {0} /\ MinSel \in Nat \ {0}
    /\ MinSeg <= Duration /\ MinSel <= Duration

NoTime == -1
Times == 0..Duration

Smaller(a, b) == IF a < b THEN a ELSE b
Larger(a, b) == IF a > b THEN a ELSE b
Clamp(t) == Larger(0, Smaller(t, Duration))
Apart(a, b) == IF a > b THEN a - b ELSE b - a

(* The trim points; the playhead follows a moved handle. *)
Timeline == [in : Times, out : Times, playhead : Times]
NewTimeline == [in |-> 0, out |-> Duration, playhead |-> 0]

SetIn(tl, t) == LET a == Larger(Smaller(Clamp(t), tl.out - MinSel), 0)
                IN  [tl EXCEPT !.in = a, !.playhead = a]
SetOut(tl, t) == LET b == Smaller(Larger(Clamp(t), tl.in + MinSel), Duration)
                 IN  [tl EXCEPT !.out = b, !.playhead = b]
SetPlayhead(tl, t) == [tl EXCEPT !.playhead = Clamp(t)]
IsFull(tl) == tl.in = 0 /\ tl.out = Duration

(* The cut list: pieces in order. *)
Segment == [start : Times, end : Times, enabled : BOOLEAN]
NewSegments == <<[start |-> 0, end |-> Duration, enabled |-> TRUE]>>
IsTrivial(segs) == Len(segs) = 1 /\ segs[1].enabled

\* Piece i of a clip is bounded by cut i on its left and cut i + 1 on its right.
Cuts(segs) == 2..Len(segs)

IndexAt(segs, t) ==
    IF \E i \in DOMAIN segs : t < segs[i].end
      THEN CHOOSE i \in DOMAIN segs :
             t < segs[i].end /\ \A j \in 1..(i - 1) : t >= segs[j].end
      ELSE Len(segs)

SplitAt(segs, t) ==
    LET i == IndexAt(segs, t)
    IN  IF t - segs[i].start < MinSeg \/ segs[i].end - t < MinSeg
          THEN segs
          ELSE InsertAt([segs EXCEPT ![i].end = t], i + 1, [segs[i] EXCEPT !.start = t])

ToggleAt(segs, t) == LET i == IndexAt(segs, t)
                     IN  [segs EXCEPT ![i].enabled = ~@]

\* The cut nearest to t; of two at the same distance, the first.
NearestCut(segs, t) ==
    CHOOSE i \in Cuts(segs) : \A j \in Cuts(segs) :
        LET d(k) == Apart(segs[k].start, t)
        IN  d(i) < d(j) \/ (d(i) = d(j) /\ i <= j)

JoinAt(segs, t) ==
    IF Cuts(segs) = {} THEN segs
    ELSE LET i == NearestCut(segs, t)
         IN  RemoveAt([segs EXCEPT ![i - 1].end = segs[i].end,
                                   ![i - 1].enabled = @ \/ segs[i].enabled], i)

\* A cut can be moved when it still exists and leaves both neighbours room.
Movable(segs, i) == /\ i \in Cuts(segs)
                    /\ segs[i].end - MinSeg >= segs[i - 1].start + MinSeg
MovedTo(segs, i, t) ==
    Larger(segs[i - 1].start + MinSeg, Smaller(t, segs[i].end - MinSeg))
MoveCut(segs, i, t) ==
    IF Movable(segs, i)
      THEN [segs EXCEPT ![i - 1].end = MovedTo(segs, i, t), ![i].start = MovedTo(segs, i, t)]
      ELSE segs

\* A fault: only pieces exactly inside the range are cut out.
DisableInside(segs, a, b) ==
    [i \in DOMAIN segs |-> [segs[i] EXCEPT !.enabled =
        @ /\ ~(segs[i].start >= a /\ segs[i].end <= b)]]

DisableWithin(segs, a, b) ==
    [i \in DOMAIN segs |-> [segs[i] EXCEPT !.enabled =
        @ /\ ~(segs[i].start >= a - MinSeg /\ segs[i].end <= b + MinSeg)]]

\* cut_range: the cuts it makes stay although it reports no change when
\* everything within was cut out already.
CutRange(segs, a, b) ==
    IF b - a < MinSeg THEN segs ELSE DisableWithin(SplitAt(SplitAt(segs, a), b), a, b)
CutRangeReports(segs, a, b) ==
    /\ b - a >= MinSeg
    /\ LET split == SplitAt(SplitAt(segs, a), b) IN DisableWithin(split, a, b) # split

(* What plays and what is exported. *)
\* kept_within: spans of half MIN_SEG and less are dropped, adjacent ones merged.
KeptWithin(segs, a, b) ==
    LET add(spans, s) ==
          LET from == Larger(s.start, a)
              to   == Smaller(s.end, b)
          IN  IF ~s.enabled \/ 2 * (to - from) <= MinSeg THEN spans
              ELSE IF spans # <<>> /\ Last(spans)[2] = from
                THEN Append(Front(spans), <<Last(spans)[1], to>>)
                ELSE Append(spans, <<from, to>>)
        upTo[n \in 0..Len(segs)] == IF n = 0 THEN <<>> ELSE add(upTo[n - 1], segs[n])
    IN  upTo[Len(segs)]

\* export_spans: no spans when a plain trim says it all.
NoSpan == <<NoTime, NoTime>>
Whole == <<NoSpan>>
ExportSpans(segs, a, b) ==
    LET spans == KeptWithin(segs, a, b)
    IN  IF IsTrivial(segs) \/ spans = <<<<a, b>>>> THEN Whole ELSE spans

SkipTarget(segs, t, out) ==
    LET i     == IndexAt(segs, t)
        later == {j \in (i + 1)..Len(segs) : segs[j].enabled /\ segs[j].end > t}
    IN  IF segs[i].enabled THEN NoTime
        ELSE IF later = {} THEN out
        ELSE LET next == CHOOSE j \in later : \A k \in later : j <= k
             IN  Smaller(Larger(segs[next].start, t), out)

\* The ticks a list of spans covers, and the ticks the cut list keeps.
TicksOf(spans) == UNION {spans[i][1]..(spans[i][2] - 1) : i \in DOMAIN spans}
KeptTicks(segs) == UNION {segs[i].start..(segs[i].end - 1) : i \in {j \in DOMAIN segs : segs[j].enabled}}

(* Markers. *)
PrevMarkers(markers, t) == {m \in markers : m < t}
NextMarkers(markers, t) == {m \in markers : m > t}
NearestMarkers(markers, t, radius) ==
    {m \in markers : /\ Apart(m, t) <= radius
                     /\ \A n \in markers : \/ Apart(m, t) < Apart(n, t)
                                           \/ Apart(m, t) = Apart(n, t) /\ m <= n}
Snap(markers, t, radius) ==
    LET near == NearestMarkers(markers, t, radius)
    IN  IF near = {} THEN t ELSE CHOOSE m \in near : TRUE
==============================================================================
