----------------------------- MODULE FrameQueue -----------------------------
(***************************************************************************)
(* The queue both replay stores keep their frames in: how a frame is       *)
(* inserted (order.rs), how old frames leave, and how a clip is selected   *)
(* from it (clip.rs, engine.rs).  A member of the queue is a record with   *)
(* the fields of a frame.                                                  *)
(***************************************************************************)
EXTENDS Frames, Sequences, SequencesExt

\* Encoded sizes: a keyframe is the larger packet.
Size(f) == IF f.key THEN 2 ELSE 1

TotalSize(q) ==
    LET upTo[n \in 0..Len(q)] == IF n = 0 THEN 0 ELSE upTo[n - 1] + Size(q[n])
    IN  upTo[Len(q)]

\* order.rs insert_ts_ordered: back-scan over every later timestamp.
InsertTsOrdered(q, f) ==
    InsertAt(q, SelectLastInSeq(q, LAMBDA g : g.pts <= f.pts) + 1, f)

\* A fault: a loop that has popped anything pops one frame more.
EvictOneMore(q, cutoff) ==
    LET first == SelectInSeq(q, LAMBDA g : g.pts >= cutoff)
    IN  IF first = 0 THEN <<>>
        ELSE IF first = 1 THEN q ELSE SubSeq(q, first + 1, Len(q))

\* What is left of q after popping the front while it is older than cutoff.
EvictBefore(q, cutoff) ==
    LET first == SelectInSeq(q, LAMBDA g : g.pts >= cutoff)
    IN  IF first = 0 THEN <<>> ELSE SubSeq(q, first, Len(q))

-----------------------------------------------------------------------------

\* A fault: the keyframe at the very start of the window is passed over.
SelectClipInside(q, seconds) ==
    LET window_start == q[Len(q)].pts - seconds * TicksPerSec
        in_window == SelectLastInSeq(q, LAMBDA f : f.key /\ f.pts < window_start)
        earliest == SelectInSeq(q, LAMBDA f : f.key)
    IN  IF q = <<>> THEN 0 ELSE IF in_window # 0 THEN in_window ELSE earliest

\* clip.rs select_clip: the position a clip of the last `seconds` starts at,
\* 0 when there is nothing to save (EmptyBuffer, NoKeyframeInWindow).
SelectClip(q, seconds) ==
    LET window_start == q[Len(q)].pts - seconds * TicksPerSec
        in_window == SelectLastInSeq(q, LAMBDA f : f.key /\ f.pts <= window_start)
        earliest == SelectInSeq(q, LAMBDA f : f.key)
    IN  IF q = <<>> THEN 0 ELSE IF in_window # 0 THEN in_window ELSE earliest

\* engine.rs take_clip: the frames of that clip, up to the newest.
ClipOf(q, seconds) ==
    LET start == SelectClip(q, seconds)
    IN  IF start = 0 THEN <<>> ELSE SubSeq(q, start, Len(q))

\* engine.rs take_latest_gop: what a screenshot decodes.
LatestGop(q) ==
    LET start == SelectLastInSeq(q, LAMBDA f : f.key)
    IN  IF start = 0 THEN <<>> ELSE SubSeq(q, start, Len(q))

Sorted(q) == \A i, j \in 1..Len(q) : i < j => Before(q[i], q[j])

=============================================================================
