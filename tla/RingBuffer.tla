----------------------------- MODULE RingBuffer -----------------------------
(***************************************************************************)
(* The in-RAM replay ring (ord-core ring.rs, order.rs) and the selection   *)
(* of a clip from it (clip.rs).  The audio ring (audio.rs) is the same     *)
(* machine without keyframes.                                              *)
(*                                                                         *)
(* The ring is a queue.  A frame is inserted by scanning back from the     *)
(* end, frames leave only at the front, and a save takes a range of        *)
(* positions.  That this is the store of FrameStore.tla, which knows no    *)
(* positions, rests on the queue being sorted.                             *)
(***************************************************************************)
EXTENDS FrameQueue

CONSTANT Requests   \* the lengths of clip a client may ask for, seconds

ASSUME RequestsAssumption == Requests \subseteq Nat

VARIABLES
    frames,         \* RingBuffer::frames, oldest first
    capacity_ticks, \* RingBuffer::capacity_ticks
    max_pts,        \* RingBuffer::max_pts
    bytes,          \* RingBuffer::bytes
    arrived,        \* how many frames the encoder has delivered
    received        \* every frame pushed since the last clear (history)

vars == <<frames, capacity_ticks, max_pts, bytes, arrived, received>>

-----------------------------------------------------------------------------

Init ==
    /\ frames = <<>>
    /\ \E c \in Capacities : capacity_ticks = c * TicksPerSec
    /\ max_pts = NoPts
    /\ bytes = 0
    /\ arrived = 0
    /\ received = {}

Push(pts, key) ==
    /\ arrived < MaxArrivals
    /\ InOrder(received, pts)
    /\ LET f == [id |-> arrived + 1, pts |-> pts, key |-> key]
           newest == Newest(max_pts, pts)
           queue == InsertTsOrdered(frames, f)
           kept == EvictBefore(queue, newest - capacity_ticks)
       IN  /\ max_pts' = newest
           /\ frames' = kept
           /\ bytes' = bytes + Size(f) - (TotalSize(queue) - TotalSize(kept))
           /\ received' = received \cup {f}
    /\ arrived' = arrived + 1
    /\ UNCHANGED capacity_ticks

SetCapacity(c) ==
    /\ capacity_ticks' = c * TicksPerSec
    /\ LET kept == IF max_pts = NoPts THEN frames
                   ELSE EvictBefore(frames, max_pts - c * TicksPerSec)
       IN  /\ frames' = kept
           /\ bytes' = bytes - (TotalSize(frames) - TotalSize(kept))
    /\ UNCHANGED <<max_pts, arrived, received>>

\* A fault: only the queue is cleared.
ClearQueueOnly ==
    /\ frames' = <<>>
    /\ received' = {}
    /\ UNCHANGED <<bytes, max_pts, capacity_ticks, arrived>>

Clear ==
    /\ frames' = <<>>
    /\ bytes' = 0
    /\ max_pts' = NoPts
    /\ received' = {}
    /\ UNCHANGED <<capacity_ticks, arrived>>

Next ==
    \/ \E pts \in Pts, key \in BOOLEAN : Push(pts, key)
    \/ \E c \in Capacities : SetCapacity(c)
    \/ Clear

Spec == Init /\ [][Next]_vars

-----------------------------------------------------------------------------

Held == ToSet(frames)

\* The ring's state has the types the code declares.  (bytes: BytesExact.)
TypeOK ==
    /\ frames \in Seq(Frame)
    /\ capacity_ticks \in {c * TicksPerSec : c \in Capacities}
    /\ max_pts \in Pts \cup {NoPts}
    /\ arrived \in 0..MaxArrivals
    /\ received \in SUBSET Frame

\* Frames stay in presentation order, arrival order among equals, whatever
\* the order they arrive in, however the window is resized or cleared.
Ordered == Sorted(frames)

\* The byte counter, kept by increments and decrements on three paths, is the
\* size of what is held: it neither drifts nor goes below zero.
BytesExact == bytes = TotalSize(frames)

\* The footage never exceeds the configured window, also right after the
\* window was made smaller, and never outlives a clear.
SpanBounded ==
    \A f \in Held : f.pts >= max_pts - capacity_ticks /\ f.pts <= max_pts

\* What was evicted is strictly older than everything that is held: the ring
\* has no holes, whatever order frames arrived in and even after the window
\* has shrunk and grown again.
Gapless ==
    \A f \in received \ Held, g \in Held : f.pts < g.pts

\* A saved clip starts on a keyframe, reaches back over the whole window if
\* a keyframe old enough is still there, not further than one GOP more, and
\* contains every frame received from its start on (clip.rs:53 "guaranteeing a
\* decodable stream").
ClipComplete ==
    \A seconds \in Requests :
        LET clip == ClipOf(frames, seconds)
            start == max_pts - seconds * TicksPerSec
        IN  (\E f \in Held : f.key) =>
            /\ clip[1].key
            /\ ToSet(clip) = {f \in received : ~ Before(f, clip[1])}
            /\ \A f \in Held : f.key /\ f.pts <= start =>
                                  clip[1].pts <= start /\ ~ Before(clip[1], f)

Store == INSTANCE FrameStore WITH held <- Held

\* A clip is complete, and it is the one FrameStore promises, which knows no
\* positions; and a screenshot's GOP is the clip of the last zero seconds.
ClipAsPromised ==
    /\ ClipComplete
    /\ \A seconds \in Requests :
          ToSet(ClipOf(frames, seconds)) = Store!Clip(seconds)
    /\ ToSet(LatestGop(frames)) = Store!Clip(0)

\* The ring implements the store: every push, resize and clear of the queue is
\* that operation on the set of frames it holds.
ImplementsFrameStore == Store!Spec

=============================================================================
