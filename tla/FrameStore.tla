----------------------------- MODULE FrameStore -----------------------------
(***************************************************************************)
(* What a replay store promises (ord-core store.rs, trait FrameStore),     *)
(* whichever way it keeps the footage: RingBuffer.tla (RAM) and            *)
(* DiskFrameStore.tla (spill file) both implement this specification.      *)
(*                                                                         *)
(* A store is a set of frames.  It has no layout: no queue, no scan, no    *)
(* file.                                                                   *)
(***************************************************************************)
EXTENDS Frames

VARIABLES
    arrived,        \* how many frames have arrived (the next id is one more)
    received,       \* every frame stored since the last clear (history)
    held,           \* the frames the store still has
    max_pts,        \* the newest timestamp seen since the last clear
    capacity_ticks  \* the length of the window

vars == <<arrived, received, held, max_pts, capacity_ticks>>

\* The frames of F that a window ending at newest still covers.
InWindow(F, newest, ticks) == {f \in F : f.pts >= newest - ticks}

-----------------------------------------------------------------------------

Init ==
    /\ arrived = 0
    /\ received = {}
    /\ held = {}
    /\ max_pts = NoPts
    /\ \E c \in Capacities : capacity_ticks = c * TicksPerSec

\* "Insert a frame in pts order and evict frames older than the capacity
\* window behind the newest pts seen."
Push(pts, key) ==
    /\ arrived < MaxArrivals
    /\ InOrder(received, pts)
    /\ LET f == [id |-> arrived + 1, pts |-> pts, key |-> key]
           newest == Newest(max_pts, pts)
       IN  /\ received' = received \cup {f}
           /\ max_pts' = newest
           /\ held' = InWindow(held \cup {f}, newest, capacity_ticks)
    /\ arrived' = arrived + 1
    /\ UNCHANGED capacity_ticks

\* A frame that arrives and is not stored (a disk store whose write failed).
Lose ==
    /\ arrived < MaxArrivals
    /\ arrived' = arrived + 1
    /\ UNCHANGED <<received, held, max_pts, capacity_ticks>>

\* "Change the capacity window, evicting immediately if needed."
SetCapacity(c) ==
    /\ capacity_ticks' = c * TicksPerSec
    /\ held' = IF max_pts = NoPts THEN held
                                  ELSE InWindow(held, max_pts, c * TicksPerSec)
    /\ UNCHANGED <<arrived, received, max_pts>>

\* "Drop all buffered frames and reset the eviction anchor."
Clear ==
    /\ received' = {}
    /\ held' = {}
    /\ max_pts' = NoPts
    /\ UNCHANGED <<arrived, capacity_ticks>>

Next ==
    \/ \E pts \in Pts, key \in BOOLEAN : Push(pts, key)
    \/ Lose
    \/ \E c \in Capacities : SetCapacity(c)
    \/ Clear

Spec == Init /\ [][Next]_vars

-----------------------------------------------------------------------------

\* The clip a save of the last `seconds` promises: it starts at the newest
\* keyframe at or before the start of the window, or else at the oldest
\* keyframe there is, and holds every frame from there on.
\* No keyframe, no clip: the empty set.
Clip(seconds) ==
    LET keys == {f \in held : f.key}
        start == max_pts - seconds * TicksPerSec
        early == {k \in keys : k.pts <= start}
        from == IF early # {}
                THEN CHOOSE k \in early : \A j \in early : j = k \/ Before(j, k)
                ELSE CHOOSE k \in keys : \A j \in keys : j = k \/ Before(k, j)
    IN  IF keys = {} THEN {} ELSE {f \in held : f = from \/ Before(from, f)}

=============================================================================
