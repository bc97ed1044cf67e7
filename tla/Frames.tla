------------------------------- MODULE Frames -------------------------------
(***************************************************************************)
(* Encoded frames and the replay window, as every store of ord-core sees   *)
(* them (ring.rs EncodedFrame, store.rs).  A frame carries the             *)
(* presentation timestamp the encoder gave it (pts), whether it is a       *)
(* keyframe, and the order of its arrival (id).                            *)
(***************************************************************************)
EXTENDS Integers

CONSTANTS
    Pts,            \* the timestamps frames may carry, in ticks
    TicksPerSec,    \* ticks in a second of pts
    Capacities,     \* the window lengths a configuration may ask for, seconds
    Reorder,        \* how far behind the newest frame one may arrive, ticks
    MaxArrivals     \* exploration bound: frames a behaviour receives

\* CLOCK_MONOTONIC nanoseconds (waycap) or microseconds from 0 (mock).
ASSUME PtsAssumption == Pts \subseteq Nat

ASSUME TicksAssumption == TicksPerSec \in Nat \ {0}

\* with_time_base and set_capacity_seconds: at least one second.
ASSUME CapacitiesAssumption == Capacities \subseteq Nat \ {0}

\* ring.rs: "Frames may arrive slightly out of order (waycap-rs reorders for
\* B-frames)".  A few frames, where the shortest window is a second.
ASSUME ReorderAssumption ==
    Reorder \in Nat /\ \A c \in Capacities : Reorder <= c * TicksPerSec

ASSUME MaxArrivalsAssumption == MaxArrivals \in Nat

\* i64::MIN, the anchor of a store that has seen no frame yet.
NoPts == -1

Frame == [id : Nat, pts : Pts, key : BOOLEAN]

\* Presentation order, ties in order of arrival.
Before(f, g) == f.pts < g.pts \/ (f.pts = g.pts /\ f.id < g.id)

\* A frame may follow F: it is at most Reorder behind the newest of them.
InOrder(F, pts) == \A f \in F : pts >= f.pts - Reorder

\* The newer of an anchor and a timestamp.
Newest(anchor, pts) == IF pts > anchor THEN pts ELSE anchor

=============================================================================
