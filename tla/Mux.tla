-------------------------------- MODULE Mux ---------------------------------
(***************************************************************************)
(* The millisecond timeline both muxers write (mux/stream.rs) and the      *)
(* packets of a saved clip (mux.rs).  A video frame carries decode and     *)
(* presentation ticks, an audio frame a capture time in microseconds, on   *)
(* one clock.  A packet is [id, dts] (audio) or [id, key, dts, pts].       *)
(* No encoder output is empty: the early returns for empty payloads, and   *)
(* captures without audio, are left out.                                   *)
(***************************************************************************)
EXTENDS Integers, Sequences, SequencesExt

CONSTANT Den    \* StreamParams::time_base_den, ticks in a second

ASSUME DenAssumption == Den \in Nat \ {0}

\* Division as Rust has it, towards zero.
Truncated(n, d) == IF n >= 0 THEN n \div d ELSE -((-n) \div d)

TicksToMicros(t) == Truncated(t * 1000000, Den)

\* Rebaser::ms.
Ms(t, base) == Truncated((t - base) * 1000, Den)

AudioMs(a, base) == Truncated(a.ts - TicksToMicros(base), 1000)

\* Before the first packet of a track: i64::MIN.
NoMs == -1

\* A fault: only a regression is bumped, not a tie.
MonotonicTies(packets, t) ==
    LET last == IF packets = <<>> THEN NoMs ELSE Last(packets).dts
    IN  IF t < last THEN last + 1 ELSE t

\* MonotonicMs::next; each track has its own, and what it returns is written.
Monotonic(packets, t) ==
    LET last == IF packets = <<>> THEN NoMs ELSE Last(packets).dts
    IN  IF t <= last THEN last + 1 ELSE t

Later(s, t) == IF s >= t THEN s ELSE t

\* One more packet on the video track, one more on the audio track.
WriteVideo(packets, f, base) ==
    LET dts == Monotonic(packets, Ms(f.dts, base))
    IN  Append(packets, [id |-> f.id, key |-> f.key, dts |-> dts,
                         pts |-> Later(Ms(f.pts, base), dts)])

WriteAudio(packets, a, base) ==
    Append(packets, [id |-> a.id, dts |-> Monotonic(packets, AudioMs(a, base))])

-----------------------------------------------------------------------------

Stamps(frames) == {f.dts : f \in ToSet(frames)} \cup {f.pts : f \in ToSet(frames)}

\* mux.rs collect_packets: where a clip's timeline starts.
ClipBase(frames) == CHOOSE t \in Stamps(frames) : \A u \in Stamps(frames) : t <= u

\* The video track of a clip of these frames.
ClipVideo(frames) ==
    LET base == ClipBase(frames)
    IN  FoldLeft(LAMBDA packets, f : WriteVideo(packets, f, base), <<>>,
                 SortSeq(frames, LAMBDA f, g : f.dts < g.dts))

\* Its audio track: engine.rs take_clip selects the audio between the first
\* and the newest frame, collect_packets sorts and stamps it.
ClipAudio(frames, audio) ==
    LET base == ClipBase(frames)
        first == TicksToMicros(frames[1].pts)
        newest == {TicksToMicros(f.pts) : f \in ToSet(frames)}
        Inside(a) == a.ts >= first /\ \E us \in newest : a.ts <= us
    IN  FoldLeft(LAMBDA packets, a : WriteAudio(packets, a, base), <<>>,
                 SortSeq(SelectSeq(audio, Inside), LAMBDA a, b : a.ts < b.ts))

=============================================================================
