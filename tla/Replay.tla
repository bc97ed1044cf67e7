-------------------------------- MODULE Replay --------------------------------
(***************************************************************************)
(* What the engine keeps for a save (ord-core engine.rs, audio.rs): the    *)
(* ring of video, a ring of audio behind its own newest packet, and the    *)
(* bookmarks; and the clip that is cut from the three.                     *)
(*                                                                         *)
(* Video is counted in ticks of its time base and audio in microseconds of *)
(* the same clock.  The two arrive independently: while the screen stands  *)
(* still or the encoder lags, sound goes on.                               *)
(***************************************************************************)
EXTENDS RingBuffer

CONSTANTS
    MicrosPerSec,   \* MICROS_PER_SEC: sound is stamped in microseconds
    MillisPerSec,   \* chapters are stamped in milliseconds
    AudioTimes,     \* the capture times audio may carry, microseconds
    AudioLead,      \* how far sound may run ahead of the newest frame
    MaxMarks        \* exploration bound: bookmarks placed

ASSUME ReplayAssumption ==
    /\ MicrosPerSec \in Nat \ {0} /\ MillisPerSec \in Nat \ {0}
    /\ AudioTimes \subseteq Nat
    /\ AudioLead \in Nat /\ MaxMarks \in Nat

VARIABLES
    audio,      \* Engine::audio_ring, its packets, oldest first
    markers,    \* Engine::markers, in ticks
    heard,      \* times of the packets received since the last clear (history)
    marked      \* the bookmarks placed since the last clear (history)

ringVars == vars
replayVars == <<ringVars, audio, markers, heard, marked>>

-----------------------------------------------------------------------------

\* ticks_to_micros, which truncates.
Micros(ticks) == (ticks * MicrosPerSec) \div TicksPerSec

\* A fault: the length of the audio window is taken in ticks.
WindowInTicks(ticks) == ticks

\* AudioRingBuffer::capacity_micros.
AudioWindow(ticks) == Micros(ticks)

\* AudioRingBuffer::evict_before, behind the newest packet there was.
EvictAudio(q, ticks) ==
    IF q = <<>> THEN q ELSE EvictBefore(q, q[Len(q)].pts - AudioWindow(ticks))

\* A fault: a bookmark on the oldest frame is taken for an evicted one.
PruneThroughOldest(q, marks) ==
    SelectSeq(marks, LAMBDA m : q # <<>> /\ m > q[1].pts)

\* prune_markers.
PruneMarkers(q, marks) ==
    SelectSeq(marks, LAMBDA m : q # <<>> /\ m >= q[1].pts)

ReplayInit ==
    /\ Init
    /\ audio = <<>> /\ markers = <<>>
    /\ heard = {} /\ marked = <<>>

\* How far sound may be ahead: the encoder's latency, or the stillness the
\* watchdog bears with.
Leads(newest, times) == \A t \in times : t <= Micros(newest) + AudioLead

\* drain_available: a frame of the video channel.
DrainVideo(pts, key) ==
    /\ Push(pts, key)
    /\ Leads(max_pts', heard)
    /\ markers' = PruneMarkers(frames', markers)
    /\ UNCHANGED <<audio, heard, marked>>

\* drain_available: a packet of the audio channel.
DrainAudio(t) ==
    /\ \A u \in heard : u < t
    /\ max_pts # NoPts => Leads(max_pts, {t})
    /\ audio' = EvictAudio(InsertTsOrdered(audio, [pts |-> t]), capacity_ticks)
    /\ heard' = heard \cup {t}
    /\ UNCHANGED <<ringVars, markers, marked>>

\* Engine::mark: at the newest frame.
Mark ==
    /\ frames # <<>> /\ Len(marked) < MaxMarks
    /\ LET m == frames[Len(frames)].pts
       IN  markers' = Append(markers, m) /\ marked' = Append(marked, m)
    /\ UNCHANGED <<ringVars, audio, heard>>

\* Engine::set_capacity_seconds.
Resize(c) ==
    /\ SetCapacity(c)
    /\ audio' = EvictAudio(audio, capacity_ticks')
    /\ UNCHANGED <<markers, heard, marked>>

\* Engine::clear.
ClearReplay ==
    /\ Clear
    /\ audio' = <<>> /\ markers' = <<>>
    /\ heard' = {} /\ marked' = <<>>

ReplayNext ==
    \/ \E pts \in Pts, key \in BOOLEAN : DrainVideo(pts, key)
    \/ \E t \in AudioTimes : DrainAudio(t)
    \/ Mark
    \/ \E c \in Capacities : Resize(c)
    \/ ClearReplay

ReplaySpec == ReplayInit /\ [][ReplayNext]_replayVars

-----------------------------------------------------------------------------
(* take_clip: the frames of the clip, the sound of its span, and the       *)
(* bookmarks within as chapters, counted from its start.                   *)

First(clip) == clip[1].pts
End(clip) == clip[Len(clip)].pts

Sound(clip) ==
    {a.pts : a \in {b \in ToSet(audio) :
        b.pts >= Micros(First(clip)) /\ b.pts <= Micros(End(clip))}}

\* The time base of chapters.
Millis(ticks) == (ticks * MillisPerSec) \div TicksPerSec

Chapters(clip) ==
    LET inside == SelectSeq(markers, LAMBDA m : m >= First(clip) /\ m <= End(clip))
    IN  [i \in DOMAIN inside |-> Millis(inside[i] - First(clip))]

ClipsOf(q) == {ClipOf(q, seconds) : seconds \in Requests} \ {<<>>}

\* A clip has the sound of its span.  What may be missing is at its head, and
\* no longer than sound had run ahead of the picture: two rings that evict
\* each behind its own newest keep one window, through resizes and clears.
ClipHasSound ==
    \A clip \in ClipsOf(frames) :
        \A t \in heard : t >= Micros(First(clip)) + AudioLead /\ t <= Micros(End(clip))
                            => t \in Sound(clip)

\* Every bookmark placed on a frame that a clip holds is a chapter of it, at
\* the place of that frame, in the order of the picture; and no other is:
\* whatever was evicted, resized, cleared or arrived late since.
ChaptersAreMarks ==
    \A clip \in ClipsOf(frames) :
        LET placed == SelectSeq(marked, LAMBDA m : m >= First(clip))
            chapters == Chapters(clip)
        IN  /\ chapters = [i \in DOMAIN placed |-> Millis(placed[i] - First(clip))]
            /\ \A i \in DOMAIN chapters :
                  /\ \E f \in ToSet(clip) : Millis(f.pts - First(clip)) = chapters[i]
                  /\ i > 1 => chapters[i - 1] <= chapters[i]

=============================================================================
