------------------------------- MODULE Player -------------------------------
(***************************************************************************)
(* The inline preview player of the editor (ord-ui/src/player.rs, pace.rs). *)
(* Three threads share it: the UI thread (the commands and Frame), the      *)
(* decode thread (TakeSeek .. OnEof) and the callback of the audio device   *)
(* (Drain, CountPlayed).  Time is counted in ticks of one video frame; an   *)
(* audio packet and a silence sample last one tick.  A sample in audioBuf   *)
(* is the stream time it stands for, a frame in the queue its pts.          *)
(***************************************************************************)
EXTENDS Integers, Sequences, FiniteSetsExt

CONSTANTS
    Duration,        \* length of the container, in ticks
    VideoEnd,        \* the video frames have pts 0 .. VideoEnd - 1
    KeyFrames,       \* the pts of the keyframes, 0 among them
    AudioTicks,      \* the ticks the audio track has a packet for
    DecoderOpens,    \* whether the decode thread gets a decoder for the clip
    QueueMax,        \* VIDEO_QUEUE_MAX
    PausedQueueMax,  \* PAUSED_QUEUE_MAX
    AudioBufMax,     \* AUDIO_BUF_SECS of samples
    SilenceChunk,    \* SILENCE_CHUNK_SECS
    RefillBelow,     \* EOF_REFILL_BELOW_SECS of samples
    LeadMax,         \* the clamp of the silence before a late audio track
    GapMax,          \* the clamp of the silence inside the audio track
    SettleTicks,     \* EOF_SETTLE_TICKS
    PauseHonoured,   \* whether the device stops calling back when paused
    SeekTargets,     \* the times the user may seek to
    Ranges,          \* the selections the editor may set
    MaxCommands      \* bound: commands of the user in one behaviour

NoTime == -1
Times == 0..Duration

ASSUME PlayerAssumption ==
    /\ Duration \in Nat \ {0} /\ VideoEnd \in 1..Duration
    /\ KeyFrames \subseteq 0..(VideoEnd - 1) /\ 0 \in KeyFrames
    /\ AudioTicks \subseteq 0..(Duration - 1)
    /\ DecoderOpens \in BOOLEAN /\ PauseHonoured \in BOOLEAN
    /\ {QueueMax, PausedQueueMax, AudioBufMax, SilenceChunk, RefillBelow,
        LeadMax, GapMax, SettleTicks} \subseteq Nat \ {0}
    /\ SeekTargets \subseteq Times /\ Ranges \subseteq Times \X Times /\ MaxCommands \in Nat

VARIABLES
    ui,         \* the fields the UI thread writes, of Player and of Shared; its
                \* `lost' is history: the callback lost a count since the last seek
    played,     \* samples_played
    seekTo,     \* seek_to: the seek the decode thread has not taken yet
    eof,        \* the demuxer reached the end of the file
    frames,     \* the queue of decoded frames
    audioBuf,   \* the samples waiting for the device
    inflight,   \* samples the callback drained and has not counted yet
    device,     \* whether the audio device still calls back
    dec,        \* the fields of the decode session
    commands    \* bound: commands issued so far

vars == <<ui, played, seekTo, eof, frames, audioBuf, inflight, device, dec, commands>>
HasAudio == AudioTicks # {}
AudioStart == IF HasAudio THEN Min(AudioTicks) ELSE Duration

Smaller(a, b) == IF a < b THEN a ELSE b
Larger(a, b) == IF a > b THEN a ELSE b
Clamp(t, lo, hi) == Larger(lo, Smaller(t, hi))

(***************************************************************************)
(* The master clock.                                                        *)
(***************************************************************************)

\* The wall clock drives a silent clip and every speed but 1x; its reading is
\* the ticks since the anchor, NoTime when there is none.
UsesWallClock(u) == ~HasAudio \/ u.speed # 1

PositionOf(u, p) ==
    Smaller(u.base + (IF UsesWallClock(u) THEN Larger(u.anchor, 0) ELSE p), Duration)

Position == PositionOf(ui, played)

\* What the methods of Player do to the fields of the UI thread; `seeked' and
\* `rebased' say whether the clock was rebased (samples_played := 0).
SeekField(u, t) ==
    [u EXCEPT !.base = Clamp(t, 0, Duration), !.needsFrame = TRUE, !.settle = 0,
              !.lost = FALSE,
              !.anchor = IF UsesWallClock(u)
                           THEN (IF u.playing THEN 0 ELSE NoTime) ELSE @]

StartClock(u) ==
    [u EXCEPT !.playing = TRUE, !.streamOn = ~UsesWallClock(u),
              !.anchor = IF UsesWallClock(u) THEN 0 ELSE NoTime]

FreezeField(u, pos) ==
    [u EXCEPT !.base = pos, !.anchor = NoTime, !.streamOn = FALSE, !.playing = FALSE]

(***************************************************************************)
(* Commands of the user.  The steps of one command are one step here: only  *)
(* the callback writes samples_played at the same time, and where its count *)
(* can fall between the read of the clock and the reset, `lost' says so.    *)
(***************************************************************************)
Command == commands < MaxCommands /\ commands' = commands + 1 /\ ~dec.stop

Seek(t) ==
    /\ Command
    /\ ui' = SeekField(ui, t) /\ seekTo' = Clamp(t, 0, Duration) /\ played' = 0
    /\ UNCHANGED <<eof, frames, audioBuf, inflight, device, dec>>

\* play: a position outside the selection, or at its end, restarts it.
Play ==
    LET restart == Position < ui.range[1] \/ Position >= ui.range[2]
    IN  /\ Command /\ ~ui.playing
        /\ ui' = StartClock(IF restart THEN SeekField(ui, ui.range[1]) ELSE ui)
        /\ seekTo' = IF restart THEN ui.range[1] ELSE seekTo
        /\ played' = IF restart THEN 0 ELSE played
        /\ UNCHANGED <<eof, frames, audioBuf, inflight, device, dec>>

\* The callback's count lands between the read of the position and the reset
\* of samples_played, and is lost.
CountLost(lost) == /\ lost => inflight > 0
                   /\ inflight' = IF lost THEN 0 ELSE inflight

Pause == \E lost \in BOOLEAN :
    /\ Command /\ ui.playing
    /\ ui' = [FreezeField(ui, Position) EXCEPT !.lost = @ \/ lost]
    /\ played' = 0 /\ CountLost(lost)
    /\ UNCHANGED <<seekTo, eof, frames, audioBuf, device, dec>>

\* set_speed rebases the clock and, while playing, hands it to the wall clock
\* or back to the device; the buffer and the demuxer stay where they are.
SetSpeed(s) == \E lost \in BOOLEAN :
    LET u == [ui EXCEPT !.speed = s, !.base = Position, !.lost = @ \/ lost]
    IN  /\ Command /\ s # ui.speed
        /\ ui' = IF ui.playing THEN StartClock(u) ELSE u
        /\ played' = 0 /\ CountLost(lost)
        /\ UNCHANGED <<seekTo, eof, frames, audioBuf, device, dec>>

SetLoop(on) ==
    /\ Command /\ on # ui.looping
    /\ ui' = [ui EXCEPT !.looping = on]
    /\ UNCHANGED <<played, seekTo, eof, frames, audioBuf, inflight, device, dec>>

SetRange(r) ==
    /\ Command /\ r # ui.range
    /\ ui' = [ui EXCEPT !.range = r]
    /\ UNCHANGED <<played, seekTo, eof, frames, audioBuf, inflight, device, dec>>

\* Drop: the decode thread is told to stop and is never joined.
Close ==
    /\ ~dec.stop
    /\ dec' = [dec EXCEPT !.stop = TRUE]
    /\ ui' = [ui EXCEPT !.streamOn = FALSE]
    /\ UNCHANGED <<played, seekTo, eof, frames, audioBuf, inflight, device, commands>>

(***************************************************************************)
(* The decode thread.                                                       *)
(***************************************************************************)

\* The packets of the file in its interleaving: at every tick the video packet
\* 2 * t, then the audio packet 2 * t + 1.
Packets == {2 * t : t \in 0..(VideoEnd - 1)} \cup {2 * t + 1 : t \in AudioTicks}
AtEnd == \A n \in Packets : n < dec.next
KeyFrameBefore(t) == Max({k \in KeyFrames : k <= t})

After(s, n) == SubSeq(s, n + 1, Len(s))
\* The samples of n ticks of stream time.
Span(from, n) == [i \in 1..n |-> from + i - 1]

QueueTarget == IF ui.playing THEN QueueMax ELSE PausedQueueMax

\* pace: the clock is fed before anything is parked on.
Hole == dec.demuxPos - dec.audioFill
FillsSilence == HasAudio /\ ui.playing /\ audioBuf = <<>> /\ Hole > 0
LookAheadFull == \/ Len(frames) >= QueueTarget
                 \/ HasAudio /\ Len(audioBuf) >= AudioBufMax
\* A fault: parks on a full queue before it feeds the clock.
ParksFirst == IF LookAheadFull THEN "Park"
              ELSE IF FillsSilence THEN "FillSilence" ELSE "Demux"

PaceAction == IF FillsSilence THEN "FillSilence"
              ELSE IF LookAheadFull THEN "Park" ELSE "Demux"

\* apply_pending_seek: the seek is taken first and everything queued for the
\* old position dropped later; the UI thread and the callback run in between.
TakeSeek ==
    /\ dec.pc = "loop" /\ ~dec.stop /\ seekTo # NoTime
    /\ dec' = [dec EXCEPT !.pc = "seeking", !.target = seekTo]
    /\ seekTo' = NoTime
    /\ UNCHANGED <<ui, played, eof, frames, audioBuf, inflight, device, commands>>

LeadingGap(t) == IF HasAudio /\ AudioStart > t THEN Smaller(AudioStart - t, LeadMax) ELSE 0

\* A fault: the frames of the old position stay queued.
ApplySeekKeepsFrames ==
    /\ dec.pc = "seeking"
    /\ dec' = [dec EXCEPT !.pc = "loop", !.target = NoTime,
                          !.next = 2 * KeyFrameBefore(dec.target),
                          !.dropUntil = dec.target, !.runupLast = NoTime,
                          !.demuxPos = dec.target,
                          !.audioFill = IF LeadingGap(dec.target) > 0
                                          THEN AudioStart ELSE dec.target]
    /\ audioBuf' = Span(dec.target, LeadingGap(dec.target))
    /\ eof' = FALSE
    /\ UNCHANGED <<ui, played, seekTo, frames, inflight, device, commands>>

ApplySeek ==
    /\ dec.pc = "seeking"
    /\ dec' = [dec EXCEPT !.pc = "loop", !.target = NoTime,
                          !.next = 2 * KeyFrameBefore(dec.target),
                          !.dropUntil = dec.target, !.runupLast = NoTime,
                          !.demuxPos = dec.target,
                          !.audioFill = IF LeadingGap(dec.target) > 0
                                          THEN AudioStart ELSE dec.target]
    /\ frames' = <<>>
    /\ audioBuf' = Span(dec.target, LeadingGap(dec.target))
    /\ eof' = FALSE
    /\ UNCHANGED <<ui, played, seekTo, inflight, device, commands>>

Looping == dec.pc = "loop" /\ ~dec.stop /\ seekTo = NoTime

FillSilence ==
    /\ Looping /\ PaceAction = "FillSilence"
    /\ LET n == Smaller(Hole, SilenceChunk)
       IN  /\ audioBuf' = audioBuf \o Span(dec.audioFill, n)
           /\ dec' = [dec EXCEPT !.audioFill = @ + n]
    /\ UNCHANGED <<ui, played, seekTo, eof, frames, inflight, device, commands>>

\* The decision to read a packet; Park is a stutter.
DecideDemux ==
    /\ Looping /\ PaceAction = "Demux"
    /\ dec' = [dec EXCEPT !.pc = "demux"]
    /\ UNCHANGED <<ui, played, seekTo, eof, frames, audioBuf, inflight, device, commands>>

ReadPacket(n) ==
    /\ dec.pc = "demux" /\ ~AtEnd
    /\ n = Min({k \in Packets : k >= dec.next})

\* A frame of the run-up to the target is dropped, and so is one the queue has
\* no room for (the target depth is read again: the UI may have paused).
OnVideoPacket ==
    \E n \in Packets :
        LET pts == n \div 2
            runup == dec.dropUntil # NoTime /\ pts < dec.dropUntil
        IN  /\ ReadPacket(n) /\ n % 2 = 0
            /\ dec' = [dec EXCEPT !.pc = "loop", !.next = n + 1,
                                  !.demuxPos = Larger(@, pts),
                                  !.dropUntil = IF runup THEN @ ELSE NoTime,
                                  !.runupLast = IF runup THEN pts ELSE
                                                IF dec.dropUntil # NoTime THEN NoTime ELSE @]
            /\ frames' = IF runup \/ Len(frames) >= QueueTarget
                           THEN frames ELSE Append(frames, pts)
            /\ UNCHANGED <<ui, played, seekTo, eof, audioBuf, inflight, device, commands>>

\* Audio before the fill point is run-up and skipped; a gap before the packet
\* is fed as silence.
OnAudioPacket ==
    \E n \in Packets :
        LET p == n \div 2
            gap == Clamp(p - dec.audioFill, 0, GapMax)
            skip == p + 1 <= dec.audioFill
        IN  /\ ReadPacket(n) /\ n % 2 = 1
            /\ dec' = [dec EXCEPT !.pc = "loop", !.next = n + 1,
                                  !.audioFill = IF skip THEN @ ELSE Larger(@, p) + 1]
            /\ audioBuf' = IF skip THEN audioBuf
                             ELSE Append(audioBuf \o Span(dec.audioFill, gap), p)
            /\ UNCHANGED <<ui, played, seekTo, eof, frames, inflight, device, commands>>

\* on_eof: a target past the last frame re-runs the tail GOP; an audio track
\* that ended before the container is continued with silence; otherwise idle.
RerunTail == dec.dropUntil # NoTime /\ dec.runupLast # NoTime
MediaEnd == Larger(Duration, dec.demuxPos)
TrailingSilence ==
    IF ui.playing /\ HasAudio /\ Len(audioBuf) < RefillBelow
      THEN Smaller(Larger(MediaEnd - dec.audioFill, 0), SilenceChunk) ELSE 0

OnEof ==
    /\ dec.pc = "demux" /\ AtEnd
    /\ dec' = [dec EXCEPT !.pc = "loop",
                 !.next = IF RerunTail THEN 2 * KeyFrameBefore(dec.runupLast) ELSE @,
                 !.dropUntil = IF RerunTail THEN dec.runupLast ELSE @,
                 !.runupLast = NoTime,
                 !.audioFill = IF RerunTail THEN @ ELSE @ + TrailingSilence]
    /\ eof' = ~RerunTail
    /\ audioBuf' = IF RerunTail THEN audioBuf
                     ELSE audioBuf \o Span(dec.audioFill, TrailingSilence)
    /\ UNCHANGED <<ui, played, seekTo, frames, inflight, device, commands>>

\* The loop sees `stop'; a clip no decoder opens ends the thread at once.
Exit ==
    /\ \/ dec.pc = "loop" /\ dec.stop
       \/ dec.pc = "open" /\ ~DecoderOpens
    /\ dec' = [dec EXCEPT !.pc = "done"]
    /\ UNCHANGED <<ui, played, seekTo, eof, frames, audioBuf, inflight, device, commands>>

OpenSession ==
    /\ dec.pc = "open" /\ DecoderOpens
    /\ dec' = [dec EXCEPT !.pc = "loop"]
    /\ UNCHANGED <<ui, played, seekTo, eof, frames, audioBuf, inflight, device, commands>>

(***************************************************************************)
(* The callback of the audio device, and the wall clock.                    *)
(***************************************************************************)
DeviceRuns == device /\ ui.playing /\ (ui.streamOn \/ ~PauseHonoured)

Drain ==
    /\ DeviceRuns /\ inflight = 0 /\ audioBuf # <<>>
    /\ audioBuf' = After(audioBuf, 1) /\ inflight' = 1
    /\ UNCHANGED <<ui, played, seekTo, eof, frames, device, dec, commands>>

\* A count that arrives while the wall clock runs is lost when it is rebased.
CountPlayed ==
    /\ inflight > 0
    /\ played' = Smaller(played + inflight, Duration) /\ inflight' = 0
    /\ ui' = [ui EXCEPT !.lost = @ \/ UsesWallClock(ui)]
    /\ UNCHANGED <<seekTo, eof, frames, audioBuf, device, dec, commands>>

DeviceStalls ==
    /\ device /\ HasAudio /\ device' = FALSE
    /\ UNCHANGED <<ui, played, seekTo, eof, frames, audioBuf, inflight, dec, commands>>

WallTick ==
    /\ UsesWallClock(ui) /\ ui.anchor # NoTime /\ Position < Duration
    /\ ui' = [ui EXCEPT !.anchor = @ + 1]
    /\ UNCHANGED <<played, seekTo, eof, frames, audioBuf, inflight, device, dec, commands>>

(***************************************************************************)
(* One repaint.                                                             *)
(***************************************************************************)
Starved == eof /\ HasAudio /\ audioBuf = <<>> /\ frames = <<>>
AtOut == Position >= Smaller(ui.range[2], Duration) \/ Starved

\* What no thread will change without the user: the clock reads the device,
\* which has nothing to play, and the decode thread parks.  Two seconds of a
\* still clock (STALL_PAUSE) pass only in such a state.
DecodeIdle ==
    \/ dec.pc = "done"
    \/ dec.pc \in {"loop", "demux"} /\ seekTo = NoTime
         /\ \/ PaceAction = "Park" /\ dec.pc = "loop"
            \/ PaceAction = "Demux" /\ AtEnd /\ eof /\ ~RerunTail /\ TrailingSilence = 0
Displayable == {i \in 1..Len(frames) : \A j \in 1..i : frames[j] <= Position}
\* A fault: only a buffer that ran dry counts as a stall.
ClockDry == /\ ~dec.stop /\ ui.playing /\ ~UsesWallClock(ui) /\ inflight = 0 /\ ~AtOut
            /\ audioBuf = <<>> /\ DecodeIdle /\ Displayable = {}

ClockStill == /\ ~dec.stop /\ ui.playing /\ ~UsesWallClock(ui) /\ inflight = 0 /\ ~AtOut
              /\ (~DeviceRuns \/ audioBuf = <<>>)
              /\ DecodeIdle /\ Displayable = {}

\* The loop or stop at the out point, or the pause of a stalled clock.
Wrapped(u) ==
    IF u.looping THEN SeekField(u, u.range[1])
    ELSE SeekField(FreezeField(u, Position), u.range[2])

AfterEnd == IF ui.playing /\ AtOut THEN Wrapped(ui)
            ELSE IF ClockStill THEN FreezeField(ui, Position) ELSE ui
SeeksAtEnd == ui.playing /\ AtOut

\* The newest frame at or before the clock, or after a seek the next one.
Picked(u, p) ==
    LET due == {i \in 1..Len(frames) : \A j \in 1..i : frames[j] <= PositionOf(u, p)}
    IN  IF due # {} THEN Max(due)
        ELSE IF u.needsFrame /\ frames # <<>> THEN 1 ELSE 0

\* A seek that can never produce a frame stops driving repaints.
DeadSeek(queue, pending) == eof /\ pending = NoTime /\ queue = <<>>

\* A fault: a dead seek is never given up.
ShownOrWaits(u, n, pending) ==
    LET fresh == n > 0 /\ frames[n] # u.shown
        wants == u.needsFrame /\ ~fresh
        ticks == IF DeadSeek(After(frames, n), pending) THEN u.settle + 1 ELSE 0
    IN  [u EXCEPT !.shown = IF fresh THEN frames[n] ELSE @,
                  !.needsFrame = wants,
                  !.settle = IF wants THEN Smaller(ticks, SettleTicks) ELSE @]

Shown(u, n, pending) ==
    LET fresh == n > 0 /\ frames[n] # u.shown
        wants == u.needsFrame /\ ~fresh
        ticks == IF DeadSeek(After(frames, n), pending) THEN u.settle + 1 ELSE 0
    IN  [u EXCEPT !.shown = IF fresh THEN frames[n] ELSE @,
                  !.needsFrame = wants /\ ticks < SettleTicks,
                  !.settle = IF wants THEN ticks ELSE @]

Frame ==
    LET p == IF SeeksAtEnd \/ ClockStill THEN 0 ELSE played
        pending == IF SeeksAtEnd THEN AfterEnd.base ELSE seekTo
        n == Picked(AfterEnd, p)
    IN  /\ ~dec.stop
        /\ ui' = Shown(AfterEnd, n, pending)
        /\ played' = p /\ seekTo' = pending
        /\ frames' = After(frames, n)
        /\ UNCHANGED <<eof, audioBuf, inflight, device, dec, commands>>

\* frame asked for another repaint.
WantsRepaint == ui.playing \/ ui.needsFrame

(***************************************************************************)
(* The specification.                                                       *)
(***************************************************************************)
\* Player::open: paused, with the first picture still to be shown.
NewPlayer == [playing |-> FALSE, looping |-> FALSE, base |-> 0, speed |-> 1,
              anchor |-> NoTime, streamOn |-> FALSE, range |-> <<0, Duration>>,
              needsFrame |-> TRUE, settle |-> 0, shown |-> NoTime,
              lost |-> FALSE]
\* DecodeSession::open: nothing read, nothing to skip.
NewSession == [pc |-> "open", stop |-> FALSE, target |-> NoTime, next |-> 0,
               dropUntil |-> NoTime, runupLast |-> NoTime,
               demuxPos |-> 0, audioFill |-> 0]

Init ==
    /\ ui = NewPlayer /\ dec = NewSession
    /\ played = 0 /\ seekTo = 0 /\ eof = FALSE
    /\ frames = <<>> /\ audioBuf = <<>> /\ inflight = 0 /\ device = TRUE
    /\ commands = 0

Decode == \/ OpenSession \/ TakeSeek \/ ApplySeek \/ FillSilence \/ DecideDemux
          \/ OnVideoPacket \/ OnAudioPacket \/ OnEof \/ Exit

UserStep == \/ \E t \in SeekTargets : Seek(t)
            \/ Play \/ Pause \/ Close
            \/ \E s \in {1, 2} : SetSpeed(s)
            \/ \E on \in BOOLEAN : SetLoop(on)
            \/ \E r \in Ranges : SetRange(r)

Next == UserStep \/ Decode \/ Drain \/ CountPlayed \/ DeviceStalls \/ WallTick \/ Frame

\* The threads run, the wall clock advances, and a repaint that was asked for
\* comes; nothing is assumed of the user.
Fairness ==
    /\ WF_vars(Decode) /\ WF_vars(Drain) /\ WF_vars(CountPlayed)
    /\ WF_vars(WallTick) /\ WF_vars(WantsRepaint /\ Frame)

Spec == Init /\ [][Next]_vars /\ Fairness

(***************************************************************************)
(* Properties.                                                              *)
(***************************************************************************)
TypeOK ==
    /\ ui \in [playing : BOOLEAN, looping : BOOLEAN, base : Times, speed : {1, 2},
               anchor : Times \cup {NoTime}, streamOn : BOOLEAN, range : Times \X Times,
               needsFrame : BOOLEAN, settle : 0..SettleTicks, shown : Times \cup {NoTime},
               lost : BOOLEAN]
    /\ played \in Times /\ seekTo \in Times \cup {NoTime} /\ eof \in BOOLEAN
    /\ frames \in Seq(0..(VideoEnd - 1)) /\ audioBuf \in Seq(Times)
    /\ inflight \in {0, 1} /\ device \in BOOLEAN
    /\ dec \in [pc : {"open", "loop", "seeking", "demux", "done"}, stop : BOOLEAN,
                target : Times \cup {NoTime}, next : 0..(2 * Duration + 1),
                dropUntil : Times \cup {NoTime}, runupLast : Times \cup {NoTime},
                demuxPos : Times, audioFill : Times]
    /\ commands \in 0..MaxCommands

\* The buffer is stream time without a hole or an overlap, up to the fill
\* point, whatever mix of packets, gaps, late starts and trailing silence fed
\* it (push_silence, on_audio_packet, on_eof, apply_pending_seek).
BufferTracksStream ==
    \A i \in 1..Len(audioBuf) : audioBuf[i] = dec.audioFill - Len(audioBuf) + i - 1

\* The queue holds frames in order, and once no seek is on its way none from
\* before the target: a scrub never continues from the old position.
QueueFollowsSeek ==
    /\ \A i, j \in 1..Len(frames) : i < j => frames[i] < frames[j]
    /\ dec.dropUntil # NoTime => frames = <<>>

\* Nothing of the old position is ahead of a clip that was sent elsewhere: neither
\* a picture in the queue nor a sound in the buffer.
LookAheadFollowsSeek == QueueFollowsSeek /\ BufferTracksStream

\* The clock, the queue and the demuxer never wait for each other: while the
\* device runs and no count was lost, a playing clip has a sample to play, a
\* frame to show, work for the decode thread, or has reached its end.
NeverFrozen == ~(ClockStill /\ device /\ DecoderOpens /\ ~ui.lost)

\* A clip that plays ends: at the out point, or by the rescue of a starved or
\* stalled clock; only a loop, a command or the closing of it goes on.
PlaybackEnds ==
    (ui.playing /\ ~ui.looping) ~> (~ui.playing \/ ui.looping \/ dec.stop)

\* A seek stops driving repaints: its frame is shown, or it is given up.
SeekSettles == ui.needsFrame ~> (~ui.needsFrame \/ dec.stop)

=============================================================================
