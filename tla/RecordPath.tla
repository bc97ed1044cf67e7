----------------------------- MODULE RecordPath -----------------------------
(***************************************************************************)
(* From the encoder to the recording: the forwarder threads and their      *)
(* bounded channels (waycap_backend.rs), the drain that feeds ring and     *)
(* recorder (engine.rs), and the recording a client toggles (handler.rs).  *)
(*                                                                         *)
(* A drain empties the audio channel, then the video channel, under the    *)
(* handler's lock, while the forwarders go on: frames of one moment may    *)
(* reach the recorder in either order.  The fault an aborted recording     *)
(* leaves for the pump to announce is not modelled here.                   *)
(***************************************************************************)
EXTENDS Recorder, FiniteSets

CONSTANTS
    VideoTimes,     \* the decode times a frame may carry, ticks
    PtsLeads,       \* how far presentation may lie behind decoding, ticks
    AudioTimes,     \* the capture times of audio, microseconds
    Jitter,         \* how far behind the newest a frame may be delivered, ticks
    VideoCap,       \* VIDEO_CHANNEL_CAP
    AudioCap,       \* AUDIO_CHANNEL_CAP
    AudioWindow,    \* the audio ring's window, microseconds
    MaxVideo,       \* exploration bound: frames the encoder emits
    MaxAudio        \* exploration bound: audio packets

ASSUME RecordPathAssumption ==
    /\ VideoTimes \subseteq Nat /\ AudioTimes \subseteq Nat
    /\ PtsLeads \subseteq Nat
    /\ {Jitter, AudioWindow, MaxVideo, MaxAudio} \subseteq Nat
    /\ {VideoCap, AudioCap} \subseteq Nat \ {0}

\* An Opus packet is 2.5 ms or more.
AudioSpacing == 2000

VARIABLES
    capturing,          \* a session runs; the engine has its receivers
    emitted,            \* [video, audio]: how many frames the encoder emitted
    newest,             \* [video, audio]: the latest time of each
    awaiting_keyframe,  \* of the video forwarder
    video_chan,         \* rx
    audio_chan,         \* audio_rx
    draining,           \* a drain holds the lock between the two channels
    drained,            \* id of the last frame drained, in this session
    audio_ring,         \* Engine::audio_ring
    status,             \* of the last recording: none, open, finished, broken
    recorder,           \* that recording: Engine::recorder, then its file
    trailer,            \* write_trailer was called on it
    offered             \* [video, audio] it was given (history)

recordVars == <<capturing, emitted, newest, awaiting_keyframe, video_chan, audio_chan,
          draining, drained, audio_ring, status, recorder, trailer, offered>>

session == <<capturing, emitted, newest, awaiting_keyframe, drained>>
take == <<status, recorder, trailer, offered>>

Nothing == [video |-> <<>>, audio |-> <<>>]

-----------------------------------------------------------------------------

RecordInit ==
    /\ capturing = TRUE
    /\ emitted = [video |-> 0, audio |-> 0]
    /\ newest = [video |-> 0, audio |-> 0]
    /\ awaiting_keyframe = FALSE
    /\ video_chan = <<>>
    /\ audio_chan = <<>>
    /\ draining = FALSE
    /\ drained = 0
    /\ audio_ring = <<>>
    /\ status = "none"
    /\ recorder = Started
    /\ trailer = FALSE
    /\ offered = Nothing

\* An encoder begins with a keyframe.  Frames come in decode order, but may be
\* delivered slightly late (mux.rs:165).
Emitted(f) ==
    /\ f.dts >= newest.video - Jitter
    /\ drained = 0 /\ video_chan = <<>> /\ ~ awaiting_keyframe => f.key

\* The video forwarder: a full channel drops frames until the next keyframe.
ForwardVideo(f) ==
    /\ capturing
    /\ Emitted(f)
    /\ emitted' = [emitted EXCEPT !.video = f.id]
    /\ newest' = [newest EXCEPT !.video = Later(@, f.dts)]
    /\ IF awaiting_keyframe /\ ~ f.key
       THEN UNCHANGED <<video_chan, awaiting_keyframe>>
       ELSE /\ awaiting_keyframe' = (Len(video_chan) = VideoCap)
            /\ video_chan' = IF Len(video_chan) < VideoCap
                             THEN Append(video_chan, f) ELSE video_chan
    /\ UNCHANGED <<capturing, audio_chan, draining, drained, audio_ring, take>>

\* The audio forwarder: a full channel drops the packet.
ForwardAudio(a) ==
    /\ capturing
    /\ emitted.audio > 0 => a.ts >= newest.audio + AudioSpacing
    /\ emitted' = [emitted EXCEPT !.audio = a.id]
    /\ newest' = [newest EXCEPT !.audio = a.ts]
    /\ audio_chan' = IF Len(audio_chan) < AudioCap THEN Append(audio_chan, a)
                     ELSE audio_chan
    /\ UNCHANGED <<capturing, awaiting_keyframe, video_chan, draining, drained,
                   audio_ring, take>>

-----------------------------------------------------------------------------

\* audio.rs push, for packets in order: old ones leave the window.
IntoRing(ring, packets) ==
    IF packets = <<>> THEN ring
    ELSE From(ring \o packets, LAMBDA b : b.ts >= Last(packets).ts - AudioWindow)

\* The recorder after a batch of frames of one kind.
Pushed(kind, r, frames) ==
    LET after[n \in 0..Len(frames)] ==
            IF n = 0 THEN r
            ELSE IF kind = "video" THEN PushVideo(after[n - 1], frames[n])
            ELSE PushAudio(after[n - 1], frames[n])
    IN  after[Len(frames)]

\* The open recorder is given frames.
Feed(kind, frames) ==
    /\ UNCHANGED <<status, trailer>>
    /\ recorder' = IF status = "open" THEN Pushed(kind, recorder, frames)
                   ELSE recorder
    /\ offered' = IF status = "open" THEN [offered EXCEPT ![kind] = @ \o frames]
                  ELSE offered

\* abort_recording finishes the file: the audio that is due, then the trailer;
\* if the audio cannot be written either, there is no trailer.
Abort(r) ==
    /\ status' = "broken"
    /\ \/ /\ recorder' = Finish(r)
          /\ trailer' = r.started
       \/ /\ r.started /\ FlushAudio(r).audio # r.audio
          /\ recorder' = [r EXCEPT !.pending_audio = <<>>]
          /\ trailer' = FALSE

\* A push fails: the recording is aborted, the rest of the batch has none.
FeedFails(kind, frames) ==
    /\ status = "open"
    /\ \E n \in 1..Len(frames) :
          LET before == Pushed(kind, recorder, SubSeq(frames, 1, n - 1))
              after == Pushed(kind, before, <<frames[n]>>)
              queue == before.pending_audio \o
                       (IF kind = "audio" THEN <<frames[n]>> ELSE <<>>)
              packets == Len(after.video \o after.audio) - Len(before.video \o before.audio)
          IN  \/ after.started /\ ~ before.started /\ Abort(before)   \* the header
              \/ \E written \in 0..packets - 1 :
                    Abort(PushFailing(before, queue, after, written))
    /\ UNCHANGED offered

\* drain_available, first half.
DrainAudio ==
    /\ capturing /\ ~ draining
    /\ draining' = TRUE
    /\ audio_chan' = <<>>
    /\ audio_ring' = IntoRing(audio_ring, audio_chan)
    /\ Feed("audio", audio_chan) \/ FeedFails("audio", audio_chan)
    /\ UNCHANGED <<session, video_chan>>

\* drain_available, second half.
DrainVideo ==
    /\ draining
    /\ draining' = FALSE
    /\ video_chan' = <<>>
    /\ drained' = IF video_chan = <<>> THEN drained ELSE Last(video_chan).id
    /\ Feed("video", video_chan) \/ FeedFails("video", video_chan)
    /\ UNCHANGED <<capturing, emitted, newest, awaiting_keyframe, audio_chan,
                   audio_ring>>

\* A fault: the recording starts without the audio already in the ring.
StartRecordingUnseeded ==
    /\ status # "open" /\ ~ draining
    /\ status' = "open"
    /\ trailer' = FALSE
    /\ recorder' = Started
    /\ offered' = [Nothing EXCEPT !.audio = audio_ring]
    /\ UNCHANGED <<session, video_chan, audio_chan, draining, audio_ring>>

\* start_recording: the recorder is given the audio of the last moments.
StartRecording ==
    /\ status # "open" /\ ~ draining
    /\ status' = "open"
    /\ trailer' = FALSE
    /\ LET seed == From(audio_ring, LAMBDA a : a.ts >= Last(audio_ring).ts - AudioPreroll)
       IN  /\ recorder' = Pushed("audio", Started, seed)
           /\ offered' = [Nothing EXCEPT !.audio = audio_ring]
    /\ UNCHANGED <<session, video_chan, audio_chan, draining, audio_ring>>

\* stop_recording; nothing is drained first.
StopRecording ==
    /\ status = "open" /\ ~ draining
    /\ status' = "finished"
    /\ recorder' = Finish(recorder)
    /\ trailer' = recorder.started
    /\ UNCHANGED <<offered, session, video_chan, audio_chan, draining, audio_ring>>

\* Engine::stop: the receivers go, with what is in them.
StopCapture ==
    /\ capturing /\ ~ draining
    /\ capturing' = FALSE
    /\ video_chan' = <<>>
    /\ audio_chan' = <<>>
    /\ UNCHANGED <<emitted, newest, awaiting_keyframe, draining, drained,
                   audio_ring, take>>

\* Engine::start, of this engine or of the one that adopted ring and recorder.
StartCapture ==
    /\ ~ capturing
    /\ capturing' = TRUE
    /\ awaiting_keyframe' = FALSE
    /\ drained' = 0
    /\ UNCHANGED <<emitted, newest, video_chan, audio_chan, draining, audio_ring,
                   take>>

RecordNext ==
    \/ /\ emitted.video < MaxVideo
       /\ \E dts \in VideoTimes, lead \in PtsLeads, key \in BOOLEAN :
             ForwardVideo([id |-> emitted.video + 1, key |-> key,
                           dts |-> dts, pts |-> dts + lead])
    \/ /\ emitted.audio < MaxAudio
       /\ \E ts \in AudioTimes : ForwardAudio([id |-> emitted.audio + 1, ts |-> ts])
    \/ DrainAudio \/ DrainVideo
    \/ StartRecording \/ StopRecording
    \/ StopCapture \/ StartCapture

RecordSpec == RecordInit /\ [][RecordNext]_recordVars

-----------------------------------------------------------------------------

IsVideo(f) == f \in [id : 1..MaxVideo, key : BOOLEAN, dts : Nat, pts : Nat]
IsAudio(a) == a \in [id : 1..MaxAudio, ts : AudioTimes]
All(Test(_), q) == \A i \in 1..Len(q) : Test(q[i])

\* The engine's and the recorder's state has the types the code declares.
RecordTypeOK ==
    /\ {capturing, awaiting_keyframe, draining} \subseteq BOOLEAN
    /\ {recorder.started, trailer} \subseteq BOOLEAN
    /\ Len(video_chan) <= VideoCap /\ All(IsVideo, video_chan)
    /\ Len(audio_chan) <= AudioCap /\ All(IsAudio, audio_chan)
    /\ drained \in 0..MaxVideo
    /\ All(IsAudio, audio_ring)
    /\ status \in {"none", "open", "finished", "broken"}
    /\ All(IsAudio, recorder.pending_audio)
    /\ {recorder.base, recorder.last_video_ms} \subseteq Nat
    /\ All(IsVideo, recorder.video)
    /\ All(LAMBDA p : p \in [id : 1..MaxAudio, dts : Nat], recorder.audio)

\* A delta frame comes right behind the frame it was encoded after.
Decodable(frames) ==
    \A i \in 1..Len(frames) :
        frames[i].key \/ (i > 1 /\ frames[i].id = frames[i - 1].id + 1)

\* Neither the ring nor a recording ever holds a headless GOP, although the
\* channel overflows, a recording starts in the middle of a GOP, and capture
\* is restarted (waycap_backend.rs:330 "admitting deltas after a dropped
\* keyframe would leave a headless (undecodable) GOP in the ring";
\* record.rs:133 "so the recording starts cleanly").
NoHeadlessGop ==
    /\ Decodable(recorder.video)
    /\ drained > 0 /\ video_chan # <<>> /\ ~ video_chan[1].key =>
           video_chan[1].id = drained + 1
    /\ \A i \in 2..Len(video_chan) :
           video_chan[i].key \/ video_chan[i].id = video_chan[i - 1].id + 1

Increasing(packets) ==
    \A i \in 2..Len(packets) : packets[i].dts > packets[i - 1].dts

\* The muxer never sees a timestamp that does not advance, or a frame shown
\* before it is decoded, whatever order frames are delivered in
\* (mux/stream.rs:176 "the muxer requires monotonic DTS").
TimestampsAdvance ==
    /\ Increasing(recorder.video) /\ Increasing(recorder.audio)
    /\ \A p \in ToSet(recorder.video) : p.pts >= p.dts

\* The file can be played from its first packet to its last, and one that is
\* called finished has its trailer.
FilePlays ==
    /\ NoHeadlessGop /\ TimestampsAdvance
    /\ status = "finished" /\ recorder.started => trailer

\* The sound is never ahead of the picture: not in a file being written, and
\* so not at its end (record.rs:238 "so both tracks end together").
AudioWithinVideo ==
    \A p \in ToSet(recorder.audio) : p.dts \in 0..recorder.last_video_ms

\* Every packet of audio the recording was given, from the ring when it
\* started or by a drain, that was captured between the first keyframe and the
\* newest frame is in the file, once and in order; unless it was held back for
\* longer than AudioPreroll, because the video stalled (record.rs:72 "dropping
\* it left recordings with a silent (and player-confusing) audio hole at the
\* start").
AudioComplete ==
    LET written == {p.id : p \in ToSet(recorder.audio)}
    IN  status \in {"open", "finished"} /\ recorder.started =>
        /\ \A i, j \in 1..Len(recorder.audio) :
              i < j => recorder.audio[i].id < recorder.audio[j].id
        /\ \A a \in ToSet(offered.audio) :
              AudioMs(a, recorder.base) \in 0..recorder.last_video_ms =>
                  \/ a.id \in written
                  \/ \E b \in ToSet(offered.audio) : b.ts - a.ts > AudioPreroll

\* Audio held back is bounded although the video may have stalled for good
\* (record.rs:76 "the queue must not grow for the life of the recording").
HeldAudioBounded ==
    LET held == recorder.pending_audio
    IN  held # <<>> => Last(held).ts - held[1].ts <= AudioPreroll

\* The sound of a recording is all that belongs to its picture, no more, and
\* what waits for a picture does not pile up.
AudioInPlace == AudioWithinVideo /\ AudioComplete /\ HeldAudioBounded

InOrder(frames) == \A i \in 2..Len(frames) : frames[i].dts > frames[i - 1].dts

\* The frames of the recording, and the file the clip muxer would make of them.
Recorded == LET first == SelectInSeq(offered.video, LAMBDA f : f.key)
            IN  SubSeq(offered.video, first, Len(offered.video))

\* Pushed frame by frame, the file is the one the clip muxer writes of the same
\* frames at once (record.rs:8 "exactly like the clip muxer, just incremental"):
\* the same video packets, and all of the clip's audio at the same times; where
\* frames came in order and no audio had to be given up.
LikeTheClipMuxer ==
    LET clip == ClipAudio(Recorded, offered.audio)
    IN  status = "finished" /\ recorder.started /\ InOrder(Recorded) =>
        /\ recorder.video = ClipVideo(Recorded)
        /\ \A p \in ToSet(recorder.audio), q \in ToSet(clip) : p.id = q.id => p = q
        /\ (\A a, b \in ToSet(offered.audio) : b.ts - a.ts <= AudioPreroll) =>
               ToSet(clip) \subseteq ToSet(recorder.audio)

=============================================================================
