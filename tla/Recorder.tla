------------------------------ MODULE Recorder ------------------------------
(***************************************************************************)
(* The streaming recorder (ord-core record.rs) as functions of its state:  *)
(* what a pushed frame does to the file and to the audio held back until   *)
(* the video has caught up, and what a push leaves whose write fails.      *)
(***************************************************************************)
EXTENDS Mux

CONSTANT AudioPreroll   \* AUDIO_PREROLL_US (and PREROLL_US of engine.rs)

ASSUME AudioPrerollAssumption == AudioPreroll \in Nat

\* Recorder::start: no header until the first keyframe.
Started ==
    [started |-> FALSE, base |-> 0, last_video_ms |-> 0,
     pending_audio |-> <<>>, video |-> <<>>, audio |-> <<>>]

\* write_header: the first keyframe anchors the timeline.
WriteHeader(r, f) ==
    [r EXCEPT !.started = TRUE, !.base = IF f.dts < f.pts THEN f.dts ELSE f.pts]

\* What a queue is when its front has gone up to the first that passes.
From(queue, Test(_)) ==
    LET first == SelectInSeq(queue, Test)
    IN  IF first = 0 THEN <<>> ELSE SubSeq(queue, first, Len(queue))

\* What is due is written one by one, but for what was captured before the
\* first keyframe.
WriteDue(packets, due, base) ==
    LET after[n \in 0..Len(due)] ==
            IF n = 0 THEN packets
            ELSE IF AudioMs(due[n], base) < 0 THEN after[n - 1]
            ELSE WriteAudio(after[n - 1], due[n], base)
    IN  after[Len(due)]

Flushed(r, held) ==
    LET due == SubSeq(r.pending_audio, 1, Len(r.pending_audio) - Len(held))
    IN  [r EXCEPT !.pending_audio = held, !.audio = WriteDue(@, due, r.base)]

\* A fault: audio at the very time of the newest frame is held back.
FlushAudioBefore(r) ==
    Flushed(r, From(r.pending_audio, LAMBDA a : AudioMs(a, r.base) >= r.last_video_ms))

\* flush_audio: the front of the queue up to the newest video.
FlushAudio(r) ==
    Flushed(r, From(r.pending_audio, LAMBDA a : AudioMs(a, r.base) > r.last_video_ms))

\* bound_pending_audio: only the newest AudioPreroll is held.
BoundPendingAudio(r) ==
    LET q == r.pending_audio
    IN  [r EXCEPT !.pending_audio = From(q, LAMBDA a : Last(q).ts - a.ts <= AudioPreroll)]

\* push_audio.
PushAudio(r, a) ==
    LET q == [r EXCEPT !.pending_audio = Append(@, a)]
    IN  BoundPendingAudio(IF r.started THEN FlushAudio(q) ELSE q)

\* push_video: frames before the first keyframe are dropped.
PushVideo(r, f) ==
    LET s == IF r.started THEN r ELSE WriteHeader(r, f)
        video == WriteVideo(s.video, f, s.base)
    IN  IF ~ r.started /\ ~ f.key THEN r
        ELSE FlushAudio([s EXCEPT !.video = video,
                                  !.last_video_ms = Later(@, Last(video).pts)])

\* A push that would have led to `after` fails to write a packet, the video
\* frame's or one of the audio it flushes, when `written` packets are in the
\* file.  That packet is lost; what follows it in the queue stays there.
PushFailing(before, queue, after, written) ==
    LET audio == SubSeq(after.audio, 1, Len(before.audio) + written -
                                        (Len(after.video) - Len(before.video)))
        lost == after.audio[Len(audio) + 1]
    IN  IF written = 0 /\ after.video # before.video
        THEN [before EXCEPT !.started = after.started, !.base = after.base]
        ELSE [after EXCEPT !.audio = audio,
                           !.pending_audio = From(queue, LAMBDA a : a.id > lost.id)]

\* finish: what is still held is behind the last frame and goes.
Finish(r) ==
    [(IF r.started THEN FlushAudio(r) ELSE r) EXCEPT !.pending_audio = <<>>]

=============================================================================
