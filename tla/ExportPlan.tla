----------------------------- MODULE ExportPlan -----------------------------
(* The export planner of ord-export: a profile, what ffprobe says of the     *)
(* source and the windows to keep make the ffmpeg invocation, or an error.   *)
(* A plan keeps what decides the file's tracks, length and size; picture     *)
(* size, frame rate and pixel format are left out.  Speeds are in quarters   *)
(* (4 is 1x), times in seconds, sizes and rates in kbit and kbit per second. *)
EXTENDS Integers, Sequences

Quality == [mode |-> "quality", n |-> 0]
Bitrate(kbps) == [mode |-> "bitrate", n |-> kbps]
TargetSize(mib) == [mode |-> "target", n |-> mib]
Copy == [mode |-> "copy", n |-> 0]

-----------------------------------------------------------------------------
(* The presets and what the two front ends make of them.                     *)
HighQuality ==
    [codec |-> "av1", container |-> "mp4", rate |-> Quality, hardware |-> TRUE,
     audio |-> 192, mute |-> FALSE, output |-> "video", normalize |-> FALSE, speed |-> 4]
Discord == [HighQuality EXCEPT !.rate = TargetSize(9), !.audio = 128]
Vertical == [HighQuality EXCEPT !.codec = "h264", !.audio = 128]
XTwitter == Vertical \* they differ in the picture's size alone
Hq1080p60 == [HighQuality EXCEPT !.codec = "hevc", !.audio = 160]
AudioOnly == [HighQuality EXCEPT !.output = "audio", !.hardware = FALSE]
Gif == [HighQuality EXCEPT !.output = "gif", !.hardware = FALSE, !.audio = 0, !.mute = TRUE]
Source == [HighQuality EXCEPT !.container = "mkv", !.rate = Copy, !.hardware = FALSE, !.audio = 0]

Presets == {HighQuality, Discord, XTwitter, Hq1080p60, AudioOnly, Gif, Source}

\* run_export of the library: the editor's mute and speed over a preset.
UiProfile(preset, mute, speed) == [preset EXCEPT !.mute = mute, !.speed = speed]

\* `ord export`: what the flags override; an empty set is a flag not given.
Chosen(flag, was) == IF flag = {} THEN was ELSE CHOOSE v \in flag : TRUE
CliProfile(preset, flags) ==
    [preset EXCEPT !.container = Chosen(flags.container, @),
                   !.rate = Chosen(flags.rate, @),
                   !.hardware = Chosen(flags.hardware, @),
                   !.normalize = Chosen(flags.normalize, @)]

-----------------------------------------------------------------------------
Length(t) == IF t.end > t.start THEN t.end - t.start ELSE 0
Valid(t) == t.start >= 0 /\ t.end > t.start
Lasting(windows) ==
    LET upTo[n \in 0..Len(windows)] == IF n = 0 THEN 0 ELSE upTo[n - 1] + Length(windows[n])
    IN  upTo[Len(windows)]

Reencodes(profile) == profile.output = "video" /\ (profile.rate # Copy \/ profile.speed # 4)

\* atempo cannot go below one half.
Tempo(speed) == IF speed < 2 THEN 2 ELSE speed
AtSpeed(secs, speed) == (4 * secs) \div speed

Floor == 100
KbitsOf(mib) == 8388 * mib
BudgetOf(mib) == 7717 * mib \* 92% of it
TargetKbps(mib, secs, sounds, audio) ==
    LET kbps == (BudgetOf(mib) - (IF sounds THEN audio * secs ELSE 0)) \div secs
    IN  IF secs <= 0 \/ kbps < Floor THEN Floor ELSE kbps

\* rate_control_args: the average and the hard cap, 0 where there is none.
RateArgs(rate, secs, sounds, audio) ==
    CASE rate.mode = "bitrate" -> [kbps |-> rate.n, cap |-> (3 * rate.n) \div 2]
      [] rate.mode = "target" ->
            LET kbps == TargetKbps(rate.n, secs, sounds, audio) IN [kbps |-> kbps, cap |-> kbps]
      [] OTHER -> [kbps |-> 0, cap |-> 0]

NoSound == [codec |-> "none", kbps |-> 0, speed |-> 4]
AudioKbps(profile) == IF profile.audio < 1 THEN 1 ELSE profile.audio
CodecFor(container) == IF container = "mp4" THEN "aac" ELSE "opus"
Filtered(profile) == profile.speed # 4 \/ profile.normalize
AudioArgs(profile, src) ==
    IF profile.mute \/ src.audio = "none" THEN NoSound
    ELSE IF /\ profile.container = "mkv" /\ src.audio = "opus"
            /\ profile.rate.mode # "target" /\ ~Filtered(profile)
    THEN [codec |-> "copied opus", kbps |-> 0, speed |-> 4]
    ELSE [codec |-> CodecFor(profile.container), kbps |-> AudioKbps(profile), speed |-> Tempo(profile.speed)]

Refused(why) == [ok |-> FALSE, why |-> why, hw |-> FALSE]
Planned(container, windows, speed, codec, hw, rate, sound) ==
    [ok |-> TRUE, container |-> container, windows |-> windows, speed |-> speed, codec |-> codec,
     hw |-> hw, rate |-> rate, sound |-> sound, strict |-> FALSE]
Unrated == [kbps |-> 0, cap |-> 0]

\* A fault: the bitrate of a target is that of the source's length.
PlanAtSourceSpeed(profile, src, trim, useHw) ==
    LET windows == IF trim = << >> THEN <<[start |-> 0, end |-> src.secs]>> ELSE trim IN
    Planned(profile.container, windows, profile.speed, profile.codec, profile.hardware /\ useHw,
            RateArgs(profile.rate, Lasting(windows), src.audio # "none", profile.audio),
            AudioArgs(profile, src))

\* build_plan: a whole clip, or one window of it.
BuildPlan(profile, src, trim, useHw) ==
    LET windows == IF trim = << >> THEN <<[start |-> 0, end |-> src.secs]>> ELSE trim
        copied == IF src.audio = "opus" THEN "copied opus" ELSE src.audio
        Copied == [codec |-> copied, kbps |-> 0, speed |-> 4]
        sound == IF profile.mute \/ src.audio = "none" THEN NoSound ELSE Copied
        Encoded == [codec |-> CodecFor(profile.container), kbps |-> AudioKbps(profile), speed |-> 4]
    IN  IF trim # << >> /\ ~Valid(trim[1]) THEN Refused("trim")
        ELSE IF Lasting(windows) <= 0 THEN Refused("zero")
        ELSE IF profile.output = "gif"
        THEN Planned("gif", windows, 4, "gif", FALSE, Unrated, NoSound)
        ELSE IF profile.output = "audio"
        THEN IF src.audio = "none" THEN Refused("no audio")
             ELSE Planned(profile.container, windows, 4, "none", FALSE, Unrated, Encoded)
        ELSE IF ~Reencodes(profile)
        THEN [Planned(profile.container, windows, 4, "copy", FALSE, Unrated, sound) EXCEPT
                !.strict = ~profile.mute /\ profile.container = "mp4" /\ src.audio = "opus"]
        ELSE Planned(profile.container, windows, profile.speed, profile.codec,
                     profile.hardware /\ useHw,
                     RateArgs(profile.rate, AtSpeed(Lasting(windows), profile.speed),
                              src.audio # "none", profile.audio),
                     AudioArgs(profile, src))

\* build_segments_plan: several windows, joined by the concat filter.
BuildSegmentsPlan(profile, src, windows, useHw) ==
    LET sounds == src.audio # "none" /\ ~profile.mute IN
    IF \/ windows = << >> \/ \E i \in DOMAIN windows : ~Valid(windows[i])
       \/ \E i \in 2..Len(windows) : windows[i].start < windows[i - 1].end
    THEN Refused("trim")
    ELSE IF profile.output # "video" \/ ~Reencodes(profile) THEN Refused("io")
    ELSE Planned(profile.container, windows, profile.speed, profile.codec,
                 profile.hardware /\ useHw,
                 RateArgs(profile.rate, Lasting(windows), sounds, profile.audio),
                 IF ~sounds THEN NoSound
                 ELSE [codec |-> CodecFor(profile.container), kbps |-> AudioKbps(profile),
                       speed |-> Tempo(profile.speed)])

-----------------------------------------------------------------------------
(* What ffmpeg makes of a plan.                                              *)
Within(windows, src) == [i \in DOMAIN windows |->
    [start |-> windows[i].start, end |-> IF windows[i].end > src.secs THEN src.secs ELSE windows[i].end]]
VideoSecs(plan, src) == AtSpeed(Lasting(Within(plan.windows, src)), plan.speed)
SoundSecs(plan, src) == AtSpeed(Lasting(Within(plan.windows, src)), plan.sound.speed)
AtMostKbits(plan, src) == VideoSecs(plan, src) * plan.rate.cap + SoundSecs(plan, src) * plan.sound.kbps
\* The MP4 muxer takes Opus only when told to.
Muxable(plan) == plan.sound.codec = "copied opus" /\ plan.container = "mp4" => plan.strict
=============================================================================
