----------------------------- MODULE ExportRun -----------------------------
(* One export of ord-export: the runner (execute and run_ffmpeg), the ffmpeg *)
(* child with the pipes it may leave to a grandchild, the progress channel,  *)
(* the user's cancellation and the file being written.                       *)
EXTENDS ExportPlan

CONSTANTS
    Jobs,      \* [profile, src, windows, cut]: `cut` when several windows are joined
    MaxLines   \* progress lines ffmpeg prints, at most

\* Speeds are clamped to a quarter and to double.
ASSUME JobsAssumption == \A j \in Jobs :
    /\ j.profile.speed \in 1..8 /\ j.profile.audio \in Nat /\ j.profile.rate.n \in Nat
    /\ j.src.secs \in Nat
    /\ j.windows \in Seq([start : Int, end : Int])
    /\ j.cut \in BOOLEAN

VARIABLES
    job,    \* what is exported
    run,    \* the runner: where it is, the attempt, its plan, whether it killed ffmpeg
    ffmpeg, \* the child: its state, how it ended, whether its pipes are open
    lines,  \* progress lines not yet received
    cancel, \* the flag the user sets
    file,   \* the output: absent, from an earlier export, partly written or complete
    result  \* what the caller gets, "none" until then

vars == <<job, run, ffmpeg, lines, cancel, file, result>>

Pipes == {"out", "err"} \* progress and diagnostics
Stages == {"probe", "folder", "build", "spawn", "progress", "grace", "wait", "join", "stat",
           "remove", "done"}
Failures == {"probe", "folder", "trim", "zero", "no audio", "io", "spawn", "waitpid", "cancelled",
             "ffmpeg", "missing"}

TypeOK ==
    /\ job \in Jobs
    /\ run.stage \in Stages
    /\ {run.hw, run.killed, run.plan.ok, run.plan.hw} \subseteq BOOLEAN
    /\ ffmpeg \in [state : {"none", "starting", "writing", "ended"},
                   status : {"none", "ok", "encoder", "other", "killed"},
                   pipes : SUBSET Pipes]
    /\ lines \in 0..MaxLines
    /\ cancel \in BOOLEAN
    /\ file \in {"absent", "earlier", "partial", "complete"}
    /\ result \in {"none", "ok"} \cup Failures

NoChild == [state |-> "none", status |-> "none", pipes |-> {}]

-----------------------------------------------------------------------------
Build(hw) ==
    IF job.cut THEN BuildSegmentsPlan(job.profile, job.src, job.windows, hw)
    ELSE BuildPlan(job.profile, job.src, job.windows, hw)

At(stage) == run.stage = stage
Goto(stage) == run' = [run EXCEPT !.stage = stage]

\* An error before the phase that may write leaves the output alone.
Return(why) == Goto("done") /\ result' = why
\* A fault: the output of a failed export stays.
FailKeeps(why) == Goto("done") /\ result' = why
\* An error in it removes the output.
Fail(why) == Goto("remove") /\ result' = why

Probe ==
    /\ At("probe")
    /\ \/ Goto("folder") /\ UNCHANGED result
       \/ Return("probe")
    /\ UNCHANGED <<job, ffmpeg, lines, cancel, file>>

MakeFolder ==
    /\ At("folder")
    /\ \/ Goto("build") /\ UNCHANGED result
       \/ Return("folder")
    /\ UNCHANGED <<job, ffmpeg, lines, cancel, file>>

Plan ==
    /\ At("build")
    /\ LET plan == Build(run.hw) IN
        IF plan.ok THEN run' = [run EXCEPT !.plan = plan, !.stage = "spawn"] /\ UNCHANGED result
        ELSE Fail(plan.why)
    /\ UNCHANGED <<job, ffmpeg, lines, cancel, file>>

Spawn ==
    /\ At("spawn")
    /\ \/ /\ ffmpeg' = [state |-> "starting", status |-> "none", pipes |-> Pipes]
          /\ lines' = 0
          /\ run' = [run EXCEPT !.stage = "progress", !.killed = FALSE]
          /\ UNCHANGED result
       \/ Fail("spawn") /\ UNCHANGED <<ffmpeg, lines>>
    /\ UNCHANGED <<job, cancel, file>>

-----------------------------------------------------------------------------
(* The two loops of run_ffmpeg; both look at the flag before they wait.      *)
Unasked == ~cancel \/ run.killed
Alive == ffmpeg.state \in {"starting", "writing"}
\* Its pipes close with it, unless a grandchild holds them.
Ends(status) ==
    \E held \in {{}, ffmpeg.pipes} :
        ffmpeg' = [state |-> "ended", status |-> status, pipes |-> held]

\* A fault: the flag is not looked at once the progress has ended.
KillInLoop ==
    /\ run.stage \in {"progress", "grace"} /\ ~Unasked
    /\ run' = [run EXCEPT !.killed = TRUE]
    /\ IF Alive THEN Ends("killed") ELSE UNCHANGED ffmpeg
    /\ UNCHANGED <<job, lines, cancel, file, result>>

Kill ==
    /\ run.stage \in {"progress", "grace", "wait"} /\ ~Unasked
    /\ run' = [run EXCEPT !.killed = TRUE]
    /\ IF Alive THEN Ends("killed") ELSE UNCHANGED ffmpeg
    /\ UNCHANGED <<job, lines, cancel, file, result>>

Receive ==
    /\ run.stage \in {"progress", "grace"} /\ Unasked /\ lines > 0
    /\ lines' = lines - 1
    /\ UNCHANGED <<job, run, ffmpeg, cancel, file, result>>

\* The reader thread dropped its end of the channel: the pipe is closed.
Disconnected ==
    /\ run.stage \in {"progress", "grace"} /\ Unasked
    /\ lines = 0 /\ "out" \notin ffmpeg.pipes
    /\ Goto("wait")
    /\ UNCHANGED <<job, ffmpeg, lines, cancel, file, result>>

\* A timeout that finds ffmpeg dead starts the grace for lines in flight.
NoticeExit ==
    /\ At("progress") /\ Unasked /\ lines = 0
    /\ ~Alive
    /\ Goto("grace")
    /\ UNCHANGED <<job, ffmpeg, lines, cancel, file, result>>

GraceOver ==
    /\ At("grace") /\ Unasked /\ lines = 0
    /\ Goto("wait")
    /\ UNCHANGED <<job, ffmpeg, lines, cancel, file, result>>

Reap ==
    /\ At("wait") /\ Unasked /\ ~Alive
    /\ IF run.killed THEN Fail("cancelled") ELSE (Goto("join") /\ UNCHANGED result)
    /\ UNCHANGED <<job, ffmpeg, lines, cancel, file>>

WaitFails ==
    /\ At("wait") /\ Unasked
    /\ Fail("waitpid")
    /\ UNCHANGED <<job, ffmpeg, lines, cancel, file>>

\* The stderr of a child that was not killed is read to its end; only a
\* failure of the hardware encoder is worth a second, software attempt.
Join ==
    /\ At("join") /\ "err" \notin ffmpeg.pipes
    /\ CASE ffmpeg.status = "ok" -> Goto("stat") /\ UNCHANGED result
         [] /\ ffmpeg.status = "encoder"
            /\ run.plan.hw /\ run.hw /\ Reencodes(job.profile) ->
                run' = [run EXCEPT !.stage = "build", !.hw = FALSE] /\ UNCHANGED result
         [] OTHER -> Fail("ffmpeg")
    /\ UNCHANGED <<job, ffmpeg, lines, cancel, file>>

Stat ==
    /\ At("stat")
    /\ IF file = "absent" THEN Fail("missing") ELSE Return("ok")
    /\ UNCHANGED <<job, ffmpeg, lines, cancel, file>>

Remove ==
    /\ At("remove")
    /\ file' = "absent" /\ Goto("done")
    /\ UNCHANGED <<job, ffmpeg, lines, cancel, result>>

-----------------------------------------------------------------------------
(* ffmpeg, the grandchild and the user.                                      *)
Opens ==
    /\ ffmpeg.state = "starting"
    /\ ffmpeg' = [ffmpeg EXCEPT !.state = "writing"] /\ file' = "partial"
    /\ UNCHANGED <<job, run, lines, cancel, result>>

Prints ==
    /\ Alive /\ "out" \in ffmpeg.pipes /\ lines < MaxLines
    /\ lines' = lines + 1
    /\ UNCHANGED <<job, run, ffmpeg, cancel, file, result>>

StopsPrinting ==
    /\ Alive /\ "out" \in ffmpeg.pipes
    /\ ffmpeg' = [ffmpeg EXCEPT !.pipes = @ \ {"out"}]
    /\ UNCHANGED <<job, run, lines, cancel, file, result>>

Completes ==
    /\ ffmpeg.state = "writing" /\ Muxable(run.plan)
    /\ Ends("ok")
    /\ file' = IF file = "partial" THEN "complete" ELSE file
    /\ UNCHANGED <<job, run, lines, cancel, result>>

Breaks ==
    /\ Alive
    /\ \/ Ends("other")
       \/ run.plan.hw /\ Ends("encoder")
    /\ UNCHANGED <<job, run, lines, cancel, file, result>>

OrphanEnds ==
    /\ ffmpeg.state = "ended" /\ ffmpeg.pipes # {}
    /\ ffmpeg' = [ffmpeg EXCEPT !.pipes = {}]
    /\ UNCHANGED <<job, run, lines, cancel, file, result>>

Cancel ==
    /\ ~cancel /\ cancel' = TRUE
    /\ UNCHANGED <<job, run, ffmpeg, lines, file, result>>

\* The library may delete what it lists while it is written.
DeleteOutput ==
    /\ ~At("done") /\ file # "absent" /\ file' = "absent"
    /\ UNCHANGED <<job, run, ffmpeg, lines, cancel, result>>

-----------------------------------------------------------------------------
Init ==
    /\ job \in Jobs
    /\ run = [stage |-> "probe", hw |-> TRUE, killed |-> FALSE, plan |-> Refused("none")]
    /\ ffmpeg = NoChild
    /\ lines = 0
    /\ cancel = FALSE
    /\ file \in {"absent", "earlier"}
    /\ result = "none"

Runner ==
    \/ Probe \/ MakeFolder \/ Plan \/ Spawn \/ Kill \/ Receive \/ Disconnected \/ NoticeExit
    \/ GraceOver \/ Reap \/ WaitFails \/ Join \/ Stat \/ Remove
Process == Opens \/ Prints \/ StopsPrinting \/ Completes \/ Breaks \/ OrphanEnds
Returned == At("done") /\ UNCHANGED vars

Next == Runner \/ Process \/ Cancel \/ DeleteOutput \/ Returned

\* The runner keeps running; ffmpeg may hang and a grandchild may never end.
Fairness == WF_vars(Runner)
Spec == Init /\ [][Next]_vars /\ Fairness

-----------------------------------------------------------------------------
(* Properties.                                                               *)

\* What the caller is told is what the folder holds: after a success a whole
\* file that no one writes any more, after a failure none, unless ffmpeg was
\* never planned and the output is what it was (execute; not when the
\* operating system will not say whether ffmpeg ended).
NothingBroken ==
    At("done") /\ result # "waitpid" =>
        /\ ~Alive
        /\ CASE result = "ok" -> file = "complete"
             [] result \in {"probe", "folder"} -> file \in {"absent", "earlier"}
             [] OTHER -> file = "absent"

\* An export that is cancelled returns, however ffmpeg hangs and whatever holds
\* its pipes (the flag is polled in both loops of run_ffmpeg); but a flag set
\* while the errors of an ended ffmpeg are read waits for a grandchild.
CancelEnds == cancel /\ ~At("join") ~> At("done")

\* A size target holds unless the bitrate is at its floor; joined windows played
\* slower are a known exception.
TargetMet(plan) ==
    job.profile.rate.mode = "target" /\ plan.rate.cap > Floor
        /\ (~job.cut \/ job.profile.speed >= 4) =>
            /\ AtMostKbits(plan, job.src) <= KbitsOf(job.profile.rate.n)
            /\ plan.sound.codec # "copied opus"

\* Sound and picture have one length down to half speed, the container takes the
\* tracks, and hardware encodes only where it may.
TracksFit(plan) ==
    /\ plan.sound.codec # "none" /\ plan.codec # "none" /\ plan.speed >= 2 =>
            SoundSecs(plan, job.src) = VideoSecs(plan, job.src)
    /\ Muxable(plan)
    /\ plan.hw => job.profile.hardware

\* A success is the file that was asked for (build_plan and build_segments_plan).
FileAsAsked == At("done") /\ result = "ok" => TargetMet(run.plan) /\ TracksFit(run.plan)

=============================================================================
