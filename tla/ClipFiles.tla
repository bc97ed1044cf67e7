------------------------------ MODULE ClipFiles ------------------------------
(* The files ordd writes (ord-daemon main.rs, storage.rs; ord-core mux.rs):  *)
(* clips that are saved, screenshots and a recording, named by a template    *)
(* and the second they begin in; and the prune of old ones after a save.     *)
(* The folders a template makes and the game's name are left out.            *)
(* Named FilesSpec, as the daemon's proofs extend CaptureControl beside it.  *)
EXTENDS Bitstream, FiniteSets, FiniteSetsExt

CONSTANTS
    Savers,   \* connections that save a clip
    Units,    \* the keyframes a clip may begin with: [codec, parts, data]
    RecToken, \* the template holds {rec}
    OwnDir,   \* storage.recordings_dir is set
    Grace,    \* PRUNE_GRACE_SECS
    MaxAge, MaxTotal, \* the storage policy: age in seconds, size in files
    MaxClock, MaxFiles, MaxSuffix \* bounds: time, files begun, names tried

ASSUME ClipFilesAssumption ==
    /\ {Grace, MaxAge, MaxTotal, MaxClock, MaxFiles, MaxSuffix} \subseteq Nat
    /\ MaxFiles <= MaxSuffix + 1
    /\ {RecToken, OwnDir} \subseteq BOOLEAN

VARIABLES
    clock,     \* epoch_secs
    files,     \* path -> the file there
    savers,    \* connection -> how far its save is
    shot,      \* the screenshot writer
    recording, \* the recording's file, when it was written, and as history
               \* whether that was ever longer ago than Grace
    lost,      \* history: a finished file was overwritten
    begun      \* files begun so far, bounds

filesVars == <<clock, files, savers, shot, recording, lost, begun>>

Idle == [stage |-> "idle"]

-----------------------------------------------------------------------------
(* Names.                                                                    *)
Exists(p) == p \in DOMAIN files
Whole(p) == Exists(p) /\ files[p].state = "whole"

\* render_name: {epoch}, and {rec} when the template has it.
RenderName(kind) == <<clock, RecToken /\ kind = "recording">>

\* recordings_dir: that of clips unless it is set.
Dir(kind) == IF OwnDir /\ kind = "recording" THEN "recordings" ELSE "clips"

\* unique_path: the first suffix nothing is named by.
UniquePath(kind, ext) ==
    LET Name(n) == [dir |-> Dir(kind), stem |-> RenderName(kind), n |-> n, ext |-> ext]
        free == {n \in 0..MaxSuffix : ~Exists(Name(n))}
    IN  Name(CHOOSE n \in free : \A m \in free : n <= m)

Begin == begun < MaxFiles /\ begun' = begun + 1

Removed(p) == files' = Restrict(files, DOMAIN files \ {p})
Replaced(gone, p, state, size) ==
    LET Written == [state |-> state, mtime |-> clock, size |-> size]
    IN  files' = [q \in (DOMAIN files \ gone) \cup {p} |-> IF q = p THEN Written ELSE files[q]]
Now(p, state, size) == Replaced({}, p, state, size)

\* format::output truncates what is there.
Opened(p) ==
    /\ Now(p, "open", 0)
    /\ lost' = (lost \/ Whole(p))

-----------------------------------------------------------------------------
(* Saving a clip, under the clip writer's lock.                              *)
Locked == \E s \in Savers : savers[s] # Idle
Step(s, to) == savers' = [savers EXCEPT ![s] = to]
SaverAt(s, stage) == savers[s].stage = stage
Clip(s) == savers[s].path

\* A fault: the writer is not locked.
SaveUnlocked(s) ==
    /\ savers[s] = Idle /\ Begin
    /\ Step(s, [stage |-> "named", path |-> UniquePath("clip", "mkv")])
    /\ UNCHANGED <<clock, files, shot, recording, lost>>

Save(s) ==
    /\ ~Locked /\ Begin
    /\ Step(s, [stage |-> "named", path |-> UniquePath("clip", "mkv")])
    /\ UNCHANGED <<clock, files, shot, recording, lost>>

\* write_clip: the file is there before the keyframe is looked at.
OpenClip(s) ==
    /\ SaverAt(s, "named")
    /\ Opened(Clip(s))
    /\ \E u \in Units :
        Step(s, IF Extradata(u.codec, u.data) = << >> THEN Idle
                ELSE [stage |-> "opened", path |-> Clip(s), unit |-> u])
    /\ UNCHANGED <<clock, shot, recording, begun>>

\* Header, packets and trailer; a write that fails leaves the file.
WriteClip(s) ==
    /\ SaverAt(s, "opened")
    /\ \/ Now(Clip(s), "whole", 1) /\ Step(s, [stage |-> "written", path |-> Clip(s)])
       \/ Now(Clip(s), "broken", 1) /\ Step(s, Idle)
    /\ UNCHANGED <<clock, shot, recording, lost, begun>>

\* verify_clip: what cannot be read back is removed. Then the hook.
VerifyClip(s) ==
    /\ SaverAt(s, "written")
    /\ \/ Step(s, [stage |-> "verified", path |-> Clip(s)]) /\ UNCHANGED files
       \/ Removed(Clip(s)) /\ Step(s, Idle)
    /\ UNCHANGED <<clock, shot, recording, lost, begun>>

-----------------------------------------------------------------------------
(* The prune of a save.                                                      *)

\* A fault: files that were just written are candidates.
PruneCandidatesOfAll == {p \in DOMAIN files : p.ext # "png"}

\* prune_candidates of both folders, and what prune_library retains of them.
PruneCandidates ==
    {p \in DOMAIN files : p.ext # "png" /\ files[p].mtime + Grace < clock}

SizeOf(paths) == FoldSet(LAMBDA p, sum : sum + files[p].size, 0, paths)
TooOld(p) == files[p].mtime + MaxAge < clock
OldestFirst(paths) == SetToSortSeq(paths, LAMBDA p, q : files[p].mtime < files[q].mtime)

\* A fault: one file more goes than has to.
PlanPruneOneMore(paths) ==
    LET kept == OldestFirst({p \in paths : ~TooOld(p)})
        Fits(n) == SizeOf(ToSet(SubSeq(kept, n + 1, Len(kept)))) < MaxTotal
        enough == {n \in 0..Len(kept) : Fits(n)}
        drop == IF enough = {} THEN Len(kept) ELSE Min(enough)
    IN  {p \in paths : TooOld(p)} \cup ToSet(SubSeq(kept, 1, drop))

\* plan_prune: what is too old, then the oldest until the rest fits.
PlanPrune(paths) ==
    LET kept == OldestFirst({p \in paths : ~TooOld(p)})
        Fits(n) == SizeOf(ToSet(SubSeq(kept, n + 1, Len(kept)))) <= MaxTotal
        dropped == SubSeq(kept, 1, Min({n \in 0..Len(kept) : Fits(n)}))
    IN  {p \in paths : TooOld(p) \/ p \in ToSet(dropped)}

ListOld(s) ==
    /\ SaverAt(s, "verified")
    /\ Step(s, [stage |-> "prune", path |-> Clip(s), doomed |-> PlanPrune(PruneCandidates)])
    /\ UNCHANGED <<clock, files, shot, recording, lost, begun>>

\* prune_library removes one after the other; one that is gone is reported.
PruneNext(s) ==
    /\ SaverAt(s, "prune")
    /\ \E p \in savers[s].doomed :
        /\ Removed(p)
        /\ Step(s, [savers[s] EXCEPT !.doomed = @ \ {p}])
    /\ UNCHANGED <<clock, shot, recording, lost, begun>>

\* The path goes to the client and to the subscribers.
Saved(s) ==
    /\ SaverAt(s, "prune") /\ savers[s].doomed = {}
    /\ Step(s, Idle)
    /\ UNCHANGED <<clock, files, shot, recording, lost, begun>>

-----------------------------------------------------------------------------
(* A screenshot: the newest GOP in a file of its own, read by ffmpeg.        *)
Gop == [shot.path EXCEPT !.ext = "gop.mkv"]

Screenshot ==
    /\ shot = Idle /\ Begin
    /\ shot' = [stage |-> "named", path |-> UniquePath("clip", "png")]
    /\ UNCHANGED <<clock, files, savers, recording, lost>>

WriteGop ==
    /\ shot.stage = "named"
    /\ \/ Now(Gop, "whole", 1) /\ shot' = [shot EXCEPT !.stage = "gop"]
       \/ Now(Gop, "broken", 0) /\ shot' = Idle
    /\ UNCHANGED <<clock, savers, recording, lost, begun>>

ExtractPng ==
    /\ shot.stage = "gop"
    /\ \/ Replaced({Gop}, shot.path, "whole", 1)
       \/ Removed(Gop)
    /\ lost' = (lost \/ Whole(shot.path))
    /\ shot' = Idle
    /\ UNCHANGED <<clock, savers, recording, begun>>

-----------------------------------------------------------------------------
(* A recording, named and opened under the handler lock, not the writer's.   *)
NameRecording ==
    /\ recording = Idle /\ Begin
    /\ recording' = [stage |-> "named", path |-> UniquePath("recording", "mkv")]
    /\ UNCHANGED <<clock, files, savers, shot, lost>>

OpenRecording ==
    /\ recording.stage = "named"
    /\ Opened(recording.path)
    /\ recording' = [stage |-> "open", path |-> recording.path, written |-> clock, stalled |-> FALSE]
    /\ UNCHANGED <<clock, savers, shot, begun>>

\* A file that was pruned is written on, by no name.
RecordingWrites(state) ==
    IF Exists(recording.path) THEN Now(recording.path, state, 1) ELSE UNCHANGED files

\* It has nothing to write while no frame comes (the watchdog stands down when
\* the rate follows the content).
WriteRecording ==
    /\ recording.stage = "open" /\ recording.written < clock
    /\ RecordingWrites("open")
    /\ recording' = [recording EXCEPT !.written = clock]
    /\ UNCHANGED <<clock, savers, shot, lost, begun>>

FinishRecording ==
    /\ recording.stage = "open"
    /\ RecordingWrites("whole")
    /\ recording' = Idle
    /\ UNCHANGED <<clock, savers, shot, lost, begun>>

-----------------------------------------------------------------------------
InUse ==
    {Clip(s) : s \in {t \in Savers : savers[t].stage \in {"opened", "written", "verified", "prune"}}}
        \cup (IF shot.stage = "gop" THEN {Gop} ELSE {})
        \cup (IF recording.stage = "open" THEN {recording.path} ELSE {})

Named ==
    {Clip(s) : s \in {t \in Savers : SaverAt(t, "named")}}
        \cup {x.path : x \in {y \in {shot, recording} : y.stage = "named"}}

\* The file of an open recording.
OfRecording(p) == recording.stage = "open" /\ p = recording.path

\* What is named is opened, and a clip or screenshot written, within Grace.
Tick ==
    /\ clock < MaxClock
    /\ \A p \in Named : clock < p.stem[1] + Grace
    /\ \A p \in {q \in InUse : ~OfRecording(q)} : clock < files[p].mtime + Grace
    /\ clock' = clock + 1
    /\ recording' =
          IF recording.stage = "open" /\ clock >= recording.written + Grace
            THEN [recording EXCEPT !.stalled = TRUE] ELSE recording
    /\ UNCHANGED <<files, savers, shot, lost, begun>>

\* The user deletes a file in the library, not one that is being written.
Delete ==
    /\ \E p \in DOMAIN files \ InUse : Whole(p) /\ Removed(p)
    /\ UNCHANGED <<clock, savers, shot, recording, lost, begun>>

FilesInit ==
    /\ clock = 0 /\ begun = 0 /\ lost = FALSE
    /\ files = << >>
    /\ savers = [s \in Savers |-> Idle] /\ shot = Idle /\ recording = Idle

FilesNext ==
    \/ \E s \in Savers : Save(s) \/ OpenClip(s) \/ WriteClip(s) \/ VerifyClip(s)
                         \/ ListOld(s) \/ PruneNext(s) \/ Saved(s)
    \/ Screenshot \/ WriteGop \/ ExtractPng
    \/ NameRecording \/ OpenRecording \/ WriteRecording \/ FinishRecording
    \/ Tick \/ Delete

FilesSpec == FilesInit /\ [][FilesNext]_filesVars

-----------------------------------------------------------------------------
(* Properties.                                                               *)

\* No clip, screenshot or recording overwrites another, although names are
\* chosen by what exists and files are opened later (unique_path: two saves in
\* one second would silently overwrite), where the template has {rec} or
\* recordings have a folder of their own; else a clip and a recording of one
\* second may share a name.
NothingOverwritten == ~lost

\* The prune takes neither a clip that is being saved or reported, nor a
\* screenshot's GOP, nor the file of a recording that was written all along,
\* although it removes what it listed some time before (PRUNE_GRACE_SECS). Of
\* a recording that ever went without a write for longer than the grace this
\* is not so, nor is it promised that it goes on after the frames came back.
InUseSpared ==
    \A p \in InUse : Exists(p) \/ (OfRecording(p) /\ recording.stalled)

\* What a prune plans among the files older than the grace: everything too
\* old, and of the others the oldest, as many as bring the rest of them under
\* the budget and not one more. So the budget is not that of the whole library
\* (config.rs:318), and finished recordings go like clips, from a folder of
\* their own too (main.rs:288), although config.rs:310 says they never do.
PlanIsLeast ==
    \A s \in Savers : SaverAt(s, "verified") =>
        LET all == PruneCandidates
            doomed == PlanPrune(all)
            old == {p \in all : TooOld(p)}
        IN  /\ old \subseteq doomed /\ doomed \subseteq all
            /\ SizeOf(all \ doomed) <= MaxTotal
            /\ \A p \in doomed \ old :
                /\ \A q \in all \ doomed : files[p].mtime <= files[q].mtime
                /\ (\A q \in doomed \ old : files[q].mtime <= files[p].mtime) =>
                       SizeOf((all \ doomed) \cup {q \in doomed \ old : files[q].mtime = files[p].mtime})
                           > MaxTotal

\* A reader of the packet: length by length.
Prefixed(bytes) ==
    LET from[i \in 1..Len(bytes) + 1] ==
            IF i > Len(bytes) THEN << >>
            ELSE <<SubSeq(bytes, i + 4, i + 3 + bytes[i + 3])>> \o from[i + 4 + bytes[i + 3]]
    IN  from[1]

\* Nothing of a keyframe is changed between encoder and file, and of HEVC and
\* AV1 nothing is lost: each of its parts is in the packet, in order, or it is
\* a parameter set and in the codec's configuration ("they live in extradata
\* instead", bitstream.rs:96). Of H.264 only the first SPS and the first PPS
\* are there; any other is in neither. A keyframe that has none fails the save.
PartsKept ==
    \A s \in Savers : SaverAt(s, "opened") =>
        LET u == savers[s].unit
            conf == Extradata(u.codec, u.data)
            packet == PacketPayload(u.codec, u.data)
            sets == SelectSeq(u.parts, LAMBDA nal : IsParameterSet(u.codec, nal))
            First(i) == \A j \in 1..(i - 1) : NalType(u.codec, sets[j]) # NalType(u.codec, sets[i])
        IN  IF u.codec = "av1"
            THEN Obus(packet) = u.parts /\ conf[1] \in ToSet(u.parts)
            ELSE /\ Prefixed(packet) = SelectSeq(u.parts, LAMBDA nal : nal \notin ToSet(sets))
                 /\ ToSet(conf) = {sets[i] : i \in {k \in DOMAIN sets : u.codec = "h264" => First(k)}}
=============================================================================
