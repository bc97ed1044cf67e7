# open-recorder in TLA+

open-recorder keeps the last seconds of the screen as encoded frames and writes
them to a clip when asked. The daemon `ordd` owns the capture session, the
replay buffer and an optional full-length recording; `ord`, the GUI and the HUD
are its clients, and the GUI also plays, cuts and exports clips. This directory
holds the specifications of what in it is hard to get right and hard to test.

Parse a module with `tlasany M.tla`, check a run with
`tlc -config X.cfg MCx.tla`, check the proofs of a module with `tlapm XProofs.tla`.
`PROJECT.json` maps every definition to the lines it
models, and lists the runs, the faults that break each property, the hazards and
the theorems. Operators whose comment says "A fault" are those faults: no
specification uses them.

## 1. The system

| component | state | operations | speaks to |
|---|---|---|---|
| replay ring (`ord-core/ring.rs`, `order.rs`, `clip.rs`) | queue of frames sorted by pts, window length, newest pts, byte count | push, resize, clear, select a clip or GOP | engine |
| disk store (`disk_store.rs`) | index, spill file, write offset, live and dead bytes, a compaction in flight | the same; incremental compaction at each push; read a window | engine, the file system |
| audio ring (`audio.rs`) | queue of packets | push, resize, clear, select by time | engine |
| engine (`engine.rs`) | backend, rings, receivers, recorder, markers, a pending fault | start, stop, drain, adopt, record, mark, take clip | handler, supervisor |
| recorder and muxer (`record.rs`, `mux/`) | open file, header written or not, held audio, last timestamps | push video or audio, finish; write a whole clip | engine, server |
| backends (`waycap_backend.rs`, `backend.rs`) | session, forwarder threads, bounded channels | start (portal), stop | engine |
| handler (`handler.rs`) | the engine in use, armed flag, window length | exchange engines, toggle record, prepare a save | server, supervisor |
| supervisor (`supervisor.rs`) | queue of requests, the request at hand, a scheduled retry | Ensure, Disable, Restart, Swap | handler, subscribers |
| server (`server.rs`) | subscribers with bounded queues, configuration, the pump's locals | commands, auto-arm, watchdog, apply configuration, broadcast | all of the above |
| files (`main.rs`, `storage.rs`) | clips, screenshots, recordings on disk | name, write, verify, prune | server |
| configuration (`ord-common/config.rs`) | base file and overrides | diff, merge | server, settings page, CLI |
| HUD (`ord-overlay`) | connection, buffer dot, pressed keys | apply an event, read keys, reconnect | server (subscriber) |
| export (`ord-export`) | none; an ffmpeg child while it runs | plan, run, retry, cancel | CLI, GUI |
| player (`ord-ui/player.rs`, `pace.rs`) | queue of frames, audio buffer, clock, flags | decode, callback, play, pause, seek, loop | editor |
| editor (`editor.rs`, `timeline.rs`, `edit_history.rs`, `project.rs`) | trim points, segments, gesture, undo and redo | cut, split, drag, undo, save | player, export |
| library (`app.rs`, `library.rs`) | cards, loaders, exports, header | scan, probe, delete, poll, subscribe | server, export |
| settings page (`settings.rs`, `settings_view.rs`) | saved and edited draft, busy | load, edit, apply | server |
| CLI (`ord-cli`) | none | one command each; `config set` reads, then writes | server |

How they interact. Capture threads put encoded packets in channels; `drain_available`
is their only consumer and runs under the handler's lock, called by the pump
thread every 250 ms and by every command that looks at the engine. The
supervisor takes requests one at a time; it starts and stops sessions with no
lock held, because the screen-share portal may take for ever, and takes the
handler's lock only to exchange engines. Connections send it requests with a
reply channel and a timeout, the pump sends it auto-arms, auto-disarms and
watchdog restarts without one. Subscribers get events through bounded queues that
a writer thread of each empties; a full queue costs the subscriber its place. The
GUI asks with one thread per command, polls, and subscribes; its decode
thread, its audio callback and its interface share a player.

What is hard: several kinds of threads act on one engine between which the lock is
released; an engine is built, started, exchanged, adopted from and dropped in
separate steps, each of which may fail; a portal answers late or never; frames
arrive out of order; a spill file is rewritten a slice at a time while frames
come and go; sound and picture are kept in two rings with their own clocks; a
request is processed after whoever sent it gave up; events, polls and replies
overtake each other; a clock is advanced by a callback and set by a seek; a child
process is killed while a grandchild holds its pipes; a file is chosen by name
and opened later. What makes each part correct, part by part:

- stores: sorted whatever the order of arrival, never more than the window, no
  holes, exact byte accounts, every payload its own; a clip starts on a keyframe,
  misses nothing after it, has its sound and its bookmarks.
- supervisor, handler, pump: no session and no open recording file is lost; the
  armed flag, the engine that runs and what subscribers see agree when the
  supervisor rests; recovery keeps footage; a stall ends; a client is answered.
- recorder: the file starts at a keyframe, both tracks have increasing
  timestamps and end together, held audio is bounded.
- events: a client that read its snapshot misses nothing and sees the common
  order; a client that stops reading holds nobody up.
- configuration: what is persisted is what is in force, and what capture runs with.
- files: nothing is overwritten or pruned while in use, but for a recording that
  stalls; the prune takes the oldest and no more than needed; of a keyframe nothing
  is lost but what H.264's header has no place for.
- player: its three threads never wait for each other for ever; playback and
  seeks end; nothing of the old position survives a seek.
- editor: what is exported is what the preview plays; a cut removes its selection;
  undo and redo go back and forth between the lists the user left.
- library: a clip it was told of is shown; its header comes to be true.
- export: the folder holds what the caller is told; a cancel returns; the file is
  what was asked for.

## 2. The modules

| module | models | state and actions |
|---|---|---|
| `Frames`, `FrameQueue` | a frame; `order.rs`, eviction, `clip.rs`, GOP selection as operators on a queue | |
| `FrameStore` | the promise of `trait FrameStore`, on a set of frames | `Push`, `Lose`, `SetCapacity`, `Clear` |
| `RingBuffer` | `ring.rs` | fields of the struct; `Push`, `SetCapacity`, `Clear` |
| `Replay` | `engine.rs` with `audio.rs`: the ring of video, the ring of sound, bookmarks, `take_clip` | extends `RingBuffer`; `DrainVideo`, `DrainAudio`, `Mark`, `Resize`, `ClearReplay` |
| `ReplayProofs`, `DiskProofs`, `CaptureProofs`, `HudProofs`, `SettingsProofs`, `ExportProofs`, `PlayerProofs`, `EditorProofs` | theorems (section 4) | |
| `DiskFrameStore` | `disk_store.rs` | the struct as one record `disk`, files as sequences of cells; `Push` with what the I/O does, `WriteFails`, `SetCapacity`, `Clear`; `Window` |
| `CaptureControl` | `supervisor.rs`, the engine life cycle of `handler.rs` and `engine.rs`, pump and connections of `server.rs` | see below |
| `Mux`, `Recorder` | the millisecond timeline (`mux/stream.rs`), a clip's packets (`mux.rs`), `record.rs`, as operators | |
| `RecordPath` | forwarder threads (`waycap_backend.rs`), draining and recording (`engine.rs`), composed with `Recorder` | `ForwardVideo`, `ForwardAudio`, `DrainAudio`, `DrainVideo`, `StartRecording`, `StopRecording`, `StopCapture`, `StartCapture` |
| `Bitstream` | `mux/bitstream.rs`: packet and header of a keyframe, as operators on bytes | |
| `ClipFiles` | the files of `main.rs`, `storage.rs`, `mux.rs`, composed with `Bitstream` | `Save` to `Saved`, `ListOld`, `PruneNext`, screenshots, a recording, the clock |
| `Events` | state changes, locks, subscribers, queues and writer threads (`server.rs`, `handler.rs`, `supervisor.rs`), reconnecting clients (`client.rs`) | threads with the events they still have to tell; restarts of the daemon |
| `Hud` | `ord-hud`, a follower of `Events`, and its key reader | extends `Events` |
| `Settings` | settings page, `ord config set`, `apply_config`, layers of `config.rs` | a request is one connection, from its sending to its reply |
| `CutList`, `CutHistory` | `timeline.rs` and `markers.rs` as operators; what undo and redo promise | `CutHistory`: `Edit`, `Undo`, `Redo` |
| `Editor` | `editor.rs`, `edit_history.rs`, `project.rs` over `CutList`, with the player as a position that runs | one action per kind of input; `Frame` |
| `Player` | `player.rs`, `pace.rs` | the decode thread step by step, the callback in two steps, the interface's commands and `Frame` |
| `Library` | `app.rs`, `library.rs` | frame handlers, loader, export, command, poll and event threads; the daemon and the disk outside |
| `ExportPlan`, `ExportRun` | `plan.rs`, `profile.rs` and both front ends' choices as operators; `run.rs` and `probe.rs` with the child, its pipes and the cancel | |
| `MC...` | instances for TLC | |

`FrameStore` is the abstract specification; `RingBuffer` and `DiskFrameStore`
implement it with `held` mapped to the elements of their queue. In the ring's
modules `received` and `arrived` are history: frames stored since the last clear,
and how many came. A push is one action, all of `push`: insertion, anchor,
eviction, and on disk the slice of compaction.

In `CaptureControl` a step is what a thread does under one lock, or one call that
may block. `pc` is the supervisor's place in `process_request`: `begin` (the
request's first look at the handler), `portal` (in `Engine::start`), `install`
(the exchange), `stop` and `drop` (stopping the old engine off the lock),
`announce`, `reply` or `refuse`. `engine` is the handler's engine, `fresh` and
`old` those the supervisor holds. An engine is a record: whether its session is
off, live or stalled, the encodings of the footage in its ring, whether it has a
recorder, and the encoding it captures with. `pump` holds the pump thread's
locals: whether it noted an arm of its own, probes without a game, passes without
a frame, the cooldown. A client is idle, writing a clip, about to send its Swap,
or waiting. `sessions` and `muxers` count what is open outside the program, so
that an engine that is dropped without being stopped shows.

In `RecordPath` a forwarder's step is one frame, received and tried on the channel;
nothing but its own flag is read between the two. A drain is two steps, one per
channel, because the forwarders do not wait for the lock under which it runs. A
push may fail at the header, at the video packet or at any packet of the audio it
flushes; the recording is then aborted, and what finishing it still writes is
either all that is due or nothing. `recorder` stays what it was at the end, so
that it stands for the file; `offered` is history: what the recording was given.
`video_dts` and `audio_ts` are the times of the last packets. The audio ring takes
packets in order here; an encoder begins a session with a keyframe; empty packets
and captures without audio are left out; audio packets are two milliseconds apart
at least (Opus makes none shorter than 2.5 ms), without which two of them around
the first keyframe tie after truncation and the second is written a millisecond
past the video.

In `Replay` the ring of sound is a queue of times in microseconds behind its own
newest packet; video is counted in ticks; conversions truncate as in the code.
`DrainAudio` and `DrainVideo` come in any order, as far as sound leads the
picture by no more than `AudioLead`, which stands for the encoder's latency or
the stillness the watchdog bears with. `heard` and `marked` are history.

In `Events` every thread that changes state does so in one step under the
handler's lock and then has a list of things to do (`todo`): write its reply,
broadcast. A follower's snapshot and its registration are two steps. A queue
holds `QueueLen` events and the socket `WireLen`. `clean` is true of a subscriber
whose snapshot and registration no change came between; what is said of the HUD's
dot is said of those (see section 5).

In `Player` a sample of sound and a frame last one tick, and a sample is the
stream time it stands for. A packet of sound is demuxed with the frame of its
time. `CountPlayed` is separate from `Drain` because the callback takes samples
under the buffer's lock and counts them after. `ui.lost` notes that a pause came
between the two, or that the clock ran on wall time by then, and a count went astray.

In `Editor` one call of `ui` is `Frame`, then at most one input. Times are ticks;
two of them are the shortest segment. Keys act whenever they are pressed, in the
middle of a drag too. In `ExportPlan` only what decides tracks,
length and size is kept: rates, codecs, windows and speed; in `ExportRun` a phase
of the runner is one call that may block. In `ClipFiles` a second of wall time is
a `Tick`, and names are the folder, the second, the kind and a suffix. A recording
may go without a write for any time; `Tick` notes in `recording.stalled` that it
did for longer than the grace.

Abstractions: footage in `CaptureControl` is a set of encodings, not frames; a
pass without frames counts as one, whatever its length, and `Patience` of them are
the watchdog's five seconds; the content-rate stand-down of the watchdog is left
out; BUSY is set with the receipt of a request; a static `AUTO_ARM` stands for the
configuration's switch. Sizes in the stores are one or two units. Timestamps are
small integers; `Reorder` bounds how late a frame is, which the code assumes
("slightly out of order") and does not check. A configuration is one value for
each group of fields that is treated alike.

`TypeOK` of a module documents its state; those of the ring, capture, settings,
player and editor are theorems.

## 3. The runs

| run | instance | shows |
|---|---|---|
| `replay` | 4 frames, pts 0..4 in half seconds, windows of 1 and 2 s, lateness 2 ticks, 3 packets of sound in units that divide no tick, lead 2, 2 bookmarks, clips of 0 to 2 s | exact bytes, no holes, clips complete with sound and chapters; implements `FrameStore` |
| `disk_store` | 6 frames, pts 0..3, windows of 1 and 2 s, lateness 1, compaction from 1 dead unit, budget of 2 units a push, reads of 3 | payloads, copies and accounts through compactions of several pushes; implements `FrameStore` |
| `capture_safety` | one client, two encodings, one retry, two probes, two waiting requests, auto-arm and clear-on-save on | `NothingLeaked`, `ArmedIsTrue`, `RecoveryKeepsFootage` |
| `capture_liveness` | the same with one encoding, without clear-on-save, under `FairSpec` | `StallRecovers`, `RequestAnswered` |
| `record_path` | 4 frames at 2 ticks a millisecond, delivered up to a tick late, 3 audio packets from before the first frame to after the last, channels of 2, a hold-back of 4 ms | the file plays, sound is in place, and live and saved clips stamp alike |
| `player` | 5 ticks, one keyframe, sound that starts late and ends early, a queue of 2, two commands, a loop and a range | nothing freezes; playback and seeks end |
| `editor` | 6 ticks, one chapter, 2 edits, a history of 1 | export is preview, cuts, undo and redo, with keys in the middle of drags |
| `library` | a clip present, one the daemon writes, one export; one click, one change of the daemon | clips appear, the header catches up, sweeps wait |
| `settings` | one page, one `config set`, 4 requests, one stop, every group of fields | persisted is in force is running; the footer is released |
| `export` | every preset, both front ends, trims, cuts, reversed windows, speeds from a quarter to double, missing and zero-length sources, each step failing, a grandchild with ffmpeg's pipes | what is left behind, cancel, and what was asked for |
| `events` | one client, the HUD, queue and socket of one event each, 3 stimuli, one restart | no event missed, the HUD is true, broken recordings are told |
| `files` | two saves, a screenshot and a recording within 4 seconds, grace 1, age 3, budget 1, a recording that may stall, keyframes of three codecs with several parameter sets of a kind | names, prunes and keyframes |

Why the bounds are enough. Six frames are enough for a run in which a compaction
starts, runs over several pushes with a late frame and an eviction between its
slices, swaps, and leaves dead bytes that matter to a second decision; budget and
threshold are scaled down with the sizes. Four frames in a window of two ticks
give ties, late frames on both sides of the cutoff, and a window that shrinks and
grows again; three packets of sound let one leave on each side of a resize. In
`RecordPath` two frames fill the channel, the third is dropped, and the fourth is
the delta frame or keyframe after the hole; half milliseconds put audio on both
sides of the first keyframe within the millisecond that truncation folds, and
tie frames; three packets are held over more than the hold-back. In
`CaptureControl` one client is enough for every order of two commands of
different connections in which the earlier one has ended or given up: a client
that gives up is free while its request is still processed. `MaxQueue` bounds
requests that wait, behind the one in process. In `Player` two commands make a
seek overtake a seek, and a queue of two with a lead of four is full while sound
is dry. In `Events` a queue of one is full after one event that is not read. In
`Editor` two edits exceed a history of one and branch it.

Fairness. The supervisor and the pump are threads that run: weak fairness.
`CooldownElapses` is time: it is strong only because its guard `Room` is an
exploration bound that another request may take away. That the portal grants
infinitely often when asked infinitely often (`SF_vars(PortalGrants)`) is an
assumption about the desktop, under which alone recovery can be promised; without
it the code does not recover. Nothing is assumed of clients: `GivesUp` needs no
fairness because the supervisor's answer suffices.

Player: the decode thread, the device's callback, wall time and, while one is
wanted, repaints are weakly fair; nothing is assumed of the user, and the device
may stall for ever (`DeviceStalls`), which only the starved-clock rescue ends.
Library: its threads end and its frames are drawn while the window shows; the
properties speak of a window that does. Settings: a connection goes on, because
its waits are bounded (`recv_timeout`); nothing is assumed of the portal. Export:
the runner goes on; the child and its grandchild may hang. Events: the pump, a
thread with something to tell, a writer thread whose stream takes or refuses,
and the daemon's restart. `FaultsAreTold` does not assume that a client reads.

## 4. The proofs

Every theorem is proved for all values of the constants that satisfy the named
assumptions of its module: any number of clients, frames, edits or requests. An
invariant that a run checks is seldom inductive; each proof module defines the
stronger one that is (`IInv`, `DInv`, `EditorInv`), proves that `Init` implies it and that
every action keeps it, one lemma an action, and reads the theorem off it. TLC
checked each of those on its run's instance before it was proved.

`ReplayProofs`, the ring alone: `TypeCorrect`, `AlwaysOrdered`, `AlwaysBounded`,
`AlwaysGapless`, `AlwaysBytesExact`, `AlwaysClipAsPromised`, and `Implements`, that
`Spec` implies `Store!Spec`.
`IInv` adds that ids in the queue and in `received` are the arrivals so far and
distinct, that `max_pts` is the newest timestamp received, that what is held was
received, and that whatever was received and is no longer held lies behind every
timestamp that may still arrive or is kept (so that a late frame cannot land behind
an evicted one). That last part is where `ReorderAssumption` is used: lateness
within the shortest window. Insertion keeps a sorted queue sorted and adds one
element (`InsertElements`, `InsertKeepsSorted`); eviction from the front of a sorted
queue removes exactly the elements older than the cutoff (`EvictKeepsSorted`); and
each action maps to that of `FrameStore` with its name (`StepRefines`). The size of a
queue is a recursive sum; that an insertion adds the size of one frame to it and that
the sums of a queue and of its part differ by what is left out is proved for queues of
every length from the least position at which two sums would disagree (`Weighs`,
`TotalOfPart`), and `BytesExact` is part of the invariant from then on.
`AlwaysClipAsPromised` needs the queue sorted: the last keyframe at or before the start
of a request is then the newest one of the whole set, and the positions from it on are
everything not older.

`ReplayProofs`, the ring inside the engine: `ReplayGapless`, `ReplayClipAsPromised` and
`ReplayImplements`, as every step of `Replay` is a step of the ring or none
(`ReplayIsRing`); `ReplayClipHasSound`, a clip has the sound of
its span but for the lead at its head. `AInv` says that a packet that is gone lay a
whole window behind one received since (`LostLongAgo`), that sound leads the newest
frame by no more than `AudioLead` (`SoundLeads`), and therefore that it lies less than
the lead after every frame held (`LostBehind`). A frame that is still to come is the
reason for `LostLongAgo`: it may be older than the newest by `Reorder`, which is within
any window. Truncation does no harm because windows are whole seconds
(`MicrosOfWindow`).

`DiskProofs`: `FootageAlwaysIntact`, `AccountsAlwaysExact`, `DiskTypeCorrect`,
`DiskImplements`, for every budget, threshold and read size, whatever I/O fails. The
index is a ring: `Ring` is `ReplayProofs` instantiated with the entries stripped of
their places, so its invariant and lemmas are used as they are, and `DInv` adds `Sound`:
every payload lies before the end of what was written (`Placed`), every copy in the
second file (`Copied`), and live and dead bytes make up the end (`Accounted`). That the
swap's `dead_bytes` is exact although a saturating subtraction computes it needs one
thing more: that the second file is at least as long as what was copied into it
(`CopiesFit`), as nothing is copied twice. A slice is a recursion over the entries; what each of its
stages keeps is `SliceOf`, and at the end of a slice that was not cut short every entry has its copy, also
those that came late before ones copied earlier. `Window` is a recursion over runs of
adjacent entries; that a run's bytes cut back into its own payloads (`RunFrom`), and that
the payloads from each entry on are the one solution of the recursion, is proved from the
last entry at which another solution would differ.

`CaptureProofs`: `CaptureTypeCorrect`, `NothingEverLeaks`, `ArmedIsAlwaysTrue`,
`RecoveryAlwaysKeepsFootage`. What is open outside is exactly what the three engines
in hand have open; to keep that, `IInv` says at each `pc` which of `fresh` and `old`
exist and what they may hold (`HandsEmpty`, `FreshIsNew`, `OldIsStripped`), that the
handler's engine is a placeholder during a restart, and what `enabled` is for the
request in hand (`Progress`, `ShownLags`). That recovery keeps footage is an action
property proved from it: an engine is dropped in `drop` only after it was stripped.

`CaptureProofs`, the files of the daemon (`ClipFiles`, whose specification is `FilesSpec`): `NothingEverOverwritten`
and `FilesInUseSpared`, both where the template has `{rec}` or recordings have a folder of their own. A name is chosen long before its file
is opened; that nobody takes it in between is `NamesInv`: at most one save is under
way, so no second clip is named, a screenshot differs by its extension and a recording
by `{rec}` or its folder, and since every file has a suffix below the number of files begun, a
free one exists (`NameIsFree`). `UseInv` adds dates: a file was last written no earlier
than the second in its name (`Dated`), so what a prune listed is older than any name
that is opened while it removes (`PruneSpares`), and what is in use was written within
the grace (`Current`), so no prune lists it. That a save or a screenshot goes on within
the grace is `Tick`'s guard. A recording need not: `Spared` is what is in use but for a
recording that stalled, and the theorem, like the run, says that no prune takes any of
that; what the daemon does to a stalled one is in section 5.

`CaptureProofs`, the recorder (`RecordPath`, whose specification is `RecordSpec`):
`RecordingsPlay`. `RecordIInv` follows the chain of frames: each one in the channel is a
keyframe or right behind the one before it, the first of them behind the frame drained
last (`ChannelLinks`), the encoder's next frame behind the last in the channel unless
frames were dropped (`ChannelIsNewest`), and an open recording ends with the frame
drained last (`RecorderFollows`). What a batch of frames or a list of due audio makes of
a recording is a recursive function of sequences of any length; that it stays a
recording the muxer accepts (`Recordings`) is proved step by step (`StepsExist`, `Climb`).

`SoundIsInPlace`, of the same recorder: a recording has all the sound of its picture and
no more, and what waits for a picture is bounded. What the recorder holds back is
the end of what it was given, and what it wrote lies before that, each frame at its own
time (`Placed`): as frames of sound are `AudioSpacing` apart (`Spaced`; an Opus packet is
2.5 ms or more), the muxer never has to move a stamp. Every frame that is no longer held
is accounted for (`AllSettled`): it is older than the first keyframe, it was written,
or it was given up because sound of more than the preroll later came while there was
no picture for it yet. What is held is for pictures to come (`Ahead`) and brief (`Brief`).
Ring, channel and recording pass frames on in order of capture (`AudioFlows`), and a
write that fails leaves the file within its picture (`FailingPlaces`, `Within`).
`SoundIInv` is all of this.

`HudProofs`: `NobodyMissesAnything`, `TheOverlayIsTrue`. What a registered follower has
on its way is a suffix of the log, behind its snapshot until that is read (`Follows`);
the last report of the buffer in inbox, wire and queue is the truth (`Settles`),
unless the supervisor still has it to tell (`Pending`).

`SettingsProofs`: `WhatIsSavedIsLoaded`, `SettingsTypeCorrect`, `CaptureRunsWithTheSettings`.
The first rests on merging a difference giving back what it was taken of
(`LayersAgree`), which needs that no field of the base is unset. For the last, as
long as nothing went wrong an engine that differs from the configuration has somebody
on the way who will change it: a request just accepted, a swap in the queue, or a
resize (`Converges`).

`ExportProofs`: `NothingEverBroken` and `SuccessIsAsAsked`. `IInv` ties the file to the
child's state (`Written`), the child to the stage (`LookedAfter`), and says that the
plan in use is one the planner made (`PlanMade`). The size of a target is arithmetic on
top of it: what ffmpeg encodes of the windows lasts no longer than what the planner
divided the budget by (`WithinLess`, `WholeClip`, `JoinedWindows`), sound lasts no longer
than the picture (`AtSpeedIs`), and a rate above the floor times that length, with the
sound beside it, is within the size (`WithinSize`). Joined windows that are slowed down
are excepted, as in the run: there the divisor is shorter than the film.
`JobsAssumption` says what jobs the front ends make: any number of windows at any
times, speeds from a quarter to double.

`PlayerProofs`: `PlayerTypeCorrect`, `LookAheadAlwaysFollows`, `NothingEverFreezes`. `IInv`
says that the buffer is stream time without a hole up to `audioFill` (`Heard`) and that
the clock with what is in flight and buffered is not behind it (`InStep`), so that a
clock that waits for sound has some or the decode thread has work. All three assume
`SoundIsCovered`: sound starts within `LeadMax` (30 s, `player.rs`:947), and no hole in it
is longer than `GapMax` (10 s, `player.rs`:1119), which is how much silence the code
fills in. Of a clip whose sound starts later the clock does stop there with a full
queue, and only the rescue of a starved clock ends it. The run's clip satisfies the
assumption. The proof found a case the model had missed: a count still in flight when
the clock is rebased on wall time is lost, so `CountPlayed` notes that in `ui.lost`.

`EditorProofs`: `EditorTypeCorrect`, `EditsAreAlwaysSound`, `CuttingTakesTheSelection`, and
`HistoryGoesBackAndForth`: the two bounded stacks implement `CutHistory`, whenever keys
are pressed. `EditorInv` says that every cut list on the stacks is well formed, and that
exactly a drag of a cut keeps the list from before it (`GoodDrag`): the abstract
history's present is that list until the drag ends (`Base`), and one edit is made of it
then. A key in the middle of a drag is a step of the same history with the list that is
being dragged as its present (`KeyInDrag`, `DraggedSteps`); that the list from before the
drag is put on top of what such a key left is the code's doing (section 5). What an export keeps is a
recursive function; that it keeps all but slivers (`KeptSteps`, `KeptSpans`) is proved
for lists of every length from the least position at which it would not.

Only model-checked: a clip's chapters (`ChaptersAreMarks`: its filters are recursions of
`SelectSeq`, about which the prover has no facts to use), the likeness
of a recording to a saved clip (`LikeTheClipMuxer`, made of sorts and folds), what a prune plans and what a packet holds
(`PlanIsLeast`, `PartsKept`: folds over sets and bytes), the library, and all liveness (out of the prover's reach, as are fairness
and ENABLED).

## 5. Where code and comments part

Met while modelling; no run claims otherwise.

- A watchdog restart ends a recording it says it carries over (`supervisor.rs`:236);
  only a swap tells subscribers so. A restart between a change of settings and its
  swap adopts a ring of another encoding (`handler.rs`:167).
- The pump disarms what a user armed (`server.rs`:226); a dismissed picker is asked
  again (`supervisor.rs`:181).
- All disk stores share one path, and building one truncates the file of the other
  (`disk_store.rs`:102, 248). A failed read shortens a clip without an error.
- A recording without a keyframe leaves its empty file (`record.rs`:239), an aborted
  one may be left without a trailer (`engine.rs`:188).
- "can never miss a subsequent event" (`server.rs`:93) starts at the registration: a
  change between the snapshot's computation and it is in neither. `HudIsTrue`
  is stated for subscribers to whom that did not happen.
- A reply that cannot be written ends the connection before the broadcast; a
  recording that fails to finalize is not broadcast; a fault noted by an engine
  that is exchanged is lost; an accepted change of settings whose swap fails or
  times out is in force and not broadcast.
- A resize while a restart is under way or a swap is pending is lost on the ring
  (`server.rs`:749). Two writers of settings may leave the engine with one's and the
  file with the other's; `ord config set` reads and writes in two requests.
- `diff_overrides` promises the overrides "that turns base into desired"
  (`config.rs`:61), but a field the base gives cannot be unset through overrides.
- "a full-length recording that is still being written has a fresh mtime"
  (`main.rs`:274) is not so of one that gets no frame: where the rate follows the
  content the watchdog stands down (`server.rs`:318), and after the grace the
  prune of a save may take the file from under the recorder, which writes on
  and reports a path that is gone. `InUseSpared` excepts such a recording to
  its end, as a prune that listed it may remove it after frames came back.
- "Recordings here are never auto-pruned" (`config.rs`:310), but `prune_library`
  lists the folder of recordings with that of clips "under one size budget"
  (`main.rs`:281). The limit is of "the library" (`config.rs`:318), but what
  is younger than the grace is left out of the sum. `PlanIsLeast` is stated of what
  the prune lists.
- "they live in extradata instead" (`bitstream.rs`:96): all SPS and PPS are taken
  from an H.264 packet, but `build_avcc` keeps the first of each; a second one is
  in neither. `PartsKept` says which are kept.
- A failed write leaves a broken clip, a failed screenshot its `.gop.mkv`; a template
  without `{rec}` lets a clip and a recording of one second share a name where they
  share a folder.
- The library never learns of clips saved between its first scan and its
  subscription, or while it reconnects; a loader's late result brings back the state
  of a deleted clip; a failed export leaves its card until the next scan.
- An export removes an earlier file of that name even when ffmpeg never started
  (`run.rs`:126); a size target fails for joined windows slower than life
  (`plan.rs`:152); below half speed sound and picture differ in length; a
  grandchild that keeps the pipe of an ended ffmpeg holds the export, and a cancel
  set by then, up (`run.rs`:291; `CancelEnds` excepts it).
- "one undo entry per drag" (`editor.rs`:75): keys act in the middle of a drag
  (`editor.rs`:373). An undo then goes back behind the edit the drag is about to make,
  an edit pushes the list half way through it, and on release the list from
  before the drag goes on top of either: the past is no longer in the order the user
  saw. `ImplementsCutHistory` allows for those keys and says what they do.
- The rescue of a starved clock may undo a seek of the user; a pause between the
  callback's two steps loses counts; back at normal speed sound and picture may be
  apart.

## 6. Not modelled, and the plan

Not modelled: drawing (`layershell.rs`, `wrap.rs`, widgets, `glvideo.rs`, themes,
filmstrip and scrubbing), sorting and filtering of the library, argument parsing and
printing (`ord-cli`), parsing of other programs' output (`outputs.rs`,
`gamedetect.rs`, the JSON of ffprobe), the user's hook, audio routing, the counters
of encode health, codec-specific header fields, packaging, and the calls into
PipeWire, NVENC and ffmpeg. They keep no state of their own, or none that a
property here could be about. Left out of components that are modelled: a second
disk store on the same path, and two daemons that start on one stale socket.

Next is a proof that a recording equals the clip the muxer makes of the same frames
(`LikeTheClipMuxer`), which needs facts about the library's sorts and folds.
