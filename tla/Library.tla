------------------------------- MODULE Library -------------------------------
(***************************************************************************)
(* The clip library (ord-ui/src/app.rs): the cards of the clips on disk,    *)
(* the threads that probe them, the exports, and the header's view of the   *)
(* daemon, which is fed by polls, by pushed events and by the replies to    *)
(* the user's own commands.  The daemon and the file system are external.   *)
(***************************************************************************)
EXTENDS Naturals, Sequences, SequencesExt

CONSTANTS
    Paths,       \* every clip and export that may come to exist
    Present,     \* the ones on disk when the library starts
    DaemonClips, \* the ones the daemon may write
    OutputOf,    \* the outputs an export of a clip can have: path -> set of paths
    Offline,     \* the header's state while the daemon cannot be reached
    None,
    MaxWrites,   \* bound: files written
    MaxChanges,  \* bound: changes of the replay buffer, starts and ends of the daemon
    MaxClicks    \* bound: what the user starts or asks for besides opening the editor

ASSUME LibraryAssumption ==
    /\ Present \subseteq Paths /\ DaemonClips \subseteq Paths \ Present
    /\ OutputOf \in [Paths -> SUBSET (Paths \ DaemonClips)]
    /\ None \notin Paths /\ {MaxWrites, MaxChanges, MaxClicks} \subseteq Nat

VARIABLES
    disk,     \* path -> the write it holds (its mtime), 0 when there is no file
    known,    \* mtimes: path -> the write seen by the last scan, 0 when not listed
    cards,    \* states: the paths whose details are loaded
    loaders,  \* the loader threads: what they still probe and the message they hold
    exports,  \* path -> its export: the output and how far it is
    app,      \* page, clip in the editor, pending_refresh, scanned, confirm_delete
    window,   \* whether the window is visible
    daemon,   \* up, buffer, recording (the file); the commands it has been sent
    link,     \* subscribed; events, replies and the poll's answer not yet drained
    header,   \* daemon: what the header shows
    missed,   \* history: paths written with nobody told, since the last scan
    used      \* bounds: writes, changes and clicks so far

files == <<disk, missed, used>>
listing == <<known, cards, loaders>>
vars == <<disk, known, cards, loaders, exports, app, window, daemon, link, header,
          missed, used>>

NoExport == [out |-> None, stage |-> "none"]

\* The user starts something.
Click == used.clicks < MaxClicks /\ used' = [used EXCEPT !.clicks = @ + 1]

(***************************************************************************)
(* Files.                                                                   *)
(***************************************************************************)
Write(paths, told) ==
    /\ used.writes < MaxWrites
    /\ used' = [used EXCEPT !.writes = @ + 1]
    /\ disk' = [p \in Paths |-> IF p \in paths THEN used.writes + 1 ELSE disk[p]]
    /\ missed' = IF told THEN missed ELSE missed \cup paths

(***************************************************************************)
(* The list of clips.  A scan keeps what is loaded of unchanged files and   *)
(* starts a thread for the new and changed ones.                            *)
(***************************************************************************)
Changed(d) == {p \in Paths : d[p] # 0 /\ d[p] # known[p]}
Busy(l) == l.todo # <<>> \/ l.out # None
StartLoading(paths) ==
    IF paths = {} THEN loaders
    ELSE Append(loaders, [todo |-> SetToSeq(paths), out |-> None])

\* refresh: the library of the files d, by a page that is otherwise a.
Refresh(d, a) ==
    /\ known' = d
    /\ cards' = {p \in cards : d[p] # 0 /\ p \notin Changed(d)}
    /\ loaders' = StartLoading(Changed(d))
    /\ app' = [a EXCEPT !.confirm = None]

\* request_refresh: while the editor is open it waits.
RequestRefresh ==
    IF app.page = "editor"
      THEN app' = [app EXCEPT !.pending = TRUE] /\ UNCHANGED <<listing, missed>>
      ELSE Refresh(disk, app) /\ missed' = {}

\* A thread probes the next file, which may be gone or changed by then.
Load(j) ==
    LET l == loaders[j]
    IN  /\ l.todo # <<>> /\ l.out = None
        /\ loaders' = [loaders EXCEPT ![j] = [todo |-> Tail(l.todo), out |-> Head(l.todo)]]
        /\ UNCHANGED <<files, known, cards, exports, app, window, daemon, link, header>>

\* drain_channels: what a thread sends reaches the card, which it creates anew
\* when a scan has dropped it in the meantime.
DrainLoaded(j) ==
    /\ loaders[j].out # None
    /\ cards' = cards \cup {loaders[j].out}
    /\ loaders' = SelectSeq([loaders EXCEPT ![j].out = None], Busy)
    /\ UNCHANGED <<files, known, exports, app, window, daemon, link, header>>

(***************************************************************************)
(* Pages.                                                                   *)
(***************************************************************************)
Listed(p) == known[p] # 0
IsClip(p) == OutputOf[p] # {} \* only clips are edited and exported

\* update: the first frame of the library scans and starts the poll.
FirstScan ==
    /\ app.page = "library" /\ ~app.scanned
    /\ Refresh(disk, [app EXCEPT !.scanned = TRUE]) /\ missed' = {}
    /\ UNCHANGED <<disk, exports, window, daemon, link, header, used>>

OnLibrary == app.page = "library" /\ app.scanned

OpenEditor(p) ==
    /\ OnLibrary /\ Listed(p) /\ IsClip(p) /\ disk[p] # 0
    /\ app' = [app EXCEPT !.page = "editor", !.clip = p]
    /\ UNCHANGED <<files, listing, exports, window, daemon, link, header>>

\* A fault: leaving the editor forgets the scan that was put off.
BackForgets ==
    /\ app.page = "editor"
    /\ app' = [app EXCEPT !.page = "library", !.clip = None, !.pending = FALSE]
    /\ UNCHANGED <<listing, missed, disk, exports, window, daemon, link, header, used>>

Back ==
    LET left == [app EXCEPT !.page = "library", !.clip = None, !.pending = FALSE]
    IN  /\ app.page = "editor"
        /\ IF app.pending THEN Refresh(disk, left) /\ missed' = {}
           ELSE app' = left /\ UNCHANGED <<listing, missed>>
        /\ UNCHANGED <<disk, exports, window, daemon, link, header, used>>

Settings ==
    /\ \/ OnLibrary /\ app' = [app EXCEPT !.page = "settings"]
       \/ app.page = "settings" /\ app' = [app EXCEPT !.page = "library"]
    /\ Click
    /\ UNCHANGED <<disk, missed, listing, exports, window, daemon, link, header>>

AskDelete(p) ==
    /\ OnLibrary /\ Listed(p) /\ app.confirm # p
    /\ app' = [app EXCEPT !.confirm = p]
    /\ Click
    /\ UNCHANGED <<disk, missed, listing, exports, window, daemon, link, header>>

KeepClip ==
    /\ OnLibrary /\ app.confirm # None
    /\ app' = [app EXCEPT !.confirm = None]
    /\ UNCHANGED <<files, listing, exports, window, daemon, link, header>>

\* delete_clip: a file that is gone already is only reported.
DeleteClip ==
    LET p == app.confirm
    IN  /\ OnLibrary /\ p # None
        /\ disk' = [disk EXCEPT ![p] = 0]
        /\ IF disk[p] # 0 THEN Refresh(disk', app) /\ missed' = {}
           ELSE app' = [app EXCEPT !.confirm = None] /\ UNCHANGED <<listing, missed>>
        /\ UNCHANGED <<exports, window, daemon, link, header, used>>

Visibility ==
    /\ window' = ~window
    /\ Click
    /\ UNCHANGED <<disk, missed, listing, exports, app, daemon, link, header>>

(***************************************************************************)
(* Exports: one at a time of a clip, in a thread of its own.                *)
(***************************************************************************)
RunExport(p, out) ==
    /\ (OnLibrary /\ Listed(p)) \/ (app.page = "editor" /\ app.clip = p)
    /\ out \in OutputOf[p] /\ exports[p] = NoExport
    /\ exports' = [exports EXCEPT ![p] = [out |-> out, stage |-> "started"]]
    /\ Click
    /\ UNCHANGED <<disk, missed, listing, app, window, daemon, link, header>>

\* ffmpeg creates the output, or the clip cannot be probed.
ExportStarts(p) ==
    /\ exports[p].stage = "started"
    /\ \/ /\ exports' = [exports EXCEPT ![p].stage = "failed"]
          /\ UNCHANGED <<disk, missed, used>>
       \/ /\ disk[p] # 0 /\ exports' = [exports EXCEPT ![p].stage = "writing"]
          /\ Write({exports[p].out}, TRUE)
    /\ UNCHANGED <<listing, app, window, daemon, link, header>>

\* ffmpeg completes the output, or it fails or is cancelled and the output is removed.
ExportEnds(p) ==
    /\ exports[p].stage = "writing"
    /\ \/ /\ exports' = [exports EXCEPT ![p].stage = "done"]
          /\ IF disk[exports[p].out] # 0 THEN Write({exports[p].out}, TRUE)
             ELSE UNCHANGED <<disk, missed, used>>
       \/ /\ exports' = [exports EXCEPT ![p].stage = "failed"]
          /\ disk' = [disk EXCEPT ![exports[p].out] = 0] /\ UNCHANGED <<missed, used>>
    /\ UNCHANGED <<listing, app, window, daemon, link, header>>

\* A fault: the scan for a finished export does not wait for the editor.
DrainExportNow(p) ==
    /\ exports[p].stage \in {"done", "failed"}
    /\ exports' = [exports EXCEPT ![p] = NoExport]
    /\ IF exports[p].stage = "done" THEN Refresh(disk, app) /\ missed' = {}
       ELSE UNCHANGED <<app, listing, missed>>
    /\ UNCHANGED <<disk, window, daemon, link, header, used>>

\* drain_channels: only an export that succeeded scans.
DrainExport(p) ==
    /\ exports[p].stage \in {"done", "failed"}
    /\ exports' = [exports EXCEPT ![p] = NoExport]
    /\ IF exports[p].stage = "done" THEN RequestRefresh ELSE UNCHANGED <<app, listing, missed>>
    /\ UNCHANGED <<disk, window, daemon, link, header, used>>

(***************************************************************************)
(* The daemon: it does what anybody asks of it, tells its subscribers, and  *)
(* answers the library when that asked.                                     *)
(***************************************************************************)
Commands == {"save", "record", "buffer"}
Info == IF daemon.up THEN [buffer |-> daemon.buffer, recording |-> daemon.recording # None] ELSE Offline
StatusEvent == [kind |-> "status", info |-> Info]
Event(kind, on) == [kind |-> kind, on |-> on]

\* The event of a change is pushed, and is the reply when the library asked (asked).
Tell(event, asked) ==
    link' = [link EXCEPT !.events = IF link.subscribed THEN Append(@, event) ELSE @,
                         !.replies = IF asked THEN Append(@, event) ELSE @]
Told(asked) == link.subscribed \/ asked

Serve(c, asked) ==
    /\ daemon.up
    /\ asked => c \in daemon.asked
    /\ LET left == [daemon EXCEPT !.asked = IF asked THEN @ \ {c} ELSE @]
       IN  \/ /\ c = "save" /\ daemon.buffer
              /\ \E p \in DaemonClips : disk[p] = 0 /\ Write({p}, Told(asked))
              /\ daemon' = left /\ Tell(Event("clip", TRUE), asked)
           \/ /\ c = "record" /\ daemon.recording = None
              /\ \E p \in DaemonClips : /\ disk[p] = 0 /\ Write({p}, TRUE)
                                        /\ daemon' = [left EXCEPT !.recording = p]
              /\ Tell(Event("record", TRUE), asked)
           \/ /\ c = "record" /\ daemon.recording # None
              /\ Write({p \in {daemon.recording} : disk[p] # 0}, Told(asked))
              /\ daemon' = [left EXCEPT !.recording = None]
              /\ Tell(Event("record", FALSE), asked)
           \/ /\ c = "buffer" /\ used.changes < MaxChanges
              /\ used' = [used EXCEPT !.changes = @ + 1] /\ UNCHANGED <<disk, missed>>
              /\ daemon' = [left EXCEPT !.buffer = ~@]
              /\ Tell(Event("buffer", ~daemon.buffer), asked)
    /\ UNCHANGED <<listing, exports, app, window, header>>

\* A command of the library that cannot be connected or is refused.
ServeFails(c) ==
    /\ c \in daemon.asked
    /\ daemon' = [daemon EXCEPT !.asked = @ \ {c}]
    /\ UNCHANGED <<files, listing, exports, app, window, link, header>>

DaemonStops ==
    /\ daemon.up /\ used.changes < MaxChanges
    /\ used' = [used EXCEPT !.changes = @ + 1]
    /\ daemon' = [daemon EXCEPT !.up = FALSE, !.buffer = FALSE, !.recording = None]
    /\ link' = [link EXCEPT !.subscribed = FALSE]
    /\ missed' = missed \cup ({daemon.recording} \ {None})
    /\ UNCHANGED <<disk, listing, exports, app, window, header>>

DaemonStarts ==
    /\ ~daemon.up
    /\ daemon' = [daemon EXCEPT !.up = TRUE]
    /\ UNCHANGED <<files, listing, exports, app, window, link, header>>

(***************************************************************************)
(* The library's connections.                                               *)
(***************************************************************************)
\* daemon_controls: shown while the header knows a daemon.
SendCtl(c) ==
    /\ OnLibrary /\ header # Offline /\ c \notin daemon.asked
    /\ c = "save" => header.buffer
    /\ daemon' = [daemon EXCEPT !.asked = @ \cup {c}]
    /\ Click
    /\ UNCHANGED <<disk, missed, listing, exports, app, window, link, header>>

\* start_event_stream: a new connection begins with a snapshot.
Connect ==
    /\ daemon.up /\ ~link.subscribed
    /\ link' = [link EXCEPT !.subscribed = TRUE, !.events = Append(@, StatusEvent)]
    /\ UNCHANGED <<files, listing, exports, app, window, daemon, header>>

\* A fault: the poll reports only a daemon that answers.
PollOnline ==
    /\ app.scanned /\ window /\ link.poll = <<>> /\ daemon.up
    /\ link' = [link EXCEPT !.poll = <<Info>>]
    /\ UNCHANGED <<files, listing, exports, app, window, daemon, header>>

\* start_daemon_poll, every two seconds while the window is visible.
Poll ==
    /\ app.scanned /\ window /\ link.poll = <<>>
    /\ link' = [link EXCEPT !.poll = <<Info>>]
    /\ UNCHANGED <<files, listing, exports, app, window, daemon, header>>

DrainPoll ==
    /\ link.poll # <<>>
    /\ header' = Head(link.poll) /\ link' = [link EXCEPT !.poll = <<>>]
    /\ UNCHANGED <<files, listing, exports, app, window, daemon>>

\* What an event does to the header; one that changes a file scans.
Shown(e) ==
    IF e.kind = "status" THEN e.info
    ELSE IF header = Offline THEN header
    ELSE CASE e.kind = "buffer" -> [header EXCEPT !.buffer = e.on]
           [] e.kind = "record" -> [header EXCEPT !.recording = e.on]
           [] e.kind = "clip" -> header
Scans(e) == e.kind = "clip" \/ (e.kind = "record" /\ ~e.on)

Route(e) ==
    /\ header' = Shown(e)
    /\ IF Scans(e) THEN RequestRefresh ELSE UNCHANGED <<app, listing, missed>>
    /\ UNCHANGED <<disk, used, exports, window, daemon>>

DrainEvents ==
    /\ link.events # <<>>
    /\ Route(Head(link.events))
    /\ link' = [link EXCEPT !.events = Tail(@)]

DrainCtl ==
    /\ link.replies # <<>>
    /\ Route(Head(link.replies))
    /\ link' = [link EXCEPT !.replies = Tail(@)]

(***************************************************************************)
(* The specification.                                                       *)
(***************************************************************************)
\* LibraryApp::new: nothing scanned, nothing asked of the user.
NewApp(page) ==
    [page |-> page, clip |-> None, pending |-> FALSE, scanned |-> FALSE, confirm |-> None]

Init ==
    /\ disk = [p \in Paths |-> IF p \in Present THEN 1 ELSE 0]
    /\ known = [p \in Paths |-> 0] /\ cards = {} /\ loaders = <<>>
    /\ exports = [p \in Paths |-> NoExport]
    /\ \E page \in {"library", "settings"} : app = NewApp(page)    \* ORD_SETTINGS
    /\ window = TRUE
    /\ \E up \in BOOLEAN :
         daemon = [up |-> up, buffer |-> up, recording |-> None, asked |-> {}]
    /\ link = [subscribed |-> FALSE, events |-> <<>>, replies |-> <<>>, poll |-> <<>>]
    /\ header = Offline /\ missed = {}
    /\ used = [writes |-> 1, changes |-> 0, clicks |-> 0]

Threads == \E j \in DOMAIN loaders : Load(j)
Loaded == \E j \in DOMAIN loaders : DrainLoaded(j)
Exports == \E p \in Paths : ExportStarts(p) \/ ExportEnds(p)
Exported == \E p \in Paths : DrainExport(p)
User == \/ \E p \in Paths : \/ OpenEditor(p) \/ AskDelete(p)
                            \/ \E out \in Paths : RunExport(p, out)
        \/ Back \/ Settings \/ KeepClip \/ DeleteClip \/ Visibility
        \/ \E c \in Commands : SendCtl(c)
Daemon == \/ DaemonStops \/ DaemonStarts
          \/ \E c \in Commands : ServeFails(c) \/ \E asked \in BOOLEAN : Serve(c, asked)

Next == \/ FirstScan \/ Loaded \/ Exported \/ DrainEvents \/ DrainCtl \/ DrainPoll
        \/ Threads \/ Exports \/ Connect \/ Poll
        \/ User \/ Daemon

Spec == Init /\ [][Next]_vars
\* Threads run; a frame drains every channel to its end, and is drawn when one of
\* the threads asks for it, which they leave while the window is hidden.
Frame(A) == window /\ A
Fairness ==
    /\ WF_vars(Frame(FirstScan)) /\ WF_vars(Frame(Loaded)) /\ WF_vars(Frame(Exported))
    /\ WF_vars(Frame(DrainEvents)) /\ WF_vars(Frame(DrainCtl)) /\ WF_vars(Frame(DrainPoll))
    /\ WF_vars(Threads) /\ WF_vars(Exports) /\ WF_vars(Connect) /\ WF_vars(Poll)
FairSpec == Spec /\ Fairness

(***************************************************************************)
(* Properties.                                                              *)
(***************************************************************************)
Writes == 0..MaxWrites

\* Types; and a question whether to delete is about a clip that is listed.
TypeOK ==
    /\ disk \in [Paths -> Writes] /\ known \in [Paths -> Writes]
    /\ cards \subseteq Paths
    /\ \A j \in DOMAIN loaders : loaders[j] \in [todo : Seq(Paths), out : Paths \cup {None}]
    /\ exports \in [Paths -> [out : Paths \cup {None},
                              stage : {"none", "started", "writing", "done", "failed"}]]
    /\ app.page \in {"library", "settings", "editor"} /\ app.clip \in Paths \cup {None}
    /\ app.confirm # None => Listed(app.confirm)
    /\ app.page # "editor" => ~app.pending
    /\ header = Offline \/ header \in [buffer : BOOLEAN, recording : BOOLEAN]
    /\ missed \subseteq Paths

\* A file somebody told the library of is listed as it is on disk, and its card
\* stops "loading": whatever thread, event or reply comes first, and whether or
\* not the editor put a scan off.
ClipsAppear ==
    <>[](app.page # "editor" /\ app.scanned /\ window =>
           \A p \in Paths \ (missed \cup {daemon.recording}) : disk[p] # 0 =>
             known[p] = disk[p] /\ p \in cards)

\* The header comes to show what the daemon does, although polls, events and
\* replies overtake each other and the daemon comes and goes.
BadgeCatchesUp == <>[](app.scanned /\ window => header = Info)

\* "deferred until it closes": no sweep of the library starts under the editor.
SweepsWait == [][Len(loaders') > Len(loaders) => app.page # "editor" \/ app'.page # "editor"]_vars
==============================================================================
