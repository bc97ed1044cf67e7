------------------------------- MODULE Editor -------------------------------
(***************************************************************************)
(* The clip editor (ord-ui/src/editor.rs, project.rs, edit_history.rs) over *)
(* the models of CutList.  One call of `ui' draws one frame: Frame first,   *)
(* then at most one input, then the player's own frame.  The player is the  *)
(* abstraction of module Player the editor relies on: a position that runs  *)
(* while it plays and stops or wraps at the out point.                      *)
(***************************************************************************)
EXTENDS CutList, FiniteSets

CONSTANTS
    MaxUndo,            \* DEFAULT_MAX of the undo history
    Grab,               \* GRAB: the reach of a handle, in ticks
    SnapRadius,         \* SNAP_PX, in ticks
    MarkerReach,        \* the second within which Shift+M finds a marker
    Chapters,           \* the chapters probed from the clip
    Steps,              \* what the arrow and frame keys add to the playhead
    MaxEdits            \* bound: edits of cuts and markers, the probe's among them

ASSUME EditorAssumption ==
    /\ MaxUndo \in Nat \ {0}
    /\ {Grab, SnapRadius, MarkerReach, MaxEdits} \subseteq Nat
    /\ Chapters \subseteq Times /\ Steps \subseteq Nat

VARIABLES
    timeline,  \* in, out, playhead
    segs,      \* the cut list
    history,   \* undo and redo: earlier and later cut lists
    markers,   \* marker times
    probed,    \* whether the chapters have arrived
    drag,      \* what is dragged, and the cut list before a drag of a cut
    player,    \* playing, pos
    edits      \* bound: edits so far

cutVars == <<segs, history>>
vars == <<timeline, segs, history, markers, probed, drag, player, edits>>

NoDrag == [target |-> "none", cut |-> 0, undo |-> <<>>]

Dragging == drag.target # "none"
Edit == edits < MaxEdits /\ edits' = edits + 1
NoEdit == UNCHANGED edits

(***************************************************************************)
(* What an input does to playhead and player.                               *)
(***************************************************************************)
SeekTo(tl, t) == /\ timeline' = SetPlayhead(tl, t)
                 /\ player' = [player EXCEPT !.pos = Clamp(t)]

Paused(p) == [p EXCEPT !.playing = FALSE]

\* play: outside the selection or near its end it starts over.
Toggled(p) ==
    IF p.playing THEN Paused(p)
    ELSE [playing |-> TRUE,
          pos |-> IF p.pos < timeline.in \/ p.pos >= timeline.out - MinSeg
                    THEN timeline.in ELSE p.pos]

\* scrub_to: the player p seeks when it is forced, and else as the throttle lets it.
Scrub(p, tl, t, force) ==
    /\ timeline' = SetPlayhead(tl, t)
    /\ \E seeks \in {TRUE, force} : player' = IF seeks THEN [p EXCEPT !.pos = Clamp(t)] ELSE p

(***************************************************************************)
(* The undo history.                                                        *)
(***************************************************************************)
Newest(s) == IF Len(s) > MaxUndo THEN Tail(s) ELSE s

\* A fault: an edit after an undo keeps what could be redone.
PushKeepsRedo(h, previous) ==
    [h EXCEPT !.undo = Newest(Append(@, previous))]

Push(h, previous) == [undo |-> Newest(Append(h.undo, previous)), redo |-> <<>>]

\* edit_cuts: the previous state is kept when the mutation reports a change.
EditCuts(new, reports) ==
    /\ segs' = new
    /\ history' = IF reports THEN Push(history, segs) ELSE history

CanUndo == history.undo # <<>>
CanRedo == history.redo # <<>>
UndoCut == /\ segs' = IF CanUndo THEN Last(history.undo) ELSE segs
           /\ history' = IF CanUndo
                           THEN [undo |-> Front(history.undo),
                                 redo |-> Newest(Append(history.redo, segs))]
                           ELSE history
RedoCut == /\ segs' = IF CanRedo THEN Last(history.redo) ELSE segs
           /\ history' = IF CanRedo
                           THEN [undo |-> Newest(Append(history.undo, segs)),
                                 redo |-> Front(history.redo)]
                           ELSE history

(***************************************************************************)
(* The frame.                                                               *)
(***************************************************************************)
\* A fault: cut pieces are played.
NeverSkips(tl) == NoTime

\* Where a frame moves a playing position that sits in a cut piece.
Skips(tl) == IF IsTrivial(segs) THEN NoTime ELSE SkipTarget(segs, tl.playhead, tl.out)

\* The frame has run and inputs act on what it left.
UpToDate == player.playing => /\ timeline.playhead = player.pos
                              /\ Skips(timeline) \in {NoTime, player.pos}

\* While it plays the player drives the playhead, and cut pieces are skipped.
Frame ==
    /\ player.playing
    /\ \E pos \in IF UpToDate /\ player.pos < timeline.out
                    THEN {player.pos + 1} ELSE {player.pos} :
          LET tl == SetPlayhead(timeline, pos)
              to == IF Skips(tl) = NoTime THEN pos ELSE Skips(tl)
          IN  SeekTo(tl, to)
    /\ UNCHANGED <<cutVars, markers, probed, drag, edits>>

\* The player's frame at the out point wraps when it loops, or stops there.
AtOut ==
    /\ player.playing /\ player.pos = timeline.playhead /\ player.pos >= timeline.out
    /\ player' \in {[player EXCEPT !.pos = timeline.in],
                    Paused([player EXCEPT !.pos = timeline.out])}
    /\ UNCHANGED <<timeline, cutVars, markers, probed, drag, edits>>

\* A stall of the output pauses the player.
Stall ==
    /\ player.playing /\ UpToDate
    /\ player' = Paused(player)
    /\ UNCHANGED <<timeline, cutVars, markers, probed, drag, edits>>

ChaptersArrive ==
    /\ ~probed /\ probed' = TRUE /\ Edit
    /\ markers' = markers \cup Chapters
    /\ UNCHANGED <<timeline, cutVars, drag, player>>

(***************************************************************************)
(* Keys, which are read also while the pointer drags.                       *)
(***************************************************************************)
Moves ==
    LET ph   == timeline.playhead
        prev == PrevMarkers(markers, ph)
        next == NextMarkers(markers, ph)
    IN  \/ \E d \in Steps : SeekTo(timeline, ph + d) \/ SeekTo(timeline, ph - d)
        \/ SeekTo(timeline, timeline.in)
        \/ SeekTo(timeline, timeline.out)
        \/ \E m \in prev : (\A n \in prev : n <= m) /\ SeekTo(timeline, m)
        \/ \E m \in next : (\A n \in next : n >= m) /\ SeekTo(timeline, m)
        \/ SeekTo(SetIn(timeline, ph), SetIn(timeline, ph).in)
        \/ SeekTo(SetOut(timeline, ph), SetOut(timeline, ph).out)

KeyMove ==
    /\ UpToDate
    /\ Moves \/ (player' = Toggled(player) /\ UNCHANGED timeline)
    /\ UNCHANGED <<cutVars, markers, probed, drag, edits>>

EditKey ==
    LET ph == timeline.playhead
    IN  /\ UpToDate /\ Edit
        /\ \/ EditCuts(SplitAt(segs, ph), SplitAt(segs, ph) # segs)
           \/ EditCuts(ToggleAt(segs, ph), TRUE)
           \/ EditCuts(JoinAt(segs, ph), Cuts(segs) # {})
        /\ UNCHANGED <<timeline, markers, probed, drag, player>>

UndoKey ==
    /\ UpToDate /\ (UndoCut \/ RedoCut)
    /\ UNCHANGED <<timeline, markers, probed, drag, player, edits>>

MarkerKey ==
    LET ph == timeline.playhead
    IN  /\ UpToDate /\ Edit
        /\ \/ markers' = markers \cup {ph}
           \/ markers' = markers \ NearestMarkers(markers, ph, MarkerReach)
        /\ UNCHANGED <<timeline, cutVars, probed, drag, player>>

(***************************************************************************)
(* Buttons and fields.                                                      *)
(***************************************************************************)
\* The transport row; a click on the preview also plays and pauses.
Transport ==
    LET ph == timeline.playhead
    IN  /\ UpToDate /\ ~Dragging
        /\ \/ \E t \in {timeline.in, timeline.out, ph - 1, ph + 1} : SeekTo(timeline, t)
           \/ player' = Toggled(player) /\ UNCHANGED timeline
        /\ UNCHANGED <<cutVars, markers, probed, drag, edits>>

\* "Cut In->Out": cuts the selection out and clears it.
CutSelection ==
    LET a == timeline.in
        b == timeline.out
    IN  /\ UpToDate /\ ~Dragging /\ ~IsFull(timeline) /\ Edit
        /\ EditCuts(CutRange(segs, a, b), CutRangeReports(segs, a, b))
        /\ SeekTo(SetIn(SetOut(timeline, Duration), 0), a)
        /\ UNCHANGED <<markers, probed, drag>>

\* The tools row.
Tools ==
    LET ph == timeline.playhead
    IN  \/ CutSelection
        \/ /\ UpToDate /\ ~Dragging
           /\ \/ /\ Edit /\ UNCHANGED markers
                 /\ \/ EditCuts(SplitAt(segs, ph), SplitAt(segs, ph) # segs)
                    \/ EditCuts(ToggleAt(segs, ph), TRUE)
                    \/ ~IsTrivial(segs) /\ EditCuts(NewSegments, TRUE)
              \/ UNCHANGED <<markers, edits>> /\ ((CanUndo /\ UndoCut) \/ (CanRedo /\ RedoCut))
              \/ Edit /\ markers' = markers \cup {ph} /\ UNCHANGED cutVars
           /\ UNCHANGED <<timeline, probed, drag, player>>

\* A time typed into a field: keys are dead while it is open, and a click
\* anywhere closes it, so that opening and applying it are one step.
TypeTime(field, t) ==
    LET tl == CASE field = "In" -> SetIn(timeline, t)
                [] field = "Out" -> SetOut(timeline, t)
                [] field = "Playhead" -> SetPlayhead(timeline, t)
    IN  /\ UpToDate /\ ~Dragging
        /\ SeekTo(tl, tl.playhead)
        /\ UNCHANGED <<cutVars, markers, probed, drag, edits>>

(***************************************************************************)
(* The pointer on the timeline.                                             *)
(***************************************************************************)
\* classify_drag: the nearer trim handle, else a cut line, else the playhead.
Grabbed(t) ==
    LET din   == Apart(t, timeline.in)
        dout  == Apart(t, timeline.out)
        close == {i \in Cuts(segs) : Apart(segs[i].start, t) <= Grab}
    IN  IF din <= Grab /\ din <= dout THEN [NoDrag EXCEPT !.target = "In"]
        ELSE IF dout <= Grab THEN [NoDrag EXCEPT !.target = "Out"]
        ELSE IF close # {}
          THEN [target |-> "Cut", cut |-> NearestCut(segs, t), undo |-> segs]
          ELSE [NoDrag EXCEPT !.target = "Playhead"]

\* What the pointer at t does to what is held, with player p.
Pull(p, held, t, force) ==
    /\ segs' = IF held.target = "Cut" THEN MoveCut(segs, held.cut, t) ELSE segs
    /\ CASE held.target = "In" ->
              LET tl == SetIn(timeline, t) IN Scrub(p, tl, tl.in, force)
         [] held.target = "Out" ->
              LET tl == SetOut(timeline, t) IN Scrub(p, tl, tl.out, force)
         [] held.target = "Playhead" -> Scrub(p, timeline, t, force)
         [] held.target = "Cut" ->
              IF Movable(segs, held.cut)
                THEN Scrub(p, timeline, MovedTo(segs, held.cut, t), force)
                ELSE timeline' = timeline /\ player' = p

\* drag_started pauses and seeks at once.
DragStart(t) ==
    LET held == Grabbed(t)
    IN  /\ UpToDate /\ ~Dragging
        /\ IF held.target = "Cut" THEN Edit ELSE NoEdit
        /\ drag' = held
        /\ Pull(Paused(player), held, Snap(markers, t, SnapRadius), TRUE)
        /\ UNCHANGED <<history, markers, probed>>

DragMove(t) ==
    /\ UpToDate /\ Dragging
    /\ Pull(player, drag, Snap(markers, t, SnapRadius), FALSE)
    /\ UNCHANGED <<history, markers, probed, drag, edits>>

\* drag_stopped: a last forced seek, and one undo entry for the whole drag.
DragStop ==
    /\ UpToDate /\ Dragging
    /\ drag' = NoDrag
    /\ Scrub(player, timeline, timeline.playhead, TRUE)
    /\ history' = IF drag.undo # <<>> /\ drag.undo # segs THEN Push(history, drag.undo)
                  ELSE history
    /\ UNCHANGED <<segs, markers, probed, edits>>

Click(t) ==
    /\ UpToDate /\ ~Dragging
    /\ SeekTo(timeline, Snap(markers, t, SnapRadius))
    /\ UNCHANGED <<cutVars, markers, probed, drag, edits>>

\* A right click joins at a cut line and toggles the piece elsewhere.
RightClick(t) ==
    LET close == {i \in Cuts(segs) : Apart(segs[i].start, t) <= Grab}
    IN  /\ UpToDate /\ ~Dragging /\ Edit
        /\ IF close # {} THEN EditCuts(JoinAt(segs, segs[NearestCut(segs, t)].start), TRUE)
           ELSE EditCuts(ToggleAt(segs, t), TRUE)
        /\ UNCHANGED <<timeline, markers, probed, drag, player>>

(***************************************************************************)
(* What an export of the selection is asked for: the spans supersede the    *)
(* trim, and nothing can be exported when every piece is cut.               *)
(***************************************************************************)
CurrentTrim == IF IsFull(timeline) THEN NoSpan ELSE <<timeline.in, timeline.out>>
Spans == ExportSpans(segs, timeline.in, timeline.out)
\* What the file will hold.
ExportTicks ==
    IF Spans # Whole THEN TicksOf(Spans)
    ELSE IF CurrentTrim = NoSpan THEN 0..(Duration - 1) ELSE TicksOf(<<CurrentTrim>>)

(***************************************************************************)
(* The specification.                                                       *)
(***************************************************************************)
Init ==
    /\ timeline = NewTimeline /\ segs = NewSegments
    /\ history = [undo |-> <<>>, redo |-> <<>>]
    /\ markers = {} /\ probed = FALSE /\ drag = NoDrag
    /\ player \in [playing : BOOLEAN, pos : {0}]    \* autoplay
    /\ edits = 0

Pointer == \/ \E t \in Times : \/ DragStart(t) \/ DragMove(t) \/ Click(t) \/ RightClick(t)
                               \/ \E field \in {"In", "Out", "Playhead"} : TypeTime(field, t)
           \/ DragStop

Next == \/ Frame \/ AtOut \/ Stall \/ ChaptersArrive
        \/ KeyMove \/ EditKey \/ UndoKey \/ MarkerKey
        \/ Transport \/ Tools
        \/ Pointer

Spec == Init /\ [][Next]_vars

(***************************************************************************)
(* Properties.                                                              *)
(***************************************************************************)
\* Pieces in order that cover the clip and are never shorter than MIN_SEG.
CutLists(s) ==
    /\ s # <<>> /\ s[1].start = 0 /\ s[Len(s)].end = Duration
    /\ \A i \in DOMAIN s : s[i] \in Segment /\ s[i].end - s[i].start >= MinSeg
    /\ \A i \in Cuts(s) : s[i].start = s[i - 1].end

\* Types; and the cut list, the ones it can go back to and the selection stay
\* well formed through splits, joins, drags, undo and redo.
TypeOK ==
    /\ timeline \in Timeline /\ timeline.out - timeline.in >= MinSel
    /\ CutLists(segs)
    /\ \A s \in ToSet(history.undo) \cup ToSet(history.redo) : CutLists(s)
    /\ Len(history.undo) <= MaxUndo /\ Len(history.redo) <= MaxUndo
    /\ markers \subseteq Times /\ probed \in BOOLEAN
    /\ drag.target \in {"none", "In", "Out", "Playhead", "Cut"} /\ drag.cut \in Nat
    /\ drag.undo = <<>> \/ CutLists(drag.undo)
    /\ player \in [playing : BOOLEAN, pos : Times]
    /\ edits \in 0..MaxEdits

\* The ticks kept in the selection, and those of pieces too short to export.
Kept == KeptTicks(segs) \cap (timeline.in..(timeline.out - 1))
Sliver(t) ==
    LET s == segs[IndexAt(segs, t)]
    IN  2 * (Smaller(s.end, timeline.out) - Larger(s.start, timeline.in)) <= MinSeg

\* "The preview plays exactly what an export would contain": an export holds
\* the kept ticks of the selection, short of slivers, and a position playing
\* within the selection is in a kept piece.
ExportIsPreview ==
    /\ ExportTicks \subseteq Kept
    /\ \A t \in Kept \ ExportTicks : Sliver(t)
    /\ player.playing /\ UpToDate /\ player.pos \in timeline.in..(timeline.out - 1)
         => player.pos \in Kept

\* However it was edited, the clip can be exported as it is seen.
EditsAreSound == TypeOK /\ ExportIsPreview

\* Cutting the selection out leaves less than MIN_SEG of it at either end, and
\* takes no more than MIN_SEG outside it, whatever cuts were there before.
CutRemovesSelection ==
    [][CutSelection =>
        LET a == timeline.in
            b == timeline.out
        IN  /\ KeptTicks(segs') \cap ((a + MinSeg - 1)..(b - MinSeg)) = {}
            /\ KeptTicks(segs) \ KeptTicks(segs') \subseteq (a - MinSeg)..(b + MinSeg - 1)
      ]_vars

\* What each of a list of cut lists keeps.
Ticks(lists) == [i \in DOMAIN lists |-> KeptTicks(lists[i])]

\* What an edit goes back to: during a drag of a cut, the list from before it.
Base(held, list) == IF held.undo # <<>> THEN held.undo ELSE list

Past == Ticks(history.undo)
Present == KeptTicks(Base(drag, segs))
Future == Ticks(history.redo)

History == INSTANCE CutHistory WITH
    Contents <- SUBSET (0..(Duration - 1)), Start <- 0..(Duration - 1), Depth <- MaxUndo,
    past <- Past, present <- Present, future <- Future

\* The same of the list as it is being dragged.
Dragged == INSTANCE CutHistory WITH
    Contents <- SUBSET (0..(Duration - 1)), Start <- 0..(Duration - 1), Depth <- MaxUndo,
    past <- Past, present <- KeptTicks(segs), future <- Future

\* An edit, undo or redo by a key while a cut is dragged.
KeyInDrag == drag.undo # <<>> /\ UNCHANGED drag /\ Dragged!Next

\* Undo and redo are inverse, a drag is one edit of what it began with, also
\* where keys were pressed in it, and only an edit ends the future. A key that
\* edits, undoes or redoes in the middle of a drag of a cut does so to the list
\* as it is being dragged: when the drag ends, what it began with lies on top
\* of that, and the past is no longer in the order in which it was seen.
ImplementsCutHistory ==
    History!Init /\ [][History!Next \/ KeyInDrag]_(History!vars)

=============================================================================
