---------------------------------- MODULE Hud ----------------------------------
(* ord-hud, the overlay: one of the daemon's followers. A reader thread      *)
(* forwards the events of its connection to the main thread, which shows the *)
(* buffer, whether the daemon answers, and the keys that are pressed.        *)
EXTENDS Events

VARIABLES
    hud, \* the main thread's place in its loops, its inbox and its indicator
    keys \* the pressed-key display and the raw keyboard reader

hudVars == <<hud, keys>>
vars == <<eventVars, hudVars>>

H == "hud"
ASSUME HudAssumption == Followers = {H}

-----------------------------------------------------------------------------
(* Keys.                                                                     *)

\* PressedKeys::apply_config and sync_pressed_reader: a display switched off
\* is cleared and its reader dropped, one switched on reads unless it failed.
Synced(k) ==
    IF ~k.on THEN [k EXCEPT !.reader = "none", !.mail = << >>, !.failed = FALSE]
    ELSE IF k.reader = "none" /\ ~k.failed THEN [k EXCEPT !.reader = "running"]
    ELSE k
Configured(k, on) ==
    Synced(IF on THEN [k EXCEPT !.on = TRUE] ELSE [k EXCEPT !.on = FALSE, !.down = FALSE, !.shown = FALSE])

\* The keyboard reader's thread.
KeyHappens ==
    /\ keys.reader = "running" /\ keys.mail = << >> /\ Stimulate
    /\ \E what \in {"press", "release", "error"} : keys' = [keys EXCEPT !.mail = <<what>>]
    /\ UNCHANGED <<daemon, todo, log, subs, hud>>

KeyReaderEnds ==
    /\ keys.reader = "running" /\ keys.mail = << >> /\ Stimulate
    /\ keys' = [keys EXCEPT !.reader = "ended"]
    /\ UNCHANGED <<daemon, todo, log, subs, hud>>

\* PressedKeys::event: a key already down is ignored, a release keeps the label.
Pressed(k) == [k EXCEPT !.down = TRUE, !.shown = @ \/ ~k.down]
Released(k) == [k EXCEPT !.down = FALSE]

\* drain_pressed_reader: an error or the reader's end drops the reader.
DrainKeys ==
    /\ hud.at # "fetch" /\ keys.reader # "none"
    /\ \/ /\ keys.mail = <<"press">>
          /\ keys' = [Pressed(keys) EXCEPT !.mail = << >>]
       \/ /\ keys.mail = <<"release">>
          /\ keys' = [Released(keys) EXCEPT !.mail = << >>]
       \/ /\ keys.mail = <<"error">>
          /\ keys' = [keys EXCEPT !.mail = << >>, !.failed = TRUE, !.reader = "none"]
       \/ /\ keys.mail = << >> /\ keys.reader = "ended"
          /\ keys' = [keys EXCEPT !.reader = "none"]
    /\ UNCHANGED <<eventVars, hud>>

LabelsExpire ==
    /\ hud.at # "fetch" /\ keys.shown
    /\ keys' = [keys EXCEPT !.shown = FALSE]
    /\ UNCHANGED <<eventVars, hud>>

-----------------------------------------------------------------------------
(* The main thread.                                                          *)
Offline(h, offline) == [h EXCEPT !.offline = offline, !.buffer = @ /\ ~offline]

HudSubscribe ==
    /\ hud.at = "connect"
    /\ \/ /\ Connect(H) /\ hud' = [Offline(hud, FALSE) EXCEPT !.at = "fetch"]
       \/ /\ ~daemon.up
          /\ hud' = Offline(hud, TRUE)
          /\ UNCHANGED eventVars
    /\ UNCHANGED keys

\* apply_overlay_config: GetConfig on a connection of its own, best effort.
HudFetch ==
    /\ hud.at = "fetch"
    /\ hud' = [hud EXCEPT !.at = "live"]
    /\ keys' = IF daemon.up THEN Configured(keys, daemon.keys) ELSE Synced(keys)
    /\ UNCHANGED eventVars

\* The reader thread: reads whatever the main thread does.
HudReads ==
    /\ Read(H)
    /\ hud' = [hud EXCEPT !.inbox = Append(@, Head(subs[H].wire))]
    /\ UNCHANGED keys

\* A fault: the status snapshot is not applied.
IndicatorOfChanges(h, event) ==
    IF event.kind = "buffer" THEN [h EXCEPT !.buffer = event.value] ELSE h

\* apply: snapshot and changes set the indicator; the rest are toasts.
Indicator(h, event) ==
    IF event.kind \in {"buffer", "status"} THEN [h EXCEPT !.buffer = event.value] ELSE h

HudApplies ==
    /\ hud.at = "live" /\ hud.inbox # << >>
    /\ LET event == Head(hud.inbox) IN
        /\ hud' = Indicator([hud EXCEPT !.inbox = Tail(@)], event)
        /\ keys' = IF event.kind = "config" THEN Configured(keys, event.value) ELSE Synced(keys)
    /\ UNCHANGED eventVars

\* The channel's end, met while draining (shown at once) or while idle.
HudGone ==
    /\ hud.at = "live" /\ hud.inbox = << >>
    /\ Leave(H)
    /\ \E idle \in BOOLEAN :
        hud' = [IF idle THEN hud ELSE Offline(hud, TRUE) EXCEPT !.at = "connect"]
    /\ UNCHANGED keys

NewHud == [at |-> "connect", offline |-> FALSE, buffer |-> FALSE, inbox |-> << >>]
NewKeys == [on |-> FALSE, down |-> FALSE, shown |-> FALSE, reader |-> "none", mail |-> << >>,
            failed |-> FALSE]

Init == EventsInit /\ hud = NewHud /\ keys = NewKeys

Next ==
    \/ Daemon /\ UNCHANGED hudVars
    \/ HudSubscribe \/ HudFetch \/ HudReads \/ HudApplies \/ HudGone
    \/ KeyHappens \/ KeyReaderEnds \/ DrainKeys \/ LabelsExpire

Spec == Init /\ [][Next]_vars /\ EventsFairness

-----------------------------------------------------------------------------
(* Properties.                                                               *)

Unheard(kinds) ==
    \/ \E t \in Threads : \E i \in DOMAIN todo[t] : todo[t][i].event.kind \in kinds
    \/ \E i \in DOMAIN Coming(H) : Coming(H)[i].kind \in kinds
    \/ \E i \in DOMAIN hud.inbox : hud.inbox[i].kind \in kinds

\* The overlay never claims a buffer that is not armed, or hides one that is,
\* once every report of it has arrived: unless the change fell between the
\* snapshot of its subscription and its registration.
HudShowsBuffer ==
    hud.at = "live" /\ subs[H].listed /\ subs[H].clean /\ ~Unheard({"buffer", "status"}) =>
        ~hud.offline /\ hud.buffer = daemon.buffer

\* Switching the pressed keys off leaves no chord on screen, no key held and
\* no reader of the keyboard, whatever the reader had sent (hud.rs: disabling
\* clears visible key state so stale chords are not left on screen).
DisabledMeansBlank ==
    ~keys.on => ~keys.shown /\ ~keys.down /\ keys.reader = "none" /\ keys.mail = << >>

\* What the screen shows is true, and is what the user agreed to show.
HudIsTrue == HudShowsBuffer /\ DisabledMeansBlank
=============================================================================
