--------------------------- MODULE CaptureControl ---------------------------
(***************************************************************************)
(* The control plane of the daemon: who may start, stop and replace the    *)
(* capture engine, and what becomes of its footage and of the recording.   *)
(*                                                                         *)
(*   supervisor.rs  one worker that takes requests from a queue            *)
(*   handler.rs     the engine in use, behind a lock                       *)
(*   server.rs      the pump thread (auto-arm, draining, watchdog) and one *)
(*                  thread per client                                      *)
(*                                                                         *)
(* A step is what a thread does while it holds a lock, or one call that    *)
(* may block (the screen-share portal, the stop of a session).  An engine  *)
(* is moved, never shared: it is the handler's, or the supervisor's.       *)
(***************************************************************************)
EXTENDS Integers, Sequences, FiniteSets

CONSTANTS
    Clients,        \* connections that send commands
    Encoders,       \* the encoder settings a configuration may ask for
    BootEncoder,    \* those of the configuration the daemon starts with
    Nobody,         \* nobody waits for the answer
    Retries,        \* ServerCtx::capture_retry_attempts
    DisarmProbes,   \* AUTO_DISARM_PROBES
    Patience,       \* passes without a frame before the watchdog acts
    AutoArm,        \* capture.auto_arm
    ClearOnSave,    \* capture.clear_on_save
    MaxQueue        \* exploration bound: requests waiting for the supervisor

ASSUME ClientsAssumption == Nobody \notin Clients
ASSUME EncodersAssumption == BootEncoder \in Encoders
ASSUME LimitsAssumption ==
    /\ Retries \in Nat
    /\ DisarmProbes \in Nat \ {0}
    /\ Patience \in Nat
    /\ MaxQueue \in Nat \ {0}
ASSUME SwitchesAssumption == AutoArm \in BOOLEAN /\ ClearOnSave \in BOOLEAN

VARIABLES
    engine,     \* Handler::engine
    enabled,    \* Handler::buffer_enabled
    config,     \* ServerCtx::config, its encoder settings
    queue,      \* the supervisor's channel
    pc,         \* where the supervisor is in the request it processes
    req,        \* that request
    fresh,      \* its engine that is being started
    old,        \* its engine that was taken from the handler
    retry,      \* pending_retry: the attempts left of a scheduled arm
    pump,       \* the pump thread: position and locals
    client,     \* the connection threads: position and locals
    shown,      \* the last BufferState broadcast, or the first snapshot
    sessions,   \* capture sessions the system has open
    muxers      \* recording files that are open

supervisor == <<pc, req, fresh, old, retry>>
outside == <<shown, sessions, muxers>>
vars == <<engine, enabled, config, queue, supervisor, pump, client, outside>>

-----------------------------------------------------------------------------
(* Engines (engine.rs).  A frame is told by the settings it was encoded    *)
(* with.                                                                   *)

Engine == [run : {"off", "live", "stalled"},  \* the backend
           ring : SUBSET Encoders,            \* footage in the replay store
           rec : BOOLEAN,                     \* a recorder is attached
           enc : Encoders]                    \* the backend's parameters

\* ServerCtx::engine_factory: built, not started.
Built(e) == [run |-> "off", ring |-> {}, rec |-> FALSE, enc |-> e]

\* An empty slot holds no session, footage or recording.
NoEngine == Built(BootEncoder)

\* Engine::adopt_replay_from, and what it leaves with the other engine.
Adopting(e, other) == [e EXCEPT !.ring = other.ring, !.rec = other.rec]

\* Engine::drain_available: the frames of a session that is delivering; a
\* write error ends the recording.
Drained(e, broke) ==
    [e EXCEPT !.ring = IF e.run = "live" THEN @ \cup {e.enc} ELSE @,
              !.rec = @ /\ ~ broke]

MayBreak(e) == IF e.rec /\ e.run = "live" THEN BOOLEAN ELSE {FALSE}

One(b) == IF b THEN 1 ELSE 0

\* Handler::cut_active_recording, on an engine that leaves the handler.
Cut(e) == [e EXCEPT !.rec = FALSE]

Running(e) == e.run # "off"

Footage == engine.ring \cup fresh.ring \cup old.ring

-----------------------------------------------------------------------------
(* Requests (CaptureRequest).                                              *)

NoRetry == -1

Request == [op : {"Ensure", "Disable", "Restart", "Swap"},
            reply : Clients \cup {Nobody},
            retries : 0..Retries,
            enc : Encoders]

Ask(op, reply) ==
    [op |-> op, reply |-> reply, retries |-> 0, enc |-> BootEncoder]

BootRequest == [Ask("Ensure", Nobody) EXCEPT !.retries = Retries]

Room == Len(queue) < MaxQueue

Send(r) == queue' = Append(queue, r)

Busy == pc # "idle"

-----------------------------------------------------------------------------

\* The pump thread's locals when serve spawns it.
NewPump == [at |-> "probe", saw |-> FALSE, auto_armed |-> FALSE,
            not_game |-> 0, quiet |-> 0, cooling |-> FALSE]

Init ==
    /\ config = BootEncoder
    /\ engine = Built(config)
    /\ enabled = FALSE
    /\ queue = <<BootRequest>>
    /\ pc = "idle" /\ req = BootRequest
    /\ fresh = NoEngine /\ old = NoEngine
    /\ retry = NoRetry
    /\ pump = NewPump
    /\ client = [c \in Clients |-> [at |-> "idle", enc |-> BootEncoder]]
    /\ shown = FALSE
    /\ sessions = 0 /\ muxers = 0

-----------------------------------------------------------------------------
(* The supervisor (supervisor.rs run, process_request).                    *)

\* A request supersedes a scheduled retry.
Receive ==
    /\ pc = "idle" /\ queue # <<>>
    /\ req' = Head(queue)
    /\ queue' = Tail(queue)
    /\ retry' = NoRetry
    /\ pc' = "begin"
    /\ UNCHANGED <<engine, enabled, config, fresh, old, pump, client, outside>>

RetryDue ==
    /\ pc = "idle" /\ queue = <<>>
    /\ retry # NoRetry
    /\ req' = [BootRequest EXCEPT !.retries = retry]
    /\ retry' = NoRetry
    /\ pc' = "begin"
    /\ UNCHANGED <<engine, enabled, config, queue, fresh, old, pump, client, outside>>

\* A fault: an armed buffer is no reason to answer.
EnsureReturnsEarly ==
    /\ pc = "begin" /\ req.op = "Ensure"
    /\ IF enabled
       THEN pc' = "idle" /\ UNCHANGED fresh
       ELSE pc' = "portal" /\ fresh' = Built(config)
    /\ UNCHANGED <<engine, enabled, config, queue, req, old, retry, pump, client, outside>>

\* Ensure: armed already, or build an engine and start it.
EnsureBegins ==
    /\ pc = "begin" /\ req.op = "Ensure"
    /\ IF enabled
       THEN pc' = "reply" /\ UNCHANGED fresh
       ELSE pc' = "portal" /\ fresh' = Built(config)
    /\ UNCHANGED <<engine, enabled, config, queue, req, old, retry, pump, client,
                   outside>>

\* Handler::install_engine_preserving_replay.
EnsureInstalls ==
    /\ pc = "install" /\ req.op = "Ensure"
    /\ engine' = Adopting(fresh, engine)
    /\ old' = Adopting(engine, fresh)
    /\ fresh' = NoEngine
    /\ enabled' = TRUE
    /\ pc' = "drop"
    /\ UNCHANGED <<config, queue, req, retry, pump, client, outside>>

EnsureFails(cancelled) ==
    /\ pc = "portal" /\ req.op = "Ensure"
    /\ fresh' = NoEngine
    /\ retry' = IF req.retries > 0 /\ ~ cancelled THEN req.retries - 1 ELSE NoRetry
    /\ pc' = "refuse"
    /\ UNCHANGED <<engine, enabled, config, queue, req, old, pump, client, outside>>

\* A fault: the engine goes without its session being stopped.
DisableDrops ==
    /\ pc = "begin" /\ req.op = "Disable"
    /\ enabled' = FALSE
    /\ engine' = Built(config)
    /\ old' = NoEngine
    /\ muxers' = muxers - One(engine.rec)
    /\ pc' = "drop"
    /\ UNCHANGED <<config, queue, req, fresh, retry, pump, client, shown, sessions>>

\* Handler::disable_capture_detach.
DisableDetaches ==
    /\ pc = "begin" /\ req.op = "Disable"
    /\ enabled' = FALSE
    /\ engine' = Built(config)
    /\ old' = [Cut(engine) EXCEPT !.ring = {}]
    /\ muxers' = muxers - One(engine.rec)
    /\ pc' = "drop"
    /\ UNCHANGED <<config, queue, req, fresh, retry, pump, client, shown, sessions>>

\* Restart: Handler::detach_engine_for_stop, unless disarmed meanwhile.
RestartDetaches ==
    /\ pc = "begin" /\ req.op = "Restart"
    /\ IF enabled
       THEN /\ engine' = Built(config)
            /\ old' = Cut(engine)
            /\ muxers' = muxers - One(engine.rec)
            /\ pc' = "stop"
       ELSE /\ pc' = "idle"
            /\ UNCHANGED <<engine, old, muxers>>
    /\ UNCHANGED <<enabled, config, queue, req, fresh, retry, pump, client, shown,
                   sessions>>

\* The old session is stopped off the lock, and a new engine built.
RestartStops ==
    /\ pc = "stop"
    /\ sessions' = sessions - One(Running(old))
    /\ old' = [old EXCEPT !.run = "off"]
    /\ fresh' = Built(config)
    /\ pc' = "portal"
    /\ UNCHANGED <<engine, enabled, config, queue, req, retry, pump, client, shown,
                   muxers>>

\* A fault: the new engine is installed with its own, empty, ring.
RestartForgetsReplay ==
    /\ pc = "install" /\ req.op = "Restart"
    /\ engine' = fresh
    /\ old' = Cut(engine)
    /\ muxers' = muxers - One(engine.rec)
    /\ fresh' = NoEngine
    /\ enabled' = TRUE
    /\ pc' = "drop"
    /\ UNCHANGED <<config, queue, req, retry, pump, client, shown, sessions>>

\* The new engine adopts what the detached one holds and replaces the
\* placeholder; a recording begun on the placeholder is cut.
RestartInstalls ==
    /\ pc = "install" /\ req.op = "Restart"
    /\ engine' = Adopting(fresh, old)
    /\ old' = Cut(engine)
    /\ muxers' = muxers - One(engine.rec)
    /\ fresh' = NoEngine
    /\ enabled' = TRUE
    /\ pc' = "drop"
    /\ UNCHANGED <<config, queue, req, retry, pump, client, shown, sessions>>

\* The stopped engine goes back, so that what it buffered can be saved.
RestartFails(cancelled) ==
    /\ pc = "portal" /\ req.op = "Restart"
    /\ engine' = old
    /\ old' = Cut(engine)
    /\ muxers' = muxers - One(engine.rec)
    /\ fresh' = NoEngine
    /\ enabled' = TRUE
    /\ pc' = "drop"
    /\ UNCHANGED <<config, queue, req, retry, pump, client, shown, sessions>>

\* Swap: the engine of the request is started first if the buffer is armed.
SwapBegins ==
    /\ pc = "begin" /\ req.op = "Swap"
    /\ fresh' = Built(req.enc)
    /\ pc' = IF enabled THEN "portal" ELSE "install"
    /\ UNCHANGED <<engine, enabled, config, queue, req, old, retry, pump, client,
                   outside>>

SwapFails(cancelled) ==
    /\ pc = "portal" /\ req.op = "Swap"
    /\ fresh' = NoEngine
    /\ pc' = "refuse"
    /\ UNCHANGED <<engine, enabled, config, queue, req, old, retry, pump, client,
                   outside>>

\* Handler::cut_active_recording and exchange_engine: a clean cut.
SwapInstalls ==
    /\ pc = "install" /\ req.op = "Swap"
    /\ engine' = fresh
    /\ old' = Cut(engine)
    /\ muxers' = muxers - One(engine.rec)
    /\ fresh' = NoEngine
    /\ enabled' = Running(fresh)
    /\ pc' = "drop"
    /\ UNCHANGED <<config, queue, req, retry, pump, client, shown, sessions>>

\* Engine::start returns: the user picked a screen, or a token did.
PortalGrants ==
    /\ pc = "portal"
    /\ fresh' = [fresh EXCEPT !.run = "live"]
    /\ sessions' = sessions + 1
    /\ pc' = "install"
    /\ UNCHANGED <<engine, enabled, config, queue, req, old, retry, pump, client,
                   shown, muxers>>

PortalRefuses ==
    \E cancelled \in BOOLEAN :
        EnsureFails(cancelled) \/ RestartFails(cancelled) \/ SwapFails(cancelled)

\* The outgoing engine is stopped off the lock, and dropped.
StopOutgoing ==
    /\ pc = "drop"
    /\ sessions' = sessions - One(Running(old))
    /\ old' = NoEngine
    /\ pc' = "announce"
    /\ UNCHANGED <<engine, enabled, config, queue, req, fresh, retry, pump, client,
                   shown, muxers>>

\* A fault: only arming is worth a broadcast.
AnnounceArming ==
    /\ pc = "announce"
    /\ shown' = (shown \/ req.op = "Ensure")
    /\ pc' = "reply"
    /\ UNCHANGED <<engine, enabled, config, queue, req, fresh, old, retry, pump,
                   client, sessions, muxers>>

\* "Broadcast BEFORE replying": BufferState, or CaptureRestarted.
Announce ==
    /\ pc = "announce"
    /\ shown' = CASE req.op = "Ensure" -> TRUE
                  [] req.op = "Disable" -> FALSE
                  [] OTHER -> shown
    /\ pc' = "reply"
    /\ UNCHANGED <<engine, enabled, config, queue, req, fresh, old, retry, pump,
                   client, sessions, muxers>>

\* The outcome, or the error, to whoever still waits for it.
Reply ==
    /\ pc \in {"reply", "refuse"}
    /\ client' = [c \in Clients |-> IF c = req.reply THEN [client[c] EXCEPT !.at = "idle"]
                                                     ELSE client[c]]
    /\ pc' = "idle"
    /\ UNCHANGED <<engine, enabled, config, queue, req, fresh, old, retry, pump,
                   outside>>

Supervisor ==
    \/ Receive \/ RetryDue
    \/ EnsureBegins \/ EnsureInstalls
    \/ DisableDetaches
    \/ RestartDetaches \/ RestartStops \/ RestartInstalls
    \/ SwapBegins \/ SwapInstalls
    \/ PortalGrants \/ PortalRefuses
    \/ StopOutgoing \/ Announce \/ Reply

-----------------------------------------------------------------------------
(* The pump thread (server.rs serve): every pass drains the engine and     *)
(* looks at the watchdog; every twelfth also looks for a game.             *)

Probe ==
    /\ AutoArm /\ Room
    /\ pump.at = "probe"
    /\ pump' = [pump EXCEPT !.at = "act", !.saw = enabled]
    /\ UNCHANGED <<engine, enabled, config, queue, supervisor, client, outside>>

\* A game is in the foreground.
SeesGame ==
    /\ pump.at = "act"
    /\ pump' = [pump EXCEPT !.at = "drain",
                            !.not_game = 0,
                            !.auto_armed = @ \/ ~ pump.saw,
                            !.quiet = IF pump.saw THEN @ ELSE 0]
    /\ IF pump.saw \/ Busy THEN UNCHANGED queue ELSE Send(Ask("Ensure", Nobody))
    /\ UNCHANGED <<engine, enabled, config, supervisor, client, outside>>

SeesNoGame ==
    /\ pump.at = "act"
    /\ LET counting == pump.saw /\ pump.auto_armed
           gone == counting /\ pump.not_game + 1 >= DisarmProbes
       IN  /\ pump' = [pump EXCEPT
                          !.at = "drain",
                          !.not_game = IF counting /\ ~ gone THEN @ + 1 ELSE 0,
                          !.auto_armed = @ /\ pump.saw /\ ~ gone]
           /\ IF gone THEN Send(Ask("Disable", Nobody)) ELSE UNCHANGED queue
    /\ UNCHANGED <<engine, enabled, config, supervisor, client, outside>>

PassEnds(quiet, cooling) ==
    /\ pump.at \in {"probe", "drain"}
    /\ pump' = [pump EXCEPT !.at = "probe", !.quiet = quiet, !.cooling = cooling]

PumpDrains ==
    /\ engine.run = "live"
    /\ \E broke \in MayBreak(engine) :
          /\ engine' = Drained(engine, broke)
          /\ muxers' = muxers - One(broke)
    /\ PassEnds(0, pump.cooling)
    /\ UNCHANGED <<enabled, config, queue, supervisor, client, shown, sessions>>

\* No frame this pass, and nothing to do about it yet.
PumpWaits ==
    /\ engine.run # "live"
    /\ ~ enabled \/ pump.quiet < Patience \/ pump.cooling
    /\ PassEnds(IF pump.quiet < Patience THEN pump.quiet + 1 ELSE Patience, pump.cooling)
    /\ UNCHANGED <<engine, enabled, config, queue, supervisor, client, outside>>

\* A fault: the watchdog asks whether a session runs, not whether it should.
PumpRestartsRunning ==
    /\ engine.run = "stalled"
    /\ enabled /\ pump.quiet >= Patience /\ ~ pump.cooling
    /\ Send(Ask("Restart", Nobody))
    /\ PassEnds(0, TRUE)
    /\ UNCHANGED <<engine, enabled, config, supervisor, client, outside>>

\* The watchdog: armed, and no frame for too long.
PumpRestarts ==
    /\ engine.run # "live"
    /\ enabled /\ pump.quiet >= Patience /\ ~ pump.cooling
    /\ Send(Ask("Restart", Nobody))
    /\ PassEnds(0, TRUE)
    /\ UNCHANGED <<engine, enabled, config, supervisor, client, outside>>

\* restart_cooldown_until has passed.  (Room bounds the restarts that pile up
\* behind a portal that does not answer.)
CooldownElapses ==
    /\ pump.cooling /\ Room
    /\ pump' = [pump EXCEPT !.cooling = FALSE]
    /\ UNCHANGED <<engine, enabled, config, queue, supervisor, client, outside>>

PumpThread == Probe \/ SeesGame \/ SeesNoGame \/ PumpDrains \/ PumpWaits \/ PumpRestarts

-----------------------------------------------------------------------------
(* The connection threads (server.rs handle_connection).  Every command    *)
(* that looks at the engine drains it first.                               *)

At(c, where) == client[c].at = where

Goes(c, where) == client' = [client EXCEPT ![c].at = where]

\* Status, Subscribe, Mark, Screenshot.
Query(c) ==
    /\ At(c, "idle")
    /\ \E broke \in MayBreak(engine) :
          /\ engine' = Drained(engine, broke)
          /\ muxers' = muxers - One(broke)
    /\ UNCHANGED <<enabled, config, queue, supervisor, pump, client, shown, sessions>>

\* Handler::handle_toggle_record.  The file may fail to open.
ToggleRecord(c) ==
    /\ At(c, "idle")
    /\ \E broke \in MayBreak(engine), opens \in BOOLEAN :
          LET e == Drained(engine, broke)
              rec == ~ e.rec /\ opens
          IN  /\ engine' = [e EXCEPT !.rec = rec]
              /\ muxers' = muxers - One(engine.rec) + One(rec)
    /\ UNCHANGED <<enabled, config, queue, supervisor, pump, client, shown, sessions>>

\* save_flow: the clip is selected under the lock, and written off it.
SaveBegins(c) ==
    /\ At(c, "idle")
    /\ \E broke \in MayBreak(engine) :
          /\ engine' = Drained(engine, broke)
          /\ muxers' = muxers - One(broke)
    /\ engine'.ring # {}
    /\ Goes(c, "saving")
    /\ UNCHANGED <<enabled, config, queue, supervisor, pump, shown, sessions>>

\* A file that was not written does not clear the buffer.
SaveEnds(c, written) ==
    /\ At(c, "saving")
    /\ engine' = IF written /\ ClearOnSave THEN [engine EXCEPT !.ring = {}] ELSE engine
    /\ Goes(c, "idle")
    /\ UNCHANGED <<enabled, config, queue, supervisor, pump, outside>>

\* set_buffer_flow.
SetBuffer(c, on) ==
    /\ At(c, "idle") /\ Room
    /\ Send(Ask(IF on THEN "Ensure" ELSE "Disable", c))
    /\ Goes(c, "waiting")
    /\ UNCHANGED <<engine, enabled, config, supervisor, pump, outside>>

\* apply_config: the new configuration is shared and an engine built for it
\* before the request is sent.
SetConfig(c, e) ==
    /\ At(c, "idle")
    /\ e # config
    /\ config' = e
    /\ client' = [client EXCEPT ![c] = [at |-> "built", enc |-> e]]
    /\ UNCHANGED <<engine, enabled, queue, supervisor, pump, outside>>

SendSwap(c) ==
    /\ At(c, "built") /\ Room
    /\ Send([Ask("Swap", c) EXCEPT !.enc = client[c].enc])
    /\ client' = [client EXCEPT ![c] = [at |-> "waiting", enc |-> BootEncoder]]
    /\ UNCHANGED <<engine, enabled, config, supervisor, pump, outside>>

\* arm_wait has passed: the receiver is dropped, a late answer goes nowhere.
GivesUp(c) ==
    LET Forget(r) == IF r.reply = c THEN [r EXCEPT !.reply = Nobody] ELSE r
    IN  /\ At(c, "waiting")
        /\ queue' = [i \in DOMAIN queue |-> Forget(queue[i])]
        /\ req' = Forget(req)
        /\ Goes(c, "idle")
        /\ UNCHANGED <<engine, enabled, config, pc, fresh, old, retry, pump, outside>>

Connection(c) ==
    \/ Query(c) \/ ToggleRecord(c)
    \/ SaveBegins(c) \/ (\E written \in BOOLEAN : SaveEnds(c, written))
    \/ (\E on \in BOOLEAN : SetBuffer(c, on))
    \/ (\E e \in Encoders : SetConfig(c, e)) \/ SendSwap(c)
    \/ GivesUp(c)

\* Suspend, an output change: the session stays open and goes quiet.
Stall ==
    /\ engine.run = "live"
    /\ engine' = [engine EXCEPT !.run = "stalled"]
    /\ UNCHANGED <<enabled, config, queue, supervisor, pump, client, outside>>

-----------------------------------------------------------------------------

Next ==
    \/ Supervisor
    \/ PumpThread \/ CooldownElapses
    \/ \E c \in Clients : Connection(c)
    \/ Stall

Spec == Init /\ [][Next]_vars

\* The threads run, sleeps and the portal end.  That the portal starts a
\* session again and again when asked is up to the desktop.
FairSpec ==
    /\ Spec
    /\ WF_vars(Supervisor)
    /\ WF_vars(PumpThread)
    /\ SF_vars(CooldownElapses)
    /\ SF_vars(PortalGrants)

-----------------------------------------------------------------------------

TypeOK ==
    /\ engine \in Engine /\ fresh \in Engine /\ old \in Engine
    /\ enabled \in BOOLEAN
    /\ config \in Encoders
    /\ queue \in Seq(Request)
    /\ pc \in {"idle", "begin", "portal", "install", "stop", "drop", "announce",
               "reply", "refuse"}
    /\ req \in Request
    /\ retry \in {NoRetry} \cup 0..Retries
    /\ pump \in [at : {"probe", "act", "drain"}, saw : BOOLEAN, auto_armed : BOOLEAN,
                 not_game : 0..DisarmProbes, quiet : 0..Patience, cooling : BOOLEAN]
    /\ client \in [Clients -> [at : {"idle", "saving", "built", "waiting"},
                               enc : Encoders]]
    /\ shown \in BOOLEAN
    /\ sessions \in Nat /\ muxers \in Nat

\* Every capture session that is open belongs to an engine somebody still
\* holds and will stop: none outlives its engine (an engine has no destructor
\* that stops it).
NoLeakedCapture ==
    sessions = One(Running(engine)) + One(Running(fresh)) + One(Running(old))

\* handler.rs:158 "never drop an open muxer with the outgoing engine": every
\* open recording file has a recorder that can still finish it, and the
\* supervisor's engines never carry one away.
NoOpenMuxerDropped ==
    /\ muxers = One(engine.rec) + One(fresh.rec) + One(old.rec)
    /\ ~ fresh.rec /\ ~ old.rec

\* Whatever is open, a session or a file, somebody will still close.
NothingLeaked == NoLeakedCapture /\ NoOpenMuxerDropped

\* Nothing is captured or kept while the buffer is disarmed: the engine in use
\* runs only when armed, and between requests no other engine exists.
DisarmedMeansStopped ==
    /\ ~ enabled => engine.run = "off" /\ engine.ring = {}
    /\ pc = "idle" => fresh = NoEngine /\ old = NoEngine

\* Between requests the subscribers know whether the buffer is armed, and a
\* client that is answered has been overtaken by the broadcast
\* (supervisor.rs:163 "Broadcast BEFORE replying").
ArmedStateShown ==
    /\ pc \in {"idle", "begin"} => shown = enabled
    /\ pc = "reply" /\ req.op = "Ensure" => shown
    /\ pc = "reply" /\ req.op = "Disable" => ~ shown

\* The armed flag is true to what runs, and what subscribers see to the flag.
ArmedIsTrue == DisarmedMeansStopped /\ ArmedStateShown

\* Recovery never discards footage: whatever the supervisor does for an arm
\* or a restart, what was buffered is still held by some engine (supervisor.rs
\* :15).  And only a request to disarm disarms: no failed start, restart or
\* change of settings leaves the user without the buffer they armed.
RecoveryKeepsFootage ==
    [][/\ pc' # pc /\ req.op \in {"Ensure", "Restart"} => Footage \subseteq Footage'
       /\ enabled /\ ~ enabled' => req.op = "Disable"]_vars

\* An armed buffer whose capture died is captured again, or was disarmed: the
\* watchdog gets a session through, however many restarts fail, requests come
\* in between or stalls follow (server.rs:211 "the answer to the 'it silently
\* stopped recording' failure mode").
StallRecovers ==
    enabled /\ engine.run # "live" ~> engine.run = "live" \/ ~ enabled

\* No client is left waiting on a request that was lost.
RequestAnswered ==
    \A c \in Clients : At(c, "waiting") ~> ~ At(c, "waiting")

=============================================================================
