------------------------------ MODULE Settings ------------------------------
(***************************************************************************)
(* The configuration and who changes it: the settings page                  *)
(* (settings_view.rs, settings.rs) with its worker threads, `ord config     *)
(* set`, and the daemon's apply_config, which persists the difference to    *)
(* the base file, restarts capture or resizes the ring, and answers.  What  *)
(* the supervisor does with a swap is in CaptureControl: here it adopts the *)
(* new engine or fails.                                                     *)
(*                                                                          *)
(* A configuration is one value per group of fields that is treated alike.  *)
(***************************************************************************)
EXTENDS Naturals, Sequences, Functions

CONSTANTS
    Base,        \* the configuration of the user's own file
    Edits,       \* what can be changed: records [field, value]
    CliEdits,    \* bound: those of them that are made by `ord config set`
    Unset,       \* the value of an optional field that is not given
    None,
    MaxRequests, \* bound: requests sent to the daemon
    MaxEdits,    \* bound: changes of a draft
    MaxStops     \* bound: restarts of the daemon or, on its own account, of capture

CaptureFields == {"codec", "hdr", "length"}
AudioFields == {"audio"}
OverlayFields == {"overlay"}
OptionalFields == {"folder"} \* one of those that need not be set
Fields == CaptureFields \cup AudioFields \cup OverlayFields \cup OptionalFields

Restarting == {"codec", "hdr"} \cup AudioFields \* their change needs a new capture session
Patch(config, e) == [config EXCEPT ![e.field] = e.value]

\* Fields that are fine one by one: "capture.hdr requires an HEVC or AV1 codec".
H264 == 1
On == 2
Acceptable(c) == ~(c["codec"] = H264 /\ c["hdr"] = On)

ASSUME SettingsAssumption ==
    /\ Base = [f \in Fields |-> Base[f]]
    /\ \A e \in Edits : DOMAIN e = {"field", "value"} /\ e.field \in Fields
    /\ CliEdits \subseteq Edits
    /\ {MaxRequests, MaxEdits, MaxStops} \subseteq Nat

VARIABLES
    config,    \* the effective configuration
    overrides, \* the overrides file: field -> value
    engine,    \* the settings the capture engine was built from, and the ring's length
    swaps,     \* CaptureRequest::Swap, in order
    requests,  \* every request so far: who, cmd, config; stage; reply
    page,      \* the settings page, None while it is closed
    cli,       \* `ord config set`: what it is doing
    disturbed, \* history: a swap failed, or two changes were under way at once
    used       \* bounds: edits and restarts so far

daemon == <<config, overrides, engine, swaps, disturbed>>
vars == <<config, overrides, engine, swaps, requests, page, cli, disturbed, used>>

(***************************************************************************)
(* The layers.  A field that is not set is not written, so a difference     *)
(* cannot say that a field the base gives is to be unset.                   *)
(***************************************************************************)
Overriding(desired) == {f \in Fields : desired[f] # Unset /\ desired[f] # Base[f]}
DiffOverrides(desired) == Restrict(desired, Overriding(desired))
MergeToml(base, over) == [f \in Fields |-> IF f \in DOMAIN over THEN over[f] ELSE base[f]]
FromLayers(over) == MergeToml(Base, over)
EngineOf(c) == Restrict(c, Restarting \cup {"length"})

(***************************************************************************)
(* Requests: each of the page has a connection and a thread of its own.     *)
(***************************************************************************)
Request(who, cmd, c) == [who |-> who, cmd |-> cmd, config |-> c, stage |-> "sent", reply |-> None]
Send(new) == /\ Len(requests) + Len(new) <= MaxRequests
             /\ requests' = requests \o new
Config(c) == [kind |-> "config", config |-> c]
Outputs == [kind |-> "outputs"]
Error == [kind |-> "error"]             \* the daemon's answer
Unreachable == [kind |-> "unreachable"] \* no answer

Own == 0 \* in place of a request: the supervisor itself

At(r, stage) == [requests EXCEPT ![r].stage = stage]
Answered(r, reply) ==
    [requests EXCEPT ![r].stage = "answered", ![r].reply = reply, ![r].config = Base]
Over(r) == [requests EXCEPT ![r].stage = "over", ![r].reply = None]
\* A change the daemon has accepted and not finished.
UnderWay(r) == requests[r].cmd = "set" /\ requests[r].stage \in {"built", "swapping", "resizing"}

(***************************************************************************)
(* The daemon.                                                              *)
(***************************************************************************)
\* GetConfig and ListOutputs.
Serve(r) ==
    /\ requests[r].stage = "sent" /\ requests[r].cmd \in {"get", "outputs"}
    /\ requests' = Answered(r, IF requests[r].cmd = "get" THEN Config(config) ELSE Outputs)
    /\ UNCHANGED <<daemon, page, cli, used>>

\* apply_config: what it refuses.
Refuse(r) ==
    /\ requests[r].stage = "sent" /\ requests[r].cmd = "set"
    /\ ~Acceptable(requests[r].config)
    /\ requests' = Answered(r, Error)
    /\ UNCHANGED <<daemon, page, cli, used>>

\* A fault: a change of the audio routing restarts nothing.
ForgetsAudio(r) ==
    LET new == requests[r].config
        restart == \E f \in Restarting \ AudioFields : config[f] # new[f]
    IN  /\ requests[r].stage = "sent" /\ requests[r].cmd = "set" /\ Acceptable(new)
        /\ overrides' = DiffOverrides(new) /\ config' = new
        /\ requests' = IF restart THEN At(r, "built")
                       ELSE IF config["length"] # new["length"] THEN At(r, "resizing")
                       ELSE Answered(r, Config(new))
        /\ disturbed' = (disturbed \/ swaps # <<>> \/ \E q \in DOMAIN requests : UnderWay(q))
        /\ UNCHANGED <<engine, swaps, page, cli, used>>

\* apply_config under the lock of the context: persist, share, build.
Apply(r) ==
    LET new == requests[r].config
        restart == \E f \in Restarting : config[f] # new[f]
    IN  /\ requests[r].stage = "sent" /\ requests[r].cmd = "set" /\ Acceptable(new)
        /\ overrides' = DiffOverrides(new) /\ config' = new
        /\ requests' = IF restart THEN At(r, "built")
                       ELSE IF config["length"] # new["length"] THEN At(r, "resizing")
                       ELSE Answered(r, Config(new))
        /\ disturbed' = (disturbed \/ swaps # <<>> \/ \E q \in DOMAIN requests : UnderWay(q))
        /\ UNCHANGED <<engine, swaps, page, cli, used>>

\* A fault: the configuration is shared before the overrides are written.
SharedAnyway(r) ==
    /\ requests[r].stage = "sent" /\ requests[r].cmd = "set"
    /\ Acceptable(requests[r].config)
    /\ config' = requests[r].config
    /\ requests' = Answered(r, Error)
    /\ UNCHANGED <<overrides, engine, swaps, disturbed, page, cli, used>>

\* apply_config: the overrides cannot be written, and nothing else has changed.
ApplyFails(r) ==
    /\ requests[r].stage = "sent" /\ requests[r].cmd = "set"
    /\ Acceptable(requests[r].config)
    /\ requests' = Answered(r, Error)
    /\ UNCHANGED <<daemon, page, cli, used>>

\* The lock is released before the engine is handed to the supervisor, or the
\* ring resized.
SendSwap(r) ==
    /\ requests[r].stage = "built"
    /\ swaps' = Append(swaps, [id |-> r, engine |-> EngineOf(requests[r].config)])
    /\ requests' = At(r, "swapping")
    /\ UNCHANGED <<config, overrides, engine, page, cli, disturbed, used>>

Resize(r) ==
    /\ requests[r].stage = "resizing"
    /\ engine' = [engine EXCEPT !["length"] = requests[r].config["length"]]
    /\ requests' = Answered(r, Config(requests[r].config))
    /\ UNCHANGED <<config, overrides, swaps, page, cli, disturbed, used>>

\* The supervisor arms or restarts capture on its own account, with an engine it
\* builds from the settings in force.
BuildEngine ==
    /\ used.stops < MaxStops /\ used' = [used EXCEPT !.stops = @ + 1]
    /\ swaps = <<>> /\ swaps' = <<[id |-> Own, engine |-> EngineOf(config)]>>
    /\ UNCHANGED <<config, overrides, engine, disturbed, requests, page, cli>>

\* The new engine starts and replaces the old one, or that keeps running; the
\* requester may have stopped waiting.
Adopt ==
    LET s == Head(swaps)
        waiting == s.id # Own /\ requests[s.id].stage = "swapping"
        tell(reply) == IF waiting THEN Answered(s.id, reply) ELSE requests
    IN  /\ swaps # <<>> /\ swaps' = Tail(swaps)
        /\ \/ /\ engine' = s.engine /\ UNCHANGED disturbed
              /\ requests' = tell(Config(requests[s.id].config))
           \/ /\ disturbed' = (disturbed \/ s.id # Own) /\ UNCHANGED engine
              /\ requests' = tell(Error)
        /\ UNCHANGED <<config, overrides, page, cli, used>>

\* A fault: the requester waits for the supervisor however long that takes.
WaitForever(r) == requests[r].stage = "swapping" /\ FALSE

\* arm_wait has passed: the change goes on without its requester.
StopWaiting(r) ==
    /\ requests[r].stage = "swapping"
    /\ requests' = Answered(r, Error)
    /\ UNCHANGED <<daemon, page, cli, used>>

\* The daemon dies; the next one loads the layers.
Restart ==
    /\ used.stops < MaxStops /\ used' = [used EXCEPT !.stops = @ + 1]
    /\ config' = FromLayers(overrides) /\ engine' = EngineOf(FromLayers(overrides))
    /\ swaps' = <<>> /\ disturbed' = FALSE
    /\ requests' = [r \in DOMAIN requests |->
                      IF requests[r].stage \in {"answered", "over"} THEN requests[r]
                      ELSE Answered(r, Unreachable)[r]]
    /\ UNCHANGED <<overrides, page, cli>>

(***************************************************************************)
(* The page.                                                                *)
(***************************************************************************)
IsOpen == page # None
NewPage == [loaded |-> FALSE, saved |-> Base, draft |-> Base,
            busy |-> FALSE, error |-> FALSE, browsing |-> FALSE]
Dirty == page.draft # page.saved
Problems == ~Acceptable(page.draft)

OpenSettings ==
    /\ ~IsOpen /\ page' = NewPage
    /\ Send(<<Request("page", "get", Base)>>)
    /\ UNCHANGED <<daemon, cli, used>>

Back ==
    /\ IsOpen /\ page' = None
    /\ UNCHANGED <<daemon, requests, cli, used>>

\* A row of the form is changed, also while an answer is awaited.
Row(e) ==
    /\ IsOpen /\ page.loaded /\ page.draft[e.field] # e.value
    /\ used.edits < MaxEdits /\ used' = [used EXCEPT !.edits = @ + 1]
    /\ page' = [page EXCEPT !.draft = Patch(@, e)]
    /\ UNCHANGED <<daemon, requests, cli>>

\* The rows of the form, by section; none looks at another.
EditCapture(e) == e.field = "codec" /\ Row(e)
EditLength(e) == e.field = "length" /\ Row(e)
EditAdvanced(e) == e.field = "hdr" /\ Row(e)
EditAudio(e) == e.field \in AudioFields /\ Row(e)
EditOverlay(e) == e.field \in OverlayFields /\ Row(e)
EditOptional(e) == e.field \in OptionalFields /\ Row(e)

\* A profile stamps the codec and leaves HDR as it is.
ChooseProfile(e) == e.field = "codec" /\ Row(e)

\* The file dialog, in a thread: its answer fills the draft as it is by then.
StartBrowse ==
    /\ IsOpen /\ page.loaded /\ ~page.browsing
    /\ used.edits < MaxEdits /\ used' = [used EXCEPT !.edits = @ + 1]
    /\ page' = [page EXCEPT !.browsing = TRUE]
    /\ UNCHANGED <<daemon, requests, cli>>

PollBrowse ==
    /\ IsOpen /\ page.browsing
    /\ \/ page' = [page EXCEPT !.browsing = FALSE, !.draft["folder"] = 2]
       \/ page' = [page EXCEPT !.browsing = FALSE]
       \/ page' = [page EXCEPT !.browsing = FALSE, !.error = TRUE]
    /\ UNCHANGED <<daemon, requests, cli, used>>

Revert ==
    /\ IsOpen /\ page.loaded /\ Dirty /\ ~page.busy
    /\ page' = [page EXCEPT !.draft = page.saved]
    /\ UNCHANGED <<daemon, requests, cli, used>>

ResetToBase ==
    /\ IsOpen /\ page.loaded /\ ~page.busy /\ page.draft # Base
    /\ page' = [page EXCEPT !.draft = Base]
    /\ UNCHANGED <<daemon, requests, cli, used>>

PressApply ==
    /\ IsOpen /\ page.loaded /\ Dirty /\ ~Problems /\ ~page.busy
    /\ page' = [page EXCEPT !.busy = TRUE]
    /\ Send(<<Request("page", "set", page.draft)>>)
    /\ UNCHANGED <<daemon, cli, used>>

\* By the button, and once by the opening of the page.
RefreshOutputs ==
    /\ IsOpen
    /\ Send(<<Request("page", "outputs", Base)>>)
    /\ UNCHANGED <<daemon, page, cli, used>>

\* drain_ctl: the replies, in whatever order the threads deliver them, are for the
\* page that is open by then.
OnReply(reply) ==
    CASE reply.kind = "config" ->
           [page EXCEPT !.loaded = TRUE, !.saved = reply.config, !.draft = reply.config,
                        !.busy = FALSE, !.error = FALSE]
      [] reply.kind = "outputs" -> page
      [] reply.kind = "error" -> IF page.busy THEN [page EXCEPT !.busy = FALSE, !.error = TRUE] ELSE page
      [] reply.kind = "unreachable" ->
           IF page.busy \/ ~page.loaded THEN [page EXCEPT !.busy = FALSE, !.error = TRUE] ELSE page

DrainCtl(r) ==
    /\ requests[r].who = "page" /\ requests[r].stage = "answered"
    /\ requests' = Over(r)
    /\ page' = IF IsOpen THEN OnReply(requests[r].reply) ELSE page
    /\ UNCHANGED <<daemon, cli, used>>

(***************************************************************************)
(* `ord config set`: it reads, changes one field, and sends everything.     *)
(***************************************************************************)
CliRead ==
    /\ cli = "idle" /\ cli' = "reads"
    /\ Send(<<Request("cli", "get", Base)>>)
    /\ UNCHANGED <<daemon, page, used>>

CliSet(r, e) ==
    /\ requests[r].who = "cli" /\ requests[r].stage = "answered"
    /\ \/ /\ cli = "reads" /\ requests[r].reply.kind = "config" /\ cli' = "sets"
          /\ Len(requests) < MaxRequests
          /\ requests' = Append(Over(r),
                                Request("cli", "set", Patch(requests[r].reply.config, e)))
       \/ /\ cli = "sets" \/ requests[r].reply.kind # "config"
          /\ cli' = "done" /\ requests' = Over(r)
    /\ UNCHANGED <<daemon, page, used>>

(***************************************************************************)
(* The specification.                                                       *)
(***************************************************************************)
Init ==
    /\ overrides = DiffOverrides(Base) /\ config = Base /\ engine = EngineOf(Base)
    /\ swaps = <<>> /\ requests = <<>> /\ page = None /\ cli = "idle"
    /\ disturbed = FALSE /\ used = [edits |-> 0, stops |-> 0]

Connection(r) == Serve(r) \/ Refuse(r) \/ Apply(r) \/ ApplyFails(r)
                 \/ SendSwap(r) \/ Resize(r) \/ StopWaiting(r)
Form == \/ \E e \in Edits : EditCapture(e) \/ EditLength(e) \/ EditAdvanced(e) \/ EditAudio(e)
                            \/ EditOverlay(e) \/ EditOptional(e) \/ ChooseProfile(e)
        \/ StartBrowse \/ PollBrowse \/ Revert \/ ResetToBase

Next ==
    \/ \E r \in DOMAIN requests : Connection(r) \/ DrainCtl(r) \/ \E e \in CliEdits : CliSet(r, e)
    \/ BuildEngine \/ Adopt \/ Restart
    \/ OpenSettings \/ Back \/ Form \/ PressApply \/ RefreshOutputs \/ CliRead

Spec == Init /\ [][Next]_vars

\* Every connection's thread runs, its wait for the supervisor is bounded, and the
\* window draws frames.  Nothing is assumed of the supervisor: a dialog may stay open.
FairSpec ==
    /\ Spec
    /\ \A r \in 1..MaxRequests :
         /\ WF_vars(r \in DOMAIN requests /\ Connection(r))
         /\ WF_vars(r \in DOMAIN requests /\ DrainCtl(r))

(***************************************************************************)
(* Properties.                                                              *)
(***************************************************************************)
Values == {Base[f] : f \in Fields} \cup {Unset} \cup {e.value : e \in Edits} \cup {2}
Configs == [Fields -> Values]
Replies == [kind : {"config"}, config : Configs]
           \cup [kind : {"outputs", "error", "unreachable"}] \cup {None}

\* Types; and every swap in the queue is a change somebody asked for.
TypeOK ==
    /\ config \in Configs /\ DOMAIN overrides \subseteq Fields
    /\ engine \in [Restarting \cup {"length"} -> Values]
    /\ \A i \in DOMAIN swaps : swaps[i].id # Own => requests[swaps[i].id].cmd = "set"
    /\ requests \in Seq([who : {"page", "cli"}, cmd : {"get", "outputs", "set"}, config : Configs,
                         stage : {"sent", "built", "swapping", "resizing", "answered", "over"},
                         reply : Replies])
    /\ IsOpen => page \in [loaded : BOOLEAN, saved : Configs, draft : Configs,
                           busy : BOOLEAN, error : BOOLEAN, browsing : BOOLEAN]
    /\ cli \in {"idle", "reads", "sets", "done"}

\* What the next start of the daemon loads is the configuration in force: a change
\* that is refused or cannot be written changes neither, one that is accepted
\* changes both.  Not covered: an optional field the base gives and a client unsets.
RestartLoads ==
    \A f \in Fields : \/ FromLayers(overrides)[f] = config[f]
                      \/ config[f] = Unset /\ Base[f] # Unset

\* When nothing is under way, capture runs with the settings in force, unless a
\* restart failed or two changes overlapped.
Quiet == swaps = <<>> /\ \A r \in DOMAIN requests : ~UnderWay(r)
EngineAgrees == Quiet /\ ~disturbed => engine = EngineOf(config)

\* "disable the footer until the daemon replies": it does, or the connection ends,
\* even when a restart of capture waits for the user.
BusyEnds == (IsOpen /\ page.busy) ~> (~IsOpen \/ ~page.busy)
=============================================================================
