---------------------------- MODULE SettingsProofs ----------------------------
(***************************************************************************)
(* What TLAPS proves of the configuration, for any file of the user's, any  *)
(* set of changes and any number of requests: the next start loads what is  *)
(* in force, and capture runs with it.                                      *)
(***************************************************************************)
EXTENDS Settings, TLAPS

Engines == [Restarting \cup {"length"} -> Values]
Stages == {"sent", "built", "swapping", "resizing", "answered", "over"}
Accepted == {"built", "swapping", "resizing"}
Entries == [who : {"page", "cli"}, cmd : {"get", "outputs", "set"}, config : Configs,
            stage : Stages, reply : Replies]
Answers == [kind : {"config"}, config : Configs] \cup [kind : {"outputs", "error", "unreachable"}]
Pages == [loaded : BOOLEAN, saved : Configs, draft : Configs,
          busy : BOOLEAN, error : BOOLEAN, browsing : BOOLEAN]

\* A swap in the queue is the supervisor's own, or a change somebody asked for.
Swaps(q) == [id : {Own} \cup {r \in DOMAIN q : q[r].cmd = "set"}, engine : Engines]

Typed ==
    /\ config \in Configs
    /\ DOMAIN overrides \subseteq Fields /\ \A f \in DOMAIN overrides : overrides[f] \in Values
    /\ engine \in Engines
    /\ requests \in Seq(Entries)
    /\ swaps \in Seq(Swaps(requests))
    /\ IsOpen => page \in Pages
    /\ cli \in {"idle", "reads", "sets", "done"}

\* An answer is one, and only changes are applied.
Sensible(q) ==
    \A r \in DOMAIN q : /\ q[r].stage = "answered" => q[r].reply \in Answers
                        /\ q[r].stage \in Accepted => q[r].cmd = "set"

\* What is under way carries the settings in force, and an engine that does not
\* run with them is about to be given them by a change somebody asked for.
Converges ==
    /\ \A r \in DOMAIN requests :
          requests[r].stage \in {"built", "resizing"} => requests[r].config = config
    /\ \A i \in DOMAIN swaps : swaps[i].engine = EngineOf(config)
    /\ \/ engine = EngineOf(config)
       \/ \E r \in DOMAIN requests : requests[r].stage = "built"
       \/ \E i \in DOMAIN swaps : swaps[i].id # Own
       \/ /\ \E r \in DOMAIN requests : requests[r].stage = "resizing"
          /\ \A f \in Restarting : engine[f] = config[f]

IInv ==
    /\ Typed
    /\ Sensible(requests)
    /\ ~disturbed => Converges

-----------------------------------------------------------------------------
(* Values.                                                                 *)

\* The user's file, and what a change makes of a configuration, are
\* configurations; an engine is built from any.
LEMMA ConfigValues ==
  /\ Base \in Configs
  /\ \A c \in Configs : EngineOf(c) \in Engines
  /\ \A c \in Configs, e \in Edits : Patch(c, e) \in Configs
  /\ \A c \in Configs : [c EXCEPT !["folder"] = 2] \in Configs
<1>1. Base \in Configs
  <2>1. \A f \in Fields : Base[f] \in Values
    BY DEF Values
  <2> QED BY <2>1, SettingsAssumption DEF Configs
<1>2. \A c \in Configs : EngineOf(c) \in Engines
  <2>1. Restarting \cup {"length"} \subseteq Fields
    BY DEF Fields, Restarting, CaptureFields, AudioFields
  <2> QED BY <2>1 DEF EngineOf, Restrict, Configs, Engines
<1>3. \A c \in Configs, e \in Edits : Patch(c, e) \in Configs
  <2>1. \A e \in Edits : e.value \in Values
    BY DEF Values
  <2> QED BY <2>1 DEF Patch, Configs
<1>4. \A c \in Configs : [c EXCEPT !["folder"] = 2] \in Configs
  <2>1. 2 \in Values
    BY DEF Values
  <2> QED BY <2>1 DEF Configs
<1> QED BY <1>1, <1>2, <1>3, <1>4

\* The difference that is written, laid over the base, is what was asked for,
\* but for an optional field that the base gives.
LEMMA LayersAgree ==
  ASSUME NEW c
  PROVE  /\ DOMAIN DiffOverrides(c) \subseteq Fields
         /\ \A f \in Fields : \/ FromLayers(DiffOverrides(c))[f] = c[f]
                              \/ c[f] = Unset /\ Base[f] # Unset
<1> DEFINE over == DiffOverrides(c)
<1>1. DOMAIN over = Overriding(c) /\ \A f \in Overriding(c) : over[f] = c[f]
  BY DEF DiffOverrides, Restrict
<1>2. \A f \in Fields : FromLayers(over)[f] = IF f \in DOMAIN over THEN over[f] ELSE Base[f]
  BY DEF FromLayers, MergeToml
<1>3. \A f \in Fields : f \in Overriding(c) <=> (c[f] # Unset /\ c[f] # Base[f])
  BY DEF Overriding
<1>4. Overriding(c) \subseteq Fields
  BY DEF Overriding
<1> HIDE DEF over
<1>5. \A f \in Fields : \/ FromLayers(over)[f] = c[f]
                        \/ c[f] = Unset /\ Base[f] # Unset
  BY <1>1, <1>2, <1>3
<1> QED BY <1>1, <1>4, <1>5 DEF over

\* What is loaded from overrides that are configurations is one.
LEMMA LayersFit ==
  ASSUME NEW over, \A f \in DOMAIN over \cap Fields : over[f] \in Values
  PROVE  FromLayers(over) \in Configs
<1> QED BY ConfigValues DEF FromLayers, MergeToml, Configs

\* A daemon that starts with the layers loads what was in force.
THEOREM WhatIsSavedIsLoaded == Spec => []RestartLoads
<1> DEFINE R == RestartLoads
<1>1. Init => R
  <2> SUFFICES ASSUME Init PROVE R
    OBVIOUS
  <2> QED BY LayersAgree DEF Init, RestartLoads
<1>2. R /\ [Next]_vars => R'
  <2> SUFFICES ASSUME R, [Next]_vars PROVE R'
    OBVIOUS
  <2>1. CASE UNCHANGED <<config, overrides>>
    BY <2>1 DEF RestartLoads, FromLayers, MergeToml
  <2>2. ASSUME NEW r \in DOMAIN requests, Apply(r)
        PROVE  R'
    <3>1. overrides' = DiffOverrides(config')
      BY <2>2 DEF Apply
    <3> QED BY <3>1, LayersAgree DEF RestartLoads, FromLayers, MergeToml
  <2>3. CASE Restart
    <3>1. config' = FromLayers(overrides) /\ overrides' = overrides
      BY <2>3 DEF Restart
    <3> QED BY <3>1 DEF RestartLoads, FromLayers, MergeToml
  <2>4. [Next]_vars => \/ UNCHANGED <<config, overrides>>
                       \/ \E r \in DOMAIN requests : Apply(r)
                       \/ Restart
    BY DEF Next, Connection, Form, vars, daemon, Serve, Refuse, ApplyFails, SendSwap, Resize,
           StopWaiting, DrainCtl, CliSet, BuildEngine, Adopt, OpenSettings, Back, EditCapture,
           EditLength, EditAdvanced, EditAudio, EditOverlay, EditOptional, ChooseProfile, Row,
           StartBrowse, PollBrowse, Revert, ResetToBase, PressApply, RefreshOutputs, CliRead
  <2> QED BY <2>1, <2>2, <2>3, <2>4
<1> QED BY <1>1, <1>2, PTL DEF Spec

-----------------------------------------------------------------------------
(* Requests.                                                               *)

\* Every request is still there, with its command.
Keeps(q) ==
    /\ q \in Seq(Entries) /\ DOMAIN requests \subseteq DOMAIN q
    /\ \A r \in DOMAIN requests : q[r].cmd = requests[r].cmd

\* Request r is at the stage, with the reply or the one it had; the others are
\* as they were.
Moves(q, r, stage) ==
    /\ Keeps(q) /\ DOMAIN q = DOMAIN requests
    /\ \A j \in DOMAIN requests \ {r} : q[j] = requests[j]
    /\ q[r].stage = stage

\* The steps of a request, by what they leave of the others.
LEMMA RequestSteps ==
  ASSUME requests \in Seq(Entries), NEW r \in DOMAIN requests
  PROVE  /\ \A stage \in Stages : /\ Moves(At(r, stage), r, stage)
                                  /\ At(r, stage)[r].config = requests[r].config
         /\ \A reply \in Replies : /\ Moves(Answered(r, reply), r, "answered")
                                   /\ Answered(r, reply)[r].reply = reply
         /\ Moves(Over(r), r, "over")
<1>0. requests[r] \in Entries
  OBVIOUS
<1>1. ASSUME NEW e \in Entries, e.cmd = requests[r].cmd
      PROVE  /\ Moves([requests EXCEPT ![r] = e], r, e.stage)
             /\ [requests EXCEPT ![r] = e][r] = e
  <2> DEFINE q == [requests EXCEPT ![r] = e]
  <2>1. q \in Seq(Entries) /\ DOMAIN q = DOMAIN requests /\ q[r] = e
    OBVIOUS
  <2>2. \A j \in DOMAIN requests \ {r} : q[j] = requests[j]
    OBVIOUS
  <2> HIDE DEF q
  <2>3. \A j \in DOMAIN requests : q[j].cmd = requests[j].cmd
    BY <1>1, <2>1, <2>2
  <2> QED BY <2>1, <2>2, <2>3 DEF Moves, Keeps, q
<1>2. ASSUME NEW stage \in Stages
      PROVE  Moves(At(r, stage), r, stage) /\ At(r, stage)[r].config = requests[r].config
  <2> DEFINE e == [requests[r] EXCEPT !.stage = stage]
  <2>1. /\ e \in Entries /\ e.cmd = requests[r].cmd /\ e.stage = stage
        /\ e.config = requests[r].config
    BY <1>0 DEF Entries
  <2>2. At(r, stage) = [requests EXCEPT ![r] = e]
    BY DEF At
  <2> HIDE DEF e
  <2> QED BY <1>1, <2>1, <2>2
<1>3. ASSUME NEW reply \in Replies
      PROVE  Moves(Answered(r, reply), r, "answered") /\ Answered(r, reply)[r].reply = reply
  <2> DEFINE e == [requests[r] EXCEPT !.stage = "answered", !.reply = reply, !.config = Base]
  <2>1. /\ e \in Entries /\ e.cmd = requests[r].cmd /\ e.stage = "answered"
        /\ e.reply = reply
    BY <1>0, ConfigValues DEF Entries, Stages
  <2>2. Answered(r, reply) = [requests EXCEPT ![r] = e]
    BY DEF Answered
  <2> HIDE DEF e
  <2> QED BY <1>1, <2>1, <2>2
<1>4. Moves(Over(r), r, "over")
  <2> DEFINE e == [requests[r] EXCEPT !.stage = "over", !.reply = None]
  <2>1. e \in Entries /\ e.cmd = requests[r].cmd /\ e.stage = "over"
    BY <1>0 DEF Entries, Stages, Replies
  <2>2. Over(r) = [requests EXCEPT ![r] = e]
    BY DEF Over
  <2> HIDE DEF e
  <2> QED BY <1>1, <2>1, <2>2
<1> QED BY <1>2, <1>3, <1>4

\* The queue of swaps is well formed for as long as requests are kept.
LEMMA SwapsFit ==
  ASSUME requests \in Seq(Entries), swaps \in Seq(Swaps(requests)), NEW q, Keeps(q)
  PROVE  swaps \in Seq(Swaps(q))
<1>1. Swaps(requests) \subseteq Swaps(q)
  BY DEF Keeps, Swaps
<1> QED BY <1>1

\* The daemon's answers, and what they say.
LEMMA AnswerValues ==
  /\ \A c \in Configs : Config(c) \in Answers
  /\ Outputs \in Answers /\ Error \in Answers /\ Unreachable \in Answers
  /\ Answers \subseteq Replies
  /\ \A a \in Answers : /\ a.kind \in {"config", "outputs", "error", "unreachable"}
                        /\ a.kind = "config" => a.config \in Configs
<1> QED BY DEF Answers, Replies, Config, Outputs, Error, Unreachable

\* A request that moves leaves the others sensible.
LEMMA MovingIsSensible ==
  ASSUME Sensible(requests), NEW r \in DOMAIN requests, NEW q, NEW stage, Moves(q, r, stage),
         stage = "answered" => q[r].reply \in Answers,
         stage \in Accepted => requests[r].cmd = "set"
  PROVE  Sensible(q)
<1> QED BY DEF Moves, Keeps, Sensible

\* What the page becomes is a page.
LEMMA PageSteps ==
  /\ NewPage \in Pages
  /\ \A p \in Pages, c \in Configs : [p EXCEPT !.draft = c] \in Pages
  /\ \A p \in Pages, b \in BOOLEAN : [p EXCEPT !.browsing = b] \in Pages
  /\ \A p \in Pages, b \in BOOLEAN : [p EXCEPT !.busy = b] \in Pages
  /\ \A p \in Pages, b \in BOOLEAN, e \in BOOLEAN : [p EXCEPT !.busy = b, !.error = e] \in Pages
  /\ \A p \in Pages, b \in BOOLEAN, e \in BOOLEAN : [p EXCEPT !.browsing = b, !.error = e] \in Pages
  /\ \A p \in Pages, c \in Configs, b \in BOOLEAN : [p EXCEPT !.browsing = b, !.draft = c] \in Pages
  /\ \A p \in Pages, c \in Configs :
        [p EXCEPT !.loaded = TRUE, !.saved = c, !.draft = c, !.busy = FALSE, !.error = FALSE] \in Pages
<1>1. Base \in Configs
  BY ConfigValues
<1> QED BY <1>1, Zenon DEF Pages, NewPage

\* drain_ctl leaves a page.
LEMMA ReplyToPage ==
  ASSUME page \in Pages, NEW a \in Answers
  PROVE  OnReply(a) \in Pages
<1>1. CASE a.kind = "config"
  BY <1>1, AnswerValues, PageSteps DEF OnReply
<1>2. CASE a.kind = "outputs"
  BY <1>2 DEF OnReply
<1>3. CASE a.kind = "error"
  <2>1. [page EXCEPT !.busy = FALSE, !.error = TRUE] \in Pages
    BY PageSteps
  <2> QED BY <1>3, <2>1 DEF OnReply
<1>4. CASE a.kind = "unreachable"
  <2>1. [page EXCEPT !.busy = FALSE, !.error = TRUE] \in Pages
    BY PageSteps
  <2> QED BY <1>4, <2>1 DEF OnReply
<1> QED BY <1>1, <1>2, <1>3, <1>4, AnswerValues

LEMMA InitInv == Init => IInv
<1> SUFFICES ASSUME Init PROVE IInv
  OBVIOUS
<1>1. config \in Configs /\ engine \in Engines
  BY ConfigValues DEF Init
<1>2. DOMAIN overrides \subseteq Fields /\ \A f \in DOMAIN overrides : overrides[f] \in Values
  BY ConfigValues DEF Init, DiffOverrides, Restrict, Overriding, Configs
<1>3. /\ requests \in Seq(Entries) /\ swaps \in Seq(Swaps(requests)) /\ ~ IsOpen
      /\ cli = "idle" /\ DOMAIN requests = {} /\ DOMAIN swaps = {} /\ engine = EngineOf(config)
  BY DEF Init, IsOpen
<1> QED BY <1>1, <1>2, <1>3 DEF IInv, Typed, Sensible, Converges

-----------------------------------------------------------------------------
(* Steps that leave the daemon as it is.                                   *)

\* The changes at work are the same requests as before.
SameWork(q) ==
    /\ Keeps(q) /\ Sensible(q)
    /\ \A j \in DOMAIN q : q[j].stage \in {"built", "resizing"} =>
          j \in DOMAIN requests /\ q[j] = requests[j]
    /\ \A j \in DOMAIN requests : requests[j].stage \in {"built", "resizing"} => q[j] = requests[j]

PageAndCli == (IsOpen => page \in Pages) /\ cli \in {"idle", "reads", "sets", "done"}

LEMMA Aside ==
  ASSUME IInv, UNCHANGED daemon, SameWork(requests'), PageAndCli'
  PROVE  IInv'
<1>1. requests' \in Seq(Entries) /\ Sensible(requests')
  BY DEF SameWork, Keeps
<1>2. swaps' \in Seq(Swaps(requests'))
  BY SwapsFit DEF IInv, Typed, SameWork, daemon
<1>3. Typed'
  BY <1>1, <1>2 DEF IInv, Typed, PageAndCli, daemon, IsOpen
<1>4. ~disturbed' => Converges'
  <2> SUFFICES ASSUME ~disturbed' PROVE Converges'
    OBVIOUS
  <2>1. Converges
    BY DEF IInv, daemon
  <2>2. UNCHANGED <<config, engine, swaps>>
    BY DEF daemon
  <2>3. \A j \in DOMAIN requests' :
           requests'[j].stage \in {"built", "resizing"} => requests'[j].config = config
    BY <2>1 DEF Converges, SameWork
  <2>4. \A stage \in {"built", "resizing"} :
           (\E r \in DOMAIN requests : requests[r].stage = stage) =>
              \E r \in DOMAIN requests' : requests'[r].stage = stage
    BY DEF SameWork, Keeps
  <2>5. EngineOf(config') = EngineOf(config)
    BY <2>2
  <2> QED BY <2>1, <2>2, <2>3, <2>4, <2>5 DEF Converges
<1> QED BY <1>1, <1>3, <1>4 DEF IInv

\* An answer, whatever it is, to a request that was not being worked on.
LEMMA Answering ==
  ASSUME IInv, NEW r \in DOMAIN requests, NEW a \in Answers,
         requests[r].stage \notin {"built", "resizing"}
  PROVE  SameWork(Answered(r, a)) /\ Moves(Answered(r, a), r, "answered")
<1> DEFINE q == Answered(r, a)
<1>1. Moves(q, r, "answered") /\ q[r].reply \in Answers
  BY RequestSteps, AnswerValues DEF IInv, Typed
<1> HIDE DEF q
<1>2. Sensible(q)
  BY <1>1, MovingIsSensible DEF IInv, Accepted
<1> QED BY <1>1, <1>2 DEF SameWork, Moves, q

\* A request that is done with.
LEMMA Closing ==
  ASSUME IInv, NEW r \in DOMAIN requests, requests[r].stage = "answered"
  PROVE  SameWork(Over(r)) /\ Moves(Over(r), r, "over")
<1> DEFINE q == Over(r)
<1>1. Moves(q, r, "over")
  BY RequestSteps DEF IInv, Typed
<1> HIDE DEF q
<1>2. Sensible(q)
  BY <1>1, MovingIsSensible DEF IInv, Accepted
<1> QED BY <1>1, <1>2 DEF SameWork, Moves, q

\* One more request.
LEMMA Asking ==
  ASSUME IInv, NEW who \in {"page", "cli"}, NEW cmd \in {"get", "outputs", "set"},
         NEW c \in Configs, NEW q, SameWork(q)
  PROVE  SameWork(Append(q, Request(who, cmd, c)))
<1> DEFINE e == Request(who, cmd, c)
<1>1. e \in Entries /\ e.stage = "sent"
  BY DEF Request, Entries, Stages, Replies
<1>2. q \in Seq(Entries)
  BY DEF SameWork, Keeps
<1> HIDE DEF e
<1>3. /\ Append(q, e) \in Seq(Entries) /\ DOMAIN q \subseteq DOMAIN Append(q, e)
      /\ \A j \in DOMAIN q : Append(q, e)[j] = q[j]
      /\ \A j \in DOMAIN Append(q, e) : j \in DOMAIN q \/ Append(q, e)[j] = e
  BY <1>1, <1>2
<1>4. Keeps(Append(q, e))
  BY <1>3 DEF SameWork, Keeps
<1>5. Sensible(Append(q, e))
  BY <1>1, <1>3 DEF SameWork, Sensible, Accepted
<1>6. \A j \in DOMAIN Append(q, e) : Append(q, e)[j].stage \in {"built", "resizing"} => j \in DOMAIN q
  BY <1>1, <1>3
<1> HIDE DEF Keeps
<1> QED BY <1>3, <1>4, <1>5, <1>6 DEF SameWork, Keeps, e

LEMMA Standing == ASSUME IInv PROVE SameWork(requests)
<1> QED BY DEF IInv, Typed, SameWork, Keeps

LEMMA PageSends ==
  ASSUME IInv, NEW cmd \in {"get", "outputs", "set"}, NEW c \in Configs, NEW who \in {"page", "cli"},
         Send(<<Request(who, cmd, c)>>)
  PROVE  SameWork(requests')
<1>1. requests' = Append(requests, Request(who, cmd, c))
  BY DEF Send, IInv, Typed
<1> QED BY <1>1, Standing, Asking

\* What a connection answers without changing anything.
LEMMA AnswerStep ==
  ASSUME IInv, NEW r \in DOMAIN requests,
         Serve(r) \/ Refuse(r) \/ ApplyFails(r) \/ StopWaiting(r)
  PROVE  IInv'
<1>1. PICK a \in Answers : requests' = Answered(r, a)
  BY AnswerValues DEF Serve, Refuse, ApplyFails, StopWaiting, IInv, Typed
<1>2. requests[r].stage \notin {"built", "resizing"} /\ UNCHANGED <<daemon, page, cli>>
  BY DEF Serve, Refuse, ApplyFails, StopWaiting
<1>3. SameWork(requests')
  BY <1>1, <1>2, Answering
<1>4. PageAndCli'
  BY <1>2 DEF PageAndCli, IInv, Typed, IsOpen
<1> QED BY <1>2, <1>3, <1>4, Aside

\* The rows of the form, the file dialog and the two resets.
LEMMA FormStep ==
  ASSUME IInv, Form
  PROVE  IInv'
<1>1. UNCHANGED <<daemon, requests, cli>> /\ page \in Pages
  BY DEF Form, EditCapture, EditLength, EditAdvanced, EditAudio, EditOverlay, EditOptional,
         ChooseProfile, Row, StartBrowse, PollBrowse, Revert, ResetToBase, IInv, Typed
<1>2. page.draft \in Configs /\ page.saved \in Configs
  BY <1>1 DEF Pages
<1>3. page' \in Pages
  <2>1. ASSUME NEW e \in Edits, Row(e) PROVE page' \in Pages
    <3>1. Patch(page.draft, e) \in Configs
      BY <1>2, ConfigValues
    <3>2. page' = [page EXCEPT !.draft = Patch(page.draft, e)]
      BY <2>1 DEF Row
    <3> QED BY <1>1, <3>1, <3>2, PageSteps, Zenon
  <2>2. CASE StartBrowse
    <3>1. page' = [page EXCEPT !.browsing = TRUE]
      BY <2>2 DEF StartBrowse
    <3> QED BY <1>1, <3>1, PageSteps, Zenon
  <2>3. CASE PollBrowse
    <3> DEFINE filled == [page.draft EXCEPT !["folder"] = 2]
    <3>1. filled \in Configs
      BY <1>2, ConfigValues
    <3>2. \/ page' = [page EXCEPT !.browsing = FALSE, !.draft = filled]
          \/ page' = [page EXCEPT !.browsing = FALSE]
          \/ page' = [page EXCEPT !.browsing = FALSE, !.error = TRUE]
      BY <2>3, Zenon DEF PollBrowse
    <3> HIDE DEF filled
    <3> QED BY <1>1, <3>1, <3>2, PageSteps, Zenon
  <2>4. CASE Revert
    <3>1. page' = [page EXCEPT !.draft = page.saved]
      BY <2>4 DEF Revert
    <3> QED BY <1>1, <1>2, <3>1, PageSteps, Zenon
  <2>5. CASE ResetToBase
    <3>1. page' = [page EXCEPT !.draft = Base]
      BY <2>5 DEF ResetToBase
    <3> QED BY <1>1, ConfigValues, <3>1, PageSteps, Zenon
  <2> QED
    BY <2>1, <2>2, <2>3, <2>4, <2>5 DEF Form, EditCapture, EditLength, EditAdvanced, EditAudio,
       EditOverlay, EditOptional, ChooseProfile
<1>4. PageAndCli' /\ SameWork(requests')
  BY <1>1, <1>3, Standing DEF PageAndCli, IInv, Typed
<1> QED BY <1>1, <1>4, Aside

\* The page opens, closes, sends and takes answers.
LEMMA PageStep ==
  ASSUME IInv,
         OpenSettings \/ Back \/ PressApply \/ RefreshOutputs
           \/ \E r \in DOMAIN requests : DrainCtl(r)
  PROVE  IInv'
<1>0. IsOpen => page \in Pages
  BY DEF IInv, Typed
<1>1. CASE OpenSettings
  <2>1. page' \in Pages /\ UNCHANGED <<daemon, cli>>
    BY <1>1, PageSteps DEF OpenSettings
  <2>2. SameWork(requests')
    BY <1>1, PageSends, ConfigValues DEF OpenSettings
  <2>3. PageAndCli'
    BY <2>1 DEF PageAndCli, IInv, Typed
  <2> QED BY <2>1, <2>2, <2>3, Aside
<1>2. CASE Back
  <2>1. page' = None /\ UNCHANGED <<daemon, cli, requests>>
    BY <1>2 DEF Back
  <2>2. PageAndCli' /\ SameWork(requests')
    BY <2>1, Standing DEF PageAndCli, IInv, Typed, IsOpen
  <2> QED BY <2>1, <2>2, Aside
<1>3. CASE PressApply
  <2>1. page' = [page EXCEPT !.busy = TRUE] /\ page \in Pages /\ UNCHANGED <<daemon, cli>>
    BY <1>0, <1>3 DEF PressApply
  <2>2. page' \in Pages
    BY <2>1, PageSteps, Zenon
  <2>3. page.draft \in Configs
    BY <2>1 DEF Pages
  <2>4. SameWork(requests')
    BY <1>3, <2>3, PageSends DEF PressApply
  <2>5. PageAndCli'
    BY <2>1, <2>2 DEF PageAndCli, IInv, Typed
  <2> QED BY <2>1, <2>4, <2>5, Aside
<1>4. CASE RefreshOutputs
  <2>1. SameWork(requests')
    BY <1>4, PageSends, ConfigValues DEF RefreshOutputs
  <2>2. UNCHANGED <<daemon, page, cli>>
    BY <1>4 DEF RefreshOutputs
  <2>3. PageAndCli'
    BY <2>2 DEF PageAndCli, IInv, Typed, IsOpen
  <2> QED BY <2>1, <2>2, <2>3, Aside
<1>5. ASSUME NEW r \in DOMAIN requests, DrainCtl(r) PROVE IInv'
  <2>1. /\ requests[r].stage = "answered" /\ requests' = Over(r) /\ UNCHANGED <<daemon, cli>>
        /\ page' = IF IsOpen THEN OnReply(requests[r].reply) ELSE page
    BY <1>5 DEF DrainCtl
  <2>2. requests[r].reply \in Answers
    BY <2>1 DEF IInv, Sensible
  <2>3. SameWork(requests')
    BY <2>1, Closing
  <2>4. IsOpen' => page' \in Pages
    BY <1>0, <2>1, <2>2, ReplyToPage DEF IsOpen
  <2>5. PageAndCli'
    BY <2>1, <2>4 DEF PageAndCli, IInv, Typed
  <2> QED BY <2>1, <2>3, <2>5, Aside
<1> QED BY <1>1, <1>2, <1>3, <1>4, <1>5

LEMMA CliStep ==
  ASSUME IInv,
         CliRead \/ \E r \in DOMAIN requests, e \in CliEdits : CliSet(r, e)
  PROVE  IInv'
<1>1. CASE CliRead
  <2>1. SameWork(requests')
    BY <1>1, PageSends, ConfigValues DEF CliRead
  <2>2. UNCHANGED <<daemon, page>> /\ cli' = "reads"
    BY <1>1 DEF CliRead
  <2>3. PageAndCli'
    BY <2>2 DEF PageAndCli, IInv, Typed, IsOpen
  <2> QED BY <2>1, <2>2, <2>3, Aside
<1>2. ASSUME NEW r \in DOMAIN requests, NEW e \in CliEdits, CliSet(r, e) PROVE IInv'
  <2>1. requests[r].stage = "answered" /\ UNCHANGED <<daemon, page>> /\ cli' \in {"sets", "done"}
    BY <1>2 DEF CliSet
  <2>2. requests[r].reply \in Answers
    BY <2>1 DEF IInv, Sensible
  <2>3. SameWork(Over(r))
    BY <2>1, Closing
  <2>4. requests[r].reply.kind = "config" =>
           SameWork(Append(Over(r), Request("cli", "set", Patch(requests[r].reply.config, e))))
    <3> SUFFICES ASSUME requests[r].reply.kind = "config"
                 PROVE  SameWork(Append(Over(r), Request("cli", "set",
                                                         Patch(requests[r].reply.config, e))))
      OBVIOUS
    <3>1. Patch(requests[r].reply.config, e) \in Configs
      BY <2>2, AnswerValues, ConfigValues, SettingsAssumption
    <3> QED BY <2>3, <3>1, Asking
  <2>5. SameWork(requests')
    BY <1>2, <2>3, <2>4 DEF CliSet
  <2>6. PageAndCli'
    BY <2>1 DEF PageAndCli, IInv, Typed, IsOpen
  <2> QED BY <2>1, <2>5, <2>6, Aside
<1> QED BY <1>1, <1>2

-----------------------------------------------------------------------------
(* Steps of the daemon.                                                    *)

\* What a request carries.
LEMMA RequestFields ==
  ASSUME Typed, NEW r \in DOMAIN requests
  PROVE  requests[r] \in Entries /\ requests[r].config \in Configs
<1>1. requests[r] \in Entries
  BY DEF Typed
<1> QED BY <1>1 DEF Entries

\* A change is accepted: saved, in force, and passed on.
LEMMA ApplyStep ==
  ASSUME IInv, NEW r \in DOMAIN requests, Apply(r)
  PROVE  IInv'
<1> DEFINE new == requests[r].config
           restart == \E f \in Restarting : config[f] # new[f]
           longer == config["length"] # new["length"]
           stage == IF restart THEN "built" ELSE IF longer THEN "resizing" ELSE "answered"
<1>0. new \in Configs
  BY RequestFields DEF IInv
<1>1. /\ requests[r].cmd = "set" /\ overrides' = DiffOverrides(new) /\ config' = new
      /\ UNCHANGED <<engine, swaps, page, cli>>
      /\ requests' = IF restart THEN At(r, "built")
                     ELSE IF longer THEN At(r, "resizing")
                     ELSE Answered(r, Config(new))
  BY DEF Apply
<1>2. ~disturbed' =>
         /\ ~disturbed /\ swaps = <<>>
         /\ \A q \in DOMAIN requests :
               requests[q].cmd = "set" => requests[q].stage \notin {"built", "swapping", "resizing"}
  BY DEF Apply, UnderWay
<1> HIDE DEF new, restart, longer
<1>3. /\ Moves(requests', r, stage)
      /\ stage = "answered" => requests'[r].reply \in Answers
      /\ stage # "answered" => requests'[r].config = new
  <2>1. /\ \A s \in {"built", "resizing"} : Moves(At(r, s), r, s) /\ At(r, s)[r].config = new
        /\ \A a \in Answers : Moves(Answered(r, a), r, "answered") /\ Answered(r, a)[r].reply = a
    BY RequestSteps, AnswerValues DEF IInv, Typed, Stages, new
  <2>2. Config(new) \in Answers
    BY <1>0, AnswerValues
  <2> QED BY <1>1, <2>1, <2>2
<1> HIDE DEF stage
<1>4. Sensible(requests')
  BY <1>1, <1>3, MovingIsSensible DEF IInv
<1>5. Typed'
  <2>1. DOMAIN overrides' \subseteq Fields /\ \A f \in DOMAIN overrides' : overrides'[f] \in Values
    BY <1>0, <1>1 DEF DiffOverrides, Restrict, Overriding, Configs
  <2>2. requests' \in Seq(Entries) /\ swaps' \in Seq(Swaps(requests'))
    BY <1>1, <1>3, SwapsFit DEF IInv, Typed, Moves, Keeps
  <2> QED BY <1>0, <1>1, <2>1, <2>2 DEF IInv, Typed, IsOpen
<1>6. ~disturbed' => Converges'
  <2> SUFFICES ASSUME ~disturbed' PROVE Converges'
    OBVIOUS
  <2>1. Converges /\ swaps = <<>>
    BY <1>2 DEF IInv
  <2>2. \A q \in DOMAIN requests : requests[q].stage \notin {"built", "swapping", "resizing"}
    BY <1>2 DEF IInv, Sensible, Accepted
  <2>3. engine = EngineOf(config) /\ DOMAIN swaps = {}
    BY <2>1, <2>2 DEF Converges
  <2>4. \A q \in DOMAIN requests' :
           requests'[q].stage \in {"built", "resizing"} => requests'[q].config = new
    BY <1>3, <2>2 DEF Moves
  <2>5. \A f \in Restarting : engine[f] = config[f]
    BY <2>3 DEF EngineOf, Restrict
  <2>6. r \in DOMAIN requests' /\ requests'[r].stage = stage
    BY <1>3 DEF Moves
  <2>7. CASE stage = "built"
    BY <1>1, <2>3, <2>4, <2>6, <2>7 DEF Converges
  <2>8. CASE stage = "resizing"
    <3>1. \A f \in Restarting : engine[f] = new[f]
      BY <2>5, <2>8 DEF stage, restart
    <3> QED BY <1>1, <2>3, <2>4, <2>6, <2>8, <3>1 DEF Converges
  <2>9. CASE stage = "answered"
    <3>1. \A f \in Restarting \cup {"length"} : config[f] = new[f]
      BY <2>9 DEF stage, restart, longer
    <3>2. EngineOf(new) = EngineOf(config)
      BY <3>1 DEF EngineOf, Restrict
    <3> QED BY <1>1, <2>3, <2>4, <3>2 DEF Converges
  <2> QED BY <2>7, <2>8, <2>9 DEF stage
<1> QED BY <1>4, <1>5, <1>6 DEF IInv

\* The engine that was built waits for the supervisor.
LEMMA SendSwapStep ==
  ASSUME IInv, NEW r \in DOMAIN requests, SendSwap(r)
  PROVE  IInv'
<1> DEFINE s == [id |-> r, engine |-> EngineOf(requests[r].config)]
<1>1. /\ requests[r].stage = "built" /\ swaps' = Append(swaps, s) /\ requests' = At(r, "swapping")
      /\ UNCHANGED <<config, overrides, engine, page, cli, disturbed>>
  BY DEF SendSwap
<1>2. requests[r].config \in Configs /\ requests[r].cmd = "set"
  BY <1>1, RequestFields DEF IInv, Sensible, Accepted
<1>3. Moves(requests', r, "swapping")
  BY <1>1, RequestSteps DEF IInv, Typed, Stages
<1>4. Sensible(requests')
  BY <1>2, <1>3, MovingIsSensible DEF IInv
<1>5. s.id = r /\ s.id \in Nat \ {0} /\ s.engine = EngineOf(requests[r].config)
  BY DEF IInv, Typed
<1>6. s \in Swaps(requests')
  <2>1. s.id \in {Own} \cup {j \in DOMAIN requests' : requests'[j].cmd = "set"}
    BY <1>2, <1>3 DEF Moves, Keeps
  <2> QED BY <1>2, <2>1, ConfigValues DEF Swaps
<1> HIDE DEF s
<1>7. requests' \in Seq(Entries) /\ swaps \in Seq(Swaps(requests'))
  BY <1>3, SwapsFit DEF IInv, Typed, Moves, Keeps
<1>8. swaps' \in Seq(Swaps(requests'))
  BY <1>1, <1>6, <1>7
<1>9. Typed'
  BY <1>1, <1>7, <1>8 DEF IInv, Typed, IsOpen
<1>10. ~disturbed' => Converges'
  <2> SUFFICES ASSUME ~disturbed' PROVE Converges'
    OBVIOUS
  <2>1. Converges
    BY <1>1 DEF IInv
  <2>2. s.engine = EngineOf(config)
    BY <1>1, <1>5, <2>1 DEF Converges
  <2>3. /\ DOMAIN swaps \subseteq DOMAIN swaps' /\ \A i \in DOMAIN swaps : swaps'[i] = swaps[i]
        /\ \A i \in DOMAIN swaps' : i \in DOMAIN swaps \/ swaps'[i] = s
        /\ \E i \in DOMAIN swaps' : swaps'[i] = s
    <3>1. Len(swaps) + 1 \in DOMAIN swaps' /\ swaps'[Len(swaps) + 1] = s
      BY <1>1, <1>6, <1>7
    <3> QED BY <1>1, <1>6, <1>7, <3>1
  <2>4. \A i \in DOMAIN swaps' : swaps'[i].engine = EngineOf(config)
    BY <2>1, <2>2, <2>3 DEF Converges
  <2>5. \E i \in DOMAIN swaps' : swaps'[i].id # Own
    BY <1>5, <2>3 DEF Own
  <2>6. \A j \in DOMAIN requests' :
           requests'[j].stage \in {"built", "resizing"} => requests'[j].config = config
    BY <1>3, <2>1 DEF Moves, Converges
  <2> QED BY <1>1, <2>4, <2>5, <2>6 DEF Converges
<1> QED BY <1>4, <1>9, <1>10 DEF IInv

\* The length of the ring is changed in place.
LEMMA ResizeStep ==
  ASSUME IInv, NEW r \in DOMAIN requests, Resize(r)
  PROVE  IInv'
<1> DEFINE c == requests[r].config
<1>1. /\ requests[r].stage = "resizing" /\ requests' = Answered(r, Config(c))
      /\ engine' = [engine EXCEPT !["length"] = c["length"]]
      /\ UNCHANGED <<config, overrides, swaps, page, cli, disturbed>>
  BY DEF Resize
<1>2. c \in Configs /\ Config(c) \in Answers
  BY RequestFields, AnswerValues DEF IInv
<1> HIDE DEF c
<1>3. Moves(requests', r, "answered") /\ requests'[r].reply \in Answers
  BY <1>1, <1>2, RequestSteps, AnswerValues DEF IInv, Typed
<1>4. Sensible(requests')
  BY <1>3, MovingIsSensible DEF IInv, Accepted
<1>5. engine' \in Engines
  <2>1. c["length"] \in Values
    BY <1>2 DEF Configs, Fields, CaptureFields
  <2>2. engine \in Engines
    BY DEF IInv, Typed
  <2> QED BY <1>1, <2>1, <2>2 DEF Engines
<1>6. Typed'
  <2>1. requests' \in Seq(Entries) /\ swaps' \in Seq(Swaps(requests'))
    BY <1>1, <1>3, SwapsFit DEF IInv, Typed, Moves, Keeps
  <2> QED BY <1>1, <1>5, <2>1 DEF IInv, Typed, IsOpen
<1>7. ~disturbed' => Converges'
  <2> SUFFICES ASSUME ~disturbed' PROVE Converges'
    OBVIOUS
  <2>1. Converges
    BY <1>1 DEF IInv
  <2>2. c = config
    BY <1>1, <2>1 DEF Converges, c
  <2>3. /\ \A f \in Restarting : engine'[f] = engine[f]
        /\ engine'["length"] = config["length"]
        /\ DOMAIN engine' = Restarting \cup {"length"} /\ engine' = [f \in DOMAIN engine' |-> engine'[f]]
    <3>1. engine \in [Restarting \cup {"length"} -> Values] /\ "length" \notin Restarting
      BY DEF IInv, Typed, Engines, Restarting, AudioFields
    <3> QED BY <1>1, <2>2, <3>1
  <2>4. (\A f \in Restarting : engine[f] = config[f]) => engine' = EngineOf(config)
    BY <2>3 DEF EngineOf, Restrict
  <2>5. engine = EngineOf(config) => \A f \in Restarting : engine[f] = config[f]
    BY DEF EngineOf, Restrict
  <2>6. \A j \in DOMAIN requests' :
           requests'[j].stage \in {"built", "resizing"} => requests'[j].config = config
    BY <1>3, <2>1 DEF Moves, Converges
  <2>7. (\E j \in DOMAIN requests : requests[j].stage = "built") =>
           \E j \in DOMAIN requests' : requests'[j].stage = "built"
    BY <1>1, <1>3 DEF Moves
  <2> QED BY <1>1, <2>1, <2>4, <2>5, <2>6, <2>7 DEF Converges
<1> QED BY <1>4, <1>6, <1>7 DEF IInv

\* The supervisor builds an engine of its own.
LEMMA BuildStep ==
  ASSUME IInv, BuildEngine
  PROVE  IInv'
<1> DEFINE s == [id |-> Own, engine |-> EngineOf(config)]
<1>1. /\ swaps = <<>> /\ swaps' = <<s>>
      /\ UNCHANGED <<config, overrides, engine, disturbed, requests, page, cli>>
  BY DEF BuildEngine
<1>2. s \in Swaps(requests) /\ s.engine = EngineOf(config) /\ s.id = Own
  BY ConfigValues DEF IInv, Typed, Swaps
<1> HIDE DEF s
<1>3. swaps' \in Seq(Swaps(requests')) /\ DOMAIN swaps' = {1} /\ swaps'[1] = s
  BY <1>1, <1>2
<1>4. Typed'
  BY <1>1, <1>3 DEF IInv, Typed, IsOpen
<1>5. ~disturbed' => Converges'
  <2> SUFFICES ASSUME ~disturbed' PROVE Converges'
    OBVIOUS
  <2>1. Converges /\ DOMAIN swaps = {}
    BY <1>1 DEF IInv
  <2>2. EngineOf(config') = EngineOf(config)
    BY <1>1
  <2> QED BY <1>1, <1>2, <1>3, <2>1, <2>2 DEF Converges
<1> QED BY <1>1, <1>4, <1>5 DEF IInv

\* The supervisor takes the next swap, and tells its requester if it waits.
LEMMA AdoptStep ==
  ASSUME IInv, Adopt
  PROVE  IInv'
<1> DEFINE s == Head(swaps)
           waiting == s.id # Own /\ requests[s.id].stage = "swapping"
<1>1. /\ swaps # <<>> /\ swaps' = Tail(swaps) /\ UNCHANGED <<config, overrides, page, cli>>
      /\ \/ engine' = s.engine /\ disturbed' = disturbed
         \/ engine' = engine /\ (~disturbed' => ~disturbed /\ s.id = Own)
      /\ \/ ~ waiting /\ requests' = requests
         \/ /\ waiting
            /\ \/ requests' = Answered(s.id, Config(requests[s.id].config))
               \/ requests' = Answered(s.id, Error)
  BY Zenon DEF Adopt
<1>2. /\ s \in Swaps(requests) /\ s = swaps[1] /\ 1 \in DOMAIN swaps
      /\ swaps' \in Seq(Swaps(requests))
      /\ \A i \in DOMAIN swaps' : i + 1 \in DOMAIN swaps /\ swaps'[i] = swaps[i + 1]
      /\ \A i \in DOMAIN swaps : i = 1 \/ (i - 1 \in DOMAIN swaps' /\ swaps'[i - 1] = swaps[i])
  <2>1. swaps \in Seq(Swaps(requests))
    BY DEF IInv, Typed
  <2>2. /\ s \in Swaps(requests) /\ s = swaps[1] /\ 1 \in DOMAIN swaps
        /\ swaps' \in Seq(Swaps(requests))
    BY <1>1, <2>1
  <2>3. /\ \A i \in DOMAIN swaps' : i + 1 \in DOMAIN swaps /\ swaps'[i] = swaps[i + 1]
        /\ \A i \in DOMAIN swaps : i = 1 \/ (i - 1 \in DOMAIN swaps' /\ swaps'[i - 1] = swaps[i])
    BY <1>1, <2>1
  <2> QED BY <2>2, <2>3
<1>3. s.engine \in Engines /\ (s.id # Own => s.id \in DOMAIN requests)
  BY <1>2 DEF Swaps
<1> HIDE DEF s
<1>4. SameWork(requests')
  <2>1. CASE ~ waiting
    BY <1>1, <2>1, Standing
  <2>2. CASE waiting
    <3>1. s.id \in DOMAIN requests /\ requests[s.id].stage = "swapping"
      BY <1>3, <2>2
    <3>2. Config(requests[s.id].config) \in Answers /\ Error \in Answers
      BY <3>1, RequestFields, AnswerValues DEF IInv
    <3>3. requests[s.id].stage \notin {"built", "resizing"}
      BY <3>1
    <3> QED BY <1>1, <2>2, <3>1, <3>2, <3>3, Answering
  <2> QED BY <2>1, <2>2
<1> HIDE DEF waiting
<1>5. Typed'
  <2>1. requests' \in Seq(Entries) /\ Swaps(requests) \subseteq Swaps(requests')
    BY <1>4 DEF SameWork, Keeps, Swaps
  <2>2. swaps' \in Seq(Swaps(requests'))
    BY <1>2, <2>1
  <2>3. engine' \in Engines
    BY <1>1, <1>3 DEF IInv, Typed
  <2> QED BY <1>1, <2>1, <2>2, <2>3 DEF IInv, Typed, IsOpen
<1>6. ~disturbed' => Converges'
  <2> SUFFICES ASSUME ~disturbed' PROVE Converges'
    OBVIOUS
  <2>1. Converges
    BY <1>1 DEF IInv
  <2>2. s.engine = EngineOf(config) /\ EngineOf(config') = EngineOf(config)
    BY <1>1, <1>2, <2>1 DEF Converges
  <2>3. \A i \in DOMAIN swaps' : swaps'[i].engine = EngineOf(config)
    BY <1>2, <2>1 DEF Converges
  <2>4. \A j \in DOMAIN requests' :
           requests'[j].stage \in {"built", "resizing"} => requests'[j].config = config
    BY <1>4, <2>1 DEF SameWork, Converges
  <2>5. CASE engine' = s.engine
    BY <1>1, <2>2, <2>3, <2>4, <2>5 DEF Converges
  <2>6. CASE engine' = engine /\ s.id = Own
    <3>1. (\E i \in DOMAIN swaps : swaps[i].id # Own) => \E i \in DOMAIN swaps' : swaps'[i].id # Own
      BY <1>2, <2>6
    <3>2. \A stage \in {"built", "resizing"} :
             (\E r \in DOMAIN requests : requests[r].stage = stage) =>
                \E r \in DOMAIN requests' : requests'[r].stage = stage
      BY <1>4 DEF SameWork, Keeps
    <3> QED BY <1>1, <2>1, <2>2, <2>3, <2>4, <2>6, <3>1, <3>2 DEF Converges
  <2> QED BY <1>1, <2>5, <2>6
<1> QED BY <1>4, <1>5, <1>6 DEF IInv, SameWork

\* The next daemon loads the layers, and whoever waits learns that this one died.
LEMMA RestartStep ==
  ASSUME IInv, Restart
  PROVE  IInv'
<1>1. /\ config' = FromLayers(overrides) /\ engine' = EngineOf(FromLayers(overrides))
      /\ swaps' = <<>> /\ UNCHANGED <<overrides, page, cli>>
      /\ requests' = [r \in DOMAIN requests |->
                        IF requests[r].stage \in {"answered", "over"} THEN requests[r]
                        ELSE Answered(r, Unreachable)[r]]
  BY DEF Restart
<1>2. config' \in Configs /\ engine' \in Engines
  BY <1>1, LayersFit, ConfigValues DEF IInv, Typed
<1>3. \A r \in DOMAIN requests :
         /\ Answered(r, Unreachable)[r] \in Entries
         /\ Answered(r, Unreachable)[r].stage = "answered"
         /\ Answered(r, Unreachable)[r].reply \in Answers
  <2> SUFFICES ASSUME NEW r \in DOMAIN requests
               PROVE  /\ Answered(r, Unreachable)[r] \in Entries
                      /\ Answered(r, Unreachable)[r].stage = "answered"
                      /\ Answered(r, Unreachable)[r].reply \in Answers
    OBVIOUS
  <2>1. Moves(Answered(r, Unreachable), r, "answered") /\ Answered(r, Unreachable)[r].reply = Unreachable
    BY RequestSteps, AnswerValues DEF IInv, Typed
  <2> QED BY <2>1, AnswerValues DEF Moves, Keeps
<1>4. requests \in Seq(Entries)
  BY DEF IInv, Typed
<1>5. requests' \in Seq(Entries) /\ DOMAIN requests' = DOMAIN requests
  BY <1>1, <1>3, <1>4
<1>6. \A r \in DOMAIN requests' :
         \/ requests'[r] = requests[r] /\ requests[r].stage \in {"answered", "over"}
         \/ requests'[r].stage = "answered" /\ requests'[r].reply \in Answers
  BY <1>1, <1>3, <1>5
<1>7. Sensible(requests')
  BY <1>5, <1>6 DEF IInv, Sensible, Accepted
<1>8. Typed'
  BY <1>1, <1>2, <1>5 DEF IInv, Typed, IsOpen
<1>9. Converges'
  BY <1>1, <1>6 DEF Converges
<1> QED BY <1>7, <1>8, <1>9 DEF IInv

-----------------------------------------------------------------------------
(* The invariant and what follows from it.                                 *)

LEMMA Invariance == Spec => []IInv
<1>1. IInv /\ [Next]_vars => IInv'
  <2> SUFFICES ASSUME IInv, [Next]_vars PROVE IInv'
    OBVIOUS
  <2>1. CASE UNCHANGED vars
    <3>1. UNCHANGED <<daemon, requests, page, cli>>
      BY <2>1 DEF vars, daemon
    <3>2. PageAndCli' /\ SameWork(requests')
      BY <3>1, Standing DEF PageAndCli, IInv, Typed, IsOpen
    <3> QED BY <3>1, <3>2, Aside
  <2>2. ASSUME NEW r \in DOMAIN requests, Connection(r) PROVE IInv'
    BY <2>2, AnswerStep, ApplyStep, SendSwapStep, ResizeStep DEF Connection
  <2> QED
    BY <2>1, <2>2, BuildStep, AdoptStep, RestartStep, FormStep, PageStep, CliStep DEF Next
<1> QED BY <1>1, InitInv, PTL DEF Spec

\* Types, for any configuration and any values of the changes.
THEOREM SettingsTypeCorrect == Spec => []TypeOK
<1>1. IInv => TypeOK
  <2> SUFFICES ASSUME IInv PROVE TypeOK
    OBVIOUS
  <2>1. \A i \in DOMAIN swaps : swaps[i].id # Own => requests[swaps[i].id].cmd = "set"
    <3> SUFFICES ASSUME NEW i \in DOMAIN swaps, swaps[i].id # Own
                 PROVE  requests[swaps[i].id].cmd = "set"
      OBVIOUS
    <3>1. swaps[i] \in Swaps(requests)
      BY DEF IInv, Typed
    <3> QED BY <3>1 DEF Swaps
  <2>2. requests \in Seq([who : {"page", "cli"}, cmd : {"get", "outputs", "set"},
           config : Configs,
           stage : {"sent", "built", "swapping", "resizing", "answered", "over"}, reply : Replies])
    BY DEF IInv, Typed, Entries, Stages
  <2> QED BY <2>1, <2>2 DEF TypeOK, IInv, Typed, Pages, Engines
<1> QED BY <1>1, Invariance, PTL

\* When nothing is under way and nothing went wrong, capture runs with the
\* settings in force, whatever the daemon and its clients did before.
THEOREM CaptureRunsWithTheSettings == Spec => []EngineAgrees
<1>1. IInv => EngineAgrees
  <2> SUFFICES ASSUME IInv, Quiet, ~disturbed PROVE engine = EngineOf(config)
    BY DEF EngineAgrees
  <2>1. DOMAIN swaps = {}
    BY DEF Quiet
  <2>2. \A r \in DOMAIN requests : requests[r].stage \notin {"built", "resizing"}
    BY DEF Quiet, UnderWay, IInv, Sensible, Accepted
  <2> QED BY <2>1, <2>2 DEF IInv, Converges
<1> QED BY <1>1, Invariance, PTL
=============================================================================
