---------------------------- MODULE CaptureProofs ----------------------------
(***************************************************************************)
(* What TLAPS proves of the control of capture, for any number of clients, *)
(* encoders, retries and queued requests: no session or recording file is  *)
(* lost sight of, the armed flag is true to the engines, and recovery      *)
(* keeps footage. Of the files the daemon writes, in the second part: none *)
(* overwrites another, and none is pruned while it is in use but that of a *)
(* recording that stalled. And of the recorder, in the third: what it      *)
(* writes can be played, with all the sound that belongs to the picture    *)
(* and no more.                                                            *)
(***************************************************************************)
EXTENDS CaptureControl, ClipFiles, RecordPath, WellFoundedInduction, TLAPS

Holding == {"idle", "begin", "announce", "reply", "refuse"}

\* Between requests, and when one is done with, the supervisor holds no engine.
HandsEmpty == pc \in Holding => fresh = NoEngine /\ old = NoEngine

\* The engine that is being started is the supervisor's own: it has no footage
\* and no recording, and no session until the portal grants one.
FreshIsNew ==
    /\ fresh.ring = {} /\ fresh.rec = FALSE
    /\ pc \notin {"portal", "install"} => fresh = NoEngine
    /\ pc = "portal" => fresh.run = "off"
    /\ pc = "install" =>
          fresh.run = IF req.op # "Swap" \/ enabled THEN "live" ELSE "off"

\* What leaves the handler leaves its recording behind, and its footage when
\* another engine takes over from it.
OldIsStripped ==
    /\ old.rec = FALSE
    /\ pc \in {"portal", "install"} => old.run = "off"
    /\ pc \in {"portal", "install"} /\ req.op # "Restart" => old = NoEngine
    /\ pc = "drop" /\ req.op \in {"Ensure", "Restart"} => old.ring = {}

\* The request in hand and the armed flag at each of its steps.
Progress ==
    /\ pc = "stop" => req.op = "Restart"
    /\ pc \in {"portal", "install", "stop"} =>
          /\ req.op # "Disable"
          /\ req.op = "Ensure" => ~ enabled
          /\ req.op = "Restart" => enabled
    /\ pc = "portal" => (req.op = "Swap" => enabled)
    /\ pc \in {"drop", "announce", "reply"} =>
          /\ req.op \in {"Ensure", "Restart"} => enabled
          /\ req.op = "Disable" => ~ enabled

\* During a restart the handler's engine is a placeholder that is never started.
Placeholder ==
    pc \in {"stop", "portal", "install"} /\ req.op = "Restart" =>
        engine.run = "off" /\ engine.ring = {}

\* The flag changes with its broadcast under way, and at no other time.
ShownLags ==
    \/ shown = enabled
    \/ pc \in {"drop", "announce"} /\ req.op \in {"Ensure", "Disable"}

\* A disarmed handler neither captures nor keeps.
DisarmedIsOff == ~ enabled => engine.run = "off" /\ engine.ring = {}

IInv ==
    /\ HandsEmpty /\ FreshIsNew /\ OldIsStripped /\ Progress /\ Placeholder
    /\ ShownLags /\ DisarmedIsOff
    /\ NoLeakedCapture
    /\ muxers = One(engine.rec)
-----------------------------------------------------------------------------
(* Types.                                                                  *)

LEMMA EngineValues ==
  /\ \A e \in Encoders : Built(e) \in Engine
  /\ NoEngine \in Engine
  /\ \A e \in Engine : Cut(e) \in Engine
  /\ \A e, other \in Engine : Adopting(e, other) \in Engine
  /\ \A e \in Engine, b \in BOOLEAN : Drained(e, b) \in Engine
<1>1. \A e \in Encoders : Built(e) \in Engine
  BY DEF Built, Engine
<1>2. NoEngine \in Engine
  BY <1>1, EncodersAssumption DEF NoEngine
<1>3. \A e \in Engine : Cut(e) \in Engine
  BY DEF Cut, Engine
<1>4. \A e, other \in Engine : Adopting(e, other) \in Engine
  BY DEF Adopting, Engine
<1>5. ASSUME NEW e \in Engine, NEW b \in BOOLEAN
      PROVE  Drained(e, b) \in Engine
  <2>1. (e.rec /\ ~ b) \in BOOLEAN
    OBVIOUS
  <2>2. (IF e.run = "live" THEN e.ring \cup {e.enc} ELSE e.ring) \in SUBSET Encoders
    BY DEF Engine
  <2> QED BY <2>1, <2>2, Zenon DEF Drained, Engine
<1> QED BY <1>1, <1>2, <1>3, <1>4, <1>5

LEMMA Asking ==
  ASSUME NEW op \in {"Ensure", "Disable", "Restart", "Swap"},
         NEW c \in Clients \cup {Nobody}
  PROVE  Ask(op, c) \in Request
<1> QED BY EncodersAssumption, LimitsAssumption DEF Ask, Request

PumpState == [at : {"probe", "act", "drain"}, saw : BOOLEAN, auto_armed : BOOLEAN,
              not_game : 0..DisarmProbes, quiet : 0..Patience, cooling : BOOLEAN]

LEMMA PumpSets ==
  ASSUME NEW p \in PumpState, NEW at \in {"probe", "act", "drain"},
         NEW armed \in BOOLEAN, NEW n \in 0..DisarmProbes, NEW q \in 0..Patience,
         NEW cooling \in BOOLEAN
  PROVE  /\ [p EXCEPT !.at = at, !.not_game = n, !.auto_armed = armed, !.quiet = q] \in PumpState
         /\ [p EXCEPT !.at = at, !.not_game = n, !.auto_armed = armed] \in PumpState
         /\ [p EXCEPT !.at = at, !.quiet = q, !.cooling = cooling] \in PumpState
<1> QED BY Zenon DEF PumpState

LEMMA TypeInit == Init => TypeOK
<1> SUFFICES ASSUME Init PROVE TypeOK
  OBVIOUS
<1>1. BootRequest \in Request
  BY EncodersAssumption, LimitsAssumption DEF BootRequest, Ask, Request
<1>2. engine \in Engine /\ fresh \in Engine /\ old \in Engine
  BY EngineValues, EncodersAssumption DEF Init
<1>3. queue \in Seq(Request) /\ req \in Request
  BY <1>1 DEF Init
<1>4. pump \in [at : {"probe", "act", "drain"}, saw : BOOLEAN, auto_armed : BOOLEAN,
                not_game : 0..DisarmProbes, quiet : 0..Patience, cooling : BOOLEAN]
  BY LimitsAssumption DEF Init, NewPump
<1>5. client \in [Clients -> [at : {"idle", "saving", "built", "waiting"}, enc : Encoders]]
  BY EncodersAssumption DEF Init
<1> QED BY <1>2, <1>3, <1>4, <1>5, EncodersAssumption DEF Init, TypeOK

\* Room bounds the queue; what is sent is a request.
LEMMA Sending ==
  ASSUME TypeOK, NEW r \in Request, Send(r)
  PROVE  queue' \in Seq(Request)
<1> QED BY DEF TypeOK, Send

\* The counters are those of IInv; the rest is preserved by itself.
LEMMA TypeStep == TypeOK /\ [Next]_vars /\ IInv' => TypeOK'
<1> SUFFICES ASSUME TypeOK, [Next]_vars, IInv' PROVE TypeOK'
  OBVIOUS
<1> USE DEF TypeOK, supervisor, outside
<1>0. sessions' \in Nat /\ muxers' \in Nat
  BY DEF IInv, NoLeakedCapture, One
<1>1. CASE Receive
  BY <1>0, <1>1 DEF Receive
<1>2. CASE RetryDue
  <2>1. req' \in Request
    BY <1>2, EncodersAssumption, LimitsAssumption DEF RetryDue, BootRequest, Ask, Request
  <2> QED BY <1>0, <1>2, <2>1 DEF RetryDue
<1>3. CASE EnsureBegins
  BY <1>0, <1>3, EngineValues DEF EnsureBegins
<1>4. CASE EnsureInstalls
  BY <1>0, <1>4, EngineValues DEF EnsureInstalls
<1>5. CASE DisableDetaches
  <2>1. [Cut(engine) EXCEPT !.ring = {}] \in Engine
    BY DEF Cut, Engine
  <2> QED BY <1>0, <1>5, <2>1, EngineValues DEF DisableDetaches
<1>6. CASE RestartDetaches
  BY <1>0, <1>6, EngineValues DEF RestartDetaches
<1>7. CASE RestartStops
  <2>1. [old EXCEPT !.run = "off"] \in Engine
    BY DEF Engine
  <2> QED BY <1>0, <1>7, <2>1, EngineValues DEF RestartStops
<1>8. CASE RestartInstalls
  BY <1>0, <1>8, EngineValues DEF RestartInstalls
<1>9. CASE SwapBegins
  <2>1. req.enc \in Encoders
    BY DEF Request
  <2> QED BY <1>0, <1>9, <2>1, EngineValues DEF SwapBegins
<1>10. CASE SwapInstalls
  BY <1>0, <1>10, EngineValues DEF SwapInstalls, Running
<1>11. CASE PortalGrants
  <2>1. [fresh EXCEPT !.run = "live"] \in Engine
    BY DEF Engine
  <2> QED BY <1>0, <1>11, <2>1 DEF PortalGrants
<1>12. CASE PortalRefuses
  <2>1. PICK cancelled \in BOOLEAN :
          EnsureFails(cancelled) \/ RestartFails(cancelled) \/ SwapFails(cancelled)
    BY <1>12 DEF PortalRefuses
  <2>2. CASE EnsureFails(cancelled)
    <3>1. req.retries \in 0..Retries /\ Retries \in Nat
      BY LimitsAssumption DEF Request
    <3>2. retry' \in {NoRetry} \cup 0..Retries
      BY <2>2, <3>1 DEF EnsureFails
    <3> QED BY <1>0, <2>2, <3>2, EngineValues DEF EnsureFails
  <2>3. CASE RestartFails(cancelled)
    BY <1>0, <2>3, EngineValues DEF RestartFails
  <2>4. CASE SwapFails(cancelled)
    BY <1>0, <2>4, EngineValues DEF SwapFails
  <2> QED BY <2>1, <2>2, <2>3, <2>4
<1>13. CASE StopOutgoing
  BY <1>0, <1>13, EngineValues DEF StopOutgoing
<1>14. CASE Announce
  BY <1>0, <1>14 DEF Announce
<1>15. CASE Reply
  <2>1. client' \in [Clients -> [at : {"idle", "saving", "built", "waiting"}, enc : Encoders]]
    BY <1>15 DEF Reply
  <2> QED BY <1>0, <1>15, <2>1 DEF Reply
<1>16. CASE Probe
  BY <1>0, <1>16 DEF Probe
<1>17. CASE SeesGame
  <2>1. (pump.auto_armed \/ ~ pump.saw) \in BOOLEAN
    OBVIOUS
  <2>2. 0 \in 0..DisarmProbes /\ (IF pump.saw THEN pump.quiet ELSE 0) \in 0..Patience
    BY LimitsAssumption
  <2>3. pump' = [pump EXCEPT !.at = "drain", !.not_game = 0,
                             !.auto_armed = pump.auto_armed \/ ~ pump.saw,
                             !.quiet = IF pump.saw THEN pump.quiet ELSE 0]
    BY <1>17 DEF SeesGame
  <2>4. pump \in PumpState
    BY DEF PumpState
  <2>5. pump' \in PumpState
    BY <2>1, <2>2, <2>3, <2>4, PumpSets, Zenon
  <2>6. queue' \in Seq(Request)
    BY <1>17, Asking, Sending DEF SeesGame
  <2> QED BY <1>0, <1>17, <2>5, <2>6 DEF SeesGame, PumpState
<1>18. CASE SeesNoGame
  <2> DEFINE counting == pump.saw /\ pump.auto_armed
             gone == counting /\ pump.not_game + 1 >= DisarmProbes
             n == IF counting /\ ~ gone THEN pump.not_game + 1 ELSE 0
             armed == pump.auto_armed /\ pump.saw /\ ~ gone
  <2>1. pump' = [pump EXCEPT !.at = "drain", !.not_game = n, !.auto_armed = armed]
    BY <1>18 DEF SeesNoGame
  <2>2. n \in 0..DisarmProbes /\ armed \in BOOLEAN
    BY LimitsAssumption
  <2> HIDE DEF n, armed
  <2>3. pump \in PumpState
    BY DEF PumpState
  <2>4. pump' \in PumpState
    BY <2>1, <2>2, <2>3, PumpSets, Zenon
  <2>5. queue' \in Seq(Request)
    BY <1>18, Asking, Sending DEF SeesNoGame
  <2> QED BY <1>0, <1>18, <2>4, <2>5 DEF SeesNoGame, PumpState
<1>19. CASE PumpDrains
  <2>1. PICK broke \in BOOLEAN : engine' = Drained(engine, broke)
    BY <1>19 DEF PumpDrains, MayBreak
  <2>2. 0 \in 0..Patience
    BY LimitsAssumption
  <2>3. pump \in PumpState /\ pump.cooling \in BOOLEAN
    BY DEF PumpState
  <2>4. pump' = [pump EXCEPT !.at = "probe", !.quiet = 0, !.cooling = pump.cooling]
    BY <1>19 DEF PumpDrains, PassEnds
  <2>5. pump' \in PumpState
    BY <2>2, <2>3, <2>4, PumpSets, Zenon
  <2> QED BY <1>0, <1>19, <2>1, <2>5, EngineValues DEF PumpDrains, PumpState
<1>20. CASE PumpWaits
  <2>1. (IF pump.quiet < Patience THEN pump.quiet + 1 ELSE Patience) \in 0..Patience
    BY LimitsAssumption
  <2> QED BY <1>0, <1>20, <2>1 DEF PumpWaits, PassEnds
<1>21. CASE PumpRestarts
  <2>1. queue' \in Seq(Request)
    BY <1>21, Asking, Sending DEF PumpRestarts
  <2>2. 0 \in 0..Patience
    BY LimitsAssumption
  <2>3. pump \in PumpState
    BY DEF PumpState
  <2>4. pump' = [pump EXCEPT !.at = "probe", !.quiet = 0, !.cooling = TRUE]
    BY <1>21 DEF PumpRestarts, PassEnds
  <2>5. pump' \in PumpState
    BY <2>2, <2>3, <2>4, PumpSets, Zenon
  <2> QED BY <1>0, <1>21, <2>1, <2>5 DEF PumpRestarts, PumpState
<1>22. CASE CooldownElapses
  BY <1>0, <1>22 DEF CooldownElapses
<1>23. ASSUME NEW c \in Clients, Connection(c)
       PROVE  TypeOK'
  <2>1. CASE Query(c)
    <3>1. PICK broke \in BOOLEAN : engine' = Drained(engine, broke)
      BY <2>1 DEF Query, MayBreak
    <3> QED BY <1>0, <2>1, <3>1, EngineValues DEF Query
  <2>2. CASE ToggleRecord(c)
    <3>1. PICK broke \in BOOLEAN, rec \in BOOLEAN :
            engine' = [Drained(engine, broke) EXCEPT !.rec = rec]
      BY <2>2 DEF ToggleRecord, MayBreak
    <3>2. Drained(engine, broke) \in Engine
      BY EngineValues
    <3>3. engine' \in Engine
      BY <3>1, <3>2 DEF Engine
    <3> QED BY <1>0, <2>2, <3>3 DEF ToggleRecord
  <2>3. CASE SaveBegins(c)
    <3>1. PICK broke \in BOOLEAN : engine' = Drained(engine, broke)
      BY <2>3 DEF SaveBegins, MayBreak
    <3> QED BY <1>0, <2>3, <3>1, EngineValues DEF SaveBegins, Goes
  <2>4. CASE \E written \in BOOLEAN : SaveEnds(c, written)
    <3>1. [engine EXCEPT !.ring = {}] \in Engine
      BY DEF Engine
    <3> QED BY <1>0, <2>4, <3>1 DEF SaveEnds, Goes
  <2>5. CASE \E on \in BOOLEAN : SetBuffer(c, on)
    <3>1. queue' \in Seq(Request)
      BY <2>5, Asking, Sending DEF SetBuffer
    <3> QED BY <1>0, <2>5, <3>1 DEF SetBuffer, Goes
  <2>6. CASE \E e \in Encoders : SetConfig(c, e)
    BY <1>0, <2>6 DEF SetConfig
  <2>7. CASE SendSwap(c)
    <3>1. [Ask("Swap", c) EXCEPT !.enc = client[c].enc] \in Request
      <4>1. Ask("Swap", c) \in Request
        BY Asking
      <4>2. client[c].enc \in Encoders
        OBVIOUS
      <4> QED BY <4>1, <4>2, Zenon DEF Request
    <3>2. queue' \in Seq(Request)
      BY <2>7, <3>1, Sending DEF SendSwap
    <3> QED BY <1>0, <2>7, <3>2, EncodersAssumption DEF SendSwap
  <2>8. CASE GivesUp(c)
    <3> DEFINE Forget(r) == IF r.reply = c THEN [r EXCEPT !.reply = Nobody] ELSE r
    <3>1. \A r \in Request : Forget(r) \in Request
      BY DEF Request
    <3>2. req' \in Request /\ queue' = [i \in DOMAIN queue |-> Forget(queue[i])]
      BY <2>8, <3>1 DEF GivesUp
    <3> HIDE DEF Forget
    <3>3. queue' \in Seq(Request)
      BY <3>1, <3>2
    <3> QED BY <1>0, <2>8, <3>2, <3>3 DEF GivesUp, Goes
  <2> QED BY <1>23, <2>1, <2>2, <2>3, <2>4, <2>5, <2>6, <2>7, <2>8 DEF Connection
<1>24. CASE Stall
  <2>1. [engine EXCEPT !.run = "stalled"] \in Engine
    BY DEF Engine
  <2> QED BY <1>0, <1>24, <2>1 DEF Stall
<1>25. CASE UNCHANGED vars
  BY <1>25 DEF vars
<1> QED
  BY <1>1, <1>2, <1>3, <1>4, <1>5, <1>6, <1>7, <1>8, <1>9, <1>10, <1>11, <1>12, <1>13,
     <1>14, <1>15, <1>16, <1>17, <1>18, <1>19, <1>20, <1>21, <1>22, <1>23, <1>24, <1>25
     DEF Next, Supervisor, PumpThread

-----------------------------------------------------------------------------
(* The invariant.                                                          *)

LEMMA OneOrNone == One(TRUE) = 1 /\ One(FALSE) = 0 /\ \A b \in BOOLEAN : One(b) \in {0, 1}
<1> QED BY Zenon DEF One

LEMMA InvInit == Init => IInv
<1> SUFFICES ASSUME Init PROVE IInv
  OBVIOUS
<1>1. /\ engine = NoEngine /\ fresh = NoEngine /\ old = NoEngine /\ ~ enabled /\ shown = enabled
      /\ pc = "idle" /\ sessions = 0 /\ muxers = 0
  BY DEF Init, NoEngine
<1>2. NoEngine.run = "off" /\ NoEngine.ring = {} /\ NoEngine.rec = FALSE
  BY DEF NoEngine, Built
<1>3. Running(NoEngine) = FALSE
  BY <1>2 DEF Running
<1>4. NoLeakedCapture /\ muxers = One(engine.rec)
  <2>1. /\ One(Running(engine)) = 0 /\ One(Running(fresh)) = 0 /\ One(Running(old)) = 0
        /\ One(engine.rec) = 0
    BY <1>1, <1>2, <1>3, OneOrNone, Zenon
  <2> QED BY <1>1, <2>1 DEF NoLeakedCapture
<1> QED
  BY <1>1, <1>2, <1>4 DEF IInv, HandsEmpty, FreshIsNew, OldIsStripped, Progress, Placeholder,
     ShownLags, DisarmedIsOff, Holding

\* What a thread other than the supervisor may do to what IInv speaks of: it
\* reaches the handler's engine only, starts nothing, adds footage of a session
\* that delivers, and opens and closes the recording of that engine.
Aside ==
    /\ UNCHANGED <<enabled, pc, fresh, old, shown, sessions>>
    /\ req'.op = req.op
    /\ engine'.run = engine.run \/ (engine.run = "live" /\ engine'.run = "stalled")
    /\ engine.run = "live" \/ engine'.ring \in {engine.ring, {}}
    /\ muxers = One(engine.rec) => muxers' = One(engine'.rec)

LEMMA Draining ==
  ASSUME NEW e \in Engine, NEW broke \in MayBreak(e)
  PROVE  /\ Drained(e, broke).run = e.run
         /\ e.run = "live" \/ Drained(e, broke).ring = e.ring
         /\ One(e.rec) - One(broke) = One(Drained(e, broke).rec)
<1>1. Drained(e, broke).run = e.run
  BY DEF Drained, Engine
<1>2. e.run = "live" \/ Drained(e, broke).ring = e.ring
  BY DEF Drained, Engine
<1>3. e.rec \in BOOLEAN /\ broke \in BOOLEAN /\ (broke => e.rec)
  BY DEF Engine, MayBreak
<1>4. Drained(e, broke).rec = (e.rec /\ ~ broke)
  BY DEF Drained, Engine
<1>5. One(e.rec) - One(broke) = One(Drained(e, broke).rec)
  <2>1. CASE e.rec = FALSE
    <3>1. broke = FALSE /\ Drained(e, broke).rec = FALSE
      BY <1>3, <1>4, <2>1
    <3>2. One(e.rec) = 0 /\ One(broke) = 0 /\ One(Drained(e, broke).rec) = 0
      BY <2>1, <3>1, OneOrNone, Zenon
    <3> QED BY <3>2
  <2>2. CASE e.rec = TRUE /\ broke = TRUE
    <3>1. Drained(e, broke).rec = FALSE
      BY <1>4, <2>2
    <3>2. One(e.rec) = 1 /\ One(broke) = 1 /\ One(Drained(e, broke).rec) = 0
      BY <2>2, <3>1, OneOrNone, Zenon
    <3> QED BY <3>2
  <2>3. CASE e.rec = TRUE /\ broke = FALSE
    <3>1. Drained(e, broke).rec = TRUE
      BY <1>4, <2>3
    <3>2. One(e.rec) = 1 /\ One(broke) = 0 /\ One(Drained(e, broke).rec) = 1
      BY <2>3, <3>1, OneOrNone, Zenon
    <3> QED BY <3>2
  <2> QED BY <1>3, <2>1, <2>2, <2>3
<1> QED BY <1>1, <1>2, <1>5

LEMMA OthersStepAside ==
  ASSUME TypeOK,
         PumpThread \/ CooldownElapses \/ (\E c \in Clients : Connection(c)) \/ Stall
  PROVE  Aside
<1> USE DEF supervisor, outside
<1>1. engine \in Engine
  BY DEF TypeOK
<1>2. CASE Probe \/ SeesGame \/ SeesNoGame \/ PumpWaits \/ PumpRestarts \/ CooldownElapses
  BY <1>1, <1>2
     DEF Probe, SeesGame, SeesNoGame, PumpWaits, PumpRestarts, CooldownElapses, Aside
<1>3. CASE PumpDrains
  BY <1>1, <1>3, Draining DEF PumpDrains, Aside
<1>4. ASSUME NEW c \in Clients, Query(c) PROVE Aside
  BY <1>1, <1>4, Draining DEF Query, Aside
<1>5. ASSUME NEW c \in Clients, ToggleRecord(c) PROVE Aside
  <2>1. PICK broke \in MayBreak(engine), opens \in BOOLEAN :
          /\ engine' = [Drained(engine, broke) EXCEPT
                           !.rec = ~ Drained(engine, broke).rec /\ opens]
          /\ muxers' = muxers - One(engine.rec)
                         + One(~ Drained(engine, broke).rec /\ opens)
    BY <1>5 DEF ToggleRecord
  <2>2. Drained(engine, broke) \in Engine
    BY <1>1, EngineValues DEF MayBreak
  <2>3. /\ engine'.run = engine.run
        /\ engine.run = "live" \/ engine'.ring = engine.ring
        /\ engine'.rec = (~ Drained(engine, broke).rec /\ opens)
    BY <1>1, <2>1, <2>2, Draining DEF Engine
  <2>4. muxers = One(engine.rec) => muxers' = One(engine'.rec)
    <3> DEFINE rec == ~ Drained(engine, broke).rec /\ opens
    <3>1. rec \in BOOLEAN /\ engine.rec \in BOOLEAN
      BY <1>1 DEF Engine
    <3>2. muxers' = muxers - One(engine.rec) + One(rec) /\ engine'.rec = rec
      BY <2>1, <2>3, Zenon
    <3> HIDE DEF rec
    <3>3. One(rec) \in {0, 1} /\ One(engine.rec) \in {0, 1}
      BY <3>1, OneOrNone, Zenon
    <3> QED BY <3>2, <3>3
  <2> QED BY <1>5, <2>3, <2>4 DEF ToggleRecord, Aside
<1>6. ASSUME NEW c \in Clients, SaveBegins(c) PROVE Aside
  BY <1>1, <1>6, Draining DEF SaveBegins, Aside
<1>7. ASSUME NEW c \in Clients, NEW written \in BOOLEAN, SaveEnds(c, written) PROVE Aside
  <2>1. engine' = engine \/ engine' = [engine EXCEPT !.ring = {}]
    BY <1>7 DEF SaveEnds
  <2>2. engine'.run = engine.run /\ engine'.rec = engine.rec /\ engine'.ring \in {engine.ring, {}}
    BY <1>1, <2>1 DEF Engine
  <2> QED BY <1>1, <1>7, <2>2 DEF SaveEnds, Aside
<1>8. ASSUME NEW c \in Clients, NEW on \in BOOLEAN, SetBuffer(c, on) PROVE Aside
  BY <1>1, <1>8 DEF SetBuffer, Aside
<1>9. ASSUME NEW c \in Clients, NEW e \in Encoders, SetConfig(c, e) PROVE Aside
  BY <1>1, <1>9 DEF SetConfig, Aside
<1>10. ASSUME NEW c \in Clients, SendSwap(c) PROVE Aside
  BY <1>1, <1>10 DEF SendSwap, Aside
<1>11. ASSUME NEW c \in Clients, GivesUp(c) PROVE Aside
  <2>1. req'.op = req.op
    BY <1>11 DEF GivesUp, TypeOK, Request
  <2> QED BY <1>1, <1>11, <2>1 DEF GivesUp, Aside
<1>12. CASE Stall
  BY <1>1, <1>12 DEF Stall, Aside, Engine
<1> QED
  BY <1>2, <1>3, <1>4, <1>5, <1>6, <1>7, <1>8, <1>9, <1>10, <1>11, <1>12
     DEF PumpThread, Connection

LEMMA AsideStep ==
  ASSUME TypeOK, IInv, Aside
  PROVE  IInv'
<1>1. muxers' = One(engine.rec)'
  BY DEF IInv, Aside
<1>2. NoLeakedCapture'
  <2>1. Running(engine)' = Running(engine)
    BY DEF Aside, Running
  <2> QED BY <2>1 DEF IInv, Aside, NoLeakedCapture, Running
<1>3. Placeholder' /\ DisarmedIsOff'
  BY DEF IInv, Aside, Placeholder, DisarmedIsOff
<1>4. HandsEmpty' /\ FreshIsNew' /\ OldIsStripped' /\ Progress' /\ ShownLags'
  BY DEF IInv, Aside, HandsEmpty, FreshIsNew, OldIsStripped, Progress, ShownLags
<1> QED BY <1>1, <1>2, <1>3, <1>4 DEF IInv

\* How many sessions and recordings an engine stands for.
Sessions(e) == One(Running(e))
Files(e) == One(e.rec)

LEMMA Counting ==
  /\ \A e : Sessions(e) = IF e.run = "off" THEN 0 ELSE 1
  /\ \A e : e.rec = FALSE => Files(e) = 0
  /\ \A e, other : e.rec = other.rec => Files(e) = Files(other)
  /\ \A e \in Engine : Files(e) \in Nat
<1>1. \A e : Sessions(e) = IF e.run = "off" THEN 0 ELSE 1
  BY Zenon DEF Sessions, One, Running
<1>2. \A e : e.rec = FALSE => Files(e) = 0
  BY Zenon DEF Files, One
<1>3. \A e \in Engine : Files(e) \in {0, 1}
  <2>1. \A e \in Engine : e.rec \in BOOLEAN
    BY DEF Engine
  <2> QED BY <2>1, OneOrNone, Zenon DEF Files
<1>4. \A e, other : e.rec = other.rec => Files(e) = Files(other)
  BY Zenon DEF Files
<1> QED BY <1>1, <1>2, <1>3, <1>4

\* What an engine becomes when it is built, cut, or takes over from another.
LEMMA EngineFields ==
  /\ \A e : Built(e).run = "off" /\ Built(e).ring = {} /\ Built(e).rec = FALSE
  /\ NoEngine.run = "off" /\ NoEngine.ring = {} /\ NoEngine.rec = FALSE
  /\ \A e \in Engine : Cut(e).run = e.run /\ Cut(e).ring = e.ring /\ Cut(e).rec = FALSE
  /\ \A e, other \in Engine : /\ Adopting(e, other).run = e.run
                               /\ Adopting(e, other).ring = other.ring
                               /\ Adopting(e, other).rec = other.rec
<1> QED BY DEF Built, NoEngine, Cut, Adopting, Engine

LEMMA SupervisorStep ==
  ASSUME TypeOK, IInv, Supervisor
  PROVE  IInv'
<1> DEFINE Books == /\ sessions = Sessions(engine) + Sessions(fresh) + Sessions(old)
                    /\ muxers = Files(engine)
<1> USE DEF supervisor, outside
<1>1. /\ engine \in Engine /\ fresh \in Engine /\ old \in Engine
      /\ engine.run \in {"off", "live", "stalled"} /\ fresh.run \in {"off", "live", "stalled"}
      /\ old.run \in {"off", "live", "stalled"}
      /\ req.op \in {"Ensure", "Disable", "Restart", "Swap"}
      /\ enabled \in BOOLEAN /\ shown \in BOOLEAN
  BY DEF TypeOK, Engine, Request
<1>2. Books
  BY DEF IInv, NoLeakedCapture, Sessions, Files
<1>3. ASSUME Books' PROVE NoLeakedCapture' /\ muxers' = One(engine.rec)'
  BY <1>3 DEF NoLeakedCapture, Sessions, Files
<1> DEFINE Rest == /\ HandsEmpty /\ FreshIsNew /\ OldIsStripped /\ Progress /\ Placeholder
                   /\ ShownLags /\ DisarmedIsOff
<1>4. Rest
  BY DEF IInv
<1>5. SUFFICES Books' /\ Rest'
  BY <1>3 DEF IInv
<1> HIDE DEF Books
<1> USE DEF HandsEmpty, FreshIsNew, OldIsStripped, Progress, Placeholder, ShownLags,
            DisarmedIsOff, Holding
<1>6. CASE Receive
  <2>1. Books'
    BY <1>2, <1>6 DEF Receive, Books
  <2>2. Rest'
    BY <1>4, <1>6, EngineFields DEF Receive
  <2> QED BY <2>1, <2>2
<1>7. CASE RetryDue
  <2>1. Books'
    BY <1>2, <1>7 DEF RetryDue, Books
  <2>2. Rest'
    BY <1>4, <1>7, EngineFields DEF RetryDue
  <2> QED BY <2>1, <2>2
<1>8. CASE EnsureBegins
  <2>1. Books'
    BY <1>1, <1>2, <1>4, <1>8, Counting, EngineFields DEF EnsureBegins, Books
  <2>2. Rest'
    BY <1>4, <1>8, EngineFields DEF EnsureBegins
  <2> QED BY <2>1, <2>2
<1>9. CASE EnsureInstalls
  <2>1. Books'
    BY <1>1, <1>2, <1>4, <1>9, Counting, EngineFields DEF EnsureInstalls, Books
  <2>2. Rest'
    BY <1>1, <1>4, <1>9, EngineFields DEF EnsureInstalls
  <2> QED BY <2>1, <2>2
<1>10. CASE DisableDetaches
  <2>1. Books'
    <3>1. muxers' = muxers - Files(engine)
      BY <1>10 DEF DisableDetaches, Files
    <3>2. Cut(engine) \in Engine
      BY <1>1, EngineValues
    <3>3. old'.run = engine.run /\ old'.rec = FALSE
      BY <1>1, <1>10, <3>2, EngineFields DEF DisableDetaches, Engine
    <3>4. /\ engine'.run = "off" /\ engine'.rec = FALSE /\ old.run = "off"
          /\ fresh' = fresh /\ sessions' = sessions
      BY <1>4, <1>10, EngineFields DEF DisableDetaches
    <3> QED BY <1>1, <1>2, <3>1, <3>3, <3>4, Counting DEF Books
  <2>2. Rest'
    BY <1>1, <1>4, <1>10, EngineFields DEF DisableDetaches
  <2> QED BY <2>1, <2>2
<1>11. CASE RestartDetaches
  <2>1. Books'
    <3>1. enabled => muxers' = muxers - Files(engine)
      BY <1>11 DEF RestartDetaches, Files
    <3> QED BY <1>1, <1>2, <1>4, <1>11, <3>1, Counting, EngineFields DEF RestartDetaches, Books
  <2>2. Rest'
    BY <1>1, <1>4, <1>11, EngineFields DEF RestartDetaches
  <2> QED BY <2>1, <2>2
<1>12. CASE RestartStops
  <2>1. Books'
    <3>1. sessions' = sessions - Sessions(old)
      BY <1>12 DEF RestartStops, Sessions
    <3>2. old'.run = "off"
      BY <1>1, <1>12 DEF RestartStops, Engine
    <3>3. /\ engine' = engine /\ fresh.run = "off" /\ fresh'.run = "off"
          /\ muxers' = muxers
      BY <1>4, <1>12, EngineFields DEF RestartStops
    <3> QED BY <1>1, <1>2, <3>1, <3>2, <3>3, Counting DEF Books
  <2>2. Rest'
    BY <1>1, <1>4, <1>12, EngineFields DEF RestartStops
  <2> QED BY <2>1, <2>2
<1>13. CASE RestartInstalls
  <2>1. Books'
    <3>1. muxers' = muxers - Files(engine)
      BY <1>13 DEF RestartInstalls, Files
    <3> QED BY <1>1, <1>2, <1>4, <1>13, <3>1, Counting, EngineFields DEF RestartInstalls, Books
  <2>2. Rest'
    BY <1>1, <1>4, <1>13, EngineFields DEF RestartInstalls
  <2> QED BY <2>1, <2>2
<1>14. CASE SwapBegins
  <2>1. Books'
    BY <1>1, <1>2, <1>4, <1>14, Counting, EngineFields DEF SwapBegins, Books
  <2>2. Rest'
    BY <1>1, <1>4, <1>14, EngineFields DEF SwapBegins
  <2> QED BY <2>1, <2>2
<1>15. CASE SwapInstalls
  <2>1. Books'
    <3>1. muxers' = muxers - Files(engine)
      BY <1>15 DEF SwapInstalls, Files
    <3> QED BY <1>1, <1>2, <1>4, <1>15, <3>1, Counting, EngineFields DEF SwapInstalls, Books
  <2>2. Rest'
    <3>1. enabled' = (fresh.run # "off")
      BY <1>15 DEF SwapInstalls, Running
    <3>2. enabled' = enabled
      BY <1>1, <1>4, <1>15, <3>1 DEF SwapInstalls
    <3> QED BY <1>1, <1>4, <1>15, <3>2, EngineFields DEF SwapInstalls
  <2> QED BY <2>1, <2>2
<1>16. CASE PortalGrants
  <2>1. Books'
    <3>1. fresh'.run = "live"
      BY <1>1, <1>16 DEF PortalGrants, Engine
    <3>2. fresh.run = "off" /\ engine' = engine /\ old' = old /\ sessions' = sessions + 1
          /\ muxers' = muxers
      BY <1>4, <1>16 DEF PortalGrants
    <3> QED BY <1>1, <1>2, <3>1, <3>2, Counting DEF Books
  <2>2. Rest'
    BY <1>1, <1>4, <1>16, EngineFields DEF PortalGrants
  <2> QED BY <2>1, <2>2
<1>17. CASE PortalRefuses
  <2>1. PICK cancelled \in BOOLEAN :
          EnsureFails(cancelled) \/ RestartFails(cancelled) \/ SwapFails(cancelled)
    BY <1>17 DEF PortalRefuses
  <2>2. CASE EnsureFails(cancelled)
    <3>1. Books'
      BY <1>1, <1>2, <1>4, <2>2, Counting, EngineFields DEF EnsureFails, Books
    <3>2. Rest'
      BY <1>1, <1>4, <2>2, EngineFields DEF EnsureFails
    <3> QED BY <3>1, <3>2
  <2>3. CASE RestartFails(cancelled)
    <3>1. Books'
      <4>1. muxers' = muxers - Files(engine)
        BY <2>3 DEF RestartFails, Files
      <4> QED BY <1>1, <1>2, <1>4, <2>3, <4>1, Counting, EngineFields DEF RestartFails, Books
    <3>2. Rest'
      BY <1>1, <1>4, <2>3, EngineFields DEF RestartFails
    <3> QED BY <3>1, <3>2
  <2>4. CASE SwapFails(cancelled)
    <3>1. Books'
      BY <1>1, <1>2, <1>4, <2>4, Counting, EngineFields DEF SwapFails, Books
    <3>2. Rest'
      BY <1>1, <1>4, <2>4, EngineFields DEF SwapFails
    <3> QED BY <3>1, <3>2
  <2> QED BY <2>1, <2>2, <2>3, <2>4
<1>18. CASE StopOutgoing
  <2>1. Books'
    <3>1. sessions' = sessions - Sessions(old)
      BY <1>18 DEF StopOutgoing, Sessions
    <3> QED BY <1>1, <1>2, <1>4, <1>18, <3>1, Counting, EngineFields DEF StopOutgoing, Books
  <2>2. Rest'
    BY <1>1, <1>4, <1>18, EngineFields DEF StopOutgoing
  <2> QED BY <2>1, <2>2
<1>19. CASE Announce
  <2>1. Books'
    BY <1>1, <1>2, <1>4, <1>19, Counting, EngineFields DEF Announce, Books
  <2>2. Rest'
    BY <1>1, <1>4, <1>19, EngineFields DEF Announce
  <2> QED BY <2>1, <2>2
<1>20. CASE Reply
  <2>1. Books'
    BY <1>1, <1>2, <1>4, <1>20, Counting, EngineFields DEF Reply, Books
  <2>2. Rest'
    BY <1>1, <1>4, <1>20, EngineFields DEF Reply
  <2> QED BY <2>1, <2>2
<1> QED
  BY <1>6, <1>7, <1>8, <1>9, <1>10, <1>11, <1>12, <1>13, <1>14, <1>15, <1>16, <1>17, <1>18, <1>19, <1>20 DEF Supervisor

LEMMA Invariance == Spec => [](TypeOK /\ IInv)
<1>1. Init => TypeOK /\ IInv
  BY TypeInit, InvInit
<1>2. TypeOK /\ IInv /\ [Next]_vars => (TypeOK /\ IInv)'
  <2> SUFFICES ASSUME TypeOK, IInv, [Next]_vars PROVE TypeOK' /\ IInv'
    OBVIOUS
  <2>1. IInv'
    <3>1. CASE Supervisor
      BY <3>1, SupervisorStep
    <3>2. CASE PumpThread \/ CooldownElapses \/ (\E c \in Clients : Connection(c)) \/ Stall
      BY <3>2, OthersStepAside, AsideStep
    <3>3. CASE UNCHANGED vars
      BY <3>3 DEF vars, supervisor, outside, IInv, HandsEmpty, FreshIsNew, OldIsStripped,
         Progress, Placeholder, ShownLags, DisarmedIsOff, NoLeakedCapture, Running
    <3> QED BY <3>1, <3>2, <3>3 DEF Next
  <2> QED BY <2>1, TypeStep
<1> QED BY <1>1, <1>2, PTL DEF Spec

-----------------------------------------------------------------------------
(* The theorems.                                                           *)

(***************************************************************************)
(* Every variable keeps its type, for any length of the queue: counters of *)
(* sessions and files never fall below zero.                               *)
(***************************************************************************)
THEOREM CaptureTypeCorrect == Spec => []TypeOK
<1> QED BY Invariance, PTL

(***************************************************************************)
(* supervisor.rs, handler.rs:158: whatever is open, a capture session or a *)
(* recording file, belongs to an engine that somebody still holds and will *)
(* stop or finish, through every order of arming, restarts, failed starts, *)
(* swaps, stalls, toggles and saves.                                       *)
(***************************************************************************)
THEOREM NothingEverLeaks == Spec => []NothingLeaked
<1>1. TypeOK /\ IInv => NothingLeaked
  <2> SUFFICES ASSUME TypeOK, IInv PROVE NothingLeaked
    OBVIOUS
  <2>1. fresh.rec = FALSE /\ old.rec = FALSE
    BY DEF IInv, FreshIsNew, OldIsStripped
  <2>2. One(fresh.rec) = 0 /\ One(old.rec) = 0 /\ One(engine.rec) \in {0, 1}
    <3>1. engine.rec \in BOOLEAN
      BY DEF TypeOK, Engine
    <3> QED BY <2>1, <3>1, OneOrNone, Zenon
  <2> QED BY <2>1, <2>2 DEF IInv, NothingLeaked, NoOpenMuxerDropped
<1> QED BY <1>1, Invariance, PTL

(***************************************************************************)
(* handler.rs buffer_enabled: a disarmed handler captures and keeps        *)
(* nothing, and what subscribers were told of it is true whenever no       *)
(* request is in hand and when a client is answered.                       *)
(***************************************************************************)
THEOREM ArmedIsAlwaysTrue == Spec => []ArmedIsTrue
<1>1. TypeOK /\ IInv => ArmedIsTrue
  <2> SUFFICES ASSUME TypeOK, IInv PROVE ArmedIsTrue
    OBVIOUS
  <2>1. DisarmedMeansStopped
    BY DEF IInv, DisarmedIsOff, HandsEmpty, Holding, DisarmedMeansStopped
  <2>2. ArmedStateShown
    BY DEF IInv, ShownLags, Progress, ArmedStateShown
  <2> QED BY <2>1, <2>2 DEF ArmedIsTrue
<1> QED BY <1>1, Invariance, PTL

\* What RecoveryKeepsFootage forbids a step.
KeepsFootage ==
    /\ pc' # pc /\ req.op \in {"Ensure", "Restart"} => Footage \subseteq Footage'
    /\ enabled /\ ~ enabled' => req.op = "Disable"

LEMMA SupervisorKeepsFootage ==
  ASSUME TypeOK, IInv, Supervisor
  PROVE  KeepsFootage
<1> USE DEF supervisor, outside
<1>1. engine \in Engine /\ fresh \in Engine /\ old \in Engine /\ config \in Encoders
  BY DEF TypeOK
<1>2. FreshIsNew /\ OldIsStripped /\ Progress /\ Placeholder /\ HandsEmpty
  BY DEF IInv
<1> USE DEF KeepsFootage, Footage
<1>3. CASE Receive
  BY <1>1, <1>2, <1>3, EngineFields DEF Receive
<1>4. CASE RetryDue
  BY <1>1, <1>2, <1>4, EngineFields DEF RetryDue
<1>5. CASE EnsureBegins
  BY <1>1, <1>2, <1>5, EngineFields DEF EnsureBegins, FreshIsNew
<1>6. CASE EnsureInstalls
  BY <1>1, <1>2, <1>6, EngineFields DEF EnsureInstalls, FreshIsNew, OldIsStripped
<1>7. CASE DisableDetaches
  <2>1. req.op = "Disable"
    BY <1>7 DEF DisableDetaches
  <2> QED BY <2>1
<1>8. CASE RestartDetaches
  BY <1>1, <1>2, <1>8, EngineFields DEF RestartDetaches, HandsEmpty, Holding
<1>9. CASE RestartStops
  <2>1. old'.ring = old.ring
    BY <1>1, <1>9 DEF RestartStops, Engine
  <2>2. engine' = engine /\ fresh.ring = {} /\ enabled' = enabled
    BY <1>2, <1>9 DEF RestartStops, FreshIsNew
  <2> QED BY <2>1, <2>2
<1>10. CASE RestartInstalls
  BY <1>1, <1>2, <1>10, EngineFields DEF RestartInstalls, FreshIsNew, Placeholder
<1>11. CASE SwapBegins
  BY <1>1, <1>2, <1>11, EngineFields DEF SwapBegins
<1>12. CASE SwapInstalls
  <2>1. enabled' = (fresh.run # "off") /\ req.op = "Swap"
    BY <1>12 DEF SwapInstalls, Running
  <2>2. enabled => enabled'
    BY <1>2, <1>12, <2>1 DEF SwapInstalls, FreshIsNew
  <2> QED BY <2>1, <2>2
<1>13. CASE PortalGrants
  <2>1. fresh'.ring = fresh.ring
    BY <1>1, <1>13 DEF PortalGrants, Engine
  <2> QED BY <1>13, <2>1 DEF PortalGrants
<1>14. CASE PortalRefuses
  <2>1. PICK cancelled \in BOOLEAN :
          EnsureFails(cancelled) \/ RestartFails(cancelled) \/ SwapFails(cancelled)
    BY <1>14 DEF PortalRefuses
  <2>2. CASE EnsureFails(cancelled)
    BY <1>1, <1>2, <2>2, EngineFields DEF EnsureFails, FreshIsNew
  <2>3. CASE RestartFails(cancelled)
    BY <1>1, <1>2, <2>3, EngineFields DEF RestartFails, FreshIsNew, Placeholder
  <2>4. CASE SwapFails(cancelled)
    BY <1>1, <1>2, <2>4, EngineFields DEF SwapFails
  <2> QED BY <2>1, <2>2, <2>3, <2>4
<1>15. CASE StopOutgoing
  BY <1>1, <1>2, <1>15, EngineFields DEF StopOutgoing, OldIsStripped
<1>16. CASE Announce
  BY <1>1, <1>2, <1>16, EngineFields DEF Announce
<1>17. CASE Reply
  BY <1>1, <1>2, <1>17, EngineFields DEF Reply
<1> QED
  BY <1>3, <1>4, <1>5, <1>6, <1>7, <1>8, <1>9, <1>10, <1>11, <1>12, <1>13, <1>14, <1>15, <1>16, <1>17 DEF Supervisor

(***************************************************************************)
(* supervisor.rs:15: no arm or restart discards footage, wherever the      *)
(* portal fails and whatever happens in between, and no failed start,      *)
(* restart or change of settings disarms what the user armed.              *)
(***************************************************************************)
THEOREM RecoveryAlwaysKeepsFootage == Spec => RecoveryKeepsFootage
<1>1. TypeOK /\ IInv /\ [Next]_vars => [KeepsFootage]_vars
  <2> SUFFICES ASSUME TypeOK, IInv, Next PROVE KeepsFootage
    OBVIOUS
  <2>1. CASE Supervisor
    BY <2>1, SupervisorKeepsFootage
  <2>2. CASE PumpThread \/ CooldownElapses \/ (\E c \in Clients : Connection(c)) \/ Stall
    <3>1. Aside
      BY <2>2, OthersStepAside
    <3> QED BY <3>1 DEF Aside, KeepsFootage
  <2> QED BY <2>1, <2>2 DEF Next
<1>2. [KeepsFootage]_vars <=>
        [/\ pc' # pc /\ req.op \in {"Ensure", "Restart"} => Footage \subseteq Footage'
         /\ enabled /\ ~ enabled' => req.op = "Disable"]_vars
  BY DEF KeepsFootage
<1> QED BY <1>1, <1>2, Invariance, PTL DEF RecoveryKeepsFootage, Spec

-----------------------------------------------------------------------------
(***************************************************************************)
(* The files the daemon writes (ClipFiles).                                *)
(***************************************************************************)

\* The paths unique_path makes, and the screenshot's own GOP file.
Stems == Nat \X BOOLEAN
Paths == [dir : {"clips", "recordings"}, stem : Stems, n : Nat, ext : {"mkv", "png", "gop.mkv"}]
ClipPath(p) == p \in Paths /\ p.ext = "mkv" /\ p.dir = "clips" /\ p.stem[2] = FALSE
RecPath(p) == p \in Paths /\ p.ext = "mkv" /\ (p.dir = "recordings" \/ p.stem[2] = TRUE)

\* The template has {rec} or recordings have their own folder, so a clip and a
\* recording never share a name; and the model's bounds leave a suffix for
\* every file (unique_path tries on until a name is free).
NamesSuffice ==
    /\ Grace \in Nat /\ MaxFiles \in Nat /\ MaxSuffix \in Nat /\ MaxFiles <= MaxSuffix + 1
    /\ RecToken \in BOOLEAN /\ OwnDir \in BOOLEAN /\ (RecToken \/ OwnDir)

\* Every file has a suffix no greater than the number of files begun before it.
FilesNumbered == \A p \in DOMAIN files : p \in Paths /\ p.n < begun

Writing == {"opened", "written", "verified", "prune"}

\* A clip's name is free until its file is opened.
SaverNamed(x) ==
    \/ x = Idle
    \/ /\ ClipPath(x.path) /\ x.path.n < begun
       /\ \/ x.stage = "named" /\ ~Exists(x.path)
          \/ x.stage \in Writing \ {"prune"}
          \/ x = [stage |-> "prune", path |-> x.path, doomed |-> x.doomed]

\* One save at a time.
SaversNamed ==
    /\ DOMAIN savers = Savers
    /\ \A s, t \in Savers : savers[s] # Idle /\ savers[t] # Idle => s = t
    /\ \A s \in Savers : SaverNamed(savers[s])

ShotNamed ==
    \/ shot = Idle
    \/ /\ shot \in [stage : {"named", "gop"}, path : Paths]
       /\ shot.path.ext = "png" /\ shot.path.n < begun /\ ~Exists(shot.path)

Recordable ==
    [stage : {"named"}, path : Paths]
        \cup [stage : {"open"}, path : Paths, written : Nat, stalled : BOOLEAN]

RecordingNamed ==
    \/ recording = Idle
    \/ /\ recording \in Recordable
       /\ RecPath(recording.path) /\ recording.path.n < begun
       /\ recording.stage = "named" => ~Exists(recording.path)

NamesInv ==
    /\ clock \in Nat /\ begun \in Nat
    /\ FilesNumbered /\ SaversNamed /\ ShotNamed /\ RecordingNamed
    /\ ~lost

-----------------------------------------------------------------------------

\* The parts of a path.
LEMMA PathParts ==
  ASSUME NEW p \in Paths
  PROVE  p.stem[1] \in Nat /\ p.stem[2] \in BOOLEAN /\ p.n \in Nat
<1>1. p.stem \in Nat \X BOOLEAN /\ p.n \in Nat
  BY DEF Paths, Stems
<1> QED BY <1>1

\* A set of naturals has a least member: the suffix unique_path takes.
LEMMA LeastOf ==
  ASSUME NEW S, S \subseteq Nat, S # {}
  PROVE  \E m \in S : \A k \in S : m <= k
<1> DEFINE R == {p \in Nat \X Nat : p[1] < p[2]}
<1>1. IsWellFoundedOn(R, Nat)
  BY NatLessThanWellFounded DEF OpToRel
<1>2. PICK m \in S : \A k \in S : ~(<<k, m>> \in R)
  <2> HIDE DEF R
  <2> QED BY <1>1, WFMin
<1>3. \A k \in S : ~(k < m)
  BY <1>2
<1> QED BY <1>3

(***************************************************************************)
(* unique_path: the name is free, and its suffix is no greater than the    *)
(* number of files begun.                                                  *)
(***************************************************************************)
LEMMA NameIsFree ==
  ASSUME NamesSuffice, clock \in Nat, begun \in Nat, begun < MaxFiles, FilesNumbered,
         NEW kind \in {"clip", "recording"}, NEW ext \in {"mkv", "png"}
  PROVE  LET p == UniquePath(kind, ext) IN
         /\ p \in Paths /\ p.ext = ext /\ p.stem[1] = clock
         /\ kind = "clip" /\ ext = "mkv" => ClipPath(p)
         /\ kind = "recording" /\ ext = "mkv" => RecPath(p)
         /\ p.n <= begun /\ ~Exists(p)
<1> DEFINE Name(n) == [dir |-> Dir(kind), stem |-> RenderName(kind), n |-> n, ext |-> ext]
           free == {n \in 0..MaxSuffix : ~Exists(Name(n))}
           m == CHOOSE n \in free : \A k \in free : n <= k
<1>1. begun \in free
  <2>1. begun \in 0..MaxSuffix
    BY DEF NamesSuffice
  <2>2. ~Exists(Name(begun))
    BY DEF FilesNumbered, Exists
  <2> QED BY <2>1, <2>2
<1>2. free \subseteq Nat
  BY DEF NamesSuffice
<1>3. m \in free /\ \A k \in free : m <= k
  <2> HIDE DEF free
  <2>1. \E n \in free : \A k \in free : n <= k
    BY <1>1, <1>2, LeastOf
  <2> QED BY <2>1
<1>4. UniquePath(kind, ext) = Name(m)
  BY Zenon DEF UniquePath
<1>5. m \in Nat /\ m <= begun /\ ~Exists(Name(m))
  BY <1>1, <1>2, <1>3
<1>6. /\ RenderName(kind) \in Stems /\ RenderName(kind)[1] = clock
      /\ RenderName(kind)[2] = (RecToken /\ kind = "recording")
  <2>1. (RecToken /\ kind = "recording") \in BOOLEAN
    BY DEF NamesSuffice
  <2> QED BY <2>1 DEF RenderName, Stems
<1>7. Dir(kind) \in {"clips", "recordings"} /\ (Dir(kind) = "recordings" <=> OwnDir /\ kind = "recording")
  BY DEF Dir, NamesSuffice
<1> HIDE DEF m, free
<1>8. /\ Name(m) \in Paths /\ Name(m).dir = Dir(kind) /\ Name(m).stem = RenderName(kind)
      /\ Name(m).n = m /\ Name(m).ext = ext
  BY <1>5, <1>6, <1>7 DEF Paths
<1>9. /\ kind = "clip" => Dir(kind) = "clips" /\ RenderName(kind)[2] = FALSE
      /\ kind = "recording" => Dir(kind) = "recordings" \/ RenderName(kind)[2] = TRUE
  BY <1>6, <1>7 DEF NamesSuffice
<1> QED BY <1>4, <1>5, <1>6, <1>8, <1>9 DEF ClipPath, RecPath

(***************************************************************************)
(* What a step does to the files that are there.                           *)
(***************************************************************************)
LEMMA NowIs ==
  ASSUME NEW p, NEW state, NEW size, Now(p, state, size)
  PROVE  /\ DOMAIN files' = DOMAIN files \cup {p}
         /\ files'[p].mtime = clock
         /\ \A q \in DOMAIN files : q # p => files'[q] = files[q]
BY DEF Now, Replaced

\* remove_file takes one path and leaves the others as they are.
LEMMA RemovedIs ==
  ASSUME NEW p, Removed(p)
  PROVE  /\ DOMAIN files' = DOMAIN files \ {p}
         /\ \A q \in DOMAIN files : q # p => files'[q] = files[q]
BY DEF Removed, Restrict

(***************************************************************************)
(* The one connection that saves, and what it becomes.                     *)
(***************************************************************************)
LEMMA SaverSteps ==
  ASSUME SaversNamed, NEW s \in Savers, savers[s] # Idle \/ ~Locked,
         NEW to, Step(s, to)
  PROVE  /\ DOMAIN savers' = Savers /\ savers'[s] = to
         /\ \A t \in Savers : t # s => savers[t] = Idle /\ savers'[t] = Idle
         /\ \A r, t \in Savers : savers'[r] # Idle /\ savers'[t] # Idle => r = t
<1>1. DOMAIN savers' = Savers /\ savers'[s] = to
      /\ \A t \in Savers : t # s => savers'[t] = savers[t]
  BY DEF Step, SaversNamed
<1>2. \A t \in Savers : t # s => savers[t] = Idle
  BY DEF SaversNamed, Locked
<1> QED BY <1>1, <1>2

\* The connection that moves keeps SaversNamed when its new state does.
LEMMA SaverStepNamed ==
  ASSUME SaversNamed, NEW s \in Savers, savers[s] # Idle \/ ~Locked,
         NEW to, Step(s, to),
         SaverNamed(to)'
  PROVE  SaversNamed'
<1>1. \A t \in Savers : t # s => savers'[t] = Idle
  BY SaverSteps
<1>2. \A t \in Savers : SaverNamed(savers[t])'
  BY <1>1, SaverSteps DEF SaverNamed
<1> QED BY <1>2, SaverSteps DEF SaversNamed

\* Who does not move keeps a free name, when no file of that name comes.
LEMMA SaversStay ==
  ASSUME SaversNamed, begun \in Nat, begun' \in Nat, begun <= begun', UNCHANGED savers,
         \A p \in DOMAIN files' \ DOMAIN files : ~ClipPath(p),
         FilesNumbered
  PROVE  SaversNamed'
<1>1. ASSUME NEW s \in Savers PROVE SaverNamed(savers[s])'
  <2>1. SaverNamed(savers[s])
    BY DEF SaversNamed
  <2>2. ASSUME ClipPath(savers[s].path), savers[s].path.n < begun
        PROVE  /\ savers[s].path.n < begun'
               /\ Exists(savers[s].path)' => Exists(savers[s].path)
    BY <2>2, PathParts DEF Exists, ClipPath
  <2> QED BY <2>1, <2>2 DEF SaverNamed, ClipPath
<1> QED BY <1>1 DEF SaversNamed

\* A screenshot that does not move keeps its name free when no image comes.
LEMMA ShotStays ==
  ASSUME ShotNamed, begun \in Nat, begun' \in Nat, begun <= begun', UNCHANGED shot,
         \A p \in DOMAIN files' \ DOMAIN files : p.ext # "png"
  PROVE  ShotNamed'
<1>1. ASSUME shot.path \in Paths, shot.path.ext = "png", shot.path.n < begun
      PROVE  shot.path.n < begun' /\ (Exists(shot.path)' => Exists(shot.path))
  BY <1>1, PathParts DEF Exists
<1> QED BY <1>1 DEF ShotNamed

\* A recording that does not move keeps its name when no file of one comes.
LEMMA RecordingStays ==
  ASSUME RecordingNamed, begun \in Nat, begun' \in Nat, begun <= begun', UNCHANGED recording,
         \A p \in DOMAIN files' \ DOMAIN files : ~RecPath(p)
  PROVE  RecordingNamed'
<1>1. ASSUME RecPath(recording.path), recording.path.n < begun
      PROVE  /\ recording.path.n < begun'
             /\ Exists(recording.path)' => Exists(recording.path)
  BY <1>1, PathParts DEF Exists, RecPath
<1> QED BY <1>1 DEF RecordingNamed, RecPath

\* New files are numbered by what was begun.
LEMMA FilesStay ==
  ASSUME FilesNumbered, begun \in Nat, begun' \in Nat, begun <= begun',
         \A p \in DOMAIN files' \ DOMAIN files : p \in Paths /\ p.n < begun'
  PROVE  FilesNumbered'
<1>1. ASSUME NEW p \in DOMAIN files' PROVE p \in Paths /\ p.n < begun'
  <2>1. CASE p \in DOMAIN files
    BY <2>1, PathParts DEF FilesNumbered
  <2> QED BY <2>1
<1> QED BY <1>1 DEF FilesNumbered

(***************************************************************************)
(* The steps of a save.                                                    *)
(***************************************************************************)
LEMMA SaverKeepsNames ==
  ASSUME NamesSuffice, NamesInv, NEW s \in Savers,
         Save(s) \/ OpenClip(s) \/ WriteClip(s) \/ VerifyClip(s)
           \/ ListOld(s) \/ PruneNext(s) \/ Saved(s)
  PROVE  NamesInv'
<1>1. /\ clock \in Nat /\ begun \in Nat
      /\ FilesNumbered /\ SaversNamed /\ ShotNamed /\ RecordingNamed /\ ~lost
      /\ SaverNamed(savers[s])
  BY DEF NamesInv, SaversNamed
<1>2. Idle.stage = "idle"
  BY DEF Idle
<1>3. CASE Save(s)
  <2> PICK p : p = UniquePath("clip", "mkv")
    OBVIOUS
  <2>1. begun < MaxFiles /\ begun' = begun + 1 /\ UNCHANGED <<clock, files, shot, recording, lost>>
        /\ ~Locked /\ Step(s, [stage |-> "named", path |-> p])
    BY <1>3 DEF Save, Begin
  <2>2. ClipPath(p) /\ p.n <= begun /\ p.n \in Nat /\ ~Exists(p)
    BY <1>1, <2>1, NameIsFree, PathParts
  <2>3. SaverNamed([stage |-> "named", path |-> p])'
    BY <1>1, <2>1, <2>2 DEF SaverNamed, Exists, ClipPath
  <2>4. SaversNamed'
    BY <1>1, <2>1, <2>3, SaverStepNamed
  <2>5. begun' \in Nat /\ begun <= begun'
    BY <1>1, <2>1
  <2>6. ShotNamed' /\ RecordingNamed' /\ FilesNumbered'
    <3>1. ShotNamed'
      BY <1>1, <2>1, <2>5, ShotStays
    <3>2. RecordingNamed'
      BY <1>1, <2>1, <2>5, RecordingStays
    <3>3. FilesNumbered'
      BY <1>1, <2>1, <2>5, FilesStay
    <3> QED BY <3>1, <3>2, <3>3
  <2> QED BY <1>1, <2>1, <2>4, <2>5, <2>6 DEF NamesInv
<1>4. CASE OpenClip(s)
  <2> DEFINE p == Clip(s)
  <2>1. /\ UNCHANGED <<clock, shot, recording, begun>>
        /\ savers[s].stage = "named" /\ Now(p, "open", 0) /\ lost' = (lost \/ Whole(p))
    BY <1>4 DEF OpenClip, SaverAt, Opened
  <2>2. PICK to : /\ Step(s, to)
                  /\ \/ to = Idle
                     \/ \E u \in Units : to = [stage |-> "opened", path |-> p, unit |-> u]
    BY <1>4 DEF OpenClip
  <2>3. ClipPath(p) /\ p.n < begun /\ ~Exists(p) /\ savers[s] # Idle
    BY <1>1, <1>2, <2>1 DEF SaverNamed, Writing, Clip
  <2> HIDE DEF p
  <2>4. SaverNamed(to)'
    BY <2>1, <2>2, <2>3 DEF SaverNamed, Writing, ClipPath
  <2>5. SaversNamed'
    BY <1>1, <2>2, <2>3, <2>4, SaverStepNamed
  <2>6. \A q \in DOMAIN files' \ DOMAIN files : q = p
    BY <2>1, NowIs
  <2>7. ShotNamed' /\ RecordingNamed' /\ FilesNumbered'
    <3>1. begun' \in Nat /\ begun <= begun'
      BY <1>1, <2>1
    <3>2. \A q \in DOMAIN files' \ DOMAIN files :
              q \in Paths /\ q.n < begun' /\ q.ext # "png" /\ ~RecPath(q)
      BY <2>1, <2>3, <2>6 DEF ClipPath, RecPath
    <3>3. ShotNamed'
      BY <1>1, <2>1, <3>1, <3>2, ShotStays
    <3>4. RecordingNamed'
      BY <1>1, <2>1, <3>1, <3>2, RecordingStays
    <3>5. FilesNumbered'
      BY <1>1, <3>1, <3>2, FilesStay
    <3> QED BY <3>3, <3>4, <3>5
  <2>8. ~lost'
    BY <1>1, <2>1, <2>3 DEF Whole
  <2> QED BY <1>1, <2>1, <2>5, <2>7, <2>8 DEF NamesInv
<1>5. CASE WriteClip(s) \/ VerifyClip(s)
  <2> DEFINE p == Clip(s)
  <2>1. /\ UNCHANGED <<clock, shot, recording, lost, begun>>
        /\ savers[s].stage \in {"opened", "written"}
    BY <1>5 DEF WriteClip, VerifyClip, SaverAt
  <2>2. PICK to : /\ Step(s, to)
                  /\ \/ to = Idle
                     \/ \E g \in {"written", "verified"} : to = [stage |-> g, path |-> p]
    BY <1>5 DEF WriteClip, VerifyClip
  <2>3. ClipPath(p) /\ p.n < begun /\ savers[s] # Idle
    BY <1>1, <1>2, <2>1 DEF SaverNamed, Clip
  <2>4. DOMAIN files' \subseteq DOMAIN files \cup {p}
    <3>1. \/ \E state \in {"whole", "broken"} : Now(p, state, 1)
          \/ UNCHANGED files
          \/ Removed(p)
      BY <1>5 DEF WriteClip, VerifyClip
    <3> HIDE DEF p
    <3> QED BY <3>1, NowIs, RemovedIs
  <2> HIDE DEF p
  <2>5. SaverNamed(to)'
    BY <2>1, <2>2, <2>3 DEF SaverNamed, Writing, ClipPath
  <2>6. SaversNamed'
    BY <1>1, <2>2, <2>3, <2>5, SaverStepNamed
  <2>7. ShotNamed' /\ RecordingNamed' /\ FilesNumbered'
    <3>1. begun' \in Nat /\ begun <= begun'
      BY <1>1, <2>1
    <3>2. \A q \in DOMAIN files' \ DOMAIN files :
              q \in Paths /\ q.n < begun' /\ q.ext # "png" /\ ~RecPath(q)
      BY <2>1, <2>3, <2>4 DEF ClipPath, RecPath
    <3>3. ShotNamed'
      BY <1>1, <2>1, <3>1, <3>2, ShotStays
    <3>4. RecordingNamed'
      BY <1>1, <2>1, <3>1, <3>2, RecordingStays
    <3>5. FilesNumbered'
      BY <1>1, <3>1, <3>2, FilesStay
    <3> QED BY <3>3, <3>4, <3>5
  <2> QED BY <1>1, <2>1, <2>6, <2>7 DEF NamesInv
<1>6. CASE ListOld(s) \/ PruneNext(s) \/ Saved(s)
  <2>1. /\ UNCHANGED <<clock, shot, recording, lost, begun>>
        /\ savers[s].stage \in {"verified", "prune"}
    BY <1>6 DEF ListOld, PruneNext, Saved, SaverAt
  <2>2. ClipPath(Clip(s)) /\ Clip(s).n < begun /\ savers[s] # Idle
        /\ (savers[s].stage = "prune" =>
                savers[s] = [stage |-> "prune", path |-> Clip(s), doomed |-> savers[s].doomed])
    BY <1>1, <1>2, <2>1 DEF SaverNamed, Clip
  <2>3. PICK to : /\ Step(s, to)
                  /\ \/ to = Idle
                     \/ \E d : to = [stage |-> "prune", path |-> Clip(s), doomed |-> d]
    <3>1. CASE ListOld(s)
      BY <3>1 DEF ListOld
    <3>2. CASE PruneNext(s)
      <4>1. savers[s].stage = "prune"
        BY <3>2 DEF PruneNext, SaverAt
      <4>2. PICK p \in savers[s].doomed : Step(s, [savers[s] EXCEPT !.doomed = @ \ {p}])
        BY <3>2 DEF PruneNext
      <4>3. [savers[s] EXCEPT !.doomed = @ \ {p}]
                = [stage |-> "prune", path |-> Clip(s), doomed |-> savers[s].doomed \ {p}]
        BY <2>2, <4>1
      <4> QED BY <4>2, <4>3
    <3>3. CASE Saved(s)
      BY <3>3 DEF Saved
    <3> QED BY <1>6, <3>1, <3>2, <3>3
  <2>4. DOMAIN files' \subseteq DOMAIN files
    <3>1. UNCHANGED files \/ \E p : Removed(p)
      BY <1>6 DEF ListOld, PruneNext, Saved
    <3> QED BY <3>1, RemovedIs
  <2>5. SaverNamed(to)'
    <3>1. CASE to = Idle
      BY <3>1 DEF SaverNamed
    <3>2. CASE to # Idle
      <4>1. PICK d : to = [stage |-> "prune", path |-> Clip(s), doomed |-> d]
        BY <2>3, <3>2
      <4>2. to.path = Clip(s) /\ to.doomed = d
        BY <4>1
      <4> QED BY <2>1, <2>2, <4>1, <4>2 DEF SaverNamed, ClipPath
    <3> QED BY <3>1, <3>2
  <2>6. SaversNamed'
    BY <1>1, <2>2, <2>3, <2>5, SaverStepNamed
  <2>7. ShotNamed' /\ RecordingNamed' /\ FilesNumbered'
    BY <1>1, <2>1, <2>4, ShotStays, RecordingStays, FilesStay
  <2> QED BY <1>1, <2>1, <2>6, <2>7 DEF NamesInv
<1> QED BY <1>3, <1>4, <1>5, <1>6

(***************************************************************************)
(* The steps of a screenshot and of a recording, the clock and the user.   *)
(***************************************************************************)
LEMMA OthersKeepNames ==
  ASSUME NamesSuffice, NamesInv,
         \/ Screenshot \/ WriteGop \/ ExtractPng
         \/ NameRecording \/ OpenRecording
         \/ WriteRecording \/ FinishRecording
         \/ Tick \/ Delete
  PROVE  NamesInv'
<1>1. /\ clock \in Nat /\ begun \in Nat
      /\ FilesNumbered /\ SaversNamed /\ ShotNamed /\ RecordingNamed /\ ~lost
  BY DEF NamesInv
<1>2. Idle.stage = "idle"
  BY DEF Idle
<1>3. CASE Screenshot
  <2> DEFINE p == UniquePath("clip", "png")
  <2>1. /\ begun < MaxFiles /\ begun' = begun + 1
        /\ UNCHANGED <<clock, files, savers, recording, lost>>
        /\ shot' = [stage |-> "named", path |-> p]
    BY <1>3 DEF Screenshot, Begin
  <2>2. p \in Paths /\ p.ext = "png" /\ p.n <= begun /\ p.n \in Nat /\ ~Exists(p)
    BY <1>1, <2>1, NameIsFree, PathParts
  <2> HIDE DEF p
  <2>3. ShotNamed'
    BY <1>1, <2>1, <2>2 DEF ShotNamed, Exists
  <2>4. begun' \in Nat /\ begun <= begun'
    BY <1>1, <2>1
  <2>5. SaversNamed' /\ RecordingNamed' /\ FilesNumbered'
    BY <1>1, <2>1, <2>4, SaversStay, RecordingStays, FilesStay
  <2> QED BY <1>1, <2>1, <2>3, <2>4, <2>5 DEF NamesInv
<1>4. CASE WriteGop
  <2>1. shot.stage = "named" /\ UNCHANGED <<clock, savers, recording, lost, begun>>
    BY <1>4 DEF WriteGop
  <2>2. /\ shot \in [stage : {"named", "gop"}, path : Paths]
        /\ shot.path.ext = "png" /\ shot.path.n < begun /\ ~Exists(shot.path)
    BY <1>1, <1>2, <2>1 DEF ShotNamed
  <2>3. Gop \in Paths /\ Gop.ext = "gop.mkv" /\ Gop.n = shot.path.n
    BY <2>2 DEF Gop, Paths
  <2>4. DOMAIN files' = DOMAIN files \cup {Gop}
    <3>1. \E state, size : Now(Gop, state, size)
      BY <1>4 DEF WriteGop
    <3> QED BY <3>1, NowIs
  <2>5. shot' = Idle \/ shot' = [shot EXCEPT !.stage = "gop"]
    BY <1>4 DEF WriteGop
  <2>6. ShotNamed'
    <3>1. CASE shot' = Idle
      BY <3>1 DEF ShotNamed
    <3>2. CASE shot' = [shot EXCEPT !.stage = "gop"]
      <4>1. shot' \in [stage : {"named", "gop"}, path : Paths] /\ shot'.path = shot.path
        BY <2>2, <3>2
      <4> QED BY <2>1, <2>2, <2>3, <2>4, <4>1 DEF ShotNamed, Exists
    <3> QED BY <2>5, <3>1, <3>2
  <2>7. SaversNamed' /\ RecordingNamed' /\ FilesNumbered'
    <3>1. begun' \in Nat /\ begun <= begun'
      BY <1>1, <2>1
    <3>2. \A q \in DOMAIN files' \ DOMAIN files :
              q \in Paths /\ q.n < begun' /\ ~ClipPath(q) /\ ~RecPath(q)
      BY <2>1, <2>2, <2>3, <2>4 DEF ClipPath, RecPath
    <3>3. SaversNamed'
      BY <1>1, <2>1, <3>1, <3>2, SaversStay
    <3>4. RecordingNamed'
      BY <1>1, <2>1, <3>1, <3>2, RecordingStays
    <3>5. FilesNumbered'
      BY <1>1, <3>1, <3>2, FilesStay
    <3> QED BY <3>3, <3>4, <3>5
  <2> QED BY <1>1, <2>1, <2>6, <2>7 DEF NamesInv
<1>5. CASE ExtractPng
  <2>1. shot.stage = "gop" /\ shot' = Idle /\ UNCHANGED <<clock, savers, recording, begun>>
        /\ lost' = (lost \/ Whole(shot.path))
    BY <1>5 DEF ExtractPng
  <2>2. /\ shot.path \in Paths /\ shot.path.ext = "png"
        /\ shot.path.n < begun /\ ~Exists(shot.path)
    BY <1>1, <1>2, <2>1 DEF ShotNamed
  <2>3. DOMAIN files' \subseteq DOMAIN files \cup {shot.path}
    <3>1. \/ Replaced({Gop}, shot.path, "whole", 1)
          \/ Removed(Gop)
      BY <1>5 DEF ExtractPng
    <3> QED BY <3>1, RemovedIs DEF Replaced
  <2>4. ShotNamed' /\ ~lost'
    BY <1>1, <2>1, <2>2 DEF ShotNamed, Whole
  <2>5. SaversNamed' /\ RecordingNamed' /\ FilesNumbered'
    <3>1. begun' \in Nat /\ begun <= begun'
      BY <1>1, <2>1
    <3>2. \A q \in DOMAIN files' \ DOMAIN files :
              q \in Paths /\ q.n < begun' /\ ~ClipPath(q) /\ ~RecPath(q)
      BY <2>1, <2>2, <2>3 DEF ClipPath, RecPath
    <3>3. SaversNamed'
      BY <1>1, <2>1, <3>1, <3>2, SaversStay
    <3>4. RecordingNamed'
      BY <1>1, <2>1, <3>1, <3>2, RecordingStays
    <3>5. FilesNumbered'
      BY <1>1, <3>1, <3>2, FilesStay
    <3> QED BY <3>3, <3>4, <3>5
  <2> QED BY <1>1, <2>1, <2>4, <2>5 DEF NamesInv
<1>6. CASE NameRecording
  <2> DEFINE p == UniquePath("recording", "mkv")
  <2>1. begun < MaxFiles /\ begun' = begun + 1 /\ UNCHANGED <<clock, files, savers, shot, lost>>
        /\ recording' = [stage |-> "named", path |-> p]
    BY <1>6 DEF NameRecording, Begin
  <2>2. RecPath(p) /\ p.n <= begun /\ p.n \in Nat /\ ~Exists(p)
    BY <1>1, <2>1, NameIsFree, PathParts
  <2> HIDE DEF p
  <2>3. RecordingNamed'
    BY <1>1, <2>1, <2>2 DEF RecordingNamed, Recordable, RecPath, Exists
  <2>4. begun' \in Nat /\ begun <= begun'
    BY <1>1, <2>1
  <2>5. SaversNamed' /\ ShotNamed' /\ FilesNumbered'
    BY <1>1, <2>1, <2>4, SaversStay, ShotStays, FilesStay
  <2> QED BY <1>1, <2>1, <2>3, <2>4, <2>5 DEF NamesInv
<1>7. CASE OpenRecording \/ WriteRecording \/ FinishRecording
  <2> DEFINE p == recording.path
  <2>1. recording.stage \in {"named", "open"} /\ UNCHANGED <<clock, savers, shot, begun>>
    BY <1>7 DEF OpenRecording, WriteRecording, FinishRecording
  <2>2. /\ recording \in Recordable
        /\ RecPath(p) /\ p.n < begun
        /\ recording.stage = "named" => ~Exists(p)
    BY <1>1, <1>2, <2>1 DEF RecordingNamed
  <2>3. ~lost'
    BY <1>1, <1>7, <2>2
        DEF OpenRecording, WriteRecording, FinishRecording,
            Opened, Whole
  <2>4. DOMAIN files' \subseteq DOMAIN files \cup {p}
    <3>1. UNCHANGED files \/ \E state, size : Now(p, state, size)
      BY <1>7 DEF OpenRecording, WriteRecording, FinishRecording, Opened, RecordingWrites
    <3> HIDE DEF p
    <3> QED BY <3>1, NowIs
  <2>5. RecordingNamed'
    <3>2. recording' = Idle
          \/ (recording' \in Recordable /\ recording'.stage = "open" /\ recording'.path = p)
      <4>1. CASE OpenRecording
        BY <1>1, <2>2, <4>1 DEF OpenRecording, Recordable
      <4>2. CASE WriteRecording
        <5>1. recording.stage = "open" /\ recording' = [recording EXCEPT !.written = clock]
          BY <4>2 DEF WriteRecording
        <5> QED BY <1>1, <2>2, <5>1 DEF Recordable
      <4>3. CASE FinishRecording
        BY <4>3 DEF FinishRecording
      <4> QED BY <1>7, <4>1, <4>2, <4>3
    <3> HIDE DEF p
    <3> QED BY <2>1, <2>2, <3>2 DEF RecordingNamed, RecPath
  <2> HIDE DEF p
  <2>6. SaversNamed' /\ ShotNamed' /\ FilesNumbered'
    <3>1. begun' \in Nat /\ begun <= begun'
      BY <1>1, <2>1
    <3>2. \A q \in DOMAIN files' \ DOMAIN files :
              q \in Paths /\ q.n < begun' /\ ~ClipPath(q) /\ q.ext # "png"
      BY <2>1, <2>2, <2>4 DEF ClipPath, RecPath
    <3>3. SaversNamed'
      BY <1>1, <2>1, <3>1, <3>2, SaversStay
    <3>4. ShotNamed'
      BY <1>1, <2>1, <3>1, <3>2, ShotStays
    <3>5. FilesNumbered'
      BY <1>1, <3>1, <3>2, FilesStay
    <3> QED BY <3>3, <3>4, <3>5
  <2> QED BY <1>1, <2>1, <2>3, <2>5, <2>6 DEF NamesInv
<1>8. CASE Tick \/ Delete
  <2>1. UNCHANGED <<savers, shot, lost, begun>> /\ clock' \in Nat
    BY <1>1, <1>8 DEF Tick, Delete
  <2>2. DOMAIN files' \subseteq DOMAIN files
    <3>1. UNCHANGED files \/ \E p : Removed(p)
      BY <1>8 DEF Tick, Delete
    <3> QED BY <3>1, RemovedIs
  <2>3. SaversNamed' /\ ShotNamed' /\ FilesNumbered'
    BY <1>1, <2>1, <2>2, SaversStay, ShotStays, FilesStay
  <2>4. RecordingNamed'
    <3>1. CASE recording' = recording
      BY <1>1, <2>1, <2>2, <3>1, RecordingStays
    <3>2. CASE recording' # recording
      <4>1. recording.stage = "open" /\ recording' = [recording EXCEPT !.stalled = TRUE]
        BY <1>8, <3>2 DEF Tick, Delete
      <4>2. recording \in Recordable /\ RecPath(recording.path) /\ recording.path.n < begun
        BY <1>1, <1>2, <4>1 DEF RecordingNamed
      <4>3. recording' \in Recordable /\ recording'.stage = "open" /\ recording'.path = recording.path
        BY <4>1, <4>2 DEF Recordable
      <4> QED BY <2>1, <4>2, <4>3 DEF RecordingNamed, RecPath
    <3> QED BY <3>1, <3>2
  <2> QED BY <1>1, <2>1, <2>3, <2>4 DEF NamesInv
<1> QED BY <1>3, <1>4, <1>5, <1>6, <1>7, <1>8

\* The names are in order at the start.
LEMMA NamesInit == ASSUME NamesSuffice, FilesInit PROVE NamesInv
<1>1. DOMAIN files = {}
  BY DEF FilesInit
<1>2. FilesNumbered
  BY <1>1 DEF FilesNumbered
<1>3. SaversNamed
  BY DEF FilesInit, SaversNamed, SaverNamed
<1> QED BY <1>2, <1>3 DEF FilesInit, NamesInv, ShotNamed, RecordingNamed

\* Every step keeps the names in order.
LEMMA NamesNext == ASSUME NamesSuffice, NamesInv, [FilesNext]_filesVars PROVE NamesInv'
<1>1. CASE UNCHANGED filesVars
  <2>1. /\ SaversNamed' /\ ShotNamed' /\ RecordingNamed' /\ FilesNumbered'
    BY <1>1, SaversStay, ShotStays, RecordingStays, FilesStay DEF filesVars, NamesInv
  <2> QED BY <1>1, <2>1 DEF NamesInv, filesVars
<1>2. CASE FilesNext
  BY <1>2, SaverKeepsNames, OthersKeepNames DEF FilesNext
<1> QED BY <1>1, <1>2

\* No finished clip, screenshot or recording is ever overwritten, whoever else
\* saves, records, prunes or deletes in between (unique_path names by what
\* exists, the writers open later).
THEOREM NothingEverOverwritten == NamesSuffice => (FilesSpec => []NothingOverwritten)
<1> SUFFICES ASSUME NamesSuffice PROVE FilesSpec => []NothingOverwritten
  OBVIOUS
<1>1. FilesInit => NamesInv
  BY NamesInit
<1>2. NamesInv /\ [FilesNext]_filesVars => NamesInv'
  BY NamesNext
<1>3. NamesInv => NothingOverwritten
  BY DEF NamesInv, NothingOverwritten
<1> QED BY <1>1, <1>2, <1>3, PTL DEF FilesSpec

-----------------------------------------------------------------------------
(* What is in use stays.                                                     *)

Dated == \A p \in DOMAIN files :
    files[p].mtime \in Nat /\ p.stem[1] <= files[p].mtime /\ files[p].mtime <= clock

\* A name is opened, and an open file written, within the grace.
Recent(p) == p.stem[1] <= clock /\ clock <= p.stem[1] + Grace
Current(p) == Exists(p) /\ clock <= files[p].mtime + Grace /\ p.stem[1] <= clock

SaverUsed(x) ==
    /\ x.stage = "named" => Recent(x.path)
    /\ x.stage \in Writing => Current(x.path)
SaversUsed == \A s \in Savers : SaverUsed(savers[s])
ShotUsed ==
    /\ shot.stage = "named" => Recent(shot.path)
    /\ shot.stage = "gop" => Current(Gop) /\ shot.path.stem[1] <= clock
RecordingUsed ==
    /\ recording.stage = "named" => Recent(recording.path)
    /\ recording.stage = "open" =>
          /\ recording.path.stem[1] <= clock
          /\ Exists(recording.path) => files[recording.path].mtime = recording.written
          /\ ~recording.stalled => Exists(recording.path) /\ clock <= recording.written + Grace

\* The files in use but for that of a recording that stalled.
Spared ==
    {Clip(s) : s \in {t \in Savers : savers[t].stage \in Writing}}
        \cup {Gop : x \in {y \in {shot} : y.stage = "gop"}}
        \cup {x.path : x \in {y \in {recording} : y.stage = "open" /\ ~y.stalled}}

\* What a prune still has to remove is older than any name that can be opened.
PruneSpares ==
    \A s \in Savers : savers[s].stage = "prune" =>
        \A p \in savers[s].doomed : p \in Paths /\ p.stem[1] + Grace < clock /\ p \notin Spared

UseInv == Dated /\ SaversUsed /\ ShotUsed /\ RecordingUsed /\ PruneSpares

\* Whose files those are: those of savers, the screenshot and the recording.
LEMMA SparedIs ==
  ASSUME NEW p
  PROVE  p \in Spared <=>
            \/ \E s \in Savers : savers[s].stage \in Writing /\ p = Clip(s)
            \/ shot.stage = "gop" /\ p = Gop
            \/ recording.stage = "open" /\ ~recording.stalled /\ p = recording.path
BY DEF Spared

\* All of them are in use, and of what is in use only a stalled recording's
\* file is not among them.
LEMMA SparedInUse ==
  ASSUME NEW p
  PROVE  /\ p \in Spared => p \in InUse
         /\ p \in InUse => p \in Spared \/ (OfRecording(p) /\ recording.stalled)
BY SparedIs DEF InUse, Writing, OfRecording

\* Whose names are still to be opened.
LEMMA NamedIs ==
  /\ \A s \in Savers : savers[s].stage = "named" => Clip(s) \in Named
  /\ shot.stage = "named" => shot.path \in Named
  /\ recording.stage = "named" => recording.path \in Named
BY DEF Named, SaverAt

\* A screenshot's two files differ from any other's by their extensions.
LEMMA GopIs ==
  ASSUME ShotNamed, shot.stage \in {"named", "gop"}
  PROVE  /\ shot.path \in Paths /\ shot.path.ext = "png"
         /\ Gop \in Paths /\ Gop.ext = "gop.mkv" /\ Gop.stem = shot.path.stem
<1>1. shot.path \in Paths /\ shot.path.ext = "png"
  BY DEF ShotNamed, Idle
<1> QED BY <1>1 DEF Gop, Paths

\* A save under way has a clip's path.
LEMMA ClipIs ==
  ASSUME SaversNamed, NEW s \in Savers, savers[s].stage \in Writing \cup {"named"}
  PROVE  ClipPath(Clip(s)) /\ savers[s] # Idle
BY DEF SaversNamed, SaverNamed, Idle, Writing, Clip

\* A recording under way has a recording's path.
LEMMA RecordingIs ==
  ASSUME RecordingNamed, recording.stage \in {"named", "open"}
  PROVE  RecPath(recording.path)
BY DEF RecordingNamed, Idle

(***************************************************************************)
(* Who does not move keeps its file, when the step touches another.        *)
(***************************************************************************)
Untouched(q) == q \in DOMAIN files' /\ files'[q] = files[q]

LEMMA SaversUsedStay ==
  ASSUME SaversNamed, SaversUsed, UNCHANGED <<clock, savers>>,
         \A q \in Spared : ClipPath(q) => Untouched(q)
  PROVE  SaversUsed'
<1>1. ASSUME NEW s \in Savers PROVE SaverUsed(savers[s])'
  <2>1. SaverUsed(savers[s])
    BY DEF SaversUsed
  <2>2. CASE savers[s].stage \in Writing
    <3>1. Clip(s) \in Spared /\ ClipPath(Clip(s))
      BY <2>2, SparedIs, ClipIs
    <3>2. Untouched(savers[s].path)
      BY <3>1 DEF Clip
    <3> QED BY <2>1, <2>2, <3>2 DEF SaverUsed, Current, Exists, Untouched, Writing
  <2>3. CASE savers[s].stage \notin Writing
    BY <2>1, <2>3 DEF SaverUsed, Recent
  <2> QED BY <2>2, <2>3
<1> QED BY <1>1 DEF SaversUsed

\* The same of the screenshot,
LEMMA ShotUsedStays ==
  ASSUME ShotNamed, ShotUsed, UNCHANGED <<clock, shot>>,
         \A q \in Spared : q.ext = "gop.mkv" => Untouched(q)
  PROVE  ShotUsed'
<1>1. CASE shot.stage = "gop"
  <2>1. Gop \in Spared /\ Gop.ext = "gop.mkv"
    BY <1>1, SparedIs, GopIs
  <2>2. Untouched(Gop) /\ Gop' = Gop
    BY <2>1 DEF Gop
  <2> QED BY <1>1, <2>2 DEF ShotUsed, Current, Exists, Untouched
<1>2. CASE shot.stage # "gop"
  BY <1>2 DEF ShotUsed, Recent
<1> QED BY <1>1, <1>2

\* A file of a recording is neither made nor written.
NoneRecorded == \A q \in DOMAIN files' : RecPath(q) => q \in DOMAIN files /\ files'[q] = files[q]

\* and of the recording.
LEMMA RecordingUsedStays ==
  ASSUME RecordingNamed, RecordingUsed, UNCHANGED <<clock, recording>>, NoneRecorded,
         \A q \in Spared : RecPath(q) => Untouched(q)
  PROVE  RecordingUsed'
<1>1. CASE recording.stage = "open"
  <2> PICK p : p = recording.path
    OBVIOUS
  <2>1. RecPath(p) /\ (~recording.stalled => p \in Spared)
    BY <1>1, SparedIs, RecordingIs
  <2>2. ~recording.stalled => Untouched(p)
    BY <2>1
  <2>3. p \in DOMAIN files' => p \in DOMAIN files /\ files'[p] = files[p]
    BY <2>1 DEF NoneRecorded
  <2> QED BY <1>1, <2>2, <2>3 DEF RecordingUsed, Exists, Untouched
<1>2. CASE recording.stage # "open"
  BY <1>2 DEF RecordingUsed, Recent
<1> QED BY <1>1, <1>2

\* A prune under way stays harmless when what comes into use is too young for it.
LEMMA PruneStaysSparing ==
  ASSUME PruneSpares, UNCHANGED <<clock, savers>>,
         \A q \in Spared' \ Spared : ~(q.stem[1] + Grace < clock)
  PROVE  PruneSpares'
<1>1. ASSUME NEW s \in Savers, savers'[s].stage = "prune", NEW p \in savers'[s].doomed
      PROVE  p \in Paths /\ p.stem[1] + Grace < clock' /\ p \notin Spared'
  <2>1. p \in Paths /\ p.stem[1] + Grace < clock /\ p \notin Spared
    BY <1>1 DEF PruneSpares
  <2> QED BY <2>1
<1> QED BY <1>1 DEF PruneSpares

\* Without a prune under way there is nothing to spare.
LEMMA NoPrune ==
  ASSUME \A t \in Savers : savers'[t].stage # "prune"
  PROVE  PruneSpares'
BY DEF PruneSpares

\* Files are dated between the second of their name and now.
LEMMA DatedStays ==
  ASSUME Dated, clock \in Nat, clock' \in Nat, clock <= clock',
         \A p \in DOMAIN files' : \/ p \in DOMAIN files /\ files'[p] = files[p]
                                  \/ files'[p].mtime = clock /\ p.stem[1] <= clock
  PROVE  Dated'
BY DEF Dated

\* Whose files are in use after a step.
LEMMA SparedNext ==
  ASSUME NEW p
  PROVE  p \in Spared' <=>
            \/ \E s \in Savers : savers'[s].stage \in Writing /\ p = savers'[s].path
            \/ shot'.stage = "gop" /\ p = Gop'
            \/ recording'.stage = "open" /\ ~recording'.stalled /\ p = recording'.path
BY DEF Spared, Clip

\* What is in use exists, and was written within the grace.
LEMMA SparedExists ==
  ASSUME UseInv, NEW p \in Spared
  PROVE  p \in DOMAIN files /\ clock <= files[p].mtime + Grace
<1>1. SaversUsed /\ ShotUsed /\ RecordingUsed
  BY DEF UseInv
<1>2. CASE Current(p)
  BY <1>2 DEF Current, Exists
<1>3. CASE recording.stage = "open" /\ ~recording.stalled /\ p = recording.path
  BY <1>1, <1>3 DEF RecordingUsed, Exists
<1> QED BY <1>1, <1>2, <1>3, SparedIs DEF SaversUsed, SaverUsed, ShotUsed, Clip

\* The connection that moves keeps SaversUsed when its new state does.
LEMMA SaverStepUsed ==
  ASSUME SaversNamed, NEW s \in Savers, savers[s] # Idle \/ ~Locked,
         NEW to, Step(s, to),
         SaverUsed(to)'
  PROVE  SaversUsed'
<1>1. SaverUsed(Idle)'
  BY DEF SaverUsed, Idle, Writing
<1>2. \A t \in Savers : SaverUsed(savers[t])'
  BY <1>1, SaverSteps
<1> QED BY <1>2 DEF SaversUsed

(***************************************************************************)
(* The steps of a save.                                                    *)
(***************************************************************************)
LEMMA SaverKeepsUse ==
  ASSUME NamesSuffice, NamesInv, UseInv, NEW s \in Savers,
         Save(s) \/ OpenClip(s) \/ WriteClip(s) \/ VerifyClip(s)
           \/ ListOld(s) \/ PruneNext(s) \/ Saved(s)
  PROVE  UseInv'
<1>1. /\ clock \in Nat /\ Grace \in Nat
      /\ FilesNumbered /\ SaversNamed /\ ShotNamed /\ RecordingNamed
      /\ Dated /\ SaversUsed /\ ShotUsed /\ RecordingUsed /\ PruneSpares
      /\ SaverUsed(savers[s])
  BY DEF NamesInv, UseInv, NamesSuffice, SaversUsed
<1>2. UNCHANGED <<clock, shot, recording>>
  BY DEF Save, OpenClip, WriteClip, VerifyClip, ListOld,
         PruneNext, Saved
<1>3. ASSUME NEW to, Step(s, to), savers[s] # Idle \/ ~Locked, to.stage # "prune"
      PROVE  PruneSpares'
  <2>1. \A t \in Savers : savers'[t].stage # "prune"
    BY <1>1, <1>3, SaverSteps DEF Idle
  <2> QED BY <2>1, NoPrune
<1>4. CASE Save(s)
  <2> PICK p : p = UniquePath("clip", "mkv")
    OBVIOUS
  <2>1. /\ begun < MaxFiles /\ UNCHANGED files /\ ~Locked
        /\ Step(s, [stage |-> "named", path |-> p])
    BY <1>4 DEF Save, Begin
  <2>2. p.stem[1] = clock
    <3>1. begun \in Nat
      BY DEF NamesInv
    <3> QED BY <1>1, <2>1, <3>1, NameIsFree
  <2>3. Recent(p)'
    BY <1>1, <1>2, <2>2 DEF Recent
  <2>4. SaverUsed([stage |-> "named", path |-> p])'
    BY <2>3 DEF SaverUsed, Writing
  <2>5. SaversUsed'
    BY <1>1, <2>1, <2>4, SaverStepUsed
  <2>6. PruneSpares'
    BY <1>3, <2>1
  <2>7. Dated'
    BY <1>1, <1>2, <2>1 DEF Dated
  <2>8. NoneRecorded /\ \A q \in Spared : Untouched(q)
    BY <2>1, SparedExists DEF Untouched, NoneRecorded
  <2>9. ShotUsed' /\ RecordingUsed'
    BY <1>1, <1>2, <2>8, ShotUsedStays, RecordingUsedStays
  <2> QED BY <2>5, <2>6, <2>7, <2>9 DEF UseInv
<1>5. CASE OpenClip(s) \/ WriteClip(s) \/ VerifyClip(s)
  <2> PICK p : p = Clip(s)
    OBVIOUS
  <2>1. savers[s].stage \in {"named", "opened", "written"}
    BY <1>5 DEF OpenClip, WriteClip, VerifyClip, SaverAt
  <2>2. ClipPath(p) /\ savers[s] # Idle
    BY <1>1, <2>1, ClipIs DEF Writing
  <2>3. p.stem[1] <= clock
    BY <1>1, <2>1 DEF SaverUsed, Recent, Current, Writing, Clip
  <2>4. PICK to : /\ Step(s, to)
                  /\ \/ to = Idle
                     \/ to.stage \in Writing \ {"prune"} /\ to.path = p
                  /\ \/ \E state, size : Now(p, state, size)
                     \/ UNCHANGED files /\ savers[s].stage = "written"
                     \/ Removed(p) /\ to = Idle
    <3>1. CASE OpenClip(s)
      <4>1. Now(p, "open", 0)
        BY <3>1 DEF OpenClip, Opened
      <4>2. PICK to : /\ Step(s, to)
                      /\ \/ to = Idle
                         \/ \E u : to = [stage |-> "opened", path |-> p, unit |-> u]
        BY <3>1 DEF OpenClip
      <4>3. to = Idle \/ (to.stage = "opened" /\ to.path = p)
        <5>1. CASE to # Idle
          <6>1. PICK u : to = [stage |-> "opened", path |-> p, unit |-> u]
            BY <4>2, <5>1
          <6> QED BY <6>1
        <5> QED BY <5>1
      <4> QED BY <4>1, <4>2, <4>3 DEF Writing
    <3>2. CASE WriteClip(s)
      <4>1. PICK to : /\ Step(s, to)
                      /\ to = Idle \/ to = [stage |-> "written", path |-> p]
                      /\ \E state : Now(p, state, 1)
        BY <3>2 DEF WriteClip
      <4>2. to = Idle \/ (to.stage = "written" /\ to.path = p)
        <5>1. CASE to # Idle
          <6>1. to = [stage |-> "written", path |-> p]
            BY <4>1, <5>1
          <6> QED BY <6>1
        <5> QED BY <5>1
      <4> QED BY <4>1, <4>2 DEF Writing
    <3>3. CASE VerifyClip(s)
      <4>1. PICK to : /\ Step(s, to)
                      /\ \/ to = [stage |-> "verified", path |-> p] /\ UNCHANGED files
                         \/ to = Idle /\ Removed(p)
        BY <3>3 DEF VerifyClip
      <4>2. to = Idle \/ (to.stage = "verified" /\ to.path = p)
        <5>1. CASE to # Idle
          <6>1. to = [stage |-> "verified", path |-> p]
            BY <4>1, <5>1
          <6> QED BY <6>1
        <5> QED BY <5>1
      <4>3. savers[s].stage = "written"
        BY <3>3 DEF VerifyClip, SaverAt
      <4> QED BY <4>1, <4>2, <4>3 DEF Writing, Idle
    <3> QED BY <1>5, <3>1, <3>2, <3>3
  <2>5. \A q \in DOMAIN files : q # p => Untouched(q)
    BY <2>4, NowIs, RemovedIs DEF Untouched
  <2>6. \A q \in DOMAIN files' : \/ q \in DOMAIN files /\ files'[q] = files[q]
                                 \/ files'[q].mtime = clock /\ q.stem[1] <= clock
    <3>1. ASSUME NEW state, NEW size, Now(p, state, size)
          PROVE  \A q \in DOMAIN files' : \/ q \in DOMAIN files /\ files'[q] = files[q]
                                          \/ files'[q].mtime = clock /\ q.stem[1] <= clock
      <4>1. /\ DOMAIN files' = DOMAIN files \cup {p} /\ files'[p].mtime = clock
            /\ \A q \in DOMAIN files : q # p => files'[q] = files[q]
        BY <3>1, NowIs
      <4>2. ASSUME NEW q \in DOMAIN files'
            PROVE  \/ q \in DOMAIN files /\ files'[q] = files[q]
                   \/ files'[q].mtime = clock /\ q.stem[1] <= clock
        <5>1. CASE q = p
          BY <2>3, <4>1, <5>1
        <5>2. CASE q # p
          BY <4>1, <4>2, <5>2
        <5> QED BY <5>1, <5>2
      <4> QED BY <4>2
    <3>2. ASSUME Removed(p)
          PROVE  \A q \in DOMAIN files' : q \in DOMAIN files /\ files'[q] = files[q]
      BY <3>2, RemovedIs
    <3>3. CASE UNCHANGED files
      BY <3>3
    <3> QED BY <2>4, <3>1, <3>2, <3>3
  <2>7. Dated'
    BY <1>1, <1>2, <2>6, DatedStays
  <2>8. SaverUsed(to)'
    <3>1. CASE to = Idle
      BY <3>1 DEF SaverUsed, Idle, Writing
    <3>2. CASE to # Idle
      <4>1. p \in DOMAIN files' /\ clock <= files'[p].mtime + Grace
        <5>1. CASE \E state, size : Now(p, state, size)
          <6>1. PICK state, size : Now(p, state, size)
            BY <5>1
          <6>2. p \in DOMAIN files' /\ files'[p].mtime = clock
            BY <6>1, NowIs
          <6> QED BY <1>1, <6>2
        <5>2. CASE UNCHANGED files /\ savers[s].stage = "written"
          BY <1>1, <5>2 DEF SaverUsed, Current, Exists, Writing, Clip
        <5> QED BY <2>4, <3>2, <5>1, <5>2
      <4>2. Current(p)'
        BY <1>2, <2>3, <4>1 DEF Current, Exists
      <4> QED BY <2>4, <3>2, <4>2 DEF SaverUsed, Writing
    <3> QED BY <3>1, <3>2
  <2>9. SaversUsed'
    BY <1>1, <2>2, <2>4, <2>8, SaverStepUsed
  <2>10. PruneSpares'
    BY <1>3, <2>2, <2>4 DEF Idle, Writing
  <2>11. \A q \in Spared : q.ext = "gop.mkv" \/ RecPath(q) => Untouched(q)
    BY <2>2, <2>5, SparedExists DEF ClipPath, RecPath
  <2>13. NoneRecorded
    <3>1. \A q \in DOMAIN files' : q # p => q \in DOMAIN files /\ files'[q] = files[q]
      BY <2>4, NowIs, RemovedIs
    <3> QED BY <2>2, <3>1 DEF NoneRecorded, ClipPath, RecPath
  <2>12. ShotUsed' /\ RecordingUsed'
    BY <1>1, <1>2, <2>11, <2>13, ShotUsedStays, RecordingUsedStays
  <2> QED BY <2>7, <2>9, <2>10, <2>12 DEF UseInv
<1>6. CASE ListOld(s) \/ PruneNext(s) \/ Saved(s)
  <2> PICK p : p = Clip(s)
    OBVIOUS
  <2>1. savers[s].stage \in {"verified", "prune"}
    BY <1>6 DEF ListOld, PruneNext, Saved, SaverAt
  <2>2. ClipPath(p) /\ savers[s] # Idle /\ p \in Spared
    BY <1>1, <2>1, ClipIs, SparedIs DEF Writing
  <2>3. \A q \in Spared : Untouched(q)
    <3>1. UNCHANGED files \/ \E q : Removed(q) /\ q \notin Spared
      BY <1>1, <1>6 DEF ListOld, PruneNext, Saved, PruneSpares, SaverAt
    <3> QED BY <3>1, RemovedIs, SparedExists DEF Untouched
  <2>4. Dated'
    <3>1. UNCHANGED files \/ \E q : Removed(q)
      BY <1>6 DEF ListOld, PruneNext, Saved
    <3>2. \A q \in DOMAIN files' : q \in DOMAIN files /\ files'[q] = files[q]
      BY <3>1, RemovedIs
    <3> QED BY <1>1, <1>2, <3>2, DatedStays
  <2>5. PICK to : /\ Step(s, to)
                  /\ \/ to = Idle
                     \/ /\ to.stage = "prune" /\ to.path = p
                        /\ \/ to.doomed \subseteq PruneCandidates
                           \/ PruneNext(s) /\ to.doomed \subseteq savers[s].doomed
    <3>1. CASE ListOld(s)
      <4>1. PICK to : to = [stage |-> "prune", path |-> p,
                            doomed |-> PlanPrune(PruneCandidates)]
        OBVIOUS
      <4>2. PlanPrune(PruneCandidates) \subseteq PruneCandidates
        BY DEF PlanPrune
      <4>3. Step(s, to)
        BY <3>1, <4>1 DEF ListOld
      <4>4. to.stage = "prune" /\ to.path = p /\ to.doomed = PlanPrune(PruneCandidates)
        BY <4>1
      <4> QED BY <4>2, <4>3, <4>4
    <3>2. CASE PruneNext(s)
      <4>1. PICK q \in savers[s].doomed : Step(s, [savers[s] EXCEPT !.doomed = @ \ {q}])
        BY <3>2 DEF PruneNext
      <4>2. savers[s] = [stage |-> "prune", path |-> p, doomed |-> savers[s].doomed]
        BY <1>1, <2>2, <3>2 DEF PruneNext, SaverAt, Clip,
                                    SaversNamed, SaverNamed, Writing
      <4>3. PICK to : to = [savers[s] EXCEPT !.doomed = @ \ {q}]
        OBVIOUS
      <4>4. to.stage = "prune" /\ to.path = p /\ to.doomed = savers[s].doomed \ {q}
        BY <4>2, <4>3
      <4> QED BY <3>2, <4>1, <4>3, <4>4
    <3>3. CASE Saved(s)
      BY <3>3 DEF Saved
    <3> QED BY <1>6, <3>1, <3>2, <3>3
  <2>6. SaverUsed(to)'
    <3>1. CASE to = Idle
      BY <3>1 DEF SaverUsed, Idle, Writing
    <3>2. CASE to.stage = "prune" /\ to.path = p
      <4>1. Current(p)
        BY <1>1, <2>1 DEF SaverUsed, Writing, Clip
      <4>2. Current(p)'
        BY <1>2, <2>2, <2>3, <4>1 DEF Current, Exists, Untouched
      <4> QED BY <3>2, <4>2 DEF SaverUsed, Writing
    <3> QED BY <2>5, <3>1, <3>2
  <2>7. SaversUsed'
    BY <1>1, <2>2, <2>5, <2>6, SaverStepUsed
  <2>8. ShotUsed' /\ RecordingUsed'
    <3>1. UNCHANGED files \/ \E q : Removed(q)
      BY <1>6 DEF ListOld, PruneNext, Saved
    <3>2. NoneRecorded
      BY <3>1, RemovedIs DEF NoneRecorded
    <3> QED BY <1>1, <1>2, <2>3, <3>2, ShotUsedStays, RecordingUsedStays
  <2>9. PruneSpares'
    <3>1. CASE to = Idle
      BY <1>3, <2>2, <2>5, <3>1 DEF Idle
    <3>2. CASE to # Idle
      <4>1. Spared' \subseteq Spared
        <5>1. Gop' = Gop
          BY <1>2 DEF Gop
        <5>2. ASSUME NEW t \in Savers, savers'[t].stage \in Writing PROVE savers'[t].path = p
          BY <1>1, <2>2, <2>5, <5>2, SaverSteps DEF Idle, Writing
        <5> QED BY <1>2, <2>2, <5>1, <5>2, SparedNext, SparedIs
      <4>2. \A q \in to.doomed : q \in Paths /\ q.stem[1] + Grace < clock /\ q \notin Spared
        <5>1. CASE to.doomed \subseteq PruneCandidates
          <6>1. ASSUME NEW q \in to.doomed
                PROVE  q \in Paths /\ q.stem[1] + Grace < clock /\ q \notin Spared
            <7>1. q \in DOMAIN files /\ files[q].mtime + Grace < clock
              BY <5>1 DEF PruneCandidates
            <7>2. q \in Paths /\ files[q].mtime \in Nat /\ q.stem[1] <= files[q].mtime
              BY <1>1, <7>1 DEF FilesNumbered, Dated
            <7>3. q.stem[1] \in Nat
              BY <7>2, PathParts
            <7>4. q \notin Spared
              BY <1>1, <7>1, <7>2, SparedExists
            <7> QED BY <1>1, <7>1, <7>2, <7>3, <7>4
          <6> QED BY <6>1
        <5>2. CASE PruneNext(s) /\ to.doomed \subseteq savers[s].doomed
          BY <1>1, <5>2 DEF PruneNext, PruneSpares, SaverAt
        <5> QED BY <2>5, <3>2, <5>1, <5>2
      <4>3. ASSUME NEW t \in Savers, savers'[t].stage = "prune" PROVE savers'[t] = to
        BY <1>1, <2>2, <2>5, <4>3, SaverSteps DEF Idle
      <4> QED BY <1>2, <4>1, <4>2, <4>3 DEF PruneSpares
    <3> QED BY <3>1, <3>2
  <2> QED BY <2>4, <2>7, <2>8, <2>9 DEF UseInv
<1> QED BY <1>4, <1>5, <1>6

(***************************************************************************)
(* The steps of a screenshot.                                              *)
(***************************************************************************)
LEMMA ShotKeepsUse ==
  ASSUME NamesSuffice, NamesInv, UseInv, Screenshot \/ WriteGop \/ ExtractPng
  PROVE  UseInv'
<1>1. /\ clock \in Nat /\ begun \in Nat /\ Grace \in Nat
      /\ FilesNumbered /\ SaversNamed /\ ShotNamed /\ RecordingNamed
      /\ Dated /\ SaversUsed /\ ShotUsed /\ RecordingUsed /\ PruneSpares
  BY DEF NamesInv, UseInv, NamesSuffice
<1>2. UNCHANGED <<clock, savers, recording>>
  BY DEF Screenshot, WriteGop, ExtractPng
<1>3. CASE Screenshot
  <2> PICK p : p = UniquePath("clip", "png")
    OBVIOUS
  <2>1. UNCHANGED files /\ begun < MaxFiles /\ shot' = [stage |-> "named", path |-> p]
    BY <1>3 DEF Screenshot, Begin
  <2>2. p.stem[1] = clock
    BY <1>1, <2>1, NameIsFree
  <2>3. Recent(p)'
    BY <1>1, <1>2, <2>2 DEF Recent
  <2>4. shot'.stage = "named" /\ shot'.path = p
    BY <2>1
  <2>5. ShotUsed'
    BY <2>3, <2>4 DEF ShotUsed
  <2>6. NoneRecorded /\ \A q \in Spared : Untouched(q)
    BY <2>1, SparedExists DEF Untouched, NoneRecorded
  <2>7. SaversUsed' /\ RecordingUsed'
    BY <1>1, <1>2, <2>6, SaversUsedStay, RecordingUsedStays
  <2>8. Dated'
    BY <1>1, <1>2, <2>1 DEF Dated
  <2>9. Spared' \subseteq Spared
    BY <1>2, <2>4, SparedNext, SparedIs DEF Clip
  <2>10. PruneSpares'
    BY <1>1, <1>2, <2>9, PruneStaysSparing
  <2> QED BY <2>5, <2>7, <2>8, <2>10 DEF UseInv
<1>4. CASE WriteGop
  <2> PICK g : g = Gop
    OBVIOUS
  <2>1. shot.stage = "named" /\ \E state, size : Now(g, state, size)
    BY <1>4 DEF WriteGop
  <2>2. g.ext = "gop.mkv" /\ g.stem = shot.path.stem
    BY <1>1, <2>1, GopIs
  <2>3. Recent(shot.path)
    BY <1>1, <2>1 DEF ShotUsed
  <2>4. /\ g \in DOMAIN files' /\ files'[g].mtime = clock
        /\ DOMAIN files' = DOMAIN files \cup {g}
        /\ \A q \in DOMAIN files : q # g => files'[q] = files[q]
    BY <2>1, NowIs
  <2>5. shot' = Idle \/ (shot' = [shot EXCEPT !.stage = "gop"])
    BY <1>4 DEF WriteGop
  <2>6. shot'.stage # "named" /\ (shot'.stage = "gop" => Gop' = g /\ shot'.path = shot.path)
    <3>1. CASE shot' = Idle
      BY <3>1 DEF Idle
    <3>2. CASE shot' = [shot EXCEPT !.stage = "gop"]
      <4>1. shot \in [stage : {"named", "gop"}, path : Paths]
        BY <1>1, <2>1 DEF ShotNamed, Idle
      <4>2. shot'.stage = "gop" /\ shot'.path = shot.path
        BY <3>2, <4>1
      <4> QED BY <4>2 DEF Gop
    <3> QED BY <2>5, <3>1, <3>2
  <2>7. ShotUsed'
    <3>1. CASE shot'.stage = "gop"
      <4>1. Gop' = g /\ shot'.path = shot.path /\ shot.path.stem[1] <= clock
        BY <2>3, <2>6, <3>1 DEF Recent
      <4>2. clock <= files'[g].mtime + Grace
        BY <1>1, <2>4
      <4> QED BY <1>2, <2>2, <2>4, <2>6, <4>1, <4>2 DEF ShotUsed, Current, Exists
    <3> QED BY <2>6, <3>1 DEF ShotUsed
  <2>8. NoneRecorded /\ \A q \in Spared : ClipPath(q) \/ RecPath(q) => Untouched(q)
    BY <2>2, <2>4, SparedExists DEF ClipPath, RecPath, Untouched, NoneRecorded
  <2>9. SaversUsed' /\ RecordingUsed'
    BY <1>1, <1>2, <2>8, SaversUsedStay, RecordingUsedStays
  <2>10. Dated'
    BY <1>1, <1>2, <2>2, <2>3, <2>4, DatedStays DEF Recent
  <2>11. \A q \in Spared' \ Spared : q = g
    BY <1>2, <2>6, SparedNext, SparedIs DEF Clip
  <2>12. ~(g.stem[1] + Grace < clock)
    <3>1. shot.path.stem[1] \in Nat
      BY <1>1, <2>1, GopIs, PathParts
    <3> QED BY <1>1, <2>2, <2>3, <3>1 DEF Recent
  <2>13. PruneSpares'
    BY <1>1, <1>2, <2>11, <2>12, PruneStaysSparing
  <2> QED BY <2>7, <2>9, <2>10, <2>13 DEF UseInv
<1>5. CASE ExtractPng
  <2> PICK g, p : g = Gop /\ p = shot.path
    OBVIOUS
  <2>1. /\ shot.stage = "gop" /\ shot' = Idle
        /\ Replaced({g}, p, "whole", 1) \/ Removed(g)
    BY <1>5 DEF ExtractPng
  <2>2. g.ext = "gop.mkv" /\ p.ext = "png" /\ p.stem[1] <= clock
    BY <1>1, <2>1, GopIs DEF ShotUsed
  <2>3. /\ \A q \in DOMAIN files : q # g /\ q # p => Untouched(q)
        /\ \A q \in DOMAIN files' : \/ q \in DOMAIN files /\ files'[q] = files[q]
                                    \/ files'[q].mtime = clock /\ q.stem[1] <= clock
        /\ NoneRecorded
    <3>1. CASE Replaced({g}, p, "whole", 1)
      BY <2>2, <3>1 DEF Replaced, Untouched, NoneRecorded, RecPath
    <3>2. CASE Removed(g)
      BY <3>2, RemovedIs DEF Untouched, NoneRecorded
    <3> QED BY <2>1, <3>1, <3>2
  <2>4. ShotUsed'
    BY <2>1 DEF ShotUsed, Idle
  <2>5. \A q \in Spared : ClipPath(q) \/ RecPath(q) => Untouched(q)
    BY <2>2, <2>3, SparedExists DEF ClipPath, RecPath
  <2>6. SaversUsed' /\ RecordingUsed'
    BY <1>1, <1>2, <2>3, <2>5, SaversUsedStay, RecordingUsedStays
  <2>7. Dated'
    BY <1>1, <1>2, <2>3, DatedStays
  <2>8. Spared' \subseteq Spared
    BY <1>2, <2>1, SparedNext, SparedIs DEF Clip, Idle
  <2>9. PruneSpares'
    BY <1>1, <1>2, <2>8, PruneStaysSparing
  <2> QED BY <2>4, <2>6, <2>7, <2>9 DEF UseInv
<1> QED BY <1>3, <1>4, <1>5

\* The steps of a recording.
LEMMA RecordingKeepsUse ==
  ASSUME NamesSuffice, NamesInv, UseInv,
         NameRecording \/ OpenRecording \/ WriteRecording \/ FinishRecording
  PROVE  UseInv'
<1>1. /\ clock \in Nat /\ begun \in Nat /\ Grace \in Nat
      /\ FilesNumbered /\ SaversNamed /\ ShotNamed /\ RecordingNamed
      /\ Dated /\ SaversUsed /\ ShotUsed /\ RecordingUsed /\ PruneSpares
  BY DEF NamesInv, UseInv, NamesSuffice
<1>2. UNCHANGED <<clock, savers, shot>> /\ Gop' = Gop
  BY DEF NameRecording, OpenRecording, WriteRecording,
         FinishRecording, Gop
<1>3. CASE NameRecording
  <2> PICK p : p = UniquePath("recording", "mkv")
    OBVIOUS
  <2>1. UNCHANGED files /\ begun < MaxFiles /\ recording' = [stage |-> "named", path |-> p]
    BY <1>3 DEF NameRecording, Begin
  <2>2. p.stem[1] = clock
    BY <1>1, <2>1, NameIsFree
  <2>3. Recent(p)'
    BY <1>1, <1>2, <2>2 DEF Recent
  <2>4. recording'.stage = "named" /\ recording'.path = p
    BY <2>1
  <2>5. RecordingUsed'
    BY <2>3, <2>4 DEF RecordingUsed
  <2>6. \A q \in Spared : Untouched(q)
    BY <2>1, SparedExists DEF Untouched
  <2>7. SaversUsed' /\ ShotUsed'
    BY <1>1, <1>2, <2>6, SaversUsedStay, ShotUsedStays
  <2>8. Dated'
    BY <1>1, <1>2, <2>1 DEF Dated
  <2>9. Spared' \subseteq Spared
    BY <1>2, <2>4, SparedNext, SparedIs DEF Clip
  <2>10. PruneSpares'
    BY <1>1, <1>2, <2>9, PruneStaysSparing
  <2> QED BY <2>5, <2>7, <2>8, <2>10 DEF UseInv
<1>4. CASE OpenRecording \/ WriteRecording \/ FinishRecording
  <2> PICK p : p = recording.path
    OBVIOUS
  <2>1. /\ recording.stage \in {"named", "open"}
        /\ \/ \E state, size : Now(p, state, size)
           \/ UNCHANGED files /\ ~Exists(p) /\ recording.stage = "open"
    BY <1>4 DEF OpenRecording, WriteRecording, FinishRecording, Opened, RecordingWrites
  <2>2. RecPath(p) /\ p \in Paths /\ p.stem[1] \in Nat
    BY <1>1, <2>1, RecordingIs, PathParts DEF RecPath
  <2>3. p.stem[1] <= clock
    BY <1>1, <2>1 DEF RecordingUsed, Recent
  <2>4. /\ p \in DOMAIN files' => files'[p].mtime = clock
        /\ DOMAIN files \subseteq DOMAIN files' /\ DOMAIN files' \subseteq DOMAIN files \cup {p}
        /\ \A q \in DOMAIN files : q # p => files'[q] = files[q]
    BY <2>1, NowIs DEF Exists
  <2>5. /\ recording'.stage # "named"
        /\ recording'.stage = "open" =>
              /\ recording'.path = p /\ recording'.written = clock
              /\ \/ recording.stage = "named" /\ p \in DOMAIN files'
                 \/ recording.stage = "open" /\ recording'.stalled = recording.stalled
    <3>1. CASE OpenRecording
      <4>1. /\ recording' = [stage |-> "open", path |-> p, written |-> clock, stalled |-> FALSE]
            /\ recording.stage = "named" /\ Now(p, "open", 0)
        BY <3>1 DEF OpenRecording, Opened
      <4> QED BY <4>1, NowIs
    <3>2. CASE WriteRecording
      <4>1. recording \in Recordable
        BY <1>1, <2>1 DEF RecordingNamed, Idle
      <4>2. recording.stage = "open" /\ recording' = [recording EXCEPT !.written = clock]
        BY <3>2 DEF WriteRecording
      <4> QED BY <4>1, <4>2 DEF Recordable
    <3>3. CASE FinishRecording
      BY <3>3 DEF FinishRecording, Idle
    <3> QED BY <1>4, <3>1, <3>2, <3>3
  <2>6. RecordingUsed'
    <3>1. CASE recording'.stage = "open"
      <4>1. ~recording'.stalled => p \in DOMAIN files'
        BY <1>1, <2>4, <2>5, <3>1 DEF RecordingUsed, Exists
      <4> QED BY <1>1, <1>2, <2>3, <2>4, <2>5, <3>1, <4>1 DEF RecordingUsed, Exists
    <3> QED BY <2>5, <3>1 DEF RecordingUsed
  <2>7. \A q \in Spared : ClipPath(q) \/ q.ext = "gop.mkv" => Untouched(q)
    BY <2>2, <2>4, SparedExists DEF ClipPath, RecPath, Untouched
  <2>8. SaversUsed' /\ ShotUsed'
    BY <1>1, <1>2, <2>7, SaversUsedStay, ShotUsedStays
  <2>9. Dated'
    BY <1>1, <1>2, <2>3, <2>4, DatedStays
  <2>10. \A q \in Spared' \ Spared : recording.stage = "named" /\ q = p
    BY <1>2, <2>1, <2>5, SparedNext, SparedIs DEF Clip
  <2>11. recording.stage = "named" => ~(p.stem[1] + Grace < clock)
    BY <1>1, <2>2 DEF RecordingUsed, Recent
  <2>12. PruneSpares'
    BY <1>1, <1>2, <2>10, <2>11, PruneStaysSparing
  <2> QED BY <2>6, <2>8, <2>9, <2>12 DEF UseInv
<1> QED BY <1>3, <1>4

\* The user deletes what nobody writes.
LEMMA DeleteKeepsUse ==
  ASSUME NamesSuffice, NamesInv, UseInv, Delete
  PROVE  UseInv'
<1>1. /\ clock \in Nat /\ SaversNamed /\ ShotNamed /\ RecordingNamed
      /\ Dated /\ SaversUsed /\ ShotUsed /\ RecordingUsed /\ PruneSpares
  BY DEF NamesInv, UseInv
<1>2. UNCHANGED <<clock, savers, shot, recording>> /\ Gop' = Gop
  BY DEF Delete, Gop
<1>3. PICK p \in DOMAIN files \ Spared : Removed(p)
  BY SparedInUse DEF Delete
<1>4. NoneRecorded /\ \A q \in Spared : Untouched(q)
  BY <1>3, RemovedIs, SparedExists DEF Untouched, NoneRecorded
<1>5. SaversUsed' /\ ShotUsed' /\ RecordingUsed'
  BY <1>1, <1>2, <1>4, SaversUsedStay, ShotUsedStays, RecordingUsedStays
<1>6. \A q \in DOMAIN files' : q \in DOMAIN files /\ files'[q] = files[q]
  BY <1>3, RemovedIs
<1>7. Dated'
  BY <1>1, <1>2, <1>6, DatedStays
<1>8. Spared' \subseteq Spared
  BY <1>2, SparedNext, SparedIs DEF Clip
<1>9. PruneSpares'
  BY <1>1, <1>2, <1>8, PruneStaysSparing
<1> QED BY <1>5, <1>7, <1>9 DEF UseInv

(***************************************************************************)
(* The clock waits for who has a name to open, or a file to write.         *)
(***************************************************************************)
LEMMA TickKeepsUse ==
  ASSUME NamesSuffice, NamesInv, UseInv, Tick
  PROVE  UseInv'
<1>1. /\ clock \in Nat /\ Grace \in Nat /\ SaversNamed /\ ShotNamed /\ RecordingNamed
      /\ Dated /\ SaversUsed /\ ShotUsed /\ RecordingUsed /\ PruneSpares
  BY DEF NamesInv, UseInv, NamesSuffice
<1>2. clock' = clock + 1 /\ UNCHANGED <<files, savers, shot>> /\ Gop' = Gop
  BY DEF Tick, Gop
<1>3. ASSUME NEW p \in Paths, p \in Named, Recent(p) PROVE Recent(p)'
  <2>1. clock < p.stem[1] + Grace
    BY <1>3 DEF Tick
  <2> QED BY <1>1, <1>2, <1>3, <2>1, PathParts DEF Recent
<1>4. ASSUME NEW p \in Paths, p \in Spared, Current(p), ~RecPath(p) PROVE Current(p)'
  <2>1. clock < files[p].mtime + Grace
    <3>1. p \in InUse /\ ~OfRecording(p)
      BY <1>1, <1>4, SparedInUse, RecordingIs DEF OfRecording
    <3> QED BY <3>1 DEF Tick
  <2>2. files[p].mtime \in Nat
    BY <1>1, <1>4 DEF Dated, Current, Exists
  <2> QED BY <1>1, <1>2, <1>4, <2>1, <2>2, PathParts DEF Current, Exists
<1>5. SaversUsed'
  <2>1. ASSUME NEW s \in Savers PROVE SaverUsed(savers[s])'
    <3> PICK p : p = Clip(s)
      OBVIOUS
    <3>1. SaverUsed(savers[s]) /\ savers'[s] = savers[s] /\ savers[s].path = p
      BY <1>1, <1>2 DEF SaversUsed, Clip
    <3>2. CASE savers[s].stage = "named"
      <4>1. p \in Paths /\ p \in Named /\ Recent(p)
        BY <1>1, <3>1, <3>2, ClipIs, NamedIs DEF ClipPath, SaverUsed
      <4> QED BY <1>3, <3>1, <3>2, <4>1 DEF SaverUsed, Writing
    <3>3. CASE savers[s].stage \in Writing
      <4>1. p \in Paths /\ p \in Spared /\ Current(p) /\ ~RecPath(p)
        BY <1>1, <3>1, <3>3, ClipIs, SparedIs DEF ClipPath, RecPath, SaverUsed
      <4> QED BY <1>4, <3>1, <3>3, <4>1 DEF SaverUsed, Writing
    <3> QED BY <3>1, <3>2, <3>3 DEF SaverUsed
  <2> QED BY <2>1 DEF SaversUsed
<1>6. ShotUsed'
  <2> PICK p, g : p = shot.path /\ g = Gop
    OBVIOUS
  <2>1. CASE shot.stage = "named"
    <3>1. p \in Paths /\ p \in Named /\ Recent(p)
      BY <1>1, <2>1, GopIs, NamedIs DEF ShotUsed
    <3> QED BY <1>2, <1>3, <2>1, <3>1 DEF ShotUsed
  <2>2. CASE shot.stage = "gop"
    <3>1. /\ g \in Paths /\ g \in Spared /\ Current(g) /\ ~RecPath(g)
          /\ p \in Paths /\ p.stem[1] <= clock
      BY <1>1, <2>2, GopIs, SparedIs DEF ShotUsed, RecPath
    <3>2. Current(g)' /\ p.stem[1] <= clock'
      BY <1>1, <1>2, <1>4, <3>1, PathParts
    <3> QED BY <1>2, <2>2, <3>2 DEF ShotUsed
  <2> QED BY <1>2, <2>1, <2>2 DEF ShotUsed
<1>7. RecordingUsed' /\ recording'.stage = recording.stage /\ recording'.path = recording.path
      /\ (recording.stage = "open" /\ ~recording'.stalled => ~recording.stalled)
  <2> PICK p : p = recording.path
    OBVIOUS
  <2>1. CASE recording.stage = "open"
    <3>1. p \in Paths /\ recording \in Recordable
      BY <1>1, <2>1, RecordingIs DEF RecPath, RecordingNamed, Idle
    <3>2. recording.written \in Nat /\ recording.stalled \in BOOLEAN
      BY <2>1, <3>1 DEF Recordable
    <3>3. /\ recording'.stage = "open" /\ recording'.path = p /\ recording'.written = recording.written
          /\ ~recording'.stalled => ~recording.stalled /\ clock < recording.written + Grace
      <4>1. CASE clock >= recording.written + Grace
        <5>1. recording' = [recording EXCEPT !.stalled = TRUE]
          BY <2>1, <4>1 DEF Tick
        <5> QED BY <2>1, <3>1, <5>1 DEF Recordable
      <4>2. CASE ~(clock >= recording.written + Grace)
        <5>1. recording' = recording
          BY <4>2 DEF Tick
        <5> QED BY <1>1, <2>1, <3>2, <4>2, <5>1
      <4> QED BY <4>1, <4>2
    <3>4. p.stem[1] <= clock'
      BY <1>1, <1>2, <2>1, <3>1, PathParts DEF RecordingUsed
    <3>5. ~recording'.stalled => clock' <= recording.written + Grace
      BY <1>1, <1>2, <3>2, <3>3
    <3> QED BY <1>1, <1>2, <2>1, <3>3, <3>4, <3>5 DEF RecordingUsed, Exists
  <2>2. CASE recording.stage # "open"
    <3>1. recording' = recording
      BY <2>2 DEF Tick
    <3>2. CASE recording.stage = "named"
      <4>1. p \in Paths /\ p \in Named /\ Recent(p)
        BY <1>1, <3>2, RecordingIs, NamedIs DEF RecPath, RecordingUsed
      <4> QED BY <1>2, <1>3, <3>1, <3>2, <4>1 DEF RecordingUsed
    <3> QED BY <2>2, <3>1, <3>2 DEF RecordingUsed
  <2> QED BY <2>1, <2>2
<1>8. Dated'
  BY <1>1, <1>2 DEF Dated
<1>9. PruneSpares'
  <2>1. Spared' \subseteq Spared
    BY <1>2, <1>7, SparedNext, SparedIs DEF Clip
  <2>2. ASSUME NEW s \in Savers, savers'[s].stage = "prune", NEW p \in savers'[s].doomed
        PROVE  p \in Paths /\ p.stem[1] + Grace < clock' /\ p \notin Spared'
    <3>1. p \in Paths /\ p.stem[1] + Grace < clock /\ p \notin Spared
      BY <1>1, <1>2, <2>2 DEF PruneSpares
    <3> QED BY <1>1, <1>2, <2>1, <3>1, PathParts
  <2> QED BY <2>2 DEF PruneSpares
<1> QED BY <1>5, <1>6, <1>7, <1>8, <1>9 DEF UseInv

\* Nothing is in use at the start.
LEMMA UseInit == ASSUME NamesSuffice, FilesInit PROVE UseInv
<1>1. DOMAIN files = {}
  BY DEF FilesInit
<1>2. \A s \in Savers : savers[s] = Idle
  BY DEF FilesInit
<1>3. Idle.stage = "idle"
  BY DEF Idle
<1> QED BY <1>1, <1>2, <1>3
        DEF FilesInit, UseInv, Dated, SaversUsed, SaverUsed, ShotUsed, RecordingUsed,
            PruneSpares, Writing

\* Every step spares what is in use.
LEMMA UseNext ==
  ASSUME NamesSuffice, NamesInv, UseInv, [FilesNext]_filesVars
  PROVE  UseInv'
<1>1. CASE UNCHANGED filesVars
  <2>1. UNCHANGED <<clock, files, savers, shot, recording>> /\ Gop' = Gop
    BY <1>1 DEF filesVars, Gop
  <2>2. NoneRecorded /\ \A q \in Spared : Untouched(q)
    BY <2>1, SparedExists DEF Untouched, NoneRecorded
  <2>3. Spared' \subseteq Spared
    BY <2>1, SparedNext, SparedIs DEF Clip
  <2>4. SaversUsed' /\ ShotUsed' /\ RecordingUsed'
    BY <2>1, <2>2, SaversUsedStay, ShotUsedStays, RecordingUsedStays DEF NamesInv, UseInv
  <2>5. PruneSpares'
    BY <2>1, <2>3, PruneStaysSparing DEF UseInv
  <2> QED BY <2>1, <2>4, <2>5 DEF UseInv, Dated
<1>2. CASE FilesNext
  BY <1>2, SaverKeepsUse, ShotKeepsUse, RecordingKeepsUse, DeleteKeepsUse, TickKeepsUse
     DEF FilesNext
<1> QED BY <1>1, <1>2

\* No prune takes a file from under its writer or a clip on its way to being
\* reported, whatever age and size the policy sets: the list it removes from
\* is older than any name that is opened meanwhile (PRUNE_GRACE_SECS). Only of
\* a recording that once went without a write for longer than the grace is
\* this not so.
THEOREM FilesInUseSpared == NamesSuffice => (FilesSpec => []InUseSpared)
<1> SUFFICES ASSUME NamesSuffice PROVE FilesSpec => []InUseSpared
  OBVIOUS
<1>1. FilesInit => NamesInv /\ UseInv
  BY NamesInit, UseInit
<1>2. NamesInv /\ UseInv /\ [FilesNext]_filesVars => (NamesInv /\ UseInv)'
  BY NamesNext, UseNext
<1>3. UseInv => InUseSpared
  BY SparedExists, SparedInUse DEF InUseSpared, Exists
<1> QED BY <1>1, <1>2, <1>3, PTL DEF FilesSpec

-----------------------------------------------------------------------------
(* What is computed frame by frame.                                        *)

(***************************************************************************)
(* What holds of 0 and steps up holds of every number of a range.          *)
(***************************************************************************)
LEMMA Climb ==
  ASSUME NEW n \in Nat, NEW S, 0 \in S, \A i \in 1..n : i - 1 \in S => i \in S
  PROVE  \A i \in 0..n : i \in S
<1> DEFINE T == {i \in 0..n : i \notin S}
<1>1. SUFFICES ASSUME T # {} PROVE FALSE
  OBVIOUS
<1>2. PICK m \in T : \A k \in T : m <= k
  <2>1. T \subseteq Nat
    OBVIOUS
  <2> HIDE DEF T
  <2> QED BY <1>1, <2>1, LeastOf
<1>3. m \in 1..n /\ m - 1 \in 0..n /\ m - 1 \notin T
  BY <1>2
<1> QED BY <1>2, <1>3

\* f[i] is what the first i steps make of the start.
Steps(f, n, start, step) ==
    f = [i \in 0..n |-> IF i = 0 THEN start ELSE step[i][f[i - 1]]]

(***************************************************************************)
(* Steps that stay in a set can be taken one after the other.              *)
(***************************************************************************)
LEMMA StepsExist ==
  ASSUME NEW n \in Nat, NEW S, NEW start \in S, NEW step \in [1..n -> [S -> S]]
  PROVE  \E f \in [0..n -> S] : Steps(f, n, start, step)
<1> DEFINE T == {m \in 0..n : \E f \in [0..m -> S] : Steps(f, m, start, step)}
<1>1. 0 \in T
  <2>1. Steps([i \in 0..0 |-> start], 0, start, step)
    BY DEF Steps
  <2>2. [i \in 0..0 |-> start] \in [0..0 -> S]
    OBVIOUS
  <2> QED BY <2>1, <2>2
<1>2. ASSUME NEW m \in 1..n, m - 1 \in T PROVE m \in T
  <2>1. PICK f \in [0..(m - 1) -> S] : Steps(f, m - 1, start, step)
    BY <1>2
  <2>2. step[m][f[m - 1]] \in S
    <3>1. f[m - 1] \in S
      BY <2>1
    <3>2. step[m] \in [S -> S]
      OBVIOUS
    <3> QED BY <3>1, <3>2
  <2> DEFINE h == [i \in 0..m |-> IF i < m THEN f[i] ELSE step[m][f[m - 1]]]
  <2>3. h \in [0..m -> S]
    BY <2>1, <2>2
  <2>4. ASSUME NEW i \in 0..m
        PROVE  h[i] = IF i = 0 THEN start ELSE step[i][h[i - 1]]
    <3>1. CASE i = 0
      BY <2>1, <3>1 DEF Steps
    <3>2. CASE i \in 1..(m - 1)
      <4>1. f[i] = step[i][f[i - 1]]
        BY <2>1, <3>2 DEF Steps
      <4> QED BY <3>2, <4>1
    <3>3. CASE i = m
      BY <3>3
    <3> QED BY <3>1, <3>2, <3>3
  <2>5. h = [i \in 0..m |-> h[i]]
    OBVIOUS
  <2> HIDE DEF h
  <2>6. Steps(h, m, start, step)
    BY <2>4, <2>5 DEF Steps
  <2> QED BY <2>3, <2>6
<1>3. n \in T
  <2>1. n \in 0..n
    OBVIOUS
  <2> HIDE DEF T
  <2> QED BY <1>1, <1>2, <2>1, Climb
<1> QED BY <1>3

-----------------------------------------------------------------------------
(* Times.                                                                  *)

LEMMA MillisAreInt ==
  /\ \A t, base \in Int : Ms(t, base) \in Int
  /\ \A base \in Int : \A a \in [id : Nat, ts : Nat] : AudioMs(a, base) \in Int
<1>1. ASSUME NEW n \in Int, NEW d \in Nat \ {0} PROVE Truncated(n, d) \in Int
  BY DEF Truncated
<1>2. Den \in Nat \ {0}
  BY DenAssumption
<1>3. ASSUME NEW t \in Int, NEW base \in Int PROVE Ms(t, base) \in Int
  BY <1>1, <1>2 DEF Ms
<1>4. ASSUME NEW base \in Int PROVE TicksToMicros(base) \in Int
  BY <1>1, <1>2 DEF TicksToMicros
<1>5. ASSUME NEW base \in Int, NEW a \in [id : Nat, ts : Nat] PROVE AudioMs(a, base) \in Int
  <2>1. a.ts - TicksToMicros(base) \in Int
    BY <1>4
  <2> QED BY <1>1, <2>1 DEF AudioMs
<1> QED BY <1>3, <1>5

VideoFrames == [id : Nat, key : BOOLEAN, dts : Nat, pts : Nat]
AudioFrames == [id : Nat, ts : Nat]
AudioPackets == [id : Nat, dts : Nat]

LEMMA MonotonicIs ==
  ASSUME NEW S, NEW packets \in Seq(S), \A p \in S : p.dts \in Nat, NEW t \in Int
  PROVE  /\ Monotonic(packets, t) \in Nat
         /\ packets # <<>> => Monotonic(packets, t) > packets[Len(packets)].dts
<1>1. CASE packets = <<>>
  BY <1>1 DEF Monotonic, NoMs
<1>2. CASE packets # <<>>
  <2>1. packets[Len(packets)] \in S
    BY <1>2
  <2>2. packets[Len(packets)].dts \in Nat
    BY <2>1
  <2> QED BY <1>2, <2>2 DEF Monotonic, Last
<1> QED BY <1>1, <1>2

\* One more packet behind the others keeps a track in order.
LEMMA OneMore ==
  ASSUME NEW S, NEW packets \in Seq(S), \A p \in S : p.dts \in Nat, NEW p \in S,
         Increasing(packets), packets # <<>> => p.dts > packets[Len(packets)].dts
  PROVE  Increasing(Append(packets, p))
<1> DEFINE more == Append(packets, p)
<1>1. /\ Len(more) = Len(packets) + 1
      /\ \A i \in 1..Len(packets) : more[i] = packets[i]
      /\ more[Len(packets) + 1] = p
  OBVIOUS
<1>2. ASSUME NEW i \in 2..Len(more) PROVE more[i].dts > more[i - 1].dts
  <2>1. CASE i \in 2..Len(packets)
    <3>1. packets[i].dts > packets[i - 1].dts
      BY <2>1 DEF Increasing
    <3>2. more[i] = packets[i] /\ more[i - 1] = packets[i - 1]
      BY <1>1, <2>1
    <3> QED BY <3>1, <3>2
  <2>2. CASE i = Len(packets) + 1
    <3>1. packets # <<>> /\ more[i] = p /\ more[i - 1] = packets[Len(packets)]
      BY <1>1, <2>2
    <3> QED BY <3>1
  <2> HIDE DEF more
  <2> QED BY <1>1, <2>1, <2>2
<1> QED BY <1>2 DEF Increasing

LEMMA WriteAudioIs ==
  ASSUME NEW packets \in Seq(AudioPackets), Increasing(packets),
         NEW a \in AudioFrames, NEW base \in Nat
  PROVE  WriteAudio(packets, a, base) \in Seq(AudioPackets)
         /\ Increasing(WriteAudio(packets, a, base))
<1> DEFINE t == AudioMs(a, base)
           p == [id |-> a.id, dts |-> Monotonic(packets, t)]
<1>1. t \in Int
  BY MillisAreInt DEF AudioFrames
<1>2. \A q \in AudioPackets : q.dts \in Nat
  BY DEF AudioPackets
<1> HIDE DEF t
<1>3. /\ Monotonic(packets, t) \in Nat
      /\ packets # <<>> => Monotonic(packets, t) > packets[Len(packets)].dts
  BY <1>1, <1>2, MonotonicIs
<1>4. p \in AudioPackets /\ (packets # <<>> => p.dts > packets[Len(packets)].dts)
  BY <1>3 DEF AudioFrames, AudioPackets
<1> HIDE DEF p
<1>5. Append(packets, p) \in Seq(AudioPackets)
  BY <1>4
<1>6. Increasing(Append(packets, p))
  BY <1>2, <1>4, OneMore
<1>7. WriteAudio(packets, a, base) = Append(packets, p)
  BY DEF WriteAudio, p, t
<1> QED BY <1>5, <1>6, <1>7

LEMMA WriteVideoIs ==
  ASSUME NEW packets \in Seq(VideoFrames), Increasing(packets),
         NEW f \in VideoFrames, NEW base \in Nat
  PROVE  \E p \in VideoFrames :
             /\ WriteVideo(packets, f, base) = Append(packets, p)
             /\ p.id = f.id /\ p.key = f.key /\ p.pts >= p.dts
             /\ Increasing(Append(packets, p))
<1> DEFINE t == Ms(f.dts, base)
           u == Ms(f.pts, base)
           dts == Monotonic(packets, t)
           p == [id |-> f.id, key |-> f.key, dts |-> dts, pts |-> Later(u, dts)]
<1>1. t \in Int /\ u \in Int
  <2>1. f.dts \in Int /\ f.pts \in Int /\ base \in Int
    BY DEF VideoFrames
  <2> QED BY <2>1, MillisAreInt
<1>2. \A q \in VideoFrames : q.dts \in Nat
  BY DEF VideoFrames
<1>3. WriteVideo(packets, f, base) = Append(packets, p)
  BY DEF WriteVideo
<1> HIDE DEF t, u
<1>4. dts \in Nat /\ (packets # <<>> => dts > packets[Len(packets)].dts)
  BY <1>1, <1>2, MonotonicIs
<1> HIDE DEF dts
<1>5. Later(u, dts) \in Nat /\ Later(u, dts) >= dts
  BY <1>1, <1>4 DEF Later
<1>6. p \in VideoFrames /\ p.pts >= p.dts /\ p.id = f.id /\ p.key = f.key
      /\ (packets # <<>> => p.dts > packets[Len(packets)].dts)
  BY <1>4, <1>5 DEF VideoFrames
<1> HIDE DEF p
<1>7. Increasing(Append(packets, p))
  BY <1>2, <1>6, OneMore
<1> QED BY <1>3, <1>6, <1>7

-----------------------------------------------------------------------------
(* The audio that waits.                                                   *)

(***************************************************************************)
(* What is left of a queue is its end, from the first frame that passes.   *)
(***************************************************************************)
LEMMA RestIs ==
  ASSUME NEW S, NEW waiting \in Seq(S), NEW I \in SUBSET (1..Len(waiting))
  PROVE  LET first == IF I # {} THEN Min(I) ELSE 0
             rest == IF first = 0 THEN <<>> ELSE SubSeq(waiting, first, Len(waiting))
             past == Len(waiting) - Len(rest)
         IN  /\ rest \in Seq(S) /\ Len(rest) \in 0..Len(waiting)
             /\ \A i \in 1..Len(rest) : rest[i] = waiting[past + i]
             /\ \A i \in 1..past : i \notin I
             /\ rest # <<>> => past + 1 \in I
<1>1. CASE I = {}
  BY <1>1
<1>2. CASE I # {}
  <2>0. I \subseteq Nat
    OBVIOUS
  <2>1. PICK m \in I : \A k \in I : m <= k
    BY <1>2, <2>0, LeastOf
  <2>2. Min(I) \in I /\ \A k \in I : Min(I) <= k
    BY <2>1 DEF Min
  <2> DEFINE first == Min(I)
             rest == SubSeq(waiting, first, Len(waiting))
  <2>3. first \in 1..Len(waiting)
    BY <2>2
  <2> HIDE DEF first
  <2>4. /\ rest \in Seq(S) /\ Len(rest) = Len(waiting) - first + 1
        /\ \A i \in 1..Len(rest) : rest[i] = waiting[first - 1 + i]
    BY <2>3
  <2> HIDE DEF rest
  <2>5. Len(waiting) - Len(rest) = first - 1
    BY <2>3, <2>4
  <2>6. \A i \in 1..(first - 1) : i \notin I
    BY <2>2, <2>3 DEF first
  <2>7. first - 1 + 1 = first /\ first # 0 /\ first \in I
    BY <2>2, <2>3 DEF first
  <2> QED BY <1>2, <2>3, <2>4, <2>5, <2>6, <2>7 DEF first, rest
<1> QED BY <1>1, <1>2

LEMMA RestOf ==
  ASSUME NEW S, NEW waiting \in Seq(S), NEW I \in SUBSET (1..Len(waiting))
  PROVE  LET first == IF I # {} THEN Min(I) ELSE 0
         IN  (IF first = 0 THEN <<>> ELSE SubSeq(waiting, first, Len(waiting))) \in Seq(S)
BY RestIs

Tracks == {q \in Seq(AudioPackets) : Increasing(q)}

\* f[i] is the track after the first i of what is due.
Writes(f, packets, due, base) ==
    /\ f[0] = packets
    /\ \A i \in 1..Len(due) :
          f[i] = IF AudioMs(due[i], base) < 0 THEN f[i - 1]
                 ELSE WriteAudio(f[i - 1], due[i], base)
    /\ WriteDue(packets, due, base) = f[Len(due)]

(***************************************************************************)
(* What is due goes behind what is written, one by one and in order.       *)
(***************************************************************************)
LEMMA WriteDueBy ==
  ASSUME NEW packets \in Tracks, NEW due \in Seq(AudioFrames), NEW base \in Nat
  PROVE  \E f \in [0..Len(due) -> Tracks] : Writes(f, packets, due, base)
<1> DEFINE n == Len(due)
           After(f) ==
             f = [i \in 0..Len(due) |->
                    IF i = 0 THEN packets
                    ELSE IF AudioMs(due[i], base) < 0 THEN f[i - 1]
                    ELSE WriteAudio(f[i - 1], due[i], base)]
           Handled(q, i) == IF AudioMs(due[i], base) < 0 THEN q ELSE WriteAudio(q, due[i], base)
           step == [i \in 1..n |-> [q \in Tracks |-> Handled(q, i)]]
<1>1. n \in Nat
  OBVIOUS
<1>2. ASSUME NEW i \in 1..n, NEW q \in Tracks PROVE Handled(q, i) \in Tracks
  <2>1. due[i] \in AudioFrames
    OBVIOUS
  <2>2. q \in Seq(AudioPackets) /\ Increasing(q)
    BY DEF Tracks
  <2>3. WriteAudio(q, due[i], base) \in Tracks
    BY <2>1, <2>2, WriteAudioIs DEF Tracks
  <2> QED BY <2>3
<1>3. step \in [1..n -> [Tracks -> Tracks]]
  <2> HIDE DEF Handled
  <2> QED BY <1>2
<1>4. PICK f \in [0..n -> Tracks] : Steps(f, n, packets, step)
  <2> HIDE DEF n, step
  <2> QED BY <1>1, <1>3, StepsExist
<1>5. After(f)
  <2>1. f = [i \in 0..n |-> IF i = 0 THEN packets ELSE step[i][f[i - 1]]]
    BY <1>4 DEF Steps
  <2>2. ASSUME NEW i \in 0..n, i # 0 PROVE step[i][f[i - 1]] = Handled(f[i - 1], i)
    <3>1. i \in 1..n /\ i - 1 \in 0..n
      BY <2>2
    <3>2. f[i - 1] \in Tracks
      BY <3>1
    <3> HIDE DEF Handled
    <3> QED BY <3>1, <3>2
  <2> HIDE DEF step
  <2> QED BY <2>1, <2>2
<1> DEFINE after == CHOOSE g : After(g)
<1>6. After(after)
  BY <1>5
<1>7. WriteDue(packets, due, base) = after[n]
  BY Zenon DEF WriteDue
<1> HIDE DEF after
<1>8. after[0] = packets /\ \A i \in 1..n : after[i] = Handled(after[i - 1], i)
  <2>1. \A i \in 0..n : after[i] = IF i = 0 THEN packets ELSE Handled(after[i - 1], i)
    BY <1>6, Zenon
  <2> HIDE DEF Handled, n
  <2> QED BY <1>1, <2>1
<1> DEFINE T == {i \in 0..n : after[i] \in Tracks}
<1>9. 0 \in T
  BY <1>8
<1>10. \A i \in 1..n : i - 1 \in T => i \in T
  <2> HIDE DEF Handled
  <2> QED BY <1>2, <1>8
<1>11. \A i \in 0..n : i \in T
  <2> HIDE DEF T, n
  <2> QED BY <1>1, <1>9, <1>10, Climb
<1>12. after \in [0..n -> Tracks]
  <2>1. after = [i \in 0..n |-> after[i]]
    BY <1>6, Zenon
  <2> QED BY <1>11, <2>1
<1>13. Writes(after, packets, due, base)
  BY <1>7, <1>8 DEF Writes
<1> QED BY <1>12, <1>13

LEMMA WriteDueIs ==
  ASSUME NEW packets \in Tracks, NEW due \in Seq(AudioFrames), NEW base \in Nat
  PROVE  WriteDue(packets, due, base) \in Tracks
<1>1. PICK f \in [0..Len(due) -> Tracks] : Writes(f, packets, due, base)
  BY WriteDueBy
<1> QED BY <1>1 DEF Writes

-----------------------------------------------------------------------------
(* The recorder.                                                           *)

RecordFields ==
    [started : BOOLEAN, base : Nat, last_video_ms : Nat,
     pending_audio : Seq(AudioFrames), video : Seq(VideoFrames), audio : Tracks]

\* A recording whose tracks the muxer accepts.
Recordings ==
    {r \in RecordFields :
        /\ Increasing(r.video)
        /\ \A i \in 1..Len(r.video) : r.video[i].pts >= r.video[i].dts
        /\ ~ r.started => r.video = <<>>}

\* What sound does to a recording leaves the picture alone.
SamePicture(r, s) ==
    s.video = r.video /\ s.started = r.started /\ s.base = r.base

LEMMA WithAudio ==
  ASSUME NEW r \in Recordings, NEW q \in Seq(AudioFrames), NEW track \in Tracks
  PROVE  LET s == [r EXCEPT !.pending_audio = q, !.audio = track]
         IN  s \in Recordings /\ SamePicture(r, s)
<1> DEFINE s == [r EXCEPT !.pending_audio = q, !.audio = track]
<1>1. s \in RecordFields /\ s.started = r.started /\ s.base = r.base /\ s.video = r.video
  <2>1. r \in RecordFields
    BY DEF Recordings
  <2> QED BY <2>1 DEF RecordFields
<1> HIDE DEF s
<1>2. SamePicture(r, s)
  BY <1>1 DEF SamePicture
<1>3. s \in Recordings
  BY <1>1 DEF Recordings
<1> QED BY <1>2, <1>3 DEF s

LEMMA WithQueue ==
  ASSUME NEW r \in Recordings, NEW q \in Seq(AudioFrames)
  PROVE  LET s == [r EXCEPT !.pending_audio = q]
         IN  s \in Recordings /\ SamePicture(r, s) /\ s.pending_audio = q
<1> DEFINE s == [r EXCEPT !.pending_audio = q]
<1>1. s = [r EXCEPT !.pending_audio = q, !.audio = r.audio]
  BY DEF Recordings, RecordFields
<1>2. r.audio \in Tracks
  BY DEF Recordings, RecordFields
<1>3. s \in Recordings /\ SamePicture(r, s)
  <2> HIDE DEF s
  <2> QED BY <1>1, <1>2, WithAudio, Zenon
<1>4. s.pending_audio = q
  BY DEF Recordings, RecordFields
<1> QED BY <1>3, <1>4

LEMMA FlushAudioIs ==
  ASSUME NEW r \in Recordings
  PROVE  FlushAudio(r) \in Recordings /\ SamePicture(r, FlushAudio(r))
<1> DEFINE q == r.pending_audio
           I == {i \in 1..Len(q) : AudioMs(q[i], r.base) > r.last_video_ms}
           first == IF I # {} THEN Min(I) ELSE 0
           held == IF first = 0 THEN <<>> ELSE SubSeq(q, first, Len(q))
           due == SubSeq(q, 1, Len(q) - Len(held))
           track == WriteDue(r.audio, due, r.base)
<1>1. q \in Seq(AudioFrames) /\ r.audio \in Tracks /\ r.base \in Nat
  BY DEF Recordings, RecordFields
<1>2. FlushAudio(r) = [r EXCEPT !.pending_audio = held, !.audio = track]
  BY Zenon DEF FlushAudio, Flushed, From, SelectInSeq
<1>3. held \in Seq(AudioFrames)
  <2>1. I \in SUBSET (1..Len(q))
    OBVIOUS
  <2> HIDE DEF I, q
  <2> QED BY <1>1, <2>1, RestOf
<1>4. due \in Seq(AudioFrames)
  <2>1. Len(held) \in Nat
    BY <1>3
  <2> HIDE DEF held, q
  <2> QED BY <1>1, <2>1
<1>5. track \in Tracks
  <2> HIDE DEF due
  <2> QED BY <1>1, <1>4, WriteDueIs
<1> HIDE DEF held, track
<1> QED BY <1>2, <1>3, <1>5, WithAudio, Zenon

LEMMA PushAudioIs ==
  ASSUME NEW r \in Recordings, NEW a \in AudioFrames
  PROVE  PushAudio(r, a) \in Recordings /\ SamePicture(r, PushAudio(r, a))
<1> DEFINE q == [r EXCEPT !.pending_audio = Append(@, a)]
           s == IF r.started THEN FlushAudio(q) ELSE q
           held == s.pending_audio
           I == {i \in 1..Len(held) : Last(held).ts - held[i].ts <= AudioPreroll}
           first == IF I # {} THEN Min(I) ELSE 0
           rest == IF first = 0 THEN <<>> ELSE SubSeq(held, first, Len(held))
<1>1. q \in Recordings /\ SamePicture(r, q)
  <2>1. Append(r.pending_audio, a) \in Seq(AudioFrames)
    BY DEF Recordings, RecordFields
  <2> QED BY <2>1, WithQueue, Zenon
<1>2. s \in Recordings /\ SamePicture(r, s)
  <2>1. CASE r.started
    <3>1. FlushAudio(q) \in Recordings /\ SamePicture(q, FlushAudio(q))
      BY <1>1, FlushAudioIs, Zenon
    <3> HIDE DEF q
    <3> QED BY <1>1, <2>1, <3>1 DEF SamePicture
  <2>2. CASE ~ r.started
    BY <1>1, <2>2
  <2> QED BY <2>1, <2>2
<1>3. PushAudio(r, a) = [s EXCEPT !.pending_audio = rest]
  BY Zenon DEF PushAudio, BoundPendingAudio, From, SelectInSeq
<1> HIDE DEF s
<1>4. rest \in Seq(AudioFrames)
  <2>1. held \in Seq(AudioFrames)
    BY <1>2 DEF Recordings, RecordFields
  <2>2. I \in SUBSET (1..Len(held))
    OBVIOUS
  <2> HIDE DEF I, held
  <2> QED BY <2>1, <2>2, RestOf
<1> HIDE DEF rest
<1>5. PushAudio(r, a) \in Recordings /\ SamePicture(s, PushAudio(r, a))
  BY <1>2, <1>3, <1>4, WithQueue, Zenon
<1> QED BY <1>2, <1>5 DEF SamePicture

\* A frame that is written: what is recorded before its sound is flushed.
LEMMA PushVideoBy ==
  ASSUME NEW r \in Recordings, NEW f \in VideoFrames, r.started \/ f.key
  PROVE  \E t \in Recordings :
             /\ PushVideo(r, f) = FlushAudio(t)
             /\ t.started
             /\ \E p \in VideoFrames : p.id = f.id /\ p.key = f.key
                                       /\ t.video = Append(r.video, p)
             /\ t.pending_audio = r.pending_audio /\ t.audio = r.audio
             /\ r.started => t.base = r.base
             /\ r.last_video_ms <= t.last_video_ms
<1> DEFINE s == IF r.started THEN r ELSE WriteHeader(r, f)
           video == WriteVideo(s.video, f, s.base)
           ms == Later(s.last_video_ms, Last(video).pts)
           t == [s EXCEPT !.video = video, !.last_video_ms = Later(@, Last(video).pts)]
<1>1. /\ s \in Recordings /\ s.started /\ s.video = r.video
      /\ s.pending_audio = r.pending_audio /\ s.audio = r.audio
      /\ s.last_video_ms = r.last_video_ms
      /\ r.started => s.base = r.base
  <2>1. CASE r.started
    BY <2>1
  <2>2. CASE ~ r.started
    <3> DEFINE base == IF f.dts < f.pts THEN f.dts ELSE f.pts
               w == [r EXCEPT !.started = TRUE, !.base = base]
    <3>1. base \in Nat
      BY DEF VideoFrames
    <3>2. r \in RecordFields
      BY DEF Recordings
    <3> HIDE DEF base
    <3>3. /\ w \in RecordFields /\ w.started /\ w.video = r.video
          /\ w.pending_audio = r.pending_audio /\ w.audio = r.audio
          /\ w.last_video_ms = r.last_video_ms
      BY <3>1, <3>2 DEF RecordFields
    <3>4. WriteHeader(r, f) = w
      BY DEF WriteHeader, base
    <3> HIDE DEF w
    <3>5. w \in Recordings
      BY <3>3 DEF Recordings
    <3> QED BY <2>2, <3>3, <3>4, <3>5
  <2> QED BY <2>1, <2>2
<1>2. PushVideo(r, f) = FlushAudio(t)
  <2>1. ~ (~ r.started /\ ~ f.key)
    OBVIOUS
  <2> QED BY <2>1, Zenon DEF PushVideo
<1> HIDE DEF s
<1>3. s.video \in Seq(VideoFrames) /\ Increasing(s.video) /\ s.base \in Nat
  BY <1>1 DEF Recordings, RecordFields
<1>4. PICK p \in VideoFrames :
         /\ video = Append(s.video, p)
         /\ p.id = f.id /\ p.key = f.key /\ p.pts >= p.dts
         /\ Increasing(Append(s.video, p))
  <2> DEFINE v == s.video
             b == s.base
  <2>1. v \in Seq(VideoFrames) /\ Increasing(v) /\ b \in Nat
    BY <1>3
  <2>2. video = WriteVideo(v, f, b)
    OBVIOUS
  <2> HIDE DEF v, b, video
  <2>3. PICK p \in VideoFrames :
           /\ WriteVideo(v, f, b) = Append(v, p)
           /\ p.id = f.id /\ p.key = f.key /\ p.pts >= p.dts
           /\ Increasing(Append(v, p))
    BY <2>1, WriteVideoIs
  <2> QED BY <2>2, <2>3 DEF v
<1>5. video \in Seq(VideoFrames) /\ Increasing(video)
      /\ \A i \in 1..Len(video) : video[i].pts >= video[i].dts
  <2>1. \A i \in 1..Len(s.video) : s.video[i].pts >= s.video[i].dts
    BY <1>1 DEF Recordings, RecordFields
  <2> HIDE DEF video
  <2> QED BY <1>3, <1>4, <2>1
<1>6. ms \in Nat /\ r.last_video_ms <= ms
  <2>1. Last(video) = p
    <3> HIDE DEF video
    <3> QED BY <1>3, <1>4 DEF Last
  <2>2. s.last_video_ms \in Nat /\ p.pts \in Nat
    BY <1>1, <1>4 DEF Recordings, RecordFields, VideoFrames
  <2> HIDE DEF video
  <2> QED BY <1>1, <2>1, <2>2 DEF Later
<1>7. /\ t \in RecordFields /\ t.started = s.started /\ t.video = video
      /\ t.pending_audio = s.pending_audio /\ t.audio = s.audio
      /\ t.base = s.base /\ t.last_video_ms = ms
  <2>1. s \in RecordFields
    BY <1>1 DEF Recordings
  <2> DEFINE w == [s EXCEPT !.video = video, !.last_video_ms = ms]
  <2>2. ms \in Nat
    BY <1>6
  <2> HIDE DEF video, ms
  <2>3. /\ w \in RecordFields /\ w.started = s.started /\ w.video = video
        /\ w.pending_audio = s.pending_audio /\ w.audio = s.audio
        /\ w.base = s.base /\ w.last_video_ms = ms
    BY <1>5, <2>1, <2>2 DEF RecordFields
  <2>4. t = w
    BY DEF ms
  <2> QED BY <2>3, <2>4
<1> HIDE DEF video, ms, t
<1>8. t \in Recordings
  BY <1>1, <1>5, <1>7 DEF Recordings
<1>9. /\ t.started /\ t.video = Append(r.video, p)
      /\ t.pending_audio = r.pending_audio /\ t.audio = r.audio
      /\ r.started => t.base = r.base
      /\ r.last_video_ms <= t.last_video_ms
  BY <1>1, <1>4, <1>6, <1>7
<1> QED BY <1>2, <1>4, <1>8, <1>9

\* A frame before the first keyframe is dropped; every other is written.
LEMMA PushVideoIs ==
  ASSUME NEW r \in Recordings, NEW f \in VideoFrames
  PROVE  LET s == PushVideo(r, f) IN
         /\ s \in Recordings
         /\ ~ r.started /\ ~ f.key => s = r
         /\ r.started \/ f.key =>
               /\ s.started
               /\ \E p \in VideoFrames : p.id = f.id /\ p.key = f.key
                                         /\ s.video = Append(r.video, p)
         /\ r.started => s.base = r.base
<1>1. CASE ~ r.started /\ ~ f.key
  <2>1. PushVideo(r, f) = r
    BY <1>1 DEF PushVideo
  <2> QED BY <1>1, <2>1
<1>2. CASE r.started \/ f.key
  <2>1. PICK t \in Recordings :
           /\ PushVideo(r, f) = FlushAudio(t)
           /\ t.started
           /\ \E p \in VideoFrames : p.id = f.id /\ p.key = f.key
                                     /\ t.video = Append(r.video, p)
           /\ r.started => t.base = r.base
    BY <1>2, PushVideoBy
  <2>2. FlushAudio(t) \in Recordings /\ SamePicture(t, FlushAudio(t))
    BY FlushAudioIs
  <2> QED BY <1>2, <2>1, <2>2 DEF SamePicture
<1> QED BY <1>1, <1>2

LEMMA FinishIs ==
  ASSUME NEW r \in Recordings
  PROVE  Finish(r) \in Recordings /\ SamePicture(r, Finish(r))
<1> DEFINE s == IF r.started THEN FlushAudio(r) ELSE r
<1>1. s \in Recordings /\ SamePicture(r, s)
  BY FlushAudioIs DEF SamePicture
<1>2. Finish(r) = [s EXCEPT !.pending_audio = <<>>]
  BY DEF Finish
<1> HIDE DEF s
<1>3. <<>> \in Seq(AudioFrames)
  OBVIOUS
<1>4. Finish(r) \in Recordings /\ SamePicture(s, Finish(r))
  BY <1>1, <1>2, <1>3, WithQueue, Zenon
<1> QED BY <1>1, <1>4 DEF SamePicture

-----------------------------------------------------------------------------
(* A batch of frames.                                                      *)

\* What the recorder does with frame i of a batch.
Given(kind, r, frames, i) ==
    IF kind = "video" THEN PushVideo(r, frames[i]) ELSE PushAudio(r, frames[i])

\* f[i] is the recording after the first i frames of a batch.
Makes(f, kind, r, frames) ==
    /\ f[0] = r
    /\ \A i \in 1..Len(frames) : f[i] = Given(kind, f[i - 1], frames, i)
    /\ Pushed(kind, r, frames) = f[Len(frames)]

LEMMA PushedIs ==
  ASSUME NEW kind, NEW frames, Len(frames) \in Nat, NEW r \in Recordings,
         \A i \in 1..Len(frames) : \A s \in Recordings :
             Given(kind, s, frames, i) \in Recordings
  PROVE  \E f \in [0..Len(frames) -> Recordings] : Makes(f, kind, r, frames)
<1> DEFINE n == Len(frames)
           After(f) ==
             f = [i \in 0..Len(frames) |->
                    IF i = 0 THEN r
                    ELSE IF kind = "video" THEN PushVideo(f[i - 1], frames[i])
                    ELSE PushAudio(f[i - 1], frames[i])]
           step == [i \in 1..n |-> [s \in Recordings |-> Given(kind, s, frames, i)]]
<1>1. n \in Nat
  OBVIOUS
<1>2. step \in [1..n -> [Recordings -> Recordings]]
  OBVIOUS
<1>3. PICK f \in [0..n -> Recordings] : Steps(f, n, r, step)
  <2> HIDE DEF n, step
  <2> QED BY <1>1, <1>2, StepsExist
<1>4. After(f)
  <2>1. f = [i \in 0..n |-> IF i = 0 THEN r ELSE step[i][f[i - 1]]]
    BY <1>3 DEF Steps
  <2>2. ASSUME NEW i \in 0..n, i # 0
        PROVE  step[i][f[i - 1]] = Given(kind, f[i - 1], frames, i)
    <3>1. i \in 1..n /\ i - 1 \in 0..n
      BY <2>2
    <3>2. f[i - 1] \in Recordings
      BY <3>1
    <3> QED BY <3>1, <3>2
  <2> HIDE DEF step
  <2>3. f = [i \in 0..n |-> IF i = 0 THEN r ELSE Given(kind, f[i - 1], frames, i)]
    BY <2>1, <2>2
  <2> QED BY <2>3, Zenon DEF Given
<1> DEFINE after == CHOOSE g : After(g)
<1>5. After(after)
  BY <1>4
<1>6. Pushed(kind, r, frames) = after[n]
  BY Zenon DEF Pushed
<1>7. after = [i \in 0..n |-> IF i = 0 THEN r ELSE Given(kind, after[i - 1], frames, i)]
  BY <1>5, Zenon DEF Given
<1> HIDE DEF after
<1>8. after[0] = r /\ \A i \in 1..n : after[i] = Given(kind, after[i - 1], frames, i)
  <2>1. \A i \in 0..n : after[i] = IF i = 0 THEN r ELSE Given(kind, after[i - 1], frames, i)
    BY <1>7, Zenon
  <2> HIDE DEF n
  <2> QED BY <1>1, <2>1
<1> DEFINE T == {i \in 0..n : after[i] \in Recordings}
<1>9. 0 \in T
  BY <1>8
<1>10. \A i \in 1..n : i - 1 \in T => i \in T
  BY <1>8
<1>11. \A i \in 0..n : i \in T
  <2> HIDE DEF T, n
  <2> QED BY <1>1, <1>9, <1>10, Climb
<1>12. after \in [0..n -> Recordings]
  <2>1. after = [i \in 0..n |-> after[i]]
    BY <1>7
  <2> QED BY <1>11, <2>1
<1> QED BY <1>6, <1>8, <1>12 DEF Makes

(***************************************************************************)
(* A batch of sound leaves the picture alone.                              *)
(***************************************************************************)
LEMMA PushedAudioIs ==
  ASSUME NEW frames \in Seq(AudioFrames), NEW r \in Recordings
  PROVE  LET s == Pushed("audio", r, frames) IN s \in Recordings /\ SamePicture(r, s)
<1> DEFINE n == Len(frames)
<1>1. ASSUME NEW i \in 1..n, NEW s \in Recordings
      PROVE  Given("audio", s, frames, i) \in Recordings
             /\ SamePicture(s, Given("audio", s, frames, i))
  <2>1. frames[i] \in AudioFrames
    OBVIOUS
  <2> QED BY <2>1, PushAudioIs DEF Given
<1>2. PICK f \in [0..n -> Recordings] : Makes(f, "audio", r, frames)
  <2>1. \A i \in 1..n : \A s \in Recordings : Given("audio", s, frames, i) \in Recordings
    BY <1>1
  <2>2. Len(frames) \in Nat
    OBVIOUS
  <2> QED BY <2>1, <2>2, PushedIs, Zenon
<1>3. /\ f[0] = r
      /\ \A i \in 1..n : f[i] = Given("audio", f[i - 1], frames, i)
      /\ Pushed("audio", r, frames) = f[n]
  BY <1>2, Zenon DEF Makes
<1> DEFINE T == {i \in 0..n : SamePicture(r, f[i])}
<1>4. 0 \in T
  BY <1>3 DEF SamePicture
<1>5. ASSUME NEW i \in 1..n, i - 1 \in T PROVE i \in T
  <2>1. f[i - 1] \in Recordings
    OBVIOUS
  <2>2. SamePicture(f[i - 1], f[i])
    BY <1>1, <1>3, <2>1
  <2>3. SamePicture(r, f[i - 1])
    BY <1>5
  <2>4. SamePicture(r, f[i])
    BY <2>2, <2>3 DEF SamePicture
  <2> QED BY <2>4
<1>6. n \in Nat /\ n \in 0..n
  OBVIOUS
<1>7. n \in T
  <2> HIDE DEF T, n
  <2> QED BY <1>4, <1>5, <1>6, Climb
<1> QED BY <1>3, <1>6, <1>7

\* The recording ends with this frame, once it has begun.
EndsWith(r, id) ==
    r.started => r.video # <<>> /\ r.video[Len(r.video)].id = id

\* Frames that can be decoded behind frame id.
Links(frames, id) ==
    \A i \in 1..Len(frames) :
        frames[i].key \/ frames[i].id = (IF i = 1 THEN id ELSE frames[i - 1].id) + 1

LEMMA OneMoreFrame ==
  ASSUME NEW r \in Recordings, NEW f \in VideoFrames, NEW id \in Nat,
         Decodable(r.video), f.key \/ (EndsWith(r, id) /\ f.id = id + 1)
  PROVE  LET s == PushVideo(r, f) IN
         /\ s \in Recordings /\ Decodable(s.video) /\ EndsWith(s, f.id)
         /\ r.started => s.started
<1> DEFINE s == PushVideo(r, f)
<1>1. /\ s \in Recordings
      /\ ~ r.started /\ ~ f.key => s = r
      /\ r.started \/ f.key =>
            /\ s.started
            /\ \E p \in VideoFrames : p.id = f.id /\ p.key = f.key
                                      /\ s.video = Append(r.video, p)
  BY PushVideoIs
<1> HIDE DEF s
<1>2. CASE ~ r.started /\ ~ f.key
  BY <1>1, <1>2 DEF EndsWith, s
<1>3. CASE r.started \/ f.key
  <2>1. PICK p \in VideoFrames : p.id = f.id /\ p.key = f.key /\ s.video = Append(r.video, p)
    BY <1>1, <1>3
  <2>2. r.video \in Seq(VideoFrames)
    BY DEF Recordings, RecordFields
  <2> DEFINE v == r.video
             more == Append(v, p)
  <2>3. /\ Len(more) = Len(v) + 1
        /\ \A i \in 1..Len(v) : more[i] = v[i]
        /\ more[Len(v) + 1] = p
    BY <2>2
  <2>4. EndsWith(s, f.id)
    <3>1. more # <<>> /\ more[Len(more)] = p
      <4>1. more # <<>>
        BY <2>2
      <4> HIDE DEF v, more
      <4> QED BY <2>3, <4>1
    <3> QED BY <2>1, <3>1 DEF EndsWith
  <2>5. p.key \/ (v # <<>> /\ p.id = v[Len(v)].id + 1)
    BY <1>3, <2>1 DEF EndsWith
  <2>6. ASSUME NEW i \in 1..Len(more)
        PROVE  more[i].key \/ (i > 1 /\ more[i].id = more[i - 1].id + 1)
    <3> HIDE DEF more
    <3>1. CASE i \in 1..Len(v)
      <4>1. v[i].key \/ (i > 1 /\ v[i].id = v[i - 1].id + 1)
        BY <3>1 DEF Decodable
      <4>2. more[i] = v[i] /\ (i > 1 => more[i - 1] = v[i - 1])
        <5> HIDE DEF v
        <5> QED BY <2>3, <3>1
      <4> QED BY <4>1, <4>2
    <3>2. CASE i = Len(v) + 1
      <4>1. v # <<>> => Len(v) \in 1..Len(v)
        BY <2>2
      <4>2. Len(v) \in Nat
        BY <2>2
      <4> HIDE DEF v
      <4>3. v # <<>> => i > 1 /\ more[i - 1] = v[Len(v)]
        BY <2>3, <3>2, <4>1
      <4>4. more[i] = p
        BY <2>3, <3>2
      <4> QED BY <2>5, <4>3, <4>4
    <3>3. Len(v) \in Nat
      BY <2>2
    <3> HIDE DEF v
    <3> QED BY <2>3, <3>1, <3>2, <3>3
  <2>7. Decodable(s.video)
    BY <2>1, <2>6 DEF Decodable
  <2> QED BY <1>1, <1>3, <2>4, <2>7 DEF s
<1> QED BY <1>2, <1>3, <1>1 DEF s

(***************************************************************************)
(* A batch of pictures that link to the end of a recording leaves it one   *)
(* that can be decoded.                                                    *)
(***************************************************************************)
LEMMA PushedVideoIs ==
  ASSUME NEW frames \in Seq(VideoFrames), NEW r \in Recordings, NEW id \in Nat,
         Decodable(r.video), Links(frames, id),
         frames # <<>> => frames[1].key \/ EndsWith(r, id)
  PROVE  LET s == Pushed("video", r, frames) IN
         /\ s \in Recordings /\ Decodable(s.video)
         /\ r.started => s.started
         /\ IF frames = <<>> THEN s = r ELSE EndsWith(s, frames[Len(frames)].id)
<1> DEFINE n == Len(frames)
<1>1. ASSUME NEW i \in 1..n, NEW s \in Recordings
      PROVE  /\ frames[i] \in VideoFrames
             /\ Given("video", s, frames, i) = PushVideo(s, frames[i])
             /\ Given("video", s, frames, i) \in Recordings
  <2>1. frames[i] \in VideoFrames
    OBVIOUS
  <2> QED BY <2>1, PushVideoIs DEF Given
<1>2. PICK f \in [0..n -> Recordings] : Makes(f, "video", r, frames)
  <2>1. \A i \in 1..n : \A s \in Recordings : Given("video", s, frames, i) \in Recordings
    BY <1>1
  <2>2. Len(frames) \in Nat
    OBVIOUS
  <2> QED BY <2>1, <2>2, PushedIs, Zenon
<1>3. /\ f[0] = r
      /\ \A i \in 1..n : f[i] = Given("video", f[i - 1], frames, i)
      /\ Pushed("video", r, frames) = f[n]
  BY <1>2, Zenon DEF Makes
<1> DEFINE T == {i \in 0..n : /\ Decodable(f[i].video)
                              /\ r.started => f[i].started
                              /\ i > 0 => EndsWith(f[i], frames[i].id)}
<1>4. 0 \in T
  BY <1>3
<1>5. ASSUME NEW i \in 1..n, i - 1 \in T PROVE i \in T
  <2> DEFINE last == IF i = 1 THEN id ELSE frames[i - 1].id
             q == f[i - 1]
  <2>1. q \in Recordings /\ frames[i] \in VideoFrames
    BY <1>1
  <2>2. last \in Nat
    <3>1. i # 1 => frames[i - 1] \in VideoFrames
      BY <1>1
    <3> QED BY <3>1 DEF VideoFrames
  <2>3. Decodable(q.video)
    BY <1>5
  <2>4. frames[i].key \/ (EndsWith(q, last) /\ frames[i].id = last + 1)
    <3>1. frames[i].key \/ frames[i].id = last + 1
      BY DEF Links
    <3>2. CASE i = 1
      <4>1. frames # <<>>
        OBVIOUS
      <4> QED BY <1>3, <3>1, <3>2, <4>1
    <3>3. CASE i # 1
      <4>1. EndsWith(q, frames[i - 1].id)
        BY <1>5, <3>3
      <4> QED BY <3>1, <3>3, <4>1
    <3> QED BY <3>2, <3>3
  <2> HIDE DEF q, last
  <2>5. /\ Decodable(PushVideo(q, frames[i]).video)
        /\ EndsWith(PushVideo(q, frames[i]), frames[i].id)
        /\ q.started => PushVideo(q, frames[i]).started
    BY <2>1, <2>2, <2>3, <2>4, OneMoreFrame
  <2>6. f[i] = PushVideo(q, frames[i])
    BY <1>1, <1>3, <2>1 DEF q
  <2>7. r.started => q.started
    BY <1>5 DEF q
  <2> QED BY <2>5, <2>6, <2>7
<1>6. n \in Nat /\ n \in 0..n
  OBVIOUS
<1>7. n \in T
  <2> HIDE DEF T, n
  <2> QED BY <1>4, <1>5, <1>6, Climb
<1>8. CASE frames = <<>>
  BY <1>3, <1>6, <1>7, <1>8
<1>9. CASE frames # <<>>
  <2>1. n > 0
    BY <1>9
  <2> QED BY <1>3, <1>6, <1>7, <1>9, <2>1
<1> QED BY <1>8, <1>9

-----------------------------------------------------------------------------
(* A push that fails.                                                      *)

\* The beginning of a track is a track.
LEMMA TrackBegins ==
  ASSUME NEW track \in Tracks, NEW k \in Int, k <= Len(track)
  PROVE  SubSeq(track, 1, k) \in Tracks
<1>1. track \in Seq(AudioPackets) /\ Increasing(track)
  BY DEF Tracks
<1> DEFINE s == SubSeq(track, 1, k)
<1>2. s \in Seq(AudioPackets)
  BY <1>1
<1>3. \A i \in 1..Len(s) : i \in 1..Len(track) /\ s[i] = track[i]
  BY <1>1
<1>4. Len(s) \in Nat
  BY <1>2
<1>5. Increasing(s)
  <2> HIDE DEF s
  <2>1. ASSUME NEW i \in 2..Len(s) PROVE s[i].dts > s[i - 1].dts
    <3>1. i \in 1..Len(s) /\ i - 1 \in 1..Len(s)
      BY <1>4
    <3>2. i \in 2..Len(track)
      BY <1>3, <3>1
    <3>3. track[i].dts > track[i - 1].dts
      BY <1>1, <3>2 DEF Increasing
    <3> QED BY <1>3, <3>1, <3>3
  <2> QED BY <2>1 DEF Increasing
<1> QED BY <1>2, <1>5 DEF Tracks

LEMMA PushFailingIs ==
  ASSUME NEW before \in Recordings, NEW after \in Recordings,
         before.started => after.started, NEW waiting \in Seq(AudioFrames),
         NEW written \in
             0..Len(after.video \o after.audio) - Len(before.video \o before.audio) - 1
  PROVE  LET s == PushFailing(before, waiting, after, written) IN
         s \in Recordings /\ s.video \in {before.video, after.video}
<1> DEFINE s == PushFailing(before, waiting, after, written)
<1>1. before \in RecordFields /\ after \in RecordFields
  BY DEF Recordings
<1>2. CASE written = 0 /\ after.video # before.video
  <2> DEFINE t == [before EXCEPT !.started = after.started, !.base = after.base]
  <2>1. s = t
    BY <1>2 DEF PushFailing
  <2>2. t \in RecordFields /\ t.video = before.video /\ t.started = after.started
    BY <1>1 DEF RecordFields
  <2>3. after.started
    BY <1>2 DEF Recordings
  <2> HIDE DEF t
  <2>4. t \in Recordings
    BY <2>2, <2>3 DEF Recordings
  <2> HIDE DEF s
  <2> QED BY <2>1, <2>2, <2>4 DEF s
<1>3. CASE ~ (written = 0 /\ after.video # before.video)
  <2> DEFINE k == Len(before.audio) + written - (Len(after.video) - Len(before.video))
             track == SubSeq(after.audio, 1, k)
             missing == after.audio[Len(track) + 1]
             I == {i \in 1..Len(waiting) : waiting[i].id > missing.id}
             first == IF I # {} THEN Min(I) ELSE 0
             rest == IF first = 0 THEN <<>> ELSE SubSeq(waiting, first, Len(waiting))
             t == [after EXCEPT !.audio = track, !.pending_audio = rest]
  <2>1. s = t
    BY <1>3, Zenon DEF PushFailing, From, SelectInSeq
  <2>2. k \in Int /\ k <= Len(after.audio)
    <3>1. /\ before.video \in Seq(VideoFrames) /\ after.video \in Seq(VideoFrames)
          /\ before.audio \in Seq(AudioPackets) /\ after.audio \in Seq(AudioPackets)
      BY <1>1 DEF RecordFields, Tracks
    <3> DEFINE v == Len(before.video)
               a == Len(before.audio)
               w == Len(after.video)
               b == Len(after.audio)
               had == Len(before.video \o before.audio)
               has == Len(after.video \o after.audio)
    <3>2. v \in Nat /\ a \in Nat /\ w \in Nat /\ b \in Nat
      BY <3>1
    <3>3. had = v + a /\ has = w + b
      BY <3>1
    <3>4. written \in 0..has - had - 1 /\ k = a + written - (w - v)
      OBVIOUS
    <3>5. b = Len(after.audio)
      OBVIOUS
    <3> HIDE DEF had, has, v, a, w, b, k
    <3>6. k \in Int /\ k <= b
      BY <3>2, <3>3, <3>4
    <3> QED BY <3>5, <3>6
  <2>3. track \in Tracks
    <3>1. after.audio \in Tracks
      BY <1>1 DEF RecordFields
    <3> HIDE DEF k
    <3> QED BY <2>2, <3>1, TrackBegins
  <2>4. rest \in Seq(AudioFrames)
    <3>1. I \in SUBSET (1..Len(waiting))
      OBVIOUS
    <3> HIDE DEF I
    <3> QED BY <3>1, RestOf
  <2> HIDE DEF track, rest
  <2>5. t = [after EXCEPT !.pending_audio = rest, !.audio = track]
    OBVIOUS
  <2> HIDE DEF t
  <2>6. t \in Recordings /\ SamePicture(after, t)
    BY <2>3, <2>4, <2>5, WithAudio, Zenon
  <2> HIDE DEF s
  <2> QED BY <2>1, <2>6 DEF s, SamePicture
<1> QED BY <1>2, <1>3

(***************************************************************************)
(* abort_recording leaves a file that can be played as far as it goes.     *)
(***************************************************************************)
LEMMA AbortIs ==
  ASSUME NEW r \in Recordings, Abort(r)
  PROVE  status' = "broken" /\ recorder' \in Recordings /\ recorder'.video = r.video
<1>1. CASE recorder' = Finish(r)
  BY <1>1, FinishIs DEF Abort, SamePicture
<1>2. CASE recorder' = [r EXCEPT !.pending_audio = <<>>]
  <2>1. <<>> \in Seq(AudioFrames)
    OBVIOUS
  <2>2. recorder' \in Recordings /\ SamePicture(r, recorder')
    BY <1>2, <2>1, WithQueue, Zenon
  <2> QED BY <2>2 DEF Abort, SamePicture
<1> QED BY <1>1, <1>2 DEF Abort

\* What a batch has become before frame n, and with it.
Before(kind, r, frames, n) == Pushed(kind, r, SubSeq(frames, 1, n - 1))
After(kind, r, frames, n) == Pushed(kind, Before(kind, r, frames, n), <<frames[n]>>)

LEMMA FeedFailsIs ==
  ASSUME NEW kind \in {"video", "audio"}, NEW frames, FeedFails(kind, frames),
         kind = "audio" => frames \in Seq(AudioFrames),
         \A n \in 1..Len(frames) :
             LET before == Before(kind, recorder, frames, n)
                 after == After(kind, recorder, frames, n)
             IN  /\ before \in Recordings /\ Decodable(before.video)
                 /\ after \in Recordings /\ Decodable(after.video)
                 /\ before.started => after.started
  PROVE  status' = "broken" /\ recorder' \in Recordings /\ Decodable(recorder'.video)
<1>1. PICK n \in 1..Len(frames) :
         LET before == Before(kind, recorder, frames, n)
             after == After(kind, recorder, frames, n)
             waiting == before.pending_audio \o (IF kind = "audio" THEN <<frames[n]>> ELSE <<>>)
             packets == Len(after.video \o after.audio) - Len(before.video \o before.audio)
         IN  \/ after.started /\ ~ before.started /\ Abort(before)
             \/ \E written \in 0..packets - 1 :
                    Abort(PushFailing(before, waiting, after, written))
  BY Zenon DEF FeedFails, Before, After
<1> DEFINE before == Before(kind, recorder, frames, n)
           after == After(kind, recorder, frames, n)
           waiting == before.pending_audio \o (IF kind = "audio" THEN <<frames[n]>> ELSE <<>>)
           packets == Len(after.video \o after.audio) - Len(before.video \o before.audio)
<1>2. /\ before \in Recordings /\ Decodable(before.video)
      /\ after \in Recordings /\ Decodable(after.video)
      /\ before.started => after.started
  OBVIOUS
<1>3. waiting \in Seq(AudioFrames)
  <2>1. before.pending_audio \in Seq(AudioFrames)
    BY <1>2 DEF Recordings, RecordFields
  <2>2. kind = "audio" => frames[n] \in AudioFrames
    OBVIOUS
  <2> HIDE DEF before
  <2> QED BY <2>1, <2>2
<1>4. \/ Abort(before)
      \/ \E written \in 0..packets - 1 : Abort(PushFailing(before, waiting, after, written))
  BY <1>1, Zenon
<1>5. CASE Abort(before)
  <2> HIDE DEF before
  <2> QED BY <1>2, <1>5, AbortIs
<1>6. CASE \E written \in 0..packets - 1 : Abort(PushFailing(before, waiting, after, written))
  <2> HIDE DEF before, after, waiting
  <2>1. PICK written \in 0..packets - 1 : Abort(PushFailing(before, waiting, after, written))
    BY <1>6
  <2> DEFINE s == PushFailing(before, waiting, after, written)
  <2>2. s \in Recordings /\ s.video \in {before.video, after.video}
    BY <1>2, <1>3, PushFailingIs
  <2> HIDE DEF s
  <2>3. Abort(s)
    BY <2>1 DEF s
  <2> QED BY <1>2, <2>2, <2>3, AbortIs
<1> QED BY <1>4, <1>5, <1>6

-----------------------------------------------------------------------------
(* The invariant of the recorded path.                                     *)

\* The channel holds what can be decoded behind the frame drained last; behind
\* none, it begins with a keyframe.
ChannelLinks ==
    /\ Links(video_chan, drained)
    /\ drained = 0 /\ video_chan # <<>> => video_chan[1].key

\* Unless frames were dropped, the next frame follows the last that is there.
ChannelIsNewest ==
    capturing /\ ~ awaiting_keyframe =>
        /\ video_chan # <<>> => video_chan[Len(video_chan)].id = emitted.video
        /\ video_chan = <<>> /\ drained > 0 => drained = emitted.video

\* A recording that is open has all that was drained in this session.
RecorderFollows == status = "open" /\ drained > 0 => EndsWith(recorder, drained)

RecordTypes ==
    /\ recorder \in Recordings
    /\ video_chan \in Seq(VideoFrames) /\ Len(video_chan) <= VideoCap
    /\ audio_chan \in Seq(AudioFrames) /\ audio_ring \in Seq(AudioFrames)
    /\ emitted \in [video : Nat, audio : Nat] /\ drained \in Nat

RecordIInv ==
    /\ RecordTypes
    /\ Decodable(recorder.video)
    /\ ChannelLinks /\ ChannelIsNewest /\ RecorderFollows
    /\ ~ capturing => video_chan = <<>>
    /\ status = "finished" /\ recorder.started => trailer

(***************************************************************************)
(* What a drain of the audio channel does to the recording.                *)
(***************************************************************************)
LEMMA AudioFed ==
  ASSUME RecordIInv, Feed("audio", audio_chan) \/ FeedFails("audio", audio_chan)
  PROVE  /\ recorder' \in Recordings /\ Decodable(recorder'.video)
         /\ status' = "open" => status = "open" /\ SamePicture(recorder, recorder')
         /\ status' = "finished" => UNCHANGED <<status, recorder, trailer>>
<1>1. recorder \in Recordings /\ Decodable(recorder.video) /\ audio_chan \in Seq(AudioFrames)
  BY DEF RecordIInv, RecordTypes
<1>2. CASE Feed("audio", audio_chan)
  <2> DEFINE s == Pushed("audio", recorder, audio_chan)
  <2>1. s \in Recordings /\ SamePicture(recorder, s)
    BY <1>1, PushedAudioIs
  <2>2. /\ UNCHANGED <<status, trailer>>
        /\ recorder' = IF status = "open" THEN s ELSE recorder
    BY <1>2 DEF Feed
  <2> HIDE DEF s
  <2> QED BY <1>1, <2>1, <2>2 DEF SamePicture
<1>3. CASE FeedFails("audio", audio_chan)
  <2>1. ASSUME NEW n \in 1..Len(audio_chan)
        PROVE  LET before == Before("audio", recorder, audio_chan, n)
                   after == After("audio", recorder, audio_chan, n)
               IN  /\ before \in Recordings /\ Decodable(before.video)
                   /\ after \in Recordings /\ Decodable(after.video)
                   /\ before.started => after.started
    <3> DEFINE before == Before("audio", recorder, audio_chan, n)
               after == After("audio", recorder, audio_chan, n)
    <3>1. SubSeq(audio_chan, 1, n - 1) \in Seq(AudioFrames)
          /\ <<audio_chan[n]>> \in Seq(AudioFrames)
      BY <1>1
    <3>2. before \in Recordings /\ SamePicture(recorder, before)
      BY <1>1, <3>1, PushedAudioIs DEF Before
    <3> HIDE DEF before
    <3>3. after \in Recordings /\ SamePicture(before, after)
      BY <3>1, <3>2, PushedAudioIs DEF After, before
    <3> HIDE DEF after
    <3>4. /\ before \in Recordings /\ Decodable(before.video)
          /\ after \in Recordings /\ Decodable(after.video)
          /\ before.started => after.started
      BY <1>1, <3>2, <3>3 DEF SamePicture
    <3> QED BY <3>4 DEF before, after
  <2>2. status' = "broken" /\ recorder' \in Recordings /\ Decodable(recorder'.video)
    BY <1>1, <1>3, <2>1, FeedFailsIs
  <2> QED BY <2>2
<1> QED BY <1>2, <1>3

(***************************************************************************)
(* What a drain of the video channel does to it.                           *)
(***************************************************************************)
LEMMA VideoFed ==
  ASSUME RecordIInv, Feed("video", video_chan) \/ FeedFails("video", video_chan)
  PROVE  /\ recorder' \in Recordings /\ Decodable(recorder'.video)
         /\ status' = "open" =>
               /\ status = "open"
               /\ IF video_chan = <<>> THEN recorder' = recorder
                  ELSE EndsWith(recorder', video_chan[Len(video_chan)].id)
         /\ status' = "finished" => UNCHANGED <<status, recorder, trailer>>
<1>1. /\ recorder \in Recordings /\ Decodable(recorder.video)
      /\ video_chan \in Seq(VideoFrames) /\ Links(video_chan, drained) /\ drained \in Nat
  BY DEF RecordIInv, RecordTypes, ChannelLinks
<1>2. status = "open" /\ video_chan # <<>> => video_chan[1].key \/ EndsWith(recorder, drained)
  <2>1. drained = 0 \/ drained > 0
    BY <1>1
  <2> QED BY <2>1 DEF RecordIInv, ChannelLinks, RecorderFollows
<1>3. CASE Feed("video", video_chan)
  <2> DEFINE s == Pushed("video", recorder, video_chan)
  <2>1. status = "open" =>
          /\ s \in Recordings /\ Decodable(s.video)
          /\ IF video_chan = <<>> THEN s = recorder
             ELSE EndsWith(s, video_chan[Len(video_chan)].id)
    BY <1>1, <1>2, PushedVideoIs
  <2>2. /\ UNCHANGED <<status, trailer>>
        /\ recorder' = IF status = "open" THEN s ELSE recorder
    BY <1>3 DEF Feed
  <2> HIDE DEF s
  <2>3. CASE status = "open"
    BY <2>1, <2>2, <2>3
  <2>4. CASE status # "open"
    BY <1>1, <2>2, <2>4
  <2> QED BY <2>3, <2>4
<1>4. CASE FeedFails("video", video_chan)
  <2>1. status = "open"
    BY <1>4 DEF FeedFails
  <2>2. ASSUME NEW n \in 1..Len(video_chan)
        PROVE  LET before == Before("video", recorder, video_chan, n)
                   after == After("video", recorder, video_chan, n)
               IN  /\ before \in Recordings /\ Decodable(before.video)
                   /\ after \in Recordings /\ Decodable(after.video)
                   /\ before.started => after.started
    <3> DEFINE before == Before("video", recorder, video_chan, n)
               after == After("video", recorder, video_chan, n)
               front == SubSeq(video_chan, 1, n - 1)
               one == <<video_chan[n]>>
               last == IF n = 1 THEN drained ELSE video_chan[n - 1].id
    <3>1. /\ front \in Seq(VideoFrames) /\ one \in Seq(VideoFrames)
          /\ Len(front) = n - 1 /\ \A i \in 1..(n - 1) : front[i] = video_chan[i]
      BY <1>1
    <3>2. n \in Nat /\ n > 0 /\ (n # 1 => n - 1 \in 1..Len(video_chan))
      BY <1>1
    <3>3. one # <<>> /\ Len(one) = 1 /\ one[1] = video_chan[n]
      OBVIOUS
    <3>4. last \in Nat
      <4>1. n # 1 => video_chan[n - 1] \in VideoFrames
        BY <1>1, <3>2
      <4> QED BY <1>1, <4>1 DEF VideoFrames
    <3> HIDE DEF front, one
    <3>5. Links(front, drained)
      <4>1. ASSUME NEW i \in 1..Len(front)
            PROVE  front[i].key
                   \/ front[i].id = (IF i = 1 THEN drained ELSE front[i - 1].id) + 1
        <5>1. i \in 1..Len(video_chan) /\ i \in 1..(n - 1)
          BY <3>1, <3>2
        <5>2. video_chan[i].key \/ video_chan[i].id =
                 (IF i = 1 THEN drained ELSE video_chan[i - 1].id) + 1
          BY <1>1, <5>1 DEF Links
        <5>3. i # 1 => i - 1 \in 1..(n - 1)
          BY <5>1
        <5> QED BY <3>1, <5>1, <5>2, <5>3
      <4> QED BY <4>1 DEF Links
    <3>6. front # <<>> => front[1].key \/ EndsWith(recorder, drained)
      <4>1. CASE front = <<>>
        BY <4>1
      <4>2. CASE front # <<>>
        <5>1. 1 \in 1..(n - 1)
          BY <3>1, <3>2, <4>2
        <5>2. video_chan # <<>>
          BY <1>1
        <5> QED BY <1>2, <2>1, <3>1, <5>1, <5>2
      <4> QED BY <4>1, <4>2
    <3>7. /\ before \in Recordings /\ Decodable(before.video)
          /\ IF front = <<>> THEN before = recorder
             ELSE EndsWith(before, front[Len(front)].id)
      BY <1>1, <3>1, <3>5, <3>6, PushedVideoIs DEF Before, front
    <3> HIDE DEF before, last
    <3>8. Links(one, last)
      <4>1. video_chan[n].key \/ video_chan[n].id = last + 1
        BY <1>1 DEF Links, last
      <4>2. \A i \in 1..Len(one) : i = 1
        BY <3>3
      <4> QED BY <3>3, <4>1, <4>2 DEF Links
    <3>9. one[1].key \/ EndsWith(before, last)
      <4>1. CASE n = 1
        <5>1. front = <<>> /\ last = drained
          BY <3>1, <4>1 DEF last
        <5>2. video_chan # <<>>
          BY <1>1
        <5> QED BY <1>2, <2>1, <3>3, <3>7, <4>1, <5>1, <5>2
      <4>2. CASE n # 1
        <5>1. front # <<>> /\ front[Len(front)] = video_chan[n - 1]
          BY <3>1, <3>2, <4>2
        <5> QED BY <3>7, <4>2, <5>1 DEF last
      <4> QED BY <4>1, <4>2
    <3>10. /\ after \in Recordings /\ Decodable(after.video)
           /\ before.started => after.started
      BY <3>1, <3>3, <3>4, <3>7, <3>8, <3>9, PushedVideoIs DEF After, before, one
    <3> QED BY <3>7, <3>10 DEF before
  <2>3. status' = "broken" /\ recorder' \in Recordings /\ Decodable(recorder'.video)
    BY <1>4, <2>2, FeedFailsIs
  <2> QED BY <2>3
<1> QED BY <1>3, <1>4

-----------------------------------------------------------------------------
(* Its steps.                                                              *)

LEMMA RecordInitially == RecordInit => RecordIInv
<1> SUFFICES ASSUME RecordInit PROVE RecordIInv
  OBVIOUS
<1>1. <<>> \in Tracks
  BY DEF Tracks, Increasing
<1>2. recorder \in Recordings /\ recorder.video = <<>> /\ ~ recorder.started
  <2>1. recorder \in RecordFields /\ recorder.video = <<>> /\ ~ recorder.started
    BY <1>1 DEF RecordInit, Started, RecordFields
  <2> QED BY <2>1 DEF Recordings, Increasing
<1>3. RecordTypes
  BY <1>2, RecordPathAssumption DEF RecordInit, RecordTypes
<1>4. Decodable(recorder.video)
  BY <1>2 DEF Decodable
<1>5. ChannelLinks /\ ChannelIsNewest /\ RecorderFollows
  BY DEF RecordInit, ChannelLinks, ChannelIsNewest, RecorderFollows, Links
<1> QED BY <1>3, <1>4, <1>5 DEF RecordInit, RecordIInv

LEMMA AppendIs ==
  ASSUME NEW S, NEW s \in Seq(S), NEW e \in S
  PROVE  LET t == Append(s, e) IN
         /\ t \in Seq(S) /\ t # <<>> /\ Len(t) = Len(s) + 1 /\ t[Len(s) + 1] = e
         /\ \A i \in 1..Len(s) : t[i] = s[i]
OBVIOUS

LEMMA ForwardVideoStep ==
  ASSUME RecordIInv, NEW dts \in VideoTimes, NEW lead \in PtsLeads, NEW key \in BOOLEAN,
         ForwardVideo([id |-> emitted.video + 1, key |-> key,
                       dts |-> dts, pts |-> dts + lead])
  PROVE  RecordIInv'
<1> DEFINE f == [id |-> emitted.video + 1, key |-> key, dts |-> dts, pts |-> dts + lead]
<1>1. /\ recorder \in Recordings /\ Decodable(recorder.video)
      /\ video_chan \in Seq(VideoFrames) /\ emitted \in [video : Nat, audio : Nat]
      /\ drained \in Nat
  BY DEF RecordIInv, RecordTypes
<1>2. f \in VideoFrames /\ f.id = emitted.video + 1 /\ f.key = key
  <2>1. dts \in Nat /\ dts + lead \in Nat
    BY RecordPathAssumption
  <2> QED BY <1>1, <2>1 DEF VideoFrames
<1>3. ForwardVideo(f)
  OBVIOUS
<1> HIDE DEF f
<1>4. /\ capturing /\ capturing' = capturing
      /\ drained = 0 /\ video_chan = <<>> /\ ~ awaiting_keyframe => f.key
      /\ emitted' = [emitted EXCEPT !.video = f.id]
      /\ UNCHANGED <<audio_chan, drained, audio_ring, status, recorder, trailer>>
  BY <1>3 DEF ForwardVideo, Emitted, take
<1>5. emitted' \in [video : Nat, audio : Nat] /\ emitted'.video = f.id
  BY <1>1, <1>2, <1>4 DEF VideoFrames
<1>6. CASE UNCHANGED video_chan /\ awaiting_keyframe'
  <2>1. RecordTypes' /\ ChannelLinks'
    BY <1>4, <1>5, <1>6 DEF RecordIInv, RecordTypes, ChannelLinks, Links
  <2>2. ChannelIsNewest'
    BY <1>6 DEF ChannelIsNewest
  <2>3. RecorderFollows' /\ Decodable(recorder.video)'
    BY <1>1, <1>4 DEF RecordIInv, RecorderFollows, EndsWith
  <2> QED BY <1>4, <2>1, <2>2, <2>3 DEF RecordIInv
<1>7. CASE /\ video_chan' = Append(video_chan, f) /\ Len(video_chan) < VideoCap
           /\ awaiting_keyframe => f.key
  <2> DEFINE c == video_chan
             d == Append(c, f)
  <2>1. /\ d \in Seq(VideoFrames) /\ d # <<>> /\ Len(d) = Len(c) + 1 /\ d[Len(c) + 1] = f
        /\ \A i \in 1..Len(c) : d[i] = c[i]
    <3>1. c \in Seq(VideoFrames) /\ f \in VideoFrames
      BY <1>1, <1>2
    <3> HIDE DEF c
    <3> QED BY <3>1, AppendIs
  <2>2. f.key \/ f.id = (IF c = <<>> THEN drained ELSE c[Len(c)].id) + 1
    <3>1. c # <<>> /\ ~ awaiting_keyframe => c[Len(c)].id = emitted.video
      BY <1>4 DEF RecordIInv, ChannelIsNewest
    <3>2. c = <<>> /\ drained > 0 /\ ~ awaiting_keyframe => drained = emitted.video
      BY <1>4 DEF RecordIInv, ChannelIsNewest
    <3>3. drained = 0 \/ drained > 0
      BY <1>1
    <3>4. CASE c = <<>>
      BY <1>2, <1>4, <1>7, <3>2, <3>3, <3>4
    <3>5. CASE c # <<>>
      BY <1>2, <1>7, <3>1, <3>5
    <3> QED BY <3>4, <3>5
  <2>3. Len(c) \in Nat /\ (c = <<>> <=> Len(c) = 0)
    BY <1>1
  <2>4. Links(c, drained) /\ (drained = 0 /\ c # <<>> => c[1].key)
    BY DEF RecordIInv, ChannelLinks
  <2>5. drained = 0 /\ c = <<>> => f.key
    BY <1>4, <1>7
  <2> HIDE DEF c, d
  <2>6. Links(d, drained)
    <3>1. ASSUME NEW i \in 1..Len(d)
          PROVE  d[i].key \/ d[i].id = (IF i = 1 THEN drained ELSE d[i - 1].id) + 1
      <4>1. CASE i \in 1..Len(c)
        <5>1. c[i].key \/ c[i].id = (IF i = 1 THEN drained ELSE c[i - 1].id) + 1
          BY <2>4, <4>1 DEF Links
        <5>2. i # 1 => i - 1 \in 1..Len(c)
          BY <2>3, <4>1
        <5> QED BY <2>1, <4>1, <5>1, <5>2
      <4>2. CASE i = Len(c) + 1
        <5>1. d[i] = f
          BY <2>1, <4>2
        <5>2. CASE c = <<>>
          BY <2>2, <2>3, <4>2, <5>1, <5>2
        <5>3. CASE c # <<>>
          <6>1. i # 1 /\ i - 1 = Len(c) /\ Len(c) \in 1..Len(c)
            BY <2>3, <4>2, <5>3
          <6>2. d[i - 1] = c[Len(c)]
            BY <2>1, <6>1
          <6> QED BY <2>2, <5>1, <5>3, <6>1, <6>2
        <5> QED BY <5>2, <5>3
      <4> QED BY <2>1, <2>3, <4>1, <4>2
    <3> QED BY <3>1 DEF Links
  <2>7. drained = 0 => d[1].key
    <3>1. CASE c = <<>>
      BY <2>1, <2>3, <2>5, <3>1
    <3>2. CASE c # <<>>
      <4>1. 1 \in 1..Len(c)
        BY <2>3, <3>2
      <4> QED BY <2>1, <2>4, <3>2, <4>1
    <3> QED BY <3>1, <3>2
  <2>8. video_chan' = d /\ Len(d) <= VideoCap
    <3>1. VideoCap \in Nat /\ Len(c) < VideoCap
      BY <1>7, RecordPathAssumption DEF c
    <3> QED BY <1>7, <2>1, <2>3, <3>1 DEF c, d
  <2>9. RecordTypes' /\ ChannelLinks'
    BY <1>4, <1>5, <2>1, <2>6, <2>7, <2>8 DEF RecordIInv, RecordTypes, ChannelLinks
  <2>10. ChannelIsNewest'
    <3>1. d[Len(d)] = f
      BY <2>1
    <3> QED BY <1>5, <2>1, <2>8, <3>1 DEF ChannelIsNewest
  <2>11. RecorderFollows' /\ Decodable(recorder.video)'
    BY <1>1, <1>4 DEF RecordIInv, RecorderFollows, EndsWith
  <2> QED BY <1>4, <2>9, <2>10, <2>11 DEF RecordIInv
<1>8. \/ UNCHANGED video_chan /\ awaiting_keyframe'
      \/ /\ video_chan' = Append(video_chan, f) /\ Len(video_chan) < VideoCap
         /\ awaiting_keyframe => f.key
  <2>1. CASE awaiting_keyframe /\ ~ f.key
    BY <1>3, <2>1 DEF ForwardVideo
  <2>2. CASE ~ (awaiting_keyframe /\ ~ f.key)
    <3>1. /\ awaiting_keyframe' = (Len(video_chan) = VideoCap)
          /\ video_chan' = IF Len(video_chan) < VideoCap
                           THEN Append(video_chan, f) ELSE video_chan
      BY <1>3, <2>2 DEF ForwardVideo
    <3>2. Len(video_chan) \in Nat /\ VideoCap \in Nat /\ Len(video_chan) <= VideoCap
      BY <1>1, RecordPathAssumption DEF RecordIInv, RecordTypes
    <3>3. CASE Len(video_chan) < VideoCap
      BY <2>2, <3>1, <3>3
    <3>4. CASE Len(video_chan) = VideoCap
      <4>1. awaiting_keyframe'
        BY <3>1, <3>4, Zenon
      <4>2. UNCHANGED video_chan
        BY <3>1, <3>2, <3>4
      <4> QED BY <4>1, <4>2
    <3> QED BY <3>2, <3>3, <3>4
  <2> QED BY <2>1, <2>2
<1> QED BY <1>6, <1>7, <1>8

LEMMA ForwardAudioStep ==
  ASSUME RecordIInv, NEW ts \in AudioTimes,
         ForwardAudio([id |-> emitted.audio + 1, ts |-> ts])
  PROVE  RecordIInv'
<1> DEFINE a == [id |-> emitted.audio + 1, ts |-> ts]
<1>1. audio_chan \in Seq(AudioFrames) /\ emitted \in [video : Nat, audio : Nat]
  BY DEF RecordIInv, RecordTypes
<1>2. a \in AudioFrames /\ a.id \in Nat
  <2>1. ts \in Nat
    BY RecordPathAssumption
  <2> QED BY <1>1, <2>1 DEF AudioFrames
<1>3. ForwardAudio(a)
  OBVIOUS
<1> HIDE DEF a
<1>4. /\ emitted' = [emitted EXCEPT !.audio = a.id]
      /\ audio_chan' = IF Len(audio_chan) < AudioCap THEN Append(audio_chan, a)
                       ELSE audio_chan
      /\ UNCHANGED <<capturing, awaiting_keyframe, video_chan, drained, audio_ring,
                     status, recorder, trailer>>
  BY <1>3 DEF ForwardAudio, take
<1>5. emitted' \in [video : Nat, audio : Nat] /\ emitted'.video = emitted.video
  BY <1>1, <1>2, <1>4
<1>6. audio_chan' \in Seq(AudioFrames)
  BY <1>1, <1>2, <1>4
<1>7. RecordTypes'
  BY <1>4, <1>5, <1>6 DEF RecordIInv, RecordTypes
<1>8. ChannelLinks' /\ ChannelIsNewest' /\ RecorderFollows' /\ Decodable(recorder.video)'
  BY <1>4, <1>5 DEF RecordIInv, ChannelLinks, ChannelIsNewest, RecorderFollows, EndsWith,
                    Links, Decodable
<1> QED BY <1>4, <1>7, <1>8 DEF RecordIInv

LEMMA IntoRingIs ==
  ASSUME NEW ring \in Seq(AudioFrames), NEW packets \in Seq(AudioFrames)
  PROVE  IntoRing(ring, packets) \in Seq(AudioFrames)
<1> DEFINE q == ring \o packets
           I == {i \in 1..Len(q) : q[i].ts >= Last(packets).ts - AudioWindow}
           first == IF I # {} THEN Min(I) ELSE 0
           rest == IF first = 0 THEN <<>> ELSE SubSeq(q, first, Len(q))
<1>1. rest \in Seq(AudioFrames)
  <2>1. q \in Seq(AudioFrames)
    OBVIOUS
  <2>2. I \in SUBSET (1..Len(q))
    OBVIOUS
  <2> HIDE DEF I, q
  <2> QED BY <2>1, <2>2, RestOf
<1>2. IntoRing(ring, packets) = IF packets = <<>> THEN ring ELSE rest
  BY Zenon DEF IntoRing, From, SelectInSeq
<1> HIDE DEF rest
<1> QED BY <1>1, <1>2

LEMMA DrainAudioStep == RecordIInv /\ DrainAudio => RecordIInv'
<1> SUFFICES ASSUME RecordIInv, DrainAudio PROVE RecordIInv'
  OBVIOUS
<1>1. /\ audio_chan' = <<>> /\ audio_ring' = IntoRing(audio_ring, audio_chan)
      /\ UNCHANGED <<capturing, emitted, awaiting_keyframe, drained, video_chan>>
  BY DEF DrainAudio, session
<1>2. /\ recorder' \in Recordings /\ Decodable(recorder'.video)
      /\ status' = "open" => status = "open" /\ SamePicture(recorder, recorder')
      /\ status' = "finished" => UNCHANGED <<status, recorder, trailer>>
  BY AudioFed DEF DrainAudio
<1>3. audio_ring' \in Seq(AudioFrames)
  BY <1>1, IntoRingIs DEF RecordIInv, RecordTypes
<1>4. RecordTypes'
  BY <1>1, <1>2, <1>3 DEF RecordIInv, RecordTypes
<1>5. ChannelLinks' /\ ChannelIsNewest'
  BY <1>1 DEF RecordIInv, ChannelLinks, ChannelIsNewest, Links
<1>6. RecorderFollows'
  BY <1>1, <1>2 DEF RecordIInv, RecorderFollows, EndsWith, SamePicture
<1> QED BY <1>1, <1>2, <1>4, <1>5, <1>6 DEF RecordIInv

LEMMA DrainVideoStep == RecordIInv /\ DrainVideo => RecordIInv'
<1> SUFFICES ASSUME RecordIInv, DrainVideo PROVE RecordIInv'
  OBVIOUS
<1>1. /\ video_chan' = <<>>
      /\ drained' = IF video_chan = <<>> THEN drained ELSE video_chan[Len(video_chan)].id
      /\ UNCHANGED <<capturing, emitted, awaiting_keyframe, audio_chan, audio_ring>>
  BY DEF DrainVideo, Last
<1>2. /\ recorder' \in Recordings /\ Decodable(recorder'.video)
      /\ status' = "open" =>
            /\ status = "open"
            /\ IF video_chan = <<>> THEN recorder' = recorder
               ELSE EndsWith(recorder', video_chan[Len(video_chan)].id)
      /\ status' = "finished" => UNCHANGED <<status, recorder, trailer>>
  BY VideoFed DEF DrainVideo
<1>3. drained' \in Nat
  <2>1. video_chan \in Seq(VideoFrames) /\ drained \in Nat
    BY DEF RecordIInv, RecordTypes
  <2>2. video_chan # <<>> => video_chan[Len(video_chan)] \in VideoFrames
    BY <2>1
  <2> QED BY <1>1, <2>1, <2>2 DEF VideoFrames
<1>4. RecordTypes'
  BY <1>1, <1>2, <1>3, RecordPathAssumption DEF RecordIInv, RecordTypes
<1>5. ChannelLinks'
  BY <1>1 DEF ChannelLinks, Links
<1>6. ChannelIsNewest'
  BY <1>1 DEF RecordIInv, ChannelIsNewest
<1>7. RecorderFollows'
  BY <1>1, <1>2 DEF RecordIInv, RecorderFollows, EndsWith
<1> QED BY <1>1, <1>2, <1>4, <1>5, <1>6, <1>7 DEF RecordIInv

LEMMA StartRecordingStep == RecordIInv /\ StartRecording => RecordIInv'
<1> SUFFICES ASSUME RecordIInv, StartRecording PROVE RecordIInv'
  OBVIOUS
<1> DEFINE I == {i \in 1..Len(audio_ring) :
                   audio_ring[i].ts >= Last(audio_ring).ts - AudioPreroll}
           first == IF I # {} THEN Min(I) ELSE 0
           seed == IF first = 0 THEN <<>> ELSE SubSeq(audio_ring, first, Len(audio_ring))
<1>1. /\ recorder' = Pushed("audio", Started, seed)
      /\ status' = "open"
      /\ UNCHANGED <<capturing, emitted, awaiting_keyframe, drained, video_chan,
                     audio_chan, audio_ring>>
  BY Zenon DEF StartRecording, session, From, SelectInSeq
<1>2. seed \in Seq(AudioFrames)
  <2>1. audio_ring \in Seq(AudioFrames)
    BY DEF RecordIInv, RecordTypes
  <2>2. I \in SUBSET (1..Len(audio_ring))
    OBVIOUS
  <2> HIDE DEF I
  <2> QED BY <2>1, <2>2, RestOf
<1>3. Started \in Recordings /\ Started.video = <<>> /\ ~ Started.started
  <2>1. <<>> \in Tracks
    BY DEF Tracks, Increasing
  <2>2. Started \in RecordFields /\ Started.video = <<>> /\ ~ Started.started
    BY <2>1 DEF Started, RecordFields
  <2> QED BY <2>2 DEF Recordings, Increasing
<1> HIDE DEF seed
<1>4. recorder' \in Recordings /\ SamePicture(Started, recorder')
  BY <1>1, <1>2, <1>3, PushedAudioIs
<1>5. recorder'.video = <<>> /\ ~ recorder'.started
  BY <1>3, <1>4 DEF SamePicture
<1>6. RecordTypes'
  BY <1>1, <1>4 DEF RecordIInv, RecordTypes
<1>7. Decodable(recorder.video)' /\ RecorderFollows'
  BY <1>5 DEF Decodable, RecorderFollows, EndsWith
<1>8. ChannelLinks' /\ ChannelIsNewest'
  BY <1>1 DEF RecordIInv, ChannelLinks, ChannelIsNewest, Links
<1> QED BY <1>1, <1>6, <1>7, <1>8 DEF RecordIInv

LEMMA StopRecordingStep == RecordIInv /\ StopRecording => RecordIInv'
<1> SUFFICES ASSUME RecordIInv, StopRecording PROVE RecordIInv'
  OBVIOUS
<1>1. /\ recorder' = Finish(recorder) /\ status' = "finished"
      /\ trailer' = recorder.started
      /\ UNCHANGED <<capturing, emitted, awaiting_keyframe, drained, video_chan,
                     audio_chan, audio_ring>>
  BY DEF StopRecording, session
<1>2. recorder' \in Recordings /\ SamePicture(recorder, recorder')
  <2>1. recorder \in Recordings
    BY DEF RecordIInv, RecordTypes
  <2> QED BY <1>1, <2>1, FinishIs
<1>3. RecordTypes'
  BY <1>1, <1>2 DEF RecordIInv, RecordTypes
<1>4. Decodable(recorder.video)' /\ RecorderFollows'
  BY <1>1, <1>2 DEF RecordIInv, RecorderFollows, SamePicture
<1>5. ChannelLinks' /\ ChannelIsNewest'
  BY <1>1 DEF RecordIInv, ChannelLinks, ChannelIsNewest, Links
<1>6. recorder'.started = recorder.started
  BY <1>2 DEF SamePicture
<1> QED BY <1>1, <1>3, <1>4, <1>5, <1>6 DEF RecordIInv

LEMMA SessionSteps == RecordIInv /\ (StopCapture \/ StartCapture) => RecordIInv'
<1> SUFFICES ASSUME RecordIInv, StopCapture \/ StartCapture PROVE RecordIInv'
  OBVIOUS
<1>1. /\ video_chan' = <<>> /\ audio_chan' \in Seq(AudioFrames)
      /\ drained' \in {0, drained}
      /\ UNCHANGED <<emitted, audio_ring, status, recorder, trailer>>
      /\ capturing' => drained' = 0
  <2>1. CASE StopCapture
    <3>1. <<>> \in Seq(AudioFrames)
      OBVIOUS
    <3> QED BY <2>1, <3>1 DEF StopCapture, take
  <2>2. CASE StartCapture
    <3>1. video_chan = <<>> /\ audio_chan \in Seq(AudioFrames)
      BY <2>2 DEF StartCapture, RecordIInv, RecordTypes
    <3> QED BY <2>2, <3>1 DEF StartCapture, take
  <2> QED BY <2>1, <2>2
<1>2. RecordTypes'
  BY <1>1, RecordPathAssumption DEF RecordIInv, RecordTypes
<1>3. Decodable(recorder.video)'
  BY <1>1 DEF RecordIInv, Decodable
<1>4. RecorderFollows'
  <2>1. RecorderFollows
    BY DEF RecordIInv
  <2>2. CASE drained' = 0
    BY <2>2 DEF RecorderFollows
  <2>3. CASE drained' = drained
    BY <1>1, <2>1, <2>3 DEF RecorderFollows, EndsWith
  <2> QED BY <1>1, <2>2, <2>3
<1>5. ChannelLinks'
  BY <1>1 DEF ChannelLinks, Links
<1>6. ChannelIsNewest'
  BY <1>1 DEF ChannelIsNewest
<1> QED BY <1>1, <1>2, <1>3, <1>4, <1>5, <1>6 DEF RecordIInv

LEMMA RecordStep == RecordIInv /\ [RecordNext]_recordVars => RecordIInv'
<1> SUFFICES ASSUME RecordIInv, [RecordNext]_recordVars PROVE RecordIInv'
  OBVIOUS
<1>1. ASSUME NEW dts \in VideoTimes, NEW lead \in PtsLeads, NEW key \in BOOLEAN,
             ForwardVideo([id |-> emitted.video + 1, key |-> key,
                           dts |-> dts, pts |-> dts + lead])
      PROVE  RecordIInv'
  BY <1>1, ForwardVideoStep
<1>2. ASSUME NEW ts \in AudioTimes, ForwardAudio([id |-> emitted.audio + 1, ts |-> ts])
      PROVE  RecordIInv'
  BY <1>2, ForwardAudioStep
<1>3. CASE UNCHANGED recordVars
  <2>1. UNCHANGED <<capturing, emitted, awaiting_keyframe, video_chan, audio_chan,
                    drained, audio_ring, status, recorder, trailer>>
    BY <1>3 DEF recordVars
  <2>2. RecordTypes' /\ ChannelLinks' /\ ChannelIsNewest'
    BY <2>1 DEF RecordIInv, RecordTypes, ChannelLinks, ChannelIsNewest, Links
  <2>3. RecorderFollows' /\ Decodable(recorder.video)'
    BY <2>1 DEF RecordIInv, RecordTypes, RecorderFollows, EndsWith, Decodable
  <2> QED BY <2>1, <2>2, <2>3 DEF RecordIInv
<1> QED
  BY <1>1, <1>2, <1>3, DrainAudioStep, DrainVideoStep, StartRecordingStep,
     StopRecordingStep, SessionSteps DEF RecordNext

LEMMA RecordInvariance == RecordSpec => []RecordIInv
BY RecordInitially, RecordStep, PTL DEF RecordSpec

(***************************************************************************)
(* Every file the recorder writes can be played from its first packet to   *)
(* its last, whatever the channel drops, whenever a recording starts,      *)
(* capture is restarted or a write fails; and a finished one has its       *)
(* trailer.                                                                *)
(***************************************************************************)
THEOREM RecordingsPlay == RecordSpec => []FilePlays
<1>1. ASSUME RecordIInv PROVE FilePlays
  <2>1. /\ recorder \in Recordings /\ recorder \in RecordFields
        /\ video_chan \in Seq(VideoFrames)
    BY <1>1 DEF RecordIInv, RecordTypes, Recordings
  <2>2. NoHeadlessGop
    <3>1. Links(video_chan, drained)
      BY <1>1 DEF RecordIInv, ChannelLinks
    <3>2. drained > 0 /\ video_chan # <<>> /\ ~ video_chan[1].key =>
              video_chan[1].id = drained + 1
      BY <2>1, <3>1 DEF Links
    <3>3. \A i \in 2..Len(video_chan) :
              video_chan[i].key \/ video_chan[i].id = video_chan[i - 1].id + 1
      BY <2>1, <3>1 DEF Links
    <3> QED BY <1>1, <3>2, <3>3 DEF RecordIInv, NoHeadlessGop
  <2>3. TimestampsAdvance
    <3>1. Increasing(recorder.audio)
      BY <2>1 DEF RecordFields, Tracks
    <3>2. \A p \in ToSet(recorder.video) : p.pts >= p.dts
      <4>1. recorder.video \in Seq(VideoFrames)
        BY <2>1 DEF RecordFields
      <4>2. \A i \in 1..Len(recorder.video) : recorder.video[i].pts >= recorder.video[i].dts
        BY <2>1 DEF Recordings
      <4> QED BY <4>1, <4>2 DEF ToSet
    <3> QED BY <2>1, <3>1, <3>2 DEF TimestampsAdvance, Recordings
  <2> QED BY <1>1, <2>2, <2>3 DEF RecordIInv, FilePlays
<1> QED BY <1>1, RecordInvariance, PTL

-----------------------------------------------------------------------------
(* The sound of a recording.  It is given frames of `all` one by one, and  *)
(* has had the first n of them.                                            *)

\* Captured one after the other, a packet's time apart.
Spaced(all) ==
    \A i, j \in 1..Len(all) :
        i < j => all[i].id < all[j].id /\ all[i].ts + AudioSpacing <= all[j].ts

\* How many of them are no longer held.
Past(held, n) == n - Len(held)

\* What is held is the end of what was given.
EndOf(held, all, n) ==
    /\ Len(held) <= n
    /\ \A i \in 1..Len(held) : held[i] = all[Past(held, n) + i]

\* A packet of the track is a frame's, at its own time and within the picture.
Stands(p, a, base, last) ==
    p.id = a.id /\ p.dts = AudioMs(a, base) /\ p.dts \in 0..last

\* The track is of the first k frames.
Written(track, all, k, base, last) ==
    /\ \A j \in 1..Len(track) : \E i \in 1..k : Stands(track[j], all[i], base, last)
    /\ \A i, j \in 1..Len(track) : i < j => track[i].id < track[j].id

\* What is written was before what is held.
Placed(r, all, n) ==
    /\ EndOf(r.pending_audio, all, n)
    /\ Written(r.audio, all, Past(r.pending_audio, n), r.base, r.last_video_ms)
    /\ ~ r.started => r.audio = <<>>

\* What is held is not too long.
Brief(held) ==
    held # <<>> => held[Len(held)].ts - held[1].ts <= AudioPreroll

IsWritten(a, track) == \E j \in 1..Len(track) : track[j].id = a.id

IsLate(a, all) == \E j \in 1..Len(all) : all[j].ts - a.ts > AudioPreroll

\* There is a reason why a frame is no longer held.
Settled(r, a, all) ==
    \/ r.started /\ AudioMs(a, r.base) < 0
    \/ IsWritten(a, r.audio)
    \/ IsLate(a, all)

AllSettled(r, all, n) ==
    \A i \in 1..Past(r.pending_audio, n) : Settled(r, all[i], all)

\* What is held is for pictures to come.
Ahead(r) ==
    r.started => \A i \in 1..Len(r.pending_audio) :
                     AudioMs(r.pending_audio[i], r.base) > r.last_video_ms

Keeps(r, all, n) ==
    Placed(r, all, n) /\ AllSettled(r, all, n) /\ Ahead(r) /\ Brief(r.pending_audio)

\* Nothing written is outside the picture.
Within(r) == \A j \in 1..Len(r.audio) : r.audio[j].dts \in 0..r.last_video_ms

\* Nothing that belongs to the picture is missing.
Complete(r, all) ==
    r.started =>
        /\ \A i, j \in 1..Len(r.audio) : i < j => r.audio[i].id < r.audio[j].id
        /\ \A i \in 1..Len(all) :
              AudioMs(all[i], r.base) \in 0..r.last_video_ms =>
                  IsWritten(all[i], r.audio) \/ IsLate(all[i], all)

\* Frames in the order of capture, of the first `many` there were by then.
Flows(frames, many, now) ==
    /\ frames \in Seq(AudioFrames) /\ Spaced(frames)
    /\ \A i \in 1..Len(frames) : frames[i].id \in 1..many /\ frames[i].ts <= now

\* Frames go from the channel into ring and recording in that order.
AudioFlows ==
    /\ newest \in [video : Nat, audio : Nat]
    /\ offered \in [video : Seq(VideoFrames), audio : Seq(AudioFrames)]
    /\ Flows(audio_ring \o audio_chan, emitted.audio, newest.audio)
    /\ status = "open" => Flows(offered.audio \o audio_chan, emitted.audio, newest.audio)

SoundIInv ==
    /\ RecordIInv /\ AudioFlows
    /\ status = "open" => Keeps(recorder, offered.audio, Len(offered.audio))
    /\ status # "open" => recorder.pending_audio = <<>> /\ Within(recorder)
    /\ status = "finished" => Complete(recorder, offered.audio)
-----------------------------------------------------------------------------
(* What is written of what is due.                                         *)

LEMMA MsAdvances ==
  ASSUME NEW base \in Nat, NEW a \in AudioFrames, NEW b \in AudioFrames
  PROVE  /\ AudioMs(a, base) \in Int
         /\ a.ts <= b.ts => AudioMs(a, base) <= AudioMs(b, base)
         /\ a.ts + AudioSpacing <= b.ts /\ AudioMs(a, base) >= 0 =>
                AudioMs(a, base) < AudioMs(b, base)
<1> DEFINE zero == TicksToMicros(base)
           x == a.ts - zero
           y == b.ts - zero
<1>1. zero \in Int
  <2>1. base * 1000000 \in Int /\ Den \in Nat \ {0}
    BY DenAssumption
  <2> QED BY <2>1 DEF TicksToMicros, Truncated
<1>2. a.ts \in Int /\ b.ts \in Int
  BY DEF AudioFrames
<1> HIDE DEF zero
<1>3. x \in Int /\ y \in Int
  BY <1>1, <1>2
<1>4. (a.ts <= b.ts => x <= y) /\ (a.ts + AudioSpacing <= b.ts => x + 2000 <= y)
  BY <1>1, <1>2 DEF AudioSpacing
<1>5. AudioMs(a, base) = Truncated(x, 1000) /\ AudioMs(b, base) = Truncated(y, 1000)
  BY DEF AudioMs, zero
<1> HIDE DEF x, y
<1>6. /\ Truncated(x, 1000) \in Int
      /\ x <= y => Truncated(x, 1000) <= Truncated(y, 1000)
      /\ x + 2000 <= y /\ Truncated(x, 1000) >= 0 =>
             Truncated(x, 1000) < Truncated(y, 1000)
  <2>1. Truncated(x, 1000) = IF x >= 0 THEN x \div 1000 ELSE -((-x) \div 1000)
    BY DEF Truncated
  <2>2. Truncated(y, 1000) = IF y >= 0 THEN y \div 1000 ELSE -((-y) \div 1000)
    BY DEF Truncated
  <2> QED BY <1>3, <2>1, <2>2
<1> QED BY <1>4, <1>5, <1>6

\* The rest of a track has room for more frames, a later picture.
LEMMA WrittenOn ==
  ASSUME NEW track, NEW all, NEW k \in Nat, NEW m \in Nat, k <= m, NEW base,
         NEW last \in Nat, NEW new \in Nat, last <= new, Written(track, all, k, base, last)
  PROVE  Written(track, all, m, base, new)
<1>1. ASSUME NEW j \in 1..Len(track)
      PROVE  \E i \in 1..m : Stands(track[j], all[i], base, new)
  <2>1. PICK i \in 1..k : Stands(track[j], all[i], base, last)
    BY DEF Written
  <2>2. i \in 1..m
    OBVIOUS
  <2>3. track[j].dts \in 0..new
    BY <2>1 DEF Stands
  <2> QED BY <2>1, <2>2, <2>3 DEF Stands
<1> QED BY <1>1 DEF Written

(***************************************************************************)
(* The next frame goes behind what is written, at its own time.            *)
(***************************************************************************)
LEMMA WriteNext ==
  ASSUME NEW all \in Seq(AudioFrames), Spaced(all), NEW k \in 1..Len(all),
         NEW track \in Tracks, NEW base \in Nat, NEW last \in Nat,
         Written(track, all, k - 1, base, last), AudioMs(all[k], base) \in 0..last
  PROVE  LET more == WriteAudio(track, all[k], base)
         IN  /\ Written(more, all, k, base, last)
             /\ Len(more) = Len(track) + 1
             /\ \A j \in 1..Len(track) : more[j] = track[j]
             /\ more[Len(track) + 1].id = all[k].id
<1> DEFINE t == AudioMs(all[k], base)
           p == [id |-> all[k].id, dts |-> t]
           more == Append(track, p)
           len == Len(track)
<1>1. track \in Seq(AudioPackets) /\ len \in Nat
  BY DEF Tracks
<1>2. all[k] \in AudioFrames
  OBVIOUS
<1>3. ASSUME NEW j \in 1..len
      PROVE  track[j].id < all[k].id /\ track[j].dts < t
  <2>1. PICK i \in 1..(k - 1) : Stands(track[j], all[i], base, last)
    BY DEF Written
  <2>2. i \in 1..Len(all) /\ i < k
    OBVIOUS
  <2>3. all[i].id < all[k].id /\ all[i].ts + AudioSpacing <= all[k].ts
    BY <2>2 DEF Spaced
  <2>4. all[i] \in AudioFrames
    BY <2>2
  <2>5. AudioMs(all[i], base) >= 0
    BY <2>1 DEF Stands
  <2>6. AudioMs(all[i], base) < t
    BY <1>2, <2>3, <2>4, <2>5, MsAdvances
  <2> HIDE DEF t
  <2> QED BY <2>1, <2>3, <2>6 DEF Stands
<1>4. Monotonic(track, t) = t
  <2>1. t \in 0..last
    OBVIOUS
  <2> HIDE DEF t
  <2>2. CASE track = <<>>
    BY <2>1, <2>2 DEF Monotonic, NoMs
  <2>3. CASE track # <<>>
    <3>1. len \in 1..len
      BY <1>1, <2>3
    <3>2. track[len].dts < t /\ track[len] \in AudioPackets
      BY <1>1, <1>3, <3>1
    <3>3. track[len].dts \in Int
      BY <3>2 DEF AudioPackets
    <3>4. Monotonic(track, t) = IF t <= track[len].dts THEN track[len].dts + 1 ELSE t
      BY <2>3 DEF Monotonic, Last
    <3> QED BY <2>1, <3>2, <3>3, <3>4
  <2> QED BY <2>2, <2>3
<1>5. WriteAudio(track, all[k], base) = more
  BY <1>4 DEF WriteAudio
<1>6. /\ Len(more) = len + 1
      /\ \A j \in 1..len : more[j] = track[j]
      /\ more[len + 1] = p
  BY <1>1
<1>7. Stands(p, all[k], base, last) /\ p.id = all[k].id
  BY DEF Stands
<1> HIDE DEF more, p
<1>8. Written(more, all, k, base, last)
  <2>1. ASSUME NEW j \in 1..Len(more)
        PROVE  \E i \in 1..k : Stands(more[j], all[i], base, last)
    <3>1. CASE j \in 1..len
      <4>1. PICK i \in 1..(k - 1) : Stands(track[j], all[i], base, last)
        BY <3>1 DEF Written
      <4>2. i \in 1..k
        OBVIOUS
      <4> QED BY <1>6, <3>1, <4>1, <4>2
    <3>2. CASE j = len + 1
      <4>1. k \in 1..k
        OBVIOUS
      <4> QED BY <1>6, <1>7, <3>2, <4>1
    <3> HIDE DEF len
    <3> QED BY <1>1, <1>6, <3>1, <3>2
  <2>2. ASSUME NEW i \in 1..Len(more), NEW j \in 1..Len(more), i < j
        PROVE  more[i].id < more[j].id
    <3>1. CASE j \in 1..len
      <4>1. i \in 1..len
        BY <1>1, <2>2, <3>1
      <4>2. track[i].id < track[j].id
        BY <2>2, <3>1, <4>1 DEF Written
      <4> QED BY <1>6, <3>1, <4>1, <4>2
    <3>2. CASE j = len + 1
      <4>1. i \in 1..len
        BY <1>1, <1>6, <2>2, <3>2
      <4> QED BY <1>3, <1>6, <1>7, <3>2, <4>1
    <3> HIDE DEF len
    <3> QED BY <1>1, <1>6, <3>1, <3>2
  <2> QED BY <2>1, <2>2 DEF Written
<1> QED BY <1>5, <1>6, <1>7, <1>8

\* A track only grows.
Grows(track, more) ==
    Len(track) <= Len(more) /\ \A j \in 1..Len(track) : more[j] = track[j]

LEMMA StaysWritten ==
  ASSUME NEW track \in Tracks, NEW more \in Tracks, Grows(track, more), NEW a, IsWritten(a, track)
  PROVE  IsWritten(a, more)
<1>1. PICK j \in 1..Len(track) : track[j].id = a.id
  BY DEF IsWritten
<1>2. j \in 1..Len(more) /\ more[j] = track[j]
  BY DEF Grows, Tracks
<1> QED BY <1>1, <1>2 DEF IsWritten

(***************************************************************************)
(* What is due is written, but for what is older than the recording.       *)
(***************************************************************************)
LEMMA DueWritten ==
  ASSUME NEW all \in Seq(AudioFrames), Spaced(all), NEW k \in Nat,
         NEW track \in Tracks, NEW base \in Nat, NEW last \in Nat,
         Written(track, all, k, base, last),
         NEW due \in Seq(AudioFrames), k + Len(due) <= Len(all),
         \A i \in 1..Len(due) : due[i] = all[k + i] /\ AudioMs(due[i], base) <= last
  PROVE  LET more == WriteDue(track, due, base)
         IN  /\ more \in Tracks /\ Grows(track, more)
             /\ Written(more, all, k + Len(due), base, last)
             /\ \A i \in 1..Len(due) : AudioMs(due[i], base) < 0 \/ IsWritten(due[i], more)
<1> DEFINE n == Len(due)
           Handled(i, more) == AudioMs(due[i], base) < 0 \/ IsWritten(due[i], more)
<1>1. PICK f \in [0..n -> Tracks] : Writes(f, track, due, base)
  BY WriteDueBy
<1>2. /\ f[0] = track
      /\ \A i \in 1..n : f[i] = IF AudioMs(due[i], base) < 0 THEN f[i - 1]
                                ELSE WriteAudio(f[i - 1], due[i], base)
      /\ WriteDue(track, due, base) = f[n]
  BY <1>1 DEF Writes
<1> DEFINE Right(i) == /\ Written(f[i], all, k + i, base, last)
                       /\ Grows(track, f[i])
                       /\ \A h \in 1..i : Handled(h, f[i])
           T == {i \in 0..n : Right(i)}
<1>3. 0 \in T
  <2>1. Grows(track, track)
    BY DEF Grows, Tracks
  <2>2. k + 0 = k
    OBVIOUS
  <2> QED BY <1>2, <2>1, <2>2
<1>4. ASSUME NEW i \in 1..n, i - 1 \in T PROVE i \in T
  <2> DEFINE q == f[i - 1]
             m == k + i
  <2>1. Right(i - 1) /\ i - 1 \in 0..n /\ q \in Tracks /\ f[i] \in Tracks
    <3>1. Right(i - 1)
      <4> HIDE DEF Right
      <4> QED BY <1>4
    <3>2. i - 1 \in 0..n /\ i \in 0..n
      OBVIOUS
    <3> HIDE DEF Right
    <3> QED BY <3>1, <3>2
  <2>2. m \in 1..Len(all) /\ m - 1 = k + (i - 1) /\ m - 1 \in Nat
    OBVIOUS
  <2>3. due[i] = all[m] /\ AudioMs(due[i], base) <= last /\ due[i] \in AudioFrames
    OBVIOUS
  <2>4. Written(q, all, m - 1, base, last) /\ Grows(track, q)
    BY <2>1, <2>2
  <2> HIDE DEF m
  <2>5. AudioMs(due[i], base) \in Int
    BY <2>3, MsAdvances
  <2>6. Written(f[i], all, m, base, last) /\ Grows(q, f[i]) /\ Handled(i, f[i])
    <3>1. CASE AudioMs(due[i], base) < 0
      <4>1. f[i] = q
        BY <1>2, <3>1
      <4>2. Written(q, all, m, base, last)
        BY <2>2, <2>4, WrittenOn
      <4>3. Grows(q, q)
        BY <2>1 DEF Grows, Tracks
      <4> QED BY <3>1, <4>1, <4>2, <4>3
    <3>2. CASE ~ (AudioMs(due[i], base) < 0)
      <4> DEFINE more == WriteAudio(q, all[m], base)
      <4>1. f[i] = more
        BY <1>2, <2>3, <3>2
      <4>2. AudioMs(all[m], base) \in 0..last
        BY <2>3, <2>5, <3>2
      <4>3. /\ Written(more, all, m, base, last)
            /\ Len(more) = Len(q) + 1
            /\ \A j \in 1..Len(q) : more[j] = q[j]
            /\ more[Len(q) + 1].id = all[m].id
        BY <2>1, <2>2, <2>4, <4>2, WriteNext
      <4>4. Len(q) \in Nat
        BY <2>1 DEF Tracks
      <4> HIDE DEF more, q
      <4>5. Grows(q, more)
        BY <4>3, <4>4 DEF Grows
      <4>6. IsWritten(due[i], more)
        <5>1. Len(q) + 1 \in 1..Len(more)
          BY <4>3, <4>4
        <5> QED BY <2>3, <4>3, <5>1 DEF IsWritten
      <4> QED BY <4>1, <4>3, <4>5, <4>6
    <3> QED BY <3>1, <3>2
  <2>7. Grows(track, f[i])
    <3>1. Len(track) \in Nat /\ Len(q) \in Nat /\ Len(f[i]) \in Nat
      BY <2>1 DEF Tracks
    <3> HIDE DEF q
    <3> QED BY <2>4, <2>6, <3>1 DEF Grows
  <2>8. ASSUME NEW h \in 1..i PROVE Handled(h, f[i])
    <3>1. CASE h = i
      BY <2>6, <3>1
    <3>2. CASE h # i
      <4>1. h \in 1..(i - 1)
        BY <3>2
      <4>2. Handled(h, q)
        BY <2>1, <4>1
      <4> HIDE DEF q
      <4> QED BY <2>1, <2>6, <4>2, StaysWritten
    <3> QED BY <3>1, <3>2
  <2>9. Right(i)
    BY <2>6, <2>7, <2>8 DEF m
  <2> QED BY <2>9
<1>5. n \in Nat /\ n \in 0..n
  OBVIOUS
<1>6. n \in T
  <2> HIDE DEF T, n
  <2> QED BY <1>3, <1>4, <1>5, Climb
<1>7. Right(n) /\ f[n] \in Tracks
  BY <1>5, <1>6
<1> QED BY <1>2, <1>7

-----------------------------------------------------------------------------
(* The recorder and the sound.                                             *)

\* The frames themselves, and how many of them were given.
Takes(all, n) == all \in Seq(AudioFrames) /\ Spaced(all) /\ n \in 0..Len(all)

\* The end of what is held is held in its place.
LEMMA EndOfEnd ==
  ASSUME NEW all, NEW n \in Nat, NEW held \in Seq(AudioFrames), EndOf(held, all, n),
         NEW rest \in Seq(AudioFrames), Len(rest) \in 0..Len(held),
         \A i \in 1..Len(rest) : rest[i] = held[Len(held) - Len(rest) + i]
  PROVE  /\ EndOf(rest, all, n)
         /\ Past(rest, n) \in Nat /\ Past(held, n) \in Nat
         /\ Past(rest, n) = Past(held, n) + (Len(held) - Len(rest))
<1> DEFINE h == Len(held)
           r == Len(rest)
<1>1. h \in Nat /\ r \in Nat /\ r <= h /\ h <= n
  BY DEF EndOf
<1>2. ASSUME NEW i \in 1..r PROVE rest[i] = all[Past(rest, n) + i]
  <2>1. rest[i] = held[h - r + i]
    OBVIOUS
  <2>2. \A j \in 1..h : held[j] = all[n - h + j]
    BY DEF EndOf, Past
  <2> HIDE DEF h, r
  <2>3. h - r + i \in 1..h /\ n - h + (h - r + i) = n - r + i
    BY <1>1
  <2>4. rest[i] = all[n - r + i]
    BY <2>1, <2>2, <2>3
  <2> QED BY <2>4 DEF Past, r
<1>3. EndOf(rest, all, n)
  BY <1>1, <1>2 DEF EndOf
<1> HIDE DEF h, r
<1>4. n - r \in Nat /\ n - h \in Nat /\ n - r = n - h + (h - r)
  BY <1>1
<1> QED BY <1>3, <1>4 DEF Past, h, r

LEMMA HeldInOrder ==
  ASSUME NEW all, NEW n, Takes(all, n), NEW held \in Seq(AudioFrames), EndOf(held, all, n)
  PROVE  /\ Spaced(held)
         /\ \A i, j \in 1..Len(held) : i <= j => held[i].ts <= held[j].ts
<1> DEFINE h == Len(held)
           k == n - h
<1>1. h \in Nat /\ k \in Nat /\ n \in 0..Len(all) /\ Len(all) \in Nat
  BY DEF EndOf, Takes
<1>2. \A i \in 1..h : held[i] = all[k + i]
  BY DEF EndOf, Past
<1>3. ASSUME NEW i \in 1..h, NEW j \in 1..h, i < j
      PROVE  held[i].id < held[j].id /\ held[i].ts + AudioSpacing <= held[j].ts
  <2> HIDE DEF h
  <2>1. n = k + h
    BY <1>1 DEF k
  <2> HIDE DEF k
  <2>2. k + i \in 1..Len(all) /\ k + j \in 1..Len(all) /\ k + i < k + j
    BY <1>1, <1>3, <2>1
  <2>3. all[k + i].id < all[k + j].id /\ all[k + i].ts + AudioSpacing <= all[k + j].ts
    BY <2>2 DEF Takes, Spaced
  <2> QED BY <1>2, <2>3
<1>4. ASSUME NEW i \in 1..h, NEW j \in 1..h, i <= j PROVE held[i].ts <= held[j].ts
  <2>0. held[i] \in AudioFrames /\ held[j] \in AudioFrames
    OBVIOUS
  <2>1. held[i].ts \in Nat /\ held[j].ts \in Nat
    BY <2>0 DEF AudioFrames
  <2>2. CASE i = j
    BY <2>1, <2>2
  <2>3. CASE i < j
    BY <1>3, <2>1, <2>3 DEF AudioSpacing
  <2> QED BY <1>4, <2>2, <2>3
<1> QED BY <1>3, <1>4 DEF Spaced

LEMMA BriefEnd ==
  ASSUME NEW held \in Seq(AudioFrames), Brief(held),
         \A i, j \in 1..Len(held) : i <= j => held[i].ts <= held[j].ts,
         NEW rest \in Seq(AudioFrames), Len(rest) \in 0..Len(held),
         \A i \in 1..Len(rest) : rest[i] = held[Len(held) - Len(rest) + i]
  PROVE  Brief(rest)
<1> SUFFICES ASSUME rest # <<>> PROVE rest[Len(rest)].ts - rest[1].ts <= AudioPreroll
  BY DEF Brief
<1> DEFINE h == Len(held)
           r == Len(rest)
<1>1. h \in Nat /\ r \in 1..h /\ held # <<>>
  OBVIOUS
<1>2. \A i \in 1..r : rest[i] = held[h - r + i]
  OBVIOUS
<1>3. held[h].ts - held[1].ts <= AudioPreroll
  BY <1>1 DEF Brief
<1>4. \A i \in 1..h : held[i].ts \in Nat /\ held[1].ts <= held[i].ts
  <2>1. ASSUME NEW i \in 1..h PROVE held[i].ts \in Nat /\ held[1].ts <= held[i].ts
    <3>1. held[i] \in AudioFrames /\ 1 \in 1..h /\ 1 <= i
      OBVIOUS
    <3> QED BY <3>1 DEF AudioFrames
  <2> QED BY <2>1
<1> HIDE DEF h, r
<1>5. r \in 1..r /\ 1 \in 1..r /\ h - r + r = h /\ h - r + 1 \in 1..h /\ h \in 1..h /\ 1 \in 1..h
  BY <1>1
<1>6. rest[r] = held[h] /\ rest[1] = held[h - r + 1]
  BY <1>2, <1>5
<1>7. held[h].ts \in Nat /\ held[1].ts \in Nat /\ held[h - r + 1].ts \in Nat
      /\ held[1].ts <= held[h - r + 1].ts
  BY <1>4, <1>5
<1>8. held[h].ts - held[h - r + 1].ts <= AudioPreroll
  BY <1>3, <1>7, AudioPrerollAssumption
<1> QED BY <1>6, <1>8 DEF r

(***************************************************************************)
(* What is flushed is written, and what is still held is for later.        *)
(***************************************************************************)
LEMMA FlushKeeps ==
  ASSUME NEW r \in Recordings, r.started, NEW all, NEW n, Takes(all, n), Placed(r, all, n)
  PROVE  LET s == FlushAudio(r)
         IN  /\ s.last_video_ms = r.last_video_ms
             /\ Placed(s, all, n) /\ Ahead(s)
             /\ Grows(r.audio, s.audio)
             /\ AllSettled(r, all, n) => AllSettled(s, all, n)
             /\ Brief(r.pending_audio) => Brief(s.pending_audio)
<1> DEFINE q == r.pending_audio
           I == {i \in 1..Len(q) : AudioMs(q[i], r.base) > r.last_video_ms}
           first == IF I # {} THEN Min(I) ELSE 0
           held == IF first = 0 THEN <<>> ELSE SubSeq(q, first, Len(q))
           gone == Len(q) - Len(held)
           due == SubSeq(q, 1, Len(q) - Len(held))
           track == WriteDue(r.audio, due, r.base)
           k == Past(q, n)
           s == [r EXCEPT !.pending_audio = held, !.audio = track]
<1>1. /\ q \in Seq(AudioFrames) /\ r.audio \in Tracks
      /\ r.base \in Nat /\ r.last_video_ms \in Nat
  BY DEF Recordings, RecordFields
<1>2. FlushAudio(r) = s
  BY Zenon DEF FlushAudio, Flushed, From, SelectInSeq
<1>3. all \in Seq(AudioFrames) /\ Spaced(all) /\ n \in Nat /\ n <= Len(all)
  BY DEF Takes
<1>4. /\ EndOf(q, all, n)
      /\ Written(r.audio, all, k, r.base, r.last_video_ms)
  BY DEF Placed
<1>5. /\ held \in Seq(AudioFrames) /\ Len(held) \in 0..Len(q)
      /\ \A i \in 1..Len(held) : held[i] = q[gone + i]
      /\ \A i \in 1..gone : i \notin I
      /\ held # <<>> => gone + 1 \in I
  <2>1. I \in SUBSET (1..Len(q))
    OBVIOUS
  <2> HIDE DEF I, q
  <2> QED BY <1>1, <2>1, RestIs
<1> HIDE DEF held
<1>6. /\ EndOf(held, all, n)
      /\ k \in Nat /\ Past(held, n) \in Nat /\ Past(held, n) = k + gone
  <2>1. \A i \in 1..Len(held) : held[i] = q[Len(q) - Len(held) + i]
    BY <1>5
  <2> HIDE DEF q, I
  <2>2. /\ EndOf(held, all, n)
        /\ Past(held, n) \in Nat /\ Past(q, n) \in Nat
        /\ Past(held, n) = Past(q, n) + (Len(q) - Len(held))
    BY <1>1, <1>3, <1>4, <1>5, <2>1, EndOfEnd
  <2> QED BY <2>2
<1>7. /\ due \in Seq(AudioFrames) /\ Len(due) = gone /\ gone \in Nat
      /\ \A i \in 1..gone : due[i] = q[i]
  <2> HIDE DEF q
  <2> QED BY <1>1, <1>5
<1>8. k + gone <= Len(all)
  <2>1. Past(held, n) <= n
    BY <1>3, <1>5 DEF Past
  <2> HIDE DEF k, gone
  <2> QED BY <1>3, <1>6, <1>7, <2>1
<1>9. ASSUME NEW i \in 1..gone
      PROVE  due[i] = all[k + i] /\ AudioMs(due[i], r.base) <= r.last_video_ms
  <2>1. i \in 1..Len(q) /\ i \notin I
    BY <1>1, <1>5
  <2>2. q[i] = all[k + i]
    BY <1>4, <2>1 DEF EndOf
  <2> DEFINE a == q[i]
  <2>3. a \in AudioFrames
    BY <1>1, <2>1
  <2>5. AudioMs(a, r.base) \in Int
    <3> HIDE DEF a
    <3> QED BY <1>1, <2>3, MsAdvances
  <2>4. AudioMs(q[i], r.base) <= r.last_video_ms
    BY <1>1, <2>1, <2>5
  <2> QED BY <1>7, <2>2, <2>4
<1> HIDE DEF due, k, q
<1>10. /\ track \in Tracks /\ Grows(r.audio, track)
       /\ Written(track, all, k + gone, r.base, r.last_video_ms)
       /\ \A i \in 1..gone : AudioMs(due[i], r.base) < 0 \/ IsWritten(due[i], track)
  <2> HIDE DEF gone
  <2> QED BY <1>1, <1>3, <1>4, <1>6, <1>7, <1>8, <1>9, DueWritten
<1> HIDE DEF track
<1>11. /\ s.pending_audio = held /\ s.audio = track
       /\ s.started = r.started /\ s.base = r.base
       /\ s.last_video_ms = r.last_video_ms
  <2>1. r \in RecordFields
    BY DEF Recordings
  <2> QED BY <2>1 DEF RecordFields
<1> HIDE DEF s, gone
<1>12. Placed(s, all, n)
  BY <1>6, <1>10, <1>11 DEF Placed
<1>13. Ahead(s)
  <2>1. ASSUME NEW i \in 1..Len(held) PROVE AudioMs(held[i], r.base) > r.last_video_ms
    <3>1. held # <<>> /\ 1 \in 1..Len(held) /\ 1 <= i
      BY <1>5
    <3>2. held[1] = q[gone + 1] /\ AudioMs(q[gone + 1], r.base) > r.last_video_ms
      BY <1>5, <3>1 DEF gone
    <3>3. held[1].ts <= held[i].ts
      BY <1>5, <1>6, <3>1, HeldInOrder
    <3>4. held[1] \in AudioFrames /\ held[i] \in AudioFrames
      BY <1>5, <3>1
    <3>5. /\ AudioMs(held[1], r.base) <= AudioMs(held[i], r.base)
          /\ AudioMs(held[1], r.base) \in Int /\ AudioMs(held[i], r.base) \in Int
      BY <1>1, <3>3, <3>4, MsAdvances
    <3> QED BY <1>1, <3>2, <3>5
  <2> QED BY <1>11, <2>1 DEF Ahead
<1>14. ASSUME AllSettled(r, all, n) PROVE AllSettled(s, all, n)
  <2>1. ASSUME NEW i \in 1..Past(held, n) PROVE Settled(s, all[i], all)
    <3>1. CASE i \in 1..k
      <4>1. Settled(r, all[i], all)
        BY <1>14, <3>1 DEF AllSettled, k, q
      <4>2. IsWritten(all[i], r.audio) => IsWritten(all[i], track)
        BY <1>1, <1>10, StaysWritten
      <4> QED BY <1>11, <4>1, <4>2 DEF Settled
    <3>2. CASE i \notin 1..k
      <4> DEFINE j == i - k
      <4>1. j \in 1..gone /\ k + j = i
        BY <1>6, <1>7, <3>2
      <4>2. due[j] = all[i]
        BY <1>9, <4>1
      <4>3. AudioMs(due[j], r.base) < 0 \/ IsWritten(due[j], track)
        BY <1>10, <4>1
      <4> QED BY <1>11, <4>2, <4>3 DEF Settled
    <3> QED BY <3>1, <3>2
  <2> QED BY <1>11, <2>1 DEF AllSettled
<1>15. ASSUME Brief(q) PROVE Brief(s.pending_audio)
  <2>1. \A i, j \in 1..Len(q) : i <= j => q[i].ts <= q[j].ts
    BY <1>1, <1>4, HeldInOrder DEF q
  <2>2. Brief(held)
    BY <1>1, <1>5, <1>15, <2>1, BriefEnd DEF q, gone
  <2> QED BY <1>11, <2>2
<1> QED BY <1>2, <1>10, <1>11, <1>12, <1>13, <1>14, <1>15 DEF q

(***************************************************************************)
(* What is given up has waited for too long.                               *)
(***************************************************************************)
LEMMA BoundKeeps ==
  ASSUME NEW s \in Recordings, NEW all, NEW n, Takes(all, n), Placed(s, all, n),
         AllSettled(s, all, n), Ahead(s)
  PROVE  Keeps(BoundPendingAudio(s), all, n)
<1> DEFINE q == s.pending_audio
           I == {i \in 1..Len(q) : Last(q).ts - q[i].ts <= AudioPreroll}
           first == IF I # {} THEN Min(I) ELSE 0
           rest == IF first = 0 THEN <<>> ELSE SubSeq(q, first, Len(q))
           gone == Len(q) - Len(rest)
           k == Past(q, n)
           t == [s EXCEPT !.pending_audio = rest]
<1>1. /\ q \in Seq(AudioFrames) /\ s.audio \in Tracks
      /\ s.base \in Nat /\ s.last_video_ms \in Nat
  BY DEF Recordings, RecordFields
<1>2. BoundPendingAudio(s) = t
  BY Zenon DEF BoundPendingAudio, From, SelectInSeq
<1>3. all \in Seq(AudioFrames) /\ n \in Nat /\ n <= Len(all)
  BY DEF Takes
<1>4. /\ EndOf(q, all, n)
      /\ Written(s.audio, all, k, s.base, s.last_video_ms)
      /\ ~ s.started => s.audio = <<>>
  BY DEF Placed
<1>5. /\ rest \in Seq(AudioFrames) /\ Len(rest) \in 0..Len(q)
      /\ \A i \in 1..Len(rest) : rest[i] = q[gone + i]
      /\ \A i \in 1..gone : i \notin I
      /\ rest # <<>> => gone + 1 \in I
  <2>1. I \in SUBSET (1..Len(q))
    OBVIOUS
  <2> HIDE DEF I, q
  <2> QED BY <1>1, <2>1, RestIs
<1> HIDE DEF rest
<1>6. /\ EndOf(rest, all, n)
      /\ k \in Nat /\ Past(rest, n) \in Nat /\ Past(rest, n) = k + gone
  <2>1. /\ rest \in Seq(AudioFrames) /\ Len(rest) \in 0..Len(q)
        /\ \A i \in 1..Len(rest) : rest[i] = q[Len(q) - Len(rest) + i]
    BY <1>5
  <2> HIDE DEF q, I
  <2>2. /\ EndOf(rest, all, n)
        /\ Past(rest, n) \in Nat /\ Past(q, n) \in Nat
        /\ Past(rest, n) = Past(q, n) + (Len(q) - Len(rest))
    BY <1>1, <1>3, <1>4, <2>1, EndOfEnd
  <2> QED BY <2>2
<1>7. /\ t.pending_audio = rest /\ t.audio = s.audio
      /\ t.started = s.started /\ t.base = s.base
      /\ t.last_video_ms = s.last_video_ms
  <2>1. s \in RecordFields
    BY DEF Recordings
  <2> QED BY <2>1 DEF RecordFields
<1>8. q # <<>> => /\ n \in 1..Len(all) /\ Last(q) = all[n]
                  /\ k + Len(q) = n /\ Len(q) \in 1..Len(q)
  <2> SUFFICES ASSUME q # <<>>
               PROVE /\ n \in 1..Len(all) /\ Last(q) = all[n]
                     /\ k + Len(q) = n /\ Len(q) \in 1..Len(q)
    OBVIOUS
  <2> HIDE DEF q
  <2>1. Len(q) \in 1..Len(q) /\ Len(q) <= n /\ n <= Len(all) /\ Len(all) \in Nat
    BY <1>1, <1>3, <1>4 DEF EndOf
  <2>2. q[Len(q)] = all[k + Len(q)]
    BY <1>4, <2>1 DEF EndOf
  <2>3. k + Len(q) = n
    BY <1>3, <2>1 DEF Past
  <2> QED BY <1>3, <2>1, <2>2, <2>3 DEF Last
<1> HIDE DEF t
<1>9. Placed(t, all, n)
  <2>1. Written(s.audio, all, k + gone, s.base, s.last_video_ms)
    <3>1. gone \in Nat /\ k + gone \in Nat /\ k <= k + gone
      BY <1>5, <1>6
    <3> HIDE DEF gone, k
    <3> QED BY <1>1, <1>4, <1>6, <3>1, WrittenOn
  <2> HIDE DEF gone, k
  <2> QED BY <1>4, <1>6, <1>7, <2>1 DEF Placed
<1>10. AllSettled(t, all, n)
  <2>1. ASSUME NEW i \in 1..(k + gone) PROVE Settled(t, all[i], all)
    <3>1. CASE i \in 1..k
      <4>1. Settled(s, all[i], all)
        BY <3>1 DEF AllSettled
      <4> QED BY <1>7, <4>1 DEF Settled
    <3>2. CASE i \notin 1..k
      <4> DEFINE j == i - k
      <4>1. gone \in Nat /\ gone <= Len(q)
        BY <1>5
      <4>2. j \in 1..gone /\ j \in 1..Len(q) /\ k + j = i
        <5> HIDE DEF gone, k
        <5> QED BY <1>1, <1>6, <3>2, <4>1
      <4> HIDE DEF j
      <4>3. q[j] = all[i]
        BY <1>4, <4>2 DEF EndOf
      <4>4. Last(q).ts - q[j].ts > AudioPreroll
        <5>1. j \notin I /\ q # <<>>
          BY <1>5, <4>2
        <5>2. Last(q) \in AudioFrames /\ q[j] \in AudioFrames
          BY <1>1, <1>8, <4>2, <5>1 DEF Last
        <5>3. Last(q).ts - q[j].ts \in Int
          BY <5>2 DEF AudioFrames
        <5>4. ~ (Last(q).ts - q[j].ts <= AudioPreroll)
          BY <4>2, <5>1
        <5> QED BY <5>3, <5>4, AudioPrerollAssumption
      <4>5. n \in 1..Len(all) /\ Last(q) = all[n]
        BY <1>8, <4>2
      <4>6. IsLate(all[i], all)
        BY <4>3, <4>4, <4>5 DEF IsLate
      <4> QED BY <4>6 DEF Settled
    <3> QED BY <3>1, <3>2
  <2> HIDE DEF gone, k
  <2> QED BY <1>6, <1>7, <2>1 DEF AllSettled
<1>11. Ahead(t)
  <2>1. ASSUME s.started, NEW i \in 1..Len(rest)
        PROVE  AudioMs(rest[i], s.base) > s.last_video_ms
    <3>1. gone + i \in 1..Len(q) /\ rest[i] = q[gone + i]
      BY <1>1, <1>5
    <3> HIDE DEF gone
    <3> QED BY <2>1, <3>1 DEF Ahead
  <2> QED BY <1>7, <2>1 DEF Ahead
<1>12. Brief(rest)
  <2>1. ASSUME rest # <<>> PROVE rest[Len(rest)].ts - rest[1].ts <= AudioPreroll
    <3>1. q # <<>> /\ 1 \in 1..Len(rest) /\ Len(rest) \in 1..Len(rest)
      BY <1>1, <1>5, <2>1
    <3>2. rest[1] = q[gone + 1] /\ rest[Len(rest)] = q[Len(q)]
      BY <1>5, <3>1
    <3>3. Last(q).ts - q[gone + 1].ts <= AudioPreroll
      BY <1>5, <2>1
    <3> QED BY <3>2, <3>3 DEF Last
  <2> QED BY <2>1 DEF Brief
<1> QED BY <1>2, <1>7, <1>9, <1>10, <1>11, <1>12 DEF Keeps

LEMMA EndOfAppend ==
  ASSUME NEW all, NEW n \in Nat, NEW held \in Seq(AudioFrames), EndOf(held, all, n),
         NEW a \in AudioFrames, a = all[n + 1]
  PROVE  /\ EndOf(Append(held, a), all, n + 1)
         /\ Past(Append(held, a), n + 1) = Past(held, n)
<1> DEFINE more == Append(held, a)
           m == n + 1
<1>1. /\ more \in Seq(AudioFrames) /\ Len(more) = Len(held) + 1
      /\ \A i \in 1..Len(held) : more[i] = held[i]
      /\ more[Len(held) + 1] = a
  OBVIOUS
<1>2. Len(held) \in Nat /\ Len(held) <= n
  BY DEF EndOf
<1> HIDE DEF more
<1>3. Len(more) <= m /\ Past(more, m) = Past(held, n)
  BY <1>1, <1>2 DEF Past
<1>4. ASSUME NEW i \in 1..Len(more) PROVE more[i] = all[Past(more, m) + i]
  <2>1. CASE i \in 1..Len(held)
    BY <1>1, <1>3, <2>1 DEF EndOf
  <2>2. CASE i = Len(held) + 1
    <3>1. Past(held, n) + i = n + 1
      BY <1>2, <2>2 DEF Past
    <3> QED BY <1>1, <1>3, <2>2, <3>1
  <2> QED BY <1>1, <1>2, <2>1, <2>2
<1>5. EndOf(more, all, m)
  BY <1>3, <1>4 DEF EndOf
<1> QED BY <1>3, <1>5 DEF more

(***************************************************************************)
(* One more frame of sound.                                                *)
(***************************************************************************)
LEMMA PushAudioKeeps ==
  ASSUME NEW r \in Recordings, NEW all, NEW n, Takes(all, n), n < Len(all), Keeps(r, all, n)
  PROVE  Keeps(PushAudio(r, all[n + 1]), all, n + 1)
<1> DEFINE a == all[n + 1]
           held == r.pending_audio
           more == Append(held, a)
           q == [r EXCEPT !.pending_audio = Append(@, a)]
           s == IF r.started THEN FlushAudio(q) ELSE q
           m == n + 1
<1>1. /\ all \in Seq(AudioFrames) /\ Spaced(all)
      /\ n \in Nat /\ n + 1 \in 1..Len(all) /\ Takes(all, m)
  BY DEF Takes
<1>2. held \in Seq(AudioFrames) /\ a \in AudioFrames /\ r \in RecordFields
  BY <1>1 DEF Recordings, RecordFields
<1>3. /\ more \in Seq(AudioFrames) /\ EndOf(more, all, m)
      /\ Past(more, m) = Past(held, n)
  <2>1. EndOf(held, all, n) /\ a = all[n + 1]
    BY DEF Keeps, Placed
  <2> HIDE DEF held, a
  <2> QED BY <1>1, <1>2, <2>1, EndOfAppend
<1> HIDE DEF a
<1>4. /\ q.pending_audio = more /\ q.audio = r.audio
      /\ q.started = r.started /\ q.base = r.base
      /\ q.last_video_ms = r.last_video_ms
  BY <1>2 DEF RecordFields
<1>5. q \in Recordings
  <2> HIDE DEF more
  <2>1. q = [r EXCEPT !.pending_audio = more]
    BY DEF more
  <2>2. [r EXCEPT !.pending_audio = more] \in Recordings
    BY <1>3, WithQueue
  <2> QED BY <2>1, <2>2
<1> HIDE DEF q, more, held
<1>7. Placed(q, all, m)
  <2>1. /\ Written(r.audio, all, Past(held, n), r.base, r.last_video_ms)
        /\ ~ r.started => r.audio = <<>>
    BY DEF Keeps, Placed, held
  <2> HIDE DEF m
  <2> QED BY <1>3, <1>4, <2>1 DEF Placed
<1>8. AllSettled(q, all, m)
  <2>1. \A i \in 1..Past(held, n) : Settled(r, all[i], all)
    BY DEF Keeps, AllSettled, held
  <2>2. \A i \in 1..Past(held, n) : Settled(q, all[i], all)
    BY <1>4, <2>1 DEF Settled
  <2> QED BY <1>3, <1>4, <2>2 DEF AllSettled
<1>9. s \in Recordings /\ Placed(s, all, m) /\ AllSettled(s, all, m) /\ Ahead(s)
  <2> HIDE DEF m
  <2>1. CASE r.started
    <3>1. q.started
      BY <1>4, <2>1
    <3>2. /\ Placed(FlushAudio(q), all, m) /\ Ahead(FlushAudio(q))
          /\ AllSettled(q, all, m) => AllSettled(FlushAudio(q), all, m)
      BY <1>1, <1>5, <1>7, <3>1, FlushKeeps
    <3>3. FlushAudio(q) \in Recordings
      BY <1>5, FlushAudioIs
    <3> QED BY <1>8, <2>1, <3>2, <3>3
  <2>2. CASE ~ r.started
    BY <1>4, <1>5, <1>7, <1>8, <2>2 DEF Ahead
  <2> QED BY <2>1, <2>2
<1>10. PushAudio(r, a) = BoundPendingAudio(s)
  BY Zenon DEF PushAudio, q
<1> HIDE DEF s, m
<1>11. Keeps(BoundPendingAudio(s), all, m)
  BY <1>1, <1>9, BoundKeeps
<1> QED BY <1>10, <1>11 DEF a, m

(***************************************************************************)
(* One more picture: what was waiting for it is written.                   *)
(***************************************************************************)
LEMMA PushVideoKeeps ==
  ASSUME NEW r \in Recordings, NEW f \in VideoFrames,
         NEW all, NEW n, Takes(all, n), Keeps(r, all, n)
  PROVE  Keeps(PushVideo(r, f), all, n)
<1>1. CASE ~ r.started /\ ~ f.key
  <2>1. PushVideo(r, f) = r
    BY <1>1 DEF PushVideo
  <2> QED BY <2>1
<1>2. CASE r.started \/ f.key
  <2>1. PICK t \in Recordings :
           /\ PushVideo(r, f) = FlushAudio(t)
           /\ t.started
           /\ t.pending_audio = r.pending_audio /\ t.audio = r.audio
           /\ r.started => t.base = r.base
           /\ r.last_video_ms <= t.last_video_ms
    BY <1>2, PushVideoBy
  <2> DEFINE k == Past(r.pending_audio, n)
  <2>2. /\ EndOf(r.pending_audio, all, n)
        /\ Written(r.audio, all, k, r.base, r.last_video_ms)
        /\ ~ r.started => r.audio = <<>>
        /\ AllSettled(r, all, n) /\ Brief(r.pending_audio)
    BY DEF Keeps, Placed
  <2>3. /\ r.last_video_ms \in Nat /\ t.last_video_ms \in Nat
        /\ r.pending_audio \in Seq(AudioFrames)
    BY DEF Recordings, RecordFields
  <2>4. Placed(t, all, n)
    <3>1. Written(t.audio, all, k, t.base, t.last_video_ms)
      <4>1. CASE r.started
        <5>1. k \in Nat /\ k <= k
          BY <2>2, <2>3 DEF EndOf, Past, Takes
        <5> HIDE DEF k
        <5> QED BY <2>1, <2>2, <2>3, <4>1, <5>1, WrittenOn
      <4>2. CASE ~ r.started
        BY <2>1, <2>2, <4>2 DEF Written
      <4> QED BY <4>1, <4>2
    <3> QED BY <2>1, <2>2, <3>1 DEF Placed
  <2>5. AllSettled(t, all, n)
    <3>1. ASSUME NEW i \in 1..k PROVE Settled(t, all[i], all)
      <4>1. Settled(r, all[i], all)
        BY <2>2 DEF AllSettled
      <4> QED BY <2>1, <4>1 DEF Settled
    <3> QED BY <2>1, <3>1 DEF AllSettled
  <2>6. Brief(t.pending_audio)
    BY <2>1, <2>2
  <2>7. /\ Placed(FlushAudio(t), all, n) /\ Ahead(FlushAudio(t))
        /\ AllSettled(FlushAudio(t), all, n)
        /\ Brief(FlushAudio(t).pending_audio)
    BY <2>1, <2>4, <2>5, <2>6, FlushKeeps
  <2> QED BY <2>1, <2>7 DEF Keeps
<1> QED BY <1>1, <1>2

LEMMA PlacedIsWithin ==
  ASSUME NEW r, NEW all, NEW n, Placed(r, all, n)
  PROVE  Within(r)
BY DEF Placed, Written, Stands, Within

(***************************************************************************)
(* What the recorder keeps is all it was given.                            *)
(***************************************************************************)
LEMMA KeptIsComplete ==
  ASSUME NEW r \in Recordings, NEW all, NEW n, Takes(all, n), n = Len(all), Keeps(r, all, n)
  PROVE  Complete(r, all)
<1> SUFFICES ASSUME r.started PROVE Complete(r, all)
  BY DEF Complete
<1> DEFINE held == r.pending_audio
           k == Past(held, n)
<1>1. \A i, j \in 1..Len(r.audio) : i < j => r.audio[i].id < r.audio[j].id
  BY DEF Keeps, Placed, Written
<1>2. /\ all \in Seq(AudioFrames) /\ held \in Seq(AudioFrames)
      /\ r.base \in Nat /\ r.last_video_ms \in Nat
  BY DEF Takes, Recordings, RecordFields
<1>3. EndOf(held, all, n)
  BY DEF Keeps, Placed
<1>4. ASSUME NEW i \in 1..Len(all), AudioMs(all[i], r.base) \in 0..r.last_video_ms
      PROVE  IsWritten(all[i], r.audio) \/ IsLate(all[i], all)
  <2>1. CASE i \in 1..k
    <3>1. Settled(r, all[i], all)
      BY <2>1 DEF Keeps, AllSettled
    <3>2. ~ (AudioMs(all[i], r.base) < 0)
      BY <1>2, <1>4
    <3> QED BY <3>1, <3>2 DEF Settled
  <2>2. CASE i \notin 1..k
    <3> DEFINE j == i - k
    <3>1. j \in 1..Len(held) /\ k + j = i
      <4>1. Len(held) \in Nat /\ Len(held) <= n /\ k = n - Len(held)
        BY <1>2, <1>3 DEF EndOf, Past
      <4> HIDE DEF k, held
      <4> QED BY <1>2, <2>2, <4>1
    <3> HIDE DEF j
    <3>2. held[j] = all[i]
      BY <1>3, <3>1 DEF EndOf
    <3>3. AudioMs(all[i], r.base) > r.last_video_ms
      BY <3>1, <3>2 DEF Keeps, Ahead
    <3> QED BY <1>2, <1>4, <3>3
  <2> QED BY <2>1, <2>2
<1> QED BY <1>1, <1>4 DEF Complete

(***************************************************************************)
(* A recording that is finished keeps what it has.                         *)
(***************************************************************************)
LEMMA FinishKeeps ==
  ASSUME NEW r \in Recordings, NEW all, NEW n, Takes(all, n), Placed(r, all, n)
  PROVE  LET s == Finish(r)
         IN  /\ s.pending_audio = <<>> /\ Within(s)
             /\ n = Len(all) /\ Keeps(r, all, n) => Complete(s, all)
<1> DEFINE t == IF r.started THEN FlushAudio(r) ELSE r
           s == [t EXCEPT !.pending_audio = <<>>]
<1>1. Finish(r) = s
  BY DEF Finish
<1>2. t \in Recordings /\ Placed(t, all, n) /\ (Keeps(r, all, n) => Keeps(t, all, n))
  <2>1. CASE r.started
    <3>1. /\ Placed(FlushAudio(r), all, n) /\ Ahead(FlushAudio(r))
          /\ AllSettled(r, all, n) => AllSettled(FlushAudio(r), all, n)
          /\ Brief(r.pending_audio) => Brief(FlushAudio(r).pending_audio)
      BY <2>1, FlushKeeps
    <3>2. FlushAudio(r) \in Recordings
      BY FlushAudioIs
    <3>3. Keeps(r, all, n) => Keeps(FlushAudio(r), all, n)
      BY <3>1 DEF Keeps
    <3> QED BY <2>1, <3>1, <3>2, <3>3
  <2>2. CASE ~ r.started
    BY <2>2
  <2> QED BY <2>1, <2>2
<1> HIDE DEF t
<1>3. /\ s.pending_audio = <<>> /\ s.audio = t.audio
      /\ s.started = t.started /\ s.base = t.base
      /\ s.last_video_ms = t.last_video_ms
  BY <1>2 DEF Recordings, RecordFields
<1> HIDE DEF s
<1>4. Within(t)
  BY <1>2, PlacedIsWithin
<1>5. Within(s)
  BY <1>3, <1>4 DEF Within
<1>6. ASSUME n = Len(all), Keeps(r, all, n) PROVE Complete(s, all)
  <2>1. Complete(t, all)
    BY <1>2, <1>6, KeptIsComplete
  <2> QED BY <1>3, <2>1 DEF Complete
<1> QED BY <1>1, <1>3, <1>5, <1>6

-----------------------------------------------------------------------------
(* A batch of frames and the sound.                                        *)

LEMMA PushedAudioKeeps ==
  ASSUME NEW r \in Recordings, NEW all, NEW n, Takes(all, n), Keeps(r, all, n),
         NEW frames \in Seq(AudioFrames), n + Len(frames) <= Len(all),
         \A i \in 1..Len(frames) : frames[i] = all[n + i]
  PROVE  Keeps(Pushed("audio", r, frames), all, n + Len(frames))
<1> DEFINE len == Len(frames)
<1>1. ASSUME NEW i \in 1..len, NEW s \in Recordings
      PROVE  /\ Given("audio", s, frames, i) = PushAudio(s, frames[i])
             /\ Given("audio", s, frames, i) \in Recordings
  <2>1. frames[i] \in AudioFrames
    OBVIOUS
  <2> QED BY <2>1, PushAudioIs DEF Given
<1>2. PICK f \in [0..len -> Recordings] : Makes(f, "audio", r, frames)
  <2>1. \A i \in 1..len : \A s \in Recordings : Given("audio", s, frames, i) \in Recordings
    BY <1>1
  <2>2. Len(frames) \in Nat
    OBVIOUS
  <2> QED BY <2>1, <2>2, PushedIs, Zenon
<1>3. /\ f[0] = r
      /\ \A i \in 1..len : f[i] = Given("audio", f[i - 1], frames, i)
      /\ Pushed("audio", r, frames) = f[len]
  BY <1>2, Zenon DEF Makes
<1> DEFINE T == {i \in 0..len : Keeps(f[i], all, n + i)}
<1>4. 0 \in T
  <2>1. n + 0 = n
    BY DEF Takes
  <2> QED BY <1>3, <2>1
<1>5. ASSUME NEW i \in 1..len, i - 1 \in T PROVE i \in T
  <2> DEFINE m == n + (i - 1)
             q == f[i - 1]
  <2>1. m + 1 = n + i /\ Takes(all, m) /\ m < Len(all)
    BY DEF Takes
  <2>2. q \in Recordings /\ Keeps(q, all, m)
    BY <1>5
  <2>3. frames[i] = all[m + 1]
    BY <2>1
  <2> HIDE DEF m, q
  <2>4. Keeps(PushAudio(q, all[m + 1]), all, m + 1)
    BY <2>1, <2>2, PushAudioKeeps
  <2>5. f[i] = PushAudio(q, frames[i])
    BY <1>1, <1>3, <2>2 DEF q
  <2>6. Keeps(f[i], all, n + i)
    BY <2>1, <2>3, <2>4, <2>5
  <2> QED BY <2>6
<1>6. len \in Nat /\ len \in 0..len
  OBVIOUS
<1>7. len \in T
  <2> HIDE DEF T, len
  <2> QED BY <1>4, <1>5, <1>6, Climb
<1> QED BY <1>3, <1>7

LEMMA PushedVideoKeeps ==
  ASSUME NEW r \in Recordings, NEW all, NEW n, Takes(all, n), Keeps(r, all, n),
         NEW frames \in Seq(VideoFrames)
  PROVE  Pushed("video", r, frames) \in Recordings
         /\ Keeps(Pushed("video", r, frames), all, n)
<1> DEFINE len == Len(frames)
<1>1. ASSUME NEW i \in 1..len, NEW s \in Recordings
      PROVE  /\ frames[i] \in VideoFrames
             /\ Given("video", s, frames, i) = PushVideo(s, frames[i])
             /\ Given("video", s, frames, i) \in Recordings
  <2>1. frames[i] \in VideoFrames
    OBVIOUS
  <2> QED BY <2>1, PushVideoIs DEF Given
<1>2. PICK f \in [0..len -> Recordings] : Makes(f, "video", r, frames)
  <2>1. \A i \in 1..len : \A s \in Recordings : Given("video", s, frames, i) \in Recordings
    BY <1>1
  <2>2. Len(frames) \in Nat
    OBVIOUS
  <2> QED BY <2>1, <2>2, PushedIs, Zenon
<1>3. /\ f[0] = r
      /\ \A i \in 1..len : f[i] = Given("video", f[i - 1], frames, i)
      /\ Pushed("video", r, frames) = f[len]
  BY <1>2, Zenon DEF Makes
<1> DEFINE T == {i \in 0..len : Keeps(f[i], all, n)}
<1>4. 0 \in T
  BY <1>3
<1>5. ASSUME NEW i \in 1..len, i - 1 \in T PROVE i \in T
  <2> DEFINE q == f[i - 1]
  <2>1. q \in Recordings /\ Keeps(q, all, n)
    BY <1>5
  <2> HIDE DEF q
  <2>2. Keeps(PushVideo(q, frames[i]), all, n)
    BY <1>1, <2>1, PushVideoKeeps
  <2>3. f[i] = PushVideo(q, frames[i])
    BY <1>1, <1>3, <2>1 DEF q
  <2> QED BY <2>2, <2>3
<1>6. len \in Nat /\ len \in 0..len
  OBVIOUS
<1>7. len \in T
  <2> HIDE DEF T, len
  <2> QED BY <1>4, <1>5, <1>6, Climb
<1>8. f[len] \in Recordings
  BY <1>6
<1> QED BY <1>3, <1>7, <1>8

\* A batch of one frame.
LEMMA PushedOne ==
  ASSUME NEW r \in Recordings
  PROVE  /\ \A a \in AudioFrames : Pushed("audio", r, <<a>>) = PushAudio(r, a)
         /\ \A f \in VideoFrames : Pushed("video", r, <<f>>) = PushVideo(r, f)
<1>1. ASSUME NEW kind, NEW x, \A s \in Recordings : Given(kind, s, <<x>>, 1) \in Recordings
      PROVE  Pushed(kind, r, <<x>>) = Given(kind, r, <<x>>, 1)
  <2> DEFINE frames == <<x>>
  <2>1. Len(frames) = 1 /\ Len(frames) \in Nat
    OBVIOUS
  <2>2. \A i \in 1..Len(frames) : \A s \in Recordings : Given(kind, s, frames, i) \in Recordings
    <3>1. \A i \in 1..Len(frames) : i = 1
      BY <2>1
    <3> QED BY <1>1, <3>1
  <2> HIDE DEF frames
  <2>3. PICK f \in [0..Len(frames) -> Recordings] : Makes(f, kind, r, frames)
    BY <2>1, <2>2, PushedIs, Zenon
  <2>4. /\ f[0] = r
        /\ \A i \in 1..Len(frames) : f[i] = Given(kind, f[i - 1], frames, i)
        /\ Pushed(kind, r, frames) = f[Len(frames)]
    BY <2>3, Zenon DEF Makes
  <2>5. 1 \in 1..Len(frames) /\ 1 - 1 = 0
    BY <2>1
  <2>6. f[1] = Given(kind, r, frames, 1)
    BY <2>4, <2>5
  <2>7. Pushed(kind, r, frames) = Given(kind, r, frames, 1)
    BY <2>1, <2>4, <2>6
  <2> QED BY <2>7 DEF frames
<1>2. ASSUME NEW a \in AudioFrames PROVE Pushed("audio", r, <<a>>) = PushAudio(r, a)
  <2>1. \A s : Given("audio", s, <<a>>, 1) = PushAudio(s, a)
    BY DEF Given
  <2>2. \A s \in Recordings : Given("audio", s, <<a>>, 1) \in Recordings
    BY <2>1, PushAudioIs
  <2> QED BY <1>1, <2>1, <2>2
<1>3. ASSUME NEW f \in VideoFrames PROVE Pushed("video", r, <<f>>) = PushVideo(r, f)
  <2>1. \A s : Given("video", s, <<f>>, 1) = PushVideo(s, f)
    BY DEF Given
  <2>2. \A s \in Recordings : Given("video", s, <<f>>, 1) \in Recordings
    BY <2>1, PushVideoIs
  <2> QED BY <1>1, <2>1, <2>2
<1> QED BY <1>2, <1>3

(***************************************************************************)
(* Where a write fails, the file ends with what was in place.              *)
(***************************************************************************)
LEMMA FailingPlaces ==
  ASSUME NEW before \in Recordings, NEW after \in Recordings,
         before.started => after.started /\ after.base = before.base,
         NEW all, NEW n, NEW m, Takes(all, n), Takes(all, m),
         Placed(before, all, n), Placed(after, all, m),
         NEW waiting \in Seq(AudioFrames), EndOf(waiting, all, m),
         NEW written \in
             0..Len(after.video \o after.audio) - Len(before.video \o before.audio) - 1
  PROVE  LET s == PushFailing(before, waiting, after, written)
         IN  Placed(s, all, n) \/ Placed(s, all, m)
<1> DEFINE s == PushFailing(before, waiting, after, written)
<1>1. before \in RecordFields /\ after \in RecordFields
  BY DEF Recordings
<1>2. CASE written = 0 /\ after.video # before.video
  <2> DEFINE t == [before EXCEPT !.started = after.started, !.base = after.base]
  <2>1. s = t
    BY <1>2 DEF PushFailing
  <2>2. /\ t.pending_audio = before.pending_audio /\ t.audio = before.audio
        /\ t.started = after.started /\ t.base = after.base
        /\ t.last_video_ms = before.last_video_ms
    BY <1>1 DEF RecordFields
  <2>3. /\ EndOf(before.pending_audio, all, n)
        /\ Written(before.audio, all, Past(before.pending_audio, n), before.base,
                   before.last_video_ms)
        /\ ~ before.started => before.audio = <<>>
    BY DEF Placed
  <2> HIDE DEF t
  <2>4. Placed(t, all, n)
    <3>1. CASE before.started
      BY <2>2, <2>3, <3>1 DEF Placed
    <3>2. CASE ~ before.started
      <4>1. t.audio = <<>>
        BY <2>2, <2>3, <3>2
      <4> QED BY <2>2, <2>3, <4>1 DEF Placed, Written
    <3> QED BY <3>1, <3>2
  <2> HIDE DEF s
  <2> QED BY <2>1, <2>4 DEF s
<1>3. CASE ~ (written = 0 /\ after.video # before.video)
  <2> DEFINE k == Len(before.audio) + written - (Len(after.video) - Len(before.video))
             track == SubSeq(after.audio, 1, k)
             missing == after.audio[Len(track) + 1]
             I == {i \in 1..Len(waiting) : waiting[i].id > missing.id}
             first == IF I # {} THEN Min(I) ELSE 0
             rest == IF first = 0 THEN <<>> ELSE SubSeq(waiting, first, Len(waiting))
             gone == Len(waiting) - Len(rest)
             t == [after EXCEPT !.audio = track, !.pending_audio = rest]
  <2>1. s = t
    BY <1>3, Zenon DEF PushFailing, From, SelectInSeq
  <2>2. k \in Int /\ k < Len(after.audio)
    <3>1. /\ before.video \in Seq(VideoFrames) /\ after.video \in Seq(VideoFrames)
          /\ before.audio \in Seq(AudioPackets) /\ after.audio \in Seq(AudioPackets)
      BY <1>1 DEF RecordFields, Tracks
    <3> DEFINE v == Len(before.video)
               a == Len(before.audio)
               w == Len(after.video)
               b == Len(after.audio)
               had == Len(before.video \o before.audio)
               has == Len(after.video \o after.audio)
    <3>2. v \in Nat /\ a \in Nat /\ w \in Nat /\ b \in Nat
      BY <3>1
    <3>3. had = v + a /\ has = w + b
      BY <3>1
    <3>4. written \in 0..has - had - 1 /\ k = a + written - (w - v)
      OBVIOUS
    <3>5. b = Len(after.audio)
      OBVIOUS
    <3> HIDE DEF had, has, v, a, w, b, k
    <3>6. k \in Int /\ k < b
      BY <3>2, <3>3, <3>4
    <3> QED BY <3>5, <3>6
  <2> HIDE DEF k
  <2> DEFINE whole == after.audio
  <2>3. whole \in Seq(AudioPackets) /\ Len(whole) \in Nat
    BY <1>1 DEF RecordFields, Tracks
  <2>4. /\ Len(track) \in 0..Len(whole) /\ Len(track) \in Nat
        /\ track # <<>> => Len(track) < Len(whole)
        /\ \A j \in 1..Len(track) : track[j] = whole[j]
        /\ track = <<>> <=> Len(track) = 0
    BY <2>2, <2>3
  <2> HIDE DEF track
  <2>5. /\ rest \in Seq(AudioFrames) /\ Len(rest) \in 0..Len(waiting)
        /\ \A i \in 1..Len(rest) : rest[i] = waiting[gone + i]
        /\ rest # <<>> => gone + 1 \in I
    <3>1. I \in SUBSET (1..Len(waiting))
      OBVIOUS
    <3> HIDE DEF I
    <3> QED BY <3>1, RestIs
  <2> HIDE DEF rest
  <2>6. /\ t.pending_audio = rest /\ t.audio = track
        /\ t.started = after.started /\ t.base = after.base
        /\ t.last_video_ms = after.last_video_ms
    BY <1>1 DEF RecordFields
  <2> HIDE DEF t
  <2> DEFINE g == Past(rest, m)
  <2>7. m \in 0..Len(all) /\ Len(all) \in Nat /\ all \in Seq(AudioFrames) /\ Spaced(all)
    BY DEF Takes
  <2>8. EndOf(rest, all, m) /\ g \in Nat /\ g = m - Len(rest)
    <3>1. /\ rest \in Seq(AudioFrames) /\ Len(rest) \in 0..Len(waiting)
          /\ \A i \in 1..Len(rest) : rest[i] = waiting[Len(waiting) - Len(rest) + i]
      BY <2>5
    <3>2. m \in Nat
      BY <2>7
    <3> HIDE DEF I
    <3>3. EndOf(rest, all, m) /\ Past(rest, m) \in Nat
      BY <3>1, <3>2, EndOfEnd
    <3> QED BY <3>3 DEF Past
  <2>9. /\ Written(whole, all, Past(after.pending_audio, m), after.base, after.last_video_ms)
        /\ ~ after.started => whole = <<>>
        /\ EndOf(after.pending_audio, all, m)
    BY DEF Placed
  <2>10. Past(after.pending_audio, m) <= m /\ Past(after.pending_audio, m) \in Int
    <3>1. Len(after.pending_audio) \in Nat
      BY <1>1 DEF RecordFields
    <3> QED BY <2>7, <3>1 DEF Past
  <2> HIDE DEF g, whole
  <2>11. ASSUME NEW j \in 1..Len(track)
         PROVE  \E i \in 1..g : Stands(track[j], all[i], after.base, after.last_video_ms)
    <3>1. j \in 1..Len(whole) /\ track[j] = whole[j]
      BY <2>3, <2>4
    <3>2. PICK i \in 1..Past(after.pending_audio, m) :
             Stands(whole[j], all[i], after.base, after.last_video_ms)
      BY <2>9, <3>1 DEF Written
    <3>3. i \in 1..m /\ i \in 1..Len(all)
      BY <2>7, <2>10
    <3>4. i <= g
      <4>1. CASE rest = <<>>
        <5>1. Len(rest) = 0
          BY <4>1
        <5> QED BY <2>7, <2>8, <3>3, <5>1
      <4>2. CASE rest # <<>>
        <5>1. 1 \in 1..Len(rest) /\ Len(rest) \in Nat
          BY <2>5, <4>2
        <5>2. rest[1] = all[g + 1]
          BY <2>8, <5>1 DEF EndOf, g
        <5>3. rest[1] = waiting[gone + 1] /\ waiting[gone + 1].id > missing.id
          BY <2>5, <4>2, <5>1
        <5>4. Len(track) + 1 \in 1..Len(whole) /\ j < Len(track) + 1
          BY <2>3, <2>4
        <5>5. whole[j].id < missing.id
          BY <2>9, <3>1, <5>4 DEF Written, whole
        <5>6. whole[j].id = all[i].id
          BY <3>2 DEF Stands
        <5>7. g + 1 \in 1..Len(all)
          <6>1. Len(rest) <= m /\ Len(rest) >= 1
            BY <2>8, <5>1 DEF EndOf
          <6> QED BY <2>7, <2>8, <5>1, <6>1
        <5>8. all[i] \in AudioFrames /\ all[g + 1] \in AudioFrames /\ missing \in AudioPackets
          BY <2>3, <2>7, <3>3, <5>4, <5>7 DEF whole
        <5> DEFINE x == all[i].id
                   y == all[g + 1].id
                   z == missing.id
        <5>9. x \in Nat /\ y \in Nat /\ z \in Nat
          BY <5>8 DEF AudioFrames, AudioPackets
        <5>10. x < z /\ z < y
          <6>1. x < z
            BY <5>5, <5>6
          <6>2. y > z
            BY <5>2, <5>3
          <6> HIDE DEF x, y, z
          <6> QED BY <5>9, <6>1, <6>2
        <5>11. g + 1 < i => y < x
          BY <2>7, <3>3, <5>7 DEF Spaced
        <5>12. g + 1 = i => y = x
          OBVIOUS
        <5> HIDE DEF x, y, z
        <5>13. ~ (g + 1 <= i)
          BY <2>8, <3>3, <5>9, <5>10, <5>11, <5>12
        <5> QED BY <2>8, <3>3, <5>13
      <4> QED BY <4>1, <4>2
    <3>5. i \in 1..g
      BY <2>8, <3>3, <3>4
    <3> QED BY <3>1, <3>2, <3>5
  <2>12. ASSUME NEW i \in 1..Len(track), NEW j \in 1..Len(track), i < j
         PROVE  track[i].id < track[j].id
    <3>1. i \in 1..Len(whole) /\ j \in 1..Len(whole)
      BY <2>3, <2>4
    <3>2. whole[i].id < whole[j].id
      BY <2>9, <2>12, <3>1 DEF Written
    <3> QED BY <2>4, <3>2
  <2>13. ~ after.started => track = <<>>
    <3>1. ~ after.started => Len(whole) = 0
      BY <2>9
    <3> QED BY <2>3, <2>4, <3>1
  <2>14. Written(track, all, g, after.base, after.last_video_ms)
    BY <2>11, <2>12 DEF Written
  <2>15. Placed(t, all, m)
    BY <2>6, <2>8, <2>13, <2>14 DEF Placed, g
  <2> HIDE DEF s
  <2> QED BY <2>1, <2>15 DEF s
<1> QED BY <1>2, <1>3

(***************************************************************************)
(* An aborted recording holds nothing back, and has no sound beyond its    *)
(* picture.                                                                *)
(***************************************************************************)
LEMMA AbortKeeps ==
  ASSUME NEW r \in Recordings, NEW all, NEW n, Takes(all, n), Placed(r, all, n), Abort(r)
  PROVE  recorder'.pending_audio = <<>> /\ Within(recorder')
<1>1. CASE recorder' = Finish(r)
  BY <1>1, FinishKeeps
<1>2. CASE recorder' = [r EXCEPT !.pending_audio = <<>>]
  <2>1. r \in RecordFields
    BY DEF Recordings
  <2>2. /\ recorder'.pending_audio = <<>> /\ recorder'.audio = r.audio
        /\ recorder'.last_video_ms = r.last_video_ms
    BY <1>2, <2>1 DEF RecordFields
  <2>3. Within(r)
    BY PlacedIsWithin
  <2> QED BY <2>2, <2>3 DEF Within
<1> QED BY <1>1, <1>2 DEF Abort

\* What waits when frame n of a batch is pushed.
Waiting(kind, before, frames, n) ==
    before.pending_audio \o (IF kind = "audio" THEN <<frames[n]>> ELSE <<>>)

\* A push from n frames of sound to m.
Onward(before, after, waiting, all, n, m) ==
    /\ before \in Recordings /\ after \in Recordings
    /\ before.started => after.started /\ after.base = before.base
    /\ Takes(all, n) /\ Takes(all, m)
    /\ Placed(before, all, n) /\ Placed(after, all, m)
    /\ waiting \in Seq(AudioFrames) /\ EndOf(waiting, all, m)

LEMMA FeedFailsKeeps ==
  ASSUME NEW kind, NEW frames, FeedFails(kind, frames), NEW all,
         \A i \in 1..Len(frames) :
             LET before == Before(kind, recorder, frames, i)
                 after == After(kind, recorder, frames, i)
             IN  \E n, m : Onward(before, after, Waiting(kind, before, frames, i), all, n, m)
  PROVE  recorder'.pending_audio = <<>> /\ Within(recorder')
<1>1. PICK i \in 1..Len(frames) :
         LET before == Before(kind, recorder, frames, i)
             after == After(kind, recorder, frames, i)
             waiting == Waiting(kind, before, frames, i)
             packets == Len(after.video \o after.audio) - Len(before.video \o before.audio)
         IN  \/ after.started /\ ~ before.started /\ Abort(before)
             \/ \E written \in 0..packets - 1 :
                    Abort(PushFailing(before, waiting, after, written))
  BY Zenon DEF FeedFails, Before, After, Waiting
<1> DEFINE before == Before(kind, recorder, frames, i)
           after == After(kind, recorder, frames, i)
           waiting == Waiting(kind, before, frames, i)
           packets == Len(after.video \o after.audio) - Len(before.video \o before.audio)
<1>2. PICK n, m : Onward(before, after, waiting, all, n, m)
  BY Zenon
<1>3. \/ Abort(before)
      \/ \E written \in 0..packets - 1 : Abort(PushFailing(before, waiting, after, written))
  BY <1>1, Zenon
<1> HIDE DEF before, after, waiting
<1>4. CASE Abort(before)
  BY <1>2, <1>4, AbortKeeps DEF Onward
<1>5. CASE \E written \in 0..packets - 1 : Abort(PushFailing(before, waiting, after, written))
  <2>1. PICK written \in 0..packets - 1 : Abort(PushFailing(before, waiting, after, written))
    BY <1>5
  <2> DEFINE s == PushFailing(before, waiting, after, written)
  <2>2. s \in Recordings
    BY <1>2, PushFailingIs DEF Onward
  <2>3. Placed(s, all, n) \/ Placed(s, all, m)
    BY <1>2, FailingPlaces DEF Onward
  <2> HIDE DEF s
  <2>4. Abort(s)
    BY <2>1 DEF s
  <2>5. Takes(all, n) /\ Takes(all, m)
    BY <1>2 DEF Onward
  <2>6. CASE Placed(s, all, n)
    BY <2>2, <2>4, <2>5, <2>6, AbortKeeps
  <2>7. CASE Placed(s, all, m)
    BY <2>2, <2>4, <2>5, <2>7, AbortKeeps
  <2> QED BY <2>3, <2>6, <2>7
<1> QED BY <1>3, <1>4, <1>5

-----------------------------------------------------------------------------
(* Sound on its way.                                                       *)

LEMMA SpacedPrefix ==
  ASSUME NEW q, NEW p, Len(p) \in Nat, Len(q) \in Nat, Len(p) <= Len(q),
         \A i \in 1..Len(p) : p[i] = q[i], Spaced(q)
  PROVE  Spaced(p)
<1>1. \A i \in 1..Len(p) : i \in 1..Len(q)
  OBVIOUS
<1> QED BY <1>1 DEF Spaced

\* What was given stays what it was when more is to come.
LEMMA MoreToCome ==
  ASSUME NEW r \in Recordings, NEW given \in Seq(AudioFrames), NEW frames \in Seq(AudioFrames),
         Spaced(given \o frames), Keeps(r, given, Len(given))
  PROVE  /\ Takes(given \o frames, Len(given))
         /\ Keeps(r, given \o frames, Len(given))
<1> DEFINE all == given \o frames
           n == Len(given)
           k == Past(r.pending_audio, n)
<1>1. /\ all \in Seq(AudioFrames) /\ n \in Nat /\ Len(all) = n + Len(frames)
      /\ \A i \in 1..n : all[i] = given[i] /\ i \in 1..Len(all)
  OBVIOUS
<1>2. Len(frames) \in Nat
  OBVIOUS
<1> HIDE DEF all, n
<1>3. Takes(all, n)
  BY <1>1, <1>2 DEF Takes, all
<1>4. /\ EndOf(r.pending_audio, given, n)
      /\ Written(r.audio, given, k, r.base, r.last_video_ms)
      /\ ~ r.started => r.audio = <<>>
      /\ \A i \in 1..k : Settled(r, given[i], given)
      /\ Ahead(r) /\ Brief(r.pending_audio)
  BY DEF Keeps, Placed, AllSettled, n
<1>5. Len(r.pending_audio) \in 0..n /\ k = n - Len(r.pending_audio)
  <2>1. Len(r.pending_audio) \in Nat
    BY DEF Recordings, RecordFields
  <2> QED BY <1>1, <1>4, <2>1 DEF EndOf, Past
<1>6. EndOf(r.pending_audio, all, n)
  <2>1. ASSUME NEW i \in 1..Len(r.pending_audio)
        PROVE  r.pending_audio[i] = all[Past(r.pending_audio, n) + i]
    <3>1. r.pending_audio[i] = given[k + i]
      BY <1>4 DEF EndOf
    <3>2. k + i \in 1..n
      BY <1>1, <1>5
    <3> QED BY <1>1, <3>1, <3>2
  <2> QED BY <1>4, <2>1 DEF EndOf
<1>7. \A i \in 1..k : i \in 1..n
  BY <1>1, <1>5
<1> HIDE DEF k
<1>8. Written(r.audio, all, k, r.base, r.last_video_ms)
  <2>1. ASSUME NEW j \in 1..Len(r.audio)
        PROVE  \E i \in 1..k : Stands(r.audio[j], all[i], r.base, r.last_video_ms)
    <3>1. PICK i \in 1..k : Stands(r.audio[j], given[i], r.base, r.last_video_ms)
      BY <1>4 DEF Written
    <3> QED BY <1>1, <1>7, <3>1
  <2> QED BY <1>4, <2>1 DEF Written
<1>9. ASSUME NEW i \in 1..k PROVE Settled(r, all[i], all)
  <2>1. Settled(r, given[i], given) /\ all[i] = given[i]
    BY <1>1, <1>4, <1>7
  <2>2. IsLate(given[i], given) => IsLate(all[i], all)
    BY <1>1, <2>1 DEF IsLate, n
  <2> QED BY <2>1, <2>2 DEF Settled
<1>10. Keeps(r, all, n)
  BY <1>4, <1>6, <1>8, <1>9 DEF Keeps, Placed, AllSettled, k
<1> QED BY <1>3, <1>10 DEF all, n

(***************************************************************************)
(* A drain of the audio channel.                                           *)
(***************************************************************************)
LEMMA SoundFed ==
  ASSUME SoundIInv, Feed("audio", audio_chan) \/ FeedFails("audio", audio_chan)
  PROVE  /\ status' = "open" =>
               /\ status = "open" /\ offered'.audio = offered.audio \o audio_chan
               /\ Keeps(recorder', offered'.audio, Len(offered'.audio))
         /\ status' # "open" => recorder'.pending_audio = <<>> /\ Within(recorder')
         /\ status' = "finished" => UNCHANGED <<status, recorder, offered>>
         /\ offered' \in [video : Seq(VideoFrames), audio : Seq(AudioFrames)]
<1> DEFINE given == offered.audio
           all == given \o audio_chan
           N == Len(given)
<1>1. /\ recorder \in Recordings /\ audio_chan \in Seq(AudioFrames)
      /\ given \in Seq(AudioFrames) /\ N \in Nat
      /\ Len(all) = N + Len(audio_chan) /\ all \in Seq(AudioFrames)
      /\ \A i \in 1..Len(audio_chan) : all[N + i] = audio_chan[i]
      /\ offered \in [video : Seq(VideoFrames), audio : Seq(AudioFrames)]
  <2>1. /\ recorder \in Recordings /\ audio_chan \in Seq(AudioFrames)
        /\ offered \in [video : Seq(VideoFrames), audio : Seq(AudioFrames)]
        /\ given \in Seq(AudioFrames)
    BY DEF SoundIInv, RecordIInv, RecordTypes, AudioFlows
  <2> HIDE DEF given
  <2> QED BY <2>1
<1>2. ASSUME status = "open"
      PROVE  Spaced(all) /\ Takes(all, N) /\ Keeps(recorder, all, N)
  <2>1. Spaced(all) /\ Keeps(recorder, given, N)
    BY <1>2 DEF SoundIInv, AudioFlows, Flows
  <2> HIDE DEF given
  <2> QED BY <1>1, <2>1, MoreToCome
<1>3. CASE Feed("audio", audio_chan)
  <2>1. CASE status = "open"
    <3>1. /\ UNCHANGED status /\ recorder' = Pushed("audio", recorder, audio_chan)
          /\ offered' = [offered EXCEPT !["audio"] = @ \o audio_chan]
      BY <1>3, <2>1 DEF Feed
    <3>2. /\ offered'.audio = all
          /\ offered' \in [video : Seq(VideoFrames), audio : Seq(AudioFrames)]
      BY <1>1, <3>1
    <3> HIDE DEF all, given
    <3>3. Keeps(recorder', all, N + Len(audio_chan))
      <4>1. N + Len(audio_chan) <= Len(all)
        BY <1>1
      <4>2. Takes(all, N) /\ Keeps(recorder, all, N)
        BY <1>2, <2>1
      <4>3. \A i \in 1..Len(audio_chan) : audio_chan[i] = all[N + i]
        BY <1>1
      <4> HIDE DEF N
      <4>4. Keeps(Pushed("audio", recorder, audio_chan), all, N + Len(audio_chan))
        BY <1>1, <4>1, <4>2, <4>3, PushedAudioKeeps
      <4> QED BY <3>1, <4>4
    <3>4. N + Len(audio_chan) = Len(all)
      BY <1>1
    <3> QED BY <1>1, <2>1, <3>1, <3>2, <3>3, <3>4 DEF all, given
  <2>2. CASE status # "open"
    <3>1. UNCHANGED <<status, recorder, offered>>
      BY <1>3, <2>2 DEF Feed
    <3> QED BY <1>1, <2>2, <3>1 DEF SoundIInv
  <2> QED BY <2>1, <2>2
<1>4. CASE FeedFails("audio", audio_chan)
  <2>1. status = "open" /\ status' = "broken" /\ UNCHANGED offered
    BY <1>4, Zenon DEF FeedFails, Abort
  <2> HIDE DEF given
  <2>2. ASSUME NEW i \in 1..Len(audio_chan)
        PROVE  LET before == Before("audio", recorder, audio_chan, i)
                   after == After("audio", recorder, audio_chan, i)
               IN  \E n, m : Onward(before, after, Waiting("audio", before, audio_chan, i),
                                    all, n, m)
    <3> DEFINE before == Before("audio", recorder, audio_chan, i)
               after == After("audio", recorder, audio_chan, i)
               waiting == Waiting("audio", before, audio_chan, i)
               front == SubSeq(audio_chan, 1, i - 1)
               a == audio_chan[i]
               n == N + (i - 1)
    <3>1. /\ front \in Seq(AudioFrames) /\ Len(front) = i - 1 /\ a \in AudioFrames
          /\ \A j \in 1..(i - 1) : front[j] = audio_chan[j]
      BY <1>1
    <3>2. /\ n \in Nat /\ n + 1 = N + i /\ n + 1 \in 0..Len(all) /\ n < Len(all)
          /\ N + Len(front) = n /\ N + Len(front) <= Len(all)
      BY <1>1, <3>1
    <3>3. \A j \in 1..Len(front) : front[j] = all[N + j]
      <4>1. \A j \in 1..Len(front) : j \in 1..(i - 1) /\ j \in 1..Len(audio_chan)
        BY <1>1, <3>1
      <4> QED BY <1>1, <3>1, <4>1
    <3>4. a = all[n + 1]
      BY <1>1, <3>2
    <3> HIDE DEF all, front, a, n, N
    <3>5. Takes(all, n) /\ Takes(all, n + 1)
      BY <1>1, <1>2, <2>1, <3>2 DEF Takes
    <3>6. before \in Recordings /\ Keeps(before, all, n)
      <4>1. Pushed("audio", recorder, front) \in Recordings
        BY <1>1, <3>1, PushedAudioIs
      <4>2. Keeps(Pushed("audio", recorder, front), all, N + Len(front))
        BY <1>1, <1>2, <2>1, <3>1, <3>2, <3>3, PushedAudioKeeps
      <4>3. before = Pushed("audio", recorder, front)
        BY DEF Before, front
      <4> QED BY <3>2, <4>1, <4>2, <4>3
    <3> HIDE DEF before
    <3>7. after = PushAudio(before, a)
      <4>1. after = Pushed("audio", before, <<a>>)
        BY DEF After, before, a
      <4> QED BY <3>1, <3>6, <4>1, PushedOne
    <3> HIDE DEF after
    <3>8. after \in Recordings /\ SamePicture(before, after)
      BY <3>1, <3>6, <3>7, PushAudioIs
    <3>9. Keeps(after, all, n + 1)
      BY <3>2, <3>4, <3>5, <3>6, <3>7, PushAudioKeeps
    <3>10. waiting = Append(before.pending_audio, a) /\ waiting \in Seq(AudioFrames)
      <4>1. before.pending_audio \in Seq(AudioFrames)
        BY <3>6 DEF Recordings, RecordFields
      <4> QED BY <3>1, <4>1 DEF Waiting, a
    <3>11. EndOf(waiting, all, n + 1)
      <4> DEFINE held == before.pending_audio
      <4>1. held \in Seq(AudioFrames) /\ EndOf(held, all, n)
        BY <3>6 DEF Recordings, RecordFields, Keeps, Placed
      <4> HIDE DEF held
      <4>2. EndOf(Append(held, a), all, n + 1)
        BY <3>1, <3>2, <3>4, <4>1, EndOfAppend
      <4> QED BY <3>10, <4>2 DEF held
    <3>12. Placed(before, all, n) /\ Placed(after, all, n + 1)
      BY <3>6, <3>9 DEF Keeps
    <3>13. Onward(before, after, waiting, all, n, n + 1)
      BY <3>5, <3>6, <3>8, <3>10, <3>11, <3>12 DEF Onward, SamePicture
    <3> QED BY <3>13 DEF before, after
  <2>3. recorder'.pending_audio = <<>> /\ Within(recorder')
    BY <1>4, <2>2, FeedFailsKeeps
  <2> QED BY <1>1, <2>1, <2>3 DEF given
<1> QED BY <1>3, <1>4

(***************************************************************************)
(* A drain of the video channel.                                           *)
(***************************************************************************)
LEMMA PictureFed ==
  ASSUME SoundIInv, Feed("video", video_chan) \/ FeedFails("video", video_chan)
  PROVE  /\ offered'.audio = offered.audio
         /\ offered' \in [video : Seq(VideoFrames), audio : Seq(AudioFrames)]
         /\ status' = "open" =>
               status = "open" /\ Keeps(recorder', offered.audio, Len(offered.audio))
         /\ status' # "open" => recorder'.pending_audio = <<>> /\ Within(recorder')
         /\ status' = "finished" => UNCHANGED <<status, recorder, offered>>
<1> DEFINE all == offered.audio
           N == Len(all)
<1>1. /\ recorder \in Recordings /\ video_chan \in Seq(VideoFrames)
      /\ offered \in [video : Seq(VideoFrames), audio : Seq(AudioFrames)]
      /\ audio_chan \in Seq(AudioFrames)
  BY DEF SoundIInv, RecordIInv, RecordTypes, AudioFlows
<1>2. all \in Seq(AudioFrames) /\ N \in Nat
  BY <1>1
<1>3. ASSUME status = "open" PROVE Takes(all, N) /\ Keeps(recorder, all, N)
  <2>1. Spaced(all \o audio_chan) /\ Keeps(recorder, all, N)
    BY <1>3 DEF SoundIInv, AudioFlows, Flows
  <2> HIDE DEF all
  <2>2. /\ Len(all \o audio_chan) \in Nat /\ Len(all) <= Len(all \o audio_chan)
        /\ \A i \in 1..Len(all) : all[i] = (all \o audio_chan)[i]
    BY <1>1, <1>2
  <2>3. Spaced(all)
    BY <1>2, <2>1, <2>2, SpacedPrefix
  <2> QED BY <1>2, <2>1, <2>3 DEF Takes
<1>4. CASE Feed("video", video_chan)
  <2>1. CASE status = "open"
    <3>1. /\ UNCHANGED status /\ recorder' = Pushed("video", recorder, video_chan)
          /\ offered' = [offered EXCEPT !["video"] = @ \o video_chan]
      BY <1>4, <2>1 DEF Feed
    <3>2. /\ offered'.audio = all
          /\ offered' \in [video : Seq(VideoFrames), audio : Seq(AudioFrames)]
      <4>1. offered.video \o video_chan \in Seq(VideoFrames)
        BY <1>1
      <4> QED BY <1>1, <3>1, <4>1
    <3> HIDE DEF all
    <3>3. Keeps(recorder', all, N)
      <4> HIDE DEF N
      <4> QED BY <1>1, <1>3, <2>1, <3>1, PushedVideoKeeps
    <3> QED BY <2>1, <3>1, <3>2, <3>3 DEF all
  <2>2. CASE status # "open"
    <3>1. UNCHANGED <<status, recorder, offered>>
      BY <1>4, <2>2 DEF Feed
    <3> QED BY <1>1, <2>2, <3>1 DEF SoundIInv
  <2> QED BY <2>1, <2>2
<1>5. CASE FeedFails("video", video_chan)
  <2>1. status = "open" /\ status' = "broken" /\ UNCHANGED offered
    BY <1>5, Zenon DEF FeedFails, Abort
  <2> HIDE DEF all
  <2>2. ASSUME NEW i \in 1..Len(video_chan)
        PROVE  LET before == Before("video", recorder, video_chan, i)
                   after == After("video", recorder, video_chan, i)
               IN  \E n, m : Onward(before, after, Waiting("video", before, video_chan, i),
                                    all, n, m)
    <3> DEFINE before == Before("video", recorder, video_chan, i)
               after == After("video", recorder, video_chan, i)
               waiting == Waiting("video", before, video_chan, i)
               front == SubSeq(video_chan, 1, i - 1)
               f == video_chan[i]
    <3>1. front \in Seq(VideoFrames) /\ f \in VideoFrames
      BY <1>1
    <3> HIDE DEF front, f, N
    <3>2. before \in Recordings /\ Keeps(before, all, N)
      <4>1. /\ Pushed("video", recorder, front) \in Recordings
            /\ Keeps(Pushed("video", recorder, front), all, N)
        BY <1>1, <1>3, <2>1, <3>1, PushedVideoKeeps
      <4>2. before = Pushed("video", recorder, front)
        BY DEF Before, front
      <4> QED BY <4>1, <4>2
    <3> HIDE DEF before
    <3>3. after = PushVideo(before, f)
      <4>1. after = Pushed("video", before, <<f>>)
        BY DEF After, before, f
      <4> QED BY <3>1, <3>2, <4>1, PushedOne
    <3> HIDE DEF after
    <3>4. /\ after \in Recordings
          /\ before.started => after.started /\ after.base = before.base
      BY <3>1, <3>2, <3>3, PushVideoIs
    <3>5. Keeps(after, all, N)
      BY <1>3, <2>1, <3>1, <3>2, <3>3, PushVideoKeeps
    <3>6. /\ waiting = before.pending_audio /\ waiting \in Seq(AudioFrames)
          /\ EndOf(waiting, all, N)
      <4>1. before.pending_audio \in Seq(AudioFrames)
        BY <3>2 DEF Recordings, RecordFields
      <4>2. EndOf(before.pending_audio, all, N)
        BY <3>2 DEF Keeps, Placed
      <4>3. waiting = before.pending_audio
        BY <4>1 DEF Waiting
      <4> QED BY <4>1, <4>2, <4>3
    <3>7. Placed(before, all, N) /\ Placed(after, all, N)
      BY <3>2, <3>5 DEF Keeps
    <3>8. Onward(before, after, waiting, all, N, N)
      BY <1>3, <2>1, <3>2, <3>4, <3>6, <3>7 DEF Onward
    <3> QED BY <3>8 DEF before, after
  <2>3. recorder'.pending_audio = <<>> /\ Within(recorder')
    BY <1>5, <2>2, FeedFailsKeeps
  <2> QED BY <1>1, <2>1, <2>3
<1> QED BY <1>4, <1>5

LEMMA FlowsBegin ==
  ASSUME NEW q \in Seq(AudioFrames), NEW p \in Seq(AudioFrames),
         NEW many, NEW now, Flows(q \o p, many, now)
  PROVE  Flows(q, many, now) /\ Flows(q \o <<>>, many, now)
<1>1. /\ Len(q) \in Nat /\ Len(q \o p) \in Nat /\ Len(q) <= Len(q \o p)
      /\ \A i \in 1..Len(q) : q[i] = (q \o p)[i] /\ i \in 1..Len(q \o p)
  OBVIOUS
<1>2. Spaced(q)
  BY <1>1, SpacedPrefix DEF Flows
<1>3. Flows(q, many, now)
  BY <1>1, <1>2 DEF Flows
<1>4. q \o <<>> = q
  OBVIOUS
<1> QED BY <1>3, <1>4

LEMMA FlowsEnd ==
  ASSUME NEW many, NEW now, NEW q, Flows(q, many, now),
         NEW rest \in Seq(AudioFrames), Len(rest) \in 0..Len(q),
         \A i \in 1..Len(rest) : rest[i] = q[Len(q) - Len(rest) + i]
  PROVE  Flows(rest, many, now)
<1> DEFINE g == Len(q) - Len(rest)
<1>1. q \in Seq(AudioFrames) /\ Len(q) \in Nat /\ g \in Nat
  BY DEF Flows
<1>2. \A i \in 1..Len(rest) : rest[i] = q[g + i] /\ g + i \in 1..Len(q)
  BY <1>1
<1> HIDE DEF g
<1>3. Spaced(rest)
  <2>1. ASSUME NEW i \in 1..Len(rest), NEW j \in 1..Len(rest), i < j
        PROVE  rest[i].id < rest[j].id /\ rest[i].ts + AudioSpacing <= rest[j].ts
    <3>1. g + i \in 1..Len(q) /\ g + j \in 1..Len(q) /\ g + i < g + j
      BY <1>1, <1>2, <2>1
    <3> QED BY <1>2, <3>1 DEF Flows, Spaced
  <2> QED BY <2>1 DEF Spaced
<1> QED BY <1>2, <1>3 DEF Flows

\* Another frame behind the others.
LEMMA FlowsOn ==
  ASSUME NEW many \in Nat, NEW now \in Nat, NEW q, Flows(q, many, now),
         NEW a \in AudioFrames, a.id = many + 1, many > 0 => a.ts >= now + AudioSpacing
  PROVE  /\ Flows(q, many + 1, a.ts)
         /\ Flows(Append(q, a), many + 1, a.ts)
<1> DEFINE more == Append(q, a)
<1>1. q \in Seq(AudioFrames) /\ Len(q) \in Nat
  BY DEF Flows
<1>2. /\ more \in Seq(AudioFrames) /\ Len(more) = Len(q) + 1
      /\ \A i \in 1..Len(q) : more[i] = q[i]
      /\ more[Len(q) + 1] = a
  BY <1>1
<1>3. ASSUME NEW i \in 1..Len(q)
      PROVE  /\ q[i].id \in 1..many /\ q[i].ts + AudioSpacing <= a.ts
             /\ q[i].id < a.id /\ q[i].ts <= a.ts
  <2>1. q[i].id \in 1..many /\ q[i].ts <= now
    BY DEF Flows
  <2>2. q[i] \in AudioFrames
    BY <1>1
  <2>3. q[i].ts \in Nat /\ a.ts \in Nat /\ many > 0
    BY <2>1, <2>2 DEF AudioFrames
  <2> QED BY <2>1, <2>3 DEF AudioSpacing
<1>4. Flows(q, many + 1, a.ts)
  <2>1. ASSUME NEW i \in 1..Len(q) PROVE q[i].id \in 1..(many + 1) /\ q[i].ts <= a.ts
    BY <1>3
  <2> QED BY <2>1 DEF Flows
<1> HIDE DEF more
<1>5. Spaced(more)
  <2>1. ASSUME NEW i \in 1..Len(more), NEW j \in 1..Len(more), i < j
        PROVE  more[i].id < more[j].id /\ more[i].ts + AudioSpacing <= more[j].ts
    <3>1. CASE j \in 1..Len(q)
      <4>1. i \in 1..Len(q)
        BY <1>1, <2>1, <3>1
      <4> QED BY <1>2, <2>1, <3>1, <4>1 DEF Flows, Spaced
    <3>2. CASE j = Len(q) + 1
      <4>1. i \in 1..Len(q)
        BY <1>1, <1>2, <2>1, <3>2
      <4> QED BY <1>2, <1>3, <3>2, <4>1
    <3> QED BY <1>1, <1>2, <3>1, <3>2
  <2> QED BY <2>1 DEF Spaced
<1>6. ASSUME NEW i \in 1..Len(more) PROVE more[i].id \in 1..(many + 1) /\ more[i].ts <= a.ts
  <2>1. CASE i \in 1..Len(q)
    BY <1>2, <1>3, <2>1
  <2>2. CASE i = Len(q) + 1
    BY <1>2, <2>2 DEF AudioFrames
  <2> QED BY <1>1, <1>2, <2>1, <2>2
<1> QED BY <1>2, <1>4, <1>5, <1>6 DEF Flows, more

-----------------------------------------------------------------------------
(* The invariant of the sound.                                             *)

LEMMA SoundInitially == RecordInit => SoundIInv
<1> SUFFICES ASSUME RecordInit PROVE SoundIInv
  OBVIOUS
<1>1. RecordIInv
  BY RecordInitially
<1>2. /\ newest \in [video : Nat, audio : Nat]
      /\ offered \in [video : Seq(VideoFrames), audio : Seq(AudioFrames)]
      /\ audio_ring \o audio_chan = <<>> /\ status = "none"
      /\ recorder.pending_audio = <<>> /\ recorder.audio = <<>>
  BY DEF RecordInit, Nothing, Started
<1>3. Flows(<<>>, emitted.audio, newest.audio)
  BY DEF Flows, Spaced
<1> QED BY <1>1, <1>2, <1>3 DEF SoundIInv, AudioFlows, Within

\* Steps that no sound is part of.
LEMMA SoundRests ==
  ASSUME SoundIInv, RecordIInv',
         newest' \in [video : Nat, audio : Nat], newest'.audio = newest.audio,
         emitted'.audio = emitted.audio, audio_chan' \in {<<>>, audio_chan},
         UNCHANGED <<audio_ring, status, recorder, offered>>
  PROVE  SoundIInv'
<1>1. audio_ring \in Seq(AudioFrames) /\ audio_chan \in Seq(AudioFrames)
      /\ offered.audio \in Seq(AudioFrames)
  BY DEF SoundIInv, RecordIInv, RecordTypes, AudioFlows
<1>2. Flows(audio_ring \o audio_chan', emitted.audio, newest.audio)
  BY <1>1, FlowsBegin DEF SoundIInv, AudioFlows
<1>3. status = "open" => Flows(offered.audio \o audio_chan', emitted.audio, newest.audio)
  BY <1>1, FlowsBegin DEF SoundIInv, AudioFlows
<1>4. AudioFlows'
  BY <1>2, <1>3 DEF SoundIInv, AudioFlows
<1> QED BY <1>4 DEF SoundIInv, Within, Complete

LEMMA ForwardVideoSounds ==
  ASSUME SoundIInv, RecordIInv', NEW f \in VideoFrames, ForwardVideo(f)
  PROVE  SoundIInv'
<1>1. /\ newest \in [video : Nat, audio : Nat] /\ emitted \in [video : Nat, audio : Nat]
      /\ f.dts \in Nat /\ f.id \in Nat
  BY DEF SoundIInv, AudioFlows, RecordIInv, RecordTypes, VideoFrames
<1>2. /\ emitted' = [emitted EXCEPT !.video = f.id]
      /\ newest' = [newest EXCEPT !.video = Later(@, f.dts)]
      /\ UNCHANGED <<audio_chan, audio_ring, status, recorder, offered>>
  BY DEF ForwardVideo, take
<1>3. Later(newest.video, f.dts) \in Nat
  BY <1>1 DEF Later
<1>4. newest' \in [video : Nat, audio : Nat] /\ newest'.audio = newest.audio
  BY <1>1, <1>2, <1>3
<1>5. emitted'.audio = emitted.audio
  BY <1>1, <1>2
<1> QED BY <1>2, <1>4, <1>5, SoundRests

LEMMA AppendBehind ==
  ASSUME NEW S, NEW p \in Seq(S), NEW q \in Seq(S), NEW a \in S
  PROVE  p \o Append(q, a) = Append(p \o q, a)
OBVIOUS

LEMMA ForwardAudioSounds ==
  ASSUME SoundIInv, RecordIInv', NEW a \in AudioFrames, a.id = emitted.audio + 1, ForwardAudio(a)
  PROVE  SoundIInv'
<1> DEFINE many == emitted.audio
           now == newest.audio
           ring == audio_ring \o audio_chan
           given == offered.audio \o audio_chan
<1>1. /\ newest \in [video : Nat, audio : Nat] /\ emitted \in [video : Nat, audio : Nat]
      /\ audio_chan \in Seq(AudioFrames) /\ audio_ring \in Seq(AudioFrames)
      /\ offered \in [video : Seq(VideoFrames), audio : Seq(AudioFrames)]
  BY DEF SoundIInv, AudioFlows, RecordIInv, RecordTypes
<1>2. /\ many > 0 => a.ts >= now + AudioSpacing
      /\ emitted' = [emitted EXCEPT !.audio = a.id]
      /\ newest' = [newest EXCEPT !.audio = a.ts]
      /\ audio_chan' \in {audio_chan, Append(audio_chan, a)}
      /\ UNCHANGED <<audio_ring, status, recorder, offered>>
  BY DEF ForwardAudio, take
<1>3. many \in Nat /\ now \in Nat /\ a.ts \in Nat
  BY <1>1 DEF AudioFrames
<1>4. /\ newest' \in [video : Nat, audio : Nat] /\ newest'.audio = a.ts
      /\ emitted'.audio = many + 1
  BY <1>1, <1>2, <1>3
<1>5. audio_ring \o Append(audio_chan, a) = Append(ring, a)
      /\ offered.audio \o Append(audio_chan, a) = Append(given, a)
  <2>1. offered.audio \in Seq(AudioFrames)
    BY <1>1
  <2> HIDE DEF many
  <2>2. audio_ring \o Append(audio_chan, a) = Append(ring, a)
    BY <1>1, AppendBehind
  <2>3. offered.audio \o Append(audio_chan, a) = Append(given, a)
    BY <1>1, <2>1, AppendBehind
  <2> QED BY <2>2, <2>3
<1>6. Flows(ring, many, now) /\ (status = "open" => Flows(given, many, now))
  BY DEF SoundIInv, AudioFlows
<1> HIDE DEF many, now, ring, given
<1>7. Flows(ring, many + 1, a.ts) /\ Flows(Append(ring, a), many + 1, a.ts)
  BY <1>2, <1>3, <1>6, FlowsOn DEF many
<1>8. status = "open" => Flows(given, many + 1, a.ts) /\ Flows(Append(given, a), many + 1, a.ts)
  BY <1>2, <1>3, <1>6, FlowsOn DEF many
<1>9. Flows((audio_ring \o audio_chan)', many + 1, a.ts)
  BY <1>2, <1>5, <1>7 DEF ring
<1>10. status' = "open" => Flows((offered.audio \o audio_chan)', many + 1, a.ts)
  BY <1>2, <1>5, <1>8 DEF given
<1>11. AudioFlows'
  BY <1>1, <1>2, <1>4, <1>9, <1>10 DEF AudioFlows
<1> QED BY <1>2, <1>11 DEF SoundIInv, Within, Complete

LEMMA DrainAudioSounds ==
  ASSUME SoundIInv, RecordIInv', DrainAudio
  PROVE  SoundIInv'
<1>1. /\ audio_chan' = <<>> /\ audio_ring' = IntoRing(audio_ring, audio_chan)
      /\ UNCHANGED <<emitted, newest>>
  BY DEF DrainAudio, session
<1>2. /\ audio_ring \in Seq(AudioFrames) /\ audio_chan \in Seq(AudioFrames)
      /\ audio_ring' \in Seq(AudioFrames)
      /\ offered \in [video : Seq(VideoFrames), audio : Seq(AudioFrames)]
      /\ newest \in [video : Nat, audio : Nat]
  BY DEF SoundIInv, RecordIInv, RecordTypes, AudioFlows
<1>3. /\ status' = "open" =>
            /\ status = "open" /\ offered'.audio = offered.audio \o audio_chan
            /\ Keeps(recorder', offered'.audio, Len(offered'.audio))
      /\ status' # "open" => recorder'.pending_audio = <<>> /\ Within(recorder')
      /\ status' = "finished" => UNCHANGED <<status, recorder, offered>>
      /\ offered' \in [video : Seq(VideoFrames), audio : Seq(AudioFrames)]
  BY SoundFed DEF DrainAudio
<1>4. Flows(audio_ring', emitted.audio, newest.audio)
  <2> DEFINE q == audio_ring \o audio_chan
             I == {i \in 1..Len(q) : q[i].ts >= Last(audio_chan).ts - AudioWindow}
             first == IF I # {} THEN Min(I) ELSE 0
             rest == IF first = 0 THEN <<>> ELSE SubSeq(q, first, Len(q))
  <2>1. Flows(q, emitted.audio, newest.audio)
    BY DEF SoundIInv, AudioFlows
  <2>2. IntoRing(audio_ring, audio_chan) = IF audio_chan = <<>> THEN audio_ring ELSE rest
    BY Zenon DEF IntoRing, From, SelectInSeq
  <2>3. /\ rest \in Seq(AudioFrames) /\ Len(rest) \in 0..Len(q)
        /\ \A i \in 1..Len(rest) : rest[i] = q[Len(q) - Len(rest) + i]
    <3>1. q \in Seq(AudioFrames) /\ I \in SUBSET (1..Len(q))
      BY <1>2
    <3> HIDE DEF q, I
    <3> QED BY <3>1, RestIs
  <2>4. Flows(audio_ring, emitted.audio, newest.audio)
    BY <1>2, <2>1, FlowsBegin
  <2> HIDE DEF q, rest
  <2>5. Flows(rest, emitted.audio, newest.audio)
    BY <2>1, <2>3, FlowsEnd
  <2> QED BY <1>1, <2>2, <2>4, <2>5
<1>5. audio_ring' \o <<>> = audio_ring'
  BY <1>2
<1>6. status' = "open" =>
          Flows(offered'.audio \o audio_chan', emitted.audio, newest.audio)
  <2> SUFFICES ASSUME status' = "open"
               PROVE  Flows(offered'.audio \o audio_chan', emitted.audio, newest.audio)
    OBVIOUS
  <2>1. Flows(offered.audio \o audio_chan, emitted.audio, newest.audio)
    BY <1>3 DEF SoundIInv, AudioFlows
  <2>2. offered'.audio \in Seq(AudioFrames)
    BY <1>3
  <2>3. offered'.audio \o <<>> = offered'.audio
    BY <2>2
  <2> QED BY <1>1, <1>3, <2>1, <2>3
<1>7. AudioFlows'
  BY <1>1, <1>2, <1>3, <1>4, <1>5, <1>6 DEF AudioFlows
<1>8. status' = "finished" => Complete(recorder', offered'.audio)
  BY <1>3 DEF SoundIInv
<1> QED BY <1>3, <1>7, <1>8 DEF SoundIInv

LEMMA DrainVideoSounds ==
  ASSUME SoundIInv, RecordIInv', DrainVideo
  PROVE  SoundIInv'
<1>1. UNCHANGED <<emitted, newest, audio_chan, audio_ring>>
  BY DEF DrainVideo
<1>2. /\ offered'.audio = offered.audio
      /\ offered' \in [video : Seq(VideoFrames), audio : Seq(AudioFrames)]
      /\ status' = "open" =>
            status = "open" /\ Keeps(recorder', offered.audio, Len(offered.audio))
      /\ status' # "open" => recorder'.pending_audio = <<>> /\ Within(recorder')
      /\ status' = "finished" => UNCHANGED <<status, recorder, offered>>
  BY PictureFed DEF DrainVideo
<1>3. AudioFlows'
  BY <1>1, <1>2 DEF SoundIInv, AudioFlows
<1>4. status' = "finished" => Complete(recorder', offered'.audio)
  BY <1>2 DEF SoundIInv
<1> QED BY <1>2, <1>3, <1>4 DEF SoundIInv

\* A recording starts with the end of the ring.
LEMMA StartRecordingSounds ==
  ASSUME SoundIInv, RecordIInv', StartRecording
  PROVE  SoundIInv'
<1> DEFINE q == audio_ring
           I == {i \in 1..Len(q) : q[i].ts >= Last(q).ts - AudioPreroll}
           first == IF I # {} THEN Min(I) ELSE 0
           seed == IF first = 0 THEN <<>> ELSE SubSeq(q, first, Len(q))
           n == Len(q) - Len(seed)
<1>1. /\ recorder' = Pushed("audio", Started, seed)
      /\ offered' = [Nothing EXCEPT !.audio = audio_ring]
      /\ status' = "open"
      /\ UNCHANGED <<emitted, newest, audio_chan, audio_ring>>
  BY Zenon DEF StartRecording, session, From, SelectInSeq
<1>2. /\ audio_ring \in Seq(AudioFrames) /\ audio_chan \in Seq(AudioFrames)
      /\ newest \in [video : Nat, audio : Nat]
      /\ Flows(audio_ring \o audio_chan, emitted.audio, newest.audio)
  BY DEF SoundIInv, RecordIInv, RecordTypes, AudioFlows
<1>3. /\ seed \in Seq(AudioFrames) /\ Len(seed) \in 0..Len(q)
      /\ \A i \in 1..Len(seed) : seed[i] = q[n + i]
      /\ \A i \in 1..n : i \notin I
  <2>1. q \in Seq(AudioFrames) /\ I \in SUBSET (1..Len(q))
    BY <1>2
  <2> HIDE DEF I, q
  <2> QED BY <2>1, RestIs
<1> HIDE DEF seed
<1>4. n \in 0..Len(audio_ring) /\ n + Len(seed) = Len(audio_ring)
  BY <1>2, <1>3
<1>5. Takes(audio_ring, n)
  <2>1. Spaced(audio_ring)
    BY <1>2, FlowsBegin DEF Flows
  <2> HIDE DEF n
  <2> QED BY <1>2, <1>4, <2>1 DEF Takes
<1>6. Started \in Recordings
  <2>1. <<>> \in Tracks
    BY DEF Tracks, Increasing
  <2>2. Started \in RecordFields /\ Started.video = <<>> /\ ~ Started.started
    BY <2>1 DEF Started, RecordFields
  <2> QED BY <2>2 DEF Recordings, Increasing
<1>7. Keeps(Started, audio_ring, n)
  <2>1. ~ Started.started /\ Started.audio = <<>> /\ Started.pending_audio = <<>>
    BY DEF Started
  <2>2. Past(<<>>, n) = n
    BY <1>4 DEF Past
  <2>3. ASSUME NEW i \in 1..n PROVE IsLate(audio_ring[i], audio_ring)
    <3> DEFINE len == Len(audio_ring)
    <3>1. i \in 1..len /\ len \in 1..len /\ i \notin I
      BY <1>2, <1>3, <1>4
    <3>2. Last(audio_ring) = audio_ring[len]
      BY DEF Last
    <3>3. audio_ring[i] \in AudioFrames /\ audio_ring[len] \in AudioFrames
      BY <1>2, <3>1
    <3>4. ~ (audio_ring[i].ts >= audio_ring[len].ts - AudioPreroll)
      BY <3>1, <3>2
    <3> DEFINE x == audio_ring[i].ts
               y == audio_ring[len].ts
    <3>5. x \in Nat /\ y \in Nat /\ ~ (x >= y - AudioPreroll)
      BY <3>3, <3>4 DEF AudioFrames
    <3> HIDE DEF x, y
    <3>6. y - x > AudioPreroll
      BY <3>5, AudioPrerollAssumption
    <3> QED BY <3>1, <3>6 DEF IsLate, x, y
  <2>4. Placed(Started, audio_ring, n)
    <3>1. EndOf(<<>>, audio_ring, n)
      BY <1>4 DEF EndOf
    <3> QED BY <2>1, <3>1 DEF Placed, Written
  <2>5. AllSettled(Started, audio_ring, n)
    <3> HIDE DEF n
    <3> QED BY <2>1, <2>2, <2>3 DEF AllSettled, Settled
  <2>6. Ahead(Started) /\ Brief(Started.pending_audio)
    BY <2>1 DEF Ahead, Brief
  <2> QED BY <2>4, <2>5, <2>6 DEF Keeps
<1>8. Keeps(recorder', audio_ring, Len(audio_ring))
  <2>1. \A i \in 1..Len(seed) : seed[i] = audio_ring[n + i]
    BY <1>3
  <2>2. n + Len(seed) <= Len(audio_ring)
    BY <1>2, <1>4
  <2> HIDE DEF n
  <2>3. Keeps(Pushed("audio", Started, seed), audio_ring, n + Len(seed))
    BY <1>3, <1>5, <1>6, <1>7, <2>1, <2>2, PushedAudioKeeps
  <2> QED BY <1>1, <1>4, <2>3
<1>9. /\ offered'.audio = audio_ring
      /\ offered' \in [video : Seq(VideoFrames), audio : Seq(AudioFrames)]
  <2>1. [Nothing EXCEPT !.audio = audio_ring] = [video |-> <<>>, audio |-> audio_ring]
    BY DEF Nothing
  <2>2. offered' = [video |-> <<>>, audio |-> audio_ring]
    BY <1>1, <2>1, Zenon
  <2>3. <<>> \in Seq(VideoFrames)
    OBVIOUS
  <2> QED BY <1>2, <2>2, <2>3
<1>10. AudioFlows'
  BY <1>1, <1>2, <1>9 DEF AudioFlows
<1> QED BY <1>1, <1>8, <1>9, <1>10 DEF SoundIInv

LEMMA StopRecordingSounds ==
  ASSUME SoundIInv, RecordIInv', StopRecording
  PROVE  SoundIInv'
<1> DEFINE all == offered.audio
           n == Len(all)
<1>1. /\ status = "open" /\ status' = "finished" /\ recorder' = Finish(recorder)
      /\ UNCHANGED <<offered, emitted, newest, audio_chan, audio_ring>>
  BY DEF StopRecording, session
<1>2. /\ recorder \in Recordings /\ audio_chan \in Seq(AudioFrames)
      /\ all \in Seq(AudioFrames)
      /\ Flows(all \o audio_chan, emitted.audio, newest.audio)
      /\ Keeps(recorder, all, n)
  BY <1>1 DEF SoundIInv, RecordIInv, RecordTypes, AudioFlows
<1>3. AudioFlows'
  BY <1>1 DEF SoundIInv, AudioFlows
<1> HIDE DEF all
<1>4. Takes(all, n)
  <2>1. Spaced(all)
    BY <1>2, FlowsBegin DEF Flows
  <2> QED BY <1>2, <2>1 DEF Takes
<1>5. /\ recorder'.pending_audio = <<>> /\ Within(recorder')
      /\ Complete(recorder', all)
  <2>1. Placed(recorder, all, n)
    BY <1>2 DEF Keeps
  <2>2. n = Len(all)
    OBVIOUS
  <2> HIDE DEF n
  <2> QED BY <1>1, <1>2, <1>4, <2>1, <2>2, FinishKeeps
<1> QED BY <1>1, <1>3, <1>5 DEF SoundIInv, all

LEMMA SoundStep == SoundIInv /\ [RecordNext]_recordVars => SoundIInv'
<1> SUFFICES ASSUME SoundIInv, [RecordNext]_recordVars PROVE SoundIInv'
  OBVIOUS
<1>1. RecordIInv'
  BY RecordStep DEF SoundIInv
<1>2. newest \in [video : Nat, audio : Nat] /\ emitted \in [video : Nat, audio : Nat]
  BY DEF SoundIInv, AudioFlows, RecordIInv, RecordTypes
<1>3. ASSUME NEW dts \in VideoTimes, NEW lead \in PtsLeads, NEW key \in BOOLEAN,
             ForwardVideo([id |-> emitted.video + 1, key |-> key,
                           dts |-> dts, pts |-> dts + lead])
      PROVE  SoundIInv'
  <2> DEFINE f == [id |-> emitted.video + 1, key |-> key, dts |-> dts, pts |-> dts + lead]
  <2>1. f \in VideoFrames
    <3>1. dts \in Nat /\ lead \in Nat /\ emitted.video \in Nat
      BY <1>2, RecordPathAssumption
    <3> QED BY <3>1 DEF VideoFrames
  <2>2. ForwardVideo(f)
    BY <1>3
  <2> HIDE DEF f
  <2> QED BY <1>1, <2>1, <2>2, ForwardVideoSounds
<1>4. ASSUME NEW ts \in AudioTimes, ForwardAudio([id |-> emitted.audio + 1, ts |-> ts])
      PROVE  SoundIInv'
  <2> DEFINE a == [id |-> emitted.audio + 1, ts |-> ts]
  <2>1. a \in AudioFrames /\ a.id = emitted.audio + 1
    <3>1. ts \in Nat /\ emitted.audio \in Nat
      BY <1>2, RecordPathAssumption
    <3> QED BY <3>1 DEF AudioFrames
  <2>2. ForwardAudio(a)
    BY <1>4
  <2> HIDE DEF a
  <2> QED BY <1>1, <2>1, <2>2, ForwardAudioSounds
<1>5. CASE StopCapture \/ StartCapture \/ UNCHANGED recordVars
  <2>1. /\ UNCHANGED <<emitted, newest, audio_ring, status, recorder, offered>>
        /\ audio_chan' \in {<<>>, audio_chan}
    BY <1>5 DEF StopCapture, StartCapture, recordVars, take
  <2> QED BY <1>1, <1>2, <2>1, SoundRests
<1> QED
  BY <1>1, <1>3, <1>4, <1>5, DrainAudioSounds, DrainVideoSounds, StartRecordingSounds,
     StopRecordingSounds DEF RecordNext

LEMMA SoundInvariance == RecordSpec => []SoundIInv
BY SoundInitially, SoundStep, PTL DEF RecordSpec

(***************************************************************************)
(* The sound of every recording is all that belongs to its picture and no  *)
(* more, and what waits for a picture is bounded: whatever order sound and *)
(* picture arrive in, wherever in the ring's sound a recording starts, and *)
(* whichever write fails.                                                  *)
(***************************************************************************)
THEOREM SoundIsInPlace == RecordSpec => []AudioInPlace
<1>1. ASSUME SoundIInv PROVE AudioInPlace
  <2> DEFINE all == offered.audio
             n == Len(all)
             track == recorder.audio
  <2>1. /\ recorder \in Recordings /\ audio_chan \in Seq(AudioFrames)
        /\ all \in Seq(AudioFrames)
    BY <1>1 DEF SoundIInv, RecordIInv, RecordTypes, AudioFlows
  <2>2. track \in Seq(AudioPackets)
    BY <2>1 DEF Recordings, RecordFields, Tracks
  <2>3. status = "open" => Takes(all, n) /\ Keeps(recorder, all, n)
    <3> SUFFICES ASSUME status = "open" PROVE Takes(all, n) /\ Keeps(recorder, all, n)
      OBVIOUS
    <3>1. /\ Flows(all \o audio_chan, emitted.audio, newest.audio)
          /\ Keeps(recorder, all, n)
      BY <1>1 DEF SoundIInv, AudioFlows
    <3> HIDE DEF all
    <3>2. Spaced(all)
      BY <2>1, <3>1, FlowsBegin DEF Flows
    <3> QED BY <2>1, <3>1, <3>2 DEF Takes
  <2>4. Within(recorder)
    BY <1>1, <2>3, PlacedIsWithin DEF SoundIInv, Keeps
  <2>5. AudioWithinVideo
    BY <2>2, <2>4 DEF Within, AudioWithinVideo, ToSet
  <2>6. status \in {"open", "finished"} => Complete(recorder, all)
    <3>1. CASE status = "open"
      <4> HIDE DEF all
      <4> QED BY <2>1, <2>3, <3>1, KeptIsComplete
    <3>2. CASE status = "finished"
      BY <1>1, <3>2 DEF SoundIInv
    <3> QED BY <3>1, <3>2
  <2>7. AudioComplete
    <3> DEFINE written == {p.id : p \in ToSet(track)}
    <3> SUFFICES ASSUME status \in {"open", "finished"}, recorder.started
                 PROVE  /\ \A i, j \in 1..Len(track) : i < j => track[i].id < track[j].id
                        /\ \A a \in ToSet(all) :
                              AudioMs(a, recorder.base) \in 0..recorder.last_video_ms =>
                                  \/ a.id \in written
                                  \/ \E b \in ToSet(all) : b.ts - a.ts > AudioPreroll
      BY DEF AudioComplete
    <3>1. Complete(recorder, all)
      BY <2>6
    <3>2. ASSUME NEW a \in ToSet(all),
                 AudioMs(a, recorder.base) \in 0..recorder.last_video_ms
          PROVE  a.id \in written \/ \E b \in ToSet(all) : b.ts - a.ts > AudioPreroll
      <4>1. PICK i \in 1..Len(all) : a = all[i]
        BY <2>1 DEF ToSet
      <4>2. IsWritten(a, track) \/ IsLate(a, all)
        BY <3>1, <3>2, <4>1 DEF Complete
      <4>3. CASE IsWritten(a, track)
        <5>1. PICK j \in 1..Len(track) : track[j].id = a.id
          BY <4>3 DEF IsWritten
        <5>2. track[j] \in ToSet(track)
          BY <2>2 DEF ToSet
        <5> QED BY <5>1, <5>2
      <4>4. CASE IsLate(a, all)
        <5>1. PICK j \in 1..Len(all) : all[j].ts - a.ts > AudioPreroll
          BY <4>4 DEF IsLate
        <5>2. all[j] \in ToSet(all)
          BY <2>1 DEF ToSet
        <5> QED BY <5>1, <5>2
      <4> QED BY <4>2, <4>3, <4>4
    <3> QED BY <3>1, <3>2 DEF Complete
  <2>8. HeldAudioBounded
    <3>1. status = "open" => Brief(recorder.pending_audio)
      BY <2>3 DEF Keeps
    <3>2. status # "open" => recorder.pending_audio = <<>>
      BY <1>1 DEF SoundIInv
    <3> QED BY <3>1, <3>2 DEF HeldAudioBounded, Brief, Last
  <2> QED BY <2>5, <2>7, <2>8 DEF AudioInPlace
<1> QED BY <1>1, SoundInvariance, PTL

=============================================================================
