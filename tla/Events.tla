-------------------------------- MODULE Events --------------------------------
(* How ordd tells its clients what happens: the connection threads, the      *)
(* capture supervisor and the pump change the daemon's state under the       *)
(* handler lock and broadcast after releasing it; every subscriber has a     *)
(* bounded queue and a writer thread of its own.                             *)
EXTENDS Integers, Sequences

CONSTANTS
    Clients,    \* connections that send commands
    Followers,  \* connections that subscribe
    QueueLen,   \* events a subscriber's queue holds (64 in the code)
    WireLen,    \* events its socket holds
    MaxStimuli, \* what clients, supervisor and disk do, at most
    MaxStops    \* times the daemon stops, at most

ASSUME LimitsAssumption == QueueLen > 0 /\ WireLen > 0

VARIABLES
    daemon, \* up, the armed buffer, the recording and its faults, the key setting
    todo,   \* thread -> what it still does: write, reply, broadcasts
    log,    \* every event broadcast since the daemon started
    subs,   \* follower -> its connection; "seen" counts the broadcasts it has read
            \* or that came before its snapshot, "clean" is that no change fell
            \* between the snapshot and its registration
    used    \* stimuli and stops so far

eventVars == <<daemon, todo, log, subs, used>>

Supervisor == "supervisor"
Pump == "pump"
Threads == Clients \cup {Supervisor, Pump}

Ev(kind, value) == [kind |-> kind, value |-> value]
None == Ev("none", FALSE)
Post(event) == [do |-> "post", event |-> event]
Reply == [do |-> "reply", event |-> None]
WriteFile == [do |-> "write", event |-> None]

Away == [link |-> "away", snap |-> None, queue |-> << >>, wire |-> << >>, listed |-> FALSE,
         greeted |-> FALSE, seen |-> 0, clean |-> FALSE]

-----------------------------------------------------------------------------
(* Threads of the daemon.                                                    *)
Idle(t) == daemon.up /\ todo[t] = << >>
Does(t, what) == daemon.up /\ todo[t] # << >> /\ Head(todo[t]).do = what
Stimulate == used.stimuli < MaxStimuli /\ used' = [used EXCEPT !.stimuli = @ + 1]

\* Draining the capture finds a recording that can no longer be written.
Drained == IF daemon.recording /\ daemon.broken
           THEN [daemon EXCEPT !.recording = FALSE, !.broken = FALSE, !.fault = TRUE]
           ELSE daemon

\* A change of the buffer makes the snapshots under way old.
Become(d) ==
    /\ daemon' = d
    /\ subs' = [s \in Followers |->
         IF subs[s].link = "snapped" /\ (d.buffer # daemon.buffer \/ d.keys # daemon.keys)
         THEN [subs[s] EXCEPT !.clean = FALSE] ELSE subs[s]]
Then(t, steps) == todo' = [todo EXCEPT ![t] = steps]

ToggleRecord(c) ==
    /\ Idle(c) /\ Stimulate
    /\ LET d == Drained IN
        \/ \E ok \in BOOLEAN :
            /\ d.recording
            /\ Become([d EXCEPT !.recording = FALSE, !.broken = FALSE])
            /\ Then(c, IF ok THEN <<Reply, Post(Ev("record", FALSE))>> ELSE <<Reply>>)
        \/ /\ ~d.recording
           /\ Become([d EXCEPT !.recording = TRUE])
           /\ Then(c, <<Reply, Post(Ev("record", TRUE))>>)
        \/ /\ ~d.recording
           /\ Become(d)
           /\ Then(c, <<Reply>>)
    /\ UNCHANGED log

\* SaveLast and Screenshot: selected under the lock, written without it.
SaveLast(c) ==
    /\ Idle(c) /\ Stimulate
    /\ Become(Drained)
    /\ Then(c, IF daemon.buffer THEN <<WriteFile, Reply, Post(Ev("saved", TRUE))>> ELSE <<Reply>>)
    /\ UNCHANGED log

\* A mark may save as well, and tells of the clip before it replies.
Mark(c) ==
    /\ Idle(c) /\ Stimulate
    /\ Become(Drained)
    /\ Then(c, IF ~daemon.buffer THEN <<Reply>>
               ELSE <<WriteFile, Post(Ev("saved", TRUE)), Reply, Post(Ev("marked", TRUE))>>)
    /\ UNCHANGED log

\* apply_config: shared first, broadcast later, and not at all when the
\* capture does not start with it.
SetConfig(c) ==
    /\ Idle(c) /\ Stimulate
    /\ \E keys \in BOOLEAN, fails \in BOOLEAN :
        /\ Become([daemon EXCEPT !.keys = keys])
        /\ Then(c, IF fails THEN <<Reply>> ELSE <<Post(Ev("config", keys)), Reply>>)
    /\ UNCHANGED log

\* The clip is written, or it is not and nothing is told of it.
WriteDone(t) ==
    /\ Does(t, "write")
    /\ LET rest == Tail(todo[t]) IN
        \/ Then(t, rest)
        \/ \E i \in DOMAIN rest :
            /\ rest[i] = Post(Ev("saved", TRUE))
            /\ Then(t, SubSeq(rest, 1, i - 1) \o SubSeq(rest, i + 1, Len(rest)))
    /\ UNCHANGED <<daemon, log, subs, used>>

\* A reply that cannot be written ends the connection and its broadcasts.
WriteReply(t) ==
    /\ Does(t, "reply")
    /\ Then(t, Tail(todo[t])) \/ Then(t, << >>)
    /\ UNCHANGED <<daemon, log, subs, used>>

\* The supervisor: an engine exchanged takes an unreported fault with it,
\* and only a swap tells of the recording it ends.
Supervise ==
    /\ Idle(Supervisor) /\ Stimulate
    /\ LET cut == [daemon EXCEPT !.recording = FALSE, !.broken = FALSE, !.fault = FALSE] IN
        \/ /\ ~daemon.buffer
           /\ Become([daemon EXCEPT !.buffer = TRUE, !.fault = FALSE])
           /\ Then(Supervisor, <<Post(Ev("buffer", TRUE))>>)
        \/ /\ Become([cut EXCEPT !.buffer = FALSE])
           /\ Then(Supervisor, <<Post(Ev("buffer", FALSE))>>)
        \/ /\ daemon.buffer
           /\ Become(cut)
           /\ Then(Supervisor, <<Post(Ev("restarted", TRUE))>>)
        \/ /\ Become(cut)
           /\ Then(Supervisor, IF daemon.recording
                               THEN <<Post(Ev("record", FALSE)), Post(Ev("restarted", TRUE))>>
                               ELSE <<Post(Ev("restarted", TRUE))>>)
    /\ UNCHANGED log

\* events_for_recording_fault.
FaultEvents == <<Post(Ev("error", TRUE)), Post(Ev("record", FALSE))>>

\* The pump's tick: what it or another drain found is told by the pump.
PumpDrains ==
    /\ Idle(Pump) /\ Drained.fault
    /\ Become([Drained EXCEPT !.fault = FALSE])
    /\ Then(Pump, FaultEvents)
    /\ UNCHANGED <<log, used>>

\* take_encode_alarm: capture runs, and encodes far below what is asked.
EncodeAlarm ==
    /\ Idle(Pump) /\ daemon.buffer /\ ~Drained.fault /\ Stimulate
    /\ Then(Pump, <<Post(Ev("error", TRUE))>>)
    /\ UNCHANGED <<daemon, log, subs>>

DiskFails ==
    /\ daemon.up /\ daemon.recording /\ ~daemon.broken /\ Stimulate
    /\ daemon' = [daemon EXCEPT !.broken = TRUE]
    /\ UNCHANGED <<todo, log, subs>>

-----------------------------------------------------------------------------
(* Subscribers.                                                              *)

\* A fault: the broadcast waits for room in every queue.
BroadcastWaiting(t) ==
    /\ Does(t, "post")
    /\ \A s \in Followers : subs[s].listed => Len(subs[s].queue) < QueueLen
    /\ LET event == Head(todo[t]).event IN
        /\ log' = Append(log, event)
        /\ subs' = [s \in Followers |-> IF subs[s].listed
                        THEN [subs[s] EXCEPT !.queue = Append(@, event)] ELSE subs[s]]
    /\ Then(t, Tail(todo[t]))
    /\ UNCHANGED <<daemon, used>>

\* broadcast: under the list's lock; a full queue drops its subscriber.
Broadcast(t) ==
    /\ Does(t, "post")
    /\ LET event == Head(todo[t]).event IN
        /\ log' = Append(log, event)
        /\ subs' = [s \in Followers |->
             IF ~subs[s].listed THEN subs[s]
             ELSE IF Len(subs[s].queue) < QueueLen
             THEN [subs[s] EXCEPT !.queue = Append(@, event)]
             ELSE [subs[s] EXCEPT !.listed = FALSE]]
    /\ Then(t, Tail(todo[t]))
    /\ UNCHANGED <<daemon, used>>

Connect(s) ==
    /\ daemon.up /\ subs[s].link = "away"
    /\ subs' = [subs EXCEPT ![s] = [Away EXCEPT !.link = "asked"]]
    /\ UNCHANGED <<daemon, todo, log, used>>

\* The status snapshot, taken under the handler lock.
Snapshot(s) ==
    /\ daemon.up /\ subs[s].link = "asked"
    /\ daemon' = Drained
    /\ subs' = [subs EXCEPT ![s].link = "snapped", ![s].clean = TRUE,
                            ![s].snap = Ev("status", daemon.buffer)]
    /\ UNCHANGED <<todo, log, used>>

\* A fault: the snapshot is written first and the subscriber listed afterwards.
AddSubscriberLate(s) ==
    /\ daemon.up /\ subs[s].link = "snapped"
    /\ subs' = IF subs[s].snap # None
               THEN [subs EXCEPT ![s].wire = <<subs[s].snap>>, ![s].snap = None]
               ELSE [subs EXCEPT ![s].link = "live", ![s].listed = TRUE]
    /\ UNCHANGED <<daemon, todo, log, used>>

\* add_subscriber: snapshot queued and subscriber listed under one lock.
AddSubscriber(s) ==
    /\ daemon.up /\ subs[s].link = "snapped"
    /\ subs' = [subs EXCEPT ![s].link = "live", ![s].listed = TRUE, ![s].queue = <<subs[s].snap>>,
                            ![s].snap = None]
    /\ UNCHANGED <<daemon, todo, log, used>>

\* The writer thread of a subscriber; it ends with its queue.
WriteFrame(s) ==
    /\ daemon.up /\ subs[s].queue # << >> /\ Len(subs[s].wire) < WireLen
    /\ subs' = [subs EXCEPT ![s].queue = Tail(@), ![s].wire = Append(@, Head(subs[s].queue))]
    /\ UNCHANGED <<daemon, todo, log, used>>

CloseStream(s) ==
    /\ daemon.up /\ subs[s].link = "live" /\ ~subs[s].listed /\ subs[s].queue = << >>
    /\ subs' = [subs EXCEPT ![s].link = "closed"]
    /\ UNCHANGED <<daemon, todo, log, used>>

\* What is on its way to a follower.
Coming(s) == subs[s].wire \o subs[s].queue

Read(s) ==
    /\ subs[s].wire # << >>
    /\ LET event == Head(subs[s].wire) IN
        subs' = [subs EXCEPT ![s].wire = Tail(@), ![s].greeted = TRUE,
                             ![s].seen = IF event.kind = "status" THEN Len(log) - Len(Coming(s)) + 1
                                          ELSE @ + 1]
    /\ UNCHANGED <<daemon, todo, log, used>>

EndOfStream(s) == subs[s].link = "closed" /\ subs[s].wire = << >>
Leave(s) ==
    /\ EndOfStream(s)
    /\ subs' = [subs EXCEPT ![s] = Away]
    /\ UNCHANGED <<daemon, todo, log, used>>

-----------------------------------------------------------------------------
Stop ==
    /\ daemon.up /\ used.stops < MaxStops /\ used' = [used EXCEPT !.stops = @ + 1]
    /\ daemon' = [daemon EXCEPT !.up = FALSE, !.buffer = FALSE, !.recording = FALSE,
                                !.broken = FALSE, !.fault = FALSE]
    /\ todo' = [t \in Threads |-> << >>]
    /\ subs' = [s \in Followers |-> IF subs[s].link = "away" THEN subs[s]
                    ELSE [subs[s] EXCEPT !.link = "closed", !.queue = << >>, !.listed = FALSE]]
    /\ UNCHANGED log

Start ==
    /\ ~daemon.up
    /\ daemon' = [daemon EXCEPT !.up = TRUE]
    /\ log' = << >>
    /\ UNCHANGED <<todo, subs, used>>

\* Handler::new, before the first capture session.
NewDaemon == [up |-> TRUE, buffer |-> FALSE, recording |-> FALSE, broken |-> FALSE,
              fault |-> FALSE, keys |-> FALSE]

EventsInit ==
    /\ daemon = NewDaemon
    /\ todo = [t \in Threads |-> << >>]
    /\ log = << >>
    /\ subs = [s \in Followers |-> Away]
    /\ used = [stimuli |-> 0, stops |-> 0]

Daemon ==
    \/ \E c \in Clients : ToggleRecord(c) \/ SaveLast(c) \/ Mark(c) \/ SetConfig(c)
    \/ \E t \in Threads : WriteDone(t) \/ WriteReply(t) \/ Broadcast(t)
    \/ Supervise \/ PumpDrains \/ EncodeAlarm \/ DiskFails
    \/ \E s \in Followers : Snapshot(s) \/ AddSubscriber(s) \/ WriteFrame(s) \/ CloseStream(s)
    \/ Stop \/ Start

\* The daemon's threads run; what a follower does is up to it.
EventsFairness ==
    /\ WF_eventVars(PumpDrains)
    /\ \A t \in Threads : WF_eventVars(WriteDone(t) \/ WriteReply(t) \/ Broadcast(t))
    /\ \A s \in Followers : WF_eventVars(Snapshot(s) \/ AddSubscriber(s))
    /\ \A s \in Followers : WF_eventVars(WriteFrame(s)) /\ WF_eventVars(CloseStream(s))
    /\ WF_eventVars(Start)

-----------------------------------------------------------------------------
(* Properties.                                                               *)

SuffixOf(t, s) == Len(t) <= Len(s) /\ t = SubSeq(s, Len(s) - Len(t) + 1, Len(s))

\* Once a client has read its snapshot it misses no event, until it is
\* dropped for not reading; and all subscribers see one order (add_subscriber
\* and broadcast): what is on its way is the end of the broadcasts, and with
\* what it has read since it is all of them.
NothingMissed ==
    \A s \in Followers : subs[s].listed /\ subs[s].greeted =>
        SuffixOf(Coming(s), log) /\ subs[s].seen + Len(Coming(s)) = Len(log)

\* No subscriber that stops reading keeps the pump from finding that a
\* recording broke and telling the others of it (broadcast never blocks). An
\* engine exchanged meanwhile takes the report with it.
FaultsAreTold ==
    (daemon.broken \/ daemon.fault) ~> (~daemon.broken /\ ~daemon.fault /\ todo[Pump] = << >>)
=============================================================================
