------------------------------- MODULE HudProofs -------------------------------
(***************************************************************************)
(* What TLAPS proves of the daemon's broadcasts and of the overlay, for any *)
(* number of clients and any length of the queues: a follower misses        *)
(* nothing, and the overlay shows what is true.                             *)
(***************************************************************************)
EXTENDS Hud, SequenceTheorems, TLAPS

\* What is told of everything but the buffer, and what a thread can have left to do.
Kinds == {"record", "saved", "marked", "config", "restarted", "error"}
News == [kind : Kinds, value : BOOLEAN]
Events == [kind : Kinds \cup {"none", "status", "buffer"}, value : BOOLEAN]
Steps == {Reply, WriteFile} \cup {Post(event) : event \in News}

Subscriber == [link : {"away", "asked", "snapped", "live", "closed"}, snap : Events,
               queue : Seq(Events), wire : Seq(Events), listed : BOOLEAN, greeted : BOOLEAN,
               seen : Int, clean : BOOLEAN]

State == [up : BOOLEAN, buffer : BOOLEAN, recording : BOOLEAN, broken : BOOLEAN,
          fault : BOOLEAN, keys : BOOLEAN]

Typed ==
    /\ daemon \in State
    /\ log \in Seq(Events)
    /\ subs \in [Followers -> Subscriber]
    /\ DOMAIN todo = Threads

\* Only the supervisor tells of the buffer, and nothing else before it has.
Announcing == <<Post(Ev("buffer", daemon.buffer))>>
Pending ==
    \A t \in Threads : todo[t] \in Seq(Steps) \/ (t = Supervisor /\ todo[t] = Announcing)

\* What is broadcast is not a snapshot.
LogIsNews == \A i \in DOMAIN log : log[i].kind # "status"

\* A follower that is not registered yet has been sent nothing.  One that is gets
\* its snapshot first, and then all that was told since.
Follows(sub, up, told) ==
    LET coming == sub.wire \o sub.queue IN
    /\ sub.link \in {"away", "asked", "snapped"} =>
          sub.wire = <<>> /\ sub.queue = <<>> /\ ~sub.greeted /\ ~sub.listed
    /\ sub.link = "snapped" => sub.snap.kind = "status"
    /\ sub.listed =>
          /\ up /\ sub.link = "live"
          /\ sub.greeted => SuffixOf(coming, told) /\ sub.seen + Len(coming) = Len(told)
          /\ ~sub.greeted =>
                /\ coming # <<>> /\ coming[1].kind = "status"
                /\ SuffixOf(Tail(coming), told)

Following == \A s \in Followers : Follows(subs[s], daemon.up, log)

\* The last report of the buffer in q is the truth, or what is shown without one.
Reports == {"buffer", "status"}
Settles(q, shown, truth) ==
    \/ \E i \in DOMAIN q : /\ q[i].kind \in Reports /\ q[i].value = truth
                           /\ \A j \in DOMAIN q : j > i => q[j].kind \notin Reports
    \/ shown = truth /\ \A i \in DOMAIN q : q[i].kind \notin Reports

\* The overlay has been told, or will be told last, of the buffer there is.
Truthful ==
    /\ subs[H].link = "snapped" /\ subs[H].clean => subs[H].snap = Ev("status", daemon.buffer)
    /\ subs[H].listed /\ subs[H].clean /\ todo[Supervisor] \in Seq(Steps) =>
          Settles(hud.inbox \o Coming(H), hud.buffer, daemon.buffer)

Overlay ==
    /\ hud \in [at : {"connect", "fetch", "live"}, offline : BOOLEAN, buffer : BOOLEAN,
                inbox : Seq(Events)]
    /\ hud.at = "connect" => subs[H].link = "away"
    /\ hud.at # "connect" => ~hud.offline

KeyState == [on : BOOLEAN, down : BOOLEAN, shown : BOOLEAN,
             reader : {"none", "running", "ended"},
             mail : {<<>>, <<"press">>, <<"release">>, <<"error">>}, failed : BOOLEAN]

Discreet(k) ==
    /\ k \in KeyState
    /\ ~k.on => ~k.shown /\ ~k.down /\ k.reader = "none" /\ k.mail = <<>>

Keyboard == Discreet(keys)

IInv == Typed /\ Pending /\ LogIsNews /\ Following /\ Truthful /\ Overlay /\ Keyboard

-----------------------------------------------------------------------------
(* Sequences.                                                              *)

LEMMA SuffixElements ==
  ASSUME NEW S, NEW t \in Seq(S), NEW q \in Seq(S)
  PROVE  SuffixOf(t, q) <=> /\ Len(t) <= Len(q)
                            /\ \A i \in 1..Len(t) : t[i] = q[Len(q) - Len(t) + i]
<1>1. CASE Len(t) <= Len(q)
  <2> DEFINE m == Len(q) - Len(t) + 1
             u == SubSeq(q, m, Len(q))
  <2>1. m \in 1..(Len(q) + 1) /\ Len(q) - m + 1 = Len(t)
    BY <1>1
  <2>2. u \in Seq(S) /\ Len(u) = Len(t) /\ \A i \in 1..Len(t) : u[i] = q[Len(q) - Len(t) + i]
    BY <2>1
  <2> HIDE DEF u
  <2>3. t = u <=> \A i \in 1..Len(t) : t[i] = u[i]
    BY <2>2, SeqEqual
  <2> QED BY <1>1, <2>2, <2>3 DEF SuffixOf, u
<1>2. CASE ~(Len(t) <= Len(q))
  BY <1>2 DEF SuffixOf
<1> QED BY <1>1, <1>2

\* A suffix grows with its sequence, and loses its head alone.
LEMMA SuffixSteps ==
  ASSUME NEW S, NEW t \in Seq(S), NEW q \in Seq(S)
  PROVE  /\ SuffixOf(<<>>, q)
         /\ SuffixOf(t, q) => \A e \in S : SuffixOf(Append(t, e), Append(q, e))
         /\ SuffixOf(t, q) /\ t # <<>> => SuffixOf(Tail(t), q)
<1>1. SuffixOf(<<>>, q)
  <2> DEFINE u == <<>>
  <2>1. u \in Seq(S) /\ Len(u) <= Len(q) /\ \A i \in 1..Len(u) : u[i] = q[Len(q) - Len(u) + i]
    OBVIOUS
  <2> HIDE DEF u
  <2>2. SuffixOf(u, q)
    BY <2>1, SuffixElements
  <2> QED BY <2>2 DEF u
<1>2. ASSUME SuffixOf(t, q), NEW e \in S PROVE SuffixOf(Append(t, e), Append(q, e))
  <2>1. Len(t) <= Len(q) /\ \A i \in 1..Len(t) : t[i] = q[Len(q) - Len(t) + i]
    BY <1>2, SuffixElements
  <2> DEFINE u == Append(t, e)
             v == Append(q, e)
  <2>2. /\ u \in Seq(S) /\ Len(u) = Len(t) + 1 /\ v \in Seq(S) /\ Len(v) = Len(q) + 1
        /\ \A i \in 1..Len(t) : u[i] = t[i]
        /\ \A i \in 1..Len(q) : v[i] = q[i]
        /\ u[Len(t) + 1] = e /\ v[Len(q) + 1] = e
    OBVIOUS
  <2> HIDE DEF u, v
  <2>3. Len(t) \in Nat /\ Len(q) \in Nat
    OBVIOUS
  <2>4. ASSUME NEW i \in 1..Len(u) PROVE u[i] = v[Len(v) - Len(u) + i]
    <3>1. Len(v) - Len(u) + i = Len(q) - Len(t) + i
      BY <2>2, <2>3
    <3>2. CASE i \in 1..Len(t)
      <4>1. Len(q) - Len(t) + i \in 1..Len(q)
        BY <2>1, <2>3, <3>2
      <4> QED BY <2>1, <2>2, <3>1, <3>2, <4>1
    <3>3. CASE i = Len(t) + 1
      <4>1. Len(q) - Len(t) + i = Len(q) + 1
        BY <2>3, <3>3
      <4> QED BY <2>2, <3>1, <3>3, <4>1
    <3> QED BY <2>2, <2>3, <3>2, <3>3
  <2>5. SuffixOf(u, v)
    <3>1. Len(u) <= Len(v)
      BY <2>1, <2>2, <2>3
    <3> QED BY <2>2, <2>4, <3>1, SuffixElements
  <2> QED BY <2>5 DEF u, v
<1>3. ASSUME SuffixOf(t, q), t # <<>> PROVE SuffixOf(Tail(t), q)
  <2>1. Len(t) <= Len(q) /\ \A i \in 1..Len(t) : t[i] = q[Len(q) - Len(t) + i]
    BY <1>3, SuffixElements
  <2>2. /\ Tail(t) \in Seq(S) /\ Len(Tail(t)) = Len(t) - 1
        /\ \A i \in 1..(Len(t) - 1) : Tail(t)[i] = t[i + 1]
    BY <1>3
  <2> DEFINE u == Tail(t)
  <2>3. \A i \in 1..(Len(t) - 1) : u[i] = q[Len(q) - (Len(t) - 1) + i]
    BY <2>1, <2>2
  <2>4. /\ u \in Seq(S) /\ Len(u) <= Len(q)
        /\ \A i \in 1..Len(u) : u[i] = q[Len(q) - Len(u) + i]
    BY <2>1, <2>2, <2>3
  <2> HIDE DEF u
  <2>5. SuffixOf(u, q)
    BY <2>4, SuffixElements
  <2> QED BY <2>5 DEF u
<1> QED BY <1>1, <1>2, <1>3

\* What one more event, or one fewer, does to what will be shown.
LEMMA SettlingSteps ==
  ASSUME NEW q \in Seq(Events), NEW shown, NEW truth
  PROVE  /\ \A e \in Events : e.kind \in Reports /\ e.value = truth =>
                Settles(Append(q, e), shown, truth)
         /\ \A e \in Events : e.kind \notin Reports /\ Settles(q, shown, truth) =>
                Settles(Append(q, e), shown, truth)
         /\ q # <<>> /\ Settles(q, shown, truth) =>
                Settles(Tail(q), IF Head(q).kind \in Reports THEN Head(q).value ELSE shown, truth)
<1>1. ASSUME NEW e \in Events
      PROVE  /\ DOMAIN Append(q, e) = 1..(Len(q) + 1) /\ Append(q, e)[Len(q) + 1] = e
             /\ \A i \in 1..Len(q) : Append(q, e)[i] = q[i]
  OBVIOUS
<1>2. DOMAIN q = 1..Len(q) /\ Len(q) \in Nat
  OBVIOUS
<1>3. ASSUME NEW e \in Events, e.kind \in Reports, e.value = truth
      PROVE  Settles(Append(q, e), shown, truth)
  <2>1. \A j \in DOMAIN Append(q, e) : ~(j > Len(q) + 1)
    BY <1>1, <1>2
  <2> QED BY <1>1, <1>2, <1>3, <2>1 DEF Settles
<1>4. ASSUME NEW e \in Events, e.kind \notin Reports, Settles(q, shown, truth)
      PROVE  Settles(Append(q, e), shown, truth)
  <2>1. CASE \E i \in DOMAIN q : /\ q[i].kind \in Reports /\ q[i].value = truth
                                 /\ \A j \in DOMAIN q : j > i => q[j].kind \notin Reports
    <3>1. PICK i \in DOMAIN q : /\ q[i].kind \in Reports /\ q[i].value = truth
                                /\ \A j \in DOMAIN q : j > i => q[j].kind \notin Reports
      BY <2>1
    <3>2. \A j \in DOMAIN Append(q, e) : j > i => Append(q, e)[j].kind \notin Reports
      BY <1>1, <1>2, <1>4, <3>1
    <3>3. i \in DOMAIN Append(q, e) /\ Append(q, e)[i] = q[i]
      BY <1>1, <1>2
    <3> QED BY <3>1, <3>2, <3>3 DEF Settles
  <2>2. CASE shown = truth /\ \A i \in DOMAIN q : q[i].kind \notin Reports
    <3>1. \A i \in DOMAIN Append(q, e) : Append(q, e)[i].kind \notin Reports
      BY <1>1, <1>2, <1>4, <2>2
    <3> QED BY <2>2, <3>1 DEF Settles
  <2> QED BY <1>4, <2>1, <2>2 DEF Settles
<1>5. ASSUME q # <<>>, Settles(q, shown, truth)
      PROVE  Settles(Tail(q), IF Head(q).kind \in Reports THEN Head(q).value ELSE shown, truth)
  <2> DEFINE next == IF Head(q).kind \in Reports THEN Head(q).value ELSE shown
  <2>1. /\ Head(q) = q[1] /\ 1 \in DOMAIN q /\ DOMAIN Tail(q) = 1..(Len(q) - 1)
        /\ \A i \in 1..(Len(q) - 1) : Tail(q)[i] = q[i + 1]
    BY <1>5
  <2>2. ASSUME NEW i \in DOMAIN q, q[i].kind \in Reports, q[i].value = truth,
               \A j \in DOMAIN q : j > i => q[j].kind \notin Reports
        PROVE  Settles(Tail(q), next, truth)
    <3>1. CASE i = 1
      <4>1. \A j \in DOMAIN Tail(q) : Tail(q)[j].kind \notin Reports
        BY <1>2, <2>1, <2>2, <3>1
      <4> QED BY <2>1, <2>2, <3>1, <4>1 DEF Settles
    <3>2. CASE i # 1
      <4>1. i - 1 \in DOMAIN Tail(q) /\ Tail(q)[i - 1] = q[i]
        BY <1>2, <2>1, <3>2
      <4>2. \A j \in DOMAIN Tail(q) : j > i - 1 => Tail(q)[j].kind \notin Reports
        BY <1>2, <2>1, <2>2
      <4> HIDE DEF next
      <4> QED BY <2>2, <4>1, <4>2 DEF Settles
    <3> QED BY <3>1, <3>2
  <2>3. CASE shown = truth /\ \A i \in DOMAIN q : q[i].kind \notin Reports
    <3>1. \A j \in DOMAIN Tail(q) : Tail(q)[j].kind \notin Reports
      BY <1>2, <2>1, <2>3
    <3>2. next = truth
      BY <2>1, <2>3
    <3> QED BY <3>1, <3>2 DEF Settles
  <2> QED BY <1>5, <2>2, <2>3 DEF Settles
<1> QED BY <1>3, <1>4, <1>5

\* What is on its way, when an event is queued, written or read.
LEMMA PipeSteps ==
  ASSUME NEW w \in Seq(Events), NEW q \in Seq(Events)
  PROVE  /\ w \o q \in Seq(Events) /\ Len(w \o q) = Len(w) + Len(q)
         /\ \A e \in Events : w \o Append(q, e) = Append(w \o q, e)
         /\ q # <<>> => Append(w, Head(q)) \o Tail(q) = w \o q
         /\ w # <<>> => /\ Tail(w) \o q = Tail(w \o q) /\ w \o q # <<>>
                        /\ (w \o q)[1] = Head(w) /\ Head(w \o q) = Head(w)
         /\ \A u \in Seq(Events) : w # <<>> => Append(u, Head(w)) \o (Tail(w) \o q) = u \o (w \o q)
         /\ \A u \in Seq(Events), e \in Events : u \o Append(w \o q, e) = Append(u \o (w \o q), e)
<1>1. w \o q \in Seq(Events) /\ Len(w \o q) = Len(w) + Len(q)
  OBVIOUS
<1>2. ASSUME NEW x \in Seq(Events), NEW y \in Seq(Events), NEW e \in Events
      PROVE  x \o Append(y, e) = Append(x \o y, e)
  OBVIOUS
<1>3. ASSUME NEW x \in Seq(Events), NEW y \in Seq(Events), y # <<>>
      PROVE  Append(x, Head(y)) \o Tail(y) = x \o y
  BY <1>3
<1>4. ASSUME w # <<>>
      PROVE  /\ Tail(w) \o q = Tail(w \o q) /\ w \o q # <<>>
             /\ (w \o q)[1] = Head(w) /\ Head(w \o q) = Head(w)
  BY <1>4
<1>5. ASSUME NEW u \in Seq(Events), w # <<>>
      PROVE  Append(u, Head(w)) \o (Tail(w) \o q) = u \o (w \o q)
  BY <1>1, <1>3, <1>4, <1>5
<1> QED BY <1>1, <1>2, <1>3, <1>4, <1>5

-----------------------------------------------------------------------------
(* Subscribers.                                                            *)

LEMMA Sets ==
  /\ Away \in Subscriber /\ None \in Events
  /\ \A b \in BOOLEAN : Ev("status", b) \in Events
  /\ \A b \in BOOLEAN : Ev("buffer", b) \in Events
  /\ News \subseteq Events
<1>1. None \in Events /\ \A b \in BOOLEAN : Ev("status", b) \in Events /\ Ev("buffer", b) \in Events
  BY Zenon DEF None, Ev, Events
<1>2. News \subseteq Events
  BY DEF News, Events
<1>3. <<>> \in Seq(Events) /\ 0 \in Int
  OBVIOUS
<1>4. Away \in Subscriber
  BY <1>1, <1>3, Zenon DEF Away, Subscriber
<1> QED BY <1>1, <1>2, <1>4

\* What a step makes of a subscriber is one.
LEMMA SubscriberSteps ==
  ASSUME NEW x \in Subscriber
  PROVE  /\ x.wire \in Seq(Events) /\ x.queue \in Seq(Events) /\ x.seen \in Int
         /\ [x EXCEPT !.clean = FALSE] \in Subscriber
         /\ \A q \in Seq(Events) : [x EXCEPT !.queue = q] \in Subscriber
         /\ [x EXCEPT !.listed = FALSE] \in Subscriber
         /\ [x EXCEPT !.link = "closed"] \in Subscriber
         /\ [x EXCEPT !.link = "closed", !.queue = <<>>, !.listed = FALSE] \in Subscriber
         /\ [Away EXCEPT !.link = "asked"] \in Subscriber
         /\ \A e \in Events : [x EXCEPT !.link = "snapped", !.clean = TRUE, !.snap = e] \in Subscriber
         /\ \A q \in Seq(Events) :
               [x EXCEPT !.link = "live", !.listed = TRUE, !.queue = q, !.snap = None] \in Subscriber
         /\ \A q, w \in Seq(Events) : [x EXCEPT !.queue = q, !.wire = w] \in Subscriber
         /\ \A w \in Seq(Events), n \in Int :
               [x EXCEPT !.wire = w, !.greeted = TRUE, !.seen = n] \in Subscriber
<1>1. <<>> \in Seq(Events)
  OBVIOUS
<1> QED BY <1>1, Sets, Zenon DEF Subscriber

\* The same connection, and no cleaner than it was.
Like(y, x) ==
    /\ y.link = x.link /\ y.snap = x.snap /\ y.wire = x.wire /\ y.queue = x.queue
    /\ y.listed = x.listed /\ y.greeted = x.greeted /\ y.seen = x.seen
    /\ y.clean => x.clean

LEMMA Becoming ==
  ASSUME Typed, NEW d, Become(d)
  PROVE  /\ subs' \in [Followers -> Subscriber]
         /\ \A s \in Followers :
               /\ Like(subs'[s], subs[s])
               /\ subs[s].link = "snapped" /\ subs'[s].clean => d.buffer = daemon.buffer
<1>1. ASSUME NEW s \in Followers
      PROVE  /\ subs'[s] \in Subscriber /\ Like(subs'[s], subs[s])
             /\ subs[s].link = "snapped" /\ subs'[s].clean => d.buffer = daemon.buffer
  <2> DEFINE x == subs[s]
             old == x.link = "snapped" /\ (d.buffer # daemon.buffer \/ d.keys # daemon.keys)
  <2>1. x \in Subscriber
    BY DEF Typed
  <2>2. subs'[s] = IF old THEN [x EXCEPT !.clean = FALSE] ELSE x
    BY DEF Become
  <2> HIDE DEF x
  <2>3. CASE old
    <3> DEFINE y == [x EXCEPT !.clean = FALSE]
    <3>1. Like(y, x) /\ ~y.clean
      BY <2>1 DEF Like, Subscriber
    <3>2. y \in Subscriber
      BY <2>1, SubscriberSteps
    <3>3. subs'[s] = y
      BY <2>2, <2>3
    <3> HIDE DEF y
    <3> QED BY <3>1, <3>2, <3>3 DEF x
  <2>4. CASE ~old
    BY <2>1, <2>2, <2>4 DEF Like, x
  <2> QED BY <2>3, <2>4
<1> QED BY <1>1 DEF Become

\* A connection that is alike follows alike.
LEMMA FollowingAlike ==
  ASSUME NEW x, NEW y, NEW up, NEW told, Like(y, x), Follows(x, up, told)
  PROVE  Follows(y, up, told)
<1> QED BY DEF Like, Follows

\* An announcement of the buffer is not other news.
LEMMA AnnouncingIsNoStep ==
  /\ \A v : <<Post(Ev("buffer", v))>> \notin Seq(Steps)
  /\ \A v : Post(Ev("buffer", v)) \notin Steps
  /\ <<>> \in Seq(Steps)
<1>1. \A v : Post(Ev("buffer", v)) \notin Steps
  <2> SUFFICES ASSUME NEW v, Post(Ev("buffer", v)) \in Steps PROVE FALSE
    OBVIOUS
  <2>1. Post(Ev("buffer", v)).do = "post" /\ Post(Ev("buffer", v)).event.kind = "buffer"
    BY DEF Post, Ev
  <2>2. Reply.do # "post" /\ WriteFile.do # "post"
    BY DEF Reply, WriteFile
  <2>3. PICK e \in News : Post(Ev("buffer", v)) = Post(e)
    BY <2>1, <2>2 DEF Steps
  <2>4. Post(e).event.kind \in Kinds
    BY DEF Post, News
  <2> QED BY <2>1, <2>3, <2>4 DEF Kinds
<1>2. \A v : <<Post(Ev("buffer", v))>> \in Seq(Steps) => <<Post(Ev("buffer", v))>>[1] \in Steps
  OBVIOUS
<1> QED BY <1>1, <1>2

-----------------------------------------------------------------------------
(* Threads of the daemon.                                                  *)

\* What the state becomes is one.
LEMMA StateSteps ==
  ASSUME NEW d \in State
  PROVE  /\ \A b, c \in BOOLEAN : [d EXCEPT !.recording = b, !.broken = c] \in State
         /\ \A b, c \in BOOLEAN : [d EXCEPT !.buffer = b, !.fault = c] \in State
         /\ \A b \in BOOLEAN : [d EXCEPT !.recording = b] \in State
         /\ \A b \in BOOLEAN : [d EXCEPT !.buffer = b] \in State
         /\ \A b \in BOOLEAN : [d EXCEPT !.broken = b] \in State
         /\ \A b \in BOOLEAN : [d EXCEPT !.fault = b] \in State
         /\ \A b \in BOOLEAN : [d EXCEPT !.keys = b] \in State
         /\ \A b \in BOOLEAN : [d EXCEPT !.up = b] \in State
         /\ [d EXCEPT !.recording = FALSE, !.broken = FALSE, !.fault = TRUE] \in State
         /\ [d EXCEPT !.recording = FALSE, !.broken = FALSE, !.fault = FALSE] \in State
         /\ [d EXCEPT !.up = FALSE, !.buffer = FALSE, !.recording = FALSE, !.broken = FALSE,
                      !.fault = FALSE] \in State
<1> QED BY Zenon DEF State

\* The same daemon, armed as it was.
Armed(d, e) == d \in State /\ d.up = e.up /\ d.buffer = e.buffer

LEMMA ArmedSteps ==
  ASSUME NEW d \in State
  PROVE  /\ Armed(d, d)
         /\ \A b, c \in BOOLEAN : Armed([d EXCEPT !.recording = b, !.broken = c], d)
         /\ \A b \in BOOLEAN : Armed([d EXCEPT !.recording = b], d)
         /\ \A b \in BOOLEAN : Armed([d EXCEPT !.broken = b], d)
         /\ \A b \in BOOLEAN : Armed([d EXCEPT !.fault = b], d)
         /\ \A b \in BOOLEAN : Armed([d EXCEPT !.keys = b], d)
         /\ Armed([d EXCEPT !.recording = FALSE, !.broken = FALSE, !.fault = TRUE], d)
         /\ Armed([d EXCEPT !.recording = FALSE, !.broken = FALSE, !.fault = FALSE], d)
<1>1. ASSUME NEW b \in BOOLEAN, NEW c \in BOOLEAN
      PROVE  Armed([d EXCEPT !.recording = b, !.broken = c], d)
  <2>1. [d EXCEPT !.recording = b, !.broken = c] \in State
    BY StateSteps
  <2> QED BY <2>1, Zenon DEF Armed, State
<1>2. ASSUME NEW b \in BOOLEAN
      PROVE  /\ Armed([d EXCEPT !.recording = b], d) /\ Armed([d EXCEPT !.broken = b], d)
             /\ Armed([d EXCEPT !.fault = b], d) /\ Armed([d EXCEPT !.keys = b], d)
  <2>1. /\ [d EXCEPT !.recording = b] \in State /\ [d EXCEPT !.broken = b] \in State
        /\ [d EXCEPT !.fault = b] \in State /\ [d EXCEPT !.keys = b] \in State
    BY StateSteps
  <2> QED BY <2>1, Zenon DEF Armed, State
<1>3. Armed([d EXCEPT !.recording = FALSE, !.broken = FALSE, !.fault = TRUE], d)
  <2>1. [d EXCEPT !.recording = FALSE, !.broken = FALSE, !.fault = TRUE] \in State
    BY StateSteps
  <2> QED BY <2>1, Zenon DEF Armed, State
<1>4. Armed([d EXCEPT !.recording = FALSE, !.broken = FALSE, !.fault = FALSE], d)
  <2>1. [d EXCEPT !.recording = FALSE, !.broken = FALSE, !.fault = FALSE] \in State
    BY StateSteps
  <2> QED BY <2>1, Zenon DEF Armed, State
<1> QED BY <1>1, <1>2, <1>3, <1>4 DEF Armed

LEMMA DrainedIsArmed == Typed => Armed(Drained, daemon)
<1> QED BY ArmedSteps DEF Typed, Drained

\* A thread changes what is not the buffer, or is the supervisor telling of it.
LEMMA ThreadStep ==
  ASSUME IInv, NEW t \in Threads, NEW d \in State, Become(d), d.up = daemon.up,
         NEW steps, Then(t, steps), UNCHANGED <<log, hud, keys>>,
         \/ steps \in Seq(Steps) /\ d.buffer = daemon.buffer /\ todo[t] \in Seq(Steps)
         \/ t = Supervisor /\ steps = <<Post(Ev("buffer", d.buffer))>>
  PROVE  IInv'
<1>1. /\ subs' \in [Followers -> Subscriber] /\ daemon' = d
      /\ \A s \in Followers :
            /\ Like(subs'[s], subs[s])
            /\ subs[s].link = "snapped" /\ subs'[s].clean => d.buffer = daemon.buffer
  BY Becoming DEF IInv, Become
<1>2. DOMAIN todo = Threads /\ todo' = [todo EXCEPT ![t] = steps]
  BY DEF IInv, Typed, Then
<1>3. Typed'
  BY <1>1, <1>2 DEF IInv, Typed
<1>4. Pending'
  <2> SUFFICES ASSUME NEW u \in Threads
               PROVE  todo'[u] \in Seq(Steps) \/ (u = Supervisor /\ todo'[u] = Announcing')
    BY DEF Pending
  <2>1. Announcing' = <<Post(Ev("buffer", d.buffer))>>
    BY <1>1 DEF Announcing
  <2>2. CASE u = t
    BY <1>2, <2>1, <2>2
  <2>3. CASE u # t
    BY <1>2, <2>1, <2>3 DEF IInv, Pending, Announcing
  <2> QED BY <2>2, <2>3
<1>5. Following'
  BY <1>1, FollowingAlike DEF IInv, Following
<1>6. Truthful'
  <2>1. H \in Followers /\ Supervisor \in Threads
    BY HudAssumption DEF Threads
  <2>2. Like(subs'[H], subs[H])
    BY <1>1, <2>1
  <2>3. subs'[H].link = "snapped" /\ subs'[H].clean => subs'[H].snap = Ev("status", d.buffer)
    BY <1>1, <2>1, <2>2 DEF IInv, Truthful, Like
  <2>4. todo'[Supervisor] \in Seq(Steps) => d.buffer = daemon.buffer /\ todo[Supervisor] \in Seq(Steps)
    BY <1>2, <2>1, AnnouncingIsNoStep
  <2>5. Coming(H)' = Coming(H)
    BY <2>2 DEF Coming, Like
  <2>6. subs'[H].listed /\ subs'[H].clean => subs[H].listed /\ subs[H].clean
    BY <2>2 DEF Like
  <2> QED BY <1>1, <2>3, <2>4, <2>5, <2>6 DEF IInv, Truthful
<1>7. Overlay' /\ Keyboard' /\ LogIsNews'
  <2>1. H \in Followers
    BY HudAssumption
  <2>2. Like(subs'[H], subs[H])
    BY <1>1, <2>1
  <2> QED BY <2>2 DEF IInv, Overlay, Keyboard, LogIsNews, Like
<1> QED BY <1>3, <1>4, <1>5, <1>6, <1>7 DEF IInv

\* A thread goes on with what it has to do, or takes something up.
LEMMA TodoStep ==
  ASSUME IInv, NEW t \in Threads, NEW steps \in Seq(Steps), Then(t, steps),
         todo[t] \in Seq(Steps), NEW d, Armed(d, daemon), daemon' = d,
         UNCHANGED <<log, subs, hud, keys>>
  PROVE  IInv'
<1>1. DOMAIN todo = Threads /\ todo' = [todo EXCEPT ![t] = steps]
  BY DEF IInv, Typed, Then
<1>2. daemon' \in State /\ daemon'.up = daemon.up /\ daemon'.buffer = daemon.buffer
  BY DEF Armed
<1>3. Typed' /\ LogIsNews' /\ Overlay' /\ Keyboard' /\ Following'
  BY <1>1, <1>2 DEF IInv, Typed, LogIsNews, Overlay, Keyboard, Following
<1>4. Pending'
  BY <1>1, <1>2 DEF IInv, Pending, Announcing
<1>5. Truthful'
  <2>1. todo'[Supervisor] \in Seq(Steps) => todo[Supervisor] \in Seq(Steps)
    BY <1>1 DEF Threads
  <2>2. Coming(H)' = Coming(H)
    BY DEF Coming
  <2> QED BY <1>2, <2>1, <2>2 DEF IInv, Truthful
<1> QED BY <1>3, <1>4, <1>5 DEF IInv

LEMMA Sayings ==
  /\ Reply \in Steps /\ WriteFile \in Steps
  /\ \A kind \in Kinds, b \in BOOLEAN : Post(Ev(kind, b)) \in Steps
<1>1. \A kind \in Kinds, b \in BOOLEAN : Ev(kind, b) \in News
  BY DEF Ev, News
<1> QED BY <1>1 DEF Steps

\* What a connection does.
LEMMA ClientStep ==
  ASSUME IInv, NEW c \in Clients, UNCHANGED <<hud, keys>>,
         ToggleRecord(c) \/ SaveLast(c) \/ Mark(c) \/ SetConfig(c)
  PROVE  IInv'
<1>1. c \in Threads /\ todo[c] \in Seq(Steps) /\ log' = log
  <2>1. Idle(c) /\ log' = log
    BY Zenon DEF ToggleRecord, SaveLast, Mark, SetConfig
  <2> QED BY <2>1 DEF Threads, Idle
<1>2. /\ \A kind \in Kinds, b \in BOOLEAN : Post(Ev(kind, b)) \in Steps
      /\ "record" \in Kinds /\ "saved" \in Kinds /\ "marked" \in Kinds /\ "config" \in Kinds
      /\ Reply \in Steps /\ WriteFile \in Steps
  BY Sayings DEF Kinds
<1>3. /\ <<Reply>> \in Seq(Steps)
      /\ \A kind \in Kinds, b \in BOOLEAN :
            /\ <<Reply, Post(Ev(kind, b))>> \in Seq(Steps)
            /\ <<Post(Ev(kind, b)), Reply>> \in Seq(Steps)
            /\ <<WriteFile, Reply, Post(Ev(kind, b))>> \in Seq(Steps)
            /\ \A other \in Kinds :
                  <<WriteFile, Post(Ev(kind, b)), Reply, Post(Ev(other, b))>> \in Seq(Steps)
  BY <1>2
<1>4. \E d, steps : /\ Armed(d, daemon) /\ Become(d) /\ Then(c, steps) /\ steps \in Seq(Steps)
  <2>1. CASE ToggleRecord(c)
    <3>1. Armed(Drained, daemon)
      BY DrainedIsArmed DEF IInv
    <3>2. /\ Armed([Drained EXCEPT !.recording = FALSE, !.broken = FALSE], daemon)
          /\ Armed([Drained EXCEPT !.recording = TRUE], daemon)
      BY <3>1, ArmedSteps, Zenon DEF Armed
    <3>3. CASE Become([Drained EXCEPT !.recording = FALSE, !.broken = FALSE])
                 /\ (Then(c, <<Reply, Post(Ev("record", FALSE))>>) \/ Then(c, <<Reply>>))
      BY <1>2, <1>3, <3>2, <3>3, Zenon
    <3>4. CASE Become([Drained EXCEPT !.recording = TRUE])
                 /\ Then(c, <<Reply, Post(Ev("record", TRUE))>>)
      BY <1>2, <1>3, <3>2, <3>4, Zenon
    <3>5. CASE Become(Drained) /\ Then(c, <<Reply>>)
      BY <1>3, <3>1, <3>5, Zenon
    <3> QED BY <2>1, <3>3, <3>4, <3>5, Zenon DEF ToggleRecord
  <2>2. CASE SaveLast(c)
    <3>1. Armed(Drained, daemon) /\ Become(Drained)
      BY <2>2, DrainedIsArmed DEF IInv, SaveLast
    <3>2. Then(c, <<WriteFile, Reply, Post(Ev("saved", TRUE))>>) \/ Then(c, <<Reply>>)
      BY <2>2, Zenon DEF SaveLast
    <3> QED BY <1>2, <1>3, <3>1, <3>2, Zenon
  <2>3. CASE Mark(c)
    <3>1. Armed(Drained, daemon) /\ Become(Drained)
      BY <2>3, DrainedIsArmed DEF IInv, Mark
    <3>2. \/ Then(c, <<WriteFile, Post(Ev("saved", TRUE)), Reply, Post(Ev("marked", TRUE))>>)
          \/ Then(c, <<Reply>>)
      BY <2>3, Zenon DEF Mark
    <3> QED BY <1>2, <1>3, <3>1, <3>2, Zenon
  <2>4. CASE SetConfig(c)
    <3>1. PICK on \in BOOLEAN :
             /\ Become([daemon EXCEPT !.keys = on])
             /\ Then(c, <<Reply>>) \/ Then(c, <<Post(Ev("config", on)), Reply>>)
      BY <2>4, Zenon DEF SetConfig
    <3>2. Armed([daemon EXCEPT !.keys = on], daemon)
      BY ArmedSteps DEF IInv, Typed
    <3> QED BY <1>2, <1>3, <3>1, <3>2, Zenon
  <2> QED BY <2>1, <2>2, <2>3, <2>4
<1> QED BY <1>1, <1>4, ThreadStep DEF Armed

\* What the supervisor and the pump do of their own accord.
LEMMA OwnStep ==
  ASSUME IInv, UNCHANGED <<hud, keys>>, Supervise \/ PumpDrains \/ EncodeAlarm \/ DiskFails
  PROVE  IInv'
<1>1. /\ \A kind \in Kinds, b \in BOOLEAN : Post(Ev(kind, b)) \in Steps
      /\ "record" \in Kinds /\ "restarted" \in Kinds /\ "error" \in Kinds
  BY Sayings DEF Kinds
<1>2. \A kind, other \in Kinds, b, c \in BOOLEAN :
         /\ <<Post(Ev(kind, b))>> \in Seq(Steps)
         /\ <<Post(Ev(kind, b)), Post(Ev(other, c))>> \in Seq(Steps)
  BY <1>1
<1>3. Supervisor \in Threads /\ Pump \in Threads /\ daemon \in State
  BY DEF Threads, IInv, Typed
<1>4. CASE Supervise
  <2> DEFINE cut == [daemon EXCEPT !.recording = FALSE, !.broken = FALSE, !.fault = FALSE]
             on == [daemon EXCEPT !.buffer = TRUE, !.fault = FALSE]
             off == [cut EXCEPT !.buffer = FALSE]
  <2>1. Armed(cut, daemon) /\ on \in State /\ off \in State
    BY <1>3, ArmedSteps, StateSteps DEF Armed
  <2>2. /\ on.buffer = TRUE /\ on.up = daemon.up
        /\ off.buffer = FALSE /\ off.up = daemon.up
    BY <1>3, <2>1, Zenon DEF State, Armed
  <2>3. todo[Supervisor] \in Seq(Steps) /\ log' = log
    BY <1>4 DEF Supervise, Idle
  <2>4. \/ Become(on) /\ Then(Supervisor, <<Post(Ev("buffer", TRUE))>>)
        \/ Become(off) /\ Then(Supervisor, <<Post(Ev("buffer", FALSE))>>)
        \/ /\ Become(cut)
           /\ \/ Then(Supervisor, <<Post(Ev("restarted", TRUE))>>)
              \/ Then(Supervisor, <<Post(Ev("record", FALSE)), Post(Ev("restarted", TRUE))>>)
    BY <1>4, Zenon DEF Supervise
  <2> HIDE DEF cut, on, off
  <2>5. CASE Become(on) /\ Then(Supervisor, <<Post(Ev("buffer", TRUE))>>)
    BY <1>3, <2>1, <2>2, <2>3, <2>5, ThreadStep
  <2>6. CASE Become(off) /\ Then(Supervisor, <<Post(Ev("buffer", FALSE))>>)
    BY <1>3, <2>1, <2>2, <2>3, <2>6, ThreadStep
  <2>7. ASSUME Become(cut), NEW steps \in Seq(Steps), Then(Supervisor, steps)
        PROVE  IInv'
    BY <1>3, <2>1, <2>3, <2>7, ThreadStep DEF Armed
  <2>8. /\ <<Post(Ev("restarted", TRUE))>> \in Seq(Steps)
        /\ <<Post(Ev("record", FALSE)), Post(Ev("restarted", TRUE))>> \in Seq(Steps)
    BY <1>1, <1>2
  <2> QED BY <2>4, <2>5, <2>6, <2>7, <2>8
<1>5. CASE PumpDrains
  <2> DEFINE d == [Drained EXCEPT !.fault = FALSE]
  <2>1. Armed(Drained, daemon)
    BY DrainedIsArmed DEF IInv
  <2>2. Armed(d, daemon)
    BY <2>1, ArmedSteps DEF Armed
  <2>3. Become(d) /\ Then(Pump, FaultEvents) /\ log' = log /\ todo[Pump] \in Seq(Steps)
    BY <1>5 DEF PumpDrains, Idle
  <2>4. FaultEvents \in Seq(Steps)
    BY <1>1, <1>2 DEF FaultEvents
  <2> HIDE DEF d
  <2> QED BY <1>3, <2>2, <2>3, <2>4, ThreadStep DEF Armed
<1>6. CASE EncodeAlarm
  <2>1. /\ Then(Pump, <<Post(Ev("error", TRUE))>>) /\ todo[Pump] \in Seq(Steps)
        /\ UNCHANGED <<daemon, log, subs>>
    BY <1>6 DEF EncodeAlarm, Idle
  <2>2. <<Post(Ev("error", TRUE))>> \in Seq(Steps)
    BY <1>1, <1>2
  <2>3. Armed(daemon, daemon) /\ daemon' = daemon
    BY <1>3, <2>1 DEF Armed
  <2> QED BY <1>3, <2>1, <2>2, <2>3, TodoStep
<1>7. CASE DiskFails
  <2> DEFINE d == [daemon EXCEPT !.broken = TRUE]
  <2>1. Armed(d, daemon)
    BY <1>3, ArmedSteps
  <2>2. daemon' = d /\ UNCHANGED <<todo, log, subs>>
    BY <1>7 DEF DiskFails
  <2> HIDE DEF d
  <2>3. /\ daemon' \in State /\ daemon'.up = daemon.up /\ daemon'.buffer = daemon.buffer
        /\ Coming(H)' = Coming(H)
    BY <2>1, <2>2 DEF Armed, Coming
  <2>4. Typed' /\ LogIsNews' /\ Overlay' /\ Keyboard' /\ Following'
    BY <2>2, <2>3 DEF IInv, Typed, LogIsNews, Overlay, Keyboard, Following
  <2>5. Pending' /\ Truthful'
    BY <2>2, <2>3 DEF IInv, Pending, Announcing, Truthful
  <2> QED BY <2>4, <2>5 DEF IInv
<1> QED BY <1>4, <1>5, <1>6, <1>7

\* A thread is done with a file or a reply.
LEMMA WriterStep ==
  ASSUME IInv, NEW t \in Threads, WriteDone(t) \/ WriteReply(t), UNCHANGED <<hud, keys>>
  PROVE  IInv'
<1>1. todo[t] # <<>> /\ Head(todo[t]).do \in {"write", "reply"} /\ UNCHANGED <<daemon, log, subs>>
  BY DEF WriteDone, WriteReply, Does
<1>2. todo[t] \in Seq(Steps)
  <2>1. todo[t] # Announcing
    <3>1. Head(Announcing).do = "post"
      BY DEF Announcing, Post
    <3> QED BY <1>1, <3>1
  <2> QED BY <2>1 DEF IInv, Pending
<1>3. Tail(todo[t]) \in Seq(Steps) /\ <<>> \in Seq(Steps)
  BY <1>1, <1>2
<1>4. ASSUME NEW i \in DOMAIN Tail(todo[t])
      PROVE  SubSeq(Tail(todo[t]), 1, i - 1) \o SubSeq(Tail(todo[t]), i + 1, Len(Tail(todo[t])))
                \in Seq(Steps)
  BY <1>3
<1>5. \E steps \in Seq(Steps) : Then(t, steps)
  <2>1. CASE WriteDone(t)
    BY <1>3, <1>4, <2>1, Zenon DEF WriteDone
  <2>2. CASE WriteReply(t)
    BY <1>3, <2>2, Zenon DEF WriteReply
  <2> QED BY <2>1, <2>2
<1>6. Armed(daemon, daemon) /\ daemon' = daemon
  BY <1>1 DEF Armed, IInv, Typed
<1> QED BY <1>1, <1>2, <1>5, <1>6, TodoStep

-----------------------------------------------------------------------------
(* What happens to a subscriber.                                           *)

Queued(y, x, e) ==
    /\ y.link = x.link /\ y.wire = x.wire /\ y.queue = Append(x.queue, e) /\ y.listed = x.listed
    /\ y.greeted = x.greeted /\ y.seen = x.seen /\ y.clean = x.clean /\ y.snap = x.snap

\* An event that is queued is told to everybody.
LEMMA Queueing ==
  ASSUME NEW x \in Subscriber, NEW y \in Subscriber, NEW up, NEW told \in Seq(Events), NEW e \in Events,
         Follows(x, up, told), x.listed, Queued(y, x, e)
  PROVE  /\ Follows(y, up, Append(told, e))
         /\ y.wire \o y.queue = Append(x.wire \o x.queue, e)
<1> DEFINE coming == x.wire \o x.queue
<1>1. x.wire \in Seq(Events) /\ x.queue \in Seq(Events) /\ x.seen \in Int
  BY SubscriberSteps
<1>4. /\ y.link = x.link /\ y.wire = x.wire /\ y.queue = Append(x.queue, e) /\ y.listed = x.listed
      /\ y.greeted = x.greeted /\ y.seen = x.seen
  BY DEF Queued
<1>5. y.wire \o y.queue = Append(coming, e) /\ coming \in Seq(Events)
  <2>1. coming \in Seq(Events)
    BY <1>1
  <2>2. \A w, q \in Seq(Events) : w \o Append(q, e) = Append(w \o q, e)
    BY PipeSteps
  <2>3. x.wire \o Append(x.queue, e) = Append(x.wire \o x.queue, e)
    BY <1>1, <2>2
  <2>4. y.wire = x.wire /\ y.queue = Append(x.queue, e)
    BY <1>4
  <2>5. y.wire \o y.queue = x.wire \o Append(x.queue, e)
    BY <2>4
  <2>6. y.wire \o y.queue = Append(coming, e)
    BY <2>3, <2>5
  <2> QED BY <2>1, <2>6
<1> HIDE DEF coming
<1>6. /\ Len(Append(coming, e)) = Len(coming) + 1 /\ Len(Append(told, e)) = Len(told) + 1
      /\ coming # <<>> => /\ Append(coming, e) # <<>> /\ Append(coming, e)[1] = coming[1]
                          /\ Tail(Append(coming, e)) = Append(Tail(coming), e)
                          /\ Tail(coming) \in Seq(Events)
      /\ Len(told) \in Nat /\ Len(coming) \in Nat
  BY <1>5
<1>7. /\ up /\ x.link = "live"
      /\ x.greeted => SuffixOf(coming, told) /\ x.seen + Len(coming) = Len(told)
      /\ ~x.greeted => coming # <<>> /\ coming[1].kind = "status" /\ SuffixOf(Tail(coming), told)
  BY DEF Follows, coming
<1>8. y.greeted => /\ SuffixOf(y.wire \o y.queue, Append(told, e))
                   /\ y.seen + Len(y.wire \o y.queue) = Len(Append(told, e))
  <2> SUFFICES ASSUME x.greeted
               PROVE  /\ SuffixOf(y.wire \o y.queue, Append(told, e))
                      /\ y.seen + Len(y.wire \o y.queue) = Len(Append(told, e))
    BY <1>4
  <2>1. SuffixOf(Append(coming, e), Append(told, e))
    BY <1>5, <1>7, SuffixSteps
  <2>2. x.seen + Len(Append(coming, e)) = Len(Append(told, e))
    <3> DEFINE k == Len(coming)
               l == Len(told)
    <3>1. k \in Nat /\ l \in Nat /\ x.seen + k = l
      BY <1>6, <1>7
    <3>2. Len(Append(coming, e)) = k + 1 /\ Len(Append(told, e)) = l + 1
      BY <1>6
    <3> HIDE DEF k, l
    <3>3. x.seen + (k + 1) = l + 1
      BY <1>1, <3>1
    <3> QED BY <3>2, <3>3
  <2> QED BY <1>4, <1>5, <2>1, <2>2
<1>9. ~y.greeted => /\ y.wire \o y.queue # <<>> /\ (y.wire \o y.queue)[1].kind = "status"
                    /\ SuffixOf(Tail(y.wire \o y.queue), Append(told, e))
  <2> SUFFICES ASSUME ~x.greeted
               PROVE  /\ y.wire \o y.queue # <<>> /\ (y.wire \o y.queue)[1].kind = "status"
                      /\ SuffixOf(Tail(y.wire \o y.queue), Append(told, e))
    BY <1>4
  <2>1. SuffixOf(Append(Tail(coming), e), Append(told, e))
    BY <1>6, <1>7, SuffixSteps
  <2> QED BY <1>5, <1>6, <1>7, <2>1
<1>10. Follows(y, up, Append(told, e))
  BY <1>4, <1>7, <1>8, <1>9 DEF Follows
<1> QED BY <1>5, <1>10 DEF coming

\* A writer thread moves an event on.
LEMMA Writing ==
  ASSUME NEW x \in Subscriber, NEW up, NEW told, x.queue # <<>>, Follows(x, up, told)
  PROVE  LET y == [x EXCEPT !.queue = Tail(@), !.wire = Append(@, Head(x.queue))] IN
            /\ y \in Subscriber /\ Follows(y, up, told)
            /\ y.wire \o y.queue = x.wire \o x.queue
            /\ y.link = x.link /\ y.clean = x.clean /\ y.listed = x.listed /\ y.snap = x.snap
<1> DEFINE y == [x EXCEPT !.queue = Tail(@), !.wire = Append(@, Head(x.queue))]
<1>1. x.wire \in Seq(Events) /\ x.queue \in Seq(Events)
  BY SubscriberSteps
<1>2. Tail(x.queue) \in Seq(Events) /\ Append(x.wire, Head(x.queue)) \in Seq(Events)
  BY <1>1
<1>3. y \in Subscriber
  BY <1>2, SubscriberSteps
<1>4. /\ y.link = x.link /\ y.wire = Append(x.wire, Head(x.queue)) /\ y.queue = Tail(x.queue)
      /\ y.listed = x.listed /\ y.greeted = x.greeted /\ y.seen = x.seen /\ y.clean = x.clean
      /\ y.snap = x.snap
  BY DEF Subscriber
<1> HIDE DEF y
<1>5. y.wire \o y.queue = x.wire \o x.queue
  <2>1. Append(x.wire, Head(x.queue)) \o Tail(x.queue) = x.wire \o x.queue
    BY <1>1, PipeSteps
  <2> QED BY <1>4, <2>1
<1>6. Follows(y, up, told)
  BY <1>4, <1>5 DEF Follows
<1> QED BY <1>3, <1>4, <1>5, <1>6 DEF y

\* A follower reads: the snapshot first, and with it what is behind is counted.
LEMMA Reading ==
  ASSUME NEW x \in Subscriber, NEW up, NEW told \in Seq(Events),
         \A i \in DOMAIN told : told[i].kind # "status",
         x.wire # <<>>, Follows(x, up, told)
  PROVE  LET y == [x EXCEPT !.wire = Tail(@), !.greeted = TRUE,
                            !.seen = IF Head(x.wire).kind = "status"
                                     THEN Len(told) - Len(x.wire \o x.queue) + 1 ELSE @ + 1] IN
            /\ y \in Subscriber /\ Follows(y, up, told)
            /\ y.wire \o y.queue = Tail(x.wire) \o x.queue
            /\ y.link = x.link /\ y.clean = x.clean /\ y.listed = x.listed /\ y.snap = x.snap
<1> DEFINE coming == x.wire \o x.queue
           n == IF Head(x.wire).kind = "status" THEN Len(told) - Len(coming) + 1 ELSE x.seen + 1
           y == [x EXCEPT !.wire = Tail(@), !.greeted = TRUE, !.seen = n]
<1>1. x.wire \in Seq(Events) /\ x.queue \in Seq(Events) /\ x.seen \in Int
  BY SubscriberSteps
<1>2. /\ coming \in Seq(Events) /\ coming # <<>> /\ coming[1] = Head(x.wire)
      /\ Tail(x.wire) \o x.queue = Tail(coming)
  BY <1>1, PipeSteps
<1> HIDE DEF coming
<1>3. /\ Tail(x.wire) \in Seq(Events) /\ Len(told) \in Nat /\ Len(coming) \in Nat
      /\ Len(Tail(coming)) = Len(coming) - 1 /\ Len(coming) > 0
  BY <1>1, <1>2
<1>4. n \in Int
  BY <1>1, <1>3
<1> HIDE DEF n
<1>5. y \in Subscriber
  BY <1>3, <1>4, SubscriberSteps
<1>6. /\ y.link = x.link /\ y.wire = Tail(x.wire) /\ y.queue = x.queue
      /\ y.listed = x.listed /\ y.greeted = TRUE /\ y.seen = n /\ y.clean = x.clean /\ y.snap = x.snap
  BY DEF Subscriber
<1> HIDE DEF y
<1>7. x.link \notin {"away", "asked", "snapped"}
  BY DEF Follows
<1>8. x.listed => /\ up /\ x.link = "live"
                  /\ SuffixOf(Tail(coming), told) /\ n + Len(Tail(coming)) = Len(told)
  <2> SUFFICES ASSUME x.listed
               PROVE  /\ up /\ x.link = "live"
                      /\ SuffixOf(Tail(coming), told) /\ n + Len(Tail(coming)) = Len(told)
    OBVIOUS
  <2>1. /\ up /\ x.link = "live"
        /\ x.greeted => SuffixOf(coming, told) /\ x.seen + Len(coming) = Len(told)
        /\ ~x.greeted => coming[1].kind = "status" /\ SuffixOf(Tail(coming), told)
    BY DEF Follows, coming
  <2>2. CASE x.greeted
    <3>1. SuffixOf(Tail(coming), told)
      BY <1>2, <2>1, <2>2, SuffixSteps
    <3>2. coming[1] = told[Len(told) - Len(coming) + 1] /\ Len(coming) <= Len(told)
      <4>1. /\ Len(coming) <= Len(told)
            /\ \A i \in 1..Len(coming) : coming[i] = told[Len(told) - Len(coming) + i]
        BY <1>2, <2>1, <2>2, SuffixElements
      <4>2. 1 \in 1..Len(coming)
        BY <1>3
      <4> QED BY <4>1, <4>2
    <3>3. Head(x.wire).kind # "status"
      <4>1. Len(told) - Len(coming) + 1 \in DOMAIN told
        BY <1>3, <3>2
      <4> QED BY <1>2, <3>2, <4>1
    <3>4. n = x.seen + 1
      BY <3>3 DEF n
    <3> QED BY <1>1, <1>3, <2>1, <2>2, <3>1, <3>4
  <2>3. CASE ~x.greeted
    <3>1. n = Len(told) - Len(coming) + 1
      BY <1>2, <2>1, <2>3 DEF n
    <3>2. n + Len(Tail(coming)) = Len(told)
      <4> DEFINE m == Len(Tail(coming))
                 k == Len(coming)
                 l == Len(told)
      <4>1. l \in Nat /\ k \in Nat /\ m = k - 1 /\ n = l - k + 1
        BY <1>3, <3>1
      <4> HIDE DEF m, k, l
      <4>2. n + m = l
        BY <4>1
      <4> QED BY <4>2 DEF m, l
    <3> QED BY <2>1, <2>3, <3>2, Zenon
  <2> QED BY <2>2, <2>3
<1>9. Follows(y, up, told)
  BY <1>2, <1>6, <1>7, <1>8 DEF Follows
<1> QED BY <1>5, <1>6, <1>9 DEF y, n, coming

\* A step of one subscriber alone.
LEMMA SubscriberStep ==
  ASSUME IInv, NEW s \in Followers, NEW y \in Subscriber, subs' = [subs EXCEPT ![s] = y],
         Follows(y, daemon.up, log), Armed(daemon', daemon), UNCHANGED <<todo, log>>,
         Truthful', Overlay', Keyboard'
  PROVE  IInv'
<1>1. subs' \in [Followers -> Subscriber] /\ \A u \in Followers : subs'[u] = y \/ subs'[u] = subs[u]
  BY DEF IInv, Typed
<1>2. daemon' \in State /\ daemon'.up = daemon.up /\ daemon'.buffer = daemon.buffer
  BY DEF Armed
<1>3. Typed' /\ LogIsNews'
  BY <1>1, <1>2 DEF IInv, Typed, LogIsNews
<1>4. Pending'
  BY <1>2 DEF IInv, Pending, Announcing
<1>5. Following'
  BY <1>1, <1>2 DEF IInv, Following
<1> QED BY <1>3, <1>4, <1>5 DEF IInv

\* The daemon's side of a connection; there is one follower, the overlay.
LEMMA ConnectionStep ==
  ASSUME IInv, NEW s \in Followers, UNCHANGED <<hud, keys>>,
         Snapshot(s) \/ AddSubscriber(s) \/ WriteFrame(s) \/ CloseStream(s)
  PROVE  IInv'
<1> DEFINE x == subs[s]
<1>1. s = H
  BY HudAssumption
<1>2. x \in Subscriber /\ Follows(x, daemon.up, log) /\ daemon \in State
  BY DEF IInv, Typed, Following
<1>3. /\ x.wire \in Seq(Events) /\ x.queue \in Seq(Events) /\ hud.inbox \in Seq(Events)
      /\ Armed(daemon, daemon) /\ DOMAIN subs = Followers
  BY <1>2, SubscriberSteps, ArmedSteps DEF IInv, Overlay, Typed
<1>4. ASSUME NEW y, subs' = [subs EXCEPT ![s] = y] PROVE subs'[H] = y
  BY <1>1, <1>3, <1>4
<1>5. Keyboard'
  BY DEF IInv, Keyboard
<1>6. x.link \in {"away", "asked", "snapped"} => x.wire = <<>> /\ x.queue = <<>> /\ ~x.greeted /\ ~x.listed
  BY <1>2 DEF Follows
<1>7. CASE Snapshot(s)
  <2> DEFINE snap == Ev("status", daemon.buffer)
             y == [x EXCEPT !.link = "snapped", !.clean = TRUE, !.snap = snap]
  <2>1. snap \in Events
    BY <1>2, Sets DEF State
  <2>2. daemon' = Drained /\ x.link = "asked" /\ subs' = [subs EXCEPT ![s] = y] /\ UNCHANGED <<todo, log>>
    BY <1>7, Zenon DEF Snapshot
  <2> HIDE DEF snap
  <2>3. /\ y \in Subscriber /\ y.link = "snapped" /\ y.snap = snap
        /\ y.wire = x.wire /\ y.queue = x.queue /\ y.greeted = x.greeted /\ y.listed = x.listed
    <3>1. y \in Subscriber
      BY <1>2, <2>1, SubscriberSteps
    <3> QED BY <1>2, <3>1 DEF Subscriber
  <2> HIDE DEF x, y
  <2>4. Follows(y, daemon.up, log)
    BY <1>6, <2>2, <2>3 DEF Follows, snap, Ev
  <2>5. Armed(daemon', daemon)
    BY <2>2, DrainedIsArmed DEF IInv
  <2>6. Truthful'
    BY <1>4, <1>6, <2>2, <2>3, <2>5 DEF Truthful, Armed, snap
  <2>7. Overlay'
    <3>1. hud.at # "connect"
      BY <1>1, <2>2 DEF IInv, Overlay, x
    <3> QED BY <3>1 DEF IInv, Overlay
  <2> QED BY <1>5, <2>2, <2>3, <2>4, <2>5, <2>6, <2>7, SubscriberStep
<1>8. CASE AddSubscriber(s)
  <2> DEFINE y == [x EXCEPT !.link = "live", !.listed = TRUE, !.queue = <<x.snap>>, !.snap = None]
  <2>1. /\ daemon.up /\ x.link = "snapped" /\ subs' = [subs EXCEPT ![s] = y]
        /\ UNCHANGED <<daemon, todo, log>>
    BY <1>8, Zenon DEF AddSubscriber
  <2>2. x.snap \in Events /\ <<x.snap>> \in Seq(Events)
    BY <1>2 DEF Subscriber
  <2>3. /\ y \in Subscriber /\ y.link = "live" /\ y.listed = TRUE /\ y.queue = <<x.snap>>
        /\ y.wire = x.wire /\ y.greeted = x.greeted /\ y.clean = x.clean
    <3>1. y \in Subscriber
      BY <1>2, <2>2, SubscriberSteps
    <3> QED BY <1>2, <3>1 DEF Subscriber
  <2> HIDE DEF y
  <2>4. y.wire \o y.queue = <<x.snap>> /\ x.snap.kind = "status" /\ ~x.greeted
    <3>1. x.wire = <<>> /\ ~x.greeted
      BY <1>6, <2>1
    <3>2. x.snap.kind = "status"
      BY <1>2, <2>1 DEF Follows
    <3> QED BY <2>2, <2>3, <3>1, <3>2
  <2>5. Follows(y, daemon.up, log)
    <3>1. /\ <<x.snap>> # <<>> /\ <<x.snap>>[1] = x.snap /\ Tail(<<x.snap>>) = <<>>
          /\ SuffixOf(<<>>, log)
      BY <2>2, SuffixSteps DEF IInv, Typed
    <3> QED BY <2>1, <2>3, <2>4, <3>1 DEF Follows
  <2>6. Truthful'
    <3>1. subs'[H] = y /\ Coming(H)' = <<x.snap>>
      BY <1>4, <2>1, <2>4 DEF Coming
    <3>2. y.clean => x.snap = Ev("status", daemon.buffer)
      BY <1>1, <2>1, <2>3 DEF IInv, Truthful
    <3>3. y.clean => Settles(hud.inbox \o <<x.snap>>, hud.buffer, daemon.buffer)
      <4>1. Append(hud.inbox, x.snap) = hud.inbox \o <<x.snap>>
        BY <1>3, <2>2, AppendIsConcat
      <4>2. y.clean => x.snap.kind \in Reports /\ x.snap.value = daemon.buffer
        BY <3>2, <2>4 DEF Ev, Reports
      <4> QED BY <1>3, <2>2, <4>1, <4>2, SettlingSteps
    <3> QED BY <2>1, <2>3, <3>1, <3>3 DEF Truthful
  <2>7. Overlay'
    <3>1. hud.at # "connect"
      BY <1>1, <2>1 DEF IInv, Overlay
    <3> QED BY <3>1 DEF IInv, Overlay
  <2>8. Armed(daemon', daemon)
    BY <1>3, <2>1
  <2> QED BY <1>5, <2>1, <2>3, <2>5, <2>6, <2>7, <2>8, SubscriberStep
<1>9. CASE WriteFrame(s)
  <2> DEFINE y == [x EXCEPT !.queue = Tail(@), !.wire = Append(@, Head(x.queue))]
  <2>1. /\ x.queue # <<>> /\ subs' = [subs EXCEPT ![s] = y] /\ UNCHANGED <<daemon, todo, log>>
    BY <1>9, Zenon DEF WriteFrame
  <2>2. /\ y \in Subscriber /\ Follows(y, daemon.up, log)
        /\ y.wire \o y.queue = x.wire \o x.queue
        /\ y.link = x.link /\ y.clean = x.clean /\ y.listed = x.listed /\ y.snap = x.snap
    BY <1>2, <2>1, Writing
  <2> HIDE DEF y
  <2>3. Truthful' /\ Overlay'
    <3>1. subs'[H] = y /\ Coming(H)' = Coming(H)
      BY <1>1, <1>4, <2>1, <2>2 DEF Coming
    <3> QED BY <1>1, <2>1, <2>2, <3>1 DEF IInv, Truthful, Overlay
  <2>4. Armed(daemon', daemon)
    BY <1>3, <2>1
  <2> QED BY <1>5, <2>1, <2>2, <2>3, <2>4, SubscriberStep
<1>10. CASE CloseStream(s)
  <2> DEFINE y == [x EXCEPT !.link = "closed"]
  <2>1. /\ x.link = "live" /\ ~x.listed /\ subs' = [subs EXCEPT ![s] = y]
        /\ UNCHANGED <<daemon, todo, log>>
    BY <1>10, Zenon DEF CloseStream
  <2>2. y \in Subscriber /\ y.link = "closed" /\ y.listed = x.listed
    <3>1. y \in Subscriber
      BY <1>2, SubscriberSteps
    <3> QED BY <1>2, <3>1 DEF Subscriber
  <2> HIDE DEF y
  <2>3. Follows(y, daemon.up, log)
    BY <2>1, <2>2 DEF Follows
  <2>4. Truthful' /\ Overlay'
    <3>1. subs'[H] = y
      BY <1>4, <2>1
    <3> QED BY <1>1, <2>1, <2>2, <3>1 DEF IInv, Truthful, Overlay
  <2>5. Armed(daemon', daemon)
    BY <1>3, <2>1
  <2> QED BY <1>5, <2>1, <2>2, <2>3, <2>4, <2>5, SubscriberStep
<1> QED BY <1>7, <1>8, <1>9, <1>10

-----------------------------------------------------------------------------
(* Broadcasts, stops and starts.                                           *)

\* One subscriber of those that are told, or dropped.
Told(x, e) ==
    IF ~x.listed THEN x
    ELSE IF Len(x.queue) < QueueLen THEN [x EXCEPT !.queue = Append(@, e)]
    ELSE [x EXCEPT !.listed = FALSE]

LEMMA Telling ==
  ASSUME NEW x \in Subscriber, NEW up, NEW told \in Seq(Events), NEW e \in Events,
         Follows(x, up, told)
  PROVE  /\ Told(x, e) \in Subscriber /\ Follows(Told(x, e), up, Append(told, e))
         /\ Told(x, e).link = x.link /\ Told(x, e).clean = x.clean /\ Told(x, e).snap = x.snap
         /\ Told(x, e).listed =>
               /\ x.listed
               /\ Told(x, e).wire \o Told(x, e).queue = Append(x.wire \o x.queue, e)
<1>1. CASE ~x.listed
  <2>1. Told(x, e) = x
    BY <1>1 DEF Told
  <2>2. Follows(x, up, Append(told, e))
    BY <1>1 DEF Follows
  <2> QED BY <1>1, <2>1, <2>2
<1>2. CASE x.listed /\ Len(x.queue) < QueueLen
  <2>0. x.queue \in Seq(Events)
    BY SubscriberSteps
  <2>2. Append(x.queue, e) \in Seq(Events)
    BY <2>0
  <2> DEFINE y == [x EXCEPT !.queue = Append(@, e)]
  <2>1. Told(x, e) = y
    BY <1>2 DEF Told
  <2>3. y \in Subscriber
    BY <2>2, SubscriberSteps
  <2>4. Queued(y, x, e)
    BY DEF Queued, Subscriber
  <2> HIDE DEF y
  <2>5. /\ Follows(y, up, Append(told, e))
        /\ y.wire \o y.queue = Append(x.wire \o x.queue, e)
    BY <1>2, <2>3, <2>4, Queueing
  <2> QED BY <1>2, <2>1, <2>3, <2>4, <2>5 DEF Queued
<1>3. CASE x.listed /\ ~(Len(x.queue) < QueueLen)
  <2> DEFINE y == [x EXCEPT !.listed = FALSE]
  <2>1. Told(x, e) = y
    BY <1>3 DEF Told
  <2>2. y \in Subscriber
    BY SubscriberSteps
  <2>3. /\ y.link = x.link /\ y.clean = x.clean /\ y.snap = x.snap /\ y.listed = FALSE
    BY DEF Subscriber
  <2>4. x.link = "live"
    BY <1>3 DEF Follows
  <2> HIDE DEF y
  <2>5. Follows(y, up, Append(told, e))
    BY <2>3, <2>4 DEF Follows
  <2> QED BY <2>1, <2>2, <2>3, <2>5
<1> QED BY <1>1, <1>2, <1>3

LEMMA BroadcastStep ==
  ASSUME IInv, NEW t \in Threads, Broadcast(t), UNCHANGED <<hud, keys>>
  PROVE  IInv'
<1> DEFINE event == Head(todo[t]).event
<1>1. /\ todo[t] # <<>> /\ Head(todo[t]).do = "post" /\ log' = Append(log, event)
      /\ subs' = [s \in Followers |-> Told(subs[s], event)]
      /\ todo' = [todo EXCEPT ![t] = Tail(todo[t])] /\ daemon' = daemon
  BY Zenon DEF Broadcast, Does, Then, Told
<1>2. \/ todo[t] \in Seq(Steps) /\ event \in News /\ Tail(todo[t]) \in Seq(Steps)
      \/ /\ t = Supervisor /\ event = Ev("buffer", daemon.buffer)
         /\ Tail(todo[t]) = <<>> /\ todo[t] \notin Seq(Steps)
  <2>1. CASE todo[t] \in Seq(Steps)
    <3>1. Head(todo[t]) \in Steps /\ Tail(todo[t]) \in Seq(Steps)
      BY <1>1, <2>1
    <3>2. Reply.do # "post" /\ WriteFile.do # "post"
      BY DEF Reply, WriteFile
    <3>3. PICK e \in News : Head(todo[t]) = Post(e)
      BY <1>1, <3>1, <3>2 DEF Steps
    <3>4. Post(e).event = e
      BY DEF Post
    <3> QED BY <2>1, <3>1, <3>3, <3>4
  <2>2. CASE todo[t] \notin Seq(Steps)
    <3>1. t = Supervisor /\ todo[t] = Announcing
      BY <2>2 DEF IInv, Pending
    <3>2. Head(Announcing).event = Ev("buffer", daemon.buffer) /\ Tail(Announcing) = <<>>
      BY DEF Announcing, Post
    <3> QED BY <2>2, <3>1, <3>2
  <2> QED BY <2>1, <2>2
<1> HIDE DEF event
<1>3. event \in Events /\ event.kind # "status"
  <2>1. CASE event \in News
    BY <2>1, Sets DEF News, Kinds
  <2>2. CASE event = Ev("buffer", daemon.buffer)
    <3>1. daemon.buffer \in BOOLEAN
      BY DEF IInv, Typed, State
    <3> QED BY <2>2, <3>1, Sets DEF Ev
  <2> QED BY <1>2, <2>1, <2>2
<1>4. log \in Seq(Events) /\ subs \in [Followers -> Subscriber] /\ DOMAIN todo = Threads
  BY DEF IInv, Typed
<1>5. \A s \in Followers :
         /\ subs'[s] \in Subscriber /\ Follows(subs'[s], daemon.up, log')
         /\ subs'[s].link = subs[s].link /\ subs'[s].clean = subs[s].clean
         /\ subs'[s].snap = subs[s].snap
         /\ subs'[s].listed => /\ subs[s].listed
                               /\ Coming(s)' = Append(Coming(s), event)
  <2> SUFFICES ASSUME NEW s \in Followers
               PROVE  /\ subs'[s] \in Subscriber /\ Follows(subs'[s], daemon.up, log')
                      /\ subs'[s].link = subs[s].link /\ subs'[s].clean = subs[s].clean
                      /\ subs'[s].snap = subs[s].snap
                      /\ subs'[s].listed => /\ subs[s].listed
                                            /\ Coming(s)' = Append(Coming(s), event)
    OBVIOUS
  <2>1. subs[s] \in Subscriber /\ Follows(subs[s], daemon.up, log)
    BY <1>4 DEF IInv, Following
  <2>2. subs'[s] = Told(subs[s], event)
    BY <1>1
  <2> DEFINE x == subs[s]
             y == Told(x, event)
  <2>3. /\ y \in Subscriber /\ Follows(y, daemon.up, Append(log, event))
        /\ y.link = x.link /\ y.clean = x.clean /\ y.snap = x.snap
        /\ y.listed => x.listed /\ y.wire \o y.queue = Append(x.wire \o x.queue, event)
    BY <1>3, <1>4, <2>1, Telling
  <2> HIDE DEF y
  <2>4. subs'[s] = y
    BY <2>2 DEF y
  <2> QED BY <1>1, <2>3, <2>4 DEF Coming
<1>6. log' \in Seq(Events) /\ \A i \in DOMAIN log' : log'[i].kind # "status"
  BY <1>1, <1>3, <1>4 DEF IInv, LogIsNews
<1>7. Typed' /\ LogIsNews' /\ Following'
  <2>1. subs' \in [Followers -> Subscriber]
    BY <1>1, <1>5
  <2> QED BY <1>1, <1>4, <1>5, <1>6, <2>1 DEF IInv, Typed, LogIsNews, Following
<1>8. Pending'
  BY <1>1, <1>2, <1>4, AnnouncingIsNoStep DEF IInv, Pending, Announcing
<1>9. Truthful'
  <2>1. H \in Followers /\ Supervisor \in Threads
    BY HudAssumption DEF Threads
  <2>2. hud.inbox \in Seq(Events) /\ Coming(H) \in Seq(Events)
    <3>1. hud.inbox \in Seq(Events)
      BY DEF IInv, Overlay
    <3>2. subs[H].wire \in Seq(Events) /\ subs[H].queue \in Seq(Events)
      BY <1>4, <2>1, SubscriberSteps
    <3> QED BY <3>1, <3>2 DEF Coming
  <2>3. ASSUME subs'[H].listed, subs'[H].clean, todo'[Supervisor] \in Seq(Steps)
        PROVE  Settles(hud.inbox \o Coming(H)', hud.buffer, daemon.buffer)
    <3> DEFINE q == hud.inbox \o Coming(H)
    <3>1. q \in Seq(Events) /\ hud.inbox \o Coming(H)' = Append(q, event)
      <4>1. Coming(H)' = Append(Coming(H), event)
        BY <1>5, <2>1, <2>3
      <4>2. \A u, v \in Seq(Events) : u \o Append(v, event) = Append(u \o v, event)
        BY <1>3, PipeSteps
      <4>3. hud.inbox \o Append(Coming(H), event) = Append(q, event)
        BY <2>2, <4>2
      <4>4. q \in Seq(Events)
        BY <2>2
      <4> QED BY <4>1, <4>3, <4>4
    <3> HIDE DEF q
    <3>2. CASE todo[Supervisor] \in Seq(Steps)
      <4>1. Settles(q, hud.buffer, daemon.buffer)
        BY <1>5, <2>1, <2>3, <3>2 DEF IInv, Truthful, q
      <4>2. event \in News
        BY <1>2, <3>2
      <4>3. event.kind \notin Reports
        BY <4>2 DEF News, Kinds, Reports
      <4> QED BY <1>3, <3>1, <4>1, <4>3, SettlingSteps
    <3>3. CASE todo[Supervisor] \notin Seq(Steps)
      <4>1. t = Supervisor
        BY <1>1, <1>4, <2>1, <2>3, <3>3
      <4>2. event.kind \in Reports /\ event.value = daemon.buffer
        BY <1>2, <3>3, <4>1 DEF Ev, Reports
      <4> QED BY <1>3, <3>1, <4>2, SettlingSteps
    <3> QED BY <3>2, <3>3
  <2> QED BY <1>1, <1>5, <2>1, <2>3 DEF IInv, Truthful
<1>10. Overlay' /\ Keyboard'
  <2>1. H \in Followers
    BY HudAssumption
  <2> QED BY <1>5, <2>1 DEF IInv, Overlay, Keyboard
<1> QED BY <1>7, <1>8, <1>9, <1>10 DEF IInv

LEMMA StopStartStep ==
  ASSUME IInv, Stop \/ Start, UNCHANGED <<hud, keys>>
  PROVE  IInv'
<1>0. H \in Followers /\ Supervisor \in Threads /\ daemon \in State /\ DOMAIN todo = Threads
      /\ subs \in [Followers -> Subscriber] /\ log \in Seq(Events)
  BY HudAssumption DEF Threads, IInv, Typed
<1>1. CASE Stop
  <2> DEFINE d == [daemon EXCEPT !.up = FALSE, !.buffer = FALSE, !.recording = FALSE,
                                 !.broken = FALSE, !.fault = FALSE]
             Shut(x) == [x EXCEPT !.link = "closed", !.queue = <<>>, !.listed = FALSE]
  <2>1. /\ daemon' = d /\ todo' = [t \in Threads |-> <<>>] /\ log' = log
        /\ subs' = [s \in Followers |-> IF subs[s].link = "away" THEN subs[s] ELSE Shut(subs[s])]
    BY <1>1, Zenon DEF Stop
  <2>2. d \in State
    BY <1>0, StateSteps
  <2> HIDE DEF d
  <2>3. ASSUME NEW s \in Followers
        PROVE  /\ subs'[s] \in Subscriber /\ Follows(subs'[s], daemon'.up, log') /\ ~subs'[s].listed
               /\ subs'[s].link # "snapped" /\ (subs[s].link = "away" => subs'[s] = subs[s])
    <3>1. subs[s] \in Subscriber /\ Follows(subs[s], daemon.up, log)
      BY <1>0 DEF IInv, Following
    <3>2. CASE subs[s].link = "away"
      <4>1. subs'[s] = subs[s]
        BY <2>1, <3>2
      <4> QED BY <3>1, <3>2, <4>1 DEF Follows
    <3>3. CASE subs[s].link # "away"
      <4> DEFINE y == Shut(subs[s])
      <4>1. subs'[s] = y
        BY <2>1, <3>3
      <4>2. y \in Subscriber
        BY <3>1, SubscriberSteps
      <4>3. y.link = "closed" /\ y.listed = FALSE
        BY <3>1 DEF Subscriber
      <4> HIDE DEF y
      <4> QED BY <3>3, <4>1, <4>2, <4>3 DEF Follows
    <3> QED BY <3>2, <3>3
  <2>4. Typed' /\ LogIsNews' /\ Following'
    <3>1. subs' \in [Followers -> Subscriber]
      BY <2>1, <2>3
    <3> QED BY <1>0, <2>1, <2>2, <2>3, <3>1 DEF IInv, Typed, LogIsNews, Following
  <2>5. Pending'
    BY <2>1, AnnouncingIsNoStep DEF Pending
  <2>6. Truthful' /\ Overlay' /\ Keyboard'
    BY <1>0, <2>3 DEF IInv, Truthful, Overlay, Keyboard
  <2> QED BY <2>4, <2>5, <2>6 DEF IInv
<1>2. CASE Start
  <2> DEFINE d == [daemon EXCEPT !.up = TRUE]
  <2>1. /\ ~daemon.up /\ daemon' = d /\ log' = <<>> /\ UNCHANGED <<todo, subs>>
    BY <1>2, Zenon DEF Start
  <2>2. d \in State /\ d.buffer = daemon.buffer
    <3>1. d \in State
      BY <1>0, StateSteps
    <3> QED BY <1>0, <3>1 DEF State
  <2> HIDE DEF d
  <2>3. \A s \in Followers : ~subs[s].listed
    BY <2>1 DEF IInv, Following, Follows
  <2>4. Following'
    BY <2>1, <2>3 DEF IInv, Following, Follows
  <2>5. <<>> \in Seq(Events) /\ DOMAIN <<>> = {}
    OBVIOUS
  <2>6. Typed' /\ LogIsNews'
    BY <1>0, <2>1, <2>2, <2>5 DEF IInv, Typed, LogIsNews
  <2>7. Pending' /\ Truthful' /\ Overlay' /\ Keyboard'
    BY <1>0, <2>1, <2>2, <2>3 DEF IInv, Pending, Announcing, Truthful, Overlay, Keyboard
  <2> QED BY <2>4, <2>6, <2>7 DEF IInv
<1> QED BY <1>1, <1>2

-----------------------------------------------------------------------------
(* The keys.                                                               *)

LEMMA KeysSettle ==
  ASSUME NEW k, Discreet(k)
  PROVE  /\ Discreet(Synced(k))
         /\ \A on \in BOOLEAN : Discreet(Configured(k, on))
<1> DEFINE Loose(m) == m \in KeyState /\ (~m.on => ~m.shown /\ ~m.down)
<1>1. ASSUME NEW m, Loose(m) PROVE Discreet(Synced(m))
  <2>1. CASE ~m.on
    <3> DEFINE n == [m EXCEPT !.reader = "none", !.mail = << >>, !.failed = FALSE]
    <3>1. n \in KeyState
      BY <1>1, Zenon DEF KeyState
    <3>2. n.reader = "none" /\ n.mail = <<>> /\ n.shown = m.shown /\ n.down = m.down
      BY <1>1, Zenon DEF KeyState
    <3>3. Synced(m) = n
      BY <2>1 DEF Synced
    <3> HIDE DEF n
    <3> QED BY <1>1, <2>1, <3>1, <3>2, <3>3, Zenon DEF Discreet
  <2>2. CASE m.on /\ m.reader = "none" /\ ~m.failed
    <3> DEFINE n == [m EXCEPT !.reader = "running"]
    <3>1. n \in KeyState
      BY <1>1, Zenon DEF KeyState
    <3>2. n.on = m.on
      BY <1>1, Zenon DEF KeyState
    <3>3. Synced(m) = n
      BY <2>2 DEF Synced
    <3> HIDE DEF n
    <3> QED BY <2>2, <3>1, <3>2, <3>3, Zenon DEF Discreet
  <2>3. CASE m.on /\ ~(m.reader = "none" /\ ~m.failed)
    <3>1. Synced(m) = m
      BY <2>3 DEF Synced
    <3> QED BY <1>1, <2>3, <3>1, Zenon DEF Discreet
  <2> QED BY <2>1, <2>2, <2>3
<1>2. ASSUME NEW on \in BOOLEAN PROVE Discreet(Configured(k, on))
  <2> DEFINE m == IF on THEN [k EXCEPT !.on = TRUE]
                  ELSE [k EXCEPT !.on = FALSE, !.down = FALSE, !.shown = FALSE]
  <2>1. CASE on
    <3>1. [k EXCEPT !.on = TRUE] \in KeyState /\ [k EXCEPT !.on = TRUE].on = TRUE
      BY Zenon DEF Discreet, KeyState
    <3>2. m = [k EXCEPT !.on = TRUE]
      BY <2>1
    <3> QED BY <1>1, <3>1, <3>2, Zenon DEF Configured
  <2>2. CASE ~on
    <3> DEFINE n == [k EXCEPT !.on = FALSE, !.down = FALSE, !.shown = FALSE]
    <3>1. n \in KeyState
      BY Zenon DEF Discreet, KeyState
    <3>2. n.down = FALSE /\ n.shown = FALSE
      BY Zenon DEF Discreet, KeyState
    <3>3. m = n
      BY <2>2
    <3> HIDE DEF n
    <3>4. Loose(m)
      BY <3>1, <3>2, <3>3, Zenon
    <3> QED BY <1>1, <3>4 DEF Configured
  <2> QED BY <2>1, <2>2
<1>3. Loose(k)
  BY Zenon DEF Discreet
<1> HIDE DEF Loose
<1> QED BY <1>1, <1>2, <1>3

\* A step of the keyboard alone.
LEMMA KeyStep ==
  ASSUME IInv, KeyHappens \/ KeyReaderEnds \/ DrainKeys \/ LabelsExpire
  PROVE  IInv'
<1>1. UNCHANGED <<daemon, todo, log, subs, hud>>
  BY Zenon DEF KeyHappens, KeyReaderEnds, DrainKeys, LabelsExpire, eventVars
<1>2. keys \in KeyState /\ (~keys.on => ~keys.shown /\ ~keys.down /\ keys.reader = "none" /\ keys.mail = <<>>)
  BY DEF IInv, Keyboard, Discreet
<1>3. Discreet(keys')
  <2>1. CASE KeyHappens
    <3>1. PICK what \in {"press", "release", "error"} : keys' = [keys EXCEPT !.mail = <<what>>]
      BY <2>1 DEF KeyHappens
    <3>2. <<what>> \in {<<>>, <<"press">>, <<"release">>, <<"error">>} /\ keys.on
      BY <1>2, <2>1 DEF KeyHappens
    <3>3. keys' \in KeyState /\ keys'.on = keys.on
      BY <1>2, <3>1, <3>2, Zenon DEF KeyState
    <3> QED BY <3>2, <3>3, Zenon DEF Discreet
  <2>2. CASE KeyReaderEnds
    <3>1. keys' = [keys EXCEPT !.reader = "ended"] /\ keys.on
      BY <1>2, <2>2 DEF KeyReaderEnds
    <3>2. keys' \in KeyState /\ keys'.on = keys.on
      BY <1>2, <3>1, Zenon DEF KeyState
    <3> QED BY <3>1, <3>2, Zenon DEF Discreet
  <2>3. CASE LabelsExpire
    <3>1. keys' = [keys EXCEPT !.shown = FALSE] /\ keys.on
      BY <1>2, <2>3 DEF LabelsExpire
    <3>2. keys' \in KeyState /\ keys'.on = keys.on
      BY <1>2, <3>1, Zenon DEF KeyState
    <3> QED BY <3>1, <3>2, Zenon DEF Discreet
  <2>4. CASE DrainKeys
    <3>1. keys.on
      BY <1>2, <2>4 DEF DrainKeys
    <3>2. /\ Pressed(keys) \in KeyState /\ Pressed(keys).on = keys.on
          /\ Released(keys) \in KeyState /\ Released(keys).on = keys.on
      <4>1. (keys.shown \/ ~keys.down) \in BOOLEAN
        OBVIOUS
      <4> QED BY <1>2, <4>1, Zenon DEF Pressed, Released, KeyState
    <3>3. \A k \in KeyState :
             /\ [k EXCEPT !.mail = <<>>] \in KeyState /\ [k EXCEPT !.mail = <<>>].on = k.on
             /\ [k EXCEPT !.mail = <<>>, !.failed = TRUE, !.reader = "none"] \in KeyState
             /\ [k EXCEPT !.mail = <<>>, !.failed = TRUE, !.reader = "none"].on = k.on
             /\ [k EXCEPT !.reader = "none"] \in KeyState /\ [k EXCEPT !.reader = "none"].on = k.on
      BY Zenon DEF KeyState
    <3>4. \/ keys' = [Pressed(keys) EXCEPT !.mail = <<>>]
          \/ keys' = [Released(keys) EXCEPT !.mail = <<>>]
          \/ keys' = [keys EXCEPT !.mail = <<>>, !.failed = TRUE, !.reader = "none"]
          \/ keys' = [keys EXCEPT !.reader = "none"]
      BY <2>4, Zenon DEF DrainKeys
    <3>5. keys' \in KeyState /\ keys'.on = keys.on
      BY <1>2, <3>2, <3>3, <3>4, Zenon
    <3> QED BY <3>1, <3>5, Zenon DEF Discreet
  <2> QED BY <2>1, <2>2, <2>3, <2>4
<1>4. Typed' /\ LogIsNews' /\ Overlay' /\ Following'
  BY <1>1 DEF IInv, Typed, LogIsNews, Overlay, Following
<1>5. Pending' /\ Truthful'
  BY <1>1 DEF IInv, Pending, Announcing, Truthful, Coming
<1> QED BY <1>3, <1>4, <1>5 DEF IInv, Keyboard

-----------------------------------------------------------------------------
(* The overlay.                                                            *)

\* What the main thread makes of its own state.
LEMMA OverlaySteps ==
  ASSUME NEW h \in [at : {"connect", "fetch", "live"}, offline : BOOLEAN, buffer : BOOLEAN,
                    inbox : Seq(Events)]
  PROVE  /\ \A b \in BOOLEAN : /\ Offline(h, b).at = h.at /\ Offline(h, b).inbox = h.inbox
                               /\ Offline(h, b).offline = b /\ Offline(h, b).buffer \in BOOLEAN
         /\ \A b \in BOOLEAN : Offline(h, b) \in [at : {"connect", "fetch", "live"}, offline : BOOLEAN,
                                                  buffer : BOOLEAN, inbox : Seq(Events)]
<1>1. \A b \in BOOLEAN : (h.buffer /\ ~b) \in BOOLEAN
  OBVIOUS
<1> QED BY <1>1, Zenon DEF Offline

\* A subscription is begun, or the daemon is not there.
LEMMA SubscribeStep ==
  ASSUME IInv, HudSubscribe
  PROVE  IInv'
<1> DEFINE Hud == [at : {"connect", "fetch", "live"}, offline : BOOLEAN, buffer : BOOLEAN,
                   inbox : Seq(Events)]
<1>1. /\ H \in Followers /\ hud \in Hud /\ hud.at = "connect" /\ subs[H].link = "away"
      /\ keys' = keys
  BY HudAssumption, Zenon DEF IInv, Overlay, HudSubscribe
<1>2. CASE Connect(H) /\ hud' = [Offline(hud, FALSE) EXCEPT !.at = "fetch"]
  <2> DEFINE y == [Away EXCEPT !.link = "asked"]
  <2>1. subs' = [subs EXCEPT ![H] = y] /\ UNCHANGED <<daemon, todo, log>>
    BY <1>2 DEF Connect
  <2>2. /\ y.link = "asked" /\ y.wire = <<>> /\ y.queue = <<>> /\ y.greeted = FALSE
        /\ y.listed = FALSE
    BY DEF Away
  <2>3. y \in Subscriber
    <3>1. subs[H] \in Subscriber
      BY <1>1 DEF IInv, Typed
    <3> QED BY <3>1, SubscriberSteps
  <2> HIDE DEF y
  <2>4. Follows(y, daemon.up, log)
    BY <2>2 DEF Follows
  <2>5. subs'[H] = y
    BY <1>1, <2>1 DEF IInv, Typed
  <2>6. Truthful'
    BY <2>2, <2>5 DEF Truthful
  <2>7. Overlay'
    <3> DEFINE g == Offline(hud, FALSE)
    <3>1. g \in Hud /\ g.offline = FALSE
      BY <1>1, OverlaySteps
    <3>2. hud' = [g EXCEPT !.at = "fetch"]
      BY <1>2
    <3> HIDE DEF g
    <3>3. hud' \in Hud /\ hud'.at = "fetch" /\ hud'.offline = FALSE
      BY <3>1, <3>2, Zenon
    <3> QED BY <3>3 DEF Overlay
  <2>8. Armed(daemon', daemon) /\ Keyboard'
    <3>1. daemon' \in State
      BY <2>1 DEF IInv, Typed
    <3> QED BY <1>1, <2>1, <3>1 DEF IInv, Keyboard, Armed
  <2> QED BY <1>1, <2>1, <2>3, <2>4, <2>6, <2>7, <2>8, SubscriberStep
<1>3. CASE hud' = Offline(hud, TRUE) /\ UNCHANGED eventVars
  <2>1. UNCHANGED <<daemon, todo, log, subs>> /\ ~subs[H].listed
    BY <1>1, <1>3 DEF eventVars, IInv, Following, Follows
  <2>2. hud' \in Hud /\ hud'.at = "connect"
    BY <1>1, <1>3, OverlaySteps
  <2>3. Overlay' /\ Truthful'
    BY <1>1, <2>1, <2>2 DEF Overlay, Truthful
  <2>4. Typed' /\ Pending' /\ LogIsNews' /\ Following' /\ Keyboard'
    BY <1>1, <2>1 DEF IInv, Typed, Pending, Announcing, LogIsNews, Following, Keyboard
  <2> QED BY <2>3, <2>4 DEF IInv
<1> QED BY <1>2, <1>3, Zenon DEF HudSubscribe

\* The configuration is fetched, on a connection of its own.
LEMMA FetchStep ==
  ASSUME IInv, HudFetch
  PROVE  IInv'
<1>1. /\ UNCHANGED <<daemon, todo, log, subs>> /\ hud.at = "fetch"
      /\ hud' = [hud EXCEPT !.at = "live"] /\ daemon \in State
      /\ keys' = IF daemon.up THEN Configured(keys, daemon.keys) ELSE Synced(keys)
  BY DEF HudFetch, eventVars, IInv, Typed
<1>2. Discreet(keys')
  <2>1. daemon.keys \in BOOLEAN /\ Discreet(keys)
    BY <1>1 DEF State, IInv, Keyboard
  <2> QED BY <1>1, <2>1, KeysSettle
<1>3. /\ hud' \in [at : {"connect", "fetch", "live"}, offline : BOOLEAN, buffer : BOOLEAN,
                   inbox : Seq(Events)]
      /\ hud'.at = "live" /\ hud'.offline = hud.offline /\ hud'.buffer = hud.buffer
      /\ hud'.inbox = hud.inbox
  BY <1>1, Zenon DEF IInv, Overlay
<1>4. Overlay' /\ Truthful'
  BY <1>1, <1>3 DEF IInv, Overlay, Truthful, Coming
<1>5. Typed' /\ Pending' /\ LogIsNews' /\ Following'
  BY <1>1 DEF IInv, Typed, Pending, Announcing, LogIsNews, Following
<1> QED BY <1>2, <1>4, <1>5 DEF IInv, Keyboard

\* What is read is on its way still, in the inbox.
LEMMA ReadsStep ==
  ASSUME IInv, HudReads
  PROVE  IInv'
<1> DEFINE x == subs[H]
           n == IF Head(x.wire).kind = "status" THEN Len(log) - Len(x.wire \o x.queue) + 1 ELSE x.seen + 1
           y == [x EXCEPT !.wire = Tail(@), !.greeted = TRUE, !.seen = n]
<1>1. /\ H \in Followers /\ x \in Subscriber /\ Follows(x, daemon.up, log)
      /\ log \in Seq(Events) /\ \A i \in DOMAIN log : log[i].kind # "status"
      /\ daemon \in State /\ DOMAIN subs = Followers
  BY HudAssumption DEF IInv, Typed, Following, LogIsNews
<1>2. x.wire # <<>> /\ UNCHANGED <<daemon, todo, log, keys>>
  BY DEF HudReads, Read
<1>3. /\ subs' = [subs EXCEPT ![H] = y]
      /\ hud' = [hud EXCEPT !.inbox = Append(@, Head(x.wire))]
  BY Zenon DEF HudReads, Read, Coming
<1>4. /\ y \in Subscriber /\ Follows(y, daemon.up, log)
      /\ y.wire \o y.queue = Tail(x.wire) \o x.queue
      /\ y.link = x.link /\ y.clean = x.clean /\ y.listed = x.listed /\ y.snap = x.snap
  BY <1>1, <1>2, Reading
<1> HIDE DEF y
<1>5. /\ x.wire \in Seq(Events) /\ x.queue \in Seq(Events) /\ hud.inbox \in Seq(Events)
      /\ Head(x.wire) \in Events
  <2>1. x.wire \in Seq(Events) /\ x.queue \in Seq(Events)
    BY <1>1, SubscriberSteps
  <2>2. hud.inbox \in Seq(Events)
    BY DEF IInv, Overlay
  <2> HIDE DEF x
  <2> QED BY <1>2, <2>1, <2>2
<1>6. Append(hud.inbox, Head(x.wire)) \in Seq(Events)
  BY <1>5
<1>7. /\ hud' \in [at : {"connect", "fetch", "live"}, offline : BOOLEAN, buffer : BOOLEAN,
                   inbox : Seq(Events)]
      /\ hud'.at = hud.at /\ hud'.offline = hud.offline /\ hud'.buffer = hud.buffer
      /\ hud'.inbox = Append(hud.inbox, Head(x.wire))
  BY <1>3, <1>6, Zenon DEF IInv, Overlay
<1>8. subs'[H] = y /\ Armed(daemon', daemon)
  BY <1>1, <1>2, <1>3 DEF Armed
<1>9. hud'.inbox \o Coming(H)' = hud.inbox \o Coming(H)
  <2>1. Coming(H)' = Tail(x.wire) \o x.queue /\ Coming(H) = x.wire \o x.queue
    BY <1>4, <1>8 DEF Coming
  <2>2. Append(hud.inbox, Head(x.wire)) \o (Tail(x.wire) \o x.queue) = hud.inbox \o (x.wire \o x.queue)
    <3> HIDE DEF x
    <3> DEFINE w == x.wire
               q == x.queue
               u == hud.inbox
    <3>1. w \in Seq(Events) /\ q \in Seq(Events) /\ u \in Seq(Events) /\ w # <<>>
      BY <1>2, <1>5
    <3> HIDE DEF w, q, u
    <3>2. \A z \in Seq(Events) : w # <<>> => Append(z, Head(w)) \o (Tail(w) \o q) = z \o (w \o q)
      BY <3>1, PipeSteps
    <3>3. Append(u, Head(w)) \o (Tail(w) \o q) = u \o (w \o q)
      BY <3>1, <3>2, Zenon
    <3> QED BY <3>3 DEF w, q, u
  <2> QED BY <1>7, <2>1, <2>2
<1>10. Truthful' /\ Overlay' /\ Keyboard'
  BY <1>2, <1>4, <1>7, <1>8, <1>9 DEF IInv, Truthful, Overlay, Keyboard
<1> QED BY <1>1, <1>2, <1>3, <1>4, <1>8, <1>10, SubscriberStep

\* The next event is shown.
LEMMA AppliesStep ==
  ASSUME IInv, HudApplies
  PROVE  IInv'
<1> DEFINE event == Head(hud.inbox)
           Hud == [at : {"connect", "fetch", "live"}, offline : BOOLEAN, buffer : BOOLEAN,
                   inbox : Seq(Events)]
<1>1. /\ UNCHANGED <<daemon, todo, log, subs>> /\ hud.at = "live" /\ hud.inbox # <<>>
      /\ hud' = Indicator([hud EXCEPT !.inbox = Tail(@)], event)
      /\ keys' = IF event.kind = "config" THEN Configured(keys, event.value) ELSE Synced(keys)
  BY Zenon DEF HudApplies, eventVars
<1>2. hud \in Hud /\ hud.inbox \in Seq(Events)
  BY DEF IInv, Overlay
<1>3. event \in Events /\ Tail(hud.inbox) \in Seq(Events) /\ event.value \in BOOLEAN
  <2>1. event \in Events /\ Tail(hud.inbox) \in Seq(Events)
    BY <1>1, <1>2
  <2> QED BY <2>1 DEF Events
<1> HIDE DEF event
<1>4. Discreet(keys')
  <2>1. Discreet(keys)
    BY DEF IInv, Keyboard
  <2> QED BY <1>1, <1>3, <2>1, KeysSettle
<1>5. /\ hud' \in Hud /\ hud'.at = "live" /\ hud'.offline = hud.offline
      /\ hud'.inbox = Tail(hud.inbox)
      /\ hud'.buffer = IF event.kind \in Reports THEN event.value ELSE hud.buffer
  <2> DEFINE g == [hud EXCEPT !.inbox = Tail(@)]
  <2>1. /\ g \in Hud /\ g.at = "live" /\ g.offline = hud.offline
        /\ g.inbox = Tail(hud.inbox) /\ g.buffer = hud.buffer
    BY <1>1, <1>2, <1>3, Zenon
  <2> HIDE DEF g
  <2>2. CASE event.kind \in Reports
    <3>1. hud' = [g EXCEPT !.buffer = event.value]
      BY <1>1, <2>2, Zenon DEF Indicator, Reports, g
    <3>2. /\ hud' \in Hud /\ hud'.at = "live" /\ hud'.offline = hud.offline
          /\ hud'.inbox = Tail(hud.inbox) /\ hud'.buffer = event.value
      BY <1>3, <2>1, <3>1, Zenon
    <3> QED BY <2>2, <3>2, Zenon
  <2>3. CASE event.kind \notin Reports
    <3>1. hud' = g
      BY <1>1, <2>3, Zenon DEF Indicator, Reports, g
    <3> QED BY <2>1, <2>3, <3>1, Zenon
  <2> QED BY <2>2, <2>3
<1>6. Overlay'
  BY <1>1, <1>5 DEF IInv, Overlay
<1>7. Truthful'
  <2>1. subs[H] \in Subscriber
    BY HudAssumption DEF IInv, Typed
  <2>2. subs[H].wire \in Seq(Events) /\ subs[H].queue \in Seq(Events)
    BY <2>1, SubscriberSteps
  <2>3. Coming(H) \in Seq(Events) /\ Coming(H)' = Coming(H)
    BY <1>1, <2>2 DEF Coming
  <2> DEFINE q == hud.inbox \o Coming(H)
  <2>4. q \in Seq(Events) /\ q # <<>> /\ Tail(q) = Tail(hud.inbox) \o Coming(H) /\ Head(q) = event
    BY <1>1, <1>2, <2>3, PipeSteps DEF event
  <2>5. hud'.inbox \o Coming(H)' = Tail(q)
    BY <1>5, <2>3, <2>4
  <2> HIDE DEF q
  <2>6. Settles(q, hud.buffer, daemon.buffer) => Settles(Tail(q), hud'.buffer, daemon.buffer)
    BY <1>5, <2>4, SettlingSteps
  <2> QED BY <1>1, <2>5, <2>6 DEF IInv, Truthful, q
<1>8. Typed' /\ Pending' /\ LogIsNews' /\ Following'
  BY <1>1 DEF IInv, Typed, Pending, Announcing, LogIsNews, Following
<1> QED BY <1>4, <1>6, <1>7, <1>8 DEF IInv, Keyboard

\* The connection is over.
LEMMA GoneStep ==
  ASSUME IInv, HudGone
  PROVE  IInv'
<1> DEFINE Hud == [at : {"connect", "fetch", "live"}, offline : BOOLEAN, buffer : BOOLEAN,
                   inbox : Seq(Events)]
<1>1. /\ H \in Followers /\ subs' = [subs EXCEPT ![H] = Away]
      /\ UNCHANGED <<daemon, todo, log, keys>> /\ hud \in Hud /\ DOMAIN subs = Followers
  BY HudAssumption DEF HudGone, Leave, IInv, Overlay, Typed
<1>2. /\ Away.link = "away" /\ Away.wire = <<>> /\ Away.queue = <<>> /\ Away.greeted = FALSE
      /\ Away.listed = FALSE
  BY DEF Away
<1>3. Follows(Away, daemon.up, log) /\ Away \in Subscriber
  BY <1>2, Sets DEF Follows
<1>4. subs'[H] = Away
  BY <1>1
<1>5. Truthful' /\ Keyboard'
  BY <1>1, <1>2, <1>4 DEF Truthful, IInv, Keyboard
<1>6. Overlay'
  <2>1. PICK idle \in BOOLEAN : hud' = [IF idle THEN hud ELSE Offline(hud, TRUE) EXCEPT !.at = "connect"]
    BY Zenon DEF HudGone
  <2> DEFINE g == IF idle THEN hud ELSE Offline(hud, TRUE)
  <2>2. g \in Hud
    BY <1>1, OverlaySteps
  <2> HIDE DEF g
  <2>3. hud' = [g EXCEPT !.at = "connect"]
    BY <2>1 DEF g
  <2>4. hud' \in Hud /\ hud'.at = "connect"
    BY <2>2, <2>3, Zenon
  <2> QED BY <1>2, <1>4, <2>4 DEF Overlay
<1>7. Armed(daemon', daemon)
  <2>1. daemon' \in State
    BY <1>1 DEF IInv, Typed
  <2> QED BY <1>1, <2>1 DEF Armed
<1> QED BY <1>1, <1>3, <1>5, <1>6, <1>7, SubscriberStep

-----------------------------------------------------------------------------
(* The invariant.                                                          *)

LEMMA InitInv == Init => IInv
<1> SUFFICES ASSUME Init PROVE IInv
  OBVIOUS
<1>1. /\ daemon = NewDaemon /\ todo = [t \in Threads |-> << >>] /\ log = << >>
      /\ subs = [s \in Followers |-> Away] /\ hud = NewHud /\ keys = NewKeys
  BY DEF Init, EventsInit
<1>2. H \in Followers /\ subs[H] = Away
  BY <1>1, HudAssumption
<1>3. /\ Away.link = "away" /\ Away.wire = <<>> /\ Away.queue = <<>> /\ Away.greeted = FALSE
      /\ Away.listed = FALSE
  BY DEF Away
<1>4. <<>> \in Seq(Events) /\ <<>> \in Seq(Steps) /\ DOMAIN <<>> = {}
  OBVIOUS
<1>5. Typed /\ LogIsNews /\ Pending
  <2>1. daemon \in State
    BY <1>1, Zenon DEF NewDaemon, State
  <2>2. subs \in [Followers -> Subscriber]
    BY <1>1, Sets
  <2> QED BY <1>1, <1>4, <2>1, <2>2 DEF Typed, LogIsNews, Pending
<1>6. Following
  BY <1>1, <1>3 DEF Following, Follows
<1>7. Truthful
  BY <1>2, <1>3 DEF Truthful
<1>8. Overlay
  <2>1. NewHud \in [at : {"connect", "fetch", "live"}, offline : BOOLEAN, buffer : BOOLEAN,
                    inbox : Seq(Events)]
    BY <1>4, Zenon DEF NewHud
  <2>2. NewHud.at = "connect"
    BY DEF NewHud
  <2> QED BY <1>1, <1>2, <1>3, <2>1, <2>2 DEF Overlay
<1>9. Keyboard
  <2>1. NewKeys \in KeyState
    BY Zenon DEF NewKeys, KeyState
  <2> QED BY <1>1, <2>1 DEF Keyboard, Discreet, NewKeys
<1> QED BY <1>5, <1>6, <1>7, <1>8, <1>9 DEF IInv

\* Every step of the daemon and of the overlay keeps the invariant.
THEOREM Invariance == Spec => []IInv
<1>1. IInv /\ [Next]_vars => IInv'
  <2> SUFFICES ASSUME IInv, [Next]_vars PROVE IInv'
    OBVIOUS
  <2>1. CASE Daemon /\ UNCHANGED hudVars
    <3>1. UNCHANGED <<hud, keys>>
      BY <2>1 DEF hudVars
    <3>2. CASE \E c \in Clients : ToggleRecord(c) \/ SaveLast(c) \/ Mark(c) \/ SetConfig(c)
      BY <3>1, <3>2, ClientStep
    <3>3. CASE \E t \in Threads : WriteDone(t) \/ WriteReply(t) \/ Broadcast(t)
      BY <3>1, <3>3, WriterStep, BroadcastStep
    <3>4. CASE Supervise \/ PumpDrains \/ EncodeAlarm \/ DiskFails
      BY <3>1, <3>4, OwnStep
    <3>5. CASE \E s \in Followers :
                  Snapshot(s) \/ AddSubscriber(s) \/ WriteFrame(s) \/ CloseStream(s)
      BY <3>1, <3>5, ConnectionStep
    <3>6. CASE Stop \/ Start
      BY <3>1, <3>6, StopStartStep
    <3> QED BY <2>1, <3>2, <3>3, <3>4, <3>5, <3>6 DEF Daemon
  <2>2. CASE HudSubscribe
    BY <2>2, SubscribeStep
  <2>3. CASE HudFetch
    BY <2>3, FetchStep
  <2>4. CASE HudReads
    BY <2>4, ReadsStep
  <2>5. CASE HudApplies
    BY <2>5, AppliesStep
  <2>6. CASE HudGone
    BY <2>6, GoneStep
  <2>7. CASE KeyHappens \/ KeyReaderEnds \/ DrainKeys \/ LabelsExpire
    BY <2>7, KeyStep
  <2>8. CASE UNCHANGED vars
    <3>1. UNCHANGED <<daemon, todo, log, subs, hud, keys>>
      BY <2>8 DEF vars, eventVars, hudVars
    <3> QED BY <3>1 DEF IInv, Typed, Pending, Announcing, LogIsNews, Following, Truthful, Coming,
                        Overlay, Keyboard
  <2> QED BY <2>1, <2>2, <2>3, <2>4, <2>5, <2>6, <2>7, <2>8 DEF Next
<1> QED BY InitInv, <1>1, PTL DEF Spec

-----------------------------------------------------------------------------
(* What it is for.                                                         *)

\* A follower that has read its snapshot and is still registered has read, or
\* has on its way, every event broadcast since, in the order of the broadcasts.
THEOREM NobodyMissesAnything == Spec => []NothingMissed
<1>1. IInv => NothingMissed
  BY DEF IInv, Following, Follows, NothingMissed, Coming
<1> QED BY <1>1, Invariance, PTL

\* Once every report has arrived, the overlay shows the buffer as it is, and a
\* display of keys that is off shows, holds and reads nothing.
THEOREM TheOverlayIsTrue == Spec => []HudIsTrue
<1>1. ASSUME IInv PROVE HudShowsBuffer
  <2> SUFFICES ASSUME hud.at = "live", subs[H].listed, subs[H].clean, ~Unheard({"buffer", "status"})
               PROVE  ~hud.offline /\ hud.buffer = daemon.buffer
    BY DEF HudShowsBuffer
  <2>1. todo[Supervisor] \in Seq(Steps)
    <3> SUFFICES ASSUME todo[Supervisor] = Announcing PROVE FALSE
      BY <1>1 DEF IInv, Pending, Threads
    <3>1. 1 \in DOMAIN Announcing /\ Announcing[1].event.kind = "buffer"
      BY DEF Announcing, Post, Ev
    <3> QED BY <3>1 DEF Unheard, Threads
  <2>2. subs[H].wire \in Seq(Events) /\ subs[H].queue \in Seq(Events) /\ hud.inbox \in Seq(Events)
    <3>1. subs[H] \in Subscriber
      BY <1>1, HudAssumption DEF IInv, Typed
    <3> QED BY <1>1, <3>1, SubscriberSteps DEF IInv, Overlay
  <2>3. Coming(H) \in Seq(Events)
    BY <2>2 DEF Coming
  <2> DEFINE u == hud.inbox
             v == Coming(H)
             q == u \o v
  <2>4. /\ \A i \in DOMAIN u : u[i].kind \notin Reports
        /\ \A i \in DOMAIN v : v[i].kind \notin Reports
    BY Zenon DEF Unheard, Reports
  <2>5. u \in Seq(Events) /\ v \in Seq(Events)
    BY <2>2, <2>3
  <2>6. Settles(q, hud.buffer, daemon.buffer)
    BY <1>1, <2>1 DEF IInv, Truthful
  <2> HIDE DEF u, v
  <2>7. \A i \in DOMAIN q : q[i].kind \notin Reports
    <3>1. DOMAIN q = 1..(Len(u) + Len(v)) /\ DOMAIN u = 1..Len(u) /\ DOMAIN v = 1..Len(v)
      BY <2>5
    <3>2. \A i \in 1..(Len(u) + Len(v)) : \/ i \in 1..Len(u) /\ q[i] = u[i]
                                          \/ i - Len(u) \in 1..Len(v) /\ q[i] = v[i - Len(u)]
      BY <2>5
    <3> HIDE DEF q
    <3> QED BY <2>4, <3>1, <3>2
  <2>8. hud.buffer = daemon.buffer
    BY <2>6, <2>7 DEF Settles
  <2> QED BY <1>1, <2>8 DEF IInv, Overlay
<1>2. IInv => DisabledMeansBlank
  BY DEF IInv, Keyboard, Discreet, DisabledMeansBlank
<1>3. IInv => HudIsTrue
  BY <1>1, <1>2 DEF HudIsTrue
<1> QED BY <1>3, Invariance, PTL
=============================================================================
