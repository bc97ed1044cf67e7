----------------------------- MODULE PlayerProofs -----------------------------
(***************************************************************************)
(* What TLAPS proves of the player: of any clip, whatever its tracks and the *)
(* depths of the look-ahead, nothing of an old position is ahead of the      *)
(* clock, and clock, queue and demuxer never wait for each other.            *)
(***************************************************************************)
EXTENDS Player, FiniteSetTheorems, WellFoundedInduction, TLAPS

\* The clips whose silences are filled: the sound begins within LeadMax, and no
\* hole in it is longer than GapMax.
SoundIsCovered ==
    /\ HasAudio => AudioStart <= LeadMax
    /\ \A p \in AudioTicks : p = AudioStart \/ \E q \in AudioTicks : q < p /\ p - q - 1 <= GapMax

\* What the clock reads before the end of the clip caps it.
Reads(u, p) == u.base + (IF UsesWallClock(u) THEN Larger(u.anchor, 0) ELSE p)

\* A clock that reads the device has its stream on, one that stands has no
\* anchor, and a picture that is waited for is not given up yet.
Steady(u, stop) ==
    /\ u.anchor # NoTime => u.playing
    /\ u.playing /\ ~UsesWallClock(u) /\ ~stop => u.streamOn
    /\ u.needsFrame => u.settle < SettleTicks

\* The decode thread: it has a target when it seeks, and it takes the first
\* seek before anything else.
Session ==
    /\ dec.pc = "seeking" => dec.target # NoTime
    /\ dec.pc = "open" => seekTo # NoTime
    /\ dec.pc = "done" => dec.stop \/ ~DecoderOpens

\* The queue holds what was read since the seek, in order.
Queued ==
    /\ \A i, j \in 1..Len(frames) : i < j => frames[i] < frames[j]
    /\ \A i \in 1..Len(frames) : 2 * frames[i] < dec.next /\ frames[i] <= dec.demuxPos
    /\ dec.dropUntil # NoTime => frames = <<>>

\* The sound that was read is in the buffer or was, and none of it is skipped.
Heard ==
    /\ BufferTracksStream
    /\ \A q \in AudioTicks : 2 * q + 1 < dec.next => q + 1 <= dec.audioFill
    /\ HasAudio /\ (dec.pc = "demux" \/ (dec.pc = "loop" /\ seekTo = NoTime)) =>
          AudioStart <= dec.audioFill

\* The clock is not behind a seek that is under way, and is not behind what is
\* left to play otherwise.
InStep ==
    /\ seekTo # NoTime => Reads(ui, played) >= seekTo
    /\ seekTo = NoTime /\ dec.pc = "seeking" => Reads(ui, played) >= dec.target
    /\ seekTo = NoTime /\ dec.pc # "seeking" /\ ~ui.lost =>
          Reads(ui, played) + inflight + Len(audioBuf) >= dec.audioFill

IInv == TypeOK /\ Steady(ui, dec.stop) /\ Session /\ Queued /\ Heard /\ InStep

-----------------------------------------------------------------------------
(* Sets of times.                                                          *)

LEMMA HasLeast ==
  ASSUME NEW S \in SUBSET Nat, S # {}
  PROVE  \E m \in S : \A k \in S : m <= k
<1> DEFINE R == {p \in Nat \X Nat : p[1] < p[2]}
<1>1. IsWellFoundedOn(R, Nat)
  BY NatLessThanWellFounded DEF OpToRel
<1>2. PICK m \in S : \A k \in S : ~(<<k, m>> \in R)
  <2> HIDE DEF R
  <2> QED BY <1>1, WFMin
<1>3. \A k \in S : ~(k < m)
  BY <1>2
<1> QED BY <1>3

\* What Min chooses exists, and what Max chooses of a bounded set.
LEMMA Least ==
  ASSUME NEW S \in SUBSET Nat, S # {}
  PROVE  Min(S) \in S /\ \A k \in S : Min(S) <= k
<1> QED BY HasLeast DEF Min

LEMMA Greatest ==
  ASSUME NEW n \in Nat, NEW S \in SUBSET (0..n), S # {}
  PROVE  Max(S) \in S /\ \A k \in S : k <= Max(S)
<1> DEFINE T == {n - k : k \in S}
<1>1. T \in SUBSET Nat /\ T # {}
  <2>1. \A k \in S : n - k \in Nat
    OBVIOUS
  <2> QED BY <2>1
<1>2. PICK t \in T : \A k \in T : t <= k
  <2> HIDE DEF T
  <2> QED BY <1>1, HasLeast
<1>3. PICK m \in S : t = n - m
  OBVIOUS
<1>4. \A k \in S : n - k \in T /\ k \in Int
  OBVIOUS
<1>5. \A k \in S : m >= k
  <2> HIDE DEF T
  <2> QED BY <1>2, <1>3, <1>4
<1>6. \E x \in S : \A y \in S : x >= y
  BY <1>5
<1>7. Max(S) \in S /\ \A y \in S : Max(S) >= y
  BY <1>6 DEF Max
<1> QED BY <1>4, <1>7

LEMMA Bounds ==
  /\ Duration \in Nat /\ Duration > 0 /\ VideoEnd \in 1..Duration /\ 0 \in Times
  /\ \A t \in Times : t \in Nat /\ t <= Duration
  /\ \A p \in AudioTicks : p \in Nat /\ p + 1 <= Duration /\ p \in Times
  /\ NoTime = -1 /\ NoTime \notin Times
  /\ AudioTicks \subseteq Nat
<1> QED BY PlayerAssumption DEF Times, NoTime

\* The sound starts with its first tick, and no later than the clip ends.
LEMMA SoundStarts ==
  /\ HasAudio => AudioStart \in AudioTicks /\ \A p \in AudioTicks : AudioStart <= p
  /\ AudioStart \in Times
<1>1. ASSUME HasAudio PROVE AudioStart \in AudioTicks /\ \A p \in AudioTicks : AudioStart <= p
  BY <1>1, Bounds, Least DEF HasAudio, AudioStart
<1>2. ASSUME ~HasAudio PROVE AudioStart = Duration
  BY <1>2 DEF AudioStart
<1>3. Duration \in Times
  BY Bounds DEF Times
<1>4. AudioStart \in Times
  <2>1. CASE HasAudio
    BY <1>1, <2>1, Bounds
  <2>2. CASE ~HasAudio
    BY <1>2, <1>3, <2>2
  <2> QED BY <2>1, <2>2
<1> QED BY <1>1, <1>4

\* A seek begins at a keyframe that is not after its target.
LEMMA KeyFrames0 ==
  ASSUME NEW t \in Times
  PROVE  KeyFrameBefore(t) \in Nat /\ KeyFrameBefore(t) <= t
<1> DEFINE S == {k \in KeyFrames : k <= t}
<1>1. S \in SUBSET (0..VideoEnd) /\ S # {} /\ VideoEnd \in Nat
  <2>1. VideoEnd \in Nat
    BY Bounds
  <2>2. \A k \in KeyFrames : k \in 0..VideoEnd
    BY <2>1, PlayerAssumption
  <2>3. 0 \in S
    BY Bounds, PlayerAssumption
  <2> QED BY <2>1, <2>2, <2>3
<1>2. Max(S) \in S
  <2> HIDE DEF S
  <2> QED BY <1>1, Greatest
<1> QED BY <1>1, <1>2 DEF KeyFrameBefore

\* The next packet is a picture or a sound, and none lies before it.
LEMMA NextPacket ==
  ASSUME NEW n \in Packets, ReadPacket(n), dec.next \in Nat
  PROVE  /\ n \in Nat /\ n >= dec.next /\ \A k \in Packets : k >= dec.next => n <= k
         /\ n % 2 = 0 => n \div 2 \in 0..(VideoEnd - 1) /\ n = 2 * (n \div 2)
         /\ n % 2 = 1 => n \div 2 \in AudioTicks /\ n = 2 * (n \div 2) + 1
<1>1. Packets \subseteq Nat
  BY Bounds DEF Packets
<1> DEFINE S == {k \in Packets : k >= dec.next}
<1>2. n = Min(S) /\ S # {}
  <2>1. n = Min(S) /\ ~AtEnd
    BY DEF ReadPacket
  <2> QED BY <1>1, <2>1 DEF AtEnd
<1>3. n \in S /\ \A k \in S : n <= k
  <2>1. S \in SUBSET Nat
    BY <1>1
  <2> HIDE DEF S
  <2> QED BY <1>2, <2>1, Least
<1>4. \/ \E t \in 0..(VideoEnd - 1) : n = 2 * t
      \/ \E t \in AudioTicks : n = 2 * t + 1
  BY DEF Packets
<1>5. ASSUME NEW t \in 0..(VideoEnd - 1), n = 2 * t
      PROVE  n % 2 = 0 /\ n \div 2 = t
  BY <1>5, Bounds
<1>6. ASSUME NEW t \in AudioTicks, n = 2 * t + 1
      PROVE  n % 2 = 1 /\ n \div 2 = t
  BY <1>6, Bounds
<1> QED BY <1>1, <1>3, <1>4, <1>5, <1>6

-----------------------------------------------------------------------------
(* The clock.                                                              *)

Clocks == [playing : BOOLEAN, looping : BOOLEAN, base : Times, speed : {1, 2},
           anchor : Times \cup {NoTime}, streamOn : BOOLEAN, range : Times \X Times,
           needsFrame : BOOLEAN, settle : 0..SettleTicks, shown : Times \cup {NoTime},
           lost : BOOLEAN]

Sessions == [pc : {"open", "loop", "seeking", "demux", "done"}, stop : BOOLEAN,
             target : Times \cup {NoTime}, next : 0..(2 * Duration + 1),
             dropUntil : Times \cup {NoTime}, runupLast : Times \cup {NoTime},
             demuxPos : Times, audioFill : Times]

LEMMA Clamps ==
  ASSUME NEW t \in Int
  PROVE  /\ Clamp(t, 0, Duration) \in Times
         /\ t \in Times => Clamp(t, 0, Duration) = t
         /\ t >= 0 => Smaller(t, Duration) \in Times /\ Smaller(t, Duration) <= t
<1> QED BY Bounds DEF Clamp, Larger, Smaller, Times

LEMMA ClockReads ==
  ASSUME NEW u \in Clocks, NEW p \in Times
  PROVE  /\ Reads(u, p) \in Nat /\ Reads(u, p) >= u.base /\ u.base \in Times
         /\ PositionOf(u, p) = Smaller(Reads(u, p), Duration) /\ PositionOf(u, p) \in Times
<1>1. u.base \in Times /\ u.anchor \in Times \cup {NoTime}
  BY DEF Clocks
<1>2. Larger(u.anchor, 0) \in Nat
  BY <1>1, Bounds DEF Larger
<1>3. Reads(u, p) \in Nat /\ Reads(u, p) >= u.base
  <2> DEFINE a == Larger(u.anchor, 0)
  <2>1. u.base \in Nat /\ a \in Nat /\ p \in Nat
    BY <1>1, <1>2, Bounds
  <2> HIDE DEF a
  <2>2. Reads(u, p) = u.base + (IF UsesWallClock(u) THEN a ELSE p)
    BY DEF Reads, a
  <2> QED BY <2>1, <2>2
<1>4. PositionOf(u, p) = Smaller(Reads(u, p), Duration)
  BY DEF PositionOf, Reads
<1> QED BY <1>1, <1>3, <1>4, Clamps

\* A clock that was moved is where it was moved to, and its picture is waited for.
LEMMA SeekClock ==
  ASSUME NEW u \in Clocks, NEW t \in Int, NEW stop \in BOOLEAN, Steady(u, stop)
  PROVE  /\ SeekField(u, t) \in Clocks /\ Steady(SeekField(u, t), stop)
         /\ SeekField(u, t).base = Clamp(t, 0, Duration)
         /\ Reads(SeekField(u, t), 0) = Clamp(t, 0, Duration)
         /\ SeekField(u, t).playing = u.playing /\ SeekField(u, t).speed = u.speed
<1> DEFINE b == Clamp(t, 0, Duration)
           a == IF UsesWallClock(u) THEN (IF u.playing THEN 0 ELSE NoTime) ELSE u.anchor
           v == [u EXCEPT !.base = b, !.needsFrame = TRUE, !.settle = 0, !.lost = FALSE, !.anchor = a]
<1>1. SeekField(u, t) = v
  BY DEF SeekField
<1>2. b \in Times /\ b \in Nat
  BY Clamps, Bounds
<1>3. a \in Times \cup {NoTime}
  BY Bounds DEF Clocks
<1>4. 0 \in 0..SettleTicks /\ SettleTicks > 0
  BY PlayerAssumption
<1> HIDE DEF a, b
<1>5. v \in Clocks
  BY <1>2, <1>3, <1>4, Zenon DEF Clocks
<1>6. /\ v.base = b /\ v.anchor = a /\ v.playing = u.playing /\ v.speed = u.speed
      /\ v.streamOn = u.streamOn /\ v.settle = 0
  BY DEF Clocks
<1> HIDE DEF v
<1>7. UsesWallClock(v) <=> UsesWallClock(u)
  BY <1>6 DEF UsesWallClock
<1>8. Steady(v, stop)
  BY <1>4, <1>6, <1>7, Bounds DEF Steady, a
<1>9. Reads(v, 0) = b
  <2>1. UsesWallClock(v) => Larger(v.anchor, 0) = 0
    BY <1>6, <1>7, Bounds DEF a, Larger
  <2> QED BY <1>2, <1>6, <2>1 DEF Reads
<1> QED BY <1>1, <1>5, <1>6, <1>8, <1>9 DEF b

\* A clock that is started goes on from where it stood.
LEMMA StartedClock ==
  ASSUME NEW u \in Clocks, NEW p \in Times, NEW stop \in BOOLEAN, u.anchor = NoTime \/ p = 0,
         u.needsFrame => u.settle < SettleTicks
  PROVE  /\ StartClock(u) \in Clocks /\ Steady(StartClock(u), stop)
         /\ u.anchor = NoTime => Reads(StartClock(u), p) = Reads(u, p)
         /\ p = 0 => Reads(StartClock(u), p) = u.base
         /\ StartClock(u).base = u.base /\ StartClock(u).lost = u.lost
<1> DEFINE a == IF UsesWallClock(u) THEN 0 ELSE NoTime
           s == ~UsesWallClock(u)
           v == [u EXCEPT !.playing = TRUE, !.streamOn = s, !.anchor = a]
<1>1. StartClock(u) = v
  BY DEF StartClock
<1>2. a \in Times \cup {NoTime} /\ s \in BOOLEAN
  BY Bounds
<1> HIDE DEF a, s
<1>3. v \in Clocks
  BY <1>2, Zenon DEF Clocks
<1>4. /\ v.base = u.base /\ v.anchor = a /\ v.playing = TRUE /\ v.speed = u.speed
      /\ (v.streamOn <=> s) /\ v.settle = u.settle /\ v.needsFrame = u.needsFrame /\ v.lost = u.lost
  BY DEF Clocks
<1> HIDE DEF v
<1>5. UsesWallClock(v) <=> UsesWallClock(u)
  BY <1>4 DEF UsesWallClock
<1>6. Steady(v, stop)
  BY <1>4, <1>5 DEF Steady, s
<1>7. UsesWallClock(v) => Larger(v.anchor, 0) = 0
  BY <1>4, <1>5 DEF a, Larger
<1>8. u.anchor = NoTime => Larger(u.anchor, 0) = 0
  BY Bounds DEF Larger
<1>9. u.base \in Nat
  BY Bounds DEF Clocks
<1>10. u.anchor = NoTime => Reads(v, p) = Reads(u, p)
  BY <1>4, <1>5, <1>7, <1>8 DEF Reads
<1>11. p = 0 => Reads(v, p) = u.base
  BY <1>4, <1>7, <1>9 DEF Reads
<1> QED BY <1>1, <1>3, <1>4, <1>6, <1>10, <1>11

LEMMA FrozenClock ==
  ASSUME NEW u \in Clocks, NEW pos \in Times, NEW stop \in BOOLEAN,
         u.needsFrame => u.settle < SettleTicks
  PROVE  /\ FreezeField(u, pos) \in Clocks /\ Steady(FreezeField(u, pos), stop)
         /\ Reads(FreezeField(u, pos), 0) = pos /\ FreezeField(u, pos).lost = u.lost
         /\ FreezeField(u, pos).base = pos
<1> DEFINE v == [u EXCEPT !.base = pos, !.anchor = NoTime, !.streamOn = FALSE, !.playing = FALSE]
<1>1. FreezeField(u, pos) = v
  BY DEF FreezeField
<1>2. v \in Clocks
  BY Zenon DEF Clocks
<1>3. /\ v.base = pos /\ v.anchor = NoTime /\ v.playing = FALSE
      /\ v.settle = u.settle /\ v.needsFrame = u.needsFrame /\ v.lost = u.lost
  BY DEF Clocks
<1> HIDE DEF v
<1>4. Steady(v, stop)
  BY <1>3 DEF Steady
<1>5. Larger(v.anchor, 0) = 0 /\ pos \in Nat
  BY <1>3, Bounds DEF Larger
<1>6. Reads(v, 0) = pos
  BY <1>3, <1>5 DEF Reads
<1> QED BY <1>1, <1>2, <1>3, <1>4, <1>6

-----------------------------------------------------------------------------
(* The steps of the UI thread.                                             *)

LEMMA Parts ==
  /\ TypeOK => /\ ui \in Clocks /\ dec \in Sessions
               /\ played \in Times /\ seekTo \in Times \cup {NoTime} /\ eof \in BOOLEAN
               /\ frames \in Seq(0..(VideoEnd - 1)) /\ audioBuf \in Seq(Times)
               /\ inflight \in {0, 1} /\ device \in BOOLEAN /\ commands \in 0..MaxCommands
  /\ /\ ui' \in Clocks /\ dec' \in Sessions
     /\ played' \in Times /\ seekTo' \in Times \cup {NoTime} /\ eof' \in BOOLEAN
     /\ frames' \in Seq(0..(VideoEnd - 1)) /\ audioBuf' \in Seq(Times)
     /\ inflight' \in {0, 1} /\ device' \in BOOLEAN /\ commands' \in 0..MaxCommands
     => TypeOK'
<1>1. ASSUME TypeOK
      PROVE  /\ ui \in Clocks /\ dec \in Sessions
             /\ played \in Times /\ seekTo \in Times \cup {NoTime} /\ eof \in BOOLEAN
             /\ frames \in Seq(0..(VideoEnd - 1)) /\ audioBuf \in Seq(Times)
             /\ inflight \in {0, 1} /\ device \in BOOLEAN /\ commands \in 0..MaxCommands
  BY <1>1, Zenon DEF TypeOK, Clocks, Sessions
<1>2. ASSUME ui' \in Clocks, dec' \in Sessions,
             played' \in Times, seekTo' \in Times \cup {NoTime}, eof' \in BOOLEAN,
             frames' \in Seq(0..(VideoEnd - 1)), audioBuf' \in Seq(Times),
             inflight' \in {0, 1}, device' \in BOOLEAN, commands' \in 0..MaxCommands
      PROVE  TypeOK'
  BY <1>2, Zenon DEF TypeOK, Clocks, Sessions
<1> QED BY <1>1, <1>2, Zenon

\* The fields of the decode session.
LEMMA Fields ==
  ASSUME NEW d \in Sessions
  PROVE  /\ d.pc \in {"open", "loop", "seeking", "demux", "done"} /\ d.stop \in BOOLEAN
         /\ d.target \in Times \cup {NoTime} /\ d.next \in Nat /\ d.next <= 2 * Duration + 1
         /\ d.dropUntil \in Times \cup {NoTime} /\ d.runupLast \in Times \cup {NoTime}
         /\ d.demuxPos \in Nat /\ d.demuxPos <= Duration
         /\ d.audioFill \in Nat /\ d.audioFill <= Duration
<1>1. d.next \in 0..(2 * Duration + 1) /\ d.demuxPos \in Times /\ d.audioFill \in Times
  BY DEF Sessions
<1>2. d.next \in Nat /\ d.next <= 2 * Duration + 1
  BY <1>1, Bounds
<1>3. /\ d.pc \in {"open", "loop", "seeking", "demux", "done"} /\ d.stop \in BOOLEAN
      /\ d.target \in Times \cup {NoTime}
      /\ d.dropUntil \in Times \cup {NoTime} /\ d.runupLast \in Times \cup {NoTime}
  BY Zenon DEF Sessions
<1> QED BY <1>1, <1>2, <1>3, Bounds

\* The end of a queue.
LEMMA Afters ==
  ASSUME NEW S, NEW s \in Seq(S), NEW n \in 0..Len(s)
  PROVE  /\ After(s, n) \in Seq(S) /\ Len(After(s, n)) = Len(s) - n
         /\ \A i \in 1..Len(After(s, n)) : After(s, n)[i] = s[i + n] /\ i + n \in 1..Len(s)
<1> QED BY DEF After

\* A step of the UI thread moves the clock with a seek, or keeps what it reads.
LEMMA UiStep ==
  ASSUME IInv, ui' \in Clocks, Steady(ui', dec.stop), played' \in Times,
         UNCHANGED <<eof, audioBuf, device, dec>>, commands' \in 0..MaxCommands,
         inflight' \in {0, 1}, NEW n \in 0..Len(frames), frames' = After(frames, n),
         \/ seekTo' \in Times /\ Reads(ui', played') >= seekTo'
         \/ /\ seekTo' = seekTo /\ Reads(ui', played') >= Smaller(Reads(ui, played), Duration)
            /\ \/ ui'.lost
               \/ /\ ~ui.lost
                  /\ Reads(ui', played') + inflight' >= Smaller(Reads(ui, played) + inflight, Duration)
  PROVE  IInv'
<1>1. TypeOK /\ dec \in Sessions /\ ui \in Clocks /\ inflight \in {0, 1} /\ played \in Times
      /\ frames \in Seq(0..(VideoEnd - 1)) /\ audioBuf \in Seq(Times)
      /\ seekTo \in Times \cup {NoTime} /\ eof \in BOOLEAN /\ device \in BOOLEAN
  BY Parts DEF IInv
<1>2. TypeOK'
  <2>1. frames' \in Seq(0..(VideoEnd - 1))
    BY <1>1, Afters
  <2> QED BY <1>1, <2>1, Parts
<1>3. Session'
  BY Bounds DEF IInv, Session
<1>4. Queued'
  <2>1. /\ Len(frames') = Len(frames) - n /\ Len(frames) \in Nat
        /\ \A i \in 1..Len(frames') : frames'[i] = frames[i + n] /\ i + n \in 1..Len(frames)
    BY <1>1, Afters
  <2>2. \A i, j \in 1..Len(frames') : i < j => i + n < j + n
    OBVIOUS
  <2>3. \A i, j \in 1..Len(frames') : i < j => frames'[i] < frames'[j]
    BY <2>1, <2>2 DEF IInv, Queued
  <2>4. \A i \in 1..Len(frames') : 2 * frames'[i] < dec.next /\ frames'[i] <= dec.demuxPos
    BY <2>1 DEF IInv, Queued
  <2>5. ASSUME dec.dropUntil # NoTime PROVE frames' = <<>>
    <3>1. frames = <<>> /\ n = 0
      BY <2>5 DEF IInv, Queued
    <3> QED BY <3>1 DEF After
  <2> QED BY <2>3, <2>4, <2>5 DEF Queued
<1>5. Heard'
  BY Bounds DEF IInv, Heard, BufferTracksStream
<1>6. InStep'
  <2> DEFINE R == Reads(ui, played)
             Q == Reads(ui', played')
             L == Len(audioBuf)
             F == dec.audioFill
  <2>1. R \in Nat /\ Q \in Nat /\ L \in Nat /\ F \in Nat /\ F <= Duration /\ Duration \in Nat
    BY <1>1, ClockReads, Fields, Bounds
  <2>2. CASE seekTo' \in Times /\ Q >= seekTo'
    BY <2>2, Bounds DEF InStep
  <2>3. CASE /\ seekTo' = seekTo /\ Q >= Smaller(R, Duration)
             /\ \/ ui'.lost
                \/ ~ui.lost /\ Q + inflight' >= Smaller(R + inflight, Duration)
    <3>1. ASSUME NEW t \in Times, R >= t PROVE Q >= t
      <4>1. t \in Nat /\ t <= Duration
        BY Bounds
      <4> QED BY <2>1, <2>3, <3>1, <4>1 DEF Smaller
    <3>2. ASSUME seekTo = NoTime, dec.pc # "seeking", ~ui'.lost
          PROVE  Q + inflight' + L >= F
      <4>1. R + inflight + L >= F
        BY <2>3, <3>2 DEF IInv, InStep
      <4>2. Q + inflight' >= Smaller(R + inflight, Duration)
        BY <2>3, <3>2
      <4> DEFINE I == inflight
                 J == inflight'
      <4>3. I \in Nat /\ J \in Nat
        BY <1>1
      <4>4. R + I + L >= F /\ Q + J >= Smaller(R + I, Duration)
        BY <4>1, <4>2
      <4> HIDE DEF R, Q, L, F, I, J
      <4>5. Q + J + L >= F
        BY <2>1, <4>3, <4>4 DEF Smaller
      <4> QED BY <4>5 DEF Q, J, L, F
    <3>3. dec.target \in Times \cup {NoTime} /\ (dec.pc = "seeking" => dec.target # NoTime)
      BY <1>1, Fields DEF IInv, Session
    <3>4. seekTo # NoTime => Q >= seekTo
      BY <1>1, <3>1 DEF IInv, InStep
    <3>5. seekTo = NoTime /\ dec.pc = "seeking" => Q >= dec.target
      BY <3>1, <3>3 DEF IInv, InStep
    <3> QED BY <2>3, <3>2, <3>4, <3>5 DEF InStep
  <2> QED BY <2>2, <2>3
<1> QED BY <1>2, <1>3, <1>4, <1>5, <1>6 DEF IInv

\* A command that leaves the queue alone.
LEMMA Commanded ==
  ASSUME IInv, Command, ui' \in Clocks, Steady(ui', dec.stop), played' \in Times,
         UNCHANGED <<eof, audioBuf, device, dec, frames>>, inflight' \in {0, 1},
         \/ seekTo' \in Times /\ Reads(ui', played') >= seekTo'
         \/ /\ seekTo' = seekTo /\ Reads(ui', played') >= Smaller(Reads(ui, played), Duration)
            /\ inflight' = inflight \/ ui'.lost
            /\ ui.lost => ui'.lost
  PROVE  IInv'
<1>1. TypeOK /\ frames \in Seq(0..(VideoEnd - 1)) /\ inflight \in {0, 1} /\ commands \in 0..MaxCommands
      /\ ui \in Clocks /\ played \in Times
  BY Parts DEF IInv
<1>2. commands' \in 0..MaxCommands
  BY <1>1, PlayerAssumption DEF Command
<1>3. 0 \in 0..Len(frames) /\ frames' = After(frames, 0)
  BY <1>1 DEF After
<1>4. ASSUME seekTo' = seekTo, Reads(ui', played') >= Smaller(Reads(ui, played), Duration),
             inflight' = inflight, ~ui.lost
      PROVE  Reads(ui', played') + inflight' >= Smaller(Reads(ui, played) + inflight, Duration)
  <2> DEFINE R == Reads(ui, played)
             Q == Reads(ui', played')
             I == inflight
  <2>1. R \in Nat /\ Q \in Nat /\ I \in Nat /\ Duration \in Nat
    BY <1>1, ClockReads, Bounds
  <2>2. Q >= Smaller(R, Duration)
    BY <1>4
  <2> HIDE DEF R, Q, I
  <2>3. Q + I >= Smaller(R + I, Duration)
    BY <2>1, <2>2 DEF Smaller
  <2> QED BY <1>4, <2>3 DEF R, Q, I
<1> QED BY <1>2, <1>3, <1>4, UiStep

\* What every command starts from.
LEMMA Now ==
  ASSUME IInv
  PROVE  /\ ui \in Clocks /\ Steady(ui, dec.stop) /\ played \in Times /\ inflight \in {0, 1}
         /\ dec \in Sessions /\ dec.stop \in BOOLEAN /\ ui.range[1] \in Times /\ ui.range[2] \in Times
         /\ Reads(ui, played) \in Nat /\ Position \in Times
         /\ Position = Smaller(Reads(ui, played), Duration)
         /\ 0 \in Times /\ (~ui.playing => ui.anchor = NoTime)
         /\ (ui.needsFrame => ui.settle < SettleTicks)
<1>1. ui \in Clocks /\ Steady(ui, dec.stop) /\ played \in Times /\ inflight \in {0, 1} /\ dec \in Sessions
  BY Parts DEF IInv
<1>2. dec.stop \in BOOLEAN
  BY <1>1, Fields
<1>3. ui.range \in Times \X Times
  BY <1>1 DEF Clocks
<1> QED BY <1>1, <1>2, <1>3, ClockReads, Bounds DEF Position, Steady

LEMMA SeekStep ==
  ASSUME IInv, NEW t \in SeekTargets, Seek(t)
  PROVE  IInv'
<1>1. t \in Times /\ t \in Int
  BY PlayerAssumption, Bounds
<1>2. /\ SeekField(ui, t) \in Clocks /\ Steady(SeekField(ui, t), dec.stop)
      /\ Reads(SeekField(ui, t), 0) = Clamp(t, 0, Duration) /\ Clamp(t, 0, Duration) \in Times
  BY <1>1, Now, SeekClock, Clamps
<1>3. Reads(ui', played') >= seekTo' /\ seekTo' \in Times
  BY <1>2, Bounds DEF Seek
<1> QED BY <1>2, <1>3, Now, Commanded DEF Seek

LEMMA PlayStep ==
  ASSUME IInv, Play
  PROVE  IInv'
<1> DEFINE restart == Position < ui.range[1] \/ Position >= ui.range[2]
           u == SeekField(ui, ui.range[1])
<1>1. /\ Command /\ ~ui.playing
      /\ ui' = StartClock(IF restart THEN u ELSE ui)
      /\ seekTo' = IF restart THEN ui.range[1] ELSE seekTo
      /\ played' = IF restart THEN 0 ELSE played
      /\ UNCHANGED <<eof, frames, audioBuf, inflight, device, dec>>
  BY DEF Play
<1> HIDE DEF restart
<1>2. CASE restart
  <2>1. /\ u \in Clocks /\ Steady(u, dec.stop) /\ u.base = ui.range[1]
    <3>1. ui \in Clocks /\ Steady(ui, dec.stop) /\ dec.stop \in BOOLEAN
      BY Now
    <3>2. ui.range[1] \in Times /\ ui.range[1] \in Int
      BY Now, Bounds
    <3>3. Clamp(ui.range[1], 0, Duration) = ui.range[1]
      BY <3>2, Clamps
    <3> QED BY <3>1, <3>2, <3>3, SeekClock
  <2> HIDE DEF u
  <2>2. u.needsFrame => u.settle < SettleTicks
    BY <2>1 DEF Steady
  <2>3. /\ StartClock(u) \in Clocks /\ Steady(StartClock(u), dec.stop)
        /\ Reads(StartClock(u), 0) = u.base
    BY <2>1, <2>2, Now, StartedClock
  <2>4. ui' = StartClock(u) /\ seekTo' = ui.range[1] /\ played' = 0
    BY <1>1, <1>2
  <2>5. Reads(ui', played') >= seekTo' /\ seekTo' \in Times
    BY <2>1, <2>3, <2>4, Now, Bounds
  <2> QED BY <1>1, <2>3, <2>4, <2>5, Now, Commanded
<1>3. CASE ~restart
  <2>1. /\ StartClock(ui) \in Clocks /\ Steady(StartClock(ui), dec.stop)
        /\ Reads(StartClock(ui), played) = Reads(ui, played) /\ StartClock(ui).lost = ui.lost
    BY <1>1, Now, StartedClock
  <2>2. ui' = StartClock(ui) /\ seekTo' = seekTo /\ played' = played
    BY <1>1, <1>3
  <2>3. Reads(ui', played') >= Smaller(Reads(ui, played), Duration)
    BY <2>1, <2>2, Now, Bounds DEF Smaller
  <2> QED BY <1>1, <2>1, <2>2, <2>3, Now, Commanded
<1> QED BY <1>2, <1>3

LEMMA PauseStep ==
  ASSUME IInv, Pause
  PROVE  IInv'
<1>1. PICK lost \in BOOLEAN :
        /\ Command /\ ui.playing
        /\ ui' = [FreezeField(ui, Position) EXCEPT !.lost = @ \/ lost]
        /\ played' = 0 /\ CountLost(lost)
        /\ UNCHANGED <<seekTo, eof, frames, audioBuf, device, dec>>
  BY DEF Pause
<1> DEFINE u == FreezeField(ui, Position)
           l == u.lost \/ lost
<1>2. u \in Clocks /\ Steady(u, dec.stop) /\ Reads(u, 0) = Position /\ u.lost = ui.lost
  BY Now, FrozenClock
<1>3. ui' = [u EXCEPT !.lost = l]
  BY <1>1
<1>4. l \in BOOLEAN
  OBVIOUS
<1> HIDE DEF u, l
<1>5. ui' \in Clocks
  BY <1>2, <1>3, <1>4, Zenon DEF Clocks
<1>6. /\ ui'.base = u.base /\ ui'.speed = u.speed /\ ui'.anchor = u.anchor /\ ui'.playing = u.playing
      /\ ui'.streamOn = u.streamOn /\ ui'.needsFrame = u.needsFrame /\ ui'.settle = u.settle
      /\ ui'.lost = l
  BY <1>2, <1>3 DEF Clocks
<1>7. Steady(ui', dec.stop) /\ Reads(ui', 0) = Reads(u, 0)
  BY <1>2, <1>6 DEF Steady, Reads, UsesWallClock
<1>8. (ui.lost => ui'.lost) /\ (lost => ui'.lost)
  BY <1>2, <1>6 DEF l
<1>9. inflight' = inflight \/ (inflight' = 0 /\ lost)
  BY <1>1, Zenon DEF CountLost
<1>10. Reads(ui', played') >= Smaller(Reads(ui, played), Duration)
  BY <1>1, <1>2, <1>7, Now, Bounds
<1>11. inflight' \in {0, 1} /\ played' \in Times
  BY <1>1, <1>9, Now
<1> QED BY <1>1, <1>5, <1>7, <1>8, <1>9, <1>10, <1>11, Commanded

LEMMA SetSpeedStep ==
  ASSUME IInv, NEW s \in {1, 2}, SetSpeed(s)
  PROVE  IInv'
<1> DEFINE v(lost) == [ui EXCEPT !.speed = s, !.base = Position, !.lost = @ \/ lost]
<1>1. PICK lost \in BOOLEAN :
        /\ Command /\ s # ui.speed
        /\ ui' = IF ui.playing THEN StartClock(v(lost)) ELSE v(lost)
        /\ played' = 0 /\ CountLost(lost)
        /\ UNCHANGED <<seekTo, eof, frames, audioBuf, device, dec>>
  BY DEF SetSpeed
<1> DEFINE l == ui.lost \/ lost
           u == [ui EXCEPT !.speed = s, !.base = Position, !.lost = l]
<1>2. ui \in Clocks /\ Position \in Times /\ l \in BOOLEAN
  BY Now
<1>3. ui' = IF ui.playing THEN StartClock(u) ELSE u
  BY <1>1
<1> HIDE DEF l
<1>4. u \in Clocks
  BY <1>2, Zenon DEF Clocks
<1>5. /\ u.base = Position /\ u.speed = s /\ u.anchor = ui.anchor /\ u.playing = ui.playing
      /\ u.needsFrame = ui.needsFrame /\ u.settle = ui.settle /\ u.lost = l
  BY <1>2 DEF Clocks
<1> HIDE DEF u
<1>6. u.needsFrame => u.settle < SettleTicks
  BY <1>5, Now
<1>7. ui' \in Clocks /\ Steady(ui', dec.stop) /\ Reads(ui', 0) = Position /\ ui'.lost = l
  <2>1. CASE ui.playing
    BY <1>3, <1>4, <1>5, <1>6, <2>1, Now, StartedClock
  <2>2. CASE ~ui.playing
    <3>1. ui' = u /\ u.anchor = NoTime /\ ~u.playing
      BY <1>3, <1>5, <2>2, Now
    <3>2. Steady(u, dec.stop)
      BY <1>6, <3>1 DEF Steady
    <3>3. Reads(u, 0) = u.base
      <4>1. Larger(u.anchor, 0) = 0 /\ u.base \in Nat
        BY <1>2, <1>5, <3>1, Bounds DEF Larger
      <4> QED BY <4>1 DEF Reads
    <3> QED BY <1>4, <1>5, <3>1, <3>2, <3>3
  <2> QED BY <2>1, <2>2
<1>8. (ui.lost => ui'.lost) /\ (lost => ui'.lost)
  BY <1>7 DEF l
<1>9. inflight' = inflight \/ (inflight' = 0 /\ lost)
  BY <1>1, Zenon DEF CountLost
<1>10. Reads(ui', played') >= Smaller(Reads(ui, played), Duration)
  BY <1>1, <1>7, Now, Bounds
<1>11. inflight' \in {0, 1} /\ played' \in Times
  BY <1>1, <1>9, Now
<1> QED BY <1>1, <1>7, <1>8, <1>9, <1>10, <1>11, Commanded

\* A command that changes neither the clock nor the picture that is waited for.
LEMMA SettingStep ==
  ASSUME IInv, Command, ui' \in Clocks,
         ui'.base = ui.base, ui'.speed = ui.speed, ui'.anchor = ui.anchor, ui'.playing = ui.playing,
         ui'.streamOn = ui.streamOn, ui'.needsFrame = ui.needsFrame, ui'.settle = ui.settle,
         ui'.lost = ui.lost,
         UNCHANGED <<played, seekTo, eof, frames, audioBuf, inflight, device, dec>>
  PROVE  IInv'
<1>1. Steady(ui', dec.stop) /\ Reads(ui', played') = Reads(ui, played)
  <2>1. UsesWallClock(ui') <=> UsesWallClock(ui)
    BY DEF UsesWallClock
  <2> QED BY <2>1, Now DEF Steady, Reads
<1>2. Reads(ui', played') >= Smaller(Reads(ui, played), Duration)
  BY <1>1, Now, Bounds DEF Smaller
<1> QED BY <1>1, <1>2, Now, Commanded

LEMMA SetLoopStep ==
  ASSUME IInv, NEW on \in BOOLEAN, SetLoop(on)
  PROVE  IInv'
<1>1. ui' = [ui EXCEPT !.looping = on] /\ ui \in Clocks
  BY Now DEF SetLoop
<1>2. ui' \in Clocks
  BY <1>1, Zenon DEF Clocks
<1>3. /\ ui'.base = ui.base /\ ui'.speed = ui.speed /\ ui'.anchor = ui.anchor /\ ui'.playing = ui.playing
      /\ ui'.streamOn = ui.streamOn /\ ui'.needsFrame = ui.needsFrame /\ ui'.settle = ui.settle
      /\ ui'.lost = ui.lost
  BY <1>1 DEF Clocks
<1> QED BY <1>2, <1>3, SettingStep DEF SetLoop

LEMMA SetRangeStep ==
  ASSUME IInv, NEW r \in Ranges, SetRange(r)
  PROVE  IInv'
<1>1. ui' = [ui EXCEPT !.range = r] /\ ui \in Clocks /\ r \in Times \X Times
  BY Now, PlayerAssumption DEF SetRange
<1>2. ui' \in Clocks
  BY <1>1, Zenon DEF Clocks
<1>3. /\ ui'.base = ui.base /\ ui'.speed = ui.speed /\ ui'.anchor = ui.anchor /\ ui'.playing = ui.playing
      /\ ui'.streamOn = ui.streamOn /\ ui'.needsFrame = ui.needsFrame /\ ui'.settle = ui.settle
      /\ ui'.lost = ui.lost
  BY <1>1 DEF Clocks
<1> QED BY <1>2, <1>3, SettingStep DEF SetRange

\* The closing of the player stops the device and tells the decode thread.
LEMMA CloseStep ==
  ASSUME IInv, Close
  PROVE  IInv'
<1>1. /\ ~dec.stop /\ dec' = [dec EXCEPT !.stop = TRUE] /\ ui' = [ui EXCEPT !.streamOn = FALSE]
      /\ UNCHANGED <<played, seekTo, eof, frames, audioBuf, inflight, device, commands>>
  BY DEF Close
<1>2. TypeOK /\ ui \in Clocks /\ dec \in Sessions
  BY Parts DEF IInv
<1>3. ui' \in Clocks /\ dec' \in Sessions
  BY <1>1, <1>2, Zenon DEF Clocks, Sessions
<1>4. /\ ui'.base = ui.base /\ ui'.speed = ui.speed /\ ui'.anchor = ui.anchor /\ ui'.playing = ui.playing
      /\ ui'.needsFrame = ui.needsFrame /\ ui'.settle = ui.settle /\ ui'.lost = ui.lost
  BY <1>1, <1>2 DEF Clocks
<1>5. /\ dec'.stop /\ dec'.pc = dec.pc /\ dec'.target = dec.target /\ dec'.next = dec.next
      /\ dec'.dropUntil = dec.dropUntil /\ dec'.demuxPos = dec.demuxPos /\ dec'.audioFill = dec.audioFill
  BY <1>1, <1>2 DEF Sessions
<1>6. TypeOK'
  <2>1. /\ played' \in Times /\ seekTo' \in Times \cup {NoTime} /\ eof' \in BOOLEAN
        /\ frames' \in Seq(0..(VideoEnd - 1)) /\ audioBuf' \in Seq(Times)
        /\ inflight' \in {0, 1} /\ device' \in BOOLEAN /\ commands' \in 0..MaxCommands
    BY <1>1, <1>2, Parts
  <2> QED BY <1>3, <2>1, Parts
<1>7. Steady(ui', dec'.stop)
  BY <1>4, <1>5 DEF IInv, Steady
<1>8. Reads(ui', played') = Reads(ui, played)
  BY <1>1, <1>4 DEF Reads, UsesWallClock
<1>9. Session' /\ Queued' /\ Heard'
  BY <1>1, <1>5 DEF IInv, Session, Queued, Heard, BufferTracksStream
<1>10. InStep'
  BY <1>1, <1>4, <1>5, <1>8 DEF IInv, InStep
<1> QED BY <1>6, <1>7, <1>9, <1>10 DEF IInv

LEMMA WallTickStep ==
  ASSUME IInv, WallTick
  PROVE  IInv'
<1> DEFINE a == ui.anchor + 1
<1>1. /\ UsesWallClock(ui) /\ ui.anchor # NoTime /\ Position < Duration /\ ui' = [ui EXCEPT !.anchor = a]
      /\ UNCHANGED <<played, seekTo, eof, frames, audioBuf, inflight, device, dec, commands>>
  BY DEF WallTick
<1>2. ui \in Clocks /\ ui.anchor \in Nat /\ ui.base \in Nat /\ Duration \in Nat
  BY <1>1, Now, Bounds DEF Clocks
<1>3. Reads(ui, played) = ui.base + ui.anchor
  BY <1>1, <1>2 DEF Reads, Larger
<1>4. ui.base + ui.anchor < Duration
  BY <1>1, <1>2, <1>3, Now DEF Smaller
<1>5. a \in Times \cup {NoTime} /\ a \in Nat
  BY <1>2, <1>4 DEF Times
<1>6. ui' \in Clocks
  <2> HIDE DEF a
  <2> QED BY <1>1, <1>2, <1>5, Zenon DEF Clocks
<1>7. /\ ui'.base = ui.base /\ ui'.speed = ui.speed /\ ui'.anchor = a /\ ui'.playing = ui.playing
      /\ ui'.streamOn = ui.streamOn /\ ui'.needsFrame = ui.needsFrame /\ ui'.settle = ui.settle
      /\ ui'.lost = ui.lost
  BY <1>1, <1>2 DEF Clocks
<1>8. UsesWallClock(ui') <=> UsesWallClock(ui)
  BY <1>7 DEF UsesWallClock
<1>9. Steady(ui', dec.stop)
  BY <1>1, <1>7, <1>8, Now DEF Steady
<1>10. Reads(ui', played') = Reads(ui, played) + 1
  BY <1>1, <1>2, <1>3, <1>5, <1>7, <1>8 DEF Reads, Larger
<1>11. /\ Reads(ui', played') >= Smaller(Reads(ui, played), Duration)
       /\ Reads(ui', played') + inflight' >= Smaller(Reads(ui, played) + inflight, Duration)
  <2> DEFINE R == Reads(ui, played)
             I == inflight
  <2>1. R \in Nat /\ I \in Nat /\ Reads(ui', played') = R + 1 /\ inflight' = I
    BY <1>1, <1>10, Now
  <2> HIDE DEF R, I
  <2>2. R + 1 >= Smaller(R, Duration) /\ R + 1 + I >= Smaller(R + I, Duration)
    BY <1>2, <2>1 DEF Smaller
  <2> QED BY <2>1, <2>2 DEF R, I
<1>12. 0 \in 0..Len(frames) /\ frames' = After(frames, 0) /\ commands \in 0..MaxCommands
  BY <1>1, Parts DEF IInv, After
<1>13. \/ ui'.lost
       \/ /\ ~ui.lost
          /\ Reads(ui', played') + inflight' >= Smaller(Reads(ui, played) + inflight, Duration)
  BY <1>7, <1>11
<1> QED BY <1>1, <1>6, <1>9, <1>11, <1>12, <1>13, Now, UiStep

LEMMA Counted ==
  ASSUME IInv, inflight' = 0, played' \in Times, ui' \in Clocks, Steady(ui', dec.stop),
         UNCHANGED <<seekTo, eof, frames, audioBuf, device, dec, commands>>,
         Reads(ui', played') >= Smaller(Reads(ui, played), Duration),
         \/ ui'.lost
         \/ /\ ~ui.lost
            /\ Reads(ui', played') + inflight' >= Smaller(Reads(ui, played) + inflight, Duration)
  PROVE  IInv'
<1>1. 0 \in 0..Len(frames) /\ frames' = After(frames, 0) /\ commands \in 0..MaxCommands
  BY Parts DEF IInv, After
<1>2. inflight' \in {0, 1}
  OBVIOUS
<1> QED BY <1>1, <1>2, UiStep

\* What the callback counts moves the clock that reads the device.
LEMMA CountPlayedStep ==
  ASSUME IInv, CountPlayed
  PROVE  IInv'
<1> DEFINE l == ui.lost \/ UsesWallClock(ui)
<1>1. /\ inflight > 0 /\ played' = Smaller(played + inflight, Duration) /\ inflight' = 0
      /\ ui' = [ui EXCEPT !.lost = l]
      /\ UNCHANGED <<seekTo, eof, frames, audioBuf, device, dec, commands>>
  BY DEF CountPlayed
<1>2. ui \in Clocks /\ ui.base \in Nat /\ Duration \in Nat /\ played \in Nat /\ inflight = 1
      /\ played <= Duration
  BY <1>1, Now, Bounds DEF Clocks
<1>3. played' \in Times /\ played' \in Nat /\ played' >= played
  BY <1>1, <1>2 DEF Times, Smaller
<1>4. l \in BOOLEAN
  BY <1>2 DEF UsesWallClock, Clocks
<1> HIDE DEF l
<1>5. ui' \in Clocks
  BY <1>1, <1>2, <1>4, Zenon DEF Clocks
<1>6. /\ ui'.base = ui.base /\ ui'.speed = ui.speed /\ ui'.anchor = ui.anchor /\ ui'.playing = ui.playing
      /\ ui'.streamOn = ui.streamOn /\ ui'.needsFrame = ui.needsFrame /\ ui'.settle = ui.settle
      /\ ui'.lost = l
  BY <1>1, <1>2 DEF Clocks
<1>7. UsesWallClock(ui') <=> UsesWallClock(ui)
  BY <1>6 DEF UsesWallClock
<1>8. Steady(ui', dec.stop)
  BY <1>6, <1>7, Now DEF Steady
<1>9. CASE UsesWallClock(ui)
  <2>1. Reads(ui', played') = Reads(ui, played)
    BY <1>6, <1>7, <1>9 DEF Reads
  <2>2. Reads(ui', played') >= Smaller(Reads(ui, played), Duration)
    BY <1>2, <2>1, Now DEF Smaller
  <2>3. l
    BY <1>9 DEF l
  <2>4. ui'.lost
    BY <1>6, <2>3
  <2> QED BY <1>1, <1>3, <1>5, <1>8, <2>2, <2>4, Counted
<1>10. CASE ~UsesWallClock(ui)
  <2>1. Reads(ui', played') = ui.base + played' /\ Reads(ui, played) = ui.base + played
    BY <1>6, <1>7, <1>10 DEF Reads
  <2>2. Reads(ui', played') >= Smaller(Reads(ui, played), Duration)
    BY <1>2, <1>3, <2>1 DEF Smaller
  <2>3. Reads(ui', played') + inflight' >= Smaller(Reads(ui, played) + inflight, Duration)
    BY <1>1, <1>2, <1>3, <2>1 DEF Smaller
  <2>4. ui'.lost \/ ~ui.lost
    BY <1>6 DEF l
  <2> QED BY <1>1, <1>3, <1>5, <1>8, <2>2, <2>3, <2>4, Counted
<1> QED BY <1>9, <1>10

\* The end of the device changes nothing the invariant speaks of.
LEMMA DeviceStallsStep ==
  ASSUME IInv, DeviceStalls
  PROVE  IInv'
<1>1. device' = FALSE /\ UNCHANGED <<ui, played, seekTo, eof, frames, audioBuf, inflight, dec, commands>>
  BY DEF DeviceStalls
<1>2. TypeOK'
  <2>1. TypeOK
    BY DEF IInv
  <2>2. /\ ui' \in Clocks /\ dec' \in Sessions
        /\ played' \in Times /\ seekTo' \in Times \cup {NoTime} /\ eof' \in BOOLEAN
        /\ frames' \in Seq(0..(VideoEnd - 1)) /\ audioBuf' \in Seq(Times)
        /\ inflight' \in {0, 1} /\ device' \in BOOLEAN /\ commands' \in 0..MaxCommands
    BY <1>1, <2>1, Parts
  <2> QED BY <2>2, Parts
<1>3. Steady(ui', dec'.stop) /\ Session' /\ Queued' /\ Heard' /\ InStep'
  BY <1>1 DEF IInv, Session, Queued, Heard, InStep, BufferTracksStream
<1> QED BY <1>2, <1>3 DEF IInv

\* The callback takes a sample out of the buffer: it is still to be counted.
LEMMA DrainStep ==
  ASSUME IInv, Drain
  PROVE  IInv'
<1>1. /\ inflight = 0 /\ audioBuf # <<>> /\ audioBuf' = After(audioBuf, 1) /\ inflight' = 1
      /\ UNCHANGED <<ui, played, seekTo, eof, frames, device, dec, commands>>
  BY DEF Drain
<1>2. TypeOK /\ audioBuf \in Seq(Times) /\ dec \in Sessions
  BY Parts DEF IInv
<1>3. /\ Len(audioBuf) \in Nat /\ 1 \in 0..Len(audioBuf) /\ audioBuf' \in Seq(Times)
      /\ Len(audioBuf') = Len(audioBuf) - 1
      /\ \A i \in 1..Len(audioBuf') : audioBuf'[i] = audioBuf[i + 1] /\ i + 1 \in 1..Len(audioBuf)
  <2>1. Len(audioBuf) \in Nat /\ 1 \in 0..Len(audioBuf)
    BY <1>1, <1>2
  <2> QED BY <1>1, <1>2, <2>1, Afters
<1>4. TypeOK'
  <2>1. /\ ui' \in Clocks /\ dec' \in Sessions
        /\ played' \in Times /\ seekTo' \in Times \cup {NoTime} /\ eof' \in BOOLEAN
        /\ frames' \in Seq(0..(VideoEnd - 1))
        /\ inflight' \in {0, 1} /\ device' \in BOOLEAN /\ commands' \in 0..MaxCommands
    BY <1>1, <1>2, Parts
  <2> QED BY <1>3, <2>1, Parts
<1>5. Steady(ui', dec'.stop) /\ Session' /\ Queued'
  BY <1>1 DEF IInv, Session, Queued
<1>6. BufferTracksStream'
  <2> SUFFICES ASSUME NEW i \in 1..Len(audioBuf')
               PROVE  audioBuf'[i] = dec.audioFill - Len(audioBuf') + i - 1
    BY <1>1 DEF BufferTracksStream
  <2>1. audioBuf'[i] = dec.audioFill - Len(audioBuf) + (i + 1) - 1
    BY <1>3 DEF IInv, Heard, BufferTracksStream
  <2>2. dec.audioFill \in Nat
    BY <1>2, Fields
  <2> QED BY <1>3, <2>1, <2>2
<1>7. Heard'
  BY <1>1, <1>6 DEF IInv, Heard
<1>8. InStep'
  <2>1. ASSUME seekTo = NoTime, dec.pc # "seeking", ~ui.lost
        PROVE  Reads(ui, played) + 1 + Len(audioBuf') >= dec.audioFill
    <3>1. Reads(ui, played) + inflight + Len(audioBuf) >= dec.audioFill
      BY <2>1 DEF IInv, InStep
    <3>2. Reads(ui, played) \in Nat /\ dec.audioFill \in Nat
      BY <1>2, Now, Fields
    <3> QED BY <1>1, <1>3, <3>1, <3>2
  <2> QED BY <1>1, <2>1 DEF IInv, InStep
<1> QED BY <1>4, <1>5, <1>7, <1>8 DEF IInv

-----------------------------------------------------------------------------
(* A repaint.                                                              *)

\* The picture that is shown is one of the queue, or none.
LEMMA PickedOne ==
  ASSUME frames \in Seq(0..(VideoEnd - 1)), NEW u, NEW p
  PROVE  Picked(u, p) \in 0..Len(frames)
<1> DEFINE due == {i \in 1..Len(frames) : \A j \in 1..i : frames[j] <= PositionOf(u, p)}
<1>1. Picked(u, p) = IF due # {} THEN Max(due)
                     ELSE IF u.needsFrame /\ frames # <<>> THEN 1 ELSE 0
  BY DEF Picked
<1>2. Len(frames) \in Nat
  OBVIOUS
<1>3. due \in SUBSET (0..Len(frames))
  BY <1>2
<1>4. due # {} => Max(due) \in 0..Len(frames)
  <2> HIDE DEF due
  <2> QED BY <1>2, <1>3, Greatest
<1>5. frames # <<>> => 1 \in 0..Len(frames)
  BY <1>2
<1>6. 0 \in 0..Len(frames)
  BY <1>2
<1> HIDE DEF due
<1> QED BY <1>1, <1>4, <1>5, <1>6

\* Showing a picture does not move the clock.
LEMMA ShownClock ==
  ASSUME NEW u \in Clocks, NEW stop \in BOOLEAN, Steady(u, stop), NEW pending,
         frames \in Seq(0..(VideoEnd - 1)), NEW n \in 0..Len(frames), NEW p
  PROVE  /\ Shown(u, n, pending) \in Clocks /\ Steady(Shown(u, n, pending), stop)
         /\ Reads(Shown(u, n, pending), p) = Reads(u, p) /\ Shown(u, n, pending).lost = u.lost
<1> DEFINE fresh == n > 0 /\ frames[n] # u.shown
           wants == u.needsFrame /\ ~fresh
           ticks == IF DeadSeek(After(frames, n), pending) THEN u.settle + 1 ELSE 0
           s == IF fresh THEN frames[n] ELSE u.shown
           w == wants /\ ticks < SettleTicks
           k == IF wants THEN ticks ELSE u.settle
           v == [u EXCEPT !.shown = s, !.needsFrame = w, !.settle = k]
<1>1. Shown(u, n, pending) = v
  BY DEF Shown
<1>2. SettleTicks \in Nat /\ SettleTicks > 0 /\ u.settle \in 0..SettleTicks
      /\ u.shown \in Times \cup {NoTime} /\ u.needsFrame \in BOOLEAN
  BY PlayerAssumption DEF Clocks
<1>3. wants => u.settle < SettleTicks
  BY DEF Steady
<1>4. ticks \in Nat /\ (wants => ticks <= SettleTicks)
  BY <1>2, <1>3
<1>5. k \in 0..SettleTicks
  <2> HIDE DEF wants, ticks
  <2> QED BY <1>2, <1>4
<1>6. s \in Times \cup {NoTime}
  <2>1. ASSUME n > 0 PROVE frames[n] \in 0..(VideoEnd - 1)
    <3>1. n \in 1..Len(frames)
      BY <2>1
    <3>2. \A S : frames \in Seq(S) => \A i \in 1..Len(frames) : frames[i] \in S
      OBVIOUS
    <3> HIDE DEF s
    <3> QED BY <3>1, <3>2, Zenon
  <2>2. \A t \in 0..(VideoEnd - 1) : t \in Times
    BY Bounds DEF Times
  <2> QED BY <1>2, <2>1, <2>2
<1>7. w \in BOOLEAN /\ (w => k < SettleTicks)
  OBVIOUS
<1> HIDE DEF s, w, k
<1>8. v \in Clocks
  BY <1>5, <1>6, <1>7, Zenon DEF Clocks
<1>9. /\ v.base = u.base /\ v.speed = u.speed /\ v.anchor = u.anchor /\ v.playing = u.playing
      /\ v.streamOn = u.streamOn /\ v.needsFrame = w /\ v.settle = k /\ v.lost = u.lost
  BY DEF Clocks
<1> HIDE DEF v
<1>10. UsesWallClock(v) <=> UsesWallClock(u)
  BY <1>9 DEF UsesWallClock
<1>11. Steady(v, stop)
  BY <1>7, <1>9, <1>10 DEF Steady
<1>12. Reads(v, p) = Reads(u, p)
  BY <1>9, <1>10 DEF Reads
<1> QED BY <1>1, <1>8, <1>9, <1>11, <1>12

\* The loop and the stop at the out point.
LEMMA WrappedClock ==
  ASSUME IInv
  PROVE  /\ Wrapped(ui) \in Clocks /\ Steady(Wrapped(ui), dec.stop)
         /\ Reads(Wrapped(ui), 0) = Wrapped(ui).base /\ Wrapped(ui).base \in Times
<1> DEFINE f == FreezeField(ui, Position)
           a == SeekField(ui, ui.range[1])
           b == SeekField(f, ui.range[2])
<1>1. Wrapped(ui) = IF ui.looping THEN a ELSE b
  BY DEF Wrapped
<1>2. /\ ui \in Clocks /\ Steady(ui, dec.stop) /\ dec.stop \in BOOLEAN /\ Position \in Times
      /\ ui.range[1] \in Times /\ ui.range[1] \in Int /\ ui.range[2] \in Times /\ ui.range[2] \in Int
      /\ (ui.needsFrame => ui.settle < SettleTicks)
  BY Now, Bounds
<1>3. a \in Clocks /\ Steady(a, dec.stop) /\ Reads(a, 0) = a.base /\ a.base \in Times
  BY <1>2, SeekClock, Clamps
<1>4. f \in Clocks /\ Steady(f, dec.stop)
  BY <1>2, FrozenClock
<1>5. b \in Clocks /\ Steady(b, dec.stop) /\ Reads(b, 0) = b.base /\ b.base \in Times
  <2> HIDE DEF f
  <2> QED BY <1>2, <1>4, SeekClock, Clamps
<1> HIDE DEF a, b
<1> QED BY <1>1, <1>3, <1>5

\* A repaint loops, stops or pauses the clip, and shows what is due.
LEMMA FrameStep ==
  ASSUME IInv, Frame
  PROVE  IInv'
<1> DEFINE p == IF SeeksAtEnd \/ ClockStill THEN 0 ELSE played
           pending == IF SeeksAtEnd THEN AfterEnd.base ELSE seekTo
           n == Picked(AfterEnd, p)
<1>1. /\ ui' = Shown(AfterEnd, n, pending) /\ played' = p /\ seekTo' = pending
      /\ frames' = After(frames, n)
      /\ UNCHANGED <<eof, audioBuf, inflight, device, dec, commands>>
  BY DEF Frame
<1>2. AfterEnd = IF SeeksAtEnd THEN Wrapped(ui)
                 ELSE IF ClockStill THEN FreezeField(ui, Position) ELSE ui
  BY DEF AfterEnd, SeeksAtEnd
<1>3. frames \in Seq(0..(VideoEnd - 1)) /\ commands \in 0..MaxCommands
  BY Parts DEF IInv
<1>4. n \in 0..Len(frames)
  BY <1>3, PickedOne
<1>5. /\ AfterEnd \in Clocks /\ Steady(AfterEnd, dec.stop) /\ p \in Times
      /\ \/ pending \in Times /\ Reads(AfterEnd, p) >= pending
         \/ /\ pending = seekTo /\ Reads(AfterEnd, p) >= Smaller(Reads(ui, played), Duration)
            /\ AfterEnd.lost = ui.lost
  <2>1. CASE SeeksAtEnd
    <3>1. AfterEnd = Wrapped(ui) /\ p = 0 /\ pending = AfterEnd.base
      BY <1>2, <2>1
    <3>2. AfterEnd \in Clocks /\ Steady(AfterEnd, dec.stop) /\ AfterEnd.base \in Times
          /\ Reads(AfterEnd, 0) = AfterEnd.base
      BY <3>1, WrappedClock
    <3>3. Reads(AfterEnd, p) >= pending
      BY <3>1, <3>2, Bounds
    <3> QED BY <3>1, <3>2, <3>3, Bounds
  <2>2. CASE ~SeeksAtEnd /\ ClockStill
    <3>1. AfterEnd = FreezeField(ui, Position) /\ p = 0 /\ pending = seekTo
      BY <1>2, <2>2
    <3>2. AfterEnd \in Clocks /\ Steady(AfterEnd, dec.stop) /\ Reads(AfterEnd, 0) = Position
          /\ AfterEnd.lost = ui.lost
      BY <3>1, Now, FrozenClock
    <3>3. Reads(AfterEnd, p) >= Smaller(Reads(ui, played), Duration)
      BY <3>1, <3>2, Now, Bounds
    <3> QED BY <3>1, <3>2, <3>3, Bounds
  <2>3. CASE ~SeeksAtEnd /\ ~ClockStill
    <3>1. AfterEnd = ui /\ p = played /\ pending = seekTo
      BY <1>2, <2>3
    <3>2. Reads(AfterEnd, p) >= Smaller(Reads(ui, played), Duration)
      BY <3>1, Now, Bounds DEF Smaller
    <3> QED BY <3>1, <3>2, Now
  <2> QED BY <2>1, <2>2, <2>3
<1> HIDE DEF p, pending, n
<1>6. /\ ui' \in Clocks /\ Steady(ui', dec.stop)
      /\ Reads(ui', p) = Reads(AfterEnd, p) /\ ui'.lost = AfterEnd.lost
  BY <1>1, <1>3, <1>4, <1>5, Now, ShownClock
<1>7. ASSUME pending = seekTo, Reads(AfterEnd, p) >= Smaller(Reads(ui, played), Duration),
             AfterEnd.lost = ui.lost, ~ui.lost
      PROVE  Reads(ui', played') + inflight' >= Smaller(Reads(ui, played) + inflight, Duration)
  <2> DEFINE R == Reads(ui, played)
             Q == Reads(AfterEnd, p)
             I == inflight
  <2>1. R \in Nat /\ Q \in Nat /\ I \in Nat /\ Duration \in Nat
    BY <1>5, Now, ClockReads, Bounds
  <2>2. Q >= Smaller(R, Duration)
    BY <1>7
  <2>3. Reads(ui', played') = Q /\ inflight' = I
    BY <1>1, <1>6
  <2> HIDE DEF R, Q, I
  <2>4. Q + I >= Smaller(R + I, Duration)
    BY <2>1, <2>2 DEF Smaller
  <2> QED BY <2>3, <2>4 DEF R, Q, I
<1>8. \/ seekTo' \in Times /\ Reads(ui', played') >= seekTo'
      \/ /\ seekTo' = seekTo /\ Reads(ui', played') >= Smaller(Reads(ui, played), Duration)
         /\ \/ ui'.lost
            \/ /\ ~ui.lost
               /\ Reads(ui', played') + inflight' >= Smaller(Reads(ui, played) + inflight, Duration)
  BY <1>1, <1>5, <1>6, <1>7
<1>9. commands' \in 0..MaxCommands /\ inflight' \in {0, 1} /\ played' \in Times
      /\ UNCHANGED <<eof, audioBuf, device, dec>>
  BY <1>1, <1>3, <1>5, Now
<1>10. frames' = After(frames, n)
  BY <1>1
<1> QED BY <1>4, <1>6, <1>8, <1>9, <1>10, UiStep

-----------------------------------------------------------------------------
(* The steps of the decode thread.                                         *)

\* The samples of n ticks of stream time, put behind a sequence.
LEMMA Spans ==
  ASSUME NEW from \in Nat, NEW n \in Nat, from + n <= Duration
  PROVE  /\ Span(from, n) \in Seq(Times) /\ Len(Span(from, n)) = n
         /\ \A i \in 1..n : Span(from, n)[i] = from + i - 1
<1>1. \A i \in 1..n : from + i - 1 \in Times
  BY Bounds DEF Times
<1> QED BY <1>1 DEF Span

\* A buffer that is stream time stays so when the next samples are put behind it.
LEMMA Fed ==
  ASSUME NEW b \in Seq(Times), NEW fill \in Nat, NEW n \in Nat, fill + n <= Duration,
         \A i \in 1..Len(b) : b[i] = fill - Len(b) + i - 1
  PROVE  /\ b \o Span(fill, n) \in Seq(Times) /\ Len(b \o Span(fill, n)) = Len(b) + n
         /\ \A i \in 1..Len(b \o Span(fill, n)) :
              (b \o Span(fill, n))[i] = (fill + n) - Len(b \o Span(fill, n)) + i - 1
<1> DEFINE s == Span(fill, n)
           c == b \o s
<1>1. s \in Seq(Times) /\ Len(s) = n /\ \A i \in 1..n : s[i] = fill + i - 1
  BY Spans
<1> HIDE DEF s
<1>2. c \in Seq(Times) /\ Len(c) = Len(b) + n /\ Len(b) \in Nat
  <2>1. \A S : \A x, y \in Seq(S) : x \o y \in Seq(S) /\ Len(x \o y) = Len(x) + Len(y) /\ Len(x) \in Nat
    OBVIOUS
  <2> QED BY <1>1, <2>1, Zenon
<1>3. \A i \in 1..Len(c) : c[i] = IF i <= Len(b) THEN b[i] ELSE s[i - Len(b)]
  BY <1>1
<1> HIDE DEF c
<1>4. ASSUME NEW i \in 1..Len(c) PROVE c[i] = (fill + n) - Len(c) + i - 1
  <2>1. CASE i <= Len(b)
    <3>1. i \in 1..Len(b)
      BY <2>1, <1>2
    <3>2. c[i] = fill - Len(b) + i - 1
      BY <1>3, <2>1, <3>1
    <3> QED BY <1>2, <3>2
  <2>2. CASE i > Len(b)
    <3>1. i - Len(b) \in 1..n
      BY <1>2, <2>2
    <3>2. c[i] = s[i - Len(b)]
      BY <1>2, <1>3, <2>2
    <3>3. s[i - Len(b)] = fill + (i - Len(b)) - 1
      BY <1>1, <3>1
    <3> QED BY <1>2, <3>2, <3>3
  <2> QED BY <1>2, <2>1, <2>2
<1> QED BY <1>2, <1>4 DEF c, s

\* A step of the decode thread leaves the clock alone.
LEMMA DecodeStep ==
  ASSUME IInv, UNCHANGED <<ui, played, inflight, device, commands>>,
         dec' \in Sessions, dec'.stop = dec.stop, seekTo' \in Times \cup {NoTime}, eof' \in BOOLEAN,
         frames' \in Seq(0..(VideoEnd - 1)), audioBuf' \in Seq(Times),
         Session', Queued', Heard', InStep'
  PROVE  IInv'
<1>1. TypeOK
  BY DEF IInv
<1>2. TypeOK'
  <2>1. /\ ui' \in Clocks /\ played' \in Times
        /\ inflight' \in {0, 1} /\ device' \in BOOLEAN /\ commands' \in 0..MaxCommands
    BY <1>1, Parts
  <2> QED BY <2>1, Parts
<1>3. Steady(ui', dec'.stop)
  BY DEF IInv
<1> QED BY <1>2, <1>3 DEF IInv

LEMMA OpenSessionStep ==
  ASSUME IInv, OpenSession
  PROVE  IInv'
<1>1. /\ dec.pc = "open" /\ DecoderOpens /\ dec' = [dec EXCEPT !.pc = "loop"]
      /\ UNCHANGED <<ui, played, seekTo, eof, frames, audioBuf, inflight, device, commands>>
  BY DEF OpenSession
<1>2. TypeOK /\ dec \in Sessions /\ seekTo # NoTime
  BY <1>1, Parts DEF IInv, Session
<1>3. dec' \in Sessions
  BY <1>1, <1>2, Zenon DEF Sessions
<1>4. /\ dec'.pc = "loop" /\ dec'.stop = dec.stop /\ dec'.next = dec.next
      /\ dec'.dropUntil = dec.dropUntil /\ dec'.demuxPos = dec.demuxPos /\ dec'.audioFill = dec.audioFill
  BY <1>1, <1>2 DEF Sessions
<1>5. Session' /\ Queued' /\ Heard' /\ InStep'
  BY <1>1, <1>2, <1>4 DEF IInv, Session, Queued, Heard, InStep, BufferTracksStream
<1> QED BY <1>1, <1>2, <1>3, <1>4, <1>5, Parts, DecodeStep

LEMMA TakeSeekStep ==
  ASSUME IInv, TakeSeek
  PROVE  IInv'
<1> DEFINE t == seekTo
<1>1. /\ dec.pc = "loop" /\ seekTo # NoTime /\ dec' = [dec EXCEPT !.pc = "seeking", !.target = t]
      /\ seekTo' = NoTime
      /\ UNCHANGED <<ui, played, eof, frames, audioBuf, inflight, device, commands>>
  BY DEF TakeSeek
<1>2. TypeOK /\ dec \in Sessions /\ t \in Times \cup {NoTime}
  BY Parts DEF IInv
<1>3. dec' \in Sessions
  <2> HIDE DEF t
  <2> QED BY <1>1, <1>2, Zenon DEF Sessions
<1>4. /\ dec'.pc = "seeking" /\ dec'.target = t /\ dec'.stop = dec.stop /\ dec'.next = dec.next
      /\ dec'.dropUntil = dec.dropUntil /\ dec'.demuxPos = dec.demuxPos /\ dec'.audioFill = dec.audioFill
  BY <1>1, <1>2 DEF Sessions
<1>5. Session' /\ Queued' /\ Heard' /\ InStep'
  BY <1>1, <1>2, <1>4 DEF IInv, Session, Queued, Heard, InStep, BufferTracksStream
<1> QED BY <1>1, <1>2, <1>3, <1>4, <1>5, Parts, DecodeStep

LEMMA DecideDemuxStep ==
  ASSUME IInv, DecideDemux
  PROVE  IInv'
<1>1. /\ dec.pc = "loop" /\ ~dec.stop /\ seekTo = NoTime /\ dec' = [dec EXCEPT !.pc = "demux"]
      /\ UNCHANGED <<ui, played, seekTo, eof, frames, audioBuf, inflight, device, commands>>
  BY DEF DecideDemux, Looping
<1>2. TypeOK /\ dec \in Sessions
  BY Parts DEF IInv
<1>3. dec' \in Sessions
  BY <1>1, <1>2, Zenon DEF Sessions
<1>4. /\ dec'.pc = "demux" /\ dec'.stop = dec.stop /\ dec'.next = dec.next
      /\ dec'.dropUntil = dec.dropUntil /\ dec'.demuxPos = dec.demuxPos /\ dec'.audioFill = dec.audioFill
  BY <1>1, <1>2 DEF Sessions
<1>5. Session' /\ Queued' /\ Heard' /\ InStep'
  BY <1>1, <1>2, <1>4 DEF IInv, Session, Queued, Heard, InStep, BufferTracksStream
<1> QED BY <1>1, <1>2, <1>3, <1>4, <1>5, Parts, DecodeStep

LEMMA ExitStep ==
  ASSUME IInv, Exit
  PROVE  IInv'
<1>1. /\ (dec.pc = "loop" /\ dec.stop) \/ (dec.pc = "open" /\ ~DecoderOpens)
      /\ dec' = [dec EXCEPT !.pc = "done"]
      /\ UNCHANGED <<ui, played, seekTo, eof, frames, audioBuf, inflight, device, commands>>
  BY DEF Exit
<1>2. TypeOK /\ dec \in Sessions /\ (dec.pc = "open" => seekTo # NoTime)
  BY Parts DEF IInv, Session
<1>3. dec' \in Sessions
  BY <1>1, <1>2, Zenon DEF Sessions
<1>4. /\ dec'.pc = "done" /\ dec'.stop = dec.stop /\ dec'.next = dec.next
      /\ dec'.dropUntil = dec.dropUntil /\ dec'.demuxPos = dec.demuxPos /\ dec'.audioFill = dec.audioFill
  BY <1>1, <1>2 DEF Sessions
<1>5. Session'
  BY <1>1, <1>4 DEF Session
<1>6. Queued' /\ Heard'
  BY <1>1, <1>4 DEF IInv, Queued, Heard, BufferTracksStream
<1>7. InStep'
  BY <1>1, <1>2, <1>4 DEF IInv, InStep
<1> QED BY <1>1, <1>2, <1>3, <1>4, <1>5, <1>6, <1>7, Parts, DecodeStep

\* Nothing of the old position is left, and the clock is not behind the new one.
LEMMA ApplySeekStep ==
  ASSUME SoundIsCovered, IInv, ApplySeek
  PROVE  IInv'
<1> DEFINE t == dec.target
           g == LeadingGap(t)
           F == IF g > 0 THEN AudioStart ELSE t
           m == 2 * KeyFrameBefore(t)
           N == NoTime
<1>1. /\ dec.pc = "seeking"
      /\ dec' = [dec EXCEPT !.pc = "loop", !.target = N, !.next = m, !.dropUntil = t,
                            !.runupLast = N, !.demuxPos = t, !.audioFill = F]
      /\ frames' = <<>> /\ audioBuf' = Span(t, g) /\ eof' = FALSE
      /\ UNCHANGED <<ui, played, seekTo, inflight, device, commands>>
  BY DEF ApplySeek
<1>2. TypeOK /\ dec \in Sessions /\ t \in Times /\ t \in Nat /\ t <= Duration /\ Duration \in Nat
  BY <1>1, Parts, Fields, Bounds DEF IInv, Session
<1>3. AudioStart \in Times /\ AudioStart \in Nat /\ AudioStart <= Duration
  BY SoundStarts, Bounds
<1>4. /\ g \in Nat /\ F = t + g /\ (HasAudio => AudioStart <= F) /\ F <= Duration /\ F \in Times
  <2>1. LeadMax \in Nat /\ LeadMax > 0
    BY PlayerAssumption
  <2>2. CASE HasAudio /\ AudioStart > t
    <3>1. g = Smaller(AudioStart - t, LeadMax) /\ AudioStart <= LeadMax
      BY <2>2 DEF LeadingGap, SoundIsCovered
    <3>2. g = AudioStart - t
      BY <1>2, <1>3, <2>1, <2>2, <3>1 DEF Smaller
    <3> HIDE DEF g
    <3> QED BY <1>2, <1>3, <2>2, <3>2
  <2>3. CASE ~(HasAudio /\ AudioStart > t)
    <3>1. g = 0
      BY <2>3 DEF LeadingGap
    <3> HIDE DEF g
    <3> QED BY <1>2, <1>3, <2>3, <3>1
  <2> QED BY <2>2, <2>3
<1>5. m \in Nat /\ m <= 2 * t /\ m \in 0..(2 * Duration + 1)
  <2>1. KeyFrameBefore(t) \in Nat /\ KeyFrameBefore(t) <= t
    BY <1>2, KeyFrames0
  <2> QED BY <1>2, <2>1
<1>6. N \in Times \cup {NoTime}
  OBVIOUS
<1> HIDE DEF t, g, F, m, N
<1>7. dec' \in Sessions
  BY <1>1, <1>2, <1>4, <1>5, <1>6, Zenon DEF Sessions
<1>8. /\ dec'.pc = "loop" /\ dec'.stop = dec.stop /\ dec'.next = m
      /\ dec'.dropUntil = t /\ dec'.demuxPos = t /\ dec'.audioFill = F
  BY <1>1, <1>2 DEF Sessions
<1>9. Session' /\ Queued'
  BY <1>1, <1>8 DEF Session, Queued
<1>10. audioBuf' \in Seq(Times) /\ Len(audioBuf') = g
       /\ \A i \in 1..g : audioBuf'[i] = t + i - 1
  BY <1>1, <1>2, <1>4, Spans
<1>11. BufferTracksStream'
  <2>1. \A i \in 1..g : t + i - 1 = F - g + i - 1
    BY <1>2, <1>4
  <2> QED BY <1>8, <1>10, <2>1 DEF BufferTracksStream
<1>12. Heard'
  <2>1. ASSUME NEW q \in AudioTicks, 2 * q + 1 < m PROVE q + 1 <= F
    BY <1>2, <1>4, <1>5, <2>1, Bounds
  <2> QED BY <1>1, <1>4, <1>8, <1>11, <2>1 DEF Heard
<1>13. InStep'
  <2>1. Reads(ui, played) \in Nat /\ inflight \in Nat
    BY Now
  <2>2. seekTo = NoTime => Reads(ui, played) >= t
    BY <1>1 DEF IInv, InStep, t
  <2>3. seekTo = NoTime => Reads(ui, played) + inflight + g >= F
    BY <1>2, <1>4, <2>1, <2>2
  <2> QED BY <1>1, <1>8, <1>10, <2>3 DEF IInv, InStep
<1>14. seekTo' \in Times \cup {NoTime} /\ frames' \in Seq(0..(VideoEnd - 1)) /\ eof' \in BOOLEAN
  <2>1. \A S : <<>> \in Seq(S)
    OBVIOUS
  <2>2. frames' \in Seq(0..(VideoEnd - 1))
    BY <1>1, <2>1, Zenon
  <2> QED BY <1>1, <1>2, <2>2, Parts
<1> QED BY <1>1, <1>7, <1>8, <1>9, <1>10, <1>12, <1>13, <1>14, DecodeStep

LEMMA FillSilenceStep ==
  ASSUME IInv, FillSilence
  PROVE  IInv'
<1> DEFINE n == Smaller(Hole, SilenceChunk)
           F == dec.audioFill + n
<1>1. /\ dec.pc = "loop" /\ seekTo = NoTime /\ Hole > 0
      /\ audioBuf' = audioBuf \o Span(dec.audioFill, n) /\ dec' = [dec EXCEPT !.audioFill = F]
      /\ UNCHANGED <<ui, played, seekTo, eof, frames, inflight, device, commands>>
  BY DEF FillSilence, Looping, PaceAction, FillsSilence
<1>2. TypeOK /\ dec \in Sessions /\ audioBuf \in Seq(Times) /\ Len(audioBuf) \in Nat
  BY Parts DEF IInv
<1>3. dec.audioFill \in Nat /\ dec.demuxPos \in Nat /\ dec.demuxPos <= Duration /\ Duration \in Nat
  BY <1>2, Fields, Bounds
<1>4. n \in Nat /\ F \in Nat /\ F >= dec.audioFill /\ F <= Duration /\ F \in Times
  <2>1. SilenceChunk \in Nat
    BY PlayerAssumption
  <2> QED BY <1>1, <1>3, <2>1 DEF Smaller, Hole, Times
<1>5. \A i \in 1..Len(audioBuf) : audioBuf[i] = dec.audioFill - Len(audioBuf) + i - 1
  BY DEF IInv, Heard, BufferTracksStream
<1> HIDE DEF n
<1>6. /\ audioBuf' \in Seq(Times) /\ Len(audioBuf') = Len(audioBuf) + n
      /\ \A i \in 1..Len(audioBuf') : audioBuf'[i] = F - Len(audioBuf') + i - 1
  BY <1>1, <1>2, <1>3, <1>4, <1>5, Fed
<1>7. dec' \in Sessions
  <2> HIDE DEF F
  <2> QED BY <1>1, <1>2, <1>4, Zenon DEF Sessions
<1>8. /\ dec'.pc = dec.pc /\ dec'.stop = dec.stop /\ dec'.next = dec.next /\ dec'.target = dec.target
      /\ dec'.dropUntil = dec.dropUntil /\ dec'.demuxPos = dec.demuxPos /\ dec'.audioFill = F
  BY <1>1, <1>2 DEF Sessions
<1>9. Session' /\ Queued'
  BY <1>1, <1>8 DEF IInv, Session, Queued
<1>10. Heard'
  <2>1. BufferTracksStream'
    BY <1>6, <1>8 DEF BufferTracksStream
  <2>2. ASSUME NEW q \in AudioTicks, 2 * q + 1 < dec.next PROVE q + 1 <= F
    <3>1. q + 1 <= dec.audioFill
      BY <2>2 DEF IInv, Heard
    <3> QED BY <1>3, <1>4, <3>1, Bounds
  <2>3. HasAudio => AudioStart <= F
    <3>1. HasAudio => AudioStart <= dec.audioFill
      BY <1>1 DEF IInv, Heard
    <3> QED BY <1>3, <1>4, <3>1, SoundStarts, Bounds
  <2> QED BY <1>8, <2>1, <2>2, <2>3 DEF Heard
<1>11. InStep'
  <2>1. Reads(ui, played) \in Nat /\ inflight \in Nat
    BY Now
  <2>2. ~ui.lost => Reads(ui, played) + inflight + Len(audioBuf) >= dec.audioFill
    BY <1>1 DEF IInv, InStep
  <2>3. ~ui.lost => Reads(ui, played) + inflight + Len(audioBuf') >= F
    BY <1>2, <1>3, <1>4, <1>6, <2>1, <2>2
  <2> QED BY <1>1, <1>8, <2>3 DEF InStep
<1>12. seekTo' \in Times \cup {NoTime} /\ frames' \in Seq(0..(VideoEnd - 1)) /\ eof' \in BOOLEAN
  BY <1>1, <1>2, Parts
<1> QED BY <1>1, <1>6, <1>7, <1>8, <1>9, <1>10, <1>11, <1>12, DecodeStep

\* A picture is put behind those that were read before it.
LEMMA OnVideoPacketStep ==
  ASSUME IInv, OnVideoPacket
  PROVE  IInv'
<1>1. PICK n \in Packets :
        LET pts == n \div 2
            runup == dec.dropUntil # NoTime /\ pts < dec.dropUntil
        IN  /\ ReadPacket(n) /\ n % 2 = 0
            /\ dec' = [dec EXCEPT !.pc = "loop", !.next = n + 1,
                                  !.demuxPos = Larger(@, pts),
                                  !.dropUntil = IF runup THEN @ ELSE NoTime,
                                  !.runupLast = IF runup THEN pts ELSE
                                                IF dec.dropUntil # NoTime THEN NoTime ELSE @]
            /\ frames' = IF runup \/ Len(frames) >= QueueTarget
                           THEN frames ELSE Append(frames, pts)
            /\ UNCHANGED <<ui, played, seekTo, eof, audioBuf, inflight, device, commands>>
  BY DEF OnVideoPacket
<1> DEFINE pts == n \div 2
           runup == dec.dropUntil # NoTime /\ pts < dec.dropUntil
           D == IF runup THEN dec.dropUntil ELSE NoTime
           U == IF runup THEN pts ELSE IF dec.dropUntil # NoTime THEN NoTime ELSE dec.runupLast
           P == Larger(dec.demuxPos, pts)
           m == n + 1
<1>2. /\ ReadPacket(n) /\ n % 2 = 0
      /\ dec' = [dec EXCEPT !.pc = "loop", !.next = m, !.demuxPos = P, !.dropUntil = D, !.runupLast = U]
      /\ frames' = frames \/ (frames' = Append(frames, pts) /\ D = NoTime)
      /\ UNCHANGED <<ui, played, seekTo, eof, audioBuf, inflight, device, commands>>
  BY <1>1
<1>3. TypeOK /\ dec \in Sessions /\ frames \in Seq(0..(VideoEnd - 1)) /\ Len(frames) \in Nat
  BY Parts DEF IInv
<1>4. /\ dec.pc = "demux" /\ dec.next \in Nat /\ dec.demuxPos \in Nat /\ dec.demuxPos <= Duration
      /\ dec.dropUntil \in Times \cup {NoTime} /\ dec.runupLast \in Times \cup {NoTime}
  BY <1>2, <1>3, Fields DEF ReadPacket
<1>5. /\ n \in Nat /\ n >= dec.next /\ \A k \in Packets : k >= dec.next => n <= k
      /\ pts \in 0..(VideoEnd - 1) /\ n = 2 * pts
  BY <1>2, <1>4, NextPacket
<1>6. pts \in Nat /\ pts <= Duration /\ pts \in Times /\ pts + 1 <= Duration
  BY <1>5, Bounds DEF Times
<1> HIDE DEF pts
<1>7. /\ P \in Times /\ P \in Nat /\ P >= dec.demuxPos /\ P >= pts /\ m \in Nat
      /\ m \in 0..(2 * Duration + 1)
  BY <1>4, <1>5, <1>6, Bounds DEF Larger, Times
<1>8. D \in Times \cup {NoTime} /\ U \in Times \cup {NoTime} /\ (D # NoTime => dec.dropUntil # NoTime)
  BY <1>4, <1>6
<1> HIDE DEF D, U, P
<1>9. dec' \in Sessions
  <2> HIDE DEF m
  <2> QED BY <1>2, <1>3, <1>7, <1>8, Zenon DEF Sessions
<1>10. /\ dec'.pc = "loop" /\ dec'.stop = dec.stop /\ dec'.next = m
       /\ dec'.dropUntil = D /\ dec'.demuxPos = P /\ dec'.audioFill = dec.audioFill
  BY <1>2, <1>3 DEF Sessions
<1>11. Session'
  BY <1>10 DEF Session
<1>12. /\ \A i, j \in 1..Len(frames) : i < j => frames[i] < frames[j]
       /\ \A i \in 1..Len(frames) : 2 * frames[i] < dec.next /\ frames[i] <= dec.demuxPos
       /\ dec.dropUntil # NoTime => frames = <<>>
       /\ \A i \in 1..Len(frames) : frames[i] \in Nat
  <2>1. \A i \in 1..Len(frames) : frames[i] \in 0..(VideoEnd - 1)
    <3>1. \A S : frames \in Seq(S) => \A i \in 1..Len(frames) : frames[i] \in S
      OBVIOUS
    <3> QED BY <1>3, <3>1, Zenon
  <2> QED BY <2>1, Bounds DEF IInv, Queued
<1>13. \A i \in 1..Len(frames) : 2 * frames[i] < m /\ frames[i] <= P /\ frames[i] < pts
  <2> SUFFICES ASSUME NEW i \in 1..Len(frames)
               PROVE  2 * frames[i] < m /\ frames[i] <= P /\ frames[i] < pts
    OBVIOUS
  <2> DEFINE f == frames[i]
  <2>1. f \in Nat /\ 2 * f < dec.next /\ f <= dec.demuxPos
    BY <1>12
  <2> HIDE DEF f
  <2>2. 2 * f < m /\ f <= P /\ f < pts
    BY <1>4, <1>5, <1>6, <1>7, <2>1
  <2> QED BY <2>2 DEF f
<1>14. frames' \in Seq(0..(VideoEnd - 1)) /\ Queued'
  <2>1. CASE frames' = frames
    BY <1>3, <1>8, <1>10, <1>12, <1>13, <2>1 DEF Queued
  <2>2. CASE frames' = Append(frames, pts) /\ D = NoTime
    <3>1. /\ frames' \in Seq(0..(VideoEnd - 1)) /\ Len(frames') = Len(frames) + 1
          /\ \A i \in 1..Len(frames') : frames'[i] = IF i <= Len(frames) THEN frames[i] ELSE pts
      <4>1. \A S : \A x \in Seq(S) : \A e \in S :
               /\ Append(x, e) \in Seq(S) /\ Len(Append(x, e)) = Len(x) + 1
               /\ \A i \in 1..Len(Append(x, e)) : Append(x, e)[i] = IF i <= Len(x) THEN x[i] ELSE e
        OBVIOUS
      <4>2. pts \in 0..(VideoEnd - 1)
        BY <1>5
      <4> QED BY <1>3, <2>2, <4>1, <4>2, Zenon
    <3>2. ASSUME NEW i \in 1..Len(frames'), NEW j \in 1..Len(frames'), i < j
          PROVE  frames'[i] < frames'[j]
      <4>1. i \in 1..Len(frames) /\ frames'[i] = frames[i] /\ frames[i] < pts
        BY <1>3, <1>13, <3>1, <3>2
      <4>2. CASE j <= Len(frames)
        <5>1. j \in 1..Len(frames) /\ frames'[j] = frames[j]
          BY <1>3, <3>1, <4>2
        <5> QED BY <1>12, <3>2, <4>1, <5>1
      <4>3. CASE j > Len(frames)
        <5>1. frames'[j] = pts
          BY <1>3, <3>1, <4>3
        <5> QED BY <4>1, <5>1
      <4> QED BY <1>3, <4>2, <4>3
    <3>3. ASSUME NEW i \in 1..Len(frames') PROVE 2 * frames'[i] < m /\ frames'[i] <= P
      <4>1. CASE i <= Len(frames)
        <5>1. i \in 1..Len(frames) /\ frames'[i] = frames[i]
          BY <1>3, <3>1, <4>1
        <5> QED BY <1>13, <5>1
      <4>2. CASE i > Len(frames)
        <5>1. frames'[i] = pts
          BY <1>3, <3>1, <4>2
        <5> QED BY <1>5, <1>6, <1>7, <5>1
      <4> QED BY <1>3, <4>1, <4>2
    <3> HIDE DEF m
    <3> QED BY <1>10, <2>2, <3>1, <3>2, <3>3 DEF Queued
  <2> QED BY <1>2, <2>1, <2>2
<1>15. Heard'
  <2>1. ASSUME NEW q \in AudioTicks, 2 * q + 1 < m PROVE q + 1 <= dec.audioFill
    <3>1. q \in Nat /\ 2 * q + 1 \in Packets
      BY Bounds DEF Packets
    <3>2. 2 * q + 1 < dec.next
      BY <1>4, <1>5, <1>6, <2>1, <3>1
    <3> QED BY <3>2 DEF IInv, Heard
  <2>2. HasAudio => AudioStart <= dec.audioFill
    BY <1>4 DEF IInv, Heard
  <2> HIDE DEF m
  <2> QED BY <1>2, <1>10, <2>1, <2>2 DEF IInv, Heard, BufferTracksStream
<1>16. InStep'
  BY <1>2, <1>4, <1>10 DEF IInv, InStep
<1>17. seekTo' \in Times \cup {NoTime} /\ audioBuf' \in Seq(Times) /\ eof' \in BOOLEAN
  BY <1>2, <1>3, Parts
<1> QED BY <1>2, <1>9, <1>10, <1>11, <1>14, <1>15, <1>16, <1>17, DecodeStep

\* A packet of sound is put where it belongs, the hole before it filled.
LEMMA OnAudioPacketStep ==
  ASSUME SoundIsCovered, IInv, OnAudioPacket
  PROVE  IInv'
<1>1. PICK n \in Packets :
        LET p == n \div 2
            gap == Clamp(p - dec.audioFill, 0, GapMax)
            skip == p + 1 <= dec.audioFill
        IN  /\ ReadPacket(n) /\ n % 2 = 1
            /\ dec' = [dec EXCEPT !.pc = "loop", !.next = n + 1,
                                  !.audioFill = IF skip THEN @ ELSE Larger(@, p) + 1]
            /\ audioBuf' = IF skip THEN audioBuf
                             ELSE Append(audioBuf \o Span(dec.audioFill, gap), p)
            /\ UNCHANGED <<ui, played, seekTo, eof, frames, inflight, device, commands>>
  BY DEF OnAudioPacket
<1> DEFINE p == n \div 2
           f == dec.audioFill
           gap == Clamp(p - f, 0, GapMax)
           skip == p + 1 <= f
           F == IF skip THEN f ELSE Larger(f, p) + 1
           m == n + 1
<1>2. /\ ReadPacket(n) /\ n % 2 = 1
      /\ dec' = [dec EXCEPT !.pc = "loop", !.next = m, !.audioFill = F]
      /\ audioBuf' = IF skip THEN audioBuf ELSE Append(audioBuf \o Span(f, gap), p)
      /\ UNCHANGED <<ui, played, seekTo, eof, frames, inflight, device, commands>>
  BY <1>1
<1>3. TypeOK /\ dec \in Sessions /\ audioBuf \in Seq(Times) /\ Len(audioBuf) \in Nat
  BY Parts DEF IInv
<1>4. /\ dec.pc = "demux" /\ dec.next \in Nat /\ f \in Nat /\ f <= Duration /\ Duration \in Nat
  BY <1>2, <1>3, Fields, Bounds DEF ReadPacket
<1>5. /\ n \in Nat /\ n >= dec.next /\ \A k \in Packets : k >= dec.next => n <= k
      /\ p \in AudioTicks /\ n = 2 * p + 1
  BY <1>2, <1>4, NextPacket
<1>6. p \in Nat /\ p + 1 <= Duration /\ p \in Times /\ HasAudio
  BY <1>5, Bounds DEF HasAudio
<1> HIDE DEF p
<1>7. \A q \in AudioTicks : q < p => q + 1 <= f
  <2> SUFFICES ASSUME NEW q \in AudioTicks, q < p
               PROVE  q + 1 <= f
    OBVIOUS
  <2>1. q \in Nat /\ 2 * q + 1 \in Packets
    BY Bounds DEF Packets
  <2>2. 2 * q + 1 < dec.next
    BY <1>4, <1>5, <1>6, <2>1
  <2> QED BY <2>2 DEF IInv, Heard
<1>8. ASSUME ~skip PROVE gap = p - f /\ gap \in Nat /\ F = f + gap + 1 /\ F = p + 1
  <2>1. f <= p
    BY <1>4, <1>6, <1>8
  <2>2. GapMax \in Nat
    BY PlayerAssumption
  <2>3. p - f <= GapMax
    <3>1. CASE p = AudioStart
      <4>1. AudioStart <= f
        BY <1>4, <1>6 DEF IInv, Heard
      <4> QED BY <1>4, <1>6, <2>1, <2>2, <3>1, <4>1
    <3>2. CASE p # AudioStart
      <4>1. PICK q \in AudioTicks : q < p /\ p - q - 1 <= GapMax
        BY <1>5, <3>2 DEF SoundIsCovered
      <4>2. q + 1 <= f /\ q \in Nat
        BY <1>7, <4>1, Bounds
      <4> QED BY <1>4, <1>6, <2>2, <4>1, <4>2
    <3> QED BY <3>1, <3>2
  <2>4. gap = p - f
    BY <1>4, <1>6, <2>1, <2>2, <2>3 DEF Clamp, Larger, Smaller
  <2>5. F = Larger(f, p) + 1
    BY <1>8
  <2> HIDE DEF gap, F
  <2> QED BY <1>4, <1>6, <2>1, <2>4, <2>5 DEF Larger
<1>9. F \in Times /\ F \in Nat /\ F >= f /\ p + 1 <= F
  <2>1. CASE skip
    <3>1. F = f
      BY <2>1
    <3> HIDE DEF F
    <3> QED BY <1>4, <2>1, <3>1 DEF Times
  <2>2. CASE ~skip
    <3>1. F = p + 1 /\ f <= p
      BY <1>4, <1>6, <1>8, <2>2
    <3> HIDE DEF F
    <3> QED BY <1>4, <1>6, <3>1 DEF Times
  <2> QED BY <2>1, <2>2
<1>10. m \in 0..(2 * Duration + 1) /\ m \in Nat
  BY <1>5, <1>6, Bounds
<1>11. dec' \in Sessions
  <2> HIDE DEF m, F
  <2> QED BY <1>2, <1>3, <1>9, <1>10, Zenon DEF Sessions
<1>12. /\ dec'.pc = "loop" /\ dec'.stop = dec.stop /\ dec'.next = m
       /\ dec'.dropUntil = dec.dropUntil /\ dec'.demuxPos = dec.demuxPos /\ dec'.audioFill = F
  <2> HIDE DEF m, F
  <2> QED BY <1>2, <1>3 DEF Sessions
<1>13. \A i \in 1..Len(audioBuf) : audioBuf[i] = f - Len(audioBuf) + i - 1
  BY DEF IInv, Heard, BufferTracksStream
<1>14. /\ audioBuf' \in Seq(Times) /\ Len(audioBuf') = Len(audioBuf) + (F - f)
       /\ \A i \in 1..Len(audioBuf') : audioBuf'[i] = F - Len(audioBuf') + i - 1
  <2>1. CASE skip
    <3>1. F = f /\ audioBuf' = audioBuf
      BY <1>2, <2>1
    <3> HIDE DEF F, f
    <3> QED BY <1>3, <1>4, <1>13, <3>1
  <2>2. CASE ~skip
    <3> DEFINE b == audioBuf \o Span(f, gap)
    <3>1. gap \in Nat /\ f + gap = p /\ F = p + 1
      <4>1. gap = p - f /\ gap \in Nat /\ F = p + 1
        BY <1>8, <2>2
      <4> HIDE DEF gap, F
      <4> QED BY <1>4, <1>6, <4>1
    <3>2. audioBuf' = Append(b, p)
      BY <1>2, <2>2
    <3> HIDE DEF gap, F
    <3>3. /\ b \in Seq(Times) /\ Len(b) = Len(audioBuf) + gap
          /\ \A i \in 1..Len(b) : b[i] = (f + gap) - Len(b) + i - 1
      <4>1. f \in Nat /\ gap \in Nat /\ f + gap <= Duration
        <5> HIDE DEF f
        <5> QED BY <1>4, <1>6, <3>1
      <4>2. audioBuf \in Seq(Times)
        BY <1>3
      <4> HIDE DEF f
      <4> QED BY <1>13, <4>1, <4>2, Fed
    <3> HIDE DEF b, f
    <3>4. /\ audioBuf' \in Seq(Times) /\ Len(audioBuf') = Len(b) + 1
          /\ \A i \in 1..Len(audioBuf') : audioBuf'[i] = IF i <= Len(b) THEN b[i] ELSE p
      <4>1. \A S : \A x \in Seq(S) : \A e \in S :
               /\ Append(x, e) \in Seq(S) /\ Len(Append(x, e)) = Len(x) + 1
               /\ \A i \in 1..Len(Append(x, e)) : Append(x, e)[i] = IF i <= Len(x) THEN x[i] ELSE e
        OBVIOUS
      <4> QED BY <1>6, <3>2, <3>3, <4>1, Zenon
    <3>5. ASSUME NEW i \in 1..Len(audioBuf') PROVE audioBuf'[i] = F - Len(audioBuf') + i - 1
      <4>1. Len(b) \in Nat
        BY <1>3, <3>1, <3>3
      <4>2. CASE i <= Len(b)
        <5>1. i \in 1..Len(b)
          BY <3>4, <4>1, <4>2
        <5>2. audioBuf'[i] = (f + gap) - Len(b) + i - 1
          BY <3>3, <3>4, <4>2, <5>1
        <5> QED BY <1>4, <1>6, <3>1, <3>4, <4>1, <5>2
      <4>3. CASE i > Len(b)
        <5>1. i = Len(audioBuf') /\ audioBuf'[i] = p
          BY <3>4, <4>1, <4>3
        <5> QED BY <1>6, <3>1, <3>4, <4>1, <5>1
      <4> QED BY <4>1, <4>2, <4>3
    <3>6. Len(audioBuf') = Len(audioBuf) + (F - f)
      <4>1. Len(audioBuf') = Len(audioBuf) + gap + 1
        BY <3>3, <3>4
      <4>2. f \in Nat /\ gap \in Nat /\ p \in Nat /\ f + gap = p /\ F = p + 1
        BY <1>4, <1>6, <3>1
      <4>3. Len(audioBuf) \in Nat
        BY <1>3
      <4> QED BY <4>1, <4>2, <4>3
    <3> QED BY <3>4, <3>5, <3>6
  <2> QED BY <2>1, <2>2
<1>15. Session'
  BY <1>12 DEF Session
<1>16. Queued'
  <2>1. ASSUME NEW i \in 1..Len(frames) PROVE 2 * frames[i] < m
    <3>1. 2 * frames[i] < dec.next /\ frames[i] \in Int
      <4>1. frames \in Seq(0..(VideoEnd - 1))
        BY <1>3, Parts
      <4>2. \A S : frames \in Seq(S) => \A j \in 1..Len(frames) : frames[j] \in S
        OBVIOUS
      <4>3. frames[i] \in 0..(VideoEnd - 1)
        BY <2>1, <4>1, <4>2, Zenon
      <4> QED BY <2>1, <4>3, Bounds DEF IInv, Queued
    <3> QED BY <1>4, <1>5, <3>1
  <2> HIDE DEF m
  <2> QED BY <1>2, <1>12, <2>1 DEF IInv, Queued
<1>17. Heard'
  <2>1. BufferTracksStream'
    BY <1>12, <1>14 DEF BufferTracksStream
  <2>2. ASSUME NEW q \in AudioTicks, 2 * q + 1 < m PROVE q + 1 <= F
    <3>1. q \in Nat /\ (q < p => q + 1 <= f)
      BY <1>7, Bounds
    <3>2. q <= p
      BY <1>5, <1>6, <2>2, <3>1
    <3> QED BY <1>4, <1>6, <1>9, <3>1, <3>2
  <2>3. HasAudio => AudioStart <= F
    <3>1. HasAudio => AudioStart <= f
      BY <1>4 DEF IInv, Heard
    <3> QED BY <1>4, <1>9, <3>1, SoundStarts, Bounds
  <2> HIDE DEF m, F
  <2> QED BY <1>12, <2>1, <2>2, <2>3 DEF Heard
<1>18. InStep'
  <2>1. Reads(ui, played) \in Nat /\ inflight \in Nat
    BY Now
  <2>2. seekTo = NoTime /\ ~ui.lost => Reads(ui, played) + inflight + Len(audioBuf) >= f
    BY <1>4 DEF IInv, InStep
  <2> HIDE DEF F
  <2>3. seekTo = NoTime /\ ~ui.lost => Reads(ui, played) + inflight + Len(audioBuf') >= F
    BY <1>3, <1>4, <1>9, <1>14, <2>1, <2>2
  <2> QED BY <1>2, <1>4, <1>12, <2>3 DEF IInv, InStep
<1>19. seekTo' \in Times \cup {NoTime} /\ frames' \in Seq(0..(VideoEnd - 1)) /\ eof' \in BOOLEAN
  BY <1>2, <1>3, Parts
<1> QED BY <1>2, <1>11, <1>12, <1>14, <1>15, <1>16, <1>17, <1>18, <1>19, DecodeStep

\* At the end the tail is run again, or the sound goes on as silence.
LEMMA OnEofStep ==
  ASSUME IInv, OnEof
  PROVE  IInv'
<1> DEFINE f == dec.audioFill
           T == TrailingSilence
           F == IF RerunTail THEN f ELSE f + T
           m == IF RerunTail THEN 2 * KeyFrameBefore(dec.runupLast) ELSE dec.next
           D == IF RerunTail THEN dec.runupLast ELSE dec.dropUntil
           N == NoTime
<1>1. /\ dec.pc = "demux" /\ AtEnd
      /\ dec' = [dec EXCEPT !.pc = "loop", !.next = m, !.dropUntil = D, !.runupLast = N, !.audioFill = F]
      /\ eof' = ~RerunTail
      /\ audioBuf' = IF RerunTail THEN audioBuf ELSE audioBuf \o Span(f, T)
      /\ UNCHANGED <<ui, played, seekTo, frames, inflight, device, commands>>
  BY DEF OnEof
<1>2. TypeOK /\ dec \in Sessions /\ audioBuf \in Seq(Times) /\ Len(audioBuf) \in Nat
  BY Parts DEF IInv
<1>3. /\ f \in Nat /\ f <= Duration /\ Duration \in Nat /\ dec.demuxPos \in Nat /\ dec.demuxPos <= Duration
      /\ dec.dropUntil \in Times \cup {NoTime} /\ dec.runupLast \in Times \cup {NoTime}
      /\ dec.next \in Nat /\ dec.next <= 2 * Duration + 1
  BY <1>2, Fields, Bounds
<1>4. T \in Nat /\ f + T <= Duration
  <2>1. SilenceChunk \in Nat
    BY PlayerAssumption
  <2>2. MediaEnd = Duration
    BY <1>3 DEF MediaEnd, Larger
  <2>3. T = 0 \/ T = Smaller(Larger(Duration - f, 0), SilenceChunk)
    BY <2>2 DEF TrailingSilence
  <2> HIDE DEF T, f
  <2> QED BY <1>3, <2>1, <2>3 DEF Smaller, Larger
<1> HIDE DEF T
<1>5. F \in Times /\ F \in Nat /\ F >= f
  <2> HIDE DEF f
  <2> QED BY <1>3, <1>4 DEF Times
<1>6. RerunTail => dec.dropUntil # NoTime /\ dec.runupLast # NoTime
  BY DEF RerunTail
<1>7. /\ D \in Times \cup {NoTime} /\ m \in 0..(2 * Duration + 1) /\ N \in Times \cup {NoTime}
      /\ (D # NoTime => dec.dropUntil # NoTime)
  <2>1. CASE RerunTail
    <3> DEFINE k == KeyFrameBefore(dec.runupLast)
    <3>1. dec.runupLast \in Times
      BY <1>3, <1>6, <2>1
    <3>2. k \in Nat /\ k <= Duration
      BY <1>3, <3>1, KeyFrames0, Bounds
    <3> HIDE DEF k
    <3>3. 2 * k \in 0..(2 * Duration + 1)
      BY <1>3, <3>2
    <3> QED BY <1>6, <2>1, <3>1, <3>3 DEF k
  <2>2. CASE ~RerunTail
    BY <1>3, <2>2
  <2> QED BY <2>1, <2>2
<1>8. dec' \in Sessions
  <2> HIDE DEF m, D, N, F
  <2> QED BY <1>1, <1>2, <1>5, <1>7, Zenon DEF Sessions
<1>9. /\ dec'.pc = "loop" /\ dec'.stop = dec.stop /\ dec'.next = m
      /\ dec'.dropUntil = D /\ dec'.demuxPos = dec.demuxPos /\ dec'.audioFill = F
  <2> HIDE DEF m, D, N, F
  <2> QED BY <1>1, <1>2 DEF Sessions
<1>10. \A i \in 1..Len(audioBuf) : audioBuf[i] = f - Len(audioBuf) + i - 1
  BY DEF IInv, Heard, BufferTracksStream
<1>11. /\ audioBuf' \in Seq(Times) /\ Len(audioBuf') = Len(audioBuf) + (F - f)
       /\ \A i \in 1..Len(audioBuf') : audioBuf'[i] = F - Len(audioBuf') + i - 1
  <2>1. CASE RerunTail
    <3>1. F = f /\ audioBuf' = audioBuf
      BY <1>1, <2>1
    <3> HIDE DEF F, f
    <3> QED BY <1>2, <1>3, <1>10, <3>1
  <2>2. CASE ~RerunTail
    <3>1. F = f + T /\ audioBuf' = audioBuf \o Span(f, T)
      BY <1>1, <2>2
    <3> HIDE DEF F
    <3>2. /\ audioBuf' \in Seq(Times) /\ Len(audioBuf') = Len(audioBuf) + T
          /\ \A i \in 1..Len(audioBuf') : audioBuf'[i] = (f + T) - Len(audioBuf') + i - 1
      BY <1>2, <1>3, <1>4, <1>10, <3>1, Fed
    <3>3. T = F - f
      BY <1>3, <1>4, <3>1
    <3> QED BY <3>1, <3>2, <3>3
  <2> QED BY <2>1, <2>2
<1>12. Session'
  BY <1>9 DEF Session
<1>13. ASSUME RerunTail PROVE frames = <<>>
  BY <1>6, <1>13 DEF IInv, Queued
<1>14. Queued'
  <2>1. CASE RerunTail
    <3> HIDE DEF m, D
    <3> QED BY <1>1, <1>9, <1>13, <2>1 DEF Queued
  <2>2. CASE ~RerunTail
    <3>1. m = dec.next /\ D = dec.dropUntil
      BY <2>2
    <3> HIDE DEF m, D
    <3> QED BY <1>1, <1>9, <3>1 DEF IInv, Queued
  <2> QED BY <2>1, <2>2
<1>15. Heard'
  <2>1. BufferTracksStream'
    BY <1>9, <1>11 DEF BufferTracksStream
  <2>2. ASSUME NEW q \in AudioTicks PROVE q + 1 <= F
    <3>1. 2 * q + 1 \in Packets /\ q \in Nat
      BY Bounds DEF Packets
    <3>2. 2 * q + 1 < dec.next
      BY <1>1, <3>1 DEF AtEnd
    <3>3. q + 1 <= f
      BY <3>2 DEF IInv, Heard
    <3> QED BY <1>3, <1>5, <3>1, <3>3
  <2>3. HasAudio => AudioStart <= F
    <3>1. HasAudio => AudioStart <= f
      BY <1>1 DEF IInv, Heard
    <3> QED BY <1>3, <1>5, <3>1, SoundStarts, Bounds
  <2> HIDE DEF m, F
  <2> QED BY <1>9, <2>1, <2>2, <2>3 DEF Heard
<1>16. InStep'
  <2>1. Reads(ui, played) \in Nat /\ inflight \in Nat
    BY Now
  <2>2. seekTo = NoTime /\ ~ui.lost => Reads(ui, played) + inflight + Len(audioBuf) >= f
    BY <1>1 DEF IInv, InStep
  <2> HIDE DEF F
  <2>3. seekTo = NoTime /\ ~ui.lost => Reads(ui, played) + inflight + Len(audioBuf') >= F
    BY <1>2, <1>3, <1>5, <1>11, <2>1, <2>2
  <2> QED BY <1>1, <1>9, <2>3 DEF IInv, InStep
<1>17. seekTo' \in Times \cup {NoTime} /\ frames' \in Seq(0..(VideoEnd - 1)) /\ eof' \in BOOLEAN
  BY <1>1, <1>2, Parts
<1> QED BY <1>1, <1>8, <1>9, <1>11, <1>12, <1>14, <1>15, <1>16, <1>17, DecodeStep

-----------------------------------------------------------------------------
(* The theorems.                                                           *)

LEMMA InitInv ==
  ASSUME Init
  PROVE  IInv
<1>1. SettleTicks \in Nat /\ SettleTicks > 0 /\ MaxCommands \in Nat
  BY PlayerAssumption
<1>2. ui \in Clocks
  <2>1. <<0, Duration>> \in Times \X Times /\ 0 \in 0..SettleTicks /\ 0 \in Times
    BY <1>1, Bounds DEF Times
  <2> QED BY <2>1 DEF Init, NewPlayer, Clocks
<1>3. dec \in Sessions
  <2>1. 0 \in Times /\ 0 \in 0..(2 * Duration + 1)
    BY Bounds
  <2> QED BY <2>1 DEF Init, NewSession, Sessions
<1>4. TypeOK
  <2>1. 0 \in Times /\ 0 \in 0..MaxCommands
    BY <1>1, Bounds
  <2>2. \A S : <<>> \in Seq(S)
    OBVIOUS
  <2> QED BY <1>2, <1>3, <2>1, <2>2, Zenon DEF Init, TypeOK, Clocks, Sessions
<1>5. Steady(ui, dec.stop)
  BY <1>1 DEF Init, NewPlayer, NewSession, Steady
<1>6. Session /\ Queued
  BY Bounds DEF Init, NewSession, Session, Queued
<1>7. Heard
  <2>1. BufferTracksStream
    BY DEF Init, BufferTracksStream
  <2>2. \A q \in AudioTicks : ~(2 * q + 1 < 0)
    BY Bounds
  <2> QED BY <2>1, <2>2 DEF Init, NewSession, Heard
<1>8. InStep
  <2>1. Reads(ui, played) \in Nat
    BY <1>2, ClockReads, Bounds DEF Init
  <2> QED BY <2>1, Bounds DEF Init, NewSession, InStep
<1> QED BY <1>4, <1>5, <1>6, <1>7, <1>8 DEF IInv

LEMMA Invariance ==
  ASSUME SoundIsCovered
  PROVE  Spec => []IInv
<1>1. Init => IInv
  BY InitInv
<1>2. IInv /\ [Next]_vars => IInv'
  <2> SUFFICES ASSUME IInv, [Next]_vars
               PROVE  IInv'
    OBVIOUS
  <2>1. CASE \E t \in SeekTargets : Seek(t)
    BY <2>1, SeekStep
  <2>2. CASE Play
    BY <2>2, PlayStep
  <2>3. CASE Pause
    BY <2>3, PauseStep
  <2>4. CASE Close
    BY <2>4, CloseStep
  <2>5. CASE \E s \in {1, 2} : SetSpeed(s)
    BY <2>5, SetSpeedStep
  <2>6. CASE \E on \in BOOLEAN : SetLoop(on)
    BY <2>6, SetLoopStep
  <2>7. CASE \E r \in Ranges : SetRange(r)
    BY <2>7, SetRangeStep
  <2>8. CASE Decode
    BY <2>8, OpenSessionStep, TakeSeekStep, ApplySeekStep, FillSilenceStep, DecideDemuxStep,
       OnVideoPacketStep, OnAudioPacketStep, OnEofStep, ExitStep DEF Decode
  <2>9. CASE Drain \/ CountPlayed \/ DeviceStalls \/ WallTick \/ Frame
    BY <2>9, DrainStep, CountPlayedStep, DeviceStallsStep, WallTickStep, FrameStep
  <2>10. CASE UNCHANGED vars
    BY <2>10 DEF vars, IInv, TypeOK, Session, Queued, Heard, BufferTracksStream, InStep
  <2> QED BY <2>1, <2>2, <2>3, <2>4, <2>5, <2>6, <2>7, <2>8, <2>9, <2>10 DEF Next, UserStep
<1> QED BY <1>1, <1>2, PTL DEF Spec

\* Every field has its type, the buffer and the queue among them, whatever the
\* three threads do to each other.
THEOREM PlayerTypeCorrect ==
  ASSUME SoundIsCovered
  PROVE  Spec => []TypeOK
<1>1. IInv => TypeOK
  BY DEF IInv
<1> QED BY <1>1, Invariance, PTL

\* A scrub never continues from the old position (apply_pending_seek): the queue
\* is in order and empty until the target is reached, and the buffer is stream
\* time without a hole.
THEOREM LookAheadAlwaysFollows ==
  ASSUME SoundIsCovered
  PROVE  Spec => []LookAheadFollowsSeek
<1>1. IInv => LookAheadFollowsSeek
  BY DEF IInv, Queued, Heard, LookAheadFollowsSeek, QueueFollowsSeek
<1> QED BY <1>1, Invariance, PTL

\* The clock, the queue and the demuxer never wait for each other (pace): a clip
\* that plays has a sample to play, a picture to show or work for the decode thread.
THEOREM NothingEverFreezes ==
  ASSUME SoundIsCovered
  PROVE  Spec => []NeverFrozen
<1>1. IInv => NeverFrozen
  <2> SUFFICES ASSUME IInv, ClockStill, device, DecoderOpens, ~ui.lost
               PROVE  FALSE
    BY DEF NeverFrozen
  <2>1. TypeOK /\ dec \in Sessions /\ frames \in Seq(0..(VideoEnd - 1)) /\ Len(frames) \in Nat
    BY Parts DEF IInv
  <2>2. /\ ~dec.stop /\ ui.playing /\ ~UsesWallClock(ui) /\ inflight = 0 /\ ~AtOut
        /\ (~DeviceRuns \/ audioBuf = <<>>) /\ DecodeIdle /\ Displayable = {}
    BY DEF ClockStill
  <2>3. HasAudio /\ audioBuf = <<>> /\ Len(audioBuf) = 0
    <3>1. ui.streamOn
      BY <2>2 DEF IInv, Steady
    <3>2. DeviceRuns
      BY <2>2, <3>1 DEF DeviceRuns
    <3> QED BY <2>2, <3>2 DEF UsesWallClock
  <2>4. /\ dec.pc \in {"loop", "demux"} /\ seekTo = NoTime
        /\ \/ PaceAction = "Park" /\ dec.pc = "loop"
           \/ PaceAction = "Demux" /\ AtEnd /\ eof /\ ~RerunTail /\ TrailingSilence = 0
    BY <2>2 DEF DecodeIdle, IInv, Session
  <2>5. /\ dec.audioFill \in Nat /\ dec.audioFill <= Duration /\ Duration \in Nat
        /\ dec.demuxPos \in Nat /\ dec.demuxPos <= Duration
    BY <2>1, Fields, Bounds
  <2>6. Position \in Nat /\ Position >= dec.audioFill
    <3>1. Reads(ui, played) + inflight + Len(audioBuf) >= dec.audioFill
      BY <2>4 DEF IInv, InStep
    <3>2. Reads(ui, played) \in Nat /\ Position = Smaller(Reads(ui, played), Duration)
      BY Now
    <3> QED BY <2>2, <2>3, <2>5, <3>1, <3>2 DEF Smaller
  <2>7. CASE PaceAction = "Park"
    <3>1. ~FillsSilence /\ LookAheadFull
      BY <2>7 DEF PaceAction
    <3>2. dec.demuxPos <= dec.audioFill
      BY <2>2, <2>3, <2>5, <3>1 DEF FillsSilence, Hole
    <3>3. Len(frames) >= QueueMax /\ QueueMax \in Nat /\ QueueMax > 0
      <4>1. AudioBufMax \in Nat /\ AudioBufMax > 0 /\ QueueMax \in Nat /\ QueueMax > 0
        BY PlayerAssumption
      <4>2. ~(Len(audioBuf) >= AudioBufMax)
        BY <2>3, <4>1
      <4> QED BY <2>2, <3>1, <4>1, <4>2 DEF LookAheadFull, QueueTarget
    <3>4. 1 \in 1..Len(frames)
      BY <2>1, <3>3
    <3>5. frames[1] <= dec.demuxPos
      BY <3>4 DEF IInv, Queued
    <3>6. frames[1] \in Nat
      <4>1. \A S : frames \in Seq(S) => \A j \in 1..Len(frames) : frames[j] \in S
        OBVIOUS
      <4>2. frames[1] \in 0..(VideoEnd - 1)
        BY <2>1, <3>4, <4>1, Zenon
      <4> QED BY <4>2, Bounds
    <3>7. frames[1] <= Position
      BY <2>5, <2>6, <3>2, <3>5, <3>6
    <3>8. \A j \in 1..1 : frames[j] <= Position
      BY <3>7
    <3> QED BY <2>2, <3>4, <3>8 DEF Displayable
  <2>8. CASE TrailingSilence = 0
    <3>1. RefillBelow \in Nat /\ RefillBelow > 0 /\ SilenceChunk \in Nat /\ SilenceChunk > 0
      BY PlayerAssumption
    <3>2. Smaller(Larger(MediaEnd - dec.audioFill, 0), SilenceChunk) = 0
      BY <2>2, <2>3, <2>8, <3>1 DEF TrailingSilence
    <3>3. MediaEnd = Duration
      BY <2>5 DEF MediaEnd, Larger
    <3>4. Duration <= dec.audioFill
      BY <2>5, <3>1, <3>2, <3>3 DEF Smaller, Larger
    <3>5. Position >= Duration /\ ui.range[2] \in Nat
      BY <2>5, <2>6, <3>4, Now, Bounds
    <3>6. Position >= Smaller(ui.range[2], Duration)
      BY <2>5, <2>6, <3>5 DEF Smaller
    <3> QED BY <2>2, <3>6 DEF AtOut
  <2> QED BY <2>4, <2>7, <2>8
<1> QED BY <1>1, Invariance, PTL
=============================================================================
