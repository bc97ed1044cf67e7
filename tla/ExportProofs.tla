---------------------------- MODULE ExportProofs ----------------------------
(***************************************************************************)
(* What TLAPS proves of an export, for every set of jobs: what the caller  *)
(* is told is what the folder holds, and what a success holds is sound and *)
(* picture of one length in a container that takes them.                   *)
(***************************************************************************)
EXTENDS ExportRun, WellFoundedInduction, TLAPS

\* The stages in which ffmpeg is looked after, and those before it is started.
Watching == {"progress", "grace", "wait"}
Preparing == {"probe", "folder", "build", "spawn"}

Plans == {Refused("none"), Build(TRUE), Build(FALSE)}

Typed ==
    /\ job \in Jobs
    /\ run \in [stage : Stages, hw : BOOLEAN, killed : BOOLEAN, plan : Plans]
    /\ ffmpeg \in [state : {"none", "starting", "writing", "ended"},
                   status : {"none", "ok", "encoder", "other", "killed"},
                   pipes : SUBSET Pipes]
    /\ file \in {"absent", "earlier", "partial", "complete"}

\* Nothing is told before the end, and a failure is never told as a success.
Told ==
    /\ run.stage \notin {"remove", "done"} => result = "none"
    /\ run.stage = "remove" => result \notin {"ok", "none", "probe", "folder"}

\* ffmpeg lives only while it is looked after, or when the operating system
\* would not say whether it ended.
LookedAfter ==
    /\ Alive => run.stage \in Watching \/ result = "waitpid"
    /\ run.stage \in {"probe", "folder"} \/ result \in {"probe", "folder"} => ffmpeg = NoChild

\* What is in the file, by how far ffmpeg is; it stays unless somebody deletes it.
Written ==
    /\ ffmpeg.state = "none" => file \in {"absent", "earlier"}
    /\ ffmpeg.state = "writing" => file \in {"absent", "partial"}
    /\ ffmpeg.status = "ok" =>
          ffmpeg.state = "ended" /\ file \in {"absent", "complete"} /\ Muxable(run.plan)

\* A plan that is run is one that was made.
PlanMade ==
    /\ run.stage \in {"spawn", "join", "stat"} \cup Watching => run.plan.ok
    /\ Alive \/ ffmpeg.status = "ok" => run.plan.ok
    /\ run.stage = "stat" => ffmpeg.status = "ok"
    /\ run.stage \in Preparing => ~Alive /\ ffmpeg.status # "ok"

\* What the end of an export found.
Delivered ==
    /\ run.stage = "done" /\ result = "ok" => file = "complete" /\ ffmpeg.status = "ok"
    /\ run.stage = "done" /\ result \notin {"ok", "probe", "folder", "waitpid"} => file = "absent"

IInv == Typed /\ Told /\ LookedAfter /\ Written /\ PlanMade /\ Delivered

-----------------------------------------------------------------------------

\* What the planner refuses with; a plan it makes is one.
LEMMA RefusedWhy ==
  ASSUME NEW hw \in BOOLEAN
  PROVE  /\ Build(hw).ok \in BOOLEAN
         /\ ~Build(hw).ok => Build(hw).why \in {"trim", "zero", "no audio", "io"}
<1> USE DEF Refused, Planned
<1>1. ASSUME NEW profile, NEW src, NEW trim
      PROVE  LET plan == BuildPlan(profile, src, trim, hw) IN
             /\ plan.ok \in BOOLEAN
             /\ ~plan.ok => plan.why \in {"trim", "zero", "no audio", "io"}
  <2> DEFINE plan == BuildPlan(profile, src, trim, hw)
  <2>1. plan.ok = TRUE \/ (plan.ok = FALSE /\ plan.why \in {"trim", "zero", "no audio", "io"})
    BY Zenon DEF BuildPlan
  <2> QED BY <2>1
<1>2. ASSUME NEW profile, NEW src, NEW windows
      PROVE  LET plan == BuildSegmentsPlan(profile, src, windows, hw) IN
             /\ plan.ok \in BOOLEAN
             /\ ~plan.ok => plan.why \in {"trim", "zero", "no audio", "io"}
  <2> DEFINE plan == BuildSegmentsPlan(profile, src, windows, hw)
  <2>1. plan.ok = TRUE \/ (plan.ok = FALSE /\ plan.why \in {"trim", "zero", "no audio", "io"})
    BY Zenon DEF BuildSegmentsPlan
  <2> QED BY <2>1
<1> QED BY <1>1, <1>2 DEF Build

RunRecord == [stage : Stages, hw : BOOLEAN, killed : BOOLEAN, plan : Plans]

\* The runner goes on to a stage, and nothing else of it changes.
GoesOn(stage) ==
    /\ run' \in RunRecord
    /\ run'.stage = stage /\ run'.hw = run.hw /\ run'.killed = run.killed /\ run'.plan = run.plan

LEMMA Going ==
  ASSUME run \in RunRecord
  PROVE  \A stage \in Stages : Goto(stage) => GoesOn(stage)
<1> QED BY DEF Goto, RunRecord, GoesOn

\* How ffmpeg ends.
LEMMA Ending ==
  ASSUME Typed, NEW status \in {"ok", "encoder", "other", "killed"}, Ends(status)
  PROVE  /\ ffmpeg'.state = "ended" /\ ffmpeg'.status = status
         /\ ffmpeg' \in [state : {"none", "starting", "writing", "ended"},
                         status : {"none", "ok", "encoder", "other", "killed"},
                         pipes : SUBSET Pipes]
<1> QED BY DEF Ends, Typed

LEMMA ExportInit == Init => IInv
<1> SUFFICES ASSUME Init PROVE IInv
  OBVIOUS
<1>1. run.stage = "probe" /\ ffmpeg = NoChild /\ result = "none" /\ file \in {"absent", "earlier"}
  BY DEF Init
<1>2. Typed
  BY DEF Init, Typed, Stages, Plans, NoChild, Pipes
<1>3. ffmpeg.state = "none" /\ ffmpeg.status = "none" /\ ~Alive
  BY <1>1 DEF NoChild, Alive
<1>4. Told /\ LookedAfter /\ Written /\ PlanMade /\ Delivered
  BY <1>1, <1>3 DEF Told, LookedAfter, Written, PlanMade, Delivered, Watching, Preparing
<1> QED BY <1>2, <1>4 DEF IInv

LEMMA RunnerStep ==
  ASSUME IInv, Runner
  PROVE  IInv'
<1> USE DEF At, Return, Fail, Alive, Watching, Preparing, Unasked
<1>1. Typed /\ Told /\ LookedAfter /\ Written /\ PlanMade /\ Delivered
  BY DEF IInv
<1>2. job' = job /\ Plans' = Plans
  <2>1. job' = job
    BY DEF Runner, Probe, MakeFolder, Plan, Spawn, Kill, Receive, Disconnected, NoticeExit,
       GraceOver, Reap, WaitFails, Join, Stat, Remove
  <2> QED BY <2>1 DEF Plans, Build
<1>3. run \in RunRecord
  BY <1>1 DEF Typed, RunRecord
<1>4. ASSUME run' \in RunRecord, ffmpeg' = ffmpeg, file' = file PROVE Typed'
  BY <1>1, <1>2, <1>4 DEF Typed, RunRecord
<1> DEFINE Rest == Told /\ LookedAfter /\ Written /\ PlanMade /\ Delivered
<1>5. SUFFICES Typed' /\ Rest'
  BY DEF IInv
<1> USE DEF Told, LookedAfter, Written, PlanMade, Delivered
<1>6. CASE Probe
  <2>1. \/ GoesOn("folder") /\ result' = result
        \/ GoesOn("done") /\ result' = "probe"
    BY <1>3, <1>6, Going DEF Probe, Stages
  <2>2. Typed'
    BY <1>4, <1>6, <2>1 DEF Probe, GoesOn
  <2>3. Rest'
    BY <1>1, <1>3, <1>6, <2>1 DEF Probe, GoesOn
  <2> QED BY <2>2, <2>3
<1>7. CASE MakeFolder
  <2>1. \/ GoesOn("build") /\ result' = result
        \/ GoesOn("done") /\ result' = "folder"
    BY <1>3, <1>7, Going DEF MakeFolder, Stages
  <2>2. Typed'
    BY <1>4, <1>7, <2>1 DEF MakeFolder, GoesOn
  <2>3. Rest'
    BY <1>1, <1>3, <1>7, <2>1 DEF MakeFolder, GoesOn
  <2> QED BY <2>2, <2>3
<1>8. CASE Plan
  <2> DEFINE plan == Build(run.hw)
  <2>1. /\ run.hw \in BOOLEAN /\ plan \in Plans /\ plan.ok \in BOOLEAN
        /\ ~plan.ok => plan.why \in {"trim", "zero", "no audio", "io"}
    <3>1. run.hw = TRUE \/ run.hw = FALSE
      BY <1>3 DEF RunRecord
    <3> QED BY <3>1, RefusedWhy, Zenon DEF Plans
  <2>2. \/ /\ plan.ok
           /\ run' = [run EXCEPT !.plan = plan, !.stage = "spawn"] /\ result' = result
        \/ ~plan.ok /\ GoesOn("remove") /\ result' = plan.why
    BY <1>3, <1>8, Going DEF Plan, Stages
  <2> HIDE DEF plan
  <2>3. CASE plan.ok /\ run' = [run EXCEPT !.plan = plan, !.stage = "spawn"] /\ result' = result
    <3>1. run' \in RunRecord /\ run'.stage = "spawn" /\ run'.plan = plan
      BY <1>3, <2>1, <2>3 DEF RunRecord, Stages
    <3>2. Typed'
      BY <1>4, <1>8, <3>1 DEF Plan
    <3>3. Rest'
      BY <1>1, <1>3, <1>8, <2>3, <3>1 DEF Plan
    <3> QED BY <3>2, <3>3
  <2>4. CASE ~plan.ok /\ GoesOn("remove") /\ result' = plan.why
    <3>1. Typed'
      BY <1>4, <1>8, <2>4 DEF Plan, GoesOn
    <3>2. Rest'
      BY <1>1, <1>3, <1>8, <2>1, <2>4 DEF Plan, GoesOn
    <3> QED BY <3>1, <3>2
  <2> QED BY <2>2, <2>3, <2>4
<1>9. CASE Spawn
  <2>1. \/ /\ ffmpeg' = [state |-> "starting", status |-> "none", pipes |-> Pipes]
           /\ run' = [run EXCEPT !.stage = "progress", !.killed = FALSE] /\ result' = result
        \/ GoesOn("remove") /\ result' = "spawn" /\ ffmpeg' = ffmpeg
    BY <1>3, <1>9, Going DEF Spawn, Stages
  <2>2. CASE /\ ffmpeg' = [state |-> "starting", status |-> "none", pipes |-> Pipes]
             /\ run' = [run EXCEPT !.stage = "progress", !.killed = FALSE] /\ result' = result
    <3>1. run' \in RunRecord /\ run'.stage = "progress" /\ run'.plan = run.plan
      BY <1>3, <2>2 DEF RunRecord, Stages
    <3>2. Typed'
      BY <1>1, <1>2, <1>9, <2>2, <3>1 DEF Spawn, Typed, RunRecord
    <3>3. Rest'
      BY <1>1, <1>3, <1>9, <2>2, <3>1 DEF Spawn, NoChild
    <3> QED BY <3>2, <3>3
  <2>3. CASE GoesOn("remove") /\ result' = "spawn" /\ ffmpeg' = ffmpeg
    <3>1. Typed'
      BY <1>4, <1>9, <2>3 DEF Spawn, GoesOn
    <3>2. Rest'
      BY <1>1, <1>3, <1>9, <2>3 DEF Spawn, GoesOn
    <3> QED BY <3>1, <3>2
  <2> QED BY <2>1, <2>2, <2>3
<1>10. CASE Kill
  <2>1. run' \in RunRecord /\ run'.stage = run.stage /\ run'.plan = run.plan
    BY <1>3, <1>10 DEF Kill, RunRecord
  <2>2. \/ ffmpeg' = ffmpeg
        \/ /\ ffmpeg'.state = "ended" /\ ffmpeg'.status = "killed"
           /\ ffmpeg' \in [state : {"none", "starting", "writing", "ended"},
                           status : {"none", "ok", "encoder", "other", "killed"},
                           pipes : SUBSET Pipes]
    BY <1>1, <1>10, Ending DEF Kill
  <2>3. Typed'
    BY <1>1, <1>2, <1>10, <2>1, <2>2 DEF Kill, Typed, RunRecord
  <2>4. Rest'
    BY <1>1, <1>3, <1>10, <2>1, <2>2 DEF Kill, NoChild
  <2> QED BY <2>3, <2>4
<1>11. CASE Receive
  <2>1. Typed'
    BY <1>3, <1>4, <1>11 DEF Receive
  <2>2. Rest'
    BY <1>1, <1>11 DEF Receive
  <2> QED BY <2>1, <2>2
<1>12. CASE Disconnected
  <2>1. GoesOn("wait")
    BY <1>3, <1>12, Going DEF Disconnected, Stages
  <2>2. Typed'
    BY <1>4, <1>12, <2>1 DEF Disconnected, GoesOn
  <2>3. Rest'
    BY <1>1, <1>3, <1>12, <2>1 DEF Disconnected, GoesOn
  <2> QED BY <2>2, <2>3
<1>13. CASE NoticeExit
  <2>1. GoesOn("grace")
    BY <1>3, <1>13, Going DEF NoticeExit, Stages
  <2>2. Typed'
    BY <1>4, <1>13, <2>1 DEF NoticeExit, GoesOn
  <2>3. Rest'
    BY <1>1, <1>3, <1>13, <2>1 DEF NoticeExit, GoesOn
  <2> QED BY <2>2, <2>3
<1>14. CASE GraceOver
  <2>1. GoesOn("wait")
    BY <1>3, <1>14, Going DEF GraceOver, Stages
  <2>2. Typed'
    BY <1>4, <1>14, <2>1 DEF GraceOver, GoesOn
  <2>3. Rest'
    BY <1>1, <1>3, <1>14, <2>1 DEF GraceOver, GoesOn
  <2> QED BY <2>2, <2>3
<1>15. CASE Reap
  <2>1. \/ GoesOn("remove") /\ result' = "cancelled"
        \/ GoesOn("join") /\ result' = result
    BY <1>3, <1>15, Going DEF Reap, Stages
  <2>2. Typed'
    BY <1>4, <1>15, <2>1 DEF Reap, GoesOn
  <2>3. Rest'
    BY <1>1, <1>3, <1>15, <2>1 DEF Reap, GoesOn
  <2> QED BY <2>2, <2>3
<1>16. CASE WaitFails
  <2>1. GoesOn("remove") /\ result' = "waitpid"
    BY <1>3, <1>16, Going DEF WaitFails, Stages
  <2>2. Typed'
    BY <1>4, <1>16, <2>1 DEF WaitFails, GoesOn
  <2>3. Rest'
    BY <1>1, <1>3, <1>16, <2>1 DEF WaitFails, GoesOn
  <2> QED BY <2>2, <2>3
<1>17. CASE Join
  <2>1. \/ GoesOn("stat") /\ result' = result /\ ffmpeg.status = "ok"
        \/ /\ run' = [run EXCEPT !.stage = "build", !.hw = FALSE] /\ result' = result
           /\ ffmpeg.status = "encoder"
        \/ GoesOn("remove") /\ result' = "ffmpeg" /\ ffmpeg.status # "ok"
    BY <1>3, <1>17, Going DEF Join, Stages
  <2>2. CASE \/ GoesOn("stat") /\ result' = result /\ ffmpeg.status = "ok"
             \/ GoesOn("remove") /\ result' = "ffmpeg" /\ ffmpeg.status # "ok"
    <3>1. Typed'
      BY <1>4, <1>17, <2>2 DEF Join, GoesOn
    <3>2. Rest'
      BY <1>1, <1>3, <1>17, <2>2 DEF Join, GoesOn
    <3> QED BY <3>1, <3>2
  <2>3. CASE /\ run' = [run EXCEPT !.stage = "build", !.hw = FALSE] /\ result' = result
             /\ ffmpeg.status = "encoder"
    <3>1. run' \in RunRecord /\ run'.stage = "build" /\ run'.plan = run.plan
      BY <1>3, <2>3 DEF RunRecord, Stages
    <3>2. Typed'
      BY <1>4, <1>17, <3>1 DEF Join
    <3>3. Rest'
      BY <1>1, <1>3, <1>17, <2>3, <3>1 DEF Join
    <3> QED BY <3>2, <3>3
  <2> QED BY <2>1, <2>2, <2>3
<1>18. CASE Stat
  <2>1. \/ GoesOn("remove") /\ result' = "missing" /\ file = "absent"
        \/ GoesOn("done") /\ result' = "ok" /\ file # "absent"
    BY <1>3, <1>18, Going DEF Stat, Stages
  <2>2. Typed'
    BY <1>4, <1>18, <2>1 DEF Stat, GoesOn
  <2>3. Rest'
    BY <1>1, <1>3, <1>18, <2>1 DEF Stat, GoesOn
  <2> QED BY <2>2, <2>3
<1>19. CASE Remove
  <2>1. GoesOn("done")
    BY <1>3, <1>19, Going DEF Remove, Stages
  <2>2. Typed'
    BY <1>1, <1>2, <1>19, <2>1 DEF Remove, GoesOn, Typed, RunRecord
  <2>3. Rest'
    BY <1>1, <1>3, <1>19, <2>1 DEF Remove, GoesOn
  <2> QED BY <2>2, <2>3
<1> QED
  BY <1>6, <1>7, <1>8, <1>9, <1>10, <1>11, <1>12, <1>13, <1>14, <1>15, <1>16, <1>17, <1>18, <1>19 DEF Runner

LEMMA OthersStep ==
  ASSUME IInv, Process \/ Cancel \/ DeleteOutput \/ UNCHANGED vars
  PROVE  IInv'
<1> USE DEF At, Alive, Watching, Preparing
<1>1. Typed /\ Told /\ LookedAfter /\ Written /\ PlanMade /\ Delivered
  BY DEF IInv
<1>2. job' = job /\ run' = run /\ result' = result /\ Plans' = Plans
  <2>1. job' = job /\ run' = run /\ result' = result
    BY DEF Process, Opens, Prints, StopsPrinting, Completes, Breaks, OrphanEnds, Cancel,
       DeleteOutput, vars
  <2> QED BY <2>1 DEF Plans, Build
<1> DEFINE Child == [state : {"none", "starting", "writing", "ended"},
                     status : {"none", "ok", "encoder", "other", "killed"},
                     pipes : SUBSET Pipes]
<1>3. ASSUME ffmpeg' \in Child, file' \in {file, "absent", "partial", "complete"} PROVE Typed'
  BY <1>1, <1>2, <1>3 DEF Typed
<1>4. ffmpeg \in Child
  BY <1>1 DEF Typed
<1> HIDE DEF Child
<1> DEFINE Rest == Told /\ LookedAfter /\ Written /\ PlanMade /\ Delivered
<1>5. SUFFICES Typed' /\ Rest'
  BY DEF IInv
<1> USE DEF Told, LookedAfter, Written, PlanMade, Delivered
<1>6. CASE Opens
  <2>1. ffmpeg' \in Child /\ ffmpeg'.state = "writing" /\ ffmpeg'.status = ffmpeg.status
    BY <1>4, <1>6 DEF Opens, Child
  <2>2. Typed'
    BY <1>3, <1>6, <2>1 DEF Opens
  <2>3. Rest'
    BY <1>1, <1>2, <1>6, <2>1 DEF Opens, NoChild
  <2> QED BY <2>2, <2>3
<1>7. CASE Prints \/ Cancel \/ UNCHANGED vars
  <2>1. ffmpeg' = ffmpeg /\ file' = file
    BY <1>7 DEF Prints, Cancel, vars
  <2>2. Typed'
    BY <1>3, <1>4, <2>1
  <2>3. Rest'
    BY <1>1, <1>2, <2>1
  <2> QED BY <2>2, <2>3
<1>8. CASE StopsPrinting \/ OrphanEnds
  <2>1. /\ ffmpeg' \in Child /\ ffmpeg'.state = ffmpeg.state /\ ffmpeg'.status = ffmpeg.status
        /\ ffmpeg.state # "none" /\ file' = file
    BY <1>4, <1>8 DEF StopsPrinting, OrphanEnds, Child
  <2>2. Typed'
    BY <1>3, <2>1
  <2>3. Rest'
    BY <1>1, <1>2, <2>1 DEF NoChild
  <2> QED BY <2>2, <2>3
<1>9. CASE Completes
  <2>1. ffmpeg' \in Child /\ ffmpeg'.state = "ended" /\ ffmpeg'.status = "ok"
    BY <1>1, <1>9, Ending DEF Completes, Child
  <2>2. Typed'
    BY <1>3, <1>9, <2>1 DEF Completes
  <2>3. Rest'
    BY <1>1, <1>2, <1>9, <2>1 DEF Completes, NoChild
  <2> QED BY <2>2, <2>3
<1>10. CASE Breaks
  <2>1. ffmpeg' \in Child /\ ffmpeg'.state = "ended" /\ ffmpeg'.status \in {"other", "encoder"}
    BY <1>1, <1>10, Ending DEF Breaks, Child
  <2>2. Typed'
    BY <1>3, <1>10, <2>1 DEF Breaks
  <2>3. Rest'
    BY <1>1, <1>2, <1>10, <2>1 DEF Breaks, NoChild
  <2> QED BY <2>2, <2>3
<1>11. CASE DeleteOutput
  <2>1. Typed'
    BY <1>3, <1>4, <1>11 DEF DeleteOutput
  <2>2. Rest'
    BY <1>1, <1>2, <1>11 DEF DeleteOutput
  <2> QED BY <2>1, <2>2
<1> QED BY <1>6, <1>7, <1>8, <1>9, <1>10, <1>11 DEF Process

LEMMA ExportInvariance == Spec => []IInv
<1>1. IInv /\ [Next]_vars => IInv'
  BY RunnerStep, OthersStep DEF Next, Returned
<1> QED BY ExportInit, <1>1, PTL DEF Spec

-----------------------------------------------------------------------------
(* How long windows last.                                                    *)

Windows == Seq([start : Int, end : Int])

(***************************************************************************)
(* What holds of 0 and steps up holds of every number of a range.          *)
(***************************************************************************)
LEMMA Climb ==
  ASSUME NEW n \in Nat, NEW S, 0 \in S, \A i \in 1..n : i - 1 \in S => i \in S
  PROVE  \A i \in 0..n : i \in S
<1> DEFINE T == {i \in 0..n : i \notin S}
<1>1. SUFFICES ASSUME T # {} PROVE FALSE
  OBVIOUS
<1>2. PICK m \in T : \A k \in T : m <= k
  <2> DEFINE R == {p \in Nat \X Nat : p[1] < p[2]}
  <2>1. IsWellFoundedOn(R, Nat)
    BY NatLessThanWellFounded DEF OpToRel
  <2>2. T \subseteq Nat
    OBVIOUS
  <2> HIDE DEF T
  <2>3. PICK m \in T : \A k \in T : ~(<<k, m>> \in R)
    <3> HIDE DEF R
    <3> QED BY <1>1, <2>1, <2>2, WFMin
  <2>4. \A k \in T : ~(k < m)
    BY <2>2, <2>3
  <2> QED BY <2>2, <2>4
<1>3. m \in 1..n /\ m - 1 \in 0..n /\ m - 1 \notin T
  BY <1>2
<1> QED BY <1>2, <1>3

\* What a sequence of a set holds.
LEMMA MembersOf ==
  ASSUME NEW S, NEW s \in Seq(S)
  PROVE  Len(s) \in Nat /\ \A i \in 1..Len(s) : s[i] \in S
OBVIOUS

\* No window has a negative length.
LEMMA LengthIs ==
  ASSUME NEW s \in Windows, NEW i \in 1..Len(s)
  PROVE  Length(s[i]) \in Nat
<1>1. s[i] \in [start : Int, end : Int]
  BY MembersOf, Zenon DEF Windows
<1>2. s[i].start \in Int /\ s[i].end \in Int
  BY <1>1
<1> QED BY <1>2 DEF Length

\* sums[i] is how long the first i windows last; there are such sums, and the
\* last of them is what the planner adds up.
Adds(sums, s) ==
    sums = [i \in 0..Len(s) |-> IF i = 0 THEN 0 ELSE sums[i - 1] + Length(s[i])]

LEMMA SumsExist ==
  ASSUME NEW s \in Windows
  PROVE  \E sums : Adds(sums, s)
<1> DEFINE n == Len(s)
           Upto(g, m) == g = [i \in 0..m |-> IF i = 0 THEN 0 ELSE g[i - 1] + Length(s[i])]
           T == {m \in 0..n : \E g : Upto(g, m)}
<1>1. n \in Nat
  BY DEF Windows
<1>2. 0 \in T
  <2>1. Upto([i \in 0..0 |-> 0], 0)
    OBVIOUS
  <2> HIDE DEF Upto
  <2> QED BY <1>1, <2>1
<1>3. ASSUME NEW m \in 1..n, m - 1 \in T PROVE m \in T
  <2>1. PICK g : Upto(g, m - 1)
    BY <1>3
  <2> DEFINE h == [i \in 0..m |-> IF i < m THEN g[i] ELSE g[m - 1] + Length(s[m])]
  <2>2. ASSUME NEW i \in 0..m
        PROVE  h[i] = IF i = 0 THEN 0 ELSE h[i - 1] + Length(s[i])
    <3>1. CASE i = 0
      BY <2>1, <3>1
    <3>2. CASE i \in 1..(m - 1)
      <4>1. g[i] = g[i - 1] + Length(s[i])
        BY <2>1, <3>2
      <4> QED BY <3>2, <4>1
    <3>3. CASE i = m
      BY <3>3
    <3> QED BY <3>1, <3>2, <3>3
  <2>3. h = [i \in 0..m |-> h[i]]
    OBVIOUS
  <2> HIDE DEF h
  <2>4. Upto(h, m)
    BY <2>2, <2>3
  <2> HIDE DEF Upto
  <2> QED BY <2>4
<1>4. n \in T
  <2>1. n \in 0..n
    BY <1>1
  <2> HIDE DEF T, n
  <2> QED BY <1>1, <1>2, <1>3, <2>1, Climb
<1> QED BY <1>4 DEF Adds

LEMMA LastingIs ==
  ASSUME NEW s \in Windows
  PROVE  \E sums : /\ sums[0] = 0
                   /\ \A i \in 1..Len(s) : sums[i] = sums[i - 1] + Length(s[i])
                   /\ Lasting(s) = sums[Len(s)]
<1> DEFINE f == CHOOSE sums : Adds(sums, s)
<1>1. Adds(f, s)
  BY SumsExist
<1>2. Lasting(s) = f[Len(s)]
  BY Zenon DEF Lasting, Adds
<1>3. Len(s) \in Nat
  BY DEF Windows
<1> HIDE DEF f
<1>4. f[0] = 0 /\ \A i \in 1..Len(s) : f[i] = f[i - 1] + Length(s[i])
  BY <1>1, <1>3 DEF Adds
<1> QED BY <1>2, <1>4

(***************************************************************************)
(* Windows that are each no longer last no longer together.                *)
(***************************************************************************)
LEMMA LastingLess ==
  ASSUME NEW r \in Windows, NEW s \in Windows, Len(r) = Len(s),
         \A i \in 1..Len(s) : Length(r[i]) <= Length(s[i])
  PROVE  Lasting(r) \in Nat /\ Lasting(s) \in Nat /\ Lasting(r) <= Lasting(s)
<1>1. PICK f : /\ f[0] = 0
               /\ \A i \in 1..Len(r) : f[i] = f[i - 1] + Length(r[i])
               /\ Lasting(r) = f[Len(r)]
  BY LastingIs
<1>2. PICK g : /\ g[0] = 0
               /\ \A i \in 1..Len(s) : g[i] = g[i - 1] + Length(s[i])
               /\ Lasting(s) = g[Len(s)]
  BY LastingIs
<1> DEFINE n == Len(s)
           T == {i \in 0..n : f[i] \in Nat /\ g[i] \in Nat /\ f[i] <= g[i]}
<1>3. n \in Nat
  BY DEF Windows
<1>4. 0 \in T
  BY <1>1, <1>2, <1>3
<1>5. ASSUME NEW i \in 1..n, i - 1 \in T PROVE i \in T
  <2>1. Length(r[i]) \in Nat /\ Length(s[i]) \in Nat /\ Length(r[i]) <= Length(s[i])
    BY LengthIs
  <2>2. f[i] = f[i - 1] + Length(r[i]) /\ g[i] = g[i - 1] + Length(s[i])
    BY <1>1, <1>2
  <2> QED BY <1>5, <2>1, <2>2
<1>6. n \in T
  <2>1. n \in 0..n
    BY <1>3
  <2> HIDE DEF T, n
  <2> QED BY <1>3, <1>4, <1>5, <2>1, Climb
<1> QED BY <1>1, <1>2, <1>6

\* What the source has of the windows is no longer than they are.
LEMMA WithinLess ==
  ASSUME NEW s \in Windows, NEW src, src.secs \in Int
  PROVE  /\ Lasting(Within(s, src)) \in Nat /\ Lasting(s) \in Nat
         /\ Lasting(Within(s, src)) <= Lasting(s)
<1> DEFINE r == Within(s, src)
<1>1. r = [i \in 1..Len(s) |->
              [start |-> s[i].start, end |-> IF s[i].end > src.secs THEN src.secs ELSE s[i].end]]
  BY DEF Within, Windows
<1>2. Len(s) \in Nat /\ \A i \in 1..Len(s) : s[i].start \in Int /\ s[i].end \in Int
  <2>1. Len(s) \in Nat /\ \A i \in 1..Len(s) : s[i] \in [start : Int, end : Int]
    BY MembersOf, Zenon DEF Windows
  <2>2. \A t \in [start : Int, end : Int] : t.start \in Int /\ t.end \in Int
    OBVIOUS
  <2> QED BY <2>1, <2>2
<1> HIDE DEF r
<1>3. r \in Windows /\ Len(r) = Len(s)
  BY <1>1, <1>2 DEF Windows
<1>4. ASSUME NEW i \in 1..Len(s) PROVE Length(r[i]) <= Length(s[i])
  <2>1. /\ r[i].start = s[i].start
        /\ r[i].end = IF s[i].end > src.secs THEN src.secs ELSE s[i].end
    BY <1>1
  <2> QED BY <1>2, <2>1 DEF Length
<1> QED BY <1>3, <1>4, LastingLess DEF r

-----------------------------------------------------------------------------
(* Rates.                                                                    *)

\* Down to half speed sound lasts as long as the picture, below it less.
LEMMA AtSpeedIs ==
  ASSUME NEW a \in Nat, NEW speed \in 1..8
  PROVE  /\ AtSpeed(a, speed) \in Nat
         /\ speed >= 4 => AtSpeed(a, speed) <= a
         /\ AtSpeed(a, Tempo(speed)) \in Nat
         /\ AtSpeed(a, Tempo(speed)) <= AtSpeed(a, speed)
<1>1. speed = 1 \/ speed = 2 \/ speed = 3 \/ speed = 4
      \/ speed = 5 \/ speed = 6 \/ speed = 7 \/ speed = 8
  OBVIOUS
<1> QED BY <1>1 DEF AtSpeed, Tempo

\* What is shorter is shorter at any speed.
LEMMA AtSpeedLess ==
  ASSUME NEW a \in Nat, NEW b \in Nat, a <= b, NEW speed \in 1..8
  PROVE  AtSpeed(a, speed) <= AtSpeed(b, speed)
<1>1. speed = 1 \/ speed = 2 \/ speed = 3 \/ speed = 4
      \/ speed = 5 \/ speed = 6 \/ speed = 7 \/ speed = 8
  OBVIOUS
<1> QED BY <1>1 DEF AtSpeed

\* Secs times a share of x is no more than x.
LEMMA Share ==
  ASSUME NEW x \in Int, NEW secs \in Nat, secs > 0
  PROVE  x \div secs \in Int /\ secs * (x \div secs) <= x
OBVIOUS

\* A product grows with its factors.
LEMMA Times ==
  ASSUME NEW a \in Nat, NEW b \in Nat, NEW c \in Nat, a <= b
  PROVE  a * c \in Nat /\ b * c \in Nat /\ a * c <= b * c
OBVIOUS

-----------------------------------------------------------------------------
(* The theorems.                                                           *)

(***************************************************************************)
(* run.rs execute, run_ffmpeg: whatever ffmpeg, a grandchild, the user and *)
(* the library do, a success leaves a whole file that no one writes any    *)
(* more, and a failure leaves none, or what was there before ffmpeg was    *)
(* ever planned.                                                           *)
(***************************************************************************)
THEOREM NothingEverBroken == Spec => []NothingBroken
<1>1. IInv => NothingBroken
  <2> SUFFICES ASSUME IInv, At("done"), result # "waitpid"
               PROVE  /\ ~Alive
                      /\ CASE result = "ok" -> file = "complete"
                           [] result \in {"probe", "folder"} -> file \in {"absent", "earlier"}
                           [] OTHER -> file = "absent"
    BY DEF NothingBroken
  <2>1. ~Alive
    BY DEF IInv, LookedAfter, Watching, At
  <2>2. result = "ok" => file = "complete"
    BY DEF IInv, Delivered, At
  <2>3. result \in {"probe", "folder"} => file \in {"absent", "earlier"}
    BY DEF IInv, LookedAfter, Written, NoChild
  <2>4. result \notin {"ok", "probe", "folder"} => file = "absent"
    BY DEF IInv, Delivered, At
  <2> QED BY <2>1, <2>2, <2>3, <2>4
<1> QED BY <1>1, ExportInvariance, PTL

\* A plan that is made has picture and sound at one speed, and no hardware that
\* the profile does not allow.
LEMMA SpeedsAgree ==
  ASSUME job \in Jobs, NEW hw \in BOOLEAN, Build(hw).ok
  PROVE  LET plan == Build(hw) IN
         /\ plan.sound.codec # "none" /\ plan.codec # "none" /\ plan.speed >= 2 =>
                 plan.sound.speed = plan.speed
         /\ plan.hw => job.profile.hardware
<1>1. job.profile.speed \in Nat
  <2>1. job.profile.speed \in 1..8
    BY JobsAssumption, Zenon
  <2> QED BY <2>1
<1>2. ASSUME NEW src, NEW trim, BuildPlan(job.profile, src, trim, hw).ok
      PROVE  LET plan == BuildPlan(job.profile, src, trim, hw) IN
         /\ plan.sound.codec # "none" /\ plan.codec # "none" /\ plan.speed >= 2 =>
                 plan.sound.speed = plan.speed
         /\ plan.hw => job.profile.hardware
  <2> DEFINE profile == job.profile
             plan == BuildPlan(profile, src, trim, hw)
  <2>1. \/ plan.sound.codec = "none"
        \/ plan.codec = "none"
        \/ plan.speed = 4 /\ plan.sound.speed = 4
        \/ plan.speed = profile.speed /\ plan.sound = AudioArgs(profile, src)
    BY <1>2, Zenon DEF BuildPlan, Planned, Refused, NoSound
  <2>2. AudioArgs(profile, src).codec # "none" /\ profile.speed >= 2 =>
            AudioArgs(profile, src).speed = profile.speed
    BY <1>1 DEF AudioArgs, NoSound, Filtered, Tempo
  <2>3. plan.hw => profile.hardware
    BY <1>2, Zenon DEF BuildPlan, Planned, Refused
  <2> HIDE DEF plan
  <2>4. plan.sound.codec # "none" /\ plan.codec # "none" /\ plan.speed >= 2 =>
            plan.sound.speed = plan.speed
    BY <2>1, <2>2
  <2> QED BY <2>3, <2>4, Zenon DEF plan
<1>3. ASSUME NEW src, NEW windows, BuildSegmentsPlan(job.profile, src, windows, hw).ok
      PROVE  LET plan == BuildSegmentsPlan(job.profile, src, windows, hw) IN
         /\ plan.sound.codec # "none" /\ plan.codec # "none" /\ plan.speed >= 2 =>
                 plan.sound.speed = plan.speed
         /\ plan.hw => job.profile.hardware
  <2> DEFINE profile == job.profile
             plan == BuildSegmentsPlan(profile, src, windows, hw)
  <2>1. /\ plan.speed = profile.speed
        /\ plan.sound.codec = "none" \/ plan.sound.speed = Tempo(profile.speed)
    BY <1>3, Zenon DEF BuildSegmentsPlan, Planned, Refused, NoSound
  <2>2. profile.speed >= 2 => Tempo(profile.speed) = profile.speed
    BY <1>1 DEF Tempo
  <2>3. plan.hw => profile.hardware
    BY <1>3, Zenon DEF BuildSegmentsPlan, Planned, Refused
  <2> HIDE DEF plan
  <2>4. plan.sound.codec # "none" /\ plan.codec # "none" /\ plan.speed >= 2 =>
            plan.sound.speed = plan.speed
    BY <2>1, <2>2
  <2> QED BY <2>3, <2>4, Zenon DEF plan
<1> QED BY <1>2, <1>3 DEF Build

(***************************************************************************)
(* A plan with a target and a bitrate above the floor: its bitrate is what *)
(* the sound, if there may be any, leaves of the budget, and it has no     *)
(* sound or encoded sound.                                                 *)
(***************************************************************************)
CapLeft(n, secs, spoken) == TargetKbps(n, secs, TRUE, spoken)

TargetPlan(plan, secs, spoken) ==
    /\ plan.windows \in Windows /\ plan.speed = job.profile.speed
    /\ secs \in Nat /\ spoken \in Nat
    /\ VideoSecs(plan, job.src) <= secs
    /\ plan.rate.cap = CapLeft(job.profile.rate.n, secs, spoken)
    /\ \/ plan.sound.codec = "none" /\ plan.sound.kbps = 0 /\ plan.sound.speed = 4
       \/ /\ spoken = job.profile.audio /\ plan.sound.codec \in {"aac", "opus"}
          /\ plan.sound.kbps = AudioKbps(job.profile)
          /\ plan.sound.speed = Tempo(job.profile.speed)

\* The cap the rate control makes of a target.
LEMMA ZeroTimes == \A k \in Nat : 0 * k = 0
OBVIOUS

LEMMA CapIs ==
  ASSUME NEW rate, rate.mode = "target", NEW n \in Nat, rate.n = n, NEW secs \in Nat,
         NEW sounds, NEW audio \in Nat,
         NEW spoken, spoken = IF sounds THEN audio ELSE 0
  PROVE  RateArgs(rate, secs, sounds, audio).cap = CapLeft(n, secs, spoken)
<1>1. RateArgs(rate, secs, sounds, audio).cap = TargetKbps(n, secs, sounds, audio)
  BY DEF RateArgs
<1>2. (IF sounds THEN audio * secs ELSE 0) = spoken * secs
  BY Zenon, ZeroTimes
<1> DEFINE left == BudgetOf(n) - spoken * secs
           share == IF secs <= 0 \/ left \div secs < Floor THEN Floor ELSE left \div secs
<1>3. TargetKbps(n, secs, sounds, audio) = share
  BY <1>2 DEF TargetKbps
<1>4. CapLeft(n, secs, spoken) = share
  BY DEF CapLeft, TargetKbps
<1> HIDE DEF share
<1> QED BY <1>1, <1>3, <1>4

\* What the planner makes of its inputs when it re-encodes: the windows, the
\* speed, the rate over their length, the sound.
Kept(src, trim) == IF trim = << >> THEN <<[start |-> 0, end |-> src.secs]>> ELSE trim

LEMMA WholePlan ==
  ASSUME NEW profile, NEW src, NEW trim, NEW hw, NEW plan,
         plan = BuildPlan(profile, src, trim, hw), plan.ok, plan.rate # Unrated
  PROVE  /\ plan.windows = Kept(src, trim)
         /\ plan.speed = profile.speed
         /\ plan.rate = RateArgs(profile.rate, AtSpeed(Lasting(Kept(src, trim)), profile.speed),
                                 src.audio # "none", profile.audio)
         /\ plan.sound = AudioArgs(profile, src)
<1>1. plan.windows = Kept(src, trim)
  BY Zenon DEF BuildPlan, Planned, Refused, Kept
<1>2. plan.speed = profile.speed
  BY Zenon DEF BuildPlan, Planned, Refused
<1>3. plan.rate = RateArgs(profile.rate, AtSpeed(Lasting(Kept(src, trim)), profile.speed),
                           src.audio # "none", profile.audio)
  BY Zenon DEF BuildPlan, Planned, Refused, Kept
<1>4. plan.sound = AudioArgs(profile, src)
  BY Zenon DEF BuildPlan, Planned, Refused
<1> QED BY <1>1, <1>2, <1>3, <1>4

LEMMA SegmentsPlan ==
  ASSUME NEW profile, NEW src, NEW windows, NEW hw, NEW plan,
         plan = BuildSegmentsPlan(profile, src, windows, hw), plan.ok
  PROVE  LET sounds == src.audio # "none" /\ ~profile.mute IN
         /\ plan.windows = windows
         /\ plan.speed = profile.speed
         /\ plan.rate = RateArgs(profile.rate, Lasting(windows), sounds, profile.audio)
         /\ plan.sound = IF ~sounds THEN NoSound
                         ELSE [codec |-> CodecFor(profile.container), kbps |-> AudioKbps(profile),
                               speed |-> Tempo(profile.speed)]
<1>1. plan.windows = windows /\ plan.speed = profile.speed
  BY Zenon DEF BuildSegmentsPlan, Planned, Refused
<1>2. LET sounds == src.audio # "none" /\ ~profile.mute IN
      plan.rate = RateArgs(profile.rate, Lasting(windows), sounds, profile.audio)
  BY Zenon DEF BuildSegmentsPlan, Planned, Refused
<1>3. LET sounds == src.audio # "none" /\ ~profile.mute IN
      plan.sound = IF ~sounds THEN NoSound
                   ELSE [codec |-> CodecFor(profile.container), kbps |-> AudioKbps(profile),
                         speed |-> Tempo(profile.speed)]
  BY Zenon DEF BuildSegmentsPlan, Planned, Refused
<1> QED BY <1>1, <1>2, <1>3

\* A whole clip, or one window of it, is planned over its length at the speed.
LEMMA WholeClip ==
  ASSUME job \in Jobs, NEW hw \in BOOLEAN, ~job.cut, Build(hw).ok,
         job.profile.rate.mode = "target", Build(hw).rate.cap > Floor
  PROVE  \E secs, spoken : TargetPlan(Build(hw), secs, spoken)
<1> DEFINE profile == job.profile
           windows == Kept(job.src, job.windows)
           plan == BuildPlan(profile, job.src, job.windows, hw)
           secs == AtSpeed(Lasting(windows), profile.speed)
           sounds == job.src.audio # "none"
           spoken == IF sounds THEN profile.audio ELSE 0
<1>1. Build(hw) = plan
  BY DEF Build
<1>2. /\ plan.windows = windows /\ plan.speed = profile.speed
      /\ plan.rate = RateArgs(profile.rate, secs, sounds, profile.audio)
      /\ plan.sound = AudioArgs(profile, job.src)
  <2>1. plan.ok /\ plan.rate.cap > Floor
    BY <1>1
  <2>2. plan.rate # Unrated
    <3> HIDE DEF plan
    <3> QED BY <2>1 DEF Unrated, Floor
  <2>3. plan = BuildPlan(profile, job.src, job.windows, hw)
    OBVIOUS
  <2> DEFINE p == plan
  <2>4. p = BuildPlan(profile, job.src, job.windows, hw) /\ p.ok /\ p.rate # Unrated
    BY <2>1, <2>2, <2>3
  <2> HIDE DEF p
  <2>5. /\ p.windows = windows /\ p.speed = profile.speed
        /\ p.rate = RateArgs(profile.rate, secs, sounds, profile.audio)
        /\ p.sound = AudioArgs(profile, job.src)
    BY <2>4, WholePlan
  <2> QED BY <2>5 DEF p
<1>3. windows \in Windows /\ profile.speed \in 1..8 /\ job.src.secs \in Int
  <2>1. job.windows \in Windows /\ profile.speed \in 1..8 /\ job.src.secs \in Nat
    BY JobsAssumption, Zenon DEF Windows
  <2>2. <<[start |-> 0, end |-> job.src.secs]>> \in Windows
    BY <2>1 DEF Windows
  <2> QED BY <2>1, <2>2 DEF Kept
<1> HIDE DEF windows, plan
<1>4. secs \in Nat /\ VideoSecs(plan, job.src) <= secs
  BY <1>2, <1>3, WithinLess, AtSpeedIs, AtSpeedLess DEF VideoSecs
<1>5. /\ RateArgs(profile.rate, secs, sounds, profile.audio).cap
             = CapLeft(profile.rate.n, secs, spoken)
      /\ spoken \in Nat
  <2>1. profile.rate.n \in Nat /\ profile.audio \in Nat
    BY JobsAssumption, Zenon
  <2> HIDE DEF secs, sounds
  <2>2. spoken = 0 \/ spoken = profile.audio
    OBVIOUS
  <2> QED BY <1>4, <2>1, <2>2, CapIs
<1>6. \/ plan.sound.codec = "none" /\ plan.sound.kbps = 0 /\ plan.sound.speed = 4
      \/ /\ spoken = profile.audio /\ plan.sound.codec \in {"aac", "opus"}
         /\ plan.sound.kbps = AudioKbps(profile)
         /\ plan.sound.speed = Tempo(profile.speed)
  BY <1>2 DEF AudioArgs, CodecFor, NoSound
<1>7. TargetPlan(plan, secs, spoken)
  BY <1>2, <1>3, <1>4, <1>5, <1>6 DEF TargetPlan
<1> QED BY <1>1, <1>7

\* Joined windows are planned over their length at 1x, which is no shorter
\* unless they are slowed down.
LEMMA JoinedWindows ==
  ASSUME job \in Jobs, NEW hw \in BOOLEAN, job.cut, Build(hw).ok,
         job.profile.rate.mode = "target", job.profile.speed >= 4
  PROVE  \E secs, spoken : TargetPlan(Build(hw), secs, spoken)
<1> DEFINE profile == job.profile
           plan == BuildSegmentsPlan(profile, job.src, job.windows, hw)
           secs == Lasting(job.windows)
           sounds == job.src.audio # "none" /\ ~profile.mute
           spoken == IF sounds THEN profile.audio ELSE 0
<1>1. Build(hw) = plan
  BY DEF Build
<1>2. /\ plan.windows = job.windows /\ plan.speed = profile.speed
      /\ plan.rate = RateArgs(profile.rate, secs, sounds, profile.audio)
      /\ plan.sound = IF ~sounds THEN NoSound
                      ELSE [codec |-> CodecFor(profile.container), kbps |-> AudioKbps(profile),
                            speed |-> Tempo(profile.speed)]
  <2>1. plan.ok
    BY <1>1
  <2>2. plan = BuildSegmentsPlan(profile, job.src, job.windows, hw)
    OBVIOUS
  <2> HIDE DEF plan
  <2> QED BY <2>1, <2>2, SegmentsPlan
<1>3. job.windows \in Windows /\ profile.speed \in 1..8 /\ job.src.secs \in Int
  <2>1. job.windows \in Windows /\ profile.speed \in 1..8 /\ job.src.secs \in Nat
    BY JobsAssumption, Zenon DEF Windows
  <2> QED BY <2>1
<1> HIDE DEF plan
<1>4. secs \in Nat /\ VideoSecs(plan, job.src) <= secs
  <2> DEFINE lasting == Lasting(Within(job.windows, job.src))
  <2>1. lasting \in Nat /\ secs \in Nat /\ lasting <= secs
    BY <1>3, WithinLess
  <2>2. VideoSecs(plan, job.src) = AtSpeed(lasting, profile.speed)
    BY <1>2, Zenon DEF VideoSecs
  <2> HIDE DEF lasting, secs
  <2>3. AtSpeed(lasting, profile.speed) \in Nat /\ AtSpeed(lasting, profile.speed) <= lasting
    BY <1>3, <2>1, AtSpeedIs
  <2> QED BY <2>1, <2>2, <2>3
<1>5. /\ RateArgs(profile.rate, secs, sounds, profile.audio).cap
             = CapLeft(profile.rate.n, secs, spoken)
      /\ spoken \in Nat
  <2>1. profile.rate.n \in Nat /\ profile.audio \in Nat
    BY JobsAssumption, Zenon
  <2> HIDE DEF secs, sounds
  <2>2. spoken = 0 \/ spoken = profile.audio
    OBVIOUS
  <2> QED BY <1>4, <2>1, <2>2, CapIs
<1>6. \/ plan.sound.codec = "none" /\ plan.sound.kbps = 0 /\ plan.sound.speed = 4
      \/ /\ spoken = profile.audio /\ plan.sound.codec \in {"aac", "opus"}
         /\ plan.sound.kbps = AudioKbps(profile)
         /\ plan.sound.speed = Tempo(profile.speed)
  BY <1>2 DEF CodecFor, NoSound
<1>7. TargetPlan(plan, secs, spoken)
  BY <1>2, <1>3, <1>4, <1>5, <1>6 DEF TargetPlan
<1> QED BY <1>1, <1>7

(***************************************************************************)
(* The cap times the length, with the sound beside it, is within the size. *)
(***************************************************************************)
Kbits(video, cap, sound, kbps) == video * cap + sound * kbps

LEMMA WithinSize ==
  ASSUME NEW n \in Nat, NEW secs \in Nat, NEW spoken \in Nat,
         NEW video \in Nat, video <= secs,
         NEW sound \in Nat, NEW kbps \in Nat,
         kbps = 0 \/ (sound <= video /\ (kbps <= spoken \/ kbps = 1)),
         NEW cap, cap = CapLeft(n, secs, spoken), cap > Floor
  PROVE  Kbits(video, cap, sound, kbps) <= KbitsOf(n)
<1> DEFINE e == spoken * secs
           left == BudgetOf(n) - e
<1>1. e \in Nat /\ left \in Int
  BY DEF BudgetOf
<1>2. cap = (IF secs <= 0 \/ left \div secs < 100 THEN 100 ELSE left \div secs) /\ cap > 100
  <2>1. cap = IF secs <= 0 \/ left \div secs < Floor THEN Floor ELSE left \div secs
    BY DEF CapLeft, TargetKbps
  <2> HIDE DEF left
  <2> QED BY <2>1 DEF Floor
<1> HIDE DEF left
<1>3. secs > 0 /\ cap = left \div secs
  BY <1>2
<1>4. cap \in Int /\ secs * cap <= left
  BY <1>1, <1>3, Share
<1>5. cap \in Nat /\ 101 <= cap
  BY <1>2, <1>4
<1> DEFINE a == video * cap
           b == secs * cap
           c == sound * kbps
           d == secs * kbps
<1>6. a \in Nat /\ b \in Nat /\ a <= b
  BY <1>5, Times
<1>7. secs * 101 <= b
  <2>1. 101 * secs <= cap * secs
    BY <1>5, Times
  <2>2. 101 * secs = secs * 101 /\ cap * secs = b
    BY <1>5
  <2> QED BY <2>1, <2>2
<1>8. d \in Nat /\ c \in Nat /\ c <= d
  <2>1. CASE kbps = 0
    BY <2>1
  <2>2. CASE kbps # 0
    <3>1. sound <= secs
      BY <2>2
    <3> QED BY <3>1, Times
  <2> QED BY <2>1, <2>2
<1>9. c = 0 \/ d <= e \/ d = secs
  <2>1. CASE kbps = 0
    BY <2>1
  <2>2. CASE kbps <= spoken
    <3>1. kbps * secs <= spoken * secs
      BY <2>2, Times
    <3>2. kbps * secs = d
      OBVIOUS
    <3> QED BY <3>1, <3>2
  <2>3. CASE kbps = 1
    BY <2>3
  <2> QED BY <2>1, <2>2, <2>3
<1>10. b <= 7717 * n - e
  BY <1>4 DEF left, BudgetOf
<1> HIDE DEF a, b, c, d, e
<1>11. a + c <= 8388 * n
  BY <1>1, <1>6, <1>7, <1>8, <1>9, <1>10
<1> QED BY <1>11 DEF a, c, Kbits, KbitsOf

\* A plan like that keeps to the size.
InSize(plan) ==
    /\ AtMostKbits(plan, job.src) <= KbitsOf(job.profile.rate.n)
    /\ plan.sound.codec # "copied opus"

LEMMA TargetKept ==
  ASSUME job \in Jobs, NEW plan, NEW secs, NEW spoken, TargetPlan(plan, secs, spoken),
         plan.rate.cap > Floor
  PROVE  InSize(plan)
<1> DEFINE lasting == Lasting(Within(plan.windows, job.src))
           speed == job.profile.speed
           n == job.profile.rate.n
           video == VideoSecs(plan, job.src)
           sound == SoundSecs(plan, job.src)
           kbps == plan.sound.kbps
           cap == plan.rate.cap
           size == Kbits(video, cap, sound, kbps)
<1>1. /\ n \in Nat /\ job.profile.audio \in Nat
      /\ speed \in 1..8 /\ job.src.secs \in Int
  <2>1. /\ n \in Nat /\ job.profile.audio \in Nat
        /\ speed \in 1..8 /\ job.src.secs \in Nat
    BY JobsAssumption, Zenon
  <2> QED BY <2>1
<1>2. lasting \in Nat
  BY <1>1, WithinLess DEF TargetPlan
<1>3. /\ video = AtSpeed(lasting, speed)
      /\ sound = AtSpeed(lasting, plan.sound.speed)
  BY DEF VideoSecs, SoundSecs, TargetPlan
<1>4. /\ secs \in Nat /\ spoken \in Nat /\ video <= secs
      /\ cap = CapLeft(n, secs, spoken) /\ cap > Floor
      /\ \/ plan.sound.codec = "none" /\ kbps = 0 /\ plan.sound.speed = 4
         \/ /\ spoken = job.profile.audio /\ plan.sound.codec \in {"aac", "opus"}
            /\ kbps = AudioKbps(job.profile)
            /\ plan.sound.speed = Tempo(speed)
  BY DEF TargetPlan
<1> HIDE DEF lasting, speed
<1>5. video \in Nat
  BY <1>1, <1>2, <1>3, AtSpeedIs
<1>6. AtMostKbits(plan, job.src) = size
  BY DEF AtMostKbits, Kbits
<1>7. CASE plan.sound.codec = "none" /\ kbps = 0 /\ plan.sound.speed = 4
  <2>1. sound \in Nat
    <3>1. AtSpeed(lasting, 4) \in Nat
      BY <1>2 DEF AtSpeed
    <3> QED BY <1>3, <1>7, <3>1
  <2>2. kbps \in Nat /\ kbps = 0
    BY <1>7
  <2>3. size <= KbitsOf(n)
    <3> HIDE DEF n, video, sound, kbps, cap
    <3> QED BY <1>1, <1>4, <1>5, <2>1, <2>2, WithinSize
  <2> HIDE DEF video, sound, kbps, cap
  <2> QED BY <1>6, <1>7, <2>3 DEF InSize
<1>8. CASE /\ spoken = job.profile.audio /\ plan.sound.codec \in {"aac", "opus"}
           /\ kbps = AudioKbps(job.profile)
           /\ plan.sound.speed = Tempo(speed)
  <2>1. /\ sound \in Nat
        /\ sound <= video
    BY <1>1, <1>2, <1>3, <1>8, AtSpeedIs
  <2>2. kbps \in Nat /\ (kbps <= spoken \/ kbps = 1)
    BY <1>1, <1>8 DEF AudioKbps
  <2>3. size <= KbitsOf(n)
    <3> HIDE DEF n, video, sound, kbps, cap
    <3> QED BY <1>1, <1>4, <1>5, <2>1, <2>2, WithinSize
  <2>4. plan.sound.codec # "copied opus"
    BY <1>8
  <2> HIDE DEF video, sound, kbps, cap
  <2> QED BY <1>6, <2>3, <2>4 DEF InSize
<1> QED BY <1>4, <1>7, <1>8

(***************************************************************************)
(* plan.rs build_plan and build_segments_plan: a success is the file that  *)
(* was asked for.  It is within the size target, for every length, speed,  *)
(* sound and number of windows, when the bitrate is above its floor; sound *)
(* and picture have one length at every speed down to a half, the          *)
(* container takes the tracks, also after the retry in software, and no    *)
(* hardware encoder is used that the profile forbids.                      *)
(***************************************************************************)
THEOREM SuccessIsAsAsked == Spec => []FileAsAsked
<1>1. IInv => FileAsAsked
  <2> SUFFICES ASSUME IInv, At("done"), result = "ok"
               PROVE  TargetMet(run.plan) /\ TracksFit(run.plan)
    BY DEF FileAsAsked
  <2>1. ffmpeg.status = "ok"
    BY DEF IInv, Delivered, At
  <2>2. run.plan \in Plans /\ run.plan.ok /\ Muxable(run.plan) /\ job \in Jobs
    BY <2>1 DEF IInv, Typed, PlanMade, Written
  <2>3. PICK hw \in BOOLEAN : run.plan = Build(hw)
    <3>1. ~Refused("none").ok
      BY DEF Refused
    <3>2. TRUE \in BOOLEAN /\ FALSE \in BOOLEAN
      OBVIOUS
    <3> QED BY <2>2, <3>1, <3>2, Zenon DEF Plans
  <2> DEFINE plan == run.plan
  <2>4. /\ plan.sound.codec # "none" /\ plan.codec # "none" /\ plan.speed >= 2 =>
                plan.sound.speed = plan.speed
        /\ plan.hw => job.profile.hardware
    BY <2>2, <2>3, SpeedsAgree
  <2>5. plan.sound.speed = plan.speed => SoundSecs(plan, job.src) = VideoSecs(plan, job.src)
    BY DEF SoundSecs, VideoSecs
  <2>6. TracksFit(plan)
    BY <2>2, <2>4, <2>5 DEF TracksFit
  <2>7. ASSUME job.profile.rate.mode = "target", plan.rate.cap > Floor,
               ~job.cut \/ job.profile.speed >= 4
        PROVE  InSize(plan)
    <3>1. PICK secs, spoken : TargetPlan(plan, secs, spoken)
      BY <2>2, <2>3, <2>7, WholeClip, JoinedWindows
    <3> QED BY <2>2, <2>7, <3>1, TargetKept
  <2>8. TargetMet(plan)
    BY <2>7, Zenon DEF TargetMet, InSize
  <2> QED BY <2>6, <2>8
<1> QED BY <1>1, ExportInvariance, PTL

=============================================================================
