------------------------ MODULE UpdateBootstrap_proofs ------------------------
(***************************************************************************)
(* What the detached script reports is so, for any number of runs and of   *)
(* files, whatever hangs, fails, restarts or loses power in between.       *)
(***************************************************************************)
EXTENDS UpdateBootstrap, TLAPS

MainPoints == {"none", "swap", "restart", "health", "finish", "cancel", "report",
               "restore", "revive", "confirm", "ended"}
DogPoints == {"none", "waiting", "restore", "orphan", "revive", "confirm", "kill", "ended"}

\* The points of a main script behind its swap.
Swapped == {"restart", "health", "finish", "cancel", "report"}

BootTypeOK ==
  /\ live \in [Files -> Contents]
  /\ staging \in Versions
  /\ backup \in [Runs -> [Files -> Contents]]
  /\ begun \in Versions
  /\ pc \in [Scripts -> MainPoints \cup DogPoints]
  /\ at \in [Scripts -> Files]
  /\ missed \in [Runs -> SUBSET Files]
  /\ unrestored \in [Scripts -> SUBSET Files]

\* A main script does what main scripts do, a watchdog what watchdogs do.
PointsFit ==
  \A r \in Runs : pc[Main(r)] \in MainPoints /\ pc[Dog(r)] \in DogPoints

\* A run to come has no scripts, nor has the one parked at its go/no-go; scripts
\* begin at the first file.
Fresh ==
  /\ \A s \in Scripts :
       begun < RunOf(s) \/ (app = "parked" /\ RunOf(s) = begun) => pc[s] = "none"
  /\ \A s \in Scripts : pc[s] \in {"none", "waiting"} => at[s] = 1
  /\ app = "parked" => begun \in Runs /\ staging \in {0, begun}

\* What a script that nothing else reached has made of the files by now.
Stands(s) ==
  LET r == RunOf(s) IN
  /\ pc[s] = "swap" =>
       /\ staging \in {0, r}
       /\ \A f \in Files \ missed[r] : f < at[s] => live[f] = r
  /\ pc[s] \in Swapped => \A f \in Files \ missed[r] : live[f] = r
  /\ pc[s] = "restore" =>
       \A f \in Files \ unrestored[s] : f < at[s] => live[f] = backup[r][f]
  /\ pc[s] \in {"revive", "confirm"} =>
       \A f \in Files \ unrestored[s] : live[f] = backup[r][f]

FilesFit == \A s \in Scripts \ spoiled : Stands(s)

\* The inductive invariant.
BootInv == BootTypeOK /\ PointsFit /\ Fresh /\ FilesFit

-----------------------------------------------------------------------------
\* A run's two scripts are different from each other and from those of other runs.
LEMMA Names ==
  /\ \A r \in Runs : /\ Main(r) \in Scripts /\ Dog(r) \in Scripts
                     /\ RunOf(Main(r)) = r /\ RunOf(Dog(r)) = r
  /\ \A r, q \in Runs : Main(r) # Dog(q)
  /\ \A s \in Scripts : RunOf(s) \in Runs /\ (s = Main(RunOf(s)) \/ s = Dog(RunOf(s)))
BY DEF Scripts, Main, Dog, RunOf

\* There is a first file, and the one after any but the last is a file.
LEMMA FileNumbers ==
  /\ 1 \in Files /\ LastFile \in Files
  /\ \A f \in Files : f < LastFile => f + 1 \in Files
  /\ \A f \in Files : f <= LastFile /\ ~(f < 1)
  /\ \A r \in Runs : r \in Versions
  /\ 0 \in Versions
  /\ Versions \subseteq Contents /\ Torn \in Contents
BY SizesAssumption DEF Files, Runs, Versions, Contents

\* A script that is not at work on the files stands for nothing.
LEMMA Bystander ==
  ASSUME NEW t \in Scripts, pc'[t] \in {"none", "waiting", "orphan", "kill", "ended"}
  PROVE  Stands(t)'
BY DEF Stands, Swapped

\* A script that does not move stands as it did if the files do too.
LEMMA Stays ==
  ASSUME NEW t \in Scripts, Stands(t),
         pc'[t] = pc[t], at'[t] = at[t], live' = live,
         backup'[RunOf(t)] = backup[RunOf(t)],
         pc[t] # "swap" \/ staging' = staging \/ staging' = 0,
         missed[RunOf(t)] \subseteq missed'[RunOf(t)],
         unrestored[t] \subseteq unrestored'[t]
  PROVE  Stands(t)'
BY DEF Stands

\* The first state: no scripts.
LEMMA BootInit == Init => BootInv
<1> SUFFICES ASSUME Init PROVE BootInv
  OBVIOUS
<1>1. BootTypeOK
  BY FileNumbers DEF Init, BootTypeOK, Complete, MainPoints
<1>2. PointsFit
  BY Names DEF Init, PointsFit, MainPoints, DogPoints
<1>3. Fresh
  BY DEF Init, Fresh
<1>4. FilesFit
  BY DEF Init, FilesFit, Stands, Swapped
<1> QED
  BY <1>1, <1>2, <1>3, <1>4 DEF BootInv

-----------------------------------------------------------------------------
(* Types, points and fresh scripts.                                         *)

\* Staging takes the next run's number and the files it finds.
LEMMA StageFrame ==
  ASSUME BootInv, StageUpdate
  PROVE  BootTypeOK' /\ PointsFit' /\ Fresh'
<1> USE DEF BootInv, StageUpdate, scripts
<1>1. begun + 1 \in Runs /\ begun + 1 \in Versions
  BY SizesAssumption DEF BootTypeOK, Versions, Runs
<1>2. BootTypeOK'
  BY <1>1 DEF BootTypeOK
<1>3. PointsFit'
  BY DEF PointsFit
<1>4. \A s \in Scripts : RunOf(s) \in Nat /\ begun \in Nat
  BY Names, SizesAssumption DEF BootTypeOK, Runs, Versions
<1>5. Fresh'
  BY <1>1, <1>4 DEF Fresh
<1> QED
  BY <1>2, <1>3, <1>5

\* A script that has begun is of a run that has been launched.
LEMMA Launched ==
  ASSUME Fresh, NEW s \in Scripts, pc[s] # "none"
  PROVE  ~(begun < RunOf(s)) /\ ~(app = "parked" /\ RunOf(s) = begun)
BY DEF Fresh

\* The loop over the files, and leaving it, stay among the files.
LEMMA LoopFrame ==
  ASSUME BootInv, NEW s \in Scripts, NEW point,
         NextFile(s, point) \/ (Goto(s, point) /\ UNCHANGED at) \/ (Goto(s, point) /\ at' = [at EXCEPT ![s] = 1])
  PROVE  /\ at' \in [Scripts -> Files]
         /\ pc' = pc \/ pc' = [pc EXCEPT ![s] = point]
         /\ \A t \in Scripts \ {s} : pc'[t] = pc[t] /\ at'[t] = at[t]
<1>1. at[s] \in Files /\ LastFile \in Nat
  BY SizesAssumption DEF BootInv, BootTypeOK
<1>2. at[s] < LastFile => at[s] + 1 \in Files
  BY <1>1, FileNumbers
<1> QED
  BY <1>1, <1>2, FileNumbers DEF NextFile, Goto, BootInv, BootTypeOK

\* A script that has begun may move to any of its points but the first two.
LEMMA MoveFrame ==
  ASSUME BootInv, NEW s \in Scripts, NEW point, pc[s] # "none", point \notin {"none", "waiting"},
         s = Main(RunOf(s)) => point \in MainPoints,
         s = Dog(RunOf(s)) => point \in DogPoints,
         pc' = pc \/ pc' = [pc EXCEPT ![s] = point],
         at' \in [Scripts -> Files], \A t \in Scripts \ {s} : at'[t] = at[t],
         pc' = pc => pc[s] # "waiting",
         begun' = begun, staging' = staging \/ staging' = 0,
         app' = app \/ app' \in {"idle", "down"}
  PROVE  pc' \in [Scripts -> MainPoints \cup DogPoints] /\ PointsFit' /\ Fresh'
<1>1. pc' \in [Scripts -> MainPoints \cup DogPoints]
  BY Names DEF BootInv, BootTypeOK
<1>2. PointsFit'
  BY Names DEF BootInv, BootTypeOK, PointsFit
<1>3. Fresh'
  <2>1. ASSUME NEW t \in Scripts,
               begun < RunOf(t) \/ (app' = "parked" /\ RunOf(t) = begun)
        PROVE  pc'[t] = "none"
    BY <2>1, Launched DEF BootInv, BootTypeOK, Fresh
  <2>2. ASSUME NEW t \in Scripts, pc'[t] \in {"none", "waiting"} PROVE at'[t] = 1
    BY <2>2 DEF BootInv, BootTypeOK, Fresh
  <2>3. app' = "parked" => begun' \in Runs /\ staging' \in {0, begun'}
    BY DEF BootInv, Fresh
  <2> QED
    BY <2>1, <2>2, <2>3 DEF Fresh
<1> QED
  BY <1>1, <1>2, <1>3

\* What the service is once something was started is not the go/no-go.
LEMMA StartedIsUp == Started \subseteq {"idle", "down"}
BY DEF Started

\* The main script's own steps: it moves among its points.
LEMMA MainFrame ==
  ASSUME BootInv, NEW r \in Runs,
         \/ CopyFile(r) \/ CopyFails(r) \/ Restart(r) \/ Health(r) \/ Finish(r)
         \/ ReportSuccess(r)
  PROVE  BootTypeOK' /\ PointsFit' /\ Fresh'
<1> DEFINE s == Main(r)
           Moves(point) ==
             \/ NextFile(s, point)
             \/ Goto(s, point) /\ UNCHANGED at
             \/ Goto(s, point) /\ at' = [at EXCEPT ![s] = 1]
<1> USE FileNumbers, StartedIsUp
<1>1. s \in Scripts /\ RunOf(s) = r /\ s # Dog(r) /\ pc[s] # "none" /\ pc[s] # "waiting"
  BY Names DEF CopyFile, CopyFails, Restart, Health, Finish, ReportSuccess
<1>2. PICK point \in MainPoints \ {"none"} : Moves(point)
  BY DEF CopyFile, CopyFails, Restart, Health, Finish, ReportSuccess, FallBack, Goto, MainPoints
<1>3. /\ begun' = begun
      /\ staging' = staging \/ staging' = 0
      /\ app' = app \/ app' \in {"idle", "down"}
  BY DEF CopyFile, CopyFails, Restart, Health, Finish, ReportSuccess, history
<1>4. /\ at' \in [Scripts -> Files]
      /\ pc' = pc \/ pc' = [pc EXCEPT ![s] = point]
      /\ \A t \in Scripts \ {s} : pc'[t] = pc[t] /\ at'[t] = at[t]
  <2> HIDE DEF s
  <2>1. NextFile(s, point) \/ (Goto(s, point) /\ UNCHANGED at) \/ (Goto(s, point) /\ at' = [at EXCEPT ![s] = 1])
    BY <1>2
  <2> QED
    BY <1>1, <2>1, LoopFrame
<1>5. pc' \in [Scripts -> MainPoints \cup DogPoints] /\ PointsFit' /\ Fresh'
  <2>1. point \notin {"none", "waiting"}
    BY <1>2 DEF MainPoints
  <2> QED
    BY <1>1, <1>2, <1>3, <1>4, <2>1, MoveFrame
<1>6. live' \in [Files -> Contents]
  BY <1>1 DEF CopyFile, CopyFails, Restart, Health, Finish, ReportSuccess, history, Write,
    BootInv, BootTypeOK
<1>7. missed' \in [Runs -> SUBSET Files] /\ unrestored' = unrestored
  BY <1>1 DEF CopyFile, CopyFails, Restart, Health, Finish, ReportSuccess, history,
    BootInv, BootTypeOK
<1>8. backup' = backup
  BY DEF CopyFile, CopyFails, Restart, Health, Finish, ReportSuccess
<1> QED
  BY <1>3, <1>4, <1>5, <1>6, <1>7, <1>8 DEF BootInv, BootTypeOK

\* A rollback's steps, of either script, and those of an orphan.
LEMMA RollbackFrame ==
  ASSUME BootInv, NEW s \in Scripts, RollbackStep(s)
  PROVE  BootTypeOK' /\ PointsFit' /\ Fresh'
<1> USE FileNumbers, StartedIsUp
<1>0. RunOf(s) \in Runs /\ (s = Main(RunOf(s)) \/ s = Dog(RunOf(s)))
      /\ Main(RunOf(s)) # Dog(RunOf(s))
  BY Names
<1>1. pc[s] \notin {"none", "waiting"} /\ (pc[s] = "orphan" => s = Dog(RunOf(s)))
  BY <1>0 DEF RollbackStep, Restore, RestoreSkips, RestoreBreaks, Revive, Confirm, BootInv, PointsFit, MainPoints
<1>2. PICK point \in {"revive", "confirm", "kill", "ended"} :
        /\ \/ NextFile(s, point)
           \/ Goto(s, point) /\ UNCHANGED at
        /\ point = "kill" => s # Main(RunOf(s))
  BY DEF RollbackStep, Restore, RestoreSkips, RestoreBreaks, Revive, Confirm
<1>3. /\ begun' = begun /\ staging' = staging
      /\ app' = app \/ app' \in {"idle", "down"}
  BY DEF RollbackStep, Restore, RestoreSkips, RestoreBreaks, Revive, Confirm, history
<1>4. /\ at' \in [Scripts -> Files]
      /\ pc' = pc \/ pc' = [pc EXCEPT ![s] = point]
      /\ \A t \in Scripts \ {s} : pc'[t] = pc[t] /\ at'[t] = at[t]
  BY <1>2, LoopFrame
<1>5. pc' \in [Scripts -> MainPoints \cup DogPoints] /\ PointsFit' /\ Fresh'
  <2>1. /\ s = Main(RunOf(s)) => point \in MainPoints
        /\ s = Dog(RunOf(s)) => point \in DogPoints
    BY <1>0, <1>2 DEF MainPoints, DogPoints
  <2> QED
    BY <1>1, <1>2, <1>3, <1>4, <2>1, MoveFrame
<1>6. live' \in [Files -> Contents]
  <2>1. at[s] \in Files /\ backup[RunOf(s)][at[s]] \in Contents
    BY <1>0 DEF BootInv, BootTypeOK
  <2>2. backup[RunOf(s)][at[s]] \in Contents /\ Torn \in Contents
    BY <2>1
  <2> QED
    BY <2>1, <2>2 DEF RollbackStep, Restore, RestoreSkips, RestoreBreaks, Revive, Confirm, history, Write,
      BootInv, BootTypeOK
<1>7. missed' = missed /\ backup' = backup /\ unrestored' \in [Scripts -> SUBSET Files]
  BY DEF RollbackStep, Restore, RestoreSkips, RestoreBreaks, Revive, Confirm, history, BootInv, BootTypeOK
<1> QED
  BY <1>3, <1>4, <1>5, <1>6, <1>7 DEF BootInv, BootTypeOK

\* Both scripts of a run that was launched end, or go on as an orphan.
LEMMA EndFrame ==
  ASSUME BootInv, NEW r \in Runs, CancelWatchdog(r) \/ KillGroup(r)
  PROVE  BootTypeOK' /\ PointsFit' /\ Fresh'
<1>1. Main(r) \in Scripts /\ Dog(r) \in Scripts /\ Main(r) # Dog(r)
      /\ RunOf(Main(r)) = r /\ RunOf(Dog(r)) = r
  BY Names
<1>2. /\ UNCHANGED <<live, staging, backup, app, begun, at, missed, unrestored>>
      /\ \A t \in Scripts \ {Main(r), Dog(r)} : pc'[t] = pc[t]
      /\ pc'[Main(r)] \in {"report", "ended"} /\ pc'[Dog(r)] \in {"orphan", "ended"}
      /\ DOMAIN pc' = Scripts /\ pc' = [t \in Scripts |-> pc'[t]]
  BY <1>1 DEF CancelWatchdog, KillGroup, history, BootInv, BootTypeOK
<1>3. BootTypeOK'
  <2>1. \A t \in Scripts : pc'[t] \in MainPoints \cup DogPoints
    BY <1>1, <1>2 DEF BootInv, BootTypeOK, MainPoints, DogPoints
  <2>2. pc' \in [Scripts -> MainPoints \cup DogPoints]
    BY <1>2, <2>1
  <2> QED
    BY <1>2, <2>2 DEF BootInv, BootTypeOK
<1>4. PointsFit'
  BY <1>2, Names DEF BootInv, PointsFit, MainPoints, DogPoints
<1>5. Fresh'
  <2>1. ~(begun < r) /\ ~(app = "parked" /\ r = begun)
    <3>1. pc[Main(r)] # "none" \/ pc[Dog(r)] # "none"
      BY DEF CancelWatchdog, KillGroup
    <3> QED
      BY <1>1, <3>1, Launched DEF BootInv
  <2> QED
    BY <1>1, <1>2, <2>1 DEF BootInv, Fresh
<1> QED
  BY <1>3, <1>4, <1>5

\* Every step keeps types, points and fresh scripts.
LEMMA FrameStep == BootInv /\ [Next]_vars => BootTypeOK' /\ PointsFit' /\ Fresh'
<1> SUFFICES ASSUME BootInv, [Next]_vars PROVE BootTypeOK' /\ PointsFit' /\ Fresh'
  OBVIOUS
<1> USE FileNumbers, StartedIsUp
<1>1. CASE StageUpdate
  BY <1>1, StageFrame
<1>2. CASE Cancel
  BY <1>2 DEF Cancel, scripts, history, BootInv, BootTypeOK, PointsFit, Fresh
<1>3. CASE Launch
  <2>1. begun \in Runs /\ Main(begun) \in Scripts /\ Dog(begun) \in Scripts
        /\ Main(begun) # Dog(begun)
    BY <1>3, Names DEF Launch, BootInv, Fresh
  <2>2. BootTypeOK'
    BY <1>3, <2>1 DEF Launch, history, BootInv, BootTypeOK, MainPoints, DogPoints
  <2>3. PointsFit'
    BY <1>3, <2>1, Names
    DEF Launch, history, BootInv, BootTypeOK, PointsFit, MainPoints, DogPoints
  <2>4. Fresh'
    <3>1. ASSUME NEW t \in Scripts, begun < RunOf(t) PROVE pc'[t] = "none"
      <4>1. RunOf(t) # begun /\ pc[t] = "none"
        BY <2>1, <3>1 DEF BootInv, Fresh, Runs
      <4> QED
        BY <1>3, <2>1, <4>1, Names DEF Launch, BootInv, BootTypeOK
    <3>2. ASSUME NEW t \in Scripts, pc'[t] \in {"none", "waiting"} PROVE at'[t] = 1
      <4>1. t = Dog(begun) \/ pc[t] = pc'[t]
        BY <1>3, <2>1, <3>2 DEF Launch, BootInv, BootTypeOK
      <4>2. t = Dog(begun) => pc[t] = "none"
        BY <1>3, <2>1, Names DEF Launch, BootInv, Fresh
      <4> QED
        BY <1>3, <3>2, <4>1, <4>2 DEF Launch, BootInv, Fresh
    <3> QED
      BY <1>3, <3>1, <3>2 DEF Launch, Fresh, history
  <2> QED
    BY <2>2, <2>3, <2>4
<1>4. CASE AppRestart
  BY <1>4 DEF AppRestart, scripts, history, BootInv, BootTypeOK, PointsFit, Fresh
<1>5. CASE PowerCut
  <2>1. BootTypeOK'
    BY <1>5 DEF PowerCut, BootInv, BootTypeOK, MainPoints
  <2>2. PointsFit'
    BY <1>5, Names DEF PowerCut, PointsFit, MainPoints, DogPoints
  <2>3. Fresh'
    BY <1>5 DEF PowerCut, BootInv, BootTypeOK, Fresh
  <2> QED
    BY <2>1, <2>2, <2>3
<1>6. ASSUME NEW r \in Runs, MainStep(r) PROVE BootTypeOK' /\ PointsFit' /\ Fresh'
  BY <1>6, MainFrame, EndFrame, RollbackFrame, Names DEF MainStep
<1>7. ASSUME NEW r \in Runs, DogStep(r) PROVE BootTypeOK' /\ PointsFit' /\ Fresh'
  <2>1. CASE WakeUp(r)
    <3>1. Dog(r) \in Scripts /\ RunOf(Dog(r)) = r /\ Dog(r) # Main(r) /\ at[Dog(r)] = 1
          /\ pc[Dog(r)] = "waiting"
      BY <2>1, Names DEF WakeUp, BootInv, Fresh
    <3>2. PICK point \in {"ended", "restore"} : pc' = [pc EXCEPT ![Dog(r)] = point]
      BY <2>1 DEF WakeUp, Goto
    <3>3. UNCHANGED <<live, staging, backup, app, begun, at, missed, unrestored>>
      BY <2>1 DEF WakeUp, history
    <3>4. pc' \in [Scripts -> MainPoints \cup DogPoints] /\ PointsFit' /\ Fresh'
      <4>1. pc' # pc /\ at' \in [Scripts -> Files]
        BY <3>1, <3>2, <3>3 DEF BootInv, BootTypeOK
      <4> QED
        BY <3>1, <3>2, <3>3, <4>1, MoveFrame DEF DogPoints
    <3> QED
      BY <3>3, <3>4 DEF BootInv, BootTypeOK
  <2> QED
    BY <1>7, <2>1, EndFrame, RollbackFrame, Names DEF DogStep
<1>8. ASSUME NEW s \in Scripts, Hang(s) \/ Return(s) PROVE BootTypeOK' /\ PointsFit' /\ Fresh'
  BY <1>8 DEF Hang, Return, scripts, history, BootInv, BootTypeOK, PointsFit, Fresh
<1>9. CASE UNCHANGED vars
  BY <1>9 DEF vars, scripts, history, BootInv, BootTypeOK, PointsFit, Fresh
<1> QED
  BY <1>1, <1>2, <1>3, <1>4, <1>5, <1>6, <1>7, <1>8, <1>9 DEF Next

-----------------------------------------------------------------------------
(* What the scripts have made of the files.                                 *)

\* A write by one script spoils every other that is at work.
LEMMA WriteSpoils ==
  ASSUME NEW s \in Scripts, NEW t \in Scripts \ {s}, NEW f, NEW v, Write(s, f, v),
         t \notin spoiled', pc'[t] = pc[t]
  PROVE  Stands(t)'
<1>1. ~Busy(t)
  BY DEF Write
<1> QED
  BY <1>1, Bystander DEF Busy

\* The loops: after a file's turn, the script stands one file further on.
LEMMA LoopStands ==
  ASSUME BootInv, NEW s \in Scripts, NEW point, NextFile(s, point),
         NEW P \in [Files -> BOOLEAN],
         \A f \in Files : f < at[s] => P[f], P[at[s]]
  PROVE  \/ pc' = pc /\ at'[s] = at[s] + 1 /\ at[s] < LastFile
            /\ \A f \in Files : f < at'[s] => P[f]
         \/ pc' = [pc EXCEPT ![s] = point] /\ \A f \in Files : P[f]
<1>1. at[s] \in Files /\ at[s] \in Nat /\ \A f \in Files : f \in Nat /\ f <= LastFile
  BY SizesAssumption DEF BootInv, BootTypeOK, Files
<1>2. CASE at[s] < LastFile /\ at' = [at EXCEPT ![s] = @ + 1] /\ UNCHANGED pc
  <2>1. at'[s] = at[s] + 1
    BY <1>2 DEF BootInv, BootTypeOK
  <2>2. ASSUME NEW f \in Files, f < at'[s] PROVE P[f]
    <3>1. f < at[s] \/ f = at[s]
      BY <1>1, <2>1, <2>2
    <3> QED
      BY <3>1
  <2> QED
    BY <1>2, <2>1, <2>2
<1>3. CASE at[s] = LastFile /\ Goto(s, point)
  <2>1. ASSUME NEW f \in Files PROVE P[f]
    <3>1. f < at[s] \/ f = at[s]
      BY <1>1, <1>3
    <3> QED
      BY <3>1
  <2> QED
    BY <1>3, <2>1 DEF Goto
<1> QED
  BY <1>2, <1>3 DEF NextFile

\* A copy, made or failed.
LEMMA CopyStands ==
  ASSUME BootInv, BootTypeOK', NEW r \in Runs, CopyFile(r) \/ CopyFails(r), Main(r) \notin spoiled'
  PROVE  Stands(Main(r))'
<1> DEFINE s == Main(r)
           P == [f \in Files |-> f \notin missed'[r] => live'[f] = r]
<1>1. s \in Scripts /\ RunOf(s) = r /\ at[s] \in Files /\ Stands(s)
  BY Names DEF CopyFile, CopyFails, Write, BootInv, BootTypeOK, FilesFit
<1>2. P[at[s]] /\ \A f \in Files : f < at[s] => P[f]
  <2>1. /\ staging \in {0, r} /\ pc[s] = "swap"
        /\ \A f \in Files \ missed[r] : f < at[s] => live[f] = r
    BY <1>1 DEF Stands, CopyFile, CopyFails
  <2>2. CASE CopyFile(r)
    BY <1>1, <2>1, <2>2 DEF CopyFile, Write, BootInv, BootTypeOK
  <2>3. CASE CopyFails(r)
    BY <1>1, <2>1, <2>3 DEF CopyFails, BootInv, BootTypeOK
  <2> QED
    BY <2>2, <2>3
<1>3. CASE NextFile(s, "restart")
  <2>1. \/ pc' = pc /\ \A f \in Files : f < at'[s] => P[f]
        \/ pc' = [pc EXCEPT ![s] = "restart"] /\ \A f \in Files : P[f]
    <3> HIDE DEF P
    <3>1. P \in [Files -> BOOLEAN]
      BY DEF P
    <3> QED
      BY <1>1, <1>2, <1>3, <3>1, LoopStands
  <2>2. pc[s] = "swap" /\ staging' = staging
    BY DEF CopyFile, CopyFails
  <2> QED
    BY <1>1, <2>1, <2>2 DEF Stands, Swapped, BootInv, BootTypeOK
<1>4. CASE FallBack(s)
  BY <1>1, <1>4, FileNumbers DEF FallBack, Stands, Swapped, BootInv, BootTypeOK
<1> QED
  BY <1>3, <1>4 DEF CopyFile, CopyFails

\* A file restored or passed over, or the restore broken off.
LEMMA RestoreStands ==
  ASSUME BootInv, BootTypeOK', NEW s \in Scripts,
         Restore(s) \/ RestoreSkips(s) \/ RestoreBreaks(s), s \notin spoiled'
  PROVE  Stands(s)'
<1> DEFINE r == RunOf(s)
           P == [f \in Files |-> f \in unrestored'[s] \/ live'[f] = backup[r][f]]
<1>1. at[s] \in Files /\ Stands(s) /\ r \in Runs
  BY Names DEF Restore, RestoreSkips, RestoreBreaks, Write, BootInv, BootTypeOK, FilesFit
<1>2. CASE (Restore(s) \/ RestoreSkips(s)) /\ pc[s] = "restore"
  <2>1. P[at[s]] /\ \A f \in Files : f < at[s] => P[f]
    <3>1. CASE Restore(s)
      BY <1>1, <1>2, <3>1 DEF Stands, Restore, Write, BootInv, BootTypeOK
    <3>2. CASE RestoreSkips(s)
      BY <1>1, <1>2, <3>2 DEF Stands, RestoreSkips, BootInv, BootTypeOK
    <3> QED
      BY <1>2, <3>1, <3>2
  <2>2. \/ pc' = pc /\ \A f \in Files : f < at'[s] => P[f]
        \/ pc' = [pc EXCEPT ![s] = "revive"] /\ \A f \in Files : P[f]
    <3> HIDE DEF P
    <3>1. P \in [Files -> BOOLEAN]
      BY DEF P
    <3>2. NextFile(s, "revive")
      BY <1>1, <1>2 DEF Restore, RestoreSkips
    <3> QED
      BY <2>1, <3>1, <3>2, LoopStands
  <2>3. backup' = backup
    BY <1>2 DEF Restore, RestoreSkips
  <2>4. CASE pc' = pc /\ \A f \in Files : f < at'[s] => P[f]
    BY <1>2, <2>3, <2>4 DEF Stands, Swapped
  <2>5. CASE pc' = [pc EXCEPT ![s] = "revive"] /\ \A f \in Files : P[f]
    <3>1. /\ pc'[s] = "revive"
          /\ \A f \in Files \ unrestored'[s] : live'[f] = backup'[r][f]
      BY <2>3, <2>5 DEF BootInv, BootTypeOK
    <3> QED
      BY <3>1 DEF Stands, Swapped
  <2> QED
    BY <2>2, <2>4, <2>5
<1>3. CASE RestoreBreaks(s) /\ pc[s] = "restore"
  <2>1. /\ backup' = backup /\ pc'[s] = "revive"
        /\ unrestored'[s] = unrestored[s] \cup {f \in Files : at[s] <= f}
    BY <1>3 DEF RestoreBreaks, Goto, BootInv, BootTypeOK
  <2>2. ASSUME NEW f \in Files, f \notin unrestored'[s] PROVE live'[f] = backup'[r][f]
    <3>1. f < at[s] /\ f \notin unrestored[s]
      BY <1>1, <2>1, <2>2, SizesAssumption DEF Files
    <3>2. live[f] = backup[r][f] /\ f # at[s]
      BY <1>1, <1>3, <3>1, FileNumbers, SizesAssumption DEF Stands, Files
    <3>3. live'[f] = live[f]
      BY <1>3, <3>2 DEF RestoreBreaks, Write, BootInv, BootTypeOK
    <3> QED
      BY <2>1, <3>2, <3>3
  <2> QED
    BY <2>1, <2>2 DEF Stands, Swapped
<1>4. CASE pc[s] = "orphan"
  BY <1>1, <1>4, Bystander DEF Restore, RestoreSkips, RestoreBreaks, NextFile, Goto, BootInv, BootTypeOK
<1> QED
  BY <1>1, <1>2, <1>3, <1>4 DEF Restore, RestoreSkips, RestoreBreaks

\* Every step leaves each script that nothing else reached standing.
LEMMA FilesStep == BootInv /\ BootTypeOK' /\ [Next]_vars => FilesFit'
<1> SUFFICES ASSUME BootInv, BootTypeOK', [Next]_vars, NEW t \in Scripts \ spoiled'
             PROVE  Stands(t)'
  BY DEF FilesFit
<1>0. RunOf(t) \in Runs /\ (t = Main(RunOf(t)) \/ t = Dog(RunOf(t)))
  BY Names
<1>1. t \notin spoiled => Stands(t)
  BY DEF BootInv, FilesFit
<1>2. CASE StageUpdate
  <2>1. pc[t] # "swap" /\ t \notin spoiled
    BY <1>2 DEF StageUpdate
  <2>2. CASE RunOf(t) = begun + 1
    <3>1. begun < RunOf(t)
      BY <2>2, SizesAssumption DEF BootInv, BootTypeOK, Versions
    <3>2. pc'[t] = "none"
      BY <1>2, <3>1 DEF StageUpdate, scripts, BootInv, Fresh
    <3> QED
      BY <3>2, Bystander
  <2>3. CASE RunOf(t) # begun + 1
    BY <1>0, <1>1, <1>2, <2>1, <2>3, Stays DEF StageUpdate, scripts, BootInv, BootTypeOK
  <2> QED
    BY <2>2, <2>3
<1>3. CASE Cancel
  BY <1>1, <1>3, Stays DEF Cancel, scripts, history
<1>4. CASE Launch
  <2>1. begun \in Runs /\ staging \in {0, begun} /\ Main(begun) \in Scripts
        /\ Dog(begun) \in Scripts /\ Main(begun) # Dog(begun) /\ RunOf(Main(begun)) = begun
    BY <1>4, Names DEF Launch, BootInv, Fresh
  <2>2. CASE t = Main(begun)
    <3>1. pc'[t] = "swap" /\ at'[t] = 1 /\ staging' \in {0, RunOf(t)}
      BY <1>4, <2>1, <2>2 DEF Launch, BootInv, BootTypeOK, Fresh
    <3> QED
      BY <3>1, FileNumbers DEF Stands, Swapped
  <2>3. CASE t = Dog(begun)
    BY <1>4, <2>1, <2>3, Bystander DEF Launch, BootInv, BootTypeOK
  <2>4. CASE t \notin {Main(begun), Dog(begun)}
    BY <1>1, <1>4, <2>1, <2>4, Stays DEF Launch, history, BootInv, BootTypeOK
  <2> QED
    BY <2>2, <2>3, <2>4
<1>5. CASE AppRestart
  BY <1>1, <1>5, Stays DEF AppRestart, scripts, history
<1>6. CASE PowerCut
  BY <1>6, Bystander DEF PowerCut
<1>7. ASSUME NEW s \in Scripts, RollbackStep(s) PROVE Stands(t)'
  <2>1. CASE t = s
    <3>1. CASE Restore(s) \/ RestoreSkips(s) \/ RestoreBreaks(s)
      BY <2>1, <3>1, RestoreStands
    <3>2. CASE Revive(s)
      BY <1>1, <2>1, <3>2 DEF Revive, Goto, history, Stands, Swapped, BootInv, BootTypeOK
    <3>3. CASE Confirm(s)
      BY <2>1, <3>3, Bystander DEF Confirm, Goto, BootInv, BootTypeOK
    <3> QED
      BY <1>7, <3>1, <3>2, <3>3 DEF RollbackStep
  <2>2. CASE t # s
    <3>1. pc'[t] = pc[t] /\ at'[t] = at[t]
      BY <1>7, <2>2
      DEF RollbackStep, Restore, RestoreSkips, RestoreBreaks, Revive, Confirm, NextFile, Goto, BootInv, BootTypeOK
    <3>2. CASE Restore(s)
      BY <2>2, <3>1, <3>2, WriteSpoils DEF Restore
    <3>3. CASE RestoreBreaks(s) /\ Write(s, at[s], Torn)
      BY <2>2, <3>1, <3>3, WriteSpoils
    <3>4. CASE RestoreSkips(s) \/ (RestoreBreaks(s) /\ UNCHANGED <<live, spoiled>>)
      <4>1. unrestored'[t] = unrestored[t]
        BY <2>2, <3>4 DEF RestoreSkips, RestoreBreaks, BootInv, BootTypeOK
      <4> QED
        BY <1>1, <3>1, <3>4, <4>1, Stays DEF RestoreSkips, RestoreBreaks
    <3>5. CASE Revive(s) \/ Confirm(s)
      BY <1>1, <3>1, <3>5, Stays DEF Revive, Confirm, history
    <3> QED
      BY <1>7, <3>2, <3>3, <3>4, <3>5 DEF RollbackStep, RestoreBreaks
  <2> QED
    BY <2>1, <2>2
<1>8. ASSUME NEW r \in Runs, MainStep(r) PROVE Stands(t)'
  <2> DEFINE s == Main(r)
  <2>0. s \in Scripts /\ RunOf(s) = r /\ s # Dog(r) /\ Dog(r) \in Scripts
    BY Names
  <2>1. CASE t = s
    <3>1. CASE CopyFile(r) \/ CopyFails(r)
      BY <2>1, <3>1, CopyStands
    <3>2. CASE Restart(r) \/ Health(r)
      BY <1>1, <2>0, <2>1, <3>2, FileNumbers
      DEF Restart, Health, FallBack, Goto, history, Stands, Swapped, BootInv, BootTypeOK
    <3>3. CASE Finish(r) \/ CancelWatchdog(r)
      BY <1>1, <2>0, <2>1, <3>3
      DEF Finish, CancelWatchdog, Goto, history, Stands, Swapped, BootInv, BootTypeOK
    <3>4. CASE ReportSuccess(r)
      BY <2>0, <2>1, <3>4, Bystander DEF ReportSuccess, Goto, BootInv, BootTypeOK
    <3> QED
      BY <1>7, <1>8, <2>0, <3>1, <3>2, <3>3, <3>4 DEF MainStep
  <2>2. CASE t = Dog(r) /\ CancelWatchdog(r)
    BY <2>0, <2>2, Bystander DEF CancelWatchdog, BootInv, BootTypeOK
  <2>3. CASE t # s /\ ~(t = Dog(r) /\ CancelWatchdog(r)) /\ ~RollbackStep(s)
    <3>1. pc'[t] = pc[t] /\ at'[t] = at[t]
      BY <1>8, <2>0, <2>3
      DEF MainStep, CopyFile, CopyFails, Restart, Health, Finish, CancelWatchdog, ReportSuccess,
        FallBack, NextFile, Goto, BootInv, BootTypeOK
    <3>2. CASE CopyFile(r)
      BY <2>0, <2>3, <3>1, <3>2, WriteSpoils DEF CopyFile
    <3>3. CASE ~CopyFile(r)
      <4>1. /\ live' = live /\ backup' = backup /\ t \notin spoiled
            /\ staging' = staging \/ staging' = 0
            /\ missed[RunOf(t)] \subseteq missed'[RunOf(t)]
            /\ unrestored' = unrestored
        BY <1>0, <1>8, <2>3, <3>3
        DEF MainStep, CopyFails, Restart, Health, Finish, CancelWatchdog, ReportSuccess,
          history, BootInv, BootTypeOK
      <4> QED
        BY <1>1, <3>1, <4>1, Stays
    <3> QED
      BY <3>2, <3>3
  <2> QED
    BY <1>7, <2>0, <2>1, <2>2, <2>3
<1>9. ASSUME NEW r \in Runs, DogStep(r) PROVE Stands(t)'
  <2>0. Dog(r) \in Scripts /\ Main(r) \in Scripts /\ Main(r) # Dog(r)
    BY Names
  <2>1. CASE WakeUp(r)
    <3>1. CASE t = Dog(r)
      <4>1. at'[t] = 1 /\ pc'[t] \in {"ended", "restore"}
        BY <2>0, <2>1, <3>1 DEF WakeUp, Goto, BootInv, BootTypeOK, Fresh
      <4> QED
        BY <4>1, FileNumbers DEF Stands, Swapped
    <3>2. CASE t # Dog(r)
      BY <1>1, <2>1, <3>2, Stays DEF WakeUp, Goto, history, BootInv, BootTypeOK
    <3> QED
      BY <3>1, <3>2
  <2>2. CASE KillGroup(r)
    <3>1. CASE t \in {Main(r), Dog(r)}
      BY <2>0, <2>2, <3>1, Bystander DEF KillGroup, BootInv, BootTypeOK
    <3>2. CASE t \notin {Main(r), Dog(r)}
      BY <1>1, <2>2, <3>2, Stays DEF KillGroup, history, BootInv, BootTypeOK
    <3> QED
      BY <3>1, <3>2
  <2> QED
    BY <1>7, <1>9, <2>0, <2>1, <2>2 DEF DogStep
<1>10. ASSUME NEW s \in Scripts, Hang(s) \/ Return(s) PROVE Stands(t)'
  BY <1>1, <1>10, Stays DEF Hang, Return, scripts, history
<1>11. CASE UNCHANGED vars
  BY <1>1, <1>11, Stays DEF vars, scripts, history
<1> QED
  BY <1>2, <1>3, <1>4, <1>5, <1>6, <1>8, <1>9, <1>10, <1>11 DEF Next

-----------------------------------------------------------------------------
\* The inductive invariant holds in every reachable state of the scripts.
THEOREM BootInvariance == Spec => []BootInv
<1>1. BootInv /\ [Next]_vars => BootInv'
  BY FrameStep, FilesStep DEF BootInv
<1> QED
  BY BootInit, <1>1, PTL DEF Spec

\* Only the end of a run and the end of a rollback write last_update.json.
LEMMA WritesResult ==
  ASSUME Next, result' # result
  PROVE  (\E r \in Runs : ReportSuccess(r)) \/ (\E s \in Scripts : Confirm(s))
BY Names DEF Next, StageUpdate, Cancel, Launch, AppRestart, PowerCut, MainStep, DogStep, Hang,
  Return, CopyFile, CopyFails, Restart, Health, Finish, CancelWatchdog, RollbackStep, Restore,
  RestoreSkips, RestoreBreaks, Revive, WakeUp, KillGroup

(* "Updated to v..." stands over a project whose every file is the release's, but
   for those whose copy failed unnoticed (write_result success, updater.py:739). *)
THEOREM HonestSuccess == Spec => SuccessIsInstalled
<1>1. BootInv /\ [Next]_vars =>
        [\A r \in Runs : Main(r) \notin spoiled /\ Reports(r, "success") =>
           \A f \in Files \ missed[r] : live[f] = r]_vars
  <2> SUFFICES ASSUME BootInv, Next, NEW r \in Runs, Main(r) \notin spoiled,
                      Reports(r, "success")
               PROVE  \A f \in Files \ missed[r] : live[f] = r
    BY DEF vars, Reports
  <2>1. PICK q \in Runs : ReportSuccess(q)
    BY WritesResult DEF Reports, Confirm
  <2>2. q = r /\ pc[Main(r)] = "report" /\ Main(r) \in Scripts /\ RunOf(Main(r)) = r
    BY <2>1, Names DEF Reports, ReportSuccess
  <2> QED
    BY <2>2 DEF BootInv, FilesFit, Stands, Swapped
<1> QED
  BY BootInvariance, <1>1, PTL DEF Spec, SuccessIsInstalled

(* "Rolled back to the previous version" stands over a service that answers and,
   file by file, over what the run found, but for the files its restore failed on or
   did not get to: from the EXIT trap, wherever the main script left its path, and from the
   watchdog, while the main script hangs (rollback, updater.py:699-706). *)
THEOREM HonestRollback == Spec => RolledBackIsRestored
<1>1. BootInv /\ [Next]_vars =>
        [\A s \in Scripts \ spoiled :
           pc[s] = "confirm" /\ pc'[s] # "confirm" /\ Reports(RunOf(s), "rolled_back") =>
             /\ app # "down"
             /\ \A f \in Files \ unrestored[s] : live[f] = backup[RunOf(s)][f]]_vars
  <2> SUFFICES ASSUME BootInv, Next, NEW s \in Scripts \ spoiled, pc[s] = "confirm",
                      Reports(RunOf(s), "rolled_back")
               PROVE  /\ app # "down"
                      /\ \A f \in Files \ unrestored[s] : live[f] = backup[RunOf(s)][f]
    BY DEF vars, Reports
  <2>1. \A f \in Files \ unrestored[s] : live[f] = backup[RunOf(s)][f]
    BY DEF BootInv, FilesFit, Stands
  <2>2. PICK t \in Scripts : Confirm(t)
    BY WritesResult DEF Reports, ReportSuccess
  <2>3. app # "down"
    BY <2>2 DEF Confirm, Reports
  <2> QED
    BY <2>1, <2>3
<1> QED
  BY BootInvariance, <1>1, PTL DEF Spec, RolledBackIsRestored
===============================================================================
