------------------------- MODULE UpdateApply_proofs -------------------------
(***************************************************************************)
(* Proofs about UpdateGate and UpdateApply.  First the gate, for any       *)
(* number of clients, updates and answers: types, consent, refusal and one *)
(* update at a time.  Then, for every release, every number of files and   *)
(* every behaviour of the clients: the files never disturb the gate, and   *)
(* what the updater promises about the files.                              *)
(***************************************************************************)
EXTENDS UpdateApply, TLAPS

-----------------------------------------------------------------------------
(* The gate.                                                                *)

\* The phase tells what the worker is doing: over, working, or in a gate.
PhaseFits ==
  /\ worker = "none" <=> phase \in {"idle", "failed", "restarting"}
  /\ worker \in {"stage1", "stage2"} <=> phase = "working"

\* A gate is open to answers only while the worker is parked at it, and offers
\* what that gate offers.
OfferFits == decide # "none" => worker \in Parked /\ decide = Offer(gate)

\* A PROCEED anywhere between the answer and stage 2 is an approval of this run.
ProceedApproved ==
  /\ worker \in Parked /\ choice = "proceed" => gate = "staged" /\ approved
  /\ worker = "resume" /\ verdict = "proceed" => gate = "staged" /\ approved
  /\ worker = "stage2" => approved

\* The inductive invariant.  AppliesWithConsent and RefusedMeansRefused are not
\* inductive: they speak of the worker past the gate, and what it finds there
\* was decided by the offer and the choice while it was parked.
IInv == TypeOK /\ PhaseFits /\ OfferFits /\ ProceedApproved

\* The initial state, with no worker and no gate, satisfies the invariant.
LEMMA InitIInv == Init => IInv
<1> SUFFICES ASSUME Init PROVE IInv
  OBVIOUS
<1>1. TypeOK
  BY DEF Init, TypeOK, Gates, Answers, Parked
<1>2. PhaseFits /\ OfferFits
  BY DEF Init, PhaseFits, OfferFits
<1>3. ProceedApproved
  BY DEF Init, ProceedApproved, Parked
<1> QED BY <1>1, <1>2, <1>3 DEF IInv

\* Parking opens the gate with its own offer and forgets every earlier choice.
LEMMA ParkKeeps ==
  ASSUME IInv, worker \in {"stage1", "stage2"},
         NEW g \in Gates, Park(g)
  PROVE  IInv'
<1> USE DEF IInv, Park, history
<1>1. TypeOK'
  BY DEF TypeOK, Gates, Answers, Parked, Offer
<1>2. PhaseFits'
  BY DEF TypeOK, PhaseFits, Parked
<1>3. OfferFits'
  BY DEF TypeOK, OfferFits, Parked, Offer
<1>4. ProceedApproved'
  BY DEF TypeOK, ProceedApproved, Parked
<1> QED BY <1>1, <1>2, <1>3, <1>4

\* An accepted answer is a PROCEED only at the staged gate, where it approves the run.
LEMMA DecideKeeps ==
  ASSUME IInv, NEW c \in Clients, NEW answer \in Answers, ApiUpdateDecide(c, answer)
  PROVE  IInv'
<1> USE DEF IInv, ApiUpdateDecide, thread
<1>1. TypeOK'
  BY DEF TypeOK, Answers
<1>2. PhaseFits'
  BY DEF PhaseFits
<1>3. OfferFits'
  BY DEF OfferFits
<1>4. ProceedApproved'
  <2>1. CASE decide = "either"
    <3>1. gate = "staged"
      BY <2>1 DEF OfferFits, Offer
    <3> QED BY <2>1, <3>1 DEF TypeOK, ProceedApproved, Answers
  <2>2. CASE decide # "either"
    BY <2>2 DEF TypeOK, ProceedApproved
  <2> QED BY <2>1, <2>2
<1> QED BY <1>1, <1>2, <1>3, <1>4

\* Every step preserves the invariant.
LEMMA NextIInv == IInv /\ [Next]_vars => IInv'
<1> SUFFICES ASSUME IInv, [Next]_vars PROVE IInv'
  OBVIOUS
<1> USE DEF IInv
<1>1. CASE ApiUpdateStart
  <2>1. TypeOK'
    <3>1. runs' \in Nat
      BY <1>1 DEF ApiUpdateStart, TypeOK
    <3>2. approved' \in BOOLEAN
      BY <1>1 DEF ApiUpdateStart
    <3> QED BY <1>1, <3>1, <3>2, Zenon DEF ApiUpdateStart, TypeOK, Parked
  <2>2. PhaseFits' /\ OfferFits'
    BY <1>1 DEF ApiUpdateStart, PhaseFits, OfferFits
  <2>3. ProceedApproved'
    BY <1>1 DEF ApiUpdateStart, ProceedApproved, Parked
  <2> QED BY <2>1, <2>2, <2>3
<1>2. ASSUME NEW c \in Clients, NEW answer \in Answers, ApiUpdateDecide(c, answer)
      PROVE  IInv'
  BY <1>2, DecideKeeps
<1>3. ASSUME NEW c \in Clients, SetEvent(c) PROVE IInv'
  BY <1>3 DEF SetEvent, thread, history, TypeOK, PhaseFits, OfferFits, ProceedApproved
<1>4. CASE EndStage1
  BY <1>4, ParkKeeps DEF EndStage1
<1>5. CASE Clear
  BY <1>5 DEF Clear, history, TypeOK, PhaseFits, OfferFits, ProceedApproved, Parked
<1>6. CASE Wake
  BY <1>6 DEF Wake, shared, history, TypeOK, PhaseFits, OfferFits, ProceedApproved, Parked
<1>7. CASE TimeOut
  BY <1>7 DEF TimeOut, shared, history, TypeOK, PhaseFits, OfferFits, ProceedApproved, Parked
<1>8. CASE Read
  BY <1>8 DEF Read, history, TypeOK, PhaseFits, OfferFits, ProceedApproved, Parked, Answers
<1>9. CASE Resume
  BY <1>9 DEF Resume, history, TypeOK, PhaseFits, OfferFits, ProceedApproved, Parked
<1>10. CASE EndUpdate
  BY <1>10 DEF EndUpdate, history, TypeOK, PhaseFits, OfferFits, ProceedApproved, Parked
<1>11. CASE EndStage2
  <2>1. CASE Park("error")
    BY <1>11, <2>1, ParkKeeps DEF EndStage2, Gates
  <2>2. CASE ~Park("error")
    BY <1>11, <2>2
    DEF EndStage2, history, TypeOK, PhaseFits, OfferFits, ProceedApproved, Parked
  <2> QED BY <2>1, <2>2
<1>12. CASE ProcessRestart
  BY <1>12 DEF ProcessRestart, history, TypeOK, PhaseFits, OfferFits, ProceedApproved, Parked
<1>13. CASE UNCHANGED vars
  BY <1>13
  DEF vars, shared, thread, history, TypeOK, PhaseFits, OfferFits, ProceedApproved
<1> QED
  BY <1>1, <1>2, <1>3, <1>4, <1>5, <1>6, <1>7, <1>8, <1>9, <1>10, <1>11, <1>12, <1>13
  DEF Next, Worker

\* The inductive invariant holds in every reachable state of the gate.
THEOREM GateInvariance == Spec => []IInv
  BY InitIInv, NextIInv, PTL DEF Spec

\* _update_state, the choice, the event and the worker keep their types.
THEOREM GateTypes == Spec => []TypeOK
  BY GateInvariance, PTL DEF IInv

\* No answer, timeout or late event.set() takes the updater to stage 2 unless an
\* operator approved this run at its staged gate.
THEOREM Consent == Spec => []AppliesWithConsent
<1>1. IInv => AppliesWithConsent
  BY DEF IInv, ProceedApproved, AppliesWithConsent
<1> QED BY <1>1, GateInvariance, PTL

\* A gate that offers REVERT only returns REVERT.
THEOREM Refusal == Spec => []RefusedMeansRefused
<1>1. IInv => RefusedMeansRefused
  BY DEF IInv, TypeOK, ProceedApproved, RefusedMeansRefused, Answers
<1> QED BY <1>1, GateInvariance, PTL

\* api_update_start never finds a worker still running.
THEOREM Exclusion == Spec => OneUpdateAtATime
<1>1. IInv /\ [Next]_vars => [runs' # runs => worker = "none"]_vars
  <2> SUFFICES ASSUME IInv, Next, runs' # runs PROVE worker = "none"
    BY DEF vars
  <2>1. CASE ApiUpdateStart
    BY <2>1 DEF ApiUpdateStart, IInv, PhaseFits
  <2>2. CASE ~ApiUpdateStart
    <3>1. runs' = runs
      BY <2>2 DEF Next, Worker, ApiUpdateDecide, SetEvent, EndStage1, Park, Clear, Wake,
        TimeOut, Read, Resume, EndUpdate, EndStage2, ProcessRestart, history
    <3> QED BY <3>1
  <2> QED BY <2>1, <2>2
<1> QED BY <1>1, GateInvariance, PTL DEF Spec, OneUpdateAtATime

-----------------------------------------------------------------------------
(* The files.                                                               *)

\* The task is one the worker has at that stage; a dead process has no worker.
TaskFits ==
  /\ worker = "stage1" <=> task \in {"fetch", "backup", "ready"}
  /\ worker = "stage2" <=> task \in {"swap", "verify"}
  /\ task = "restore" => worker = "cleanup" /\ swapped
  /\ worker = "cleanup" /\ swapped => task = "restore"
  /\ process = "down" => phase = "idle"

\* Before rollback is armed nothing has changed; once it is, the run is approved
\* and its backup is what the run found.
Guarded ==
  /\ worker # "none" /\ ~swapped => live = base
  /\ worker # "none" /\ swapped => approved /\ backup = base
  /\ task = "ready" => backup = base
  /\ worker \in Parked \cup {"resume"} /\ gate = "staged" => backup = base
  /\ worker = "stage1" => ~swapped
  /\ worker = "stage2" => swapped

\* Verification has seen the release in every file it visited, and the restore has
\* put back every file it visited.
Visited ==
  /\ task = "verify" => \A f \in Files \ todo : live[f] = "new"
  /\ task = "restore" /\ ~torn => \A f \in Files \ todo : live[f] = base[f]

\* A marker that still says restarting stands over a complete release.
MarkerFits ==
  marker = "restarting" =>
    live = Installed("new") /\ (phase = "restarting" \/ process = "down")

\* The inductive invariant of the files, on top of the gate's.
FInv ==
  /\ IInv
  /\ FilesTypeOK
  /\ TaskFits
  /\ Guarded
  /\ Visited
  /\ FailedLeavesNothing
  /\ RestartsIntoRelease
  /\ MarkerFits

-----------------------------------------------------------------------------
(* The gate is untouched: every step is a step of it or leaves it alone.    *)

\* What happens to the files never moves the gate out of turn.
LEMMA GateStep == [ApplyNext]_applyVars => [Next]_vars
<1> SUFFICES ASSUME [ApplyNext]_applyVars PROVE [Next]_vars
  OBVIOUS
<1>1. CASE StartUpdate
  BY <1>1 DEF StartUpdate, Next
<1>2. CASE RequestStep
  BY <1>2 DEF RequestStep, Next
<1>3. CASE LeaveStage1
  BY <1>3 DEF LeaveStage1, Next, Worker
<1>4. CASE (Clear \/ Wake \/ TimeOut \/ Read) /\ UNCHANGED files
  BY <1>4 DEF Next, Worker
<1>5. CASE LeaveGate
  BY <1>5 DEF LeaveGate, Next, Worker
<1>6. CASE Stage2Fails \/ HandOver
  BY <1>6 DEF Stage2Fails, HandOver, Next, Worker
<1>7. CASE FinishUpdate
  BY <1>7 DEF FinishUpdate, Next, Worker
<1>8. CASE Exit
  BY <1>8 DEF Exit, Next
<1>9. CASE \E f \in Files : SwapFile(f) \/ VerifyFile(f) \/ RestoreFile(f) \/ SkipDelete(f)
  BY <1>9 DEF SwapFile, VerifyFile, RestoreFile, SkipDelete
<1>10. CASE DownloadAndVerify \/ MakeBackup \/ BeginVerify \/ RestoreFails \/ Boot \/ AckResult
  BY <1>10 DEF DownloadAndVerify, MakeBackup, BeginVerify, RestoreFails, Boot, AckResult
<1>11. CASE UNCHANGED applyVars
  BY <1>11 DEF applyVars
<1> QED
  BY <1>1, <1>2, <1>3, <1>4, <1>5, <1>6, <1>7, <1>8, <1>9, <1>10, <1>11 DEF ApplyNext, WorkerStep

\* Every step keeps the types.
LEMMA TypesStep ==
  ASSUME FInv, IInv', [ApplyNext]_applyVars
  PROVE  FilesTypeOK'
<1> USE DEF FInv, IInv, FilesTypeOK, Contents, Installed
<1>1. CASE StartUpdate
  BY <1>1 DEF StartUpdate, ApiUpdateStart, thread
<1>2. CASE RequestStep
  BY <1>2 DEF RequestStep, SetEvent, ApiUpdateDecide, thread, history, files
<1>3. CASE DownloadAndVerify
  BY <1>3 DEF DownloadAndVerify, vars, shared, thread, history
<1>4. CASE MakeBackup
  BY <1>4 DEF MakeBackup, vars, shared, thread, history
<1>5. CASE LeaveStage1
  BY <1>5 DEF LeaveStage1, EndStage1, Park, Gates, history
<1>6. CASE (Clear \/ Wake \/ TimeOut \/ Read) /\ UNCHANGED files
  BY <1>6 DEF Clear, Wake, TimeOut, Read, shared, thread, history, files
<1>7. CASE LeaveGate
  BY <1>7 DEF LeaveGate, Resume, history
<1>8. ASSUME NEW f \in Files, SwapFile(f) PROVE FilesTypeOK'
  BY <1>8 DEF SwapFile, vars, shared, thread, history
<1>9. ASSUME NEW f \in Files, VerifyFile(f) PROVE FilesTypeOK'
  BY <1>9 DEF VerifyFile, vars, shared, thread, history
<1>10. ASSUME NEW f \in Files, RestoreFile(f) PROVE FilesTypeOK'
  <2>1. backup = base
    BY <1>10 DEF RestoreFile, TaskFits, Guarded
  <2>2. live' \in [Files -> Contents]
    BY <1>10, <2>1 DEF RestoreFile
  <2> QED BY <1>10, <2>2 DEF RestoreFile, vars, shared, thread, history
<1>11. ASSUME NEW f \in Files, SkipDelete(f) PROVE FilesTypeOK'
  BY <1>11 DEF SkipDelete, vars, shared, thread, history
<1>12. CASE BeginVerify
  BY <1>12 DEF BeginVerify, vars, shared, thread, history
<1>13. CASE Stage2Fails
  BY <1>13 DEF Stage2Fails, EndStage2, Park, history
<1>14. CASE HandOver
  BY <1>14 DEF HandOver, WriteUpdateResult, EndStage2, Park, history
<1>15. CASE RestoreFails
  BY <1>15 DEF RestoreFails, vars, shared, thread, history
<1>16. CASE FinishUpdate
  BY <1>16 DEF FinishUpdate, EndUpdate, history
<1>17. CASE Exit
  BY <1>17 DEF Exit, ProcessRestart, history
<1>18. CASE Boot
  BY <1>18 DEF Boot, Promoted, vars, shared, thread, history
<1>19. CASE AckResult
  BY <1>19 DEF AckResult, vars, shared, thread, history
<1>20. CASE UNCHANGED applyVars
  BY <1>20 DEF applyVars, files, vars, shared, thread, history
<1> QED
  BY <1>1, <1>2, <1>3, <1>4, <1>5, <1>6, <1>7, <1>8, <1>9, <1>10, <1>11, <1>12, <1>13, <1>14, <1>15, <1>16, <1>17, <1>18, <1>19, <1>20
  DEF ApplyNext, WorkerStep

\* Every step keeps the task in line with the worker.
LEMMA TaskStep ==
  ASSUME FInv, IInv', [ApplyNext]_applyVars, FilesTypeOK'
  PROVE  TaskFits'
<1> USE DEF FInv, IInv, PhaseFits, TypeOK, TaskFits, Parked
<1>1. CASE StartUpdate
  BY <1>1 DEF StartUpdate, ApiUpdateStart, thread
<1>2. CASE RequestStep
  BY <1>2 DEF RequestStep, SetEvent, ApiUpdateDecide, thread, history, files
<1>3. CASE DownloadAndVerify
  BY <1>3 DEF DownloadAndVerify, vars, shared, thread, history
<1>4. CASE MakeBackup
  BY <1>4 DEF MakeBackup, vars, shared, thread, history
<1>5. CASE LeaveStage1
  BY <1>5 DEF LeaveStage1, EndStage1, Park, Gates, history
<1>6. CASE (Clear \/ Wake \/ TimeOut \/ Read) /\ UNCHANGED files
  BY <1>6 DEF Clear, Wake, TimeOut, Read, shared, thread, history, files
<1>7. CASE LeaveGate
  BY <1>7 DEF LeaveGate, Resume, history
<1>8. ASSUME NEW f \in Files, SwapFile(f) PROVE TaskFits'
  BY <1>8 DEF SwapFile, vars, shared, thread, history
<1>9. ASSUME NEW f \in Files, VerifyFile(f) PROVE TaskFits'
  BY <1>9 DEF VerifyFile, vars, shared, thread, history
<1>10. ASSUME NEW f \in Files, RestoreFile(f) PROVE TaskFits'
  BY <1>10 DEF RestoreFile, vars, shared, thread, history
<1>11. ASSUME NEW f \in Files, SkipDelete(f) PROVE TaskFits'
  BY <1>11 DEF SkipDelete, vars, shared, thread, history
<1>12. CASE BeginVerify
  BY <1>12 DEF BeginVerify, vars, shared, thread, history
<1>13. CASE Stage2Fails
  BY <1>13 DEF Stage2Fails, EndStage2, Park, history
<1>14. CASE HandOver
  BY <1>14 DEF HandOver, WriteUpdateResult, EndStage2, Park, history
<1>15. CASE RestoreFails
  BY <1>15 DEF RestoreFails, vars, shared, thread, history
<1>16. CASE FinishUpdate
  BY <1>16 DEF FinishUpdate, EndUpdate, history
<1>17. CASE Exit
  BY <1>17 DEF Exit, ProcessRestart, history
<1>18. CASE Boot
  BY <1>18 DEF Boot, Promoted, vars, shared, thread, history
<1>19. CASE AckResult
  BY <1>19 DEF AckResult, vars, shared, thread, history
<1>20. CASE UNCHANGED applyVars
  BY <1>20 DEF applyVars, files, vars, shared, thread, history
<1> QED
  BY <1>1, <1>2, <1>3, <1>4, <1>5, <1>6, <1>7, <1>8, <1>9, <1>10, <1>11, <1>12, <1>13, <1>14, <1>15, <1>16, <1>17, <1>18, <1>19, <1>20
  DEF ApplyNext, WorkerStep

\* Every step keeps the run guarded by its approval and its backup.
LEMMA GuardedStep ==
  ASSUME FInv, IInv', [ApplyNext]_applyVars, FilesTypeOK', TaskFits'
  PROVE  Guarded'
<1> USE DEF FInv, IInv, TypeOK, PhaseFits, ProceedApproved, TaskFits, Guarded, Parked
<1>1. CASE StartUpdate
  BY <1>1 DEF StartUpdate, ApiUpdateStart, thread
<1>2. CASE RequestStep
  BY <1>2 DEF RequestStep, SetEvent, ApiUpdateDecide, thread, history, files
<1>3. CASE DownloadAndVerify
  BY <1>3 DEF DownloadAndVerify, vars, shared, thread, history
<1>4. CASE MakeBackup
  BY <1>4 DEF MakeBackup, vars, shared, thread, history
<1>5. CASE LeaveStage1
  BY <1>5 DEF LeaveStage1, EndStage1, Park, Gates, history
<1>6. CASE (Clear \/ Wake \/ TimeOut \/ Read) /\ UNCHANGED files
  BY <1>6 DEF Clear, Wake, TimeOut, Read, shared, thread, history, files
<1>7. CASE LeaveGate
  BY <1>7 DEF LeaveGate, Resume, history
<1>8. ASSUME NEW f \in Files, SwapFile(f) PROVE Guarded'
  BY <1>8 DEF SwapFile, vars, shared, thread, history
<1>9. ASSUME NEW f \in Files, VerifyFile(f) PROVE Guarded'
  BY <1>9 DEF VerifyFile, vars, shared, thread, history
<1>10. ASSUME NEW f \in Files, RestoreFile(f) PROVE Guarded'
  BY <1>10 DEF RestoreFile, vars, shared, thread, history
<1>11. ASSUME NEW f \in Files, SkipDelete(f) PROVE Guarded'
  BY <1>11 DEF SkipDelete, vars, shared, thread, history
<1>12. CASE BeginVerify
  BY <1>12 DEF BeginVerify, vars, shared, thread, history
<1>13. CASE Stage2Fails
  BY <1>13 DEF Stage2Fails, EndStage2, Park, history
<1>14. CASE HandOver
  BY <1>14 DEF HandOver, WriteUpdateResult, EndStage2, Park, history
<1>15. CASE RestoreFails
  BY <1>15 DEF RestoreFails, vars, shared, thread, history
<1>16. CASE FinishUpdate
  BY <1>16 DEF FinishUpdate, EndUpdate, history
<1>17. CASE Exit
  BY <1>17 DEF Exit, ProcessRestart, history
<1>18. CASE Boot
  BY <1>18 DEF Boot, Promoted, vars, shared, thread, history
<1>19. CASE AckResult
  BY <1>19 DEF AckResult, vars, shared, thread, history
<1>20. CASE UNCHANGED applyVars
  BY <1>20 DEF applyVars, files, vars, shared, thread, history
<1> QED
  BY <1>1, <1>2, <1>3, <1>4, <1>5, <1>6, <1>7, <1>8, <1>9, <1>10, <1>11, <1>12, <1>13, <1>14, <1>15, <1>16, <1>17, <1>18, <1>19, <1>20
  DEF ApplyNext, WorkerStep

\* Every step keeps what the passes over the files have established.
LEMMA VisitedStep ==
  ASSUME FInv, IInv', [ApplyNext]_applyVars, FilesTypeOK', TaskFits'
  PROVE  Visited'
<1> USE DEF FInv, FilesTypeOK, IInv, PhaseFits, TaskFits, Guarded, Visited, Parked
<1>1. CASE StartUpdate
  BY <1>1 DEF StartUpdate, ApiUpdateStart, thread
<1>2. CASE RequestStep
  BY <1>2 DEF RequestStep, SetEvent, ApiUpdateDecide, thread, history, files
<1>3. CASE DownloadAndVerify
  BY <1>3 DEF DownloadAndVerify, vars, shared, thread, history
<1>4. CASE MakeBackup
  BY <1>4 DEF MakeBackup, vars, shared, thread, history
<1>5. CASE LeaveStage1
  BY <1>5 DEF LeaveStage1, EndStage1, Park, Gates, history
<1>6. CASE (Clear \/ Wake \/ TimeOut \/ Read) /\ UNCHANGED files
  BY <1>6 DEF Clear, Wake, TimeOut, Read, shared, thread, history, files
<1>7. CASE LeaveGate
  BY <1>7 DEF LeaveGate, Resume, history
<1>8. ASSUME NEW f \in Files, SwapFile(f) PROVE Visited'
  BY <1>8 DEF SwapFile, vars, shared, thread, history
<1>9. ASSUME NEW f \in Files, VerifyFile(f) PROVE Visited'
  BY <1>9 DEF VerifyFile, vars, shared, thread, history
<1>10. ASSUME NEW f \in Files, RestoreFile(f) PROVE Visited'
  BY <1>10 DEF RestoreFile, vars, shared, thread, history
<1>11. ASSUME NEW f \in Files, SkipDelete(f) PROVE Visited'
  BY <1>11 DEF SkipDelete, vars, shared, thread, history
<1>12. CASE BeginVerify
  BY <1>12 DEF BeginVerify, vars, shared, thread, history
<1>13. CASE Stage2Fails
  BY <1>13 DEF Stage2Fails, EndStage2, Park, history
<1>14. CASE HandOver
  BY <1>14 DEF HandOver, WriteUpdateResult, EndStage2, Park, history
<1>15. CASE RestoreFails
  BY <1>15 DEF RestoreFails, vars, shared, thread, history
<1>16. CASE FinishUpdate
  BY <1>16 DEF FinishUpdate, EndUpdate, history
<1>17. CASE Exit
  BY <1>17 DEF Exit, ProcessRestart, history
<1>18. CASE Boot
  BY <1>18 DEF Boot, Promoted, vars, shared, thread, history
<1>19. CASE AckResult
  BY <1>19 DEF AckResult, vars, shared, thread, history
<1>20. CASE UNCHANGED applyVars
  BY <1>20 DEF applyVars, files, vars, shared, thread, history
<1> QED
  BY <1>1, <1>2, <1>3, <1>4, <1>5, <1>6, <1>7, <1>8, <1>9, <1>10, <1>11, <1>12, <1>13, <1>14, <1>15, <1>16, <1>17, <1>18, <1>19, <1>20
  DEF ApplyNext, WorkerStep

\* An update ends with every file as it was found.
LEMMA FailedStep ==
  ASSUME FInv, IInv', [ApplyNext]_applyVars, FilesTypeOK', TaskFits'
  PROVE  FailedLeavesNothing'
<1> USE DEF FInv, FilesTypeOK, IInv, PhaseFits, TaskFits, Guarded, Visited, FailedLeavesNothing, Parked
<1>1. CASE StartUpdate
  BY <1>1 DEF StartUpdate, ApiUpdateStart, thread
<1>2. CASE RequestStep
  BY <1>2 DEF RequestStep, SetEvent, ApiUpdateDecide, thread, history, files
<1>3. CASE DownloadAndVerify
  BY <1>3 DEF DownloadAndVerify, vars, shared, thread, history
<1>4. CASE MakeBackup
  BY <1>4 DEF MakeBackup, vars, shared, thread, history
<1>5. CASE LeaveStage1
  BY <1>5 DEF LeaveStage1, EndStage1, Park, Gates, history
<1>6. CASE (Clear \/ Wake \/ TimeOut \/ Read) /\ UNCHANGED files
  BY <1>6 DEF Clear, Wake, TimeOut, Read, shared, thread, history, files
<1>7. CASE LeaveGate
  BY <1>7 DEF LeaveGate, Resume, history
<1>8. ASSUME NEW f \in Files, SwapFile(f) PROVE FailedLeavesNothing'
  BY <1>8 DEF SwapFile, vars, shared, thread, history
<1>9. ASSUME NEW f \in Files, VerifyFile(f) PROVE FailedLeavesNothing'
  BY <1>9 DEF VerifyFile, vars, shared, thread, history
<1>10. ASSUME NEW f \in Files, RestoreFile(f) PROVE FailedLeavesNothing'
  BY <1>10 DEF RestoreFile, vars, shared, thread, history
<1>11. ASSUME NEW f \in Files, SkipDelete(f) PROVE FailedLeavesNothing'
  BY <1>11 DEF SkipDelete, vars, shared, thread, history
<1>12. CASE BeginVerify
  BY <1>12 DEF BeginVerify, vars, shared, thread, history
<1>13. CASE Stage2Fails
  BY <1>13 DEF Stage2Fails, EndStage2, Park, history
<1>14. CASE HandOver
  BY <1>14 DEF HandOver, WriteUpdateResult, EndStage2, Park, history
<1>15. CASE RestoreFails
  BY <1>15 DEF RestoreFails, vars, shared, thread, history
<1>16. CASE FinishUpdate
  BY <1>16 DEF FinishUpdate, EndUpdate, history
<1>17. CASE Exit
  BY <1>17 DEF Exit, ProcessRestart, history
<1>18. CASE Boot
  BY <1>18 DEF Boot, Promoted, vars, shared, thread, history
<1>19. CASE AckResult
  BY <1>19 DEF AckResult, vars, shared, thread, history
<1>20. CASE UNCHANGED applyVars
  BY <1>20 DEF applyVars, files, vars, shared, thread, history
<1> QED
  BY <1>1, <1>2, <1>3, <1>4, <1>5, <1>6, <1>7, <1>8, <1>9, <1>10, <1>11, <1>12, <1>13, <1>14, <1>15, <1>16, <1>17, <1>18, <1>19, <1>20
  DEF ApplyNext, WorkerStep

\* The restart is announced over a complete release, and nothing changes after it.
LEMMA RestartStep ==
  ASSUME FInv, IInv', [ApplyNext]_applyVars, FilesTypeOK', TaskFits'
  PROVE  RestartsIntoRelease'
<1> USE DEF FInv, FilesTypeOK, IInv, PhaseFits, TaskFits, Visited, RestartsIntoRelease, Installed, Parked
<1>1. CASE StartUpdate
  BY <1>1 DEF StartUpdate, ApiUpdateStart, thread
<1>2. CASE RequestStep
  BY <1>2 DEF RequestStep, SetEvent, ApiUpdateDecide, thread, history, files
<1>3. CASE DownloadAndVerify
  BY <1>3 DEF DownloadAndVerify, vars, shared, thread, history
<1>4. CASE MakeBackup
  BY <1>4 DEF MakeBackup, vars, shared, thread, history
<1>5. CASE LeaveStage1
  BY <1>5 DEF LeaveStage1, EndStage1, Park, Gates, history
<1>6. CASE (Clear \/ Wake \/ TimeOut \/ Read) /\ UNCHANGED files
  BY <1>6 DEF Clear, Wake, TimeOut, Read, shared, thread, history, files
<1>7. CASE LeaveGate
  BY <1>7 DEF LeaveGate, Resume, history
<1>8. ASSUME NEW f \in Files, SwapFile(f) PROVE RestartsIntoRelease'
  BY <1>8 DEF SwapFile, vars, shared, thread, history
<1>9. ASSUME NEW f \in Files, VerifyFile(f) PROVE RestartsIntoRelease'
  BY <1>9 DEF VerifyFile, vars, shared, thread, history
<1>10. ASSUME NEW f \in Files, RestoreFile(f) PROVE RestartsIntoRelease'
  BY <1>10 DEF RestoreFile, vars, shared, thread, history
<1>11. ASSUME NEW f \in Files, SkipDelete(f) PROVE RestartsIntoRelease'
  BY <1>11 DEF SkipDelete, vars, shared, thread, history
<1>12. CASE BeginVerify
  BY <1>12 DEF BeginVerify, vars, shared, thread, history
<1>13. CASE Stage2Fails
  BY <1>13 DEF Stage2Fails, EndStage2, Park, history
<1>14. CASE HandOver
  BY <1>14 DEF HandOver, WriteUpdateResult, EndStage2, Park, history
<1>15. CASE RestoreFails
  BY <1>15 DEF RestoreFails, vars, shared, thread, history
<1>16. CASE FinishUpdate
  BY <1>16 DEF FinishUpdate, EndUpdate, history
<1>17. CASE Exit
  BY <1>17 DEF Exit, ProcessRestart, history
<1>18. CASE Boot
  BY <1>18 DEF Boot, Promoted, vars, shared, thread, history
<1>19. CASE AckResult
  BY <1>19 DEF AckResult, vars, shared, thread, history
<1>20. CASE UNCHANGED applyVars
  BY <1>20 DEF applyVars, files, vars, shared, thread, history
<1> QED
  BY <1>1, <1>2, <1>3, <1>4, <1>5, <1>6, <1>7, <1>8, <1>9, <1>10, <1>11, <1>12, <1>13, <1>14, <1>15, <1>16, <1>17, <1>18, <1>19, <1>20
  DEF ApplyNext, WorkerStep

\* A marker stays over the release it announced until it is promoted.
LEMMA MarkerStep ==
  ASSUME FInv, IInv', [ApplyNext]_applyVars, FilesTypeOK', TaskFits', RestartsIntoRelease'
  PROVE  MarkerFits'
<1> USE DEF FInv, IInv, PhaseFits, TaskFits, RestartsIntoRelease, MarkerFits, Parked
<1>1. CASE StartUpdate
  BY <1>1 DEF StartUpdate, ApiUpdateStart, thread
<1>2. CASE RequestStep
  BY <1>2 DEF RequestStep, SetEvent, ApiUpdateDecide, thread, history, files
<1>3. CASE DownloadAndVerify
  BY <1>3 DEF DownloadAndVerify, vars, shared, thread, history
<1>4. CASE MakeBackup
  BY <1>4 DEF MakeBackup, vars, shared, thread, history
<1>5. CASE LeaveStage1
  BY <1>5 DEF LeaveStage1, EndStage1, Park, Gates, history
<1>6. CASE (Clear \/ Wake \/ TimeOut \/ Read) /\ UNCHANGED files
  BY <1>6 DEF Clear, Wake, TimeOut, Read, shared, thread, history, files
<1>7. CASE LeaveGate
  BY <1>7 DEF LeaveGate, Resume, history
<1>8. ASSUME NEW f \in Files, SwapFile(f) PROVE MarkerFits'
  BY <1>8 DEF SwapFile, vars, shared, thread, history
<1>9. ASSUME NEW f \in Files, VerifyFile(f) PROVE MarkerFits'
  BY <1>9 DEF VerifyFile, vars, shared, thread, history
<1>10. ASSUME NEW f \in Files, RestoreFile(f) PROVE MarkerFits'
  BY <1>10 DEF RestoreFile, vars, shared, thread, history
<1>11. ASSUME NEW f \in Files, SkipDelete(f) PROVE MarkerFits'
  BY <1>11 DEF SkipDelete, vars, shared, thread, history
<1>12. CASE BeginVerify
  BY <1>12 DEF BeginVerify, vars, shared, thread, history
<1>13. CASE Stage2Fails
  BY <1>13 DEF Stage2Fails, EndStage2, Park, history
<1>14. CASE HandOver
  BY <1>14 DEF HandOver, WriteUpdateResult, EndStage2, Park, history
<1>15. CASE RestoreFails
  BY <1>15 DEF RestoreFails, vars, shared, thread, history
<1>16. CASE FinishUpdate
  BY <1>16 DEF FinishUpdate, EndUpdate, history
<1>17. CASE Exit
  BY <1>17 DEF Exit, ProcessRestart, history
<1>18. CASE Boot
  BY <1>18 DEF Boot, Promoted, vars, shared, thread, history
<1>19. CASE AckResult
  BY <1>19 DEF AckResult, vars, shared, thread, history
<1>20. CASE UNCHANGED applyVars
  BY <1>20 DEF applyVars, files, vars, shared, thread, history
<1> QED
  BY <1>1, <1>2, <1>3, <1>4, <1>5, <1>6, <1>7, <1>8, <1>9, <1>10, <1>11, <1>12, <1>13, <1>14, <1>15, <1>16, <1>17, <1>18, <1>19, <1>20
  DEF ApplyNext, WorkerStep

\* The first state has the old release installed and no marker.
LEMMA InitFInv == ApplyInit => FInv
<1> SUFFICES ASSUME ApplyInit PROVE FInv
  OBVIOUS
<1>1. IInv
  BY InitIInv DEF ApplyInit
<1>2. Installed("old") \in [Files -> Contents]
  BY DEF Installed, Contents
<1>3. FilesTypeOK
  BY <1>1, <1>2 DEF IInv, ApplyInit, FilesTypeOK
<1>4. TaskFits /\ Guarded /\ Visited
  BY DEF ApplyInit, Init, TaskFits, Guarded, Visited, Parked
<1>5. FailedLeavesNothing /\ RestartsIntoRelease /\ MarkerFits
  BY DEF ApplyInit, Init, FailedLeavesNothing, RestartsIntoRelease, MarkerFits
<1> QED BY <1>1, <1>3, <1>4, <1>5 DEF FInv

\* Every step preserves the invariant of the files.
LEMMA NextFInv == FInv /\ [ApplyNext]_applyVars => FInv'
<1> SUFFICES ASSUME FInv, [ApplyNext]_applyVars PROVE FInv'
  OBVIOUS
<1>1. IInv'
  BY GateStep, NextIInv DEF FInv
<1>2. FilesTypeOK'
  BY <1>1, TypesStep
<1>3. TaskFits'
  BY <1>1, <1>2, TaskStep
<1>4. RestartsIntoRelease'
  BY <1>1, <1>2, <1>3, RestartStep
<1> QED
  BY <1>1, <1>2, <1>3, <1>4, GuardedStep, VisitedStep, FailedStep, MarkerStep DEF FInv

-----------------------------------------------------------------------------
(* What follows for every behaviour.                                        *)

\* The inductive invariant holds in every reachable state.
THEOREM ApplyInvariance == ApplySpec => []FInv
  BY InitFInv, NextFInv, PTL DEF ApplySpec

\* UpdateApply implements UpdateGate: consent, refusal and one update at a time
\* hold with the files in place.
THEOREM GateRefinement == ApplySpec => ImplementsGate
<1>1. ApplyInit => Init
  BY DEF ApplyInit
<1> QED BY <1>1, GateStep, PTL DEF ApplySpec, ImplementsGate, Spec

\* Every variable keeps its type.
THEOREM FilesTypes == ApplySpec => []FilesTypeOK
  BY ApplyInvariance, PTL DEF FInv

\* _run_update leaves every file as it found it unless it hands over to a restart or
\* its own rollback fails.
THEOREM AllOrNothing == ApplySpec => []FailedLeavesNothing
  BY ApplyInvariance, PTL DEF FInv

\* No live file is touched without the operator's PROCEED and a backup of it.
THEOREM Backed == ApplySpec => []TouchedWithConsentAndBackup
<1>1. FInv => TouchedWithConsentAndBackup
  BY DEF FInv, FilesTypeOK, Guarded, TouchedWithConsentAndBackup
<1> QED BY <1>1, ApplyInvariance, PTL

\* A restart is scheduled only over the complete, verified release.
THEOREM CompleteRelease == ApplySpec => []RestartsIntoRelease
  BY ApplyInvariance, PTL DEF FInv

\* The marker is promoted only where the complete release is installed.
THEOREM HonestSuccess == ApplySpec => SuccessIsInstalled
<1>1. FInv /\ [ApplyNext]_applyVars =>
        [marker' = "success" /\ marker # "success" => live = Installed("new")]_applyVars
  <2> SUFFICES ASSUME FInv, ApplyNext, marker' = "success", marker # "success"
               PROVE  live = Installed("new")
    OBVIOUS
  <2>1. CASE Boot
    BY <2>1 DEF Boot, Promoted, FInv, MarkerFits
  <2>2. CASE ~Boot
    <3>1. marker' \in {"restarting", "none", marker}
      BY <2>2 DEF ApplyNext, WorkerStep, StartUpdate, RequestStep, DownloadAndVerify, MakeBackup,
        LeaveStage1, LeaveGate, SwapFile, VerifyFile, RestoreFile, SkipDelete, BeginVerify,
        Stage2Fails, HandOver, WriteUpdateResult, RestoreFails, FinishUpdate, Exit, AckResult, files
    <3> QED BY <3>1
  <2> QED BY <2>1, <2>2
<1> QED BY <1>1, ApplyInvariance, PTL DEF ApplySpec, SuccessIsInstalled

-----------------------------------------------------------------------------
(* UpdateApply implements AtomicUpdate.                                     *)

\* With a worker at work, the armed rollback alone tells the stage; without one,
\* the phase does, and what is installed is what is there.
StageFits ==
  /\ worker # "none" =>
       /\ process = "up" /\ Found = base
       /\ Stage = IF swapped THEN "exchanging" ELSE "preparing"
  /\ worker = "none" /\ process = "up" =>
       /\ Found = live
       /\ phase = "failed" => Stage = "failed"
       /\ phase = "restarting" => Stage = "done"
       /\ phase = "idle" => Stage = "idle"
  /\ process = "down" => Stage = "down" /\ worker = "none" /\ Found = live
  /\ process = "up" => Stage # "down"

\* It follows from the invariant.
LEMMA StageOf == FInv => StageFits
<1> SUFFICES ASSUME FInv PROVE StageFits
  OBVIOUS
<1>1. process \in {"up", "down"}
  BY DEF FInv, FilesTypeOK
<1>2. process = "down" => worker = "none"
  BY DEF FInv, TaskFits, IInv, PhaseFits
<1>3. /\ worker # "none" => Found = base
      /\ worker = "none" => Found = live
  BY DEF Found
<1>4. process = "down" => Stage = "down"
  BY DEF Stage
<1>5. worker # "none" => process = "up" /\ Stage = IF swapped THEN "exchanging" ELSE "preparing"
  BY <1>1, <1>2 DEF Stage
<1>6. worker = "none" /\ process = "up" =>
        /\ phase = "failed" => Stage = "failed"
        /\ phase = "restarting" => Stage = "done"
        /\ phase = "idle" => Stage = "idle"
        /\ Stage # "down"
  BY DEF Stage
<1> QED BY <1>2, <1>3, <1>4, <1>5, <1>6 DEF StageFits

\* The same of the next state.
LEMMA StageOfNext == FInv' => StageFits'
  BY StageOf, PTL

\* Work between the start and the end of a run is not seen from outside.
LEMMA WorkIsHidden ==
  ASSUME StageFits, StageFits', worker # "none", worker' # "none",
         UNCHANGED <<swapped, torn, base, marker>>
  PROVE  UNCHANGED Atomic!vars
<1>1. Found' = Found /\ Stage' = Stage
  BY DEF StageFits
<1> QED BY <1>1 DEF Atomic!vars

\* Nor is what changes none of the things the promise is about.
LEMMA RestIsHidden ==
  ASSUME UNCHANGED <<phase, worker, live, base, process, swapped, torn, marker>>
  PROVE  UNCHANGED Atomic!vars
BY DEF Found, Stage, Atomic!vars

\* Every step of the updater is a step of the promise, or is not seen.
LEMMA AtomicStep ==
  FInv /\ FInv' /\ [ApplyNext]_applyVars => [Atomic!Next]_(Atomic!vars)
<1> SUFFICES ASSUME FInv, FInv', [ApplyNext]_applyVars PROVE [Atomic!Next]_(Atomic!vars)
  OBVIOUS
<1>0. StageFits /\ StageFits'
  BY StageOf, StageOfNext
<1>1. CASE StartUpdate
  <2>1. /\ worker = "none" /\ worker' = "stage1" /\ process = "up" /\ phase \in {"idle", "failed"}
        /\ swapped' = FALSE /\ torn' = FALSE /\ base' = live /\ UNCHANGED marker
    BY <1>1 DEF StartUpdate, ApiUpdateStart, FInv, IInv, PhaseFits
  <2>2. Found = live /\ Found' = live /\ Stage \in {"idle", "failed"} /\ Stage' = "preparing"
    BY <1>0, <2>1 DEF StageFits
  <2>3. Atomic!Begin
    BY <2>1, <2>2 DEF Atomic!Begin
  <2> QED BY <2>3 DEF Atomic!Next
<1>2. CASE RequestStep
  <2>1. UNCHANGED <<phase, worker, live, base, process, swapped, torn, marker>>
    BY <1>2 DEF RequestStep, SetEvent, ApiUpdateDecide, thread, files
  <2> QED BY <2>1, RestIsHidden
<1>3. CASE DownloadAndVerify \/ MakeBackup \/ BeginVerify
  <2>1. UNCHANGED <<phase, worker, live, base, process, swapped, torn, marker>>
    BY <1>3 DEF DownloadAndVerify, MakeBackup, BeginVerify, vars, shared, thread
  <2> QED BY <2>1, RestIsHidden
<1>4. CASE LeaveStage1 \/ Stage2Fails
  <2>1. worker \in {"stage1", "stage2"} /\ worker' = "clear"
        /\ UNCHANGED <<swapped, torn, base, marker>>
    <3>1. CASE LeaveStage1
      BY <3>1 DEF LeaveStage1, EndStage1, Park
    <3>2. CASE Stage2Fails
      BY <3>2 DEF Stage2Fails, EndStage2, Park
    <3> QED BY <1>4, <3>1, <3>2
  <2>2. worker # "none" /\ worker' # "none"
    BY <2>1
  <2> QED BY <1>0, <2>1, <2>2, WorkIsHidden
<1>5. CASE (Clear \/ Wake \/ TimeOut \/ Read) /\ UNCHANGED files
  <2>1. worker # "none" /\ worker' # "none" /\ UNCHANGED <<swapped, torn, base, marker>>
    BY <1>5 DEF Clear, Wake, TimeOut, Read, files
  <2> QED BY <1>0, <2>1, WorkIsHidden
<1>6. CASE LeaveGate
  <2>1. worker = "resume" /\ worker' \in {"stage2", "cleanup"}
        /\ swapped' \in {swapped, TRUE} /\ UNCHANGED <<torn, base, marker>>
    BY <1>6 DEF LeaveGate, Resume
  <2>2. worker # "none" /\ worker' # "none"
    BY <2>1
  <2>3. CASE UNCHANGED swapped
    BY <1>0, <2>1, <2>2, <2>3, WorkIsHidden
  <2>4. CASE ~UNCHANGED swapped
    <3>1. swapped = FALSE /\ swapped' = TRUE
      BY <2>1, <2>4 DEF FInv, FilesTypeOK
    <3>2. Found' = Found /\ Stage = "preparing" /\ Stage' = "exchanging"
      BY <1>0, <2>1, <2>2, <3>1 DEF StageFits
    <3>3. Atomic!Commit
      BY <2>1, <3>2 DEF Atomic!Commit
    <3> QED BY <3>3 DEF Atomic!Next
  <2> QED BY <2>3, <2>4
<1>7. CASE \E f \in Files : SwapFile(f) \/ VerifyFile(f) \/ RestoreFile(f)
  <2>1. task \in {"swap", "verify", "restore"}
        /\ UNCHANGED <<worker, swapped, torn, base, marker>>
    BY <1>7 DEF SwapFile, VerifyFile, RestoreFile, vars, thread
  <2>2. worker # "none"
    BY <2>1 DEF FInv, TaskFits
  <2> QED BY <1>0, <2>1, <2>2, WorkIsHidden
<1>8. CASE RestoreFails \/ \E f \in Files : SkipDelete(f)
  <2>1. task = "restore" /\ torn' = TRUE
        /\ UNCHANGED <<worker, swapped, base, marker>>
    BY <1>8 DEF RestoreFails, SkipDelete, vars, thread
  <2>2. worker = "cleanup" /\ swapped
    BY <2>1 DEF FInv, TaskFits
  <2>3. Found' = Found /\ Stage = "exchanging" /\ Stage' = "exchanging"
    BY <1>0, <2>1, <2>2 DEF StageFits
  <2>4. Atomic!Tear
    BY <2>1, <2>3 DEF Atomic!Tear
  <2> QED BY <2>4 DEF Atomic!Next
<1>9. CASE HandOver
  <2>1. task = "verify" /\ worker = "stage2" /\ phase' = "restarting" /\ marker' \in {"restarting", marker}
        /\ UNCHANGED <<process, torn, live>>
    BY <1>9 DEF HandOver, EndStage2, WriteUpdateResult
  <2>2. worker' = "none"
    BY <2>1 DEF FInv, IInv, PhaseFits
  <2>3. live' = Installed("new")
    BY <2>1 DEF FInv, RestartsIntoRelease
  <2>4. swapped /\ process' = "up"
    BY <1>0, <2>1 DEF StageFits, FInv, Guarded
  <2>5. Stage = "exchanging" /\ Stage' = "done" /\ Found' = Installed("new")
    BY <1>0, <2>1, <2>2, <2>3, <2>4 DEF StageFits
  <2>6. (marker = "success")' \in {marker = "success", FALSE}
    BY <2>1
  <2>7. Installed("new")' = Installed("new")
    BY DEF Installed
  <2>8. Atomic!TakeEffect
    BY <2>1, <2>5, <2>6, <2>7 DEF Atomic!TakeEffect
  <2> QED BY <2>8 DEF Atomic!Next
<1>10. CASE FinishUpdate
  <2>1. worker = "cleanup" /\ worker' = "none" /\ phase' = "failed"
        /\ UNCHANGED <<process, live, torn, base, marker>>
    BY <1>10 DEF FinishUpdate, EndUpdate
  <2>2. Found = base /\ Found' = live /\ Stage \in {"preparing", "exchanging"} /\ Stage' = "failed"
    BY <1>0, <2>1 DEF StageFits
  <2>3. ~torn => live = base
    BY <2>1 DEF FInv, FailedLeavesNothing
  <2>4. live \in [Files -> Contents]
    BY DEF FInv, FilesTypeOK
  <2>5. torn \in BOOLEAN
    BY DEF FInv, FilesTypeOK
  <2>6. Atomic!GiveUp
    BY <2>1, <2>2, <2>3, <2>4, <2>5 DEF Atomic!GiveUp
  <2> QED BY <2>6 DEF Atomic!Next
<1>11. CASE Exit
  <2>1. process = "up" /\ process' = "down" /\ torn' = FALSE /\ UNCHANGED marker
        /\ (UNCHANGED live \/ task = "restore")
    BY <1>11 DEF Exit
  <2>2. Stage # "down" /\ Stage' = "down" /\ Found' = live'
    BY <1>0, <2>1 DEF StageFits
  <2>3. Found' = Found \/ (Stage = "exchanging" /\ Found' \in [Files -> Contents])
    <3>1. CASE worker = "none"
      <4>1. UNCHANGED live
        BY <2>1, <3>1 DEF FInv, TaskFits
      <4> QED BY <1>0, <2>1, <2>2, <3>1, <4>1 DEF StageFits
    <3>2. CASE worker # "none" /\ swapped
      <4>1. live' \in [Files -> Contents]
        BY DEF FInv, FilesTypeOK
      <4> QED BY <1>0, <2>2, <3>2, <4>1 DEF StageFits
    <3>3. CASE worker # "none" /\ ~swapped
      <4>1. UNCHANGED live /\ live = base
        BY <2>1, <3>3 DEF FInv, TaskFits, Guarded
      <4> QED BY <1>0, <2>2, <3>3, <4>1 DEF StageFits
    <3> QED BY <3>1, <3>2, <3>3
  <2>4. Atomic!Die
    BY <2>1, <2>2, <2>3 DEF Atomic!Die
  <2> QED BY <2>4 DEF Atomic!Next
<1>12. CASE Boot
  <2>1. process = "down" /\ process' \in {"up", "down"}
        /\ marker' \in {marker, Promoted}
        /\ UNCHANGED <<phase, worker, live, torn>>
    BY <1>12 DEF Boot, vars, shared, thread
  <2>2. worker = "none" /\ phase = "idle" /\ Found = live /\ Stage = "down"
    BY <1>0, <2>1 DEF StageFits, FInv, TaskFits
  <2>3. Found' = Found /\ Stage' \in {"idle", "down"}
    BY <1>0, <2>1, <2>2 DEF StageFits
  <2>4. marker' = marker \/ (marker' = "success" /\ live = Installed("new"))
    BY <2>1 DEF Promoted, FInv, MarkerFits
  <2>5. Atomic!Start
    BY <2>1, <2>2, <2>3, <2>4 DEF Atomic!Start
  <2> QED BY <2>5 DEF Atomic!Next
<1>13. CASE AckResult
  <2>1. process = "up" /\ marker' = "none"
        /\ UNCHANGED <<phase, worker, live, base, process, swapped, torn>>
    BY <1>13 DEF AckResult, vars, shared, thread
  <2>2. Found' = Found /\ Stage' = Stage
    BY <2>1 DEF Found, Stage
  <2>3. Atomic!Dismiss
    BY <1>0, <2>1, <2>2 DEF StageFits, Atomic!Dismiss
  <2> QED BY <2>3 DEF Atomic!Next
<1>14. CASE UNCHANGED applyVars
  BY <1>14, RestIsHidden DEF applyVars, vars, shared, thread, files
<1> QED
  BY <1>1, <1>2, <1>3, <1>4, <1>5, <1>6, <1>7, <1>8, <1>9, <1>10, <1>11, <1>12, <1>13, <1>14
  DEF ApplyNext, WorkerStep

\* The first state is one where nothing was tried.
LEMMA AtomicInit == ApplyInit => Atomic!Init
BY DEF ApplyInit, Init, Found, Stage, Atomic!Init

\* UpdateApply implements AtomicUpdate, for any number of files, clients and updates
\* and whatever the release does: _run_update installs the whole release at the
\* instant it hands over or leaves what it found, unless the storage fails its
\* rollback or the process is lost in between, and the marker claims no more.
THEOREM AtomicRefinement == ApplySpec => ImplementsAtomicUpdate
  BY AtomicInit, AtomicStep, ApplyInvariance, PTL
  DEF ApplySpec, ImplementsAtomicUpdate, Atomic!Spec
=============================================================================
