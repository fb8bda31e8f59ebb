----------------------------- MODULE UpdateApply -----------------------------
(***************************************************************************)
(* UpdateGate with the files: the in-process path of _run_update in        *)
(* genpi/updater.py (staging, backup, swap file by file, verification,     *)
(* rollback), the result marker and its promotion when the process starts  *)
(* again, and the loss of the process anywhere in between.                 *)
(*                                                                         *)
(* A file's content is "old" (installed before the release), "new", "bad"  *)
(* (neither hash) or "absent".  Staged content is verified, so a swap      *)
(* writes "new" unless the storage fails.  The manifest's order of files   *)
(* is left open.                                                           *)
(***************************************************************************)
EXTENDS UpdateGate

CONSTANTS
  Files,   \* the paths the manifest lists
  Added,   \* those of them the old version does not have
  NoBackup

ASSUME FilesAssumption == Added \subseteq Files

VARIABLES
  live,     \* content of each file of the project
  backup,   \* the verified backup zip of this run, as the contents it holds
  task,     \* what the worker does within its stage
  todo,     \* files the task has yet to visit
  swapped,  \* _run_update's `swapped`: rollback is armed
  torn,     \* a restore of this run left a file as it was or cut short, logged at most
  marker,   \* status in last_update.json
  process,  \* "up" or "down"
  release,  \* how the release behaves when started
  base      \* history: the live contents when the run started

files == <<live, backup, task, todo, swapped, torn, marker, process, release, base>>
applyVars == <<vars, files>>

Contents == {"old", "new", "bad", "absent"}

Installed(content) == [f \in Files |-> IF content = "old" /\ f \in Added THEN "absent" ELSE content]

\* What starting a release does: serve, fail on an import before the updater module
\* (config, store, state, ...) or on one after it (app, routes, the server).
Behaviours == {"serves", "fails_early", "fails_late"}

ApplyInit ==
  /\ Init
  /\ live = Installed("old")
  /\ backup = NoBackup
  /\ task = "none"
  /\ todo = {}
  /\ swapped = FALSE
  /\ torn = FALSE
  /\ marker = "none"
  /\ process = "up"
  /\ release \in Behaviours
  /\ base = live

-----------------------------------------------------------------------------
(* Stage 1: nothing live changes.                                           *)

\* api_update_start, and the fresh locals of _run_update.
StartUpdate ==
  /\ process = "up"
  /\ ApiUpdateStart
  /\ backup' = NoBackup
  /\ task' = "fetch"
  /\ todo' = {}
  /\ swapped' = FALSE
  /\ torn' = FALSE
  /\ base' = live
  /\ UNCHANGED <<live, marker, process, release>>

\* _download_and_verify: every file staged, hashed and compiled.
DownloadAndVerify ==
  /\ task = "fetch"
  /\ task' = "backup"
  /\ UNCHANGED <<vars, live, backup, todo, swapped, torn, marker, process, release, base>>

\* Mutant: the backup does not say which files the update adds.
MakeBackup_ForgetsAdded ==
  /\ task = "backup"
  /\ backup' = [f \in Files |-> IF live[f] = "absent" THEN "new" ELSE live[f]]
  /\ task' = "ready"
  /\ UNCHANGED <<vars, live, todo, swapped, torn, marker, process, release, base>>

\* _make_backup: the present files, and the names of those to be added.
MakeBackup ==
  /\ task = "backup"
  /\ backup' = live
  /\ task' = "ready"
  /\ UNCHANGED <<vars, live, todo, swapped, torn, marker, process, release, base>>

\* The go/no-go comes after the backup; the version gate before any download; an
\* exception anywhere before the go/no-go.
LeaveStage1 ==
  /\ EndStage1
  /\ gate' = "staged" <=> task = "ready"
  /\ gate' = "refused" => task = "fetch"
  /\ task' = "none"
  /\ UNCHANGED <<live, backup, todo, swapped, torn, marker, process, release, base>>

-----------------------------------------------------------------------------
(* Stage 2, and the way out.                                                *)

\* Mutant: rollback is armed only once the swap is complete.
LeaveGate_ArmsLate ==
  /\ Resume
  /\ \/ /\ worker' = "stage2"
        /\ task' = "swap" /\ todo' = Files /\ UNCHANGED swapped
     \/ /\ worker' = "cleanup"
        /\ \/ swapped /\ task' = "restore" /\ todo' = Files
           \/ ~swapped /\ UNCHANGED <<task, todo>>
        /\ UNCHANGED swapped
  /\ UNCHANGED <<live, backup, torn, marker, process, release, base>>

\* Rollback is armed BEFORE the first file is swapped; the exception path restores
\* only if it is.
LeaveGate ==
  /\ Resume
  /\ \/ /\ worker' = "stage2"
        /\ task' = "swap"
        /\ todo' = Files
        /\ swapped' = TRUE
     \/ /\ worker' = "cleanup"
        /\ swapped
        /\ task' = "restore"
        /\ todo' = Files
        /\ UNCHANGED swapped
     \/ /\ worker' = "cleanup"
        /\ ~swapped
        /\ UNCHANGED <<task, todo, swapped>>
  /\ UNCHANGED <<live, backup, torn, marker, process, release, base>>

\* _swap's atomic replacement of one file.
SwapFile(f) ==
  /\ task = "swap"
  /\ f \in todo
  /\ live' = [live EXCEPT ![f] = "new"] \/ live' = [live EXCEPT ![f] = "bad"]
  /\ todo' = todo \ {f}
  /\ UNCHANGED <<vars, backup, task, swapped, torn, marker, process, release, base>>

\* With every file swapped, every live file is hashed again.
BeginVerify ==
  /\ task = "swap"
  /\ todo = {}
  /\ task' = "verify"
  /\ todo' = Files
  /\ UNCHANGED <<vars, live, backup, swapped, torn, marker, process, release, base>>

\* Mutant: the hash of the swapped file is not compared.
VerifyFile_AcceptsAny(f) ==
  /\ task = "verify"
  /\ f \in todo
  /\ todo' = todo \ {f}
  /\ UNCHANGED <<vars, live, backup, task, swapped, torn, marker, process, release, base>>

\* A file whose hash matches; Stage2Fails is the other case.
VerifyFile(f) ==
  /\ task = "verify"
  /\ f \in todo
  /\ live[f] = "new"
  /\ todo' = todo \ {f}
  /\ UNCHANGED <<vars, live, backup, task, swapped, torn, marker, process, release, base>>

\* Mutant: a failed swap goes on without asking.
Stage2Fails_Unasked ==
  /\ task \in {"swap", "verify"}
  /\ worker' = "cleanup"
  /\ task' = "restore"
  /\ todo' = Files
  /\ UNCHANGED <<shared, gate, got, verdict, posting, history,
                 live, backup, swapped, torn, marker, process, release, base>>

\* A copy that fails or a hash that does not match parks the run.
Stage2Fails ==
  /\ task \in {"swap", "verify"}
  /\ EndStage2
  /\ phase' = "awaiting"
  /\ task' = "none"
  /\ todo' = {}
  /\ UNCHANGED <<live, backup, swapped, torn, marker, process, release, base>>

\* _write_update_result is best-effort: it may leave the marker as it was.
WriteUpdateResult(status) == marker' = status \/ UNCHANGED marker

\* The marker is written before the restart is scheduled.
HandOver ==
  /\ task = "verify"
  /\ todo = {}
  /\ EndStage2
  /\ phase' = "restarting"
  /\ task' = "none"
  /\ WriteUpdateResult("restarting")
  /\ UNCHANGED <<live, backup, todo, swapped, torn, process, release, base>>

\* _rollback, one file: an added file is deleted, a backed-up one extracted.
RestoreFile(f) ==
  /\ task = "restore"
  /\ f \in todo
  /\ live' = [live EXCEPT ![f] = backup[f]]
  /\ todo' = todo \ {f}
  /\ UNCHANGED <<vars, backup, task, swapped, torn, marker, process, release, base>>

\* An added file that cannot be deleted is passed over in silence.
SkipDelete(f) ==
  /\ task = "restore"
  /\ f \in todo
  /\ backup[f] = "absent"
  /\ todo' = todo \ {f}
  /\ torn' = TRUE
  /\ UNCHANGED <<vars, live, backup, task, swapped, marker, process, release, base>>

\* An exception ends the whole rollback, and is only logged; the file being
\* extracted may be cut short.
RestoreFails ==
  /\ task = "restore"
  /\ todo # {}
  /\ \/ UNCHANGED live
     \/ \E f \in todo : backup[f] # "absent" /\ live' = [live EXCEPT ![f] = "bad"]
  /\ todo' = {}
  /\ torn' = TRUE
  /\ UNCHANGED <<vars, backup, task, swapped, marker, process, release, base>>

\* The last log lines and the phase "failed".
FinishUpdate ==
  /\ todo = {}
  /\ EndUpdate
  /\ task' = "none"
  /\ UNCHANGED <<live, backup, todo, swapped, torn, marker, process, release, base>>

-----------------------------------------------------------------------------
(* The process.                                                             *)

\* The re-exec of a finished update, a restart on request, or a power cut.  The
\* extraction of a file is not atomic: cut short, it leaves neither content.
Exit ==
  /\ process = "up"
  /\ ProcessRestart
  /\ process' = "down"
  /\ \/ UNCHANGED live
     \/ /\ task = "restore"
        /\ \E f \in todo : live' = [live EXCEPT ![f] = "bad"]
  /\ backup' = NoBackup
  /\ task' = "none"
  /\ todo' = {}
  /\ swapped' = FALSE
  /\ torn' = FALSE
  /\ base' = live'
  /\ UNCHANGED <<marker, release>>

\* What starting the files that are there does; a mixed set may do anything.
Starts ==
  IF live = Installed("old") THEN {"serves"}
  ELSE IF live = Installed("new") THEN {release}
  ELSE Behaviours

Promoted == IF marker = "restarting" THEN "success" ELSE marker

\* Importing the updater promotes the marker; the imports after it may still fail.
Boot ==
  /\ process = "down"
  /\ \/ /\ "serves" \in Starts
        /\ process' = "up"
        /\ marker' = Promoted
     \/ /\ "fails_late" \in Starts
        /\ marker' = Promoted
        /\ UNCHANGED process
     \/ /\ "fails_early" \in Starts
        /\ UNCHANGED <<marker, process>>
  /\ UNCHANGED <<vars, live, backup, task, todo, swapped, torn, release, base>>

\* api_update_result_ack: a client dismissed the result.
AckResult ==
  /\ process = "up"
  /\ marker # "none"
  /\ marker' = "none"
  /\ UNCHANGED <<vars, live, backup, task, todo, swapped, torn, process, release, base>>

-----------------------------------------------------------------------------
WorkerStep ==
  \/ DownloadAndVerify
  \/ MakeBackup
  \/ LeaveStage1
  \/ (Clear \/ Wake \/ TimeOut \/ Read) /\ UNCHANGED files
  \/ LeaveGate
  \/ \E f \in Files : SwapFile(f) \/ VerifyFile(f) \/ RestoreFile(f) \/ SkipDelete(f)
  \/ BeginVerify
  \/ Stage2Fails
  \/ HandOver
  \/ RestoreFails
  \/ FinishUpdate

RequestStep ==
  /\ \E c \in Clients : SetEvent(c) \/ \E answer \in Answers : ApiUpdateDecide(c, answer)
  /\ UNCHANGED files

ApplyNext ==
  \/ StartUpdate
  \/ RequestStep
  \/ WorkerStep
  \/ Exit
  \/ Boot
  \/ AckResult

ApplySpec == ApplyInit /\ [][ApplyNext]_applyVars /\ WF_applyVars(WorkerStep)

-----------------------------------------------------------------------------
(* Properties.                                                              *)

\* Every variable has its type.
FilesTypeOK ==
  /\ TypeOK
  /\ live \in [Files -> Contents]
  /\ backup \in [Files -> Contents] \cup {NoBackup}
  /\ task \in {"none", "fetch", "backup", "ready", "swap", "verify", "restore"}
  /\ todo \subseteq Files
  /\ swapped \in BOOLEAN
  /\ torn \in BOOLEAN
  /\ marker \in {"none", "restarting", "success"}
  /\ process \in {"up", "down"}
  /\ release \in Behaviours
  /\ base \in [Files -> Contents]

\* An update that ended without installing anything left every file, its presence
\* included, as it found it: cancelled, refused, failed in stage 1 or rolled back
\* from any point of the swap.
FailedLeavesNothing == phase = "failed" /\ ~torn => live = base

\* A live file differs from what the run found only with the operator's PROCEED and
\* with a backup that holds exactly what was found.
TouchedWithConsentAndBackup ==
  worker # "none" /\ live # base => approved /\ backup = base

\* The process is restarted only into a complete and verified release.
RestartsIntoRelease == phase = "restarting" => live = Installed("new")

\* Success is reported only where the whole release is installed: no crash in the
\* middle of a swap or of a rollback is ever promoted.
SuccessIsInstalled ==
  [][marker' = "success" /\ marker # "success" => live = Installed("new")]_applyVars

\* The files do not disturb the gate.
ImplementsGate == Spec

-----------------------------------------------------------------------------
(* The promise, and how it is kept.                                         *)

\* What a worker has touched does not count until it is done.
Found == IF worker = "none" THEN live ELSE base

Stage ==
  CASE process = "down" -> "down"
    [] process = "up" /\ worker # "none" -> IF swapped THEN "exchanging" ELSE "preparing"
    [] process = "up" /\ worker = "none" ->
         CASE phase = "failed" -> "failed"
           [] phase = "restarting" -> "done"
           [] OTHER -> "idle"

Atomic == INSTANCE AtomicUpdate WITH
  Before <- Installed("old"), After <- Installed("new"), Setups <- [Files -> Contents],
  installed <- Found, stage <- Stage, claim <- marker = "success"

\* However the swap, the verification, the rollback and restarts of the process
\* interleave with the answers, an update takes effect whole and at one instant or not
\* at all, and success is claimed only of a complete release.
ImplementsAtomicUpdate == Atomic!Spec
=============================================================================
