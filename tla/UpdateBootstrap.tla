-------------------------- MODULE UpdateBootstrap --------------------------
(***************************************************************************)
(* The systemd path of the self-updater: the shell script that             *)
(* _write_bootstrap_script (genpi/updater.py) generates and _run_update    *)
(* detaches.  It swaps the files, restarts the service, waits until it     *)
(* answers and reports, or rolls back from its EXIT trap; a watchdog       *)
(* subshell rolls back at ten minutes.                                     *)
(*                                                                         *)
(* A run has two scripts, its main one and its watchdog, and both outlive  *)
(* the service.  Stage 1 and the go/no-go are UpdateGate and UpdateApply;  *)
(* here they are one step each.  Time is abstracted: a main script needs   *)
(* less than ten minutes unless one of its commands hangs (a stuck mount,  *)
(* systemctl), so a watchdog wakes up after its main script has ended, or  *)
(* has been hung.  The watchdog's own restore and restart can hang too.    *)
(***************************************************************************)
EXTENDS Naturals

CONSTANTS
  MaxRuns,    \* bound: updates staged
  LastFile,   \* the manifest lists files 1 .. LastFile
  Added       \* those of them that a release adds

ASSUME SizesAssumption == MaxRuns \in Nat /\ LastFile \in Nat \ {0}

Runs == 1 .. MaxRuns
Files == 1 .. LastFile

ASSUME AddedAssumption == Added \subseteq Files

Versions == 0 .. MaxRuns    \* what was installed first, and each run's release
Torn == MaxRuns + 1         \* a file cut short by a restore that failed on it
Contents == Versions \cup {Torn}
Scripts == Runs \X {"main", "dog"}

VARIABLES
  live,      \* the version each file of the project is of, or Torn
  staging,   \* the run whose verified files are staged, 0 for none
  backup,    \* the files in each run's backup zip
  app,       \* the service: "down", "idle", "parked" at the go/no-go, "handed" over
  begun,     \* updates staged so far
  pc,        \* what each script does next
  at,        \* the file each script's loop has reached
  hung,      \* scripts in a command that does not return
  late,      \* runs whose main script has been hung: their ten minutes may be over
  flag,      \* does DONE_FLAG exist
  result,    \* last_update.json
  works,     \* does each version serve when started
  missed,    \* history: files whose copy failed, by run
  unrestored,  \* history: files each script's restore failed on or did not get to
  spoiled    \* history: scripts whose work another script, a download or a power cut reached

scripts == <<pc, at>>
history == <<missed, unrestored, spoiled>>
vars == <<live, staging, backup, app, begun, scripts, hung, late, flag, result, works, history>>

Complete(v) == [f \in Files |-> v]

Main(r) == <<r, "main">>
Dog(r) == <<r, "dog">>
RunOf(s) == s[1]

\* Has the script been started, and not ended; a waiting watchdog does nothing.
Busy(s) == pc[s] \notin {"none", "waiting", "ended"}

Init ==
  /\ live = Complete(0)
  /\ staging = 0
  /\ backup = [r \in Runs |-> Complete(0)]
  /\ app = "idle"
  /\ begun = 0
  /\ pc = [s \in Scripts |-> "none"]
  /\ at = [s \in Scripts |-> 1]
  /\ hung = {}
  /\ late = {}
  /\ flag = FALSE
  /\ result = [status |-> "none", run |-> 0]
  /\ works \in {w \in [Versions -> BOOLEAN] : w[0]}
  /\ missed = [r \in Runs |-> {}]
  /\ unrestored = [s \in Scripts |-> {}]
  /\ spoiled = {}

\* What starting the live files leads to: a mixed set may do anything.
Started ==
  {IF up THEN "idle" ELSE "down" : up \in
     IF \E v \in Versions : live = Complete(v) THEN {works[live[1]]} ELSE BOOLEAN}

\* A file is replaced: every other script at work on the files is reached by it.
Write(s, f, v) ==
  /\ live' = [live EXCEPT ![f] = v]
  /\ spoiled' = spoiled \cup {t \in Scripts \ {s} : Busy(t)}

Goto(s, point) == pc' = [pc EXCEPT ![s] = point]

\* The loop over the files goes on, or the script with it.
NextFile(s, point) ==
  \/ at[s] < LastFile /\ at' = [at EXCEPT ![s] = @ + 1] /\ UNCHANGED pc
  \/ at[s] = LastFile /\ at' = [at EXCEPT ![s] = 1] /\ Goto(s, point)

\* Mutant: there is no EXIT trap, and the script just ends.
FallBack_NoTrap(s) == pc' = [pc EXCEPT ![s] = "ended"] /\ at' = [at EXCEPT ![s] = 1]

\* The script leaves its loop or its step for its rollback.
FallBack(s) == pc' = [pc EXCEPT ![s] = "restore"] /\ at' = [at EXCEPT ![s] = 1]

-----------------------------------------------------------------------------
(* The service.                                                             *)

\* Stage 1 of _run_update: staged, verified, backed up, parked.
StageUpdate ==
  /\ app = "idle"
  /\ begun < MaxRuns
  /\ begun' = begun + 1
  /\ staging' = begun'
  /\ backup' = [backup EXCEPT ![begun'] = live]
  /\ app' = "parked"
  /\ spoiled' = spoiled \cup {s \in Scripts : pc[s] = "swap"}
  /\ UNCHANGED <<live, scripts, hung, late, flag, result, works, missed, unrestored>>

\* REVERT at the go/no-go.
Cancel ==
  /\ app = "parked"
  /\ app' = "idle"
  /\ staging' = 0
  /\ UNCHANGED <<live, backup, begun, scripts, hung, late, flag, result, works, history>>

\* PROCEED: the bootstrap is detached and starts by removing the flag.
Launch ==
  /\ app = "parked"
  /\ app' = "handed"
  /\ pc' = [pc EXCEPT ![Main(begun)] = "swap", ![Dog(begun)] = "waiting"]
  /\ flag' = FALSE
  /\ UNCHANGED <<live, staging, backup, begun, at, hung, late, result, works, history>>

\* systemd starts the service again (Restart=always), or an operator restarts it.
AppRestart ==
  /\ app' \in Started
  /\ UNCHANGED <<live, staging, backup, begun, scripts, hung, late, flag, result, works, history>>

\* Power is lost: every script ends where it is, and the Pi boots.
PowerCut ==
  /\ app' \in Started
  /\ pc' = [s \in Scripts |-> IF pc[s] = "none" THEN "none" ELSE "ended"]
  /\ spoiled' = spoiled \cup {s \in Scripts : Busy(s)}
  /\ hung' = {}
  /\ UNCHANGED <<live, staging, backup, begun, at, late, flag, result, works, missed, unrestored>>

-----------------------------------------------------------------------------
(* The main script.                                                         *)

\* A copy that works moves the loop on.
CopyFile(r) ==
  /\ pc[Main(r)] = "swap"
  /\ staging # 0
  /\ Write(Main(r), at[Main(r)], staging)
  /\ NextFile(Main(r), "restart")
  /\ UNCHANGED <<staging, backup, app, begun, hung, late, flag, result, works, missed, unrestored>>

\* A copy that fails: `set -e` has no effect in a subshell that is the left side
\* of ||, so only the last one's status ends the subshell with an error.
CopyFails(r) ==
  /\ pc[Main(r)] = "swap"
  /\ missed' = [missed EXCEPT ![r] = @ \cup {at[Main(r)]}]
  /\ \/ at[Main(r)] < LastFile /\ NextFile(Main(r), "restart")
     \/ at[Main(r)] = LastFile /\ FallBack(Main(r))
  /\ UNCHANGED <<live, staging, backup, app, begun, hung, late, flag, result, works, unrestored, spoiled>>

\* do_restart: the service starts anew, or systemctl fails or times out.
Restart(r) ==
  /\ pc[Main(r)] = "restart"
  /\ \/ app' \in Started /\ Goto(Main(r), "health") /\ UNCHANGED at
     \/ app' \in Started \cup {app} /\ FallBack(Main(r))
  /\ UNCHANGED <<live, staging, backup, begun, hung, late, flag, result, works, history>>

\* wait_healthy: three answers in a row, or too few within its thirty probes.
Health(r) ==
  /\ pc[Main(r)] = "health"
  /\ \/ app # "down" /\ Goto(Main(r), "finish") /\ UNCHANGED at
     \/ FallBack(Main(r))
  /\ UNCHANGED <<live, staging, backup, app, begun, hung, late, flag, result, works, history>>

\* SUCCEEDED=1 and the flag that tells the watchdog.
Finish(r) ==
  /\ pc[Main(r)] = "finish"
  /\ flag' = TRUE
  /\ Goto(Main(r), "cancel")
  /\ UNCHANGED <<live, staging, backup, app, begun, at, hung, late, result, works, history>>

\* The watchdog's shell is killed; a restore it has begun is a process of its own.
CancelWatchdog(r) ==
  /\ pc[Main(r)] = "cancel"
  /\ pc' = [pc EXCEPT ![Main(r)] = "report",
                      ![Dog(r)] = IF @ = "restore" THEN "orphan" ELSE "ended"]
  /\ hung' = IF pc[Dog(r)] = "restore" THEN hung ELSE hung \ {Dog(r)}
  /\ UNCHANGED <<live, staging, backup, app, begun, at, late, flag, result, works, history>>

\* write_result success, and the flag and the staging directory go.
ReportSuccess(r) ==
  /\ pc[Main(r)] = "report"
  /\ result' = [status |-> "success", run |-> r]
  /\ flag' = FALSE
  /\ staging' = 0
  /\ Goto(Main(r), "ended")
  /\ UNCHANGED <<live, backup, app, begun, at, hung, late, works, history>>

-----------------------------------------------------------------------------
(* rollback(), from the EXIT trap or the watchdog.                          *)

\* Mutant: the trap restarts the service without restoring the files.
Restore_Nothing(s) ==
  /\ pc[s] = "restore"
  /\ Goto(s, "revive")
  /\ UNCHANGED <<live, staging, backup, app, begun, at, hung, late, flag, result, works, history>>

\* One file from the zip.
Restore(s) ==
  /\ pc[s] \in {"restore", "orphan"}
  /\ Write(s, at[s], backup[RunOf(s)][at[s]])
  /\ NextFile(s, IF pc[s] = "orphan" THEN "ended" ELSE "revive")
  /\ UNCHANGED <<staging, backup, app, begun, hung, late, flag, result, works, missed, unrestored>>

\* A file the release added that cannot be removed is passed over.
RestoreSkips(s) ==
  /\ pc[s] \in {"restore", "orphan"}
  /\ at[s] \in Added
  /\ unrestored' = [unrestored EXCEPT ![s] = @ \cup {at[s]}]
  /\ NextFile(s, IF pc[s] = "orphan" THEN "ended" ELSE "revive")
  /\ UNCHANGED <<live, staging, backup, app, begun, hung, late, flag, result, works, missed, spoiled>>

\* An exception ends the restore, at a file it may leave torn, and the script goes
\* on as if the restore had worked: nobody looks at its status.
RestoreBreaks(s) ==
  /\ pc[s] \in {"restore", "orphan"}
  /\ unrestored' = [unrestored EXCEPT ![s] = @ \cup {f \in Files : at[s] <= f}]
  /\ Write(s, at[s], Torn) \/ UNCHANGED <<live, spoiled>>
  /\ Goto(s, IF pc[s] = "orphan" THEN "ended" ELSE "revive")
  /\ UNCHANGED <<staging, backup, app, begun, at, hung, late, flag, result, works, missed>>

\* systemctl restart, whatever its status.
Revive(s) ==
  /\ pc[s] = "revive"
  /\ app' \in Started \cup {app}
  /\ Goto(s, "confirm")
  /\ UNCHANGED <<live, staging, backup, begun, at, hung, late, flag, result, works, history>>

\* Mutant: the rollback is a call like any other, and the main script carries on after it.
Confirm_CarriesOn(s) ==
  /\ pc[s] = "confirm"
  /\ Goto(s, IF s = Main(RunOf(s)) THEN "finish" ELSE "kill")
  /\ UNCHANGED <<live, staging, backup, app, begun, at, hung, late, flag, result, works, history>>

\* Did the previous version answer?  Both answers are reported as a failed update.
Confirm(s) ==
  /\ pc[s] = "confirm"
  /\ \/ app # "down" /\ result' = [status |-> "rolled_back", run |-> RunOf(s)]
     \/ result' = [status |-> "check_needed", run |-> RunOf(s)]
  /\ Goto(s, IF s = Main(RunOf(s)) THEN "ended" ELSE "kill")
  /\ UNCHANGED <<live, staging, backup, app, begun, at, hung, late, flag, works, history>>

-----------------------------------------------------------------------------
(* Hanging commands, and the watchdog.                                      *)

\* A copy, a restore or a systemctl restart hangs.
Hang(s) ==
  /\ pc[s] \in {"swap", "restart", "restore", "orphan", "revive"}
  /\ s \notin hung
  /\ hung' = hung \cup {s}
  /\ late' = IF s = Main(RunOf(s)) THEN late \cup {RunOf(s)} ELSE late
  /\ UNCHANGED <<live, staging, backup, app, begun, scripts, flag, result, works, history>>

Return(s) ==
  /\ s \in hung
  /\ hung' = hung \ {s}
  /\ UNCHANGED <<live, staging, backup, app, begun, scripts, late, flag, result, works, history>>

\* Mutant: the watchdog looks at nothing and does nothing.
WakeUp_Never(r) == FALSE /\ UNCHANGED vars

\* Ten minutes are over.
WakeUp(r) ==
  /\ pc[Dog(r)] = "waiting"
  /\ r \in late \/ pc[Main(r)] = "ended"
  /\ Goto(Dog(r), IF flag THEN "ended" ELSE "restore")
  /\ UNCHANGED <<live, staging, backup, app, begun, at, hung, late, flag, result, works, history>>

\* kill -9 of the process group, the watchdog included.
KillGroup(r) ==
  /\ pc[Dog(r)] = "kill"
  /\ pc' = [pc EXCEPT ![Main(r)] = "ended", ![Dog(r)] = "ended"]
  /\ hung' = hung \ {Main(r), Dog(r)}
  /\ UNCHANGED <<live, staging, backup, app, begun, at, late, flag, result, works, history>>

-----------------------------------------------------------------------------
RollbackStep(s) ==
  Restore(s) \/ RestoreSkips(s) \/ RestoreBreaks(s) \/ Revive(s) \/ Confirm(s)

MainStep(r) ==
  /\ Main(r) \notin hung
  /\ \/ CopyFile(r)
     \/ CopyFails(r)
     \/ Restart(r)
     \/ Health(r)
     \/ Finish(r)
     \/ CancelWatchdog(r)
     \/ ReportSuccess(r)
     \/ RollbackStep(Main(r))

DogStep(r) ==
  /\ Dog(r) \notin hung
  /\ WakeUp(r) \/ RollbackStep(Dog(r)) \/ KillGroup(r)

Next ==
  \/ StageUpdate
  \/ Cancel
  \/ Launch
  \/ AppRestart
  \/ PowerCut
  \/ \E r \in Runs : MainStep(r) \/ DogStep(r)
  \/ \E s \in Scripts : Hang(s) \/ Return(s)

Spec == Init /\ [][Next]_vars

\* Scripts run unless one of their commands hangs, which nothing ends but its own
\* return or a kill; a sleeping watchdog wakes up; systemd starts a service that is down.
FairSpec ==
  /\ Spec
  /\ \A r \in Runs : WF_vars(MainStep(r)) /\ WF_vars(DogStep(r))
  /\ WF_vars(app = "down" /\ AppRestart)

-----------------------------------------------------------------------------
(* Properties.                                                              *)

Reports(r, status) == result' = [status |-> status, run |-> r] /\ result' # result

\* Success is reported over the release: every file whose copy worked is the new
\* one, unless something else got at the files while the script was at work.
SuccessIsInstalled ==
  [][\A r \in Runs : Main(r) \notin spoiled /\ Reports(r, "success") =>
       \A f \in Files \ missed[r] : live[f] = r]_vars

\* A rollback, from the EXIT trap or from the watchdog of a wedged script, that says
\* "rolled back" stands over a service that answers and, file by file, over what was
\* installed before the run: every file but those its restore failed on or did not get
\* to, for the generated script never looks whether its restore worked.
RolledBackIsRestored ==
  [][\A s \in Scripts \ spoiled :
       pc[s] = "confirm" /\ pc'[s] # "confirm" /\ Reports(RunOf(s), "rolled_back") =>
         /\ app # "down"
         /\ \A f \in Files \ unrestored[s] : live[f] = backup[RunOf(s)][f]]_vars

\* The watchdog's own commands do not hang for good: nothing watches the watchdog.
WatchdogGoesOn(r) == <>[](Dog(r) \notin hung)

\* Whatever command of a main script hangs, an update that was launched comes to an
\* end, the main script's own or the watchdog's, provided the watchdog's own restore
\* and restart return.
UpdateEnds ==
  \A r \in Runs :
    WatchdogGoesOn(r) => (pc[Main(r)] = "swap" ~> pc[Main(r)] = "ended")

\* A release that does not serve never takes the service away for good, provided the
\* watchdog's own commands return, unless a run was interfered with or cut short, one
\* of its copies failed, or a restore left a file out.
ServiceComesBack ==
  (\A r \in Runs : WatchdogGoesOn(r)) =>
    (app = "down" ~>
       \/ app # "down"
       \/ spoiled # {}
       \/ \E r \in Runs : missed[r] # {}
       \/ \E s \in Scripts : unrestored[s] # {})

\* The EXIT trap rolls back on a swap error.
SwapErrorRollsBack == result.status = "success" => missed[result.run] = {}

\* The watchdog forces a rollback if the apply is not done within ten minutes: not when
\* no apply is under way and the last one has been reported as a success.
WatchdogSparesTheDone ==
  [][(\A r \in Runs : ~Busy(Main(r))) /\ result.status = "success" =>
       \A r \in Runs : ~(pc[Dog(r)] = "waiting" /\ pc'[Dog(r)] = "restore")]_vars
=============================================================================
