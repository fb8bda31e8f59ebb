------------------------------- MODULE UpdateSh -------------------------------
(***************************************************************************)
(* The command-line updater, update.sh: fetch and back up with the service *)
(* running, stop it, reset the checkout to the release, run setup.sh, and  *)
(* poll until the app answers; on a failure, roll back.  Its commands may  *)
(* fail, the script may be interrupted (Ctrl-C, a lost terminal), be       *)
(* killed or lose power between any two effects, and be run again.         *)
(*                                                                         *)
(* A tree says of every tracked file whose content it has: the previous    *)
(* commit's or the release's.  What setup.sh installs (the unit, sudoers,  *)
(* compiled files) and what the service has imported are known by the tree *)
(* they were made from.                                                    *)
(***************************************************************************)
EXTENDS Integers

CONSTANTS
  Files,      \* tracked files that differ between the commits
  MaxRuns     \* bound: runs of the script in a behaviour

ASSUME UpdateShAssumption == MaxRuns \in Nat

VARIABLES
  pc,         \* the command the script is at; "ended" between runs
  prev,       \* PREV_SHA
  stopped, mutated,  \* STOPPED, MUTATED
  outcome,    \* what the last run reported, or what ended it
  head, tree, \* HEAD and the working tree
  setup, loaded,
  service,    \* "stopped", "failing" (started, no answer) or "up"
  runs,
  found,      \* history: the tree this run found
  flawed      \* history: a reset of this run failed, or its rollback's setup

script == <<pc, prev, stopped, mutated, outcome>>
host   == <<tree, head, setup, loaded, service>>
notes  == <<runs, found, flawed>>
vars   == <<script, host, notes>>

Commits == {"previous", "release"}
TreeOf(commit) == [f \in Files |-> commit]
Started == {"failing", "up"}

Init ==
  /\ pc = "ended" /\ prev = "previous" /\ outcome = "none"
  /\ stopped = FALSE /\ mutated = FALSE
  /\ head = "previous" /\ tree = TreeOf(head) /\ setup = tree /\ loaded = tree
  /\ service = "up"
  /\ runs = 0 /\ found = tree /\ flawed = FALSE

Begin ==
  /\ pc = "ended" /\ runs < MaxRuns
  /\ pc' = "prepare" /\ outcome' = "none" /\ stopped' = FALSE /\ mutated' = FALSE
  /\ prev' = head
  /\ runs' = runs + 1 /\ found' = tree /\ flawed' = FALSE
  /\ UNCHANGED host

GoTo(place) == pc' = place /\ UNCHANGED <<prev, stopped, mutated, outcome>>
EndWith(how) == pc' = "ended" /\ outcome' = how /\ UNCHANGED <<prev, mutated>>
Fail == GoTo(IF mutated THEN "revert" ELSE "restart")

\* systemctl start: the process imports the tree as it is; no effect if started.
Start ==
  /\ service' \in IF service = "stopped" THEN Started ELSE {service}
  /\ loaded' = IF service = "stopped" THEN tree ELSE loaded
  /\ UNCHANGED <<tree, head, setup>>

\* The preflight, git fetch, and the backup with its check, or die.
Prepare ==
  /\ pc = "prepare"
  /\ GoTo("stop") \/ (EndWith("refused") /\ UNCHANGED stopped)
  /\ UNCHANGED <<host, notes>>

\* systemctl stop takes effect before it returns, or fails.
StopTakes ==
  /\ pc = "stop" /\ service # "stopped"
  /\ service' = "stopped"
  /\ UNCHANGED <<script, tree, head, setup, loaded, notes>>

StopReturns ==
  /\ pc = "stop"
  /\ \/ /\ service = "stopped"
        /\ pc' = "reset" /\ stopped' = TRUE /\ UNCHANGED <<prev, mutated, outcome>>
     \/ Fail
  /\ UNCHANGED <<host, notes>>

\* git reset --hard: file by file, then HEAD; it may fail at any of them.
ResetTarget == IF pc = "reset" THEN "release" ELSE prev
ResetFile(f) ==
  /\ pc \in {"reset", "revert"} /\ tree[f] # ResetTarget
  /\ tree' = [tree EXCEPT ![f] = ResetTarget]
  /\ UNCHANGED <<script, head, setup, loaded, service, notes>>

\* Mutant: the rollback is never armed.
ResetDone_Unmarked ==
  /\ pc = "reset" /\ tree = TreeOf("release")
  /\ head' = "release" /\ GoTo("check")
  /\ UNCHANGED <<tree, setup, loaded, service, notes>>

ResetDone ==
  /\ pc = "reset" /\ tree = TreeOf("release")
  /\ head' = "release"
  /\ pc' = "check" /\ mutated' = TRUE /\ UNCHANGED <<prev, stopped, outcome>>
  /\ UNCHANGED <<tree, setup, loaded, service, notes>>

\* Mutant: the check is trusted to find a reset that failed.
ResetFails_Unchecked ==
  /\ pc = "reset"
  /\ GoTo("check") /\ flawed' = TRUE
  /\ UNCHANGED <<host, runs, found>>

ResetFails ==
  /\ pc = "reset"
  /\ Fail /\ flawed' = TRUE
  /\ UNCHANGED <<host, runs, found>>

\* git status: no tracked file may differ from the release.
Check ==
  /\ pc = "check"
  /\ IF tree = TreeOf(head) THEN GoTo("setup") ELSE Fail
  /\ UNCHANGED <<host, notes>>

\* setup.sh: it fails before it installs anything, before or after the restart;
\* what it asks of systemd, that the unit is active, is true of a failing service.
SetupSucceeds ==
  /\ setup' = tree /\ loaded' = tree /\ service' \in Started /\ UNCHANGED <<tree, head>>
SetupFails ==
  /\ setup' \in {setup, tree} /\ UNCHANGED <<tree, head>>
  /\ \/ UNCHANGED <<loaded, service>>
     \/ setup' = tree /\ loaded' = tree /\ service' \in {"failing", "stopped"}

RunSetup ==
  /\ pc = "setup"
  /\ (SetupSucceeds /\ GoTo("probe")) \/ (SetupFails /\ Fail)
  /\ UNCHANGED notes

\* wait_healthy, and exit 0.
Probe ==
  /\ pc = "probe"
  /\ IF service = "up" THEN EndWith("success") /\ stopped' = FALSE ELSE Fail
  /\ UNCHANGED <<host, notes>>

\* do_rollback with the checkout changed: a reset or a setup that fails is only
\* warned of.
RevertDone ==
  /\ pc = "revert"
  /\ \/ tree = TreeOf(prev) /\ head' = prev /\ UNCHANGED flawed
     \/ flawed' = TRUE /\ UNCHANGED head
  /\ GoTo("resetup")
  /\ UNCHANGED <<tree, setup, loaded, service, runs, found>>

Resetup ==
  /\ pc = "resetup"
  /\ \/ SetupSucceeds /\ UNCHANGED flawed
     \/ SetupFails /\ flawed' = TRUE
  /\ GoTo("reprobe")
  /\ UNCHANGED <<runs, found>>

\* do_rollback before MUTATED is set: only the service is started.
Unstop ==
  /\ pc = "restart"
  /\ Start /\ GoTo("reprobe")
  /\ UNCHANGED notes

\* Mutant: a rollback in vain leaves things as they are.
Reprobe_GivesUp ==
  /\ pc = "reprobe"
  /\ EndWith(IF service = "up" THEN "rolledBack" ELSE "unhealthy") /\ stopped' = FALSE
  /\ UNCHANGED <<host, notes>>

\* Its wait_healthy; if in vain the service is started once more, and exit 1.
Reprobe ==
  /\ pc = "reprobe"
  /\ IF service = "up" THEN UNCHANGED host /\ EndWith("rolledBack") /\ stopped' = FALSE
                       ELSE Start /\ EndWith("unhealthy") /\ UNCHANGED stopped
  /\ UNCHANGED notes

\* A signal ends the shell; the EXIT trap then sees as $? the status of the last
\* command that has ended, 0 unless that was a test or a probe that failed.
Statuses == IF pc \in {"setup", "probe", "reprobe"} THEN {0, 1} ELSE {0}
Interrupt ==
  /\ pc # "ended"
  /\ \E rc \in Statuses : IF rc # 0 /\ stopped THEN Start ELSE UNCHANGED host
  /\ EndWith("interrupted") /\ UNCHANGED <<stopped, notes>>

\* kill -9; or the power goes, and the enabled service starts with the Pi.
Kill ==
  /\ pc # "ended"
  /\ \/ UNCHANGED host
     \/ loaded' = tree /\ service' \in Started /\ UNCHANGED <<tree, head, setup>>
  /\ EndWith("killed") /\ UNCHANGED <<stopped, notes>>

\* A started service may crash and be restarted (Restart=always), and one that
\* does not answer may turn out to be slow.
Respawn ==
  /\ service \in Started
  /\ loaded' = tree /\ service' \in Started
  /\ UNCHANGED <<script, tree, head, setup, notes>>

AnswersLate ==
  /\ service = "failing" /\ service' = "up"
  /\ UNCHANGED <<script, tree, head, setup, loaded, notes>>

Next ==
  \/ Begin \/ Prepare \/ StopTakes \/ StopReturns
  \/ \E f \in Files : ResetFile(f)
  \/ ResetDone \/ ResetFails \/ Check \/ RunSetup \/ Probe
  \/ RevertDone \/ Resetup \/ Unstop \/ Reprobe
  \/ Interrupt \/ Kill \/ Respawn \/ AnswersLate

Spec == Init /\ [][Next]_vars
--------------------------------------------------------------------------------
Reports(how) == outcome # how /\ outcome' = how

(* exit 0 means that the release is what is checked out, set up, imported and
   answering. *)
SuccessIsServed ==
  [][Reports("success") =>
       /\ head = "release" /\ tree = TreeOf("release")
       /\ setup = tree /\ loaded = tree /\ service = "up" ]_vars

(* "Rolled back. Service is healthy on the previous version": what the run had
   changed is the previous commit's again, checked out, set up and imported; and
   what it had not, it has not touched.  But for a reset that failed midway,
   which is not undone as MUTATED is still false, and for a rollback that warned. *)
RolledBackIsRestored ==
  [][Reports("rolledBack") /\ ~flawed =>
       IF mutated THEN head = prev /\ TreeOf(prev) = tree /\ setup = tree /\ loaded = tree
                  ELSE tree = found ]_vars

(* A run that succeeds, rolls back or gives up leaves the service started. *)
LeftRunning == outcome \in {"success", "rolledBack", "unhealthy"} => service \in Started

(* "Final safety net: never leave the service stopped on an abnormal exit (e.g.
   a SIGINT mid-run that the explicit handlers didn't catch)." *)
SafetyNet == outcome = "interrupted" => service # "stopped"
===============================================================================
