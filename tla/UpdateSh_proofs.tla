---------------------------- MODULE UpdateSh_proofs ----------------------------
(***************************************************************************)
(* What update.sh reports is so, for any number of files and of runs: the  *)
(* inductive invariant follows the checkout, what was set up and what the  *)
(* service imported from one command of the script to the next.            *)
(***************************************************************************)
EXTENDS UpdateSh, TLAPS

Places == {"ended", "prepare", "stop", "reset", "check", "setup", "probe",
           "revert", "resetup", "restart", "reprobe"}
Trees == [Files -> Commits]

ShTypeOK ==
  /\ pc \in Places /\ prev \in Commits /\ head \in Commits
  /\ stopped \in BOOLEAN /\ mutated \in BOOLEAN /\ flawed \in BOOLEAN
  /\ tree \in Trees /\ setup \in Trees /\ loaded \in Trees /\ found \in Trees
  /\ service \in {"stopped", "failing", "up"}

\* MUTATED is set exactly between the reset and the end of the run.
MutatedFits ==
  /\ pc \in {"check", "setup", "probe", "revert", "resetup"} => mutated
  /\ pc \in {"prepare", "stop", "reset", "restart"} => ~mutated

\* On the way to success each command finds what the one before it made.
Forward ==
  /\ pc \in {"check", "setup", "probe"} => head = "release"
  /\ pc \in {"setup", "probe"} => tree = TreeOf("release")
  /\ pc = "probe" => setup = tree /\ loaded = tree

\* And on the way back, unless a step of it failed.
Backward ==
  ~flawed =>
    /\ pc \in {"prepare", "stop", "restart"} => tree = found
    /\ pc = "resetup" => head = prev /\ TreeOf(prev) = tree
    /\ pc = "reprobe" =>
         IF mutated THEN head = prev /\ TreeOf(prev) = tree /\ setup = tree /\ loaded = tree
                    ELSE tree = found

\* A run that has not ended has reported nothing.
Silent == pc # "ended" => outcome = "none"

ShInv == ShTypeOK /\ MutatedFits /\ Forward /\ Backward /\ Silent /\ LeftRunning

(* The tree of a commit is a tree. *)
LEMMA TreeOfType == \A c \in Commits : TreeOf(c) \in Trees
BY DEF TreeOf, Trees

(* The invariant holds at the start. *)
LEMMA ShInit == Init => ShInv
BY TreeOfType DEF Init, ShInv, ShTypeOK, MutatedFits, Forward, Backward, Silent,
  LeftRunning, Places, Commits

(* Every command, failure, signal and restart of the service keeps it. *)
LEMMA ShStep == ShInv /\ [Next]_vars => ShInv'
<1> SUFFICES ASSUME ShInv, [Next]_vars PROVE ShInv'
  OBVIOUS
<1> USE DEF ShInv, ShTypeOK, MutatedFits, Forward, Backward, Silent, LeftRunning,
  Places, Commits, Started
<1>1. CASE Begin
  BY <1>1 DEF Begin, host
<1>2. CASE Prepare
  BY <1>2 DEF Prepare, GoTo, EndWith, host, notes
<1>3. CASE StopTakes
  BY <1>3 DEF StopTakes, script, notes
<1>4. CASE StopReturns
  <2>1. CASE Fail
    <3>1. pc' = "restart" /\ UNCHANGED <<prev, stopped, mutated, outcome>> /\ ~mutated
      BY <1>4, <2>1 DEF StopReturns, Fail, GoTo
    <3> QED
      BY <1>4, <3>1 DEF StopReturns, host, notes
  <2>2. CASE pc' = "reset" /\ stopped' = TRUE /\ UNCHANGED <<prev, mutated, outcome>>
    BY <1>4, <2>2 DEF StopReturns, host, notes
  <2> QED
    BY <1>4, <2>1, <2>2 DEF StopReturns
<1>5. ASSUME NEW f \in Files, ResetFile(f) PROVE ShInv'
  <2>1. ResetTarget \in Commits
    BY DEF ResetTarget
  <2>2. tree' \in Trees
    BY <1>5, <2>1 DEF ResetFile, Trees
  <2> QED
    BY <1>5, <2>2 DEF ResetFile, script, notes
<1>6. CASE ResetDone
  BY <1>6 DEF ResetDone, notes
<1>7. CASE ResetFails
  BY <1>7 DEF ResetFails, GoTo, Fail, host
<1>8. CASE Check
  BY <1>8 DEF Check, GoTo, Fail, host, notes
<1>9. CASE RunSetup
  BY <1>9 DEF RunSetup, SetupSucceeds, SetupFails, GoTo, Fail, notes
<1>10. CASE Probe
  BY <1>10 DEF Probe, GoTo, EndWith, Fail, host, notes
<1>11. CASE RevertDone
  BY <1>11 DEF RevertDone, GoTo
<1>12. CASE Resetup
  BY <1>12 DEF Resetup, SetupSucceeds, SetupFails, GoTo
<1>13. CASE Unstop
  BY <1>13 DEF Unstop, Start, GoTo, notes
<1>14. CASE Reprobe
  BY <1>14 DEF Reprobe, Start, EndWith, host, notes
<1>15. CASE Interrupt
  BY <1>15 DEF Interrupt, Start, EndWith, host, notes
<1>16. CASE Kill
  BY <1>16 DEF Kill, EndWith, host, notes
<1>17. CASE Respawn
  BY <1>17 DEF Respawn, script, notes
<1>18. CASE AnswersLate
  BY <1>18 DEF AnswersLate, script, notes
<1>19. CASE UNCHANGED vars
  BY <1>19 DEF vars, script, host, notes
<1> QED
  BY <1>1, <1>2, <1>3, <1>4, <1>5, <1>6, <1>7, <1>8, <1>9, <1>10, <1>11, <1>12,
     <1>13, <1>14, <1>15, <1>16, <1>17, <1>18, <1>19 DEF Next

(* The inductive invariant of the script and its host. *)
THEOREM ShInvariance == Spec => []ShInv
BY ShInit, ShStep, PTL DEF Spec

(* A run that succeeds, rolls back or gives up leaves the service started. *)
THEOREM AlwaysLeftRunning == Spec => []LeftRunning
<1>1. ShInv => LeftRunning
  BY DEF ShInv
<1> QED
  BY ShInvariance, <1>1, PTL

(* Only Probe reports a success, and only over the release. *)
THEOREM HonestSuccess == Spec => SuccessIsServed
<1>1. ASSUME ShInv, [Next]_vars, Reports("success")
      PROVE  /\ head = "release" /\ tree = TreeOf("release")
             /\ setup = tree /\ loaded = tree /\ service = "up"
  <2>1. Probe
    BY <1>1 DEF Next, vars, Reports, ShInv, script, host, notes, Begin, Prepare, StopTakes,
      StopReturns, ResetFile, ResetDone, ResetFails, Check, RunSetup, RevertDone, Resetup,
      Unstop, Reprobe, Interrupt, Kill, Respawn, AnswersLate, GoTo, EndWith, Fail
  <2> QED
    BY <1>1, <2>1 DEF Probe, ShInv, Forward, Fail, GoTo, Reports
<1>2. ShInv /\ [Next]_vars =>
        [Reports("success") =>
           /\ head = "release" /\ tree = TreeOf("release")
           /\ setup = tree /\ loaded = tree /\ service = "up"]_vars
  BY <1>1
<1> QED
  BY ShInvariance, <1>2, PTL DEF Spec, SuccessIsServed

(* Only Reprobe reports a rollback, and what it reports is so unless flawed. *)
THEOREM HonestRollback == Spec => RolledBackIsRestored
<1>1. ASSUME ShInv, [Next]_vars, Reports("rolledBack"), ~flawed
      PROVE  IF mutated THEN head = prev /\ TreeOf(prev) = tree /\ setup = tree /\ loaded = tree
                        ELSE tree = found
  <2>1. Reprobe
    BY <1>1 DEF Next, vars, Reports, ShInv, script, host, notes, Begin, Prepare, StopTakes,
      StopReturns, ResetFile, ResetDone, ResetFails, Check, RunSetup, RevertDone, Resetup,
      Unstop, Probe, Interrupt, Kill, Respawn, AnswersLate, GoTo, EndWith, Fail
  <2> QED
    BY <1>1, <2>1 DEF Reprobe, ShInv, Backward
<1>2. ShInv /\ [Next]_vars =>
        [Reports("rolledBack") /\ ~flawed =>
           IF mutated THEN head = prev /\ TreeOf(prev) = tree /\ setup = tree /\ loaded = tree
                      ELSE tree = found]_vars
  BY <1>1
<1> QED
  BY ShInvariance, <1>2, PTL DEF Spec, RolledBackIsRestored
================================================================================
