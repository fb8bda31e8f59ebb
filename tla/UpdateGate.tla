------------------------------ MODULE UpdateGate ------------------------------
(***************************************************************************)
(* The decision gate of the self-updater: _await_decision and the stages   *)
(* of _run_update in genpi/updater.py, with the start and decide handlers  *)
(* of genpi/routes/update.py.                                              *)
(*                                                                         *)
(* One worker thread runs an update and parks at gates; request threads    *)
(* start updates and answer gates.  Each section under _update_lock is one *)
(* step; the threading.Event is set and cleared OUTSIDE that lock, which   *)
(* is where the interleavings are.  What a stage does to the files is in   *)
(* UpdateApply; here it only succeeds or fails.                            *)
(***************************************************************************)
EXTENDS Naturals

CONSTANTS
  Clients,            \* request threads
  MaxRuns, MaxPosts   \* bounds: updates started, answers accepted

VARIABLES
  phase,    \* _update_state["phase"], the working phases as one
  decide,   \* _update_state["decide"]: "none", or what the gate offers
  choice,   \* _update_decision_choice["choice"]
  event,    \* _update_decision_event
  worker,   \* what the worker thread does next, "none" without one
  gate,     \* the gate the worker is parked at
  got,      \* what its event.wait returned
  verdict,  \* what _await_decision returned
  posting,  \* has the client's answer been accepted and its event.set() not yet run
  approved, \* history: an operator answered PROCEED at this run's staged gate
  runs, posts   \* bounded counts

shared == <<phase, decide, choice, event>>
thread == <<worker, gate, got, verdict>>
history == <<approved, runs, posts>>
vars == <<shared, thread, posting, history>>

\* Where the worker parks: a release the version gate refuses, the go/no-go once
\* everything is staged, and any exception.
Gates == {"refused", "staged", "error"}

\* Only the staged gate may be answered with PROCEED.
Offer(g) == IF g = "staged" THEN "either" ELSE "revert_only"

Answers == {"proceed", "revert"}

Parked == {"clear", "wait", "read"}

Init ==
  /\ phase = "idle"
  /\ decide = "none"
  /\ choice = "none"
  /\ event = FALSE
  /\ worker = "none"
  /\ gate = "staged"
  /\ got = FALSE
  /\ verdict = "revert"
  /\ posting = [c \in Clients |-> FALSE]
  /\ approved = FALSE
  /\ runs = 0
  /\ posts = 0

-----------------------------------------------------------------------------
(* Request handlers.                                                        *)

\* Mutant: a parked update does not count as one in progress.
ApiUpdateStart_OverParked ==
  /\ phase \in {"idle", "failed", "awaiting"}
  /\ runs < MaxRuns
  /\ runs' = runs + 1
  /\ phase' = "working"
  /\ decide' = "none"
  /\ worker' = "stage1"
  /\ approved' = FALSE
  /\ UNCHANGED <<choice, event, gate, got, verdict, posting, posts>>

\* api_update_start: refused unless the last update is over.
ApiUpdateStart ==
  /\ phase \in {"idle", "failed"}
  /\ runs < MaxRuns
  /\ runs' = runs + 1
  /\ phase' = "working"
  /\ decide' = "none"
  /\ worker' = "stage1"
  /\ approved' = FALSE
  /\ UNCHANGED <<choice, event, gate, got, verdict, posting, posts>>

\* Mutant: a PROCEED is taken at every gate.
ApiUpdateDecide_HonoursAll(c, answer) ==
  /\ ~posting[c]
  /\ posts < MaxPosts
  /\ phase = "awaiting"
  /\ decide # "none"
  /\ posts' = posts + 1
  /\ choice' = answer
  /\ posting' = [posting EXCEPT ![c] = TRUE]
  /\ approved' = (approved \/ (answer = "proceed" /\ gate = "staged"))
  /\ UNCHANGED <<phase, decide, event, thread, runs>>

\* api_update_decide under _update_lock: PROCEED becomes REVERT where the gate does
\* not offer it.
ApiUpdateDecide(c, answer) ==
  /\ ~posting[c]
  /\ posts < MaxPosts
  /\ phase = "awaiting"
  /\ decide # "none"
  /\ posts' = posts + 1
  /\ choice' = IF decide = "either" THEN answer ELSE "revert"
  /\ posting' = [posting EXCEPT ![c] = TRUE]
  /\ approved' = (approved \/ (answer = "proceed" /\ gate = "staged"))
  /\ UNCHANGED <<phase, decide, event, thread, runs>>

\* Its event.set(), after the lock is released.
SetEvent(c) ==
  /\ posting[c]
  /\ posting' = [posting EXCEPT ![c] = FALSE]
  /\ event' = TRUE
  /\ UNCHANGED <<phase, decide, choice, thread, history>>

-----------------------------------------------------------------------------
(* The worker.                                                              *)

\* Mutant: the answer to an earlier gate is not forgotten.
Park_KeepsChoice(g) ==
  /\ phase' = "awaiting"
  /\ decide' = Offer(g)
  /\ gate' = g
  /\ worker' = "clear"
  /\ UNCHANGED <<choice, event, got, verdict, posting, history>>

\* _await_decision up to the release of _update_lock.
Park(g) ==
  /\ phase' = "awaiting"
  /\ decide' = Offer(g)
  /\ choice' = "none"
  /\ gate' = g
  /\ worker' = "clear"
  /\ UNCHANGED <<event, got, verdict, posting, history>>

\* Stage 1 ends at the go/no-go, at the version gate or in an exception.
EndStage1 ==
  /\ worker = "stage1"
  /\ \E g \in Gates : Park(g)

\* The event is cleared AFTER the gate is open to answers.
Clear ==
  /\ worker = "clear"
  /\ event' = FALSE
  /\ worker' = "wait"
  /\ UNCHANGED <<phase, decide, choice, gate, got, verdict, posting, history>>

\* An answer's event.set() ends the wait.
Wake ==
  /\ worker = "wait"
  /\ event
  /\ got' = TRUE
  /\ worker' = "read"
  /\ UNCHANGED <<shared, gate, verdict, posting, history>>

\* Mutant: the wait has no timeout.
TimeOut_Never ==
  /\ worker = "wait"
  /\ ~event
  /\ UNCHANGED vars

\* Ten minutes without an event.
TimeOut ==
  /\ worker = "wait"
  /\ ~event
  /\ got' = FALSE
  /\ worker' = "read"
  /\ UNCHANGED <<shared, gate, verdict, posting, history>>

\* The rest of _await_decision: without a valid answer in time, the safe one.
Read ==
  /\ worker = "read"
  /\ verdict' = IF got /\ choice \in Answers THEN choice ELSE "revert"
  /\ decide' = "none"
  /\ worker' = "resume"
  /\ UNCHANGED <<phase, choice, event, gate, got, posting, history>>

\* After the gate: stage 2 if the operator said so, or the way out.
Resume ==
  /\ worker = "resume"
  /\ \/ /\ gate = "staged" /\ verdict = "proceed"
        /\ worker' = "stage2"
        /\ phase' = "working"
     \/ /\ gate # "staged" \/ verdict = "revert"
        /\ worker' = "cleanup"
        /\ UNCHANGED phase
  /\ UNCHANGED <<decide, choice, event, gate, got, verdict, posting, history>>

\* The update is over, and only now may another one start.
EndUpdate ==
  /\ worker = "cleanup"
  /\ worker' = "none"
  /\ phase' = "failed"
  /\ UNCHANGED <<decide, choice, event, gate, got, verdict, posting, history>>

\* Stage 2 hands over to a restart, or an exception parks it.
EndStage2 ==
  /\ worker = "stage2"
  /\ \/ /\ worker' = "none"
        /\ phase' = "restarting"
        /\ UNCHANGED <<decide, choice, event, gate, got, verdict, posting, history>>
     \/ Park("error")

\* The process starts afresh: after the update, on request, or after a crash.
ProcessRestart ==
  /\ phase' = "idle"
  /\ decide' = "none"
  /\ choice' = "none"
  /\ event' = FALSE
  /\ worker' = "none"
  /\ posting' = [c \in Clients |-> FALSE]
  /\ UNCHANGED <<gate, got, verdict, history>>

-----------------------------------------------------------------------------
Worker ==
  \/ EndStage1
  \/ Clear
  \/ Wake
  \/ TimeOut
  \/ Read
  \/ Resume
  \/ EndUpdate
  \/ EndStage2

Next ==
  \/ ApiUpdateStart
  \/ \E c \in Clients, answer \in Answers : ApiUpdateDecide(c, answer)
  \/ \E c \in Clients : SetEvent(c)
  \/ Worker
  \/ ProcessRestart

Spec == Init /\ [][Next]_vars

\* The worker thread is scheduled, and event.wait has its timeout.
FairSpec == Spec /\ WF_vars(Worker)

-----------------------------------------------------------------------------
(* Properties.                                                              *)

\* Every variable has its type.
TypeOK ==
  /\ phase \in {"idle", "working", "awaiting", "failed", "restarting"}
  /\ decide \in {"none", "either", "revert_only"}
  /\ choice \in Answers \cup {"none"}
  /\ event \in BOOLEAN
  /\ worker \in Parked \cup {"none", "stage1", "resume", "cleanup", "stage2"}
  /\ gate \in Gates
  /\ got \in BOOLEAN
  /\ verdict \in Answers
  /\ posting \in [Clients -> BOOLEAN]
  /\ approved \in BOOLEAN
  /\ runs \in Nat
  /\ posts \in Nat

\* Nothing live is touched without consent: stage 2 runs only when an operator said
\* PROCEED at the staged gate of THIS run.  A late event.set(), an answer to an
\* earlier gate or a timeout never passes for one.
AppliesWithConsent == worker = "stage2" => approved

\* A gate that offers REVERT only never returns PROCEED, whatever is posted to it.
RefusedMeansRefused == worker = "resume" /\ gate # "staged" => verdict = "revert"

\* One update at a time: a start never finds another update's worker still running.
OneUpdateAtATime == [][runs' # runs => worker = "none"]_vars

\* Unattended or not, an update ends: no gate waits for ever, and the next one can
\* be started (or the process is about to restart).
UpdateEnds == worker = "stage1" ~> worker = "none"
=============================================================================
