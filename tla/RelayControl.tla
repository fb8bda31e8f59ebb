---------------------------- MODULE RelayControl ----------------------------
(***************************************************************************)
(* genpi/relay.py and genpi/control.py: the relay, its lock and the start  *)
(* and stop sequences, with the handlers of genpi/routes/core.py that      *)
(* reach them or the running flag, and the ways the process ends and is    *)
(* started again (genpi/lifecycle.py, main() in genpi/__init__.py).        *)
(*                                                                         *)
(* A thread is a request thread of the server's pool or the worker a start *)
(* request spawns; it is reused for the next request.  Each critical       *)
(* section under state_lock is one step; relay_lock, which spans sleeps,   *)
(* is a variable.  Sleeps are the interleavings between steps.             *)
(***************************************************************************)
EXTENDS Naturals, Sequences

CONSTANTS
  Threads,            \* request and worker threads
  NoThread,           \* relay_lock is free
  MaxStartRetries,    \* CONFIG["MAX_START_RETRIES"]
  MaxRequests         \* bound: requests served in one behaviour

ASSUME ThreadsAssumption == NoThread \notin Threads
ASSUME RetriesAssumption == MaxStartRetries \in Nat \ {0}
ASSUME RequestsAssumption == MaxRequests \in Nat

VARIABLES
  proc,        \* the process: "serving", "closing" (device closed, threads alive) or "down"
  relay,       \* is the relay energised, i.e. the button held down
  relay_lock,  \* the thread that holds relay_lock, or NoThread
  running,     \* generator_state["running"]
  pc,          \* what each thread does next
  job,         \* the request each thread serves
  presses,     \* presses the thread's sequence has begun
  events,      \* the durable event log: type and request
  serial,      \* history: the number of the request each thread serves
  requests     \* requests served so far, bounded by MaxRequests

vars == <<proc, relay, relay_lock, running, pc, job, presses, events, serial, requests>>

Sequenced == {"start", "stop"}

Jobs == Sequenced \cup {"mark", "reset", "none"}

\* Program points at which a thread holds relay_lock.
Driving == {"announce", "press", "held", "commit"}
Critical == Driving \cup {"check", "record", "release"}
Points == Critical \cup {"idle", "acquire", "record_override", "reset_state"}

\* Presses of one sequence: prime and start for each attempt, or the one stop press.
PressesOf(j) == IF j = "start" THEN 2 * MaxStartRetries ELSE 1

\* The event that closes a request.
ClosingEvent(j) ==
  [start |-> "start_complete", stop |-> "stop", mark |-> "set_running", reset |-> "factory_reset"][j]

EventTypes == {"start_rejected", "start", "start_complete", "stop", "set_running", "factory_reset"}

\* record_event never raises: an event it cannot write is dropped.
Record(type, n) == events' \in {events, Append(events, [type |-> type, request |-> n])}

Goto(t, point) == pc' = [pc EXCEPT ![t] = point]

Init ==
  /\ proc = "serving"
  /\ relay = FALSE
  /\ relay_lock = NoThread
  /\ running = FALSE
  /\ pc = [t \in Threads |-> "idle"]
  /\ job = [t \in Threads |-> "none"]
  /\ presses = [t \in Threads |-> 0]
  /\ events = <<>>
  /\ serial = [t \in Threads |-> 0]
  /\ requests = 0

-----------------------------------------------------------------------------
(* Requests arriving.                                                       *)

Accept(t, j) ==
  /\ proc = "serving"
  /\ pc[t] = "idle"
  /\ requests < MaxRequests
  /\ requests' = requests + 1
  /\ serial' = [serial EXCEPT ![t] = requests + 1]
  /\ job' = [job EXCEPT ![t] = j]

\* The route only LOOKS at relay_lock; the worker it spawns acquires it later.
ApiStart(t) ==
  /\ Accept(t, "start")
  /\ \/ /\ relay_lock = NoThread
        /\ Goto(t, "acquire")
        /\ UNCHANGED events
     \/ /\ relay_lock # NoThread
        /\ Record("start_rejected", requests + 1)
        /\ UNCHANGED pc
  /\ UNCHANGED <<proc, relay, relay_lock, running, presses>>

\* A stop runs in the request thread; a busy relay refuses it without an event.
ApiStop(t) ==
  /\ Accept(t, "stop")
  /\ \/ /\ relay_lock = NoThread
        /\ relay_lock' = t
        /\ presses' = [presses EXCEPT ![t] = 0]
        /\ Goto(t, "press")
     \/ /\ relay_lock # NoThread
        /\ UNCHANGED <<relay_lock, presses, pc>>
  /\ UNCHANGED <<proc, relay, running, events>>

\* The manual override takes state_lock only: it may fall inside a sequence.
ApiSetRunning(t, b) ==
  /\ Accept(t, "mark")
  /\ running' = b
  /\ Goto(t, "record_override")
  /\ UNCHANGED <<proc, relay, relay_lock, presses, events>>

\* factory_reset wipes the event table first, then resets the running flag; a
\* wipe that raises fails the request, with the rows deleted or not.
ApiFactoryReset(t) ==
  /\ Accept(t, "reset")
  /\ events' \in {events, <<>>}
  /\ Goto(t, "reset_state") \/ UNCHANGED pc
  /\ UNCHANGED <<proc, relay, relay_lock, running, presses>>

ResetState(t) ==
  /\ pc[t] = "reset_state"
  /\ running' = FALSE
  /\ Goto(t, "record_override")
  /\ UNCHANGED <<proc, relay, relay_lock, job, presses, events, serial, requests>>

RecordOverride(t) ==
  /\ pc[t] = "record_override"
  /\ Record(ClosingEvent(job[t]), serial[t])
  /\ Goto(t, "idle")
  /\ UNCHANGED <<proc, relay, relay_lock, running, job, presses, serial, requests>>

-----------------------------------------------------------------------------
(* start_generator and stop_generator.                                      *)

AcquireForStart(t) ==
  /\ pc[t] = "acquire"
  /\ \/ /\ relay_lock = NoThread
        /\ relay_lock' = t
        /\ Goto(t, "check")
        /\ UNCHANGED events
     \/ /\ relay_lock # NoThread
        /\ Record("start_rejected", serial[t])
        /\ Goto(t, "idle")
        /\ UNCHANGED relay_lock
  /\ UNCHANGED <<proc, relay, running, job, presses, serial, requests>>

\* Mutant: the early return that refuses a running generator keeps the lock.
CheckRunning_LeaksLock(t) ==
  /\ pc[t] = "check"
  /\ \/ running /\ Record("start_rejected", serial[t]) /\ Goto(t, "idle") /\ UNCHANGED presses
     \/ /\ ~running
        /\ presses' = [presses EXCEPT ![t] = 0]
        /\ Goto(t, "announce")
        /\ UNCHANGED events
  /\ UNCHANGED <<proc, relay, relay_lock, running, job, serial, requests>>

\* Mutant: a start no longer looks at the running flag.
CheckRunning_Dropped(t) ==
  /\ pc[t] = "check"
  /\ presses' = [presses EXCEPT ![t] = 0]
  /\ Goto(t, "announce")
  /\ UNCHANGED <<proc, relay, relay_lock, running, job, events, serial, requests>>

CheckRunning(t) ==
  /\ pc[t] = "check"
  /\ \/ /\ running
        /\ Record("start_rejected", serial[t])
        /\ Goto(t, "release")
        /\ UNCHANGED presses
     \/ /\ ~running
        /\ presses' = [presses EXCEPT ![t] = 0]
        /\ Goto(t, "announce")
        /\ UNCHANGED events
  /\ UNCHANGED <<proc, relay, relay_lock, running, job, serial, requests>>

AnnounceStart(t) ==
  /\ pc[t] = "announce"
  /\ Record("start", serial[t])
  /\ Goto(t, "press")
  /\ UNCHANGED <<proc, relay, relay_lock, running, job, presses, serial, requests>>

\* press_button up to its sleep.  on() raises on a closed device, and the
\* exception leaves the sequence through its finally.
Press(t) ==
  /\ pc[t] = "press"
  /\ \/ /\ proc = "serving"
        /\ relay' = TRUE
        /\ presses' = [presses EXCEPT ![t] = @ + 1]
        /\ Goto(t, "held")
     \/ /\ proc = "closing"
        /\ Goto(t, "release")
        /\ UNCHANGED <<relay, presses>>
  /\ UNCHANGED <<proc, relay_lock, running, job, events, serial, requests>>

\* Mutant: the sequence goes on to commit after the prime press.
Lift_AfterPrime(t) ==
  /\ pc[t] = "held"
  /\ relay' = FALSE
  /\ Goto(t, IF proc = "closing" THEN "release" ELSE "commit")
  /\ UNCHANGED <<proc, relay_lock, running, job, presses, events, serial, requests>>

\* Mutant: press_button without its finally.
Lift_NoFinally(t) ==
  /\ pc[t] = "held"
  /\ Goto(t, IF proc = "closing" THEN "release"
             ELSE IF presses[t] < PressesOf(job[t]) THEN "press" ELSE "commit")
  /\ UNCHANGED <<proc, relay, relay_lock, running, job, presses, events, serial, requests>>

\* The finally of press_button, then the next press of the sequence, if any.
Lift(t) ==
  /\ pc[t] = "held"
  /\ \/ /\ proc = "serving"
        /\ relay' = FALSE
        /\ Goto(t, IF presses[t] < PressesOf(job[t]) THEN "press" ELSE "commit")
     \/ /\ proc = "closing"
        /\ Goto(t, "release")
        /\ UNCHANGED relay
  /\ UNCHANGED <<proc, relay_lock, running, job, presses, events, serial, requests>>

\* Mutant: the lock is given back with the state update, before the event.
Commit_ReleasesEarly(t) ==
  /\ pc[t] = "commit"
  /\ running' = (job[t] = "start")
  /\ relay_lock' = NoThread
  /\ Goto(t, "record")
  /\ UNCHANGED <<proc, relay, job, presses, events, serial, requests>>

Commit(t) ==
  /\ pc[t] = "commit"
  /\ running' = (job[t] = "start")
  /\ Goto(t, "record")
  /\ UNCHANGED <<proc, relay, relay_lock, job, presses, events, serial, requests>>

RecordDone(t) ==
  /\ pc[t] = "record"
  /\ Record(ClosingEvent(job[t]), serial[t])
  /\ Goto(t, "release")
  /\ UNCHANGED <<proc, relay, relay_lock, running, job, presses, serial, requests>>

Release(t) ==
  /\ pc[t] = "release"
  /\ relay_lock' = NoThread
  /\ Goto(t, "idle")
  /\ UNCHANGED <<proc, relay, running, job, presses, events, serial, requests>>

-----------------------------------------------------------------------------
(* The end of the process, and its start.                                   *)

\* Mutant: closing the device leaves the pin as it is.
CloseDevice_KeepsPin ==
  /\ proc = "serving"
  /\ proc' = "closing"
  /\ UNCHANGED <<relay, relay_lock, running, pc, job, presses, events, serial, requests>>

\* main()'s finally after Ctrl-C: closing the device releases the pin while
\* a daemon worker may still be inside a sequence.
CloseDevice ==
  /\ proc = "serving"
  /\ proc' = "closing"
  /\ relay' = FALSE
  /\ UNCHANGED <<relay_lock, running, pc, job, presses, events, serial, requests>>

\* The image is gone: os.execv of a restart, a signal's default action, a power
\* cut or the end of the interpreter.  No finally runs in any thread, and what
\* level the pin keeps is the platform's choice.
Exit ==
  /\ proc # "down"
  /\ proc' = "down"
  /\ relay' \in {relay, FALSE}
  /\ relay_lock' = NoThread
  /\ pc' = [t \in Threads |-> "idle"]
  /\ UNCHANGED <<running, job, presses, events, serial, requests>>

\* Mutant: the device is made without initial_value=False.
Boot_KeepsPin ==
  /\ proc = "down"
  /\ proc' = "serving"
  /\ running' = FALSE
  /\ UNCHANGED <<relay, relay_lock, pc, job, presses, events, serial, requests>>

\* Importing relay.py makes the device de-energised; state.py starts stopped.
Boot ==
  /\ proc = "down"
  /\ proc' = "serving"
  /\ relay' = FALSE
  /\ running' = FALSE
  /\ UNCHANGED <<relay_lock, pc, job, presses, events, serial, requests>>

-----------------------------------------------------------------------------
Request(t) ==
  \/ ApiStart(t)
  \/ ApiStop(t)
  \/ \E b \in BOOLEAN : ApiSetRunning(t, b)
  \/ ApiFactoryReset(t)

Step(t) ==
  \/ ResetState(t)
  \/ RecordOverride(t)
  \/ AcquireForStart(t)
  \/ CheckRunning(t)
  \/ AnnounceStart(t)
  \/ Press(t)
  \/ Lift(t)
  \/ Commit(t)
  \/ RecordDone(t)
  \/ Release(t)

Next ==
  \/ \E t \in Threads : Request(t) \/ Step(t)
  \/ CloseDevice
  \/ Exit
  \/ Boot

Spec == Init /\ [][Next]_vars

\* The scheduler runs every thread that can go on.  Nothing is assumed of Boot:
\* after a systemctl stop, or without a unit, nobody may start the process again.
Fairness == \A t \in Threads : WF_vars(Step(t))

FairSpec == Spec /\ Fairness

-----------------------------------------------------------------------------
(* Properties.                                                              *)

\* Every variable has its type; a sequence never begins more presses than its
\* kind asks for.
TypeOK ==
  /\ proc \in {"serving", "closing", "down"}
  /\ relay \in BOOLEAN
  /\ relay_lock \in Threads \cup {NoThread}
  /\ running \in BOOLEAN
  /\ pc \in [Threads -> Points]
  /\ job \in [Threads -> Jobs]
  /\ presses \in [Threads -> 0 .. 2 * MaxStartRetries]
  /\ events \in Seq([type : EventTypes, request : 0 .. MaxRequests])
  /\ serial \in [Threads -> 0 .. MaxRequests]
  /\ requests \in 0 .. MaxRequests

\* relay_lock is held exactly by the thread inside a sequence: two sequences
\* never overlap, and no early return, exception or restart leaks the lock.
LockDiscipline == \A t \in Threads : relay_lock = t <=> pc[t] \in Critical

\* While the process serves, the button is down exactly while the lock holder
\* sleeps inside press_button: no thread leaves a press with the relay energised.
ButtonFollowsHolder ==
  proc = "serving" =>
    (relay <=> relay_lock # NoThread /\ pc[relay_lock] = "held")

\* Each thread is where its request can be, and a sequence has begun the presses
\* that point of the code implies: it commits after all of them, never before.
SequenceFits ==
  \A t \in Threads :
    /\ pc[t] \in {"acquire", "check", "announce"} => job[t] = "start"
    /\ pc[t] \in {"press", "held", "commit", "record"} => job[t] \in Sequenced
    /\ pc[t] = "record_override" => job[t] \in {"mark", "reset"}
    /\ pc[t] = "reset_state" => job[t] = "reset"
    /\ pc[t] = "announce" => presses[t] = 0
    /\ pc[t] = "press" => presses[t] < PressesOf(job[t])
    /\ pc[t] = "held" => presses[t] \in 1 .. PressesOf(job[t])
    /\ pc[t] = "commit" => presses[t] = PressesOf(job[t])

\* With the device closed the button is up, and a dead process has no thread.
NothingOutlives ==
  /\ proc = "closing" => ~relay
  /\ proc = "down" => \A t \in Threads : pc[t] = "idle"

\* control.py pairs every start_complete with the start of the same request: when
\* both are in the log the start comes first, and no other sequence's event falls
\* between them.  (Either may be missing: record_event drops what it cannot write,
\* and a factory reset wipes the log in the middle of a sequence.)
IsControl(e) == e.type \in {"start", "start_complete", "stop"}

StartOf(n) == [type |-> "start", request |-> n]

StartsArePaired ==
  \A i, k \in 1 .. Len(events) :
    /\ events[k].type = "start_complete"
    /\ events[i] = StartOf(events[k].request)
    => /\ i < k
       /\ \A j \in i + 1 .. k - 1 : ~IsControl(events[j])

\* The promise of OneTouch: exclusive sessions, complete press counts, a start
\* only from stopped, and a flag moved only by completed sessions or overrides.
InSession == relay_lock # NoThread /\ pc[relay_lock] \in Driving

Session ==
  IF proc = "down" THEN "dead" ELSE IF InSession THEN job[relay_lock] ELSE "none"

Left == IF InSession THEN PressesOf(job[relay_lock]) - presses[relay_lock] ELSE 0

Promise == INSTANCE OneTouch WITH session <- Session, left <- Left, down <- relay

ImplementsOneTouch == Promise!Spec

\* A sequence, even a refused or failing one, gives the lock back.
LockComesFree == \A t \in Threads : relay_lock = t ~> relay_lock # t

\* The button is not held down indefinitely, whatever ends the process in the
\* middle of a press, provided the process is started again: the pin may keep its
\* level, and then only the import of relay.py releases it.
ButtonComesUp == []<>(proc # "down") => (relay ~> ~relay)
=============================================================================
