------------------------------- MODULE PollQueue -------------------------------
(***************************************************************************)
(* The browser's serial poll queue (frontend/app.js): one request in       *)
(* flight across all pollers, at most one queued job per key, the most     *)
(* urgent job next, where waiting makes a job more urgent.                 *)
(*                                                                         *)
(* The queue is in the order of queuing.  A job gains a level for each     *)
(* full refresh interval it has itself waited, so jobs gain theirs at      *)
(* different moments, and which is the more urgent of two changes while    *)
(* they wait: the choice is made when a job is sent.  Time is in ticks,    *)
(* IntervalTicks to a refresh interval, and runs forward.                  *)
(***************************************************************************)
EXTENDS Integers, Sequences, SequencesExt

CONSTANTS
  Pollers,       \* the keys in use, all or some of DOMAIN Prio
  IntervalTicks, \* the refresh interval
  MaxWait        \* bound: ticks a job is seen to wait

VARIABLES
  poll,          \* [queue, active]: _pollQ and the request in flight
  paused         \* updateActive or one of the update dialogs is open

\* _pollPrio: the less, the more urgent
Prio == [state |-> 0, events |-> 1, logs |-> 1, sys |-> 2]

ASSUME PollAssumption ==
  /\ "state" \in Pollers /\ Pollers \subseteq DOMAIN Prio
  /\ IntervalTicks \in Nat \ {0} /\ MaxWait \in Nat

NoJob == [key |-> "none", path |-> 0]
Idle  == [queue |-> <<>>, active |-> NoJob]
QueuedKeys(p) == {p.queue[i].key : i \in DOMAIN p.queue}

\* Mutant: waiting makes no job more urgent.
Level_NoAgeing(key, waited) == Prio[key]

\* The effective priority of a job that has waited so long.
Level(key, waited) == Prio[key] - (waited \div IntervalTicks)

LevelOf(job) == Level(job.key, job.waited)

\* Mutant: of two jobs of a level the later is sent first.
MostUrgent_LastFirst(q) ==
  CHOOSE n \in DOMAIN q : \A m \in DOMAIN q :
    LevelOf(q[n]) < LevelOf(q[m]) \/ (LevelOf(q[n]) = LevelOf(q[m]) /\ n >= m)

\* The scan of the queue: the most urgent job, the one queued first of several.
MostUrgent(q) ==
  CHOOSE n \in DOMAIN q : \A m \in DOMAIN q :
    LevelOf(q[n]) < LevelOf(q[m]) \/ (LevelOf(q[n]) = LevelOf(q[m]) /\ n <= m)

\* _drainPollQ: when no request is in flight the most urgent job is sent.
Drain(p) ==
  IF p.active # NoJob \/ p.queue = <<>> THEN p
  ELSE LET n == MostUrgent(p.queue)
       IN  [queue  |-> RemoveAt(p.queue, n),
            active |-> [key |-> p.queue[n].key, path |-> p.queue[n].path]]

\* pollFetch: a queued job of the key keeps its place and takes the new path.
PollFetch(p, key, path) ==
  IF key \notin Pollers \/ (paused /\ key # "state") THEN p
  ELSE IF key \in QueuedKeys(p) THEN
    LET Renewed(job) == IF job.key = key THEN [job EXCEPT !.path = path] ELSE job
    IN  [p EXCEPT !.queue = [i \in DOMAIN p.queue |-> Renewed(p.queue[i])]]
  ELSE Drain([p EXCEPT !.queue = Append(p.queue, [key |-> key, path |-> path, waited |-> 0])])

\* The request in flight is answered, fails or is aborted; the next is sent.
Settled(p) == Drain([p EXCEPT !.active = NoJob])

PollInit == poll = Idle /\ paused = FALSE

Waited(job) == [job EXCEPT !.waited = job.waited + 1]
Tick ==
  /\ poll.queue # <<>> /\ \A i \in DOMAIN poll.queue : poll.queue[i].waited < MaxWait
  /\ poll' = [poll EXCEPT !.queue = [i \in DOMAIN poll.queue |-> Waited(poll.queue[i])]]
  /\ UNCHANGED paused

Pause == paused' = ~paused /\ UNCHANGED poll

\* The earlier of two queued jobs had aged to the highest priority, 0, when the
\* later one was queued.
Protected(early, late) == Level(early.key, early.waited - late.waited) <= 0

(* Ageing protects: nothing that was queued after a job had waited an interval
   for each level of its priority is sent before it, however urgent, although
   the two go on gaining levels at different moments (app.js, _drainPollQ). *)
NoOvertaking ==
  [][\A i, j \in DOMAIN poll.queue :
       i < j /\ Protected(poll.queue[i], poll.queue[j])
         /\ poll.queue[i].key \in QueuedKeys(poll') =>
       poll.queue[j].key \in QueuedKeys(poll')]_poll

(* No job starves: however often the state, which outranks all others, is
   polled again, ageing takes a job that waits to the front. *)
EveryJobSent ==
  \A k \in Pollers \ {"state"} : k \in QueuedKeys(poll) ~> poll.active.key = k
================================================================================
