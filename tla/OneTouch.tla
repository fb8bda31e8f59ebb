------------------------------ MODULE OneTouch ------------------------------
(***************************************************************************)
(* What the relay control of GeneratorPi promises to the engine.           *)
(*                                                                         *)
(* The PM9400E has ONE button: it is pressed twice (prime, start) for each *)
(* start attempt and once to stop.  The promise is that the button is      *)
(* driven by one session at a time, that a completed session has pressed   *)
(* it exactly as often as its kind asks for, that a start session begins   *)
(* only when the generator is believed stopped, and that the tracked       *)
(* running flag follows the sessions that completed (or an operator's      *)
(* explicit correction).  There are no threads and no locks here:          *)
(* RelayControl has those, and is checked to implement this module.        *)
(***************************************************************************)
EXTENDS Naturals

CONSTANT MaxStartRetries    \* start attempts in one start session, at least one

VARIABLES
  session,    \* the session driving the button: "none", "start", "stop"; "dead" with the process down
  left,       \* presses the session still owes
  down,       \* is the button held down
  running     \* the tracked running flag

vars == <<session, left, down, running>>

Kinds == {"start", "stop"}

\* Presses a session of this kind delivers: prime and start per attempt, or one.
Presses(kind) == IF kind = "start" THEN 2 * MaxStartRetries ELSE 1

TypeOK ==
  /\ session \in Kinds \cup {"none", "dead"}
  /\ left \in 0 .. 2 * MaxStartRetries
  /\ down \in BOOLEAN
  /\ running \in BOOLEAN

Init ==
  /\ session = "none"
  /\ left = 0
  /\ down = FALSE
  /\ running = FALSE

Begin(kind) ==
  /\ session = "none"
  /\ kind = "start" => ~running
  /\ session' = kind
  /\ left' = Presses(kind)
  /\ UNCHANGED <<down, running>>

PushDown ==
  /\ session \in Kinds
  /\ left > 0
  /\ ~down
  /\ down' = TRUE
  /\ left' = left - 1
  /\ UNCHANGED <<session, running>>

LiftUp ==
  /\ session \in Kinds
  /\ down
  /\ down' = FALSE
  /\ UNCHANGED <<session, left, running>>

\* Only a session that has delivered every press moves the running flag.
Complete ==
  /\ session \in Kinds
  /\ left = 0
  /\ ~down
  /\ running' = (session = "start")
  /\ session' = "none"
  /\ UNCHANGED <<left, down>>

\* The device was closed under the session: it ends, released, without moving the flag.
Abandon ==
  /\ session \in Kinds
  /\ session' = "none"
  /\ left' = 0
  /\ down' = FALSE
  /\ UNCHANGED running

\* The operator corrects the flag (mark running or stopped, factory reset).
Override ==
  /\ session # "dead"
  /\ running' \in BOOLEAN
  /\ UNCHANGED <<session, left, down>>

\* The process image disappears: nothing says what level the pin keeps.
Crash ==
  /\ session # "dead"
  /\ session' = "dead"
  /\ left' = 0
  /\ down' \in {down, FALSE}
  /\ UNCHANGED running

Boot ==
  /\ session = "dead"
  /\ session' = "none"
  /\ down' = FALSE
  /\ running' = FALSE
  /\ UNCHANGED left

Next ==
  \/ \E kind \in Kinds : Begin(kind)
  \/ PushDown
  \/ LiftUp
  \/ Complete
  \/ Abandon
  \/ Override
  \/ Crash
  \/ Boot

Spec == Init /\ [][Next]_vars
=============================================================================
