----------------------------- MODULE LowFuelAlert ------------------------------
(***************************************************************************)
(* The low-fuel alert of fuel.py: a monitor that looks at the projected    *)
(* level every minute and sends one push per crossing of the threshold,    *)
(* to the subscriptions of store.py.  How the level comes about is         *)
(* TrackedState's business: here it burns down while the engine runs, a    *)
(* fill sets it, and whatever corrects the model (a reading, a rate, the   *)
(* odometer, the clock) moves it.  Every operation is one section of       *)
(* state_lock, but the push leaves after the lock is released.             *)
(***************************************************************************)
EXTENDS Subscriptions

CONSTANTS
  Full,          \* levels are 0..Full
  Thresholds,    \* what the slider offers; the least is the default
  Margin,        \* FUEL_ALERT_REARM_MARGIN
  MaxRestarts    \* bound: restarts in a behaviour

ASSUME AlertAssumption ==
  /\ Full \in Nat /\ Margin \in Nat /\ MaxRestarts \in Nat
  /\ Thresholds \subseteq 0..Full /\ Thresholds # {}

VARIABLES
  running, level,    \* the tracked state and the projected level
  enabled, threshold,\* alerts_on and fuel_enabled; alert_threshold
  alerted,           \* _low_fuel_alerted
  monitor,           \* "waiting", or "pushing" after the lock is released
  restarts,
  rearmed,           \* history: a cause to alert again since the last alert
  owed               \* history: rows there at a fill, not sent to since, and
                     \* no push given up since

tank == <<running, level, enabled, threshold>>
vars == <<subVars, tank, alerted, monitor, restarts, rearmed, owed>>

Levels == 0..Full
Default == Min(Thresholds)

Init ==
  /\ SubscriptionsInit
  /\ running = FALSE /\ level = Full /\ enabled = TRUE /\ threshold = Default
  /\ alerted = FALSE /\ monitor = "waiting" /\ restarts = 0
  /\ rearmed = TRUE /\ owed = {}

\* A stop, a level above threshold and margin, or a restart re-arms; a fill does
\* too.  A row that goes is owed nothing.
NoteCauses ==
  /\ rearmed' = (rearmed \/ ~running' \/ level' > threshold' + Margin)
  /\ owed' = owed \cap Range(subs')

SetRunning ==
  /\ running' = ~running
  /\ UNCHANGED <<subVars, level, enabled, threshold, alerted, monitor, restarts>>
  /\ NoteCauses

Burn ==
  /\ running /\ level > 0
  /\ level' = level - 1
  /\ UNCHANGED <<subVars, running, enabled, threshold, alerted, monitor, restarts>>
  /\ NoteCauses

Correct ==
  /\ level' \in Levels
  /\ UNCHANGED <<subVars, running, enabled, threshold, alerted, monitor, restarts>>
  /\ NoteCauses

\* Mutant: a fill does not re-arm.
SetFuelFill_KeepsFlag ==
  /\ level' \in Levels
  /\ rearmed' = TRUE /\ owed' = Subscribed
  /\ UNCHANGED <<subVars, running, enabled, threshold, alerted, monitor, restarts>>

SetFuelFill ==
  /\ level' \in Levels
  /\ alerted' = FALSE
  /\ rearmed' = TRUE /\ owed' = Subscribed
  /\ UNCHANGED <<subVars, running, enabled, threshold, monitor, restarts>>

SetAlerts ==
  /\ enabled' \in BOOLEAN /\ threshold' \in Thresholds
  /\ UNCHANGED <<subVars, running, level, alerted, monitor, restarts>>
  /\ NoteCauses

\* evaluate_low_fuel, under state_lock: the edges.
Crossing ==
  /\ monitor = "waiting" /\ enabled /\ running
  /\ level <= threshold /\ ~alerted
  /\ alerted' = TRUE /\ monitor' = "pushing"
  /\ rearmed' = FALSE
  /\ UNCHANGED <<subVars, tank, restarts, owed>>

\* Mutant: no hysteresis.
Rearm_NoMargin ==
  /\ monitor = "waiting" /\ enabled /\ alerted
  /\ ~running \/ level > threshold
  /\ alerted' = FALSE
  /\ UNCHANGED <<subVars, tank, monitor, restarts, rearmed, owed>>

Rearm ==
  /\ monitor = "waiting" /\ enabled /\ alerted
  /\ ~running \/ level > threshold + Margin
  /\ alerted' = FALSE
  /\ UNCHANGED <<subVars, tank, monitor, restarts, rearmed, owed>>

\* evaluate_low_fuel, after the lock: send_push_async, which starts no thread
\* without push support and keys.
PushLowFuel ==
  /\ monitor = "pushing" /\ monitor' = "waiting"
  /\ \/ \E p \in Pushers : BeginPush(p) /\ UNCHANGED owed
     \/ owed' = {} /\ UNCHANGED subVars
  /\ UNCHANGED <<tank, alerted, restarts, rearmed>>

PushStep ==
  /\ UNCHANGED <<tank, alerted, monitor, restarts>>
  /\ \E p \in Pushers :
       \/ ReadSubscriptions(p) /\ NoteCauses
       \/ PushGivesUp(p) /\ owed' = {} /\ UNCHANGED rearmed
       \/ EndPush(p) /\ NoteCauses
       \/ \E e \in Endpoints :
            /\ Deliver(p, e)
            /\ owed' = (owed \ {e}) \cap Range(subs') /\ UNCHANGED rearmed

Browser ==
  /\ \E e \in Endpoints : Subscribe(e) \/ Drop(e) \/ Unsubscribe(e)
  /\ UNCHANGED <<tank, alerted, monitor, restarts>>
  /\ NoteCauses

\* factory_reset: first the tables, then memory; the flag is left as it is.
ResetStore ==
  /\ subs' = <<>>
  /\ UNCHANGED <<browser, sending, todo, tank, alerted, monitor, restarts>>
  /\ NoteCauses

ResetMemory ==
  /\ running' = FALSE /\ level' = Full /\ enabled' = TRUE /\ threshold' = Default
  /\ UNCHANGED <<subVars, alerted, monitor, restarts>>
  /\ NoteCauses

\* The process ends and starts: the flag and the threads are gone, the run in
\* progress is forgotten, the tables and the settings are read back.
Restart ==
  /\ restarts < MaxRestarts /\ restarts' = restarts + 1
  /\ sending' = [p \in Pushers |-> "idle"] /\ todo' = [p \in Pushers |-> {}]
  /\ running' = FALSE /\ level' \in level..Full
  /\ alerted' = FALSE /\ monitor' = "waiting"
  /\ UNCHANGED <<subs, browser, enabled, threshold>>
  /\ NoteCauses

Next ==
  \/ SetRunning \/ Burn \/ Correct \/ SetFuelFill \/ SetAlerts
  \/ Crossing \/ Rearm \/ PushLowFuel \/ PushStep
  \/ Browser \/ ResetStore \/ ResetMemory \/ Restart

\* The monitor comes round every minute, threads run, and each send has a timeout.
Fairness ==
  /\ WF_vars(Crossing) /\ WF_vars(PushLowFuel)
  /\ WF_vars(PushStep)

Spec == Init /\ [][Next]_vars /\ Fairness
--------------------------------------------------------------------------------
(* "Fires at most ONE push per below-threshold crossing (re-arms after climbing
   back above threshold + margin, on refuel, or when stopped)". *)
OnePushPerCrossing == [][monitor = "waiting" /\ monitor' = "pushing" => rearmed]_vars

(* No crossing is passed over: when the engine runs on with the level low, a send
   is tried since the last fill to each browser whose row was there and stayed,
   or the push as a whole gave up (no keys, no support, an unreadable table).
   Neither is tried again: the flag is up by then. *)
EveryCrossingIsSent ==
  \A e \in Endpoints :
    <>[](running /\ enabled /\ level <= threshold) => []<>(e \notin owed)

(* A browser that is still subscribed loses its row only to factory_reset, or as
   the oldest of a full table that takes in a new one, however the clock is set,
   whichever writes fail, and whatever the push service says of others. *)
LiveRowsStay ==
  [][ \A e \in Subscribed \ Range(subs') :
        browser[e] = "alive" =>
          \/ ResetStore
          \/ /\ e = Head(subs) /\ Len(subs) = SubscriptionMax
             /\ Range(subs') \ Subscribed # {} ]_vars
================================================================================
