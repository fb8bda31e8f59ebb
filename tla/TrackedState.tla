---------------------------- MODULE TrackedState ----------------------------
(***************************************************************************)
(* genpi/state.py and the mutators of genpi/fuel.py: the tracked running   *)
(* flag, the lifetime odometer, the fuel baseline and the alert settings,  *)
(* their durable copies in the kv table (kv_get, kv_set of genpi/store.py) *)
(* and the factory reset of genpi/routes/core.py.                          *)
(*                                                                         *)
(* Every mutator holds state_lock, so it is one step, except               *)
(* set_total_run_hours, whose two kv writes are two commits: the process   *)
(* may end between them, and the factory reset's wipe of the table, which  *)
(* takes only _event_lock, may fall there too.  Run-hours are whole ticks. *)
(***************************************************************************)
EXTENDS Integers

CONSTANTS
  Levels,        \* tank levels an operator enters
  Rates,         \* drain rates
  FullLevel,     \* the default fill level (100 %)
  DefaultRate,   \* FUEL_DEFAULT_RATE
  AlertConfigs,  \* values of alerts_state
  DefaultAlerts,
  Hours,         \* odometer readings an operator enters
  MinRunSinceFill, \* FUEL_MIN_RUN_SINCE_FILL
  ClockSteps,    \* how far a correction of the wall clock may move it
  KvMayFail,     \* may a kv_set or a kv_get fail (they only log)
  None, Absent,
  MaxTime, MaxHours, MaxRestarts, MaxResets   \* bounds

ASSUME DataAssumption ==
  /\ FullLevel \in Levels
  /\ DefaultRate \in Rates
  /\ DefaultAlerts \in AlertConfigs
  /\ Hours \subseteq Nat
  /\ MinRunSinceFill \in Nat
  /\ ClockSteps \subseteq Int
  /\ KvMayFail \in BOOLEAN
ASSUME NoneAssumption == None \notin Int
ASSUME AbsentAssumption ==
  Absent \notin Nat \cup AlertConfigs \cup
    [fill_level : Levels, fill_run_hours : Nat, drain_rate : Rates]
ASSUME BoundsAssumption ==
  MaxTime \in Nat /\ MaxHours \in Nat /\ MaxRestarts \in Nat /\ MaxResets \in Nat

VARIABLES
  wall,          \* time.time()
  running,       \* generator_state["running"]
  started,       \* generator_state["current_run_started_at"]
  total,         \* generator_state["total_run_hours"]
  fuel,          \* fuel_state
  alerts,        \* alerts_state
  kv,            \* the kv table
  setting,       \* set_total_run_hours is between its two kv writes, holding state_lock
  resetting,     \* factory_reset is between its wipe and its memory reset
  restarts, resets,   \* bounded counts
  engine_hours,  \* history: run-time since the odometer was last set, plus that setting
  burned         \* history: run-time since the last fill

mem == <<running, started, total, fuel, alerts>>
bounds == <<restarts, resets>>
history == <<engine_hours, burned>>
vars == <<wall, mem, kv, setting, resetting, bounds, history>>

DefaultFuel == [fill_level |-> FullLevel, fill_run_hours |-> 0, drain_rate |-> DefaultRate]

Fuels == [fill_level : Levels, fill_run_hours : Nat, drain_rate : Rates]

KvTables ==
  [total : Nat \cup {Absent}, fuel : Fuels \cup {Absent}, alerts : AlertConfigs \cup {Absent}]

EmptyKv == [total |-> Absent, fuel |-> Absent, alerts |-> Absent]

\* Mutant: a negative difference is not clamped.
NonNeg_Raw(x) == x

NonNeg(x) == IF x > 0 THEN x ELSE 0

AtMost(x, y) == IF x < y THEN x ELSE y

\* Mutant: a clock set back makes the elapsed run-time negative.
Elapsed_Signed == IF running /\ started # None THEN wall - started ELSE 0

Elapsed == IF running /\ started # None THEN NonNeg(wall - started) ELSE 0

\* _live_total_run_hours_locked: the odometer including the run in progress.
LiveTotal == total + Elapsed

\* Run-hours since the last fill, as the fuel projection computes it.
RunSinceFill == NonNeg(LiveTotal - fuel.fill_run_hours)

\* kv_set swallows a failed write and the value in memory stands.
KvSet(key, value) ==
  \/ kv' = [kv EXCEPT ![key] = value]
  \/ KvMayFail /\ UNCHANGED kv

\* What the table says, with the in-memory default for an absent key.
Stored(key, default) == IF kv[key] = Absent THEN default ELSE kv[key]

\* What kv_get may return: it swallows a failed read, and returns the default.
KvGet(key, default) == {Stored(key, default)} \cup {x \in {default} : KvMayFail}

Init ==
  /\ wall = 0
  /\ running = FALSE
  /\ started = None
  /\ total = 0
  /\ fuel = DefaultFuel
  /\ alerts = DefaultAlerts
  /\ kv = EmptyKv
  /\ setting = FALSE
  /\ resetting = FALSE
  /\ restarts = 0
  /\ resets = 0
  /\ engine_hours = 0
  /\ burned = 0

-----------------------------------------------------------------------------
(* The clocks.                                                              *)

Tick ==
  /\ wall < MaxTime
  /\ engine_hours < MaxHours /\ burned < MaxHours
  /\ wall' = wall + 1
  /\ engine_hours' = IF running THEN engine_hours + 1 ELSE engine_hours
  /\ burned' = IF running THEN burned + 1 ELSE burned
  /\ UNCHANGED <<mem, kv, setting, resetting, bounds>>

\* The wall clock is corrected (the Pi keeps no time while it is off).
ClockStep(d) ==
  /\ wall + d \in 0 .. MaxTime
  /\ LiveTotal + d <= MaxHours
  /\ wall' = wall + d
  /\ UNCHANGED <<mem, kv, setting, resetting, bounds, history>>

-----------------------------------------------------------------------------
(* Mutators under state_lock.                                               *)

\* _apply_running_transition_locked, which a completed start, a stop and the
\* manual override all go through.
ApplyRunningTransition(new_running) ==
  /\ ~setting
  /\ running' = new_running
  /\ \/ /\ new_running /\ ~running
        /\ started' = wall
        /\ UNCHANGED <<total, kv>>
     \/ /\ ~new_running /\ running
        /\ started' = None
        /\ total' = LiveTotal
        /\ KvSet("total", total')
     \/ /\ new_running = running
        /\ UNCHANGED <<started, total, kv>>
  /\ UNCHANGED <<wall, fuel, alerts, setting, resetting, bounds, history>>

\* Mutant: a correction during a run does not restart the run's clock.
SetTotalRunHours_KeepsStart(hours) ==
  /\ ~setting
  /\ total' = hours
  /\ fuel' = [fuel EXCEPT !.fill_run_hours = NonNeg(hours - RunSinceFill)]
  /\ KvSet("total", hours)
  /\ setting' = TRUE
  /\ engine_hours' = hours
  /\ burned' = AtMost(burned, hours)
  /\ UNCHANGED <<wall, running, started, alerts, resetting, bounds>>

\* Mutant: a correction leaves the fill mark where it was.
SetTotalRunHours_FillStays(hours) ==
  /\ ~setting
  /\ total' = hours
  /\ started' = IF running THEN wall ELSE started
  /\ KvSet("total", hours)
  /\ setting' = TRUE
  /\ engine_hours' = hours
  /\ burned' = AtMost(burned, hours)
  /\ UNCHANGED <<wall, running, fuel, alerts, resetting, bounds>>

\* set_total_run_hours up to its first kv write: the odometer reads `hours` at
\* once, and the fill mark moves with it.
SetTotalRunHours(hours) ==
  /\ ~setting
  /\ total' = hours
  /\ started' = IF running THEN wall ELSE started
  /\ fuel' = [fuel EXCEPT !.fill_run_hours = NonNeg(hours - RunSinceFill)]
  /\ KvSet("total", hours)
  /\ setting' = TRUE
  /\ engine_hours' = hours
  /\ burned' = AtMost(burned, hours)
  /\ UNCHANGED <<wall, running, alerts, resetting, bounds>>

\* Its second kv write, and the release of state_lock.
FinishSetTotal ==
  /\ setting
  /\ KvSet("fuel", fuel)
  /\ setting' = FALSE
  /\ UNCHANGED <<wall, mem, resetting, bounds, history>>

\* Mutant: the snapshot that is persisted was taken before the change.
SetFuel_StaleSnapshot(new_fuel) ==
  /\ ~setting
  /\ fuel' = new_fuel
  /\ KvSet("fuel", fuel)
  /\ UNCHANGED <<wall, running, started, total, alerts, setting, resetting, bounds, engine_hours>>

SetFuel(new_fuel) ==
  /\ ~setting
  /\ fuel' = new_fuel
  /\ KvSet("fuel", new_fuel)
  /\ UNCHANGED <<wall, running, started, total, alerts, setting, resetting, bounds, engine_hours>>

\* Mutant: the fill mark ignores the run in progress.
SetFuelFill_BankedOnly(level) ==
  /\ SetFuel([fuel EXCEPT !.fill_level = level, !.fill_run_hours = total])
  /\ burned' = 0

SetFuelFill(level) ==
  /\ SetFuel([fuel EXCEPT !.fill_level = level, !.fill_run_hours = LiveTotal])
  /\ burned' = 0

SetFuelRate(rate) ==
  /\ SetFuel([fuel EXCEPT !.drain_rate = rate])
  /\ UNCHANGED burned

ResetFuelRate == SetFuelRate(DefaultRate)

\* record_fuel_reading: a reading too soon after the fill changes nothing; the
\* rate a later one yields is left open.
RecordFuelReading(rate) ==
  /\ RunSinceFill >= MinRunSinceFill
  /\ SetFuelRate(rate)

SetAlerts(config) ==
  /\ ~setting
  /\ alerts' = config
  /\ KvSet("alerts", config)
  /\ UNCHANGED <<wall, running, started, total, fuel, setting, resetting, bounds, history>>

-----------------------------------------------------------------------------
(* Factory reset and restart.                                               *)

\* Step 1 of factory_reset: the kv rows go, under _event_lock only.
ResetStore ==
  /\ ~resetting
  /\ resets < MaxResets
  /\ resets' = resets + 1
  /\ kv' = EmptyKv
  /\ resetting' = TRUE
  /\ UNCHANGED <<wall, mem, setting, restarts, history>>

\* Step 2: the memory goes, under state_lock.
ResetMemory ==
  /\ resetting
  /\ ~setting
  /\ running' = FALSE
  /\ started' = None
  /\ total' = 0
  /\ fuel' = DefaultFuel
  /\ alerts' = DefaultAlerts
  /\ resetting' = FALSE
  /\ engine_hours' = 0
  /\ burned' = 0
  /\ UNCHANGED <<wall, kv, setting, bounds>>

\* The process ends anywhere and load_persisted_state reads what the table
\* holds.  The run in progress is not persisted; the fuel it burned was burned.
Restart ==
  /\ restarts < MaxRestarts
  /\ restarts' = restarts + 1
  /\ running' = FALSE
  /\ started' = None
  /\ total' \in KvGet("total", 0)
  /\ fuel' \in KvGet("fuel", DefaultFuel)
  /\ alerts' \in KvGet("alerts", DefaultAlerts)
  /\ setting' = FALSE
  /\ resetting' = FALSE
  /\ engine_hours' = total'
  /\ UNCHANGED <<wall, kv, resets, burned>>

-----------------------------------------------------------------------------
Next ==
  \/ Tick
  \/ \E d \in ClockSteps : ClockStep(d)
  \/ \E b \in BOOLEAN : ApplyRunningTransition(b)
  \/ \E hours \in Hours : SetTotalRunHours(hours)
  \/ FinishSetTotal
  \/ \E level \in Levels : SetFuelFill(level)
  \/ \E rate \in Rates : SetFuelRate(rate)
  \/ ResetFuelRate
  \/ \E rate \in Rates : RecordFuelReading(rate)
  \/ \E config \in AlertConfigs : SetAlerts(config)
  \/ ResetStore
  \/ ResetMemory
  \/ Restart

Spec == Init /\ [][Next]_vars

-----------------------------------------------------------------------------
(* Properties.                                                              *)

\* Every variable has its type; above all, no clock correction ever makes the
\* odometer or the fill mark negative.
TypeOK ==
  /\ wall \in Int
  /\ running \in BOOLEAN
  /\ started \in Int \cup {None}
  /\ total \in Nat
  /\ fuel \in Fuels
  /\ alerts \in AlertConfigs
  /\ kv \in KvTables
  /\ setting \in BOOLEAN
  /\ resetting \in BOOLEAN
  /\ restarts \in Nat
  /\ resets \in Nat
  /\ engine_hours \in Nat
  /\ burned \in Nat

\* state.py: the live odometer is the lifetime run-time, whatever the order of
\* starts, stops, overrides, corrections and resets: no run is counted twice,
\* lost or restarted by re-asserting a state.
OdometerIsRunTime == LiveTotal = engine_hours

\* fuel.py: until a restart forgets a run, the projection's run-since-fill is the
\* run-time since the fill, across odometer corrections and resets.
GaugeIsBurn == restarts = 0 => RunSinceFill = burned

\* fuel.py's atomicity rule: outside a mutator, the table holds what memory
\* holds, so a restart brings back every banked value.
KvAgrees ==
  ~setting /\ ~resetting =>
    /\ Stored("total", 0) = total
    /\ Stored("fuel", DefaultFuel) = fuel
    /\ Stored("alerts", DefaultAlerts) = alerts

\* Whatever the wall clock does, only a correction by the operator, a factory
\* reset or a restart that reads an older value back takes banked hours away.
TotalNeverShrinks ==
  [][total' >= total \/ setting' \/ resetting # resetting' \/ restarts' # restarts]_vars

\* state.py: correcting the odometer leaves run-since-fill alone, except that it
\* cannot exceed the new reading; and the odometer reads exactly that value.
CorrectionKeepsGauge ==
  [][\A hours \in Hours : SetTotalRunHours(hours) =>
       /\ LiveTotal' = hours
       /\ RunSinceFill' = AtMost(RunSinceFill, hours)]_vars
=============================================================================
