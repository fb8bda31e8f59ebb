------------------------- MODULE TrackedState_proofs -------------------------
(***************************************************************************)
(* Proofs about TrackedState, for every set of levels, rates and readings, *)
(* every clock correction and every bound; where a result needs a steady   *)
(* clock, reliable writes or no reset, the theorem assumes it.             *)
(***************************************************************************)
EXTENDS TrackedState, TLAPS

-----------------------------------------------------------------------------
(* Lemmas about the helpers.                                                *)

\* max(0, x) is natural and at least x.
LEMMA NonNegType ==
  ASSUME NEW x \in Int
  PROVE  NonNeg(x) \in Nat /\ NonNeg(x) >= x
  BY DEF NonNeg

\* The live odometer never reads below the banked hours, and run-since-fill is natural.
LEMMA LiveType ==
  ASSUME TypeOK
  PROVE  /\ Elapsed \in Nat
         /\ LiveTotal \in Nat /\ LiveTotal >= total
         /\ RunSinceFill \in Nat
<1>1. Elapsed \in Nat
  BY NoneAssumption DEF TypeOK, Elapsed, NonNeg
<1>2. LiveTotal \in Nat /\ LiveTotal >= total
  BY <1>1 DEF LiveTotal, TypeOK
<1>3. fuel.fill_run_hours \in Nat
  BY DEF TypeOK, Fuels
<1>4. RunSinceFill \in Nat
  BY <1>2, <1>3, NonNegType DEF RunSinceFill
<1> QED BY <1>1, <1>2, <1>4

\* A read yields the stored value or, if it fails, the default.
LEMMA Read ==
  ASSUME NEW key, NEW default
  PROVE  KvGet(key, default) \subseteq {Stored(key, default), default}
  BY DEF KvGet

\* A write puts one more value of its type in the table, or leaves the table alone.
LEMMA KvSetTypes ==
  ASSUME TypeOK
  PROVE  /\ \A h \in Nat : KvSet("total", h) => kv' \in KvTables
         /\ \A f \in Fuels : KvSet("fuel", f) => kv' \in KvTables
         /\ \A a \in AlertConfigs : KvSet("alerts", a) => kv' \in KvTables
  BY DEF TypeOK, KvSet, KvTables

\* Resetting the rate and recording a reading set the rate to one of the rates.
LEMMA RateSteps ==
  /\ ResetFuelRate => \E rate \in Rates : SetFuelRate(rate)
  /\ \A rate \in Rates : RecordFuelReading(rate) => SetFuelRate(rate)
  BY DataAssumption DEF ResetFuelRate, RecordFuelReading

\* The models the mutators write are fuel models.
LEMMA FuelTypes ==
  ASSUME TypeOK
  PROVE  /\ DefaultFuel \in Fuels
         /\ \A level \in Levels, h \in Nat :
              [fuel EXCEPT !.fill_level = level, !.fill_run_hours = h] \in Fuels
         /\ \A h \in Nat : [fuel EXCEPT !.fill_run_hours = h] \in Fuels
         /\ \A rate \in Rates : [fuel EXCEPT !.drain_rate = rate] \in Fuels
  BY DataAssumption DEF TypeOK, Fuels, DefaultFuel

-----------------------------------------------------------------------------
(* Types.                                                                   *)

\* Nothing is negative or of another type at first.
LEMMA InitTypes == Init => TypeOK
<1> SUFFICES ASSUME Init PROVE TypeOK
  OBVIOUS
<1>1. fuel \in Fuels
  BY DataAssumption DEF Init, DefaultFuel, Fuels
<1>2. kv \in KvTables
  BY DEF Init, EmptyKv, KvTables
<1>3. wall \in Int /\ total \in Nat /\ restarts \in Nat /\ resets \in Nat
      /\ engine_hours \in Nat /\ burned \in Nat
  BY DEF Init
<1>4. alerts \in AlertConfigs
  BY DataAssumption DEF Init
<1> QED BY <1>1, <1>2, <1>3, <1>4 DEF Init, TypeOK

\* Every step keeps the types: no correction of the clock, failed write, reset or
\* restart makes an hour negative.
LEMMA TypesStep == ASSUME TypeOK, [Next]_vars PROVE TypeOK'
<1>1. CASE Tick
  BY <1>1 DEF Tick, TypeOK, mem, bounds, history
<1>2. ASSUME NEW d \in ClockSteps, ClockStep(d) PROVE TypeOK'
  BY <1>2, DataAssumption DEF ClockStep, TypeOK, mem, bounds, history
<1>3. ASSUME NEW b \in BOOLEAN, ApplyRunningTransition(b) PROVE TypeOK'
  <2>1. total' \in Nat /\ started' \in Int \cup {None} /\ running' \in BOOLEAN
    BY <1>3, LiveType DEF ApplyRunningTransition, TypeOK
  <2>2. kv' \in KvTables
    BY <1>3, LiveType, KvSetTypes DEF ApplyRunningTransition, TypeOK
  <2> QED BY <1>3, <2>1, <2>2 DEF ApplyRunningTransition, TypeOK, bounds, history
<1>4. ASSUME NEW hours \in Hours, SetTotalRunHours(hours) PROVE TypeOK'
  <2>1. hours \in Nat
    BY DataAssumption
  <2>2. NonNeg(hours - RunSinceFill) \in Nat
    BY <2>1, LiveType, NonNegType
  <2>3. fuel' \in Fuels /\ kv' \in KvTables
    BY <1>4, <2>1, <2>2, FuelTypes, KvSetTypes DEF SetTotalRunHours
  <2>4. AtMost(burned, hours) \in Nat
    BY <2>1 DEF AtMost, TypeOK
  <2> QED BY <1>4, <2>1, <2>3, <2>4 DEF SetTotalRunHours, TypeOK, bounds
<1>5. CASE FinishSetTotal
  <2>1. kv' \in KvTables
    BY <1>5, KvSetTypes DEF FinishSetTotal, TypeOK
  <2> QED BY <1>5, <2>1 DEF FinishSetTotal, TypeOK, mem, bounds, history
<1>6. ASSUME NEW level \in Levels, SetFuelFill(level) PROVE TypeOK'
  <2>1. fuel' \in Fuels /\ kv' \in KvTables
    BY <1>6, LiveType, FuelTypes, KvSetTypes DEF SetFuelFill, SetFuel
  <2> QED BY <1>6, <2>1 DEF SetFuelFill, SetFuel, TypeOK, bounds
<1>7. ASSUME NEW rate \in Rates, SetFuelRate(rate) PROVE TypeOK'
  <2>1. fuel' \in Fuels /\ kv' \in KvTables
    BY <1>7, FuelTypes, KvSetTypes DEF SetFuelRate, SetFuel
  <2> QED BY <1>7, <2>1 DEF SetFuelRate, SetFuel, TypeOK, bounds
<1>8. ASSUME NEW config \in AlertConfigs, SetAlerts(config) PROVE TypeOK'
  <2>1. kv' \in KvTables
    BY <1>8, KvSetTypes DEF SetAlerts
  <2> QED BY <1>8, <2>1 DEF SetAlerts, TypeOK, bounds, history
<1>9. CASE ResetStore
  <2>1. kv' \in KvTables
    BY <1>9 DEF ResetStore, EmptyKv, KvTables
  <2> QED BY <1>9, <2>1 DEF ResetStore, TypeOK, mem, history
<1>10. CASE ResetMemory
  BY <1>10, FuelTypes, DataAssumption DEF ResetMemory, TypeOK, bounds
<1>11. CASE Restart
  <2>0. Stored("total", 0) \in Nat /\ Stored("fuel", DefaultFuel) \in Fuels
        /\ Stored("alerts", DefaultAlerts) \in AlertConfigs
    BY FuelTypes, DataAssumption DEF Stored, TypeOK, KvTables
  <2>1. total' \in Nat /\ fuel' \in Fuels /\ alerts' \in AlertConfigs
    <3>1. /\ total' \in {Stored("total", 0), 0}
          /\ fuel' \in {Stored("fuel", DefaultFuel), DefaultFuel}
          /\ alerts' \in {Stored("alerts", DefaultAlerts), DefaultAlerts}
      BY <1>11, Read DEF Restart
    <3>2. DefaultFuel \in Fuels /\ DefaultAlerts \in AlertConfigs
      BY FuelTypes, DataAssumption
    <3>3. total' \in Nat
      BY <2>0, <3>1
    <3>4. fuel' \in Fuels
      BY <2>0, <3>1, <3>2
    <3>5. alerts' \in AlertConfigs
      BY <2>0, <3>1, <3>2
    <3> QED BY <3>3, <3>4, <3>5
  <2>2. restarts' \in Nat /\ engine_hours' \in Nat
    BY <1>11, <2>1 DEF Restart, TypeOK
  <2>3. running' \in BOOLEAN /\ setting' \in BOOLEAN /\ resetting' \in BOOLEAN
        /\ started' \in Int \cup {None}
    BY <1>11 DEF Restart
  <2>4. kv' \in KvTables /\ wall' \in Int /\ resets' \in Nat /\ burned' \in Nat
    BY <1>11 DEF Restart, TypeOK
  <2> QED BY <2>1, <2>2, <2>3, <2>4 DEF TypeOK
<1>12. CASE UNCHANGED vars
  BY <1>12 DEF vars, TypeOK, mem, bounds, history
<1> QED
  BY <1>1, <1>2, <1>3, <1>4, <1>5, <1>6, <1>7, <1>8, <1>9, <1>10, <1>11, <1>12, RateSteps DEF Next

\* Every variable keeps its type.
THEOREM TypeCorrect == Spec => []TypeOK
  BY InitTypes, TypesStep, PTL DEF Spec

-----------------------------------------------------------------------------
(* The odometer.                                                            *)

\* The run's clock runs exactly while the generator is believed to, and was not
\* started in the future.
RunClock ==
  /\ running <=> started # None
  /\ started # None => started <= wall

OdometerInv == TypeOK /\ RunClock /\ OdometerIsRunTime

\* On a steady clock every step keeps the live odometer equal to the run-time.
LEMMA OdometerStep ==
  ASSUME ClockSteps = {}, OdometerInv, [Next]_vars
  PROVE  OdometerInv'
<1> USE DEF OdometerInv, RunClock, OdometerIsRunTime, LiveTotal, Elapsed, NonNeg
<1>0. TypeOK'
  BY TypesStep
<1>1. CASE Tick
  BY <1>0, <1>1, NoneAssumption DEF Tick, TypeOK, mem, bounds, history
<1>2. ASSUME NEW d \in ClockSteps, ClockStep(d) PROVE OdometerInv'
  BY <1>0, <1>2, NoneAssumption DEF ClockStep, TypeOK, mem, bounds, history
<1>3. ASSUME NEW b \in BOOLEAN, ApplyRunningTransition(b) PROVE OdometerInv'
  <2>1. wall' = wall /\ engine_hours' = engine_hours
    BY <1>3 DEF ApplyRunningTransition, history
  <2>2. CASE b /\ ~running
    <3>1. running' /\ started' = wall /\ total' = total
      BY <1>3, <2>2 DEF ApplyRunningTransition
    <3> QED BY <1>0, <2>1, <2>2, <3>1, NoneAssumption DEF TypeOK
  <2>3. CASE ~b /\ running
    <3>1. ~running' /\ started' = None /\ total' = LiveTotal
      BY <1>3, <2>3, Zenon DEF ApplyRunningTransition
    <3>2. LiveTotal' = total'
      BY <1>0, <3>1 DEF TypeOK
    <3> QED BY <1>0, <2>1, <3>1, <3>2
  <2>4. CASE b = running
    <3>1. running' = running /\ started' = started /\ total' = total
      BY <1>3, <2>4 DEF ApplyRunningTransition
    <3> QED BY <1>0, <2>1, <3>1 DEF TypeOK
  <2> QED BY <1>3, <2>2, <2>3, <2>4 DEF ApplyRunningTransition
<1>4. ASSUME NEW hours \in Hours, SetTotalRunHours(hours) PROVE OdometerInv'
  BY <1>0, <1>4, NoneAssumption DEF SetTotalRunHours, TypeOK, mem, bounds, history
<1>5. CASE FinishSetTotal
  BY <1>0, <1>5, NoneAssumption DEF FinishSetTotal, TypeOK, mem, bounds, history
<1>6. ASSUME NEW level \in Levels, SetFuelFill(level) PROVE OdometerInv'
  BY <1>0, <1>6, NoneAssumption DEF SetFuelFill, SetFuel, TypeOK, mem, bounds, history
<1>7. ASSUME NEW rate \in Rates, SetFuelRate(rate) PROVE OdometerInv'
  BY <1>0, <1>7, NoneAssumption DEF SetFuelRate, SetFuel, TypeOK, mem, bounds, history
<1>8. ASSUME NEW config \in AlertConfigs, SetAlerts(config) PROVE OdometerInv'
  BY <1>0, <1>8, NoneAssumption DEF SetAlerts, TypeOK, mem, bounds, history
<1>9. CASE ResetStore
  BY <1>0, <1>9, NoneAssumption DEF ResetStore, TypeOK, mem, bounds, history
<1>10. CASE ResetMemory
  BY <1>0, <1>10, NoneAssumption DEF ResetMemory, TypeOK, mem, bounds, history
<1>11. CASE Restart
  BY <1>0, <1>11, NoneAssumption DEF Restart, TypeOK, mem, bounds, history
<1>12. CASE UNCHANGED vars
  BY <1>0, <1>12, NoneAssumption DEF vars, TypeOK, mem, bounds, history
<1> QED
  BY <1>1, <1>2, <1>3, <1>4, <1>5, <1>6, <1>7, <1>8, <1>9, <1>10, <1>11, <1>12, RateSteps DEF Next

\* Without clock corrections, the live odometer is the lifetime run-time after any
\* sequence of starts, stops, overrides, corrections, fills, resets and restarts.
THEOREM Odometer ==
  ASSUME ClockSteps = {}
  PROVE  Spec => []OdometerIsRunTime
<1>1. Init => OdometerInv
  BY InitTypes DEF Init, OdometerInv, RunClock, OdometerIsRunTime, LiveTotal, Elapsed
<1>2. OdometerInv /\ [Next]_vars => OdometerInv'
  BY OdometerStep
<1>3. OdometerInv => OdometerIsRunTime
  BY DEF OdometerInv
<1> QED BY <1>1, <1>2, <1>3, PTL DEF Spec

-----------------------------------------------------------------------------
(* The gauge.                                                               *)

\* Until a restart, the fill mark is a point the odometer has passed, and what
\* lies between them is the run-time since the fill.
GaugeInv ==
  /\ OdometerInv
  /\ restarts = 0 => LiveTotal - fuel.fill_run_hours = burned

\* A correction takes run-since-fill down to the new reading at most.
LEMMA CorrectionFacts ==
  ASSUME TypeOK, NEW hours \in Hours, SetTotalRunHours(hours)
  PROVE  /\ LiveTotal' = hours
         /\ fuel'.fill_run_hours = NonNeg(hours - RunSinceFill)
         /\ RunSinceFill' = AtMost(RunSinceFill, hours)
<1>1. hours \in Nat
  BY DataAssumption
<1>2. LiveTotal' = hours
  BY <1>1, NoneAssumption DEF SetTotalRunHours, LiveTotal, Elapsed, NonNeg, TypeOK
<1>3. fuel'.fill_run_hours = NonNeg(hours - RunSinceFill)
  BY DEF SetTotalRunHours, TypeOK, Fuels
<1>4. RunSinceFill' = NonNeg(hours - NonNeg(hours - RunSinceFill))
  BY <1>2, <1>3, Zenon DEF RunSinceFill
<1>5. NonNeg(hours - NonNeg(hours - RunSinceFill)) = AtMost(RunSinceFill, hours)
  <2>1. RunSinceFill \in Nat
    BY LiveType
  <2> QED BY <1>1, <2>1 DEF NonNeg, AtMost
<1> QED BY <1>2, <1>3, <1>4, <1>5

\* On a steady clock every step before a restart keeps the gauge equal to the burn.
LEMMA GaugeStep ==
  ASSUME ClockSteps = {}, GaugeInv, [Next]_vars
  PROVE  GaugeInv'
<1> USE DEF GaugeInv
<1>0. OdometerInv' /\ TypeOK /\ TypeOK'
  BY OdometerStep DEF OdometerInv
<1>a. LiveTotal = engine_hours /\ LiveTotal' = engine_hours'
  BY <1>0 DEF OdometerInv, OdometerIsRunTime
<1>1. CASE Tick
  <2>1. CASE running
    BY <1>0, <1>a, <1>1, <2>1 DEF Tick, TypeOK, Fuels, mem, bounds
  <2>2. CASE ~running
    BY <1>0, <1>a, <1>1, <2>2 DEF Tick, TypeOK, Fuels, mem, bounds
  <2> QED BY <2>1, <2>2
<1>2. ASSUME NEW d \in ClockSteps, ClockStep(d) PROVE GaugeInv'
  BY <1>0, <1>a, <1>2 DEF ClockStep, TypeOK, mem, bounds, history
<1>3. ASSUME NEW b \in BOOLEAN, ApplyRunningTransition(b) PROVE GaugeInv'
  BY <1>0, <1>a, <1>3 DEF ApplyRunningTransition, TypeOK, mem, bounds, history
<1>4. ASSUME NEW hours \in Hours, SetTotalRunHours(hours) PROVE GaugeInv'
  <2>1. SUFFICES ASSUME restarts' = 0 PROVE LiveTotal' - fuel'.fill_run_hours = burned'
    BY <1>0
  <2>2. restarts = 0 /\ burned' = AtMost(burned, hours)
    BY <1>4, <2>1 DEF SetTotalRunHours, bounds
  <2>3. burned = RunSinceFill /\ fuel.fill_run_hours \in Nat
    BY <1>0, <2>2, LiveType DEF RunSinceFill, NonNeg, TypeOK, Fuels
  <2>4. hours \in Nat /\ RunSinceFill \in Nat
    BY <1>0, LiveType, DataAssumption
  <2>5. LiveTotal' = hours /\ fuel'.fill_run_hours = NonNeg(hours - burned)
    BY <1>0, <1>4, <2>3, CorrectionFacts
  <2> QED BY <2>2, <2>3, <2>4, <2>5 DEF NonNeg, AtMost
<1>5. CASE FinishSetTotal
  BY <1>0, <1>a, <1>5 DEF FinishSetTotal, TypeOK, mem, bounds, history
<1>6. ASSUME NEW level \in Levels, SetFuelFill(level) PROVE GaugeInv'
  <2>1. fuel'.fill_run_hours = LiveTotal /\ burned' = 0 /\ engine_hours' = engine_hours
    BY <1>0, <1>6 DEF SetFuelFill, SetFuel, TypeOK, Fuels
  <2> QED BY <1>0, <1>a, <2>1, LiveType
<1>7. ASSUME NEW rate \in Rates, SetFuelRate(rate) PROVE GaugeInv'
  <2>1. fuel'.fill_run_hours = fuel.fill_run_hours
    BY <1>0, <1>7 DEF SetFuelRate, SetFuel, TypeOK, Fuels
  <2> QED BY <1>0, <1>a, <2>1, <1>7 DEF SetFuelRate, SetFuel, bounds
<1>8. ASSUME NEW config \in AlertConfigs, SetAlerts(config) PROVE GaugeInv'
  BY <1>0, <1>a, <1>8 DEF SetAlerts, TypeOK, mem, bounds, history
<1>9. CASE ResetStore
  BY <1>0, <1>a, <1>9 DEF ResetStore, TypeOK, mem, bounds, history
<1>10. CASE ResetMemory
  BY <1>0, <1>a, <1>10 DEF ResetMemory, DefaultFuel
<1>11. CASE Restart
  <2>1. restarts' # 0
    BY <1>0, <1>11 DEF Restart, TypeOK
  <2> QED BY <1>0, <2>1
<1>12. CASE UNCHANGED vars
  BY <1>0, <1>a, <1>12 DEF vars, TypeOK, mem, bounds, history
<1> QED
  BY <1>1, <1>2, <1>3, <1>4, <1>5, <1>6, <1>7, <1>8, <1>9, <1>10, <1>11, <1>12, RateSteps DEF Next

\* Without clock corrections and until a restart, the fuel projection's run-since-fill
\* is the run-time since the fill.
THEOREM Gauge ==
  ASSUME ClockSteps = {}
  PROVE  Spec => []GaugeIsBurn
<1>1. Init => GaugeInv
  <2> SUFFICES ASSUME Init PROVE GaugeInv
    OBVIOUS
  <2>1. OdometerInv
    BY InitTypes DEF Init, OdometerInv, RunClock, OdometerIsRunTime, LiveTotal, Elapsed
  <2> QED BY <2>1 DEF Init, GaugeInv, DefaultFuel, LiveTotal, Elapsed
<1>2. GaugeInv /\ [Next]_vars => GaugeInv'
  BY GaugeStep
<1>3. GaugeInv => GaugeIsBurn
  BY LiveType DEF GaugeInv, OdometerInv, GaugeIsBurn, RunSinceFill, NonNeg, TypeOK, Fuels
<1> QED BY <1>1, <1>2, <1>3, PTL DEF Spec

-----------------------------------------------------------------------------
(* The table.                                                               *)

\* Between the two writes of a correction only the fuel row is behind.
TableInv ==
  /\ TypeOK
  /\ resets = 0 /\ ~resetting
  /\ Stored("total", 0) = total
  /\ Stored("alerts", DefaultAlerts) = alerts
  /\ ~setting => Stored("fuel", DefaultFuel) = fuel

\* No value that is written is the mark of an absent row.
LEMMA NeverAbsent ==
  ASSUME TypeOK
  PROVE  total # Absent /\ fuel # Absent /\ alerts # Absent
  BY AbsentAssumption DEF TypeOK, Fuels

\* With reliable writes and no reset, every step keeps the table up to date.
LEMMA TableStep ==
  ASSUME KvMayFail = FALSE, MaxResets = 0, TableInv, [Next]_vars
  PROVE  TableInv'
<1> USE DEF TableInv, Stored
<1>0. TypeOK /\ TypeOK'
  BY TypesStep
<1>a. total' # Absent /\ fuel' # Absent /\ alerts' # Absent
  BY <1>0, AbsentAssumption DEF TypeOK, Fuels
<1>b. KvTables = [total : Nat \cup {Absent}, fuel : Fuels \cup {Absent},
                  alerts : AlertConfigs \cup {Absent}]
  BY DEF KvTables
<1>1. CASE Tick
  BY <1>0, <1>a, <1>b, <1>1 DEF Tick, mem, bounds, history, KvSet, TypeOK
<1>2. ASSUME NEW d \in ClockSteps, ClockStep(d) PROVE TableInv'
  BY <1>0, <1>a, <1>b, <1>2 DEF ClockStep, mem, bounds, history, KvSet, TypeOK
<1>3. ASSUME NEW b \in BOOLEAN, ApplyRunningTransition(b) PROVE TableInv'
  BY <1>0, <1>a, <1>b, <1>3 DEF ApplyRunningTransition, mem, bounds, history, KvSet, TypeOK
<1>4. ASSUME NEW hours \in Hours, SetTotalRunHours(hours) PROVE TableInv'
  BY <1>0, <1>a, <1>b, <1>4 DEF SetTotalRunHours, mem, bounds, history, KvSet, TypeOK
<1>5. CASE FinishSetTotal
  BY <1>0, <1>a, <1>b, <1>5 DEF FinishSetTotal, mem, bounds, history, KvSet, TypeOK
<1>6. ASSUME NEW level \in Levels, SetFuelFill(level) PROVE TableInv'
  BY <1>0, <1>a, <1>b, <1>6 DEF SetFuelFill, SetFuel, mem, bounds, history, KvSet, TypeOK
<1>7. ASSUME NEW rate \in Rates, SetFuelRate(rate) PROVE TableInv'
  BY <1>0, <1>a, <1>b, <1>7 DEF SetFuelRate, SetFuel, mem, bounds, history, KvSet, TypeOK
<1>8. ASSUME NEW config \in AlertConfigs, SetAlerts(config) PROVE TableInv'
  BY <1>0, <1>a, <1>b, <1>8 DEF SetAlerts, mem, bounds, history, KvSet, TypeOK
<1>9. CASE ResetStore
  BY <1>0, <1>9 DEF ResetStore, TypeOK
<1>10. CASE ResetMemory
  BY <1>0, <1>a, <1>b, <1>10 DEF ResetMemory, mem, bounds, history, KvSet, TypeOK
<1>11. CASE Restart
  <2>1. /\ total' = Stored("total", 0)
        /\ fuel' = Stored("fuel", DefaultFuel)
        /\ alerts' = Stored("alerts", DefaultAlerts)
        /\ kv' = kv /\ resets' = resets /\ ~resetting' /\ ~setting'
    BY <1>11 DEF Restart, KvGet
  <2> QED BY <1>0, <2>1
<1>12. CASE UNCHANGED vars
  BY <1>0, <1>a, <1>b, <1>12 DEF vars, mem, bounds, history, KvSet, TypeOK
<1> QED
  BY <1>1, <1>2, <1>3, <1>4, <1>5, <1>6, <1>7, <1>8, <1>9, <1>10, <1>11, <1>12, RateSteps DEF Next

\* If no write fails and nobody resets, the table holds what memory holds whenever
\* no mutator is at work, restarts included.
THEOREM TableFollows ==
  ASSUME KvMayFail = FALSE, MaxResets = 0
  PROVE  Spec => []KvAgrees
<1>1. Init => TableInv
  BY InitTypes DEF Init, TableInv, Stored, EmptyKv
<1>2. TableInv /\ [Next]_vars => TableInv'
  BY TableStep
<1>3. TableInv => KvAgrees
  BY DEF TableInv, KvAgrees
<1> QED BY <1>1, <1>2, <1>3, PTL DEF Spec

-----------------------------------------------------------------------------
(* Steps.                                                                   *)

\* _apply_running_transition_locked never takes banked hours away, whatever the clock
\* did during the run; nothing else but a correction, a reset or a restart may.
THEOREM HoursBanked == Spec => TotalNeverShrinks
<1>1. TypeOK /\ [Next]_vars =>
        [total' >= total \/ setting' \/ resetting # resetting' \/ restarts' # restarts]_vars
  <2> SUFFICES ASSUME TypeOK, Next
               PROVE  total' >= total \/ setting' \/ resetting # resetting' \/ restarts' # restarts
    OBVIOUS
  <2>1. ASSUME NEW b \in BOOLEAN, ApplyRunningTransition(b) PROVE total' >= total
    <3>1. total' = total \/ total' = LiveTotal
      BY <2>1, Zenon DEF ApplyRunningTransition
    <3> QED BY <3>1, LiveType DEF TypeOK
  <2>2. ASSUME NEW hours \in Hours, SetTotalRunHours(hours) PROVE setting'
    BY <2>2 DEF SetTotalRunHours
  <2>3. CASE ResetMemory
    BY <2>3 DEF ResetMemory
  <2>4. CASE Restart
    BY <2>4 DEF Restart, TypeOK
  <2>5. ASSUME NEW rate \in Rates, SetFuelRate(rate) PROVE total' = total
    BY <2>5 DEF SetFuelRate, SetFuel
  <2>6. ASSUME NEW level \in Levels, SetFuelFill(level) PROVE total' = total
    BY <2>6 DEF SetFuelFill, SetFuel
  <2>7. ASSUME NEW config \in AlertConfigs, SetAlerts(config) PROVE total' = total
    BY <2>7 DEF SetAlerts
  <2>8. CASE Tick \/ FinishSetTotal \/ ResetStore \/ \E d \in ClockSteps : ClockStep(d)
    <3>1. total' = total
      BY <2>8 DEF Tick, FinishSetTotal, ResetStore, ClockStep, mem
    <3> QED BY <3>1 DEF TypeOK
  <2>9. total' = total => total' >= total
    BY DEF TypeOK
  <2> QED
    BY <2>1, <2>2, <2>3, <2>4, <2>5, <2>6, <2>7, <2>8, <2>9, RateSteps DEF Next
<1> QED BY <1>1, TypeCorrect, PTL DEF Spec, TotalNeverShrinks

\* set_total_run_hours makes the odometer read the new value and leaves run-since-fill
\* alone, in the middle of a run and with any clock.
THEOREM CorrectionExact == Spec => CorrectionKeepsGauge
<1>1. TypeOK /\ [Next]_vars =>
        [\A hours \in Hours : SetTotalRunHours(hours) =>
           /\ LiveTotal' = hours
           /\ RunSinceFill' = AtMost(RunSinceFill, hours)]_vars
  BY CorrectionFacts
<1> QED BY <1>1, TypeCorrect, PTL DEF Spec, CorrectionKeepsGauge
=============================================================================
