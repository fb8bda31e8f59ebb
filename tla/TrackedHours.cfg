CONSTANTS
  Levels <- TwoLevels
  Rates <- TwoRates
  FullLevel = 100
  DefaultRate = 64
  AlertConfigs = {on, off}
  DefaultAlerts = on
  Hours = {0, 1, 3}
  MinRunSinceFill = 1
  ClockSteps <- NoSteps
  KvMayFail = FALSE
  None = None
  Absent = Absent
  MaxTime = 4
  MaxHours = 7
  MaxRestarts = 1
  MaxResets = 0
SPECIFICATION Spec
INVARIANTS
  OdometerIsRunTime
  GaugeIsBurn
  KvAgrees
