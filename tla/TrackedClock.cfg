CONSTANTS
  Levels <- OneLevel
  Rates <- OneRate
  FullLevel = 100
  DefaultRate = 64
  AlertConfigs = {on}
  DefaultAlerts = on
  Hours = {1}
  MinRunSinceFill = 1
  ClockSteps <- Steps
  KvMayFail = TRUE
  None = None
  Absent = Absent
  MaxTime = 2
  MaxHours = 2
  MaxRestarts = 1
  MaxResets = 1
SPECIFICATION Spec
INVARIANT TypeOK
PROPERTIES
  TotalNeverShrinks
  CorrectionKeepsGauge
