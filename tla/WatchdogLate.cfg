CONSTANTS
  MaxRuns = 2
  LastFile = 1
  Added = {}
SPECIFICATION Spec
PROPERTY WatchdogSparesTheDone
