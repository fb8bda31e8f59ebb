CONSTANTS
  MaxRuns = 1
  LastFile = 3
  Added = {1}
SPECIFICATION FairSpec
PROPERTIES
  SuccessIsInstalled
  RolledBackIsRestored
  UpdateEnds
  ServiceComesBack
