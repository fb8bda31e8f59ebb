CONSTANTS
  MaxRuns = 1
  LastFile = 2
  Added = {1}
SPECIFICATION Spec
INVARIANT SwapErrorRollsBack
