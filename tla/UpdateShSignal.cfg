\* One run, interrupted.
SPECIFICATION Spec
CONSTANTS
  Files = {f}
  MaxRuns = 1
INVARIANT SafetyNet
