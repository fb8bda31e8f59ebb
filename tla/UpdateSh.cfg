\* Two files make a reset that stops midway; two runs, so that one starts from
\* whatever the other left.
SPECIFICATION Spec
CONSTANTS
  Files = {f, g}
  MaxRuns = 2
INVARIANT LeftRunning
PROPERTIES SuccessIsServed RolledBackIsRestored
\* Interrupted with the service stopped, nothing happens until a next run.
CHECK_DEADLOCK FALSE
