\* Three clients for two entries, three threads, a limit of two: verifications
\* overrun a lockout, and every eviction happens.
SPECIFICATION Spec
CONSTANTS
  Clients = {a, b, c}
  Threads = {t, u}
  NoClient = NoClient
  MaxFailures = 2
  Lockout = 2
  CleanupEvery = 3
  MaxTracked = 2
INVARIANTS TrackerBounded AttemptsBounded
PROPERTIES LockoutHolds
