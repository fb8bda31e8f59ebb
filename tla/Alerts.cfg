\* Two rows and three browsers: a third subscription evicts, and a push goes
\* round a table of two with one of them dead.
SPECIFICATION Spec
CONSTANTS
  Endpoints = {a, b, c}
  SubscriptionMax = 2
  Pushers = {p}
  Full = 2
  Thresholds = {0, 1}
  Margin = 1
  MaxRestarts = 1
INVARIANT SubscriptionsBounded
PROPERTIES OnePushPerCrossing LiveRowsStay EveryCrossingIsSent
