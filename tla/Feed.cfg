\* Three events, a table of two and pages of one: every page leaves rows out,
\* rows are trimmed, and a burst is longer than a page.  Half intervals, so that
\* two jobs gain their levels at different moments.  The log tail is not polled.
SPECIFICATION Spec
CONSTANTS
  EventLogMax = 2
  PageSize = 1
  MaxSeq = 3
  Pollers = {"state", "events"}
  IntervalTicks = 2
  MaxWait = 4
INVARIANTS TableIsNewest
PROPERTIES CatchesUp EveryJobSent NoOvertaking
