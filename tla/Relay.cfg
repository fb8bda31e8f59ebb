CONSTANTS
  Threads = {t1, t2}
  NoThread = NoThread
  MaxStartRetries = 2
  MaxRequests = 3
SPECIFICATION FairSpec
INVARIANTS
  LockDiscipline
  ButtonFollowsHolder
  SequenceFits
  NothingOutlives
  StartsArePaired
PROPERTIES
  ImplementsOneTouch
  LockComesFree
  ButtonComesUp
