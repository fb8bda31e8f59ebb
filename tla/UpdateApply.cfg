CONSTANTS
  Clients = {c1, c2}
  MaxRuns = 2
  MaxPosts = 3
  Files = {kept, added}
  Added = {added}
  NoBackup = NoBackup
SPECIFICATION ApplySpec
INVARIANTS
  AppliesWithConsent
  RefusedMeansRefused
  FailedLeavesNothing
  TouchedWithConsentAndBackup
PROPERTIES
  OneUpdateAtATime
  UpdateEnds
  ImplementsGate
  ImplementsAtomicUpdate
