SPECIFICATION Spec
CONSTANTS
  Runner = {r1, r2}
  Name = {"git", "www"}
  Place <- MCPlace
  Content = {"1.1.1.1", "2.2.2.2", "old.host"}
  Kind <- MCKind
  Ttl = {300}
  Automatic = 1
  Unpinned = 0
  Initial <- MCInitial
  Jobs <- MCJobs
  Typed <- MCTyped
  MaxRecord = 2
  MaxRuns = 3
  MaxHand = 1
SYMMETRY RunnerSymmetry
INVARIANTS
  TypeOK
  NoRecordTwice
  SyncMovedAll
  RollbackIsComplete
  EverySyncCanBeUndone
CHECK_DEADLOCK FALSE
