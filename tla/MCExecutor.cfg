SPECIFICATION Spec
CONSTANTS
  Jobs = {j1, j2}
  NumDests = 2
  Configs <- AllConfigs
INVARIANTS
  TypeOK
  ExecutorInv
  MutualExclusion
  UploadsOwnBackup
  AlertsMatchDelivery
  PanicKeepsBackup
PROPERTIES
  CleanupRemovesOnlyStored
  EveryJobEnds
  NoLockout
  EveryDestinationTried
  ImplementsBackupRuns
\* every job may be done, or the program may have panicked
CHECK_DEADLOCK FALSE
