SPECIFICATION SafeSpec
CONSTANTS
  j1 = j1
  j2 = j2
  create1 = create1
  create2 = create2
  clean1 = clean1
  clean2 = clean2
  Jobs <- MCJobs
  Calls <- MCCalls
  CreatorOf <- MCCreatorOf
  CleanupOf <- MCCleanupOf
  CopyOf <- MCCopyOf
  NumDests = 1
  Programs = {"service-backup"}
  Destinations <- MCDestinations
  Schedules = {"valid", "invalid", "missing"}
  MaxFiles = 0
  Configs <- MCConfigs
SYMMETRY JobSymmetry
INVARIANTS
  ProgramInv
  TypeOK
  ExitLeavesNoCommand
  UploadedBackupIsWhole
  OneCommandAtATime
  DaemonStays
\* the program exits, or a job panics
CHECK_DEADLOCK FALSE
