SPECIFICATION SafeSpec
CONSTANTS
  j1 = j1
  create = create
  clean = clean
  copy1 = copy1
  copy2 = copy2
  Jobs = {j1}
  Calls = {create, clean, copy1, copy2}
  CreatorOf <- MCCreatorOf
  CleanupOf <- MCCleanupOf
  CopyOf <- MCCopyOf
  NumDests = 2
  Programs = {"service-backup"}
  Destinations <- MCDestinations
  Schedules = {"valid"}
  MaxFiles = 2
  Configs <- MCConfigs
INVARIANT AllBackupProcessesTerminated
CHECK_DEADLOCK FALSE
