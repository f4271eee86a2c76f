SPECIFICATION Spec
CONSTANTS
  j1 = j1
  j2 = j2
  create1 = create1
  create2 = create2
  clean1 = clean1
  clean2 = clean2
  Jobs <- MCJobs
  Calls <- MCCalls
  CreatorOf <- MCCreatorOf
  CleanupOf <- MCCleanupOf
  CopyOf <- MCCopyOf
  NumDests = 1
  Programs = {"service-backup", "manual-backup"}
  Destinations <- LiveDestinations
  Schedules = {"valid"}
  MaxFiles = 0
  Configs <- CreatorConfigs
PROPERTY ShutdownCompletes
\* the program exits, or a job panics
CHECK_DEADLOCK FALSE
