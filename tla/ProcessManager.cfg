SPECIFICATION Spec
CONSTANT Calls = {c1, c2, c3}
INVARIANTS
  TypeOK
  ManagerInv
  TerminatedMeansReaped
  ReturnedMeansReaped
  SuccessIsGenuine
PROPERTIES
  NoSpawnDuringShutdown
  TerminateReturns
  RegisteredStartReturns
  ImplementsManagedProcesses
\* every call may have returned and no further one be made
CHECK_DEADLOCK FALSE
