SPECIFICATION Spec
CONSTANTS
  Types = {"s3"}
  Uploads = {u1, u2}
  SourceFolder <- MCSourceFolder
  Files <- RecurringFiles
  Exclusive = {TRUE, FALSE}
  Sizes = {0, 2}
INVARIANT SuccessMeansStored
CHECK_DEADLOCK FALSE
