SPECIFICATION Spec
CONSTANTS
  Types = {"gcs"}
  Uploads = {u1, u2}
  SourceFolder <- MCSourceFolder
  Files <- MCFiles
  Exclusive = {TRUE, FALSE}
  Sizes = {0, 2}
INVARIANT EveryFileStored
CHECK_DEADLOCK FALSE
