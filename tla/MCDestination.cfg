SPECIFICATION Spec
CONSTANTS
  Types = {"s3", "azure", "gcs"}
  Uploads = {u1, u2}
  SourceFolder <- MCSourceFolder
  Files <- MCFiles
  Exclusive = {TRUE, FALSE}
  Sizes = {0, 2}
SYMMETRY UploadSymmetry
INVARIANTS
  TypeOK
  SuccessMeansStored
  OneDatedPath
  
  BlobsAreWhole
  PanicNeedsFailedLstat
  DestinationInv
\* every upload comes to its end
CHECK_DEADLOCK FALSE
