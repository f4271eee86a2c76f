------------------------- MODULE DestinationProofs -------------------------
(***************************************************************************)
(* The properties of Destination, proved for any files of any sizes and    *)
(* any number of uploads.  The work is in the proofs for the clients,      *)
(* which are used here for the client of the destination's type.           *)
(***************************************************************************)
EXTENDS Destination, TLAPS

(* s3, azure and gcs, with what is proved about them. *)
s3p == INSTANCE S3Proofs
azurep == INSTANCE AzureProofs
gcsp == INSTANCE GcsProofs

(* The inductive invariant: that of the client in use. *)
IInv ==
  /\ type \in Types
  /\ type = "s3" => s3p!IInv
  /\ type = "azure" => azurep!IInv
  /\ type = "gcs" => gcsp!IInv

-----------------------------------------------------------------------------
(* What the proofs for S3 assume of the files. *)
LEMMA S3Files ==
  /\ SourceFolder # <<>>
  /\ \A f \in Files : f \in Seq(s3p!Range(f))
  /\ Files \cap s3p!Dirs = {}
BY FilesAssumption
   DEF Range, Dirs, Root, Prefixes, s3p!Range, s3p!Dirs, s3p!Root, s3p!Prefixes

(* The client of S3 starts in its invariant ... *)
LEMMA S3Init == s3!Init => s3p!IInv
<1>1. s3!Init => s3p!Init
  BY DEF s3!Init, s3!FolderInit, s3!Entries, s3!Dirs, s3!Prefixes, s3!Root,
         s3!Denials, s3!Days, s3!Names, s3!RemoteName, s3!Replace, s3!IsPrefix,
         s3!NoObject,
         s3p!Init, s3p!FolderInit, s3p!Entries, s3p!Dirs, s3p!Prefixes, s3p!Root,
         s3p!Denials, s3p!Days, s3p!Names, s3p!RemoteName, s3p!Replace,
         s3p!IsPrefix, s3p!NoObject
<1> QED
  BY <1>1, S3Files, s3p!InitInv, UploadsAssumption, ExclusiveAssumption

(* ... and keeps it. *)
LEMMA S3Next == s3p!IInv /\ s3!Next => s3p!IInv'
<1>1. s3!Next => s3p!Next
  BY DEF s3!Next, s3!UploadStep, s3!Upload, s3!CreateS3Client, s3!BucketExists,
         s3!CreateBucket, s3!VisitEntry, s3!ReadFile, s3!PutObject,
         s3!UploadDirEnds, s3!Put, s3!remoteVars, s3!Begin, s3!Proceed, s3!Return,
         s3!Fail, s3!WalkBegins, s3!Visit, s3!WalkEnds, s3!VisitPanics,
         s3!VisitDir, s3!VisitFile, s3!Readable, s3!HasInfo, s3!HasError,
         s3!Listing, s3!Front, s3!Goto, s3!folderVars, s3!walkVars, s3!Replies,
         s3!Dirs, s3!Prefixes, s3!Root, s3!RemoteName, s3!Replace, s3!IsPrefix,
         s3!CleanupRemoves, s3!Midnight,
         s3p!Next, s3p!UploadStep, s3p!Upload, s3p!CreateS3Client,
         s3p!BucketExists, s3p!CreateBucket, s3p!VisitEntry, s3p!ReadFile,
         s3p!PutObject, s3p!UploadDirEnds, s3p!Put, s3p!remoteVars, s3p!Begin,
         s3p!Proceed, s3p!Return, s3p!Fail, s3p!WalkBegins, s3p!Visit,
         s3p!WalkEnds, s3p!VisitPanics, s3p!VisitDir, s3p!VisitFile,
         s3p!Readable, s3p!HasInfo, s3p!HasError, s3p!Listing, s3p!Front,
         s3p!Goto, s3p!folderVars, s3p!walkVars, s3p!Replies, s3p!Dirs,
         s3p!Prefixes, s3p!Root, s3p!RemoteName, s3p!Replace, s3p!IsPrefix,
         s3p!CleanupRemoves, s3p!Midnight
<1> QED
  BY <1>1, S3Files, s3p!NextInv, UploadsAssumption, ExclusiveAssumption

(* It is the one TLC checks. *)
LEMMA S3Means == s3p!IInv => s3!TypeOK /\ s3!S3Inv
BY DEF s3p!IInv, s3!TypeOK, s3!S3Inv, s3!FolderTypeOK, s3!FolderInv, s3!ObjectsInv,
       s3!CoverInv, s3!OverlapInv, s3!Kept, s3!Stored, s3!Pending,
       s3!TrustedSuccess, s3!Visible,
       s3!DistinctNames, s3!IsInjective, s3!NoObject, s3!Names, s3!RemoteName,
       s3!Replace, s3!IsPrefix, s3!Entries, s3!Dirs, s3!Prefixes, s3!Root,
       s3!Denials, s3!Days,
       s3p!TypeOK, s3p!S3Inv, s3p!FolderTypeOK, s3p!FolderInv, s3p!ObjectsInv,
       s3p!CoverInv, s3p!OverlapInv, s3p!Kept, s3p!Stored, s3p!Pending,
       s3p!TrustedSuccess, s3p!Visible,
       s3p!DistinctNames, s3p!IsInjective, s3p!NoObject, s3p!Names, s3p!RemoteName,
       s3p!Replace, s3p!IsPrefix, s3p!Entries, s3p!Dirs, s3p!Prefixes, s3p!Root,
       s3p!Denials, s3p!Days

-----------------------------------------------------------------------------
(* What the proofs for Azure assume of the files. *)
LEMMA AzureFiles ==
  /\ SourceFolder # <<>>
  /\ \A f \in Files : f \in Seq(azurep!Range(f))
  /\ Files \cap azurep!Dirs = {}
BY FilesAssumption
   DEF Range, Dirs, Root, Prefixes, azurep!Range, azurep!Dirs, azurep!Root,
       azurep!Prefixes

(* The client of Azure starts in its invariant ... *)
LEMMA AzureInit == azure!Init => azurep!IInv
<1>1. azure!Init => azurep!Init
  BY DEF azure!Init, azure!FolderInit, azure!Entries, azure!Dirs,
         azure!Prefixes, azure!Root, azure!Denials, azure!Days, azure!Names,
         azure!RemoteName, azure!Replace, azure!IsPrefix, azure!NoBlob,
         azure!NoBlock, azure!NoBlocks, azure!Blocks, azurep!Init,
         azurep!FolderInit, azurep!Entries, azurep!Dirs, azurep!Prefixes,
         azurep!Root, azurep!Denials, azurep!Days, azurep!Names,
         azurep!RemoteName, azurep!Replace, azurep!IsPrefix, azurep!NoBlob,
         azurep!NoBlock, azurep!NoBlocks, azurep!Blocks
<1> QED
  BY <1>1, AzureFiles, azurep!InitInv, UploadsAssumption, ExclusiveAssumption, SizesAssumption

(* ... and keeps it. *)
LEMMA AzureNext == azurep!IInv /\ azure!Next => azurep!IInv'
<1>1. azure!Next => azurep!Next
  BY DEF azure!Next, azure!UploadStep, azure!Upload, azure!CreateContainer,
         azure!VisitEntry, azure!OpenAndCreateBlob, azure!PutBlock,
         azure!ReadFails, azure!EndOfFile, azure!PutBlockList,
         azure!UploadDirEnds, azure!Blob, azure!blobVars, azure!NoBlock,
         azure!NoBlocks, azure!Blocks, azure!Begin, azure!Proceed,
         azure!Return, azure!Fail, azure!WalkBegins, azure!Visit,
         azure!WalkEnds, azure!Readable, azure!HasInfo, azure!HasError,
         azure!Listing, azure!Front, azure!Goto, azure!folderVars,
         azure!walkVars, azure!Replies, azure!Dirs, azure!Prefixes, azure!Root,
         azure!CleanupRemoves, azure!Midnight, azure!VisitPanics,
         azure!VisitDir, azure!VisitFile, azure!RemoteName, azure!Replace,
         azure!IsPrefix, azurep!Next, azurep!UploadStep, azurep!Upload,
         azurep!CreateContainer, azurep!VisitEntry, azurep!OpenAndCreateBlob,
         azurep!PutBlock, azurep!ReadFails, azurep!EndOfFile,
         azurep!PutBlockList, azurep!UploadDirEnds, azurep!Blob,
         azurep!blobVars, azurep!NoBlock, azurep!NoBlocks, azurep!Blocks,
         azurep!Begin, azurep!Proceed, azurep!Return, azurep!Fail,
         azurep!WalkBegins, azurep!Visit, azurep!WalkEnds, azurep!Readable,
         azurep!HasInfo, azurep!HasError, azurep!Listing, azurep!Front,
         azurep!Goto, azurep!folderVars, azurep!walkVars, azurep!Replies,
         azurep!Dirs, azurep!Prefixes, azurep!Root, azurep!CleanupRemoves,
         azurep!Midnight, azurep!VisitPanics, azurep!VisitDir,
         azurep!VisitFile, azurep!RemoteName, azurep!Replace, azurep!IsPrefix
<1> QED
  BY <1>1, AzureFiles, azurep!NextInv, UploadsAssumption, ExclusiveAssumption

(* It is the one TLC checks. *)
LEMMA AzureMeans == azurep!IInv => azure!TypeOK /\ azure!AzureInv
BY DEF azurep!IInv, azure!TypeOK, azure!AzureInv, azure!ChunkInv, azure!BlockFits,
       azure!BlocksInv, azure!Blob, azure!NoBlob, azure!NoBlock, azure!Blocks,
       azure!Blobs, azure!FolderTypeOK, azure!FolderInv, azure!CoverInv,
       azure!Stored, azure!Pending, azure!TrustedSuccess, azure!Entries,
       azure!Dirs, azure!Prefixes, azure!Root, azure!Denials, azure!Days,
       azure!Visible, azure!DistinctNames, azure!IsInjective, azure!Names,
       azure!RemoteName, azure!Replace, azure!IsPrefix, azurep!TypeOK,
       azurep!AzureInv, azurep!ChunkInv, azurep!BlockFits, azurep!BlocksInv,
       azurep!Blob, azurep!NoBlob, azurep!NoBlock, azurep!Blocks, azurep!Blobs,
       azurep!FolderTypeOK, azurep!FolderInv, azurep!CoverInv, azurep!Stored,
       azurep!Pending, azurep!TrustedSuccess, azurep!Entries, azurep!Dirs,
       azurep!Prefixes, azurep!Root, azurep!Denials, azurep!Days,
       azurep!Visible, azurep!DistinctNames, azurep!IsInjective, azurep!Names,
       azurep!RemoteName, azurep!Replace, azurep!IsPrefix

-----------------------------------------------------------------------------
(* What the proofs for GCS assume of the files. *)
LEMMA GcsFiles ==
  /\ SourceFolder # <<>>
  /\ \A f \in Files : f \in Seq(gcsp!Range(f))
  /\ Files \cap gcsp!Dirs = {}
BY FilesAssumption
   DEF Range, Dirs, Root, Prefixes, gcsp!Range, gcsp!Dirs, gcsp!Root,
       gcsp!Prefixes

(* The client of GCS starts in its invariant ... *)
LEMMA GcsInit == gcs!Init => gcsp!IInv
<1>1. gcs!Init => gcsp!Init
  BY DEF gcs!Init, gcs!FolderInit, gcs!Entries, gcs!Dirs, gcs!Prefixes,
         gcs!Root, gcs!Denials, gcs!Days, gcs!NoObject, gcsp!Init,
         gcsp!FolderInit, gcsp!Entries, gcsp!Dirs, gcsp!Prefixes, gcsp!Root,
         gcsp!Denials, gcsp!Days, gcsp!NoObject
<1> QED
  BY <1>1, GcsFiles, gcsp!InitInv, UploadsAssumption, ExclusiveAssumption

(* ... and keeps it. *)
LEMMA GcsNext == gcsp!IInv /\ gcs!Next => gcsp!IInv'
<1>1. gcs!Next => gcsp!Next
  BY DEF gcs!Next, gcs!UploadStep, gcs!Upload, gcs!NewClient, gcs!FindBucket,
         gcs!CreateBucket, gcs!VisitEntry, gcs!OpenFile, gcs!CopyEnds,
         gcs!CopyFails, gcs!UploadEnds, gcs!Close, gcs!remoteVars, gcs!Begin,
         gcs!Proceed, gcs!Return, gcs!Fail, gcs!WalkBegins, gcs!Visit,
         gcs!WalkEnds, gcs!Readable, gcs!HasInfo, gcs!HasError, gcs!Listing,
         gcs!Front, gcs!Goto, gcs!folderVars, gcs!walkVars, gcs!Replies,
         gcs!Dirs, gcs!Prefixes, gcs!Root, gcs!CleanupRemoves, gcs!Midnight,
         gcs!IsPrefix, gcsp!Next, gcsp!UploadStep, gcsp!Upload, gcsp!NewClient,
         gcsp!FindBucket, gcsp!CreateBucket, gcsp!VisitEntry, gcsp!OpenFile,
         gcsp!CopyEnds, gcsp!CopyFails, gcsp!UploadEnds, gcsp!Close,
         gcsp!remoteVars, gcsp!Begin, gcsp!Proceed, gcsp!Return, gcsp!Fail,
         gcsp!WalkBegins, gcsp!Visit, gcsp!WalkEnds, gcsp!Readable,
         gcsp!HasInfo, gcsp!HasError, gcsp!Listing, gcsp!Front, gcsp!Goto,
         gcsp!folderVars, gcsp!walkVars, gcsp!Replies, gcsp!Dirs,
         gcsp!Prefixes, gcsp!Root, gcsp!CleanupRemoves, gcsp!Midnight,
         gcsp!IsPrefix
<1> QED
  BY <1>1, GcsFiles, gcsp!NextInv, UploadsAssumption, ExclusiveAssumption

(* It is the one TLC checks. *)
LEMMA GcsMeans == gcsp!IInv => gcs!TypeOK /\ gcs!GcsInv
BY DEF gcsp!IInv, gcs!TypeOK, gcs!GcsInv, gcs!NoObject, gcs!Versions, gcs!FolderTypeOK,
       gcs!FolderInv, gcs!CoverInv, gcs!Stored, gcs!Pending,
       gcs!TrustedSuccess, gcs!Entries, gcs!Dirs, gcs!Prefixes, gcs!Root,
       gcs!Denials, gcs!Days, gcsp!TypeOK, gcsp!GcsInv, gcsp!NoObject,
       gcsp!Versions, gcsp!FolderTypeOK, gcsp!FolderInv, gcsp!CoverInv,
       gcsp!Stored, gcsp!Pending, gcsp!TrustedSuccess, gcsp!Entries, gcsp!Dirs,
       gcsp!Prefixes, gcsp!Root, gcsp!Denials, gcsp!Days

-----------------------------------------------------------------------------
(* The destination *)

(* upload.Initialize makes a client that satisfies its invariant. *)
LEMMA InitInv == Init => IInv
BY S3Init, AzureInit, GcsInit DEF Init, IInv

(* A step is one of the client in use, which keeps its invariant. *)
LEMMA NextInv == IInv /\ [Next]_vars => IInv'
<1> SUFFICES ASSUME IInv, [Next]_vars PROVE IInv'
  OBVIOUS
<1>1. CASE S3Step
  BY <1>1, S3Next DEF S3Step, IInv
<1>2. CASE AzureStep
  BY <1>2, AzureNext DEF AzureStep, IInv
<1>3. CASE GcsStep
  BY <1>3, GcsNext DEF GcsStep, IInv
<1>4. CASE UNCHANGED vars
  <2>1. s3p!IInv => s3p!IInv'
    <3>1. UNCHANGED s3p!vars
      BY <1>4 DEF vars, uploadVars, bucketVars, s3p!vars, s3p!uploadVars
    <3> QED
      BY <3>1, S3Files, s3p!StutterInv, UploadsAssumption, ExclusiveAssumption
  <2>2. azurep!IInv => azurep!IInv'
    <3>1. UNCHANGED azurep!vars
      BY <1>4 DEF vars, uploadVars, azureVars, azurep!vars, azurep!uploadVars
    <3> QED
      BY <3>1, AzureFiles, azurep!StutterInv, UploadsAssumption, ExclusiveAssumption
  <2>3. gcsp!IInv => gcsp!IInv'
    <3>1. UNCHANGED gcsp!vars
      BY <1>4 DEF vars, uploadVars, bucketVars, gcsVars, gcsp!vars, gcsp!uploadVars
    <3> QED
      BY <3>1, GcsFiles, gcsp!StutterInv, UploadsAssumption, ExclusiveAssumption
  <2> QED
    BY <1>4, <2>1, <2>2, <2>3 DEF vars, IInv
<1> QED
  BY <1>1, <1>2, <1>3, <1>4 DEF Next

(* The two lemmas together. *)
LEMMA Invariant == Spec => []IInv
BY InitInv, NextInv, PTL DEF Spec

(* Whatever the type of the destination, its client keeps track of every   *)
(* file, from the listing of its directory until it is stored (s3.go:204-  *)
(* 245, azure.go:52-127, gcs.go:64-106).                                   *)
THEOREM ClientsCover == Spec => []DestinationInv
<1>1. IInv => DestinationInv
  BY S3Means, AzureMeans, GcsMeans DEF IInv, DestinationInv
<1> QED
  BY <1>1, Invariant, PTL

(* The state of an upload, of the source folder and of the destination     *)
(* keeps to its types: no walk leaves the folder and no block number       *)
(* exceeds the file.                                                       *)
THEOREM TypesHold == Spec => []TypeOK
<1>1. IInv => TypeOK
  BY S3Means, AzureMeans, GcsMeans DEF IInv, TypeOK
<1> QED
  BY <1>1, Invariant, PTL

(* An upload that reports success has stored every file in a readable      *)
(* directory, whole, and with GCS every file whose Close did not fail      *)
(* (s3.go:204-245, azure.go:52-127, gcs.go:64-106).  On S3 and Azure this  *)
(* takes names that tell the files apart.                                  *)
THEOREM SuccessIsStored ==
  ASSUME Types \subseteq {"gcs"} \/ DistinctNames
  PROVE  Spec => []SuccessMeansStored
<1>1. IInv => SuccessMeansStored
  <2> SUFFICES ASSUME IInv, NEW u \in Uploads, TrustedSuccess(u)
               PROVE  IF type = "gcs" THEN \A f \in Files \ unsaved[u] : Stored(u, f)
                      ELSE \A f \in Visible : Stored(u, f)
    BY DEF SuccessMeansStored
  <2>1. type \in Types /\ type \in {"s3", "azure", "gcs"}
    BY TypesAssumption DEF IInv
  <2>2. CASE type = "s3"
    <3>1. s3!CoverInv
      BY <2>2, S3Means DEF IInv, s3!S3Inv
    <3>2. s3!DistinctNames
      BY <2>1, <2>2
         DEF DistinctNames, IsInjective, RemoteName, Replace, IsPrefix,
             s3!DistinctNames, s3!IsInjective, s3!RemoteName, s3!Replace, s3!IsPrefix
    <3>3. exclusive /\ s3!TrustedSuccess(u) /\ s3!Visible = Visible
      BY DEF TrustedSuccess, Visible, Prefixes, s3!TrustedSuccess, s3!Visible,
             s3!Prefixes
    <3>4. \A f \in Visible : s3!Stored(u, f)
      BY <3>1, <3>2, <3>3 DEF s3!CoverInv
    <3> QED
      BY <2>2, <3>4 DEF Stored
  <2>3. CASE type = "azure"
    <3>1. azure!CoverInv
      BY <2>3, AzureMeans DEF IInv, azure!AzureInv
    <3>2. azure!DistinctNames
      BY <2>1, <2>3
         DEF DistinctNames, IsInjective, RemoteName, Replace, IsPrefix,
             azure!DistinctNames, azure!IsInjective, azure!RemoteName,
             azure!Replace, azure!IsPrefix
    <3>3. exclusive /\ azure!TrustedSuccess(u) /\ azure!Visible = Visible
      BY DEF TrustedSuccess, Visible, Prefixes, azure!TrustedSuccess,
             azure!Visible, azure!Prefixes
    <3>4. \A f \in Visible : azure!Stored(u, f)
      BY <3>1, <3>2, <3>3 DEF azure!CoverInv
    <3> QED
      BY <2>3, <3>4 DEF Stored
  <2>4. CASE type = "gcs"
    <3>1. gcs!CoverInv
      BY <2>4, GcsMeans DEF IInv, gcs!GcsInv
    <3>2. exclusive /\ gcs!TrustedSuccess(u)
      BY DEF TrustedSuccess, gcs!TrustedSuccess
    <3>3. \A f \in Files \ unsaved[u] : gcs!Stored(u, f)
      BY <3>1, <3>2 DEF gcs!CoverInv
    <3> QED
      BY <2>4, <3>3 DEF Stored
  <2> QED
    BY <2>1, <2>2, <2>3, <2>4
<1> QED
  BY <1>1, Invariant, PTL

(* No upload to S3 or Azure is spread over two dated paths, although days  *)
(* pass while it runs (s3.go:183, azure.go:44, remote_path.go:14-30).      *)
THEOREM UploadsKeepTheirPath == Spec => []OneDatedPath
<1>1. IInv => OneDatedPath
  <2> SUFFICES ASSUME IInv, NEW u \in Uploads, u \in StoredOn(1), u \in StoredOn(2)
               PROVE  FALSE
    BY DEF OneDatedPath
  <2>1. type \in {"s3", "azure", "gcs"}
    BY TypesAssumption DEF IInv
  <2>2. CASE type = "s3"
    <3>1. \A d \in Days : u \in StoredOn(d) => path[u] = d
      <4> SUFFICES ASSUME NEW d \in Days, u \in StoredOn(d) PROVE path[u] = d
        OBVIOUS
      <4>1. PICK n \in Names : objects[d][n][1] = u
        BY <2>2 DEF StoredOn
      <4>2. n \in s3!Names /\ d \in s3!Days
        BY DEF Names, RemoteName, Replace, IsPrefix, Days, s3!Names, s3!RemoteName,
               s3!Replace, s3!IsPrefix, s3!Days
      <4> QED
        BY <2>2, <4>1, <4>2, S3Means DEF IInv, s3!S3Inv, s3!ObjectsInv
    <3> QED
      BY <3>1 DEF Days
  <2>3. CASE type = "azure"
    <3>1. \A d \in Days : u \in StoredOn(d) => path[u] = d
      <4> SUFFICES ASSUME NEW d \in Days, u \in StoredOn(d) PROVE path[u] = d
        OBVIOUS
      <4>1. PICK n \in Names : \E i \in DOMAIN committed[d][n] :
              committed[d][n][i][1] = u
        BY <2>3 DEF StoredOn
      <4>2. n \in azure!Names /\ d \in azure!Days
        BY DEF Names, RemoteName, Replace, IsPrefix, Days, azure!Names,
               azure!RemoteName, azure!Replace, azure!IsPrefix, azure!Days
      <4>3. azure!BlocksInv
        BY <2>3, AzureMeans DEF IInv, azure!AzureInv
      <4> QED
        BY <4>1, <4>2, <4>3 DEF azure!BlocksInv, azure!BlockFits
    <3> QED
      BY <3>1 DEF Days
  <2>4. CASE type = "gcs"
    BY <2>4 DEF StoredOn
  <2> QED
    BY <2>1, <2>2, <2>3, <2>4
<1> QED
  BY <1>1, Invariant, PTL

(* Only a missing source folder, an lstat that fails or another job's      *)
(* cleanup makes an upload panic, and never one to GCS (s3.go:230-233,     *)
(* azure.go:112-115, gcs.go:64-71).                                        *)
THEOREM PanicsAreExplained == Spec => []PanicNeedsFailedLstat
<1>1. IInv => PanicNeedsFailedLstat
  BY TypesAssumption, S3Means, AzureMeans, GcsMeans
     DEF IInv, PanicNeedsFailedLstat, s3!S3Inv, azure!AzureInv, gcs!GcsInv
<1> QED
  BY <1>1, Invariant, PTL

(* Uploads to S3 that overlap do not undo one another: what one of them    *)
(* reports as uploaded, and is still in the source folder, stays at the    *)
(* destination (s3.go:204-245).  This takes names that tell the files      *)
(* apart.                                                                  *)
THEOREM OverlapIsHarmless ==
  ASSUME DistinctNames
  PROVE  Spec => []OverlapLosesNothing
<1>1. IInv => OverlapLosesNothing
  <2> SUFFICES ASSUME IInv, type = "s3", NEW u \in Uploads, result[u] = "ok",
                      NEW f \in Visible \cap present
               PROVE  s3!Kept(u, f)
    BY DEF OverlapLosesNothing
  <2>1. s3!OverlapInv
    BY S3Means DEF IInv, s3!S3Inv
  <2>2. s3!DistinctNames
    BY DEF DistinctNames, IsInjective, RemoteName, Replace, IsPrefix,
           s3!DistinctNames, s3!IsInjective, s3!RemoteName, s3!Replace, s3!IsPrefix
  <2>3. s3!Visible = Visible
    BY DEF Visible, Prefixes, s3!Visible, s3!Prefixes
  <2> QED
    BY <2>1, <2>2, <2>3 DEF s3!OverlapInv
<1> QED
  BY <1>1, Invariant, PTL

(* A blob in Azure is never a mixture of lengths, and never of two uploads *)
(* where jobs exclude one another (azure.go:52-92).  This takes names that *)
(* tell the files apart.                                                   *)
THEOREM BlobsStayWhole ==
  ASSUME DistinctNames
  PROVE  Spec => []BlobsAreWhole
<1>1. IInv => BlobsAreWhole
  <2> SUFFICES ASSUME IInv, type = "azure", NEW d \in Days, NEW n \in Names,
                      committed[d][n] \notin {azure!NoBlob, <<>>}
               PROVE  /\ DOMAIN committed[d][n] = 1..size[committed[d][n][1][2]]
                      /\ exclusive => \A i, k \in DOMAIN committed[d][n] :
                           committed[d][n][i] = committed[d][n][k]
    BY DEF BlobsAreWhole
  <2>1. azure!TypeOK /\ azure!BlocksInv
    BY AzureMeans DEF IInv, azure!AzureInv
  <2>2. n \in azure!Names /\ d \in azure!Days
    BY DEF Names, RemoteName, Replace, IsPrefix, Days, azure!Names,
           azure!RemoteName, azure!Replace, azure!IsPrefix, azure!Days
  <2>3. azure!DistinctNames
    BY DEF DistinctNames, IsInjective, RemoteName, Replace, IsPrefix,
           azure!DistinctNames, azure!IsInjective, azure!RemoteName,
           azure!Replace, azure!IsPrefix
  <2>4. 1 \in DOMAIN committed[d][n]
    <3>1. committed[d][n] \in azure!Blobs
      BY <2>1, <2>2 DEF azure!TypeOK
    <3>2. PICK k \in azure!Blocks \cup {0} : committed[d][n] \in [1..k -> Uploads \X Files]
      BY <3>1 DEF azure!Blobs
    <3>3. k \in Nat
      BY <3>2, SizesAssumption DEF azure!Blocks
    <3>4. k # 0
      BY <3>2
    <3> QED
      BY <3>2, <3>3, <3>4
  <2> QED
    BY <2>1, <2>2, <2>3, <2>4 DEF azure!BlocksInv
<1> QED
  BY <1>1, Invariant, PTL
=============================================================================
