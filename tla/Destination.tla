---------------------------- MODULE Destination ----------------------------
(***************************************************************************)
(* One configured destination, uploaded to inside the program: the switch  *)
(* of upload/initialize.go gives it the client of its type (S3, Azure or   *)
(* Gcs), and the multi uploader of every job calls that client's Upload.   *)
(* The destinations of type scp are in Scp.                                *)
(***************************************************************************)
EXTENDS FolderUpload

CONSTANTS
  Types,   \* the types of destination considered
  Sizes    \* see Azure

ASSUME TypesAssumption == Types \subseteq {"s3", "azure", "gcs"}

ASSUME SizesAssumption == Sizes \subseteq Nat

VARIABLES
  type,                                   \* the type of the destination
  bucket, objects,                        \* S3 and Gcs
  unsaved,                                \* Gcs
  size, block, committed, uncommitted     \* Azure

s3 == INSTANCE S3
azure == INSTANCE Azure
gcs == INSTANCE Gcs

azureVars == <<size, block, committed, uncommitted>>
gcsVars == <<unsaved>>
bucketVars == <<bucket, objects>>

vars == <<uploadVars, type, bucketVars, gcsVars, azureVars>>

TypeOK ==
  /\ type \in Types
  /\ type = "s3" => s3!TypeOK
  /\ type = "azure" => azure!TypeOK
  /\ type = "gcs" => gcs!TypeOK

(* upload.Initialize.  The variables of the other clients are not used. *)
Init ==
  \/ /\ type = "s3" /\ type \in Types /\ s3!Init
     /\ unsaved = 0 /\ size = 0 /\ block = 0 /\ committed = 0 /\ uncommitted = 0
  \/ /\ type = "azure" /\ type \in Types /\ azure!Init
     /\ unsaved = 0 /\ bucket = 0 /\ objects = 0
  \/ /\ type = "gcs" /\ type \in Types /\ gcs!Init
     /\ size = 0 /\ block = 0 /\ committed = 0 /\ uncommitted = 0

S3Step == type = "s3" /\ s3!Next /\ UNCHANGED <<type, gcsVars, azureVars>>

AzureStep ==
  type = "azure" /\ azure!Next /\ UNCHANGED <<type, bucketVars, gcsVars>>

GcsStep == type = "gcs" /\ gcs!Next /\ UNCHANGED <<type, azureVars>>

Next == S3Step \/ AzureStep \/ GcsStep

Spec == Init /\ [][Next]_vars

-----------------------------------------------------------------------------
(* Properties *)

(* What upload u made of file f is at the destination, whole. *)
Stored(u, f) ==
  CASE type = "s3" -> s3!Stored(u, f)
    [] type = "azure" -> azure!Stored(u, f)
    [] type = "gcs" -> gcs!Stored(u, f)

(* Which failures an upload never loses: after a success every file in a   *)
(* readable directory is stored whole, and with GCS every file at all,     *)
(* except those whose Close failed: the client "recursively uploads the    *)
(* contents of a directory" (s3_integration_test.go:92; s3.go:204-245,     *)
(* azure.go:52-127, gcs.go:64-106).  On S3 and Azure it fails when the     *)
(* path of the source folder recurs below the source folder.               *)
SuccessMeansStored ==
  \A u \in Uploads : TrustedSuccess(u) =>
    IF type = "gcs" THEN \A f \in Files \ unsaved[u] : Stored(u, f)
    ELSE \A f \in Visible : Stored(u, f)

(* The uploads that have stored anything below the dated path of day d. *)
StoredOn(d) ==
  CASE type = "s3" -> {objects[d][n][1] : n \in Names}
    [] type = "azure" ->
         UNION {{blob[i][1] : i \in DOMAIN blob} :
                  blob \in {committed[d][n] : n \in Names}}
    [] type = "gcs" -> {}

(* The files of one upload are below one dated path on S3 and Azure, also  *)
(* when it crosses midnight (s3.go:183, azure.go:44,                       *)
(* remote_path.go:14-30).                                                  *)
OneDatedPath == \A u \in Uploads : ~(u \in StoredOn(1) /\ u \in StoredOn(2))

(* An upload to GCS returns the error of an lstat that fails; those to S3  *)
(* and Azure panic, but never over a folder that is there, in which every  *)
(* lstat succeeds and that no other job touches (s3.go:230-233,            *)
(* azure.go:112-115, gcs.go:64-71).                                        *)
PanicNeedsFailedLstat ==
  panicked => type # "gcs" /\ (exclusive => present = {} \/ hidden # {})

(* Uploads to S3 that overlap, and share the names of their objects when   *)
(* they begin on one day, do not undo one another: once an upload has      *)
(* returned without an error, every file that is still in the source       *)
(* folder, in a readable directory, is and stays below its dated path, put *)
(* there by it or by another, also when the others fail or panic           *)
(* (s3.go:204-245).  Uploads to Azure and GCS do not have this property:   *)
(* another upload empties a blob before it fills it (azure.go:60), and     *)
(* commits what it has of an object when its copy fails (gcs.go:93).       *)
OverlapLosesNothing ==
  type = "s3" =>
    \A u \in Uploads : result[u] = "ok" =>
      \A f \in Visible \cap present : s3!Kept(u, f)

(* However an upload to Azure ended, a blob is missing, empty or as long   *)
(* as its file; and, as long as uploads exclude one another, it is of one  *)
(* upload and not of two whose blocks have the same names                  *)
(* (azure.go:52-92).                                                       *)
BlobsAreWhole ==
  type = "azure" =>
    \A d \in Days, n \in Names :
      LET blob == committed[d][n]
      IN \/ blob \in {azure!NoBlob, <<>>}
         \/ /\ DOMAIN blob = 1..size[blob[1][2]]
            /\ exclusive => \A i, k \in DOMAIN blob : blob[i] = blob[k]

(* What the tests of the clients expect of an Upload that succeeded: it    *)
(* "recursively uploads the contents of a directory"                       *)
(* (s3_integration_test.go:92) and "backs up files"                        *)
(* (gcs_integration_test.go:45).                                           *)
EveryFileStored ==
  \A u \in Uploads : TrustedSuccess(u) => \A f \in Files : Stored(u, f)

(* The inductive invariant behind the other properties: each client's own, *)
(* which follows a file from the listing of its directory until it is      *)
(* stored (s3.go:204-245, azure.go:52-127, gcs.go:64-106).                 *)
DestinationInv ==
  /\ type = "s3" => s3!S3Inv
  /\ type = "azure" => azure!AzureInv
  /\ type = "gcs" => gcs!GcsInv
=============================================================================
