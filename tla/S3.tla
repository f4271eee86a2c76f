--------------------------------- MODULE S3 ---------------------------------
(***************************************************************************)
(* s3/s3.go: S3CliClient.Upload.  The bucket is created if HeadBucket does *)
(* not find it; then each file is read into memory and put as one object.  *)
(***************************************************************************)
EXTENDS FolderUpload

VARIABLES
  bucket,   \* the bucket exists
  objects   \* the file stored under each name below each dated path, and by whom

vars == <<uploadVars, bucket, objects>>
remoteVars == <<bucket, objects>>

NoObject == <<"none", Root>>

TypeOK ==
  /\ FolderTypeOK
  /\ step \in [Uploads -> {"idle", "client", "head", "create", "walk",
                           "read", "put", "returned"}]
  /\ bucket \in BOOLEAN
  /\ objects \in [Days -> [Names -> (Uploads \X Files) \cup {NoObject}]]

Init ==
  /\ FolderInit
  /\ bucket \in BOOLEAN
  /\ objects = [d \in Days |-> [n \in Names |-> NoObject]]

(* The file being visited is stored below the path of day d. *)
Put(u, d) ==
  objects' = [objects EXCEPT ![d][RemoteName[file[u]]] = <<u, file[u]>>]

-----------------------------------------------------------------------------
(* Mistakes the properties would catch: variants of the definitions below  *)
(* that no specification uses.                                             *)

(* The remote path is computed anew for each file. *)
PathPerFile(u) ==
  /\ step[u] = "put"
  /\ Proceed(u, "walk")
  /\ Put(u, day)
  /\ UNCHANGED bucket

(* The file is put in parts, some of which stay behind on a failure. *)
PutsInParts(u) ==
  /\ step[u] = "put"
  /\ \/ Proceed(u, "walk") /\ Put(u, path[u])
     \/ /\ Fail(u)
        /\ objects' = [objects EXCEPT ![path[u]][RemoteName[file[u]]] = <<u, Root>>]
  /\ UNCHANGED bucket

(* A put that fails is undone. *)
PutUndone(u) ==
  /\ step[u] = "put"
  /\ \/ Proceed(u, "walk") /\ Put(u, path[u])
     \/ /\ Fail(u)
        /\ objects' = [objects EXCEPT ![path[u]][RemoteName[file[u]]] = NoObject]
  /\ UNCHANGED bucket

-----------------------------------------------------------------------------
Upload(u) == Begin(u, "client") /\ UNCHANGED remoteVars

CreateS3Client(u) ==
  /\ step[u] = "client"
  /\ Proceed(u, "head") \/ Fail(u)
  /\ UNCHANGED remoteVars

(* bucketExists: NotFound is no error, anything else is. *)
BucketExists(u) ==
  /\ step[u] = "head"
  /\ \/ bucket /\ WalkBegins(u)
     \/ ~bucket /\ Proceed(u, "create")
     \/ Fail(u)
  /\ UNCHANGED remoteVars

(* createBucket; S3 may refuse one that exists by now. *)
CreateBucket(u) ==
  /\ step[u] = "create"
  /\ \E reply \in Replies :
       /\ IF reply = "answered" THEN WalkBegins(u) ELSE Fail(u)
       /\ bucket' = (bucket \/ reply # "refused")
  /\ UNCHANGED objects

VisitEntry(u) ==
  /\ step[u] = "walk"
  /\ VisitDir(u) \/ VisitFile(u, "read") \/ VisitPanics(u)
  /\ UNCHANGED remoteVars

(* UploadFile reads the whole file ... *)
ReadFile(u) ==
  /\ step[u] = "read"
  /\ IF Readable(u) THEN Proceed(u, "put") ELSE Fail(u)
  /\ UNCHANGED remoteVars

(* ... and puts it. *)
PutObject(u) ==
  /\ step[u] = "put"
  /\ \E reply \in Replies :
       /\ IF reply = "answered" THEN Proceed(u, "walk") ELSE Fail(u)
       /\ IF reply = "refused" THEN UNCHANGED objects ELSE Put(u, path[u])
  /\ UNCHANGED bucket

UploadDirEnds(u) == WalkEnds(u) /\ UNCHANGED remoteVars

UploadStep(u) ==
  \/ Upload(u)
  \/ CreateS3Client(u)
  \/ BucketExists(u)
  \/ CreateBucket(u)
  \/ VisitEntry(u)
  \/ ReadFile(u)
  \/ PutObject(u)
  \/ UploadDirEnds(u)

Next ==
  /\ ~panicked
  /\ \/ \E u \in Uploads : UploadStep(u)
     \/ (CleanupRemoves \/ Midnight) /\ UNCHANGED remoteVars

-----------------------------------------------------------------------------
(* The inductive invariant.  TLC checks it in Destination. *)

(* An object is below the dated path of the upload that put it. *)
ObjectsInv ==
  \A d \in Days, n \in Names :
    LET u == objects[d][n][1]
    IN u \in Uploads => step[u] # "idle" /\ path[u] = d

Stored(u, f) == objects[path[u]][RemoteName[f]] = <<u, f>>

(* A file that no directory hides is stored, being stored, or ahead of the *)
(* walk.                                                                   *)
CoverInv ==
  \A u \in Uploads, f \in Visible : DistinctNames /\ exclusive =>
    /\ step[u] \in {"walk", "read", "put"} =>
         Stored(u, f) \/ Pending(u, f) \/ (step[u] # "walk" /\ file[u] = f)
    /\ TrustedSuccess(u) => Stored(u, f)

(* File f is below the dated path of upload u, whoever put it there. *)
Kept(u, f) == objects[path[u]][RemoteName[f]][2] = f

(* Where uploads may overlap: the same of a file that is still there, but  *)
(* for who stored it.                                                      *)
OverlapInv ==
  \A u \in Uploads, f \in Visible \cap present : DistinctNames =>
    /\ step[u] \in {"walk", "read", "put"} =>
         Kept(u, f) \/ Pending(u, f) \/ (step[u] # "walk" /\ file[u] = f)
    /\ result[u] = "ok" => Kept(u, f)

S3Inv ==
  /\ FolderInv
  /\ \A u \in Uploads : step[u] \in {"read", "put"} => file[u] \in Files
  /\ exclusive /\ panicked => present = {} \/ hidden # {}
  /\ ObjectsInv
  /\ CoverInv
  /\ OverlapInv
=============================================================================
