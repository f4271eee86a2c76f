-------------------------------- MODULE Gcs --------------------------------
(***************************************************************************)
(* gcs/gcs.go: StorageClient.Upload.  A file is copied into the writer of  *)
(* an object, and the writer's deferred Close, whose error nobody sees,    *)
(* commits the object with whatever was copied.  remotePathFn is evaluated *)
(* for each file.                                                          *)
(***************************************************************************)
EXTENDS FolderUpload

VARIABLES
  bucket,   \* the bucket exists
  objects,  \* whose version of each file is stored below each dated path,
            \* and how much of it
  unsaved   \* history: the files whose Close failed after a complete copy

vars == <<uploadVars, bucket, objects, unsaved>>
remoteVars == <<bucket, objects, unsaved>>

Versions == Uploads \X {"empty", "part", "whole"}
NoObject == <<"none", "empty">>

TypeOK ==
  /\ FolderTypeOK
  /\ step \in [Uploads -> {"idle", "client", "find", "create", "walk",
                           "open", "copy", "returned"}]
  /\ bucket \in BOOLEAN
  /\ objects \in [Days -> [Files -> Versions \cup {NoObject}]]
  /\ unsaved \in [Uploads -> SUBSET Files]

Init ==
  /\ FolderInit
  /\ bucket \in BOOLEAN
  /\ objects = [d \in Days |-> [f \in Files |-> NoObject]]
  /\ unsaved = [u \in Uploads |-> {}]

-----------------------------------------------------------------------------
(* Mistakes the properties would catch: variants of the definitions below  *)
(* that no specification uses.                                             *)

(* The walk function does not look at its error. *)
WalkErrorIgnored(u) ==
  /\ step[u] = "walk"
  /\ VisitDir(u) \/ VisitFile(u, "open")
  /\ UNCHANGED remoteVars

(* It looks at its error only after the FileInfo. *)
InfoUsedFirst(u) ==
  /\ step[u] = "walk"
  /\ \/ VisitPanics(u)
     \/ (\E e \in todo[u] : HasInfo(e) /\ HasError(e)) /\ Fail(u)
     \/ \E e \in todo[u] :
          ~HasError(e) /\ Visit(u, e, IF e \in Dirs THEN "walk" ELSE "open")
  /\ UNCHANGED remoteVars

-----------------------------------------------------------------------------
Upload(u) == Begin(u, "client") /\ UNCHANGED remoteVars

NewClient(u) ==
  /\ step[u] = "client"
  /\ Proceed(u, "find") \/ Fail(u)
  /\ UNCHANGED remoteVars

(* ensureBucketExists lists the buckets of the project ... *)
FindBucket(u) ==
  /\ step[u] = "find"
  /\ \/ bucket /\ WalkBegins(u)
     \/ ~bucket /\ Proceed(u, "create")
     \/ Fail(u)
  /\ UNCHANGED remoteVars

(* ... and creates the one it has not found. *)
CreateBucket(u) ==
  /\ step[u] = "create"
  /\ \E reply \in IF bucket THEN {"refused"} ELSE Replies :
       /\ IF reply = "answered" THEN WalkBegins(u) ELSE Fail(u)
       /\ bucket' = (bucket \/ reply # "refused")
  /\ UNCHANGED <<objects, unsaved>>

(* The walk function returns the error it is given. *)
VisitEntry(u) ==
  /\ step[u] = "walk"
  /\ \/ (\E e \in todo[u] : HasError(e)) /\ Fail(u)
     \/ \E e \in todo[u] :
          ~HasError(e) /\ Visit(u, e, IF e \in Dirs THEN "walk" ELSE "open")
  /\ UNCHANGED remoteVars

(* The deferred Close commits part of the file under the writer's name, or *)
(* fails to; nobody learns which.                                          *)
Close(u, d, part) ==
  \/ objects' = [objects EXCEPT ![d][file[u]] = <<u, part>>]
  \/ UNCHANGED objects

(* uploadFile names the object, makes its writer and opens the file. *)
OpenFile(u) ==
  /\ step[u] = "open"
  /\ \/ /\ Readable(u)
        /\ Goto(u, "copy")
        /\ path' = [path EXCEPT ![u] = day]
        /\ UNCHANGED <<folderVars, day, result, walkVars, latest, panicked, objects>>
     \/ ~Readable(u) /\ Fail(u) /\ Close(u, day, "empty")
  /\ UNCHANGED <<bucket, unsaved>>

(* io.Copy has copied everything.  An error of Close does not count. *)
CopyEnds(u) ==
  /\ step[u] = "copy"
  /\ Proceed(u, "walk")
  /\ Close(u, path[u], "whole")
  /\ unsaved' = IF objects'[path[u]][file[u]] = <<u, "whole">> THEN unsaved
                ELSE [unsaved EXCEPT ![u] = @ \cup {file[u]}]
  /\ UNCHANGED bucket

(* A read or a write fails. *)
CopyFails(u) ==
  /\ step[u] = "copy"
  /\ Fail(u)
  /\ Close(u, path[u], "part")
  /\ UNCHANGED <<bucket, unsaved>>

UploadEnds(u) == WalkEnds(u) /\ UNCHANGED remoteVars

UploadStep(u) ==
  \/ NewClient(u)
  \/ FindBucket(u)
  \/ CreateBucket(u)
  \/ VisitEntry(u)
  \/ OpenFile(u)
  \/ CopyEnds(u)
  \/ CopyFails(u)
  \/ UploadEnds(u)

Next ==
  /\ ~panicked
  /\ \/ \E u \in Uploads : Upload(u) \/ UploadStep(u)
     \/ (CleanupRemoves \/ Midnight) /\ UNCHANGED remoteVars

-----------------------------------------------------------------------------
(* The inductive invariant.  TLC checks it in Destination. *)

Stored(u, f) == \E d \in Days : objects[d][f] = <<u, "whole">>

(* A file is stored, being stored, or ahead of the walk, or its Close has  *)
(* failed.                                                                 *)
CoverInv ==
  exclusive => \A u \in Uploads : \A f \in Files \ unsaved[u] :
    /\ step[u] \in {"walk", "open", "copy"} =>
         Stored(u, f) \/ Pending(u, f) \/ (step[u] # "walk" /\ file[u] = f)
    /\ TrustedSuccess(u) => Stored(u, f)

GcsInv ==
  /\ FolderInv
  /\ ~panicked
  /\ \A u \in Uploads : step[u] \in {"open", "copy"} => file[u] \in Files
  /\ CoverInv
=============================================================================
