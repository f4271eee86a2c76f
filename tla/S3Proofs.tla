------------------------------ MODULE S3Proofs ------------------------------
(***************************************************************************)
(* S3Inv is an inductive invariant of the S3 client, for any files and any *)
(* number of uploads.  DestinationProofs draws the conclusions.            *)
(***************************************************************************)
EXTENDS S3, FolderUploadProofs

Places == {"idle", "client", "head", "create", "walk", "read", "put", "returned"}

(* The inductive invariant. *)
IInv == TypeOK /\ S3Inv

(* No upload has begun and nothing is stored (s3.go:159-191). *)
LEMMA InitInv == Init => IInv
<1> SUFFICES ASSUME Init PROVE IInv
  OBVIOUS
<1>1. TypeOK
  BY RootIsEntry DEF Init, FolderInit, TypeOK, FolderTypeOK, Days
<1>2. FolderInv
  BY PrefixesAreEntries DEF Init, FolderInit, FolderInv
<1>3. ObjectsInv
  BY UploadsAssumption DEF Init, ObjectsInv, NoObject
<1>4. CoverInv
  BY DEF Init, FolderInit, CoverInv, TrustedSuccess
<1>5. OverlapInv
  BY DEF Init, FolderInit, OverlapInv
<1> QED
  BY <1>1, <1>2, <1>3, <1>4, <1>5 DEF Init, FolderInit, S3Inv, IInv

(* A step of the client is one of the steps FolderUploadProofs is about. *)
LEMMA StepOfFolder ==
  ASSUME NEW u \in Uploads, UploadStep(u)
  PROVE  FolderStep(u, Places)
<1> USE DEF Places, FolderStep
<1>1. CASE Upload(u) \/ CreateS3Client(u) \/ BucketExists(u) \/ CreateBucket(u)
  BY <1>1 DEF Upload, CreateS3Client, BucketExists, CreateBucket, Fail
<1>2. CASE VisitEntry(u)
  BY <1>2 DEF VisitEntry, VisitDir, VisitFile
<1>3. CASE ReadFile(u) \/ PutObject(u) \/ UploadDirEnds(u)
  BY <1>3 DEF ReadFile, PutObject, UploadDirEnds, WalkEnds, Fail
<1> QED
  BY <1>1, <1>2, <1>3 DEF UploadStep

(* It begins or goes on, and leaves the other uploads as they are. *)
LEMMA Frame ==
  ASSUME IInv, NEW u \in Uploads, UploadStep(u)
  PROVE  /\ UNCHANGED <<exclusive, present, denied, hidden>>
         /\ step'[u] # "idle"
         /\ step[u] # "idle" => path' = path /\ latest' = latest
         /\ \A v \in Uploads \ {u} :
              /\ step'[v] = step[v]
              /\ result'[v] = result[v]
              /\ path'[v] = path[v]
              /\ todo'[v] = todo[v]
              /\ file'[v] = file[v]
<1>1. "walk" \in Places /\ FolderTypeOK /\ step \in [Uploads -> Places]
  BY DEF IInv, TypeOK, Places
<1>2. FolderStep(u, Places)
  BY StepOfFolder
<1> QED
  BY <1>1, <1>2, FolderStepFrame

(* What PutObject does to the objects. *)
LEMMA PutEffect ==
  ASSUME IInv, NEW u \in Uploads, PutObject(u)
  PROVE  /\ step[u] = "put"
         /\ path[u] \in Days /\ file[u] \in Files /\ RemoteName[file[u]] \in Names
         /\ \/ objects' = objects
            \/ objects' = [objects EXCEPT ![path[u]] =
                 [objects[path[u]] EXCEPT ![RemoteName[file[u]]] = <<u, file[u]>>]]
<1>1. /\ step[u] = "put"
      /\ objects' = objects \/ Put(u, path[u])
  BY DEF PutObject
<1>2. path[u] \in Days /\ file[u] \in Files
  BY <1>1 DEF IInv, TypeOK, FolderTypeOK, S3Inv
<1> QED
  BY <1>1, <1>2, NameOfFile DEF Put

(* Every step keeps to the types. *)
LEMMA StepTypes ==
  ASSUME IInv, NEW u \in Uploads, UploadStep(u)
  PROVE  TypeOK' /\ FolderInv'
<1>1. FolderTypeOK' /\ step' \in [Uploads -> Places] /\ FolderInv'
  BY StepOfFolder, FolderStepTypes, FolderStepInv
     DEF IInv, TypeOK, S3Inv, Places
<1>2. bucket' \in BOOLEAN
  BY DEF IInv, TypeOK, UploadStep, Upload, CreateS3Client, BucketExists,
         CreateBucket, VisitEntry, ReadFile, PutObject, UploadDirEnds, remoteVars
<1>3. objects' \in [Days -> [Names -> (Uploads \X Files) \cup {NoObject}]]
  <2>1. CASE PutObject(u)
    <3> DEFINE d == path[u]
               n == RemoteName[file[u]]
               o == <<u, file[u]>>
    <3>1. /\ d \in Days /\ n \in Names /\ o \in Uploads \X Files
          /\ \/ objects' = objects
             \/ objects' = [objects EXCEPT ![d] = [objects[d] EXCEPT ![n] = o]]
      BY <2>1, PutEffect
    <3> HIDE DEF d, n, o
    <3> QED
      BY <3>1 DEF IInv, TypeOK
  <2>2. CASE ~PutObject(u)
    BY <2>2 DEF IInv, TypeOK, UploadStep, Upload, CreateS3Client, BucketExists,
         CreateBucket, VisitEntry, ReadFile, UploadDirEnds, remoteVars
  <2> QED
    BY <2>1, <2>2
<1> QED
  BY <1>1, <1>2, <1>3 DEF TypeOK, Places

(* What is read and put is a file. *)
LEMMA StepFiles ==
  ASSUME IInv, NEW u \in Uploads, UploadStep(u), NEW v \in Uploads
  PROVE  step'[v] \in {"read", "put"} => file'[v] \in Files
<1> USE DEF IInv, TypeOK, FolderTypeOK, S3Inv, Goto, walkVars
<1>1. CASE v # u
  BY <1>1, Frame
<1>2. CASE v = u
  <2>1. CASE Upload(u) \/ CreateS3Client(u) \/ BucketExists(u) \/ CreateBucket(u)
    BY <1>2, <2>1 DEF Upload, CreateS3Client, BucketExists, CreateBucket, Begin,
                      Proceed, Fail, Return, WalkBegins
  <2>2. CASE VisitEntry(u)
    BY <1>2, <2>2 DEF VisitEntry, VisitDir, VisitFile, Visit, VisitPanics
  <2>3. CASE ReadFile(u) \/ PutObject(u) \/ UploadDirEnds(u)
    BY <1>2, <2>3 DEF ReadFile, PutObject, UploadDirEnds, WalkEnds, Proceed, Fail,
                      Return
  <2> QED
    BY <2>1, <2>2, <2>3 DEF UploadStep
<1> QED
  BY <1>1, <1>2

(* A walk that meets no other job's cleanup and no failing lstat misses no *)
(* entry of a folder that is there (s3.go:230-233).                        *)
LEMMA StepPanics ==
  ASSUME IInv, NEW u \in Uploads, UploadStep(u), ~panicked
  PROVE  exclusive' /\ panicked' => present' = {} \/ hidden' # {}
<1>1. CASE ~VisitPanics(u)
  BY <1>1 DEF UploadStep, Upload, CreateS3Client, BucketExists, CreateBucket,
              VisitEntry, VisitDir, VisitFile, Visit, ReadFile, PutObject,
              UploadDirEnds, WalkEnds, Begin, Proceed, Fail, Return, WalkBegins
<1>2. CASE VisitPanics(u)
  <2>1. todo[u] \subseteq Entries /\ exclusive => present \in {{}, Entries}
    BY DEF IInv, TypeOK, FolderTypeOK, S3Inv, FolderInv
  <2> QED
    BY <1>2, <2>1 DEF VisitPanics, HasInfo, folderVars, IInv, TypeOK,
                      FolderTypeOK, S3Inv, FolderInv
<1> QED
  BY <1>1, <1>2

(* No step but PutObject changes an object. *)
LEMMA OnlyPutStores ==
  ASSUME NEW u \in Uploads, UploadStep(u), ~PutObject(u)
  PROVE  objects' = objects
BY DEF UploadStep, Upload, CreateS3Client, BucketExists, CreateBucket, VisitEntry,
       ReadFile, UploadDirEnds, remoteVars

(* An object is put below its upload's one dated path (s3.go:183). *)
LEMMA StepObjects ==
  ASSUME IInv, NEW u \in Uploads, UploadStep(u)
  PROVE  ObjectsInv'
<1> SUFFICES ASSUME NEW d \in Days, NEW n \in Names, objects'[d][n][1] \in Uploads
             PROVE  step'[objects'[d][n][1]] # "idle" /\ path'[objects'[d][n][1]] = d
  BY DEF ObjectsInv
<1>1. \A v \in Uploads : step[v] # "idle" => step'[v] # "idle" /\ path'[v] = path[v]
  BY Frame
<1>2. CASE objects'[d][n] = objects[d][n]
  BY <1>1, <1>2 DEF IInv, S3Inv, ObjectsInv
<1>3. CASE objects'[d][n] # objects[d][n]
  <2>1. PutObject(u)
    BY <1>3, OnlyPutStores
  <2>2. /\ step[u] = "put" /\ path[u] \in Days
        /\ objects' = [objects EXCEPT ![path[u]] =
             [objects[path[u]] EXCEPT ![RemoteName[file[u]]] = <<u, file[u]>>]]
    BY <1>3, <2>1, PutEffect
  <2>3. d = path[u] /\ objects'[d][n] = <<u, file[u]>>
    BY <1>3, <2>2 DEF IInv, TypeOK
  <2> QED
    BY <1>1, <2>2, <2>3
<1> QED
  BY <1>2, <1>3

(* A step of the upload itself leaves every file covered (s3.go:204-245). *)
LEMMA OwnStepCovers ==
  ASSUME IInv, NEW u \in Uploads, UploadStep(u),
         DistinctNames, exclusive, NEW f \in Visible
  PROVE  /\ step'[u] \in {"walk", "read", "put"} =>
              \/ Stored(u, f)' \/ Pending(u, f)'
              \/ step'[u] # "walk" /\ file'[u] = f
         /\ TrustedSuccess(u)' => Stored(u, f)'
<1> USE DEF Goto, folderVars, walkVars, remoteVars
<1> DEFINE Covered ==
      Stored(u, f) \/ Pending(u, f) \/ (step[u] # "walk" /\ file[u] = f)
<1>1. /\ f \in Files /\ Visible' = Visible
      /\ FolderTypeOK /\ step \in [Uploads -> Places]
      /\ step[u] \in {"walk", "read", "put"} => Covered
      /\ result[u] # "none" => step[u] = "returned"
      /\ present \in {{}, Entries}
      /\ (Prefixes(f) \ {f}) \cap denied = {}
  <2>1. denied' = denied
    BY Frame
  <2> QED
    BY <2>1 DEF IInv, TypeOK, Places, S3Inv, FolderInv, CoverInv, Visible
<1>2. CASE Upload(u) \/ CreateS3Client(u)
  BY <1>1, <1>2 DEF Upload, CreateS3Client, Begin, Proceed, Fail, Return, Places,
                    FolderTypeOK, TrustedSuccess
<1>3. CASE BucketExists(u) \/ CreateBucket(u)
  <2>1. CASE WalkBegins(u)
    <3>1. Pending(u, f)'
      BY <1>1, <2>1, WalkBeginsPending DEF FolderTypeOK
    <3>2. step[u] # "returned" /\ result' = result
      BY <1>3, <2>1 DEF BucketExists, CreateBucket, WalkBegins
    <3> QED
      BY <1>1, <3>1, <3>2 DEF TrustedSuccess
  <2>2. CASE ~WalkBegins(u)
    BY <1>1, <1>3, <2>2 DEF BucketExists, CreateBucket, Proceed, Fail, Return,
                            Places, FolderTypeOK, TrustedSuccess
  <2> QED
    BY <2>1, <2>2
<1>4. CASE VisitEntry(u)
  <2>1. /\ step[u] = "walk" /\ objects' = objects /\ path' = path
        /\ result' = result
    BY <1>4, Frame DEF VisitEntry, VisitDir, VisitFile, Visit, VisitPanics
  <2>2. CASE VisitPanics(u)
    BY <1>1, <2>1, <2>2
       DEF VisitPanics, Stored, Pending, TrustedSuccess
  <2>3. CASE VisitDir(u) \/ VisitFile(u, "read")
    <3>1. PICK e \in todo[u] :
            /\ HasInfo(e)
            /\ \/ e \in Dirs /\ Visit(u, e, "walk")
               \/ e \in Files /\ Visit(u, e, "read")
      BY <2>3, Zenon DEF VisitDir, VisitFile
    <3>2. Prefixes(f) \subseteq present
      BY <1>1, <3>1, PrefixesAreEntries DEF HasInfo
    <3>3. e \in Dirs \cap Prefixes(f) => e \notin denied
      BY <1>1, FilesAssumption
    <3>4. Pending(u, f) => Pending(u, f)' \/ e = f
      BY <1>1, <3>1, <3>2, <3>3, VisitKeepsPending DEF FolderTypeOK
    <3>5. e = f => step'[u] = "read" /\ file'[u] = f
      BY <1>1, <3>1, FilesAssumption DEF Visit, FolderTypeOK
    <3>6. Stored(u, f) => Stored(u, f)'
      BY <2>1 DEF Stored
    <3> QED
      BY <1>1, <2>1, <3>4, <3>5, <3>6 DEF TrustedSuccess
  <2> QED
    BY <1>4, <2>2, <2>3 DEF VisitEntry
<1>5. CASE ReadFile(u)
  BY <1>1, <1>5 DEF ReadFile, Proceed, Fail, Return, FolderTypeOK, TrustedSuccess,
                    Stored, Pending
<1>6. CASE PutObject(u)
  <2>1. CASE step'[u] = "returned"
    BY <1>1, <1>6, <2>1 DEF PutObject, Proceed, Fail, Return, FolderTypeOK,
                            TrustedSuccess
  <2>2. CASE step'[u] # "returned"
    <3>1. Proceed(u, "walk") /\ Put(u, path[u]) /\ step[u] = "put"
      BY <1>1, <1>6, <2>2 DEF PutObject, Fail, Return
    <3>2. path' = path /\ todo' = todo /\ result' = result
      BY <3>1 DEF Proceed
    <3>3. /\ path[u] \in Days /\ file[u] \in Files
          /\ RemoteName[file[u]] \in Names /\ RemoteName[f] \in Names
      BY <1>1, <1>6, PutEffect, NameOfFile
    <3>4. objects'[path[u]] =
            [objects[path[u]] EXCEPT ![RemoteName[file[u]]] = <<u, file[u]>>]
      BY <3>1, <3>3 DEF Put, IInv, TypeOK
    <3>5. CASE file[u] = f
      <4>1. objects'[path[u]][RemoteName[f]] = <<u, f>>
        BY <3>3, <3>4, <3>5 DEF IInv, TypeOK
      <4> QED
        BY <1>1, <3>1, <3>2, <4>1 DEF Stored, TrustedSuccess
    <3>6. CASE file[u] # f
      <4>1. RemoteName[file[u]] # RemoteName[f]
        BY <1>1, <3>3, <3>6 DEF DistinctNames, IsInjective, RemoteName
      <4>2. objects'[path[u]][RemoteName[f]] = objects[path[u]][RemoteName[f]]
        BY <3>3, <3>4, <4>1 DEF IInv, TypeOK
      <4> QED
        BY <1>1, <3>1, <3>2, <3>6, <4>2 DEF Stored, Pending, TrustedSuccess
    <3> QED
      BY <3>5, <3>6
  <2> QED
    BY <2>1, <2>2
<1>7. CASE UploadDirEnds(u)
  <2>1. step[u] = "walk" /\ ~Pending(u, f)
    BY <1>7 DEF UploadDirEnds, WalkEnds, Pending
  <2>2. step'[u] = "returned" /\ path' = path /\ objects' = objects
    BY <1>1, <1>7 DEF UploadDirEnds, WalkEnds, Return
  <2> QED
    BY <1>1, <2>1, <2>2 DEF Stored
<1> QED
  BY <1>2, <1>3, <1>4, <1>5, <1>6, <1>7 DEF UploadStep

(* No step of an upload takes a file away from the destination, whoever    *)
(* stored it: a put to its name is a put of the same file (s3.go:235-240). *)
LEMMA StepKeeps ==
  ASSUME IInv, NEW u \in Uploads, UploadStep(u), DistinctNames,
         NEW v \in Uploads, step[v] # "idle", NEW f \in Files, Kept(v, f)
  PROVE  Kept(v, f)'
<1>1. path'[v] = path[v] /\ path[v] \in Days
  BY Frame DEF IInv, TypeOK, FolderTypeOK
<1>2. CASE ~PutObject(u)
  BY <1>1, <1>2, OnlyPutStores DEF Kept
<1>3. CASE PutObject(u)
  <2>1. /\ path[u] \in Days /\ file[u] \in Files /\ RemoteName[file[u]] \in Names
        /\ \/ objects' = objects
           \/ objects' = [objects EXCEPT ![path[u]] =
                [objects[path[u]] EXCEPT ![RemoteName[file[u]]] = <<u, file[u]>>]]
    BY <1>3, PutEffect
  <2>2. RemoteName[f] = RemoteName[file[u]] => f = file[u]
    BY <2>1 DEF DistinctNames, IsInjective, RemoteName
  <2>3. RemoteName[f] \in Names
    BY NameOfFile
  <2>4. \/ objects'[path[v]][RemoteName[f]] = objects[path[v]][RemoteName[f]]
        \/ objects'[path[v]][RemoteName[f]] = <<u, f>>
    BY <1>1, <2>1, <2>2, <2>3 DEF IInv, TypeOK
  <2> QED
    BY <1>1, <2>4 DEF Kept
<1> QED
  BY <1>2, <1>3

(* A step of the upload itself leaves every file that is still there       *)
(* covered, whatever the others do (s3.go:204-245).                        *)
LEMMA OwnStepOverlaps ==
  ASSUME IInv, NEW u \in Uploads, UploadStep(u),
         DistinctNames, NEW f \in Visible \cap present
  PROVE  /\ step'[u] \in {"walk", "read", "put"} =>
              \/ Kept(u, f)' \/ Pending(u, f)'
              \/ step'[u] # "walk" /\ file'[u] = f
         /\ result'[u] = "ok" => Kept(u, f)'
<1> USE DEF Goto, folderVars, walkVars, remoteVars
<1> DEFINE Covered ==
      Kept(u, f) \/ Pending(u, f) \/ (step[u] # "walk" /\ file[u] = f)
<1>1. /\ f \in Files
      /\ FolderTypeOK /\ step \in [Uploads -> Places]
      /\ step[u] \in {"walk", "read", "put"} => Covered
      /\ result[u] # "none" => step[u] = "returned"
      /\ Prefixes(f) \subseteq present
      /\ (Prefixes(f) \ {f}) \cap denied = {}
  BY DEF IInv, TypeOK, Places, S3Inv, FolderInv, OverlapInv, Visible
<1>2. CASE Upload(u) \/ CreateS3Client(u)
  BY <1>1, <1>2 DEF Upload, CreateS3Client, Begin, Proceed, Fail, Return, Places,
                    FolderTypeOK
<1>3. CASE BucketExists(u) \/ CreateBucket(u)
  <2>1. CASE WalkBegins(u)
    <3>1. Pending(u, f)'
      BY <1>1, <2>1, WalkBeginsPending DEF FolderTypeOK
    <3>2. step[u] # "returned" /\ result' = result
      BY <1>3, <2>1 DEF BucketExists, CreateBucket, WalkBegins
    <3> QED
      BY <1>1, <3>1, <3>2
  <2>2. CASE ~WalkBegins(u)
    BY <1>1, <1>3, <2>2 DEF BucketExists, CreateBucket, Proceed, Fail, Return,
                            Places, FolderTypeOK
  <2> QED
    BY <2>1, <2>2
<1>4. CASE VisitEntry(u)
  <2>1. /\ step[u] = "walk" /\ result' = result
        /\ Kept(u, f) => Kept(u, f)'
    BY <1>1, <1>4, StepKeeps DEF VisitEntry, VisitDir, VisitFile, Visit, VisitPanics
  <2>2. CASE VisitPanics(u)
    BY <1>1, <2>1, <2>2 DEF VisitPanics, Pending
  <2>3. CASE VisitDir(u) \/ VisitFile(u, "read")
    <3>1. PICK e \in todo[u] :
            /\ HasInfo(e)
            /\ \/ e \in Dirs /\ Visit(u, e, "walk")
               \/ e \in Files /\ Visit(u, e, "read")
      BY <2>3, Zenon DEF VisitDir, VisitFile
    <3>2. e \in Dirs \cap Prefixes(f) => e \notin denied
      BY <1>1, FilesAssumption
    <3>3. Pending(u, f) => Pending(u, f)' \/ e = f
      BY <1>1, <3>1, <3>2, VisitKeepsPending DEF FolderTypeOK
    <3>4. e = f => step'[u] = "read" /\ file'[u] = f
      BY <1>1, <3>1, FilesAssumption DEF Visit, FolderTypeOK
    <3> QED
      BY <1>1, <2>1, <3>3, <3>4
  <2> QED
    BY <1>4, <2>2, <2>3 DEF VisitEntry
<1>5. CASE ReadFile(u)
  BY <1>1, <1>5 DEF ReadFile, Proceed, Fail, Return, FolderTypeOK, Kept, Pending
<1>6. CASE PutObject(u)
  <2>1. CASE step'[u] = "returned"
    BY <1>1, <1>6, <2>1 DEF PutObject, Proceed, Fail, Return, FolderTypeOK
  <2>2. CASE step'[u] # "returned"
    <3>1. Proceed(u, "walk") /\ Put(u, path[u]) /\ step[u] = "put"
      BY <1>1, <1>6, <2>2 DEF PutObject, Fail, Return
    <3>2. path' = path /\ todo' = todo /\ result' = result /\ step'[u] = "walk"
      BY <1>1, <3>1 DEF Proceed
    <3>3. CASE file[u] = f
      <4>1. path[u] \in Days /\ RemoteName[f] \in Names
        BY <1>1, NameOfFile DEF FolderTypeOK
      <4>2. objects'[path[u]][RemoteName[f]] = <<u, f>>
        BY <3>1, <3>3, <4>1 DEF Put, IInv, TypeOK
      <4>3. Kept(u, f)'
        BY <3>2, <4>2 DEF Kept
      <4> QED
        BY <1>1, <3>1, <3>2, <4>3
    <3>4. CASE file[u] # f
      BY <1>1, <3>1, <3>2, <3>4, StepKeeps DEF Pending
    <3> QED
      BY <3>3, <3>4
  <2> QED
    BY <2>1, <2>2
<1>7. CASE UploadDirEnds(u)
  <2>1. step[u] = "walk" /\ ~Pending(u, f)
    BY <1>7 DEF UploadDirEnds, WalkEnds, Pending
  <2>2. step'[u] = "returned" /\ Kept(u, f)'
    BY <1>1, <1>7, <2>1, StepKeeps DEF UploadDirEnds, WalkEnds, Return
  <2> QED
    BY <2>2
<1> QED
  BY <1>2, <1>3, <1>4, <1>5, <1>6, <1>7 DEF UploadStep

(* Every step of the client and around it preserves the invariant. *)
LEMMA NextInv == IInv /\ Next => IInv'
<1> SUFFICES ASSUME IInv, Next PROVE IInv'
  OBVIOUS
<1>1. ASSUME NEW u \in Uploads, UploadStep(u) PROVE IInv'
  <2>1. TypeOK' /\ FolderInv' /\ ObjectsInv'
    BY <1>1, StepTypes, StepObjects
  <2>2. \A v \in Uploads : step'[v] \in {"read", "put"} => file'[v] \in Files
    BY <1>1, StepFiles
  <2>3. exclusive' /\ panicked' => present' = {} \/ hidden' # {}
    BY <1>1, StepPanics DEF Next
  <2>4. OverlapInv'
    <3> SUFFICES ASSUME NEW v \in Uploads, NEW f \in (Visible \cap present)',
                        DistinctNames
                 PROVE  /\ step'[v] \in {"walk", "read", "put"} =>
                             \/ Kept(v, f)' \/ Pending(v, f)'
                             \/ step'[v] # "walk" /\ file'[v] = f
                        /\ result'[v] = "ok" => Kept(v, f)'
      BY DEF OverlapInv, DistinctNames, RemoteName, Replace
    <3>1. denied' = denied /\ present' = present
      BY <1>1, Frame
    <3>2. f \in Visible \cap present /\ f \in Files
      BY <3>1 DEF Visible
    <3>3. CASE v = u
      BY <1>1, <3>2, <3>3, OwnStepOverlaps
    <3>4. CASE v # u
      <4>1. Kept(v, f) /\ step[v] # "idle" => Kept(v, f)'
        BY <1>1, <3>2, StepKeeps
      <4>2. /\ step'[v] = step[v] /\ result'[v] = result[v]
            /\ file'[v] = file[v] /\ todo'[v] = todo[v]
        BY <1>1, <3>4, Frame
      <4>3. result[v] = "ok" => step[v] = "returned"
        BY DEF IInv, S3Inv, FolderInv
      <4> QED
        BY <3>2, <4>1, <4>2, <4>3 DEF IInv, S3Inv, OverlapInv, Pending
    <3> QED
      BY <3>3, <3>4
  <2>5. CoverInv'
    <3> SUFFICES ASSUME NEW v \in Uploads, NEW f \in Visible', DistinctNames,
                        exclusive'
                 PROVE  /\ step'[v] \in {"walk", "read", "put"} =>
                             \/ Stored(v, f)' \/ Pending(v, f)'
                             \/ step'[v] # "walk" /\ file'[v] = f
                        /\ TrustedSuccess(v)' => Stored(v, f)'
      BY DEF CoverInv, DistinctNames, RemoteName, Replace
    <3>1. exclusive /\ denied' = denied
      BY <1>1, Frame
    <3>2. f \in Visible
      BY <3>1 DEF Visible
    <3>3. CASE v = u
      BY <1>1, <3>1, <3>2, <3>3, OwnStepCovers
    <3>4. CASE v # u
      <4>1. step'[v] \in {"idle", "returned"} /\ latest' # v
        BY <1>1, <3>1, <3>4, StepOfFolder, OthersAreDone
           DEF IInv, TypeOK, S3Inv, Places
      <4> QED
        BY <4>1 DEF TrustedSuccess
    <3> QED
      BY <3>3, <3>4
  <2> QED
    BY <2>1, <2>2, <2>3, <2>4, <2>5 DEF IInv, S3Inv
<1>2. ASSUME CleanupRemoves \/ Midnight, UNCHANGED remoteVars PROVE IInv'
  <2>1. TypeOK' /\ FolderInv'
    BY <1>2, SurroundingsInv DEF IInv, TypeOK, S3Inv, remoteVars
  <2>2. /\ UNCHANGED <<exclusive, denied, hidden, step, result, path, todo, file,
                       latest, panicked, bucket, objects>>
        /\ present' \subseteq present
        /\ exclusive => present' = present
    BY <1>2, SurroundingsFrame DEF remoteVars
  <2>3. ObjectsInv'
    BY <2>2 DEF IInv, S3Inv, ObjectsInv
  <2>4. CoverInv'
    BY <2>2 DEF IInv, S3Inv, CoverInv, Visible, Stored, Pending, TrustedSuccess
  <2>5. OverlapInv'
    BY <2>2 DEF IInv, S3Inv, OverlapInv, Visible, Kept, Pending
  <2> QED
    BY <2>1, <2>2, <2>3, <2>4, <2>5 DEF IInv, S3Inv
<1> QED
  BY <1>1, <1>2 DEF Next

(* So does a step in which nothing happens. *)
LEMMA StutterInv == IInv /\ UNCHANGED vars => IInv'
<1> SUFFICES ASSUME IInv, UNCHANGED vars PROVE IInv'
  OBVIOUS
<1>1. UNCHANGED <<exclusive, present, denied, hidden, day, step, result, path,
                  todo, file, latest, panicked, bucket, objects>>
  BY DEF vars, uploadVars
<1>2. TypeOK'
  BY <1>1 DEF IInv, TypeOK, FolderTypeOK
<1>3. FolderInv'
  BY <1>1 DEF IInv, S3Inv, FolderInv
<1>4. ObjectsInv'
  BY <1>1 DEF IInv, S3Inv, ObjectsInv
<1>5. CoverInv'
  BY <1>1 DEF IInv, S3Inv, CoverInv, Visible, Stored, Pending, TrustedSuccess
<1>6. OverlapInv'
  BY <1>1 DEF IInv, S3Inv, OverlapInv, Visible, Kept, Pending
<1> QED
  BY <1>1, <1>2, <1>3, <1>4, <1>5, <1>6 DEF IInv, S3Inv
=============================================================================
