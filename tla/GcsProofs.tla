----------------------------- MODULE GcsProofs -----------------------------
(***************************************************************************)
(* GcsInv is an inductive invariant of the GCS client, for any files and   *)
(* any number of uploads.  DestinationProofs draws the conclusions.        *)
(***************************************************************************)
EXTENDS Gcs, FolderUploadProofs

Places == {"idle", "client", "find", "create", "walk", "open", "copy", "returned"}

(* The inductive invariant. *)
IInv == TypeOK /\ GcsInv

(* No upload has begun and nothing is stored (gcs.go:42-71). *)
LEMMA InitInv == Init => IInv
<1> SUFFICES ASSUME Init PROVE IInv
  OBVIOUS
<1>1. TypeOK
  BY RootIsEntry DEF Init, FolderInit, TypeOK, FolderTypeOK, Days
<1>2. FolderInv
  BY PrefixesAreEntries DEF Init, FolderInit, FolderInv
<1>3. CoverInv
  BY DEF Init, FolderInit, CoverInv, TrustedSuccess
<1> QED
  BY <1>1, <1>2, <1>3 DEF Init, FolderInit, GcsInv, IInv

(* The file is there: its object is named, with today's path. *)
Opened(u) ==
  /\ step[u] = "open"
  /\ Goto(u, "copy")
  /\ path' = [path EXCEPT ![u] = day]
  /\ UNCHANGED <<folderVars, day, result, walkVars, latest, panicked, objects,
                 bucket, unsaved>>

(* A step of the client is one of the steps FolderUploadProofs is about,   *)
(* or the one that evaluates remotePathFn anew.                            *)
LEMMA StepOfFolder ==
  ASSUME NEW u \in Uploads, UploadStep(u) \/ Upload(u)
  PROVE  FolderStep(u, Places) \/ Opened(u)
<1> USE DEF Places, FolderStep
<1>1. CASE Upload(u) \/ NewClient(u) \/ FindBucket(u) \/ CreateBucket(u)
  BY <1>1 DEF Upload, NewClient, FindBucket, CreateBucket, Fail
<1>2. CASE VisitEntry(u)
  BY <1>2 DEF VisitEntry, Fail
<1>3. CASE OpenFile(u)
  BY <1>3 DEF OpenFile, Opened, Fail
<1>4. CASE CopyEnds(u) \/ CopyFails(u) \/ UploadEnds(u)
  BY <1>4 DEF CopyEnds, CopyFails, UploadEnds, WalkEnds, Fail
<1> QED
  BY <1>1, <1>2, <1>3, <1>4 DEF UploadStep

(* It keeps the uploads apart, begins or goes on, and leaves the other     *)
(* uploads as they are.                                                    *)
LEMMA Frame ==
  ASSUME IInv, NEW u \in Uploads, UploadStep(u) \/ Upload(u)
  PROVE  /\ FolderTypeOK' /\ step' \in [Uploads -> Places] /\ FolderInv'
         /\ UNCHANGED <<exclusive, present, denied, hidden>>
         /\ \A v \in Uploads \ {u} :
              /\ step'[v] = step[v]
              /\ file'[v] = file[v]
              /\ exclusive => step'[v] \in {"idle", "returned"} /\ latest' # v
<1>1. /\ "walk" \in Places /\ "returned" \in Places
      /\ FolderTypeOK /\ step \in [Uploads -> Places] /\ FolderInv
  BY DEF IInv, TypeOK, GcsInv, Places
<1>2. CASE FolderStep(u, Places)
  <2>1. FolderTypeOK' /\ step' \in [Uploads -> Places] /\ FolderInv'
    BY <1>1, <1>2, FolderStepTypes, FolderStepInv
  <2>2. /\ UNCHANGED <<exclusive, present, denied, hidden>>
        /\ \A v \in Uploads \ {u} : step'[v] = step[v] /\ file'[v] = file[v]
    BY <1>1, <1>2, FolderStepFrame
  <2>3. \A v \in Uploads \ {u} :
          exclusive => step'[v] \in {"idle", "returned"} /\ latest' # v
    BY <1>1, <1>2, OthersAreDone
  <2> QED
    BY <2>1, <2>2, <2>3
<1>3. CASE Opened(u)
  BY <1>1, <1>3 DEF Opened, Goto, folderVars, walkVars, FolderTypeOK, FolderInv,
                    Entries, Dirs, Places
<1> QED
  BY <1>2, <1>3, StepOfFolder

(* What is opened and copied is a file. *)
LEMMA StepFiles ==
  ASSUME IInv, NEW u \in Uploads, UploadStep(u) \/ Upload(u), NEW v \in Uploads
  PROVE  step'[v] \in {"open", "copy"} => file'[v] \in Files
<1> USE DEF IInv, TypeOK, FolderTypeOK, GcsInv, Goto, walkVars
<1>1. CASE v # u
  BY <1>1, Frame
<1>2. CASE v = u
  <2>1. CASE Upload(u) \/ NewClient(u) \/ FindBucket(u) \/ CreateBucket(u)
    BY <1>2, <2>1 DEF Upload, NewClient, FindBucket, CreateBucket, Begin,
                      Proceed, Fail, Return, WalkBegins
  <2>2. CASE VisitEntry(u)
    BY <1>2, <2>2 DEF VisitEntry, Visit, Fail, Return, Entries
  <2>3. CASE OpenFile(u) \/ CopyEnds(u) \/ CopyFails(u) \/ UploadEnds(u)
    BY <1>2, <2>3 DEF OpenFile, CopyEnds, CopyFails, UploadEnds, WalkEnds,
                      Proceed, Fail, Return
  <2> QED
    BY <2>1, <2>2, <2>3 DEF UploadStep
<1> QED
  BY <1>1, <1>2

(* A file is closed under its own name, on one day. *)
LEMMA CloseEffect ==
  ASSUME IInv, NEW u \in Uploads, NEW d \in Days, file[u] \in Files,
         NEW part \in {"empty", "part", "whole"}, Close(u, d, part)
  PROVE  /\ objects' \in [Days -> [Files -> Versions \cup {NoObject}]]
         /\ \A b \in Days, f \in Files :
              objects'[b][f] # objects[b][f] =>
                b = d /\ f = file[u] /\ objects'[b][f] = <<u, part>>
<1> DEFINE g == file[u]
           o == <<u, part>>
<1>1. /\ g \in Files /\ o \in Versions
      /\ \/ objects' = objects
         \/ objects' = [objects EXCEPT ![d] = [objects[d] EXCEPT ![g] = o]]
  BY DEF Close, Versions
<1>2. objects \in [Days -> [Files -> Versions \cup {NoObject}]]
  BY DEF IInv, TypeOK
<1> HIDE DEF g, o
<1>3. /\ objects' \in [Days -> [Files -> Versions \cup {NoObject}]]
      /\ \A b \in Days, f \in Files :
           objects'[b][f] # objects[b][f] => b = d /\ f = g /\ objects'[b][f] = o
  BY <1>1, <1>2
<1> QED
  BY <1>3 DEF g, o

(* Every step keeps to the types. *)
LEMMA StepTypes ==
  ASSUME IInv, NEW u \in Uploads, UploadStep(u) \/ Upload(u)
  PROVE  TypeOK'
<1> USE DEF IInv, TypeOK, FolderTypeOK, GcsInv
<1>1. FolderTypeOK' /\ step' \in [Uploads -> Places]
  BY Frame
<1>2. CASE CopyEnds(u) \/ CopyFails(u)
  <2>1. file[u] \in Files /\ path[u] \in Days
    BY <1>2 DEF CopyEnds, CopyFails
  <2>2. objects' \in [Days -> [Files -> Versions \cup {NoObject}]]
    BY <1>2, <2>1, CloseEffect DEF CopyEnds, CopyFails
  <2>3. bucket' \in BOOLEAN /\ unsaved' \in [Uploads -> SUBSET Files]
    BY <1>2, <2>1 DEF CopyEnds, CopyFails
  <2> QED
    BY <1>1, <2>2, <2>3 DEF Places
<1>3. CASE OpenFile(u)
  <2>1. file[u] \in Files /\ day \in Days
    BY <1>3 DEF OpenFile
  <2>2. objects' \in [Days -> [Files -> Versions \cup {NoObject}]]
    BY <1>3, <2>1, CloseEffect DEF OpenFile
  <2> QED
    BY <1>1, <1>3, <2>2 DEF OpenFile, Places
<1>4. CASE ~(CopyEnds(u) \/ CopyFails(u) \/ OpenFile(u))
  <2>1. /\ bucket' \in BOOLEAN
        /\ UNCHANGED <<objects, unsaved>>
    BY <1>4 DEF UploadStep, Upload, NewClient, FindBucket, CreateBucket,
                VisitEntry, UploadEnds, remoteVars
  <2> QED
    BY <1>1, <2>1 DEF Places
<1> QED
  BY <1>2, <1>3, <1>4

(* Every error of the walk is returned (gcs.go:64-71). *)
LEMMA StepPanics ==
  ASSUME IInv, NEW u \in Uploads, UploadStep(u) \/ Upload(u)
  PROVE  ~panicked'
BY DEF IInv, GcsInv, UploadStep, Upload, NewClient, FindBucket, CreateBucket,
       VisitEntry, Visit, OpenFile, CopyEnds, CopyFails, UploadEnds, WalkEnds,
       Begin, Proceed, Fail, Return, WalkBegins

(* A step of the upload itself leaves every file covered (gcs.go:64-106). *)
LEMMA OwnStepCovers ==
  ASSUME IInv, NEW u \in Uploads, UploadStep(u) \/ Upload(u), exclusive,
         NEW f \in Files \ unsaved'[u]
  PROVE  /\ step'[u] \in {"walk", "open", "copy"} =>
              \/ Stored(u, f)' \/ Pending(u, f)'
              \/ step'[u] # "walk" /\ file'[u] = f
         /\ TrustedSuccess(u)' => Stored(u, f)'
<1> USE DEF Goto, folderVars, walkVars, remoteVars
<1> DEFINE Covered ==
      Stored(u, f) \/ Pending(u, f) \/ (step[u] # "walk" /\ file[u] = f)
<1>1. /\ FolderTypeOK /\ step \in [Uploads -> Places]
      /\ step[u] \in {"walk", "open", "copy"} /\ f \notin unsaved[u] => Covered
      /\ result[u] # "none" => step[u] = "returned"
      /\ present \in {{}, Entries}
  BY DEF IInv, TypeOK, Places, GcsInv, FolderInv, CoverInv
<1>2. CASE Upload(u) \/ NewClient(u)
  BY <1>1, <1>2 DEF Upload, NewClient, Begin, Proceed, Fail, Return, Places,
                    FolderTypeOK, TrustedSuccess
<1>3. CASE FindBucket(u) \/ CreateBucket(u)
  <2>1. CASE WalkBegins(u)
    <3>1. Pending(u, f)'
      BY <1>1, <2>1, WalkBeginsPending DEF FolderTypeOK
    <3>2. step[u] # "returned" /\ result' = result
      BY <1>3, <2>1 DEF FindBucket, CreateBucket, WalkBegins
    <3> QED
      BY <1>1, <3>1, <3>2 DEF TrustedSuccess
  <2>2. CASE ~WalkBegins(u)
    BY <1>1, <1>3, <2>2 DEF FindBucket, CreateBucket, Proceed, Fail, Return,
                            Places, FolderTypeOK, TrustedSuccess
  <2> QED
    BY <2>1, <2>2
<1>4. CASE VisitEntry(u)
  <2>1. step[u] = "walk" /\ objects' = objects /\ unsaved' = unsaved
    BY <1>4 DEF VisitEntry
  <2>2. CASE Fail(u)
    BY <1>1, <2>2 DEF Fail, Return, FolderTypeOK, TrustedSuccess
  <2>3. CASE ~Fail(u)
    <3>1. PICK e \in todo[u] :
            ~HasError(e) /\ Visit(u, e, IF e \in Dirs THEN "walk" ELSE "open")
      BY <1>4, <2>3 DEF VisitEntry
    <3>2. HasInfo(e) /\ Prefixes(f) \subseteq present
      BY <1>1, <3>1, PrefixesAreEntries DEF HasError, HasInfo
    <3>3. e \in Dirs \cap Prefixes(f) => e \notin denied
      BY <3>1 DEF HasError
    <3>4. Pending(u, f) => Pending(u, f)' \/ e = f
      BY <1>1, <3>1, <3>2, <3>3, VisitKeepsPending DEF FolderTypeOK
    <3>5. e = f => step'[u] = "open" /\ file'[u] = f
      BY <1>1, <3>1, FilesAssumption DEF Visit, FolderTypeOK
    <3>6. Stored(u, f) => Stored(u, f)'
      BY <2>1 DEF Stored
    <3>7. result' = result
      BY <3>1 DEF Visit
    <3> QED
      BY <1>1, <2>1, <3>4, <3>5, <3>6, <3>7 DEF TrustedSuccess
  <2> QED
    BY <2>2, <2>3
<1>5. CASE OpenFile(u)
  <2>1. CASE Fail(u)
    BY <1>1, <2>1 DEF Fail, Return, FolderTypeOK, TrustedSuccess
  <2>2. CASE ~Fail(u)
    <3>1. /\ step[u] = "open" /\ step'[u] = "copy"
          /\ UNCHANGED <<objects, unsaved, result, todo, file>>
      BY <1>1, <1>5, <2>2 DEF OpenFile
    <3> QED
      BY <1>1, <3>1 DEF Stored, Pending, TrustedSuccess
  <2> QED
    BY <2>1, <2>2
<1>6. CASE CopyFails(u)
  BY <1>1, <1>6 DEF CopyFails, Fail, Return, FolderTypeOK, TrustedSuccess
<1>7. CASE CopyEnds(u)
  <2>1. /\ step[u] = "copy" /\ step'[u] = "walk"
        /\ UNCHANGED <<result, todo, file>>
        /\ Close(u, path[u], "whole")
        /\ path[u] \in Days /\ file[u] \in Files
    BY <1>1, <1>7 DEF CopyEnds, Proceed, IInv, GcsInv, FolderTypeOK
  <2>2. CASE file[u] = f
    <3>1. objects'[path[u]][f] = <<u, "whole">>
      BY <1>7, <2>1, <2>2 DEF CopyEnds, IInv, TypeOK
    <3> QED
      BY <1>1, <2>1, <3>1 DEF Stored, TrustedSuccess
  <2>3. CASE file[u] # f
    <3>1. f \notin unsaved[u]
      BY <1>7, <2>3 DEF CopyEnds, IInv, TypeOK
    <3>2. Stored(u, f) => Stored(u, f)'
      BY <2>1, <2>3, CloseEffect DEF Stored
    <3> QED
      BY <1>1, <2>1, <2>3, <3>1, <3>2 DEF Pending, TrustedSuccess
  <2> QED
    BY <2>2, <2>3
<1>8. CASE UploadEnds(u)
  <2>1. step[u] = "walk" /\ ~Pending(u, f)
    BY <1>8 DEF UploadEnds, WalkEnds, Pending
  <2>2. step'[u] = "returned" /\ unsaved' = unsaved /\ objects' = objects
    BY <1>1, <1>8 DEF UploadEnds, WalkEnds, Return
  <2> QED
    BY <1>1, <2>1, <2>2 DEF Stored
<1> QED
  BY <1>2, <1>3, <1>4, <1>5, <1>6, <1>7, <1>8 DEF UploadStep

(* Every step of the client and around it preserves the invariant. *)
LEMMA NextInv == IInv /\ Next => IInv'
<1> SUFFICES ASSUME IInv, Next PROVE IInv'
  OBVIOUS
<1>1. ASSUME NEW u \in Uploads, UploadStep(u) \/ Upload(u) PROVE IInv'
  <2>1. TypeOK' /\ FolderInv' /\ ~panicked'
    BY <1>1, StepTypes, StepPanics, Frame
  <2>2. \A v \in Uploads : step'[v] \in {"open", "copy"} => file'[v] \in Files
    BY <1>1, StepFiles
  <2>3. CoverInv'
    <3> SUFFICES ASSUME exclusive', NEW v \in Uploads, NEW f \in Files \ unsaved'[v]
                 PROVE  /\ step'[v] \in {"walk", "open", "copy"} =>
                             \/ Stored(v, f)' \/ Pending(v, f)'
                             \/ step'[v] # "walk" /\ file'[v] = f
                        /\ TrustedSuccess(v)' => Stored(v, f)'
      BY DEF CoverInv
    <3>1. exclusive
      BY <1>1, Frame
    <3>2. CASE v = u
      BY <1>1, <3>1, <3>2, OwnStepCovers
    <3>3. CASE v # u
      <4>1. step'[v] \in {"idle", "returned"} /\ latest' # v
        BY <1>1, <3>1, <3>3, Frame
      <4> QED
        BY <4>1 DEF TrustedSuccess
    <3> QED
      BY <3>2, <3>3
  <2> QED
    BY <2>1, <2>2, <2>3 DEF IInv, GcsInv
<1>2. ASSUME CleanupRemoves \/ Midnight, UNCHANGED remoteVars PROVE IInv'
  <2>1. TypeOK' /\ FolderInv'
    BY <1>2, SurroundingsInv DEF IInv, TypeOK, GcsInv, remoteVars
  <2>2. UNCHANGED <<exclusive, step, result, path, todo, file, latest, panicked,
                    bucket, objects, unsaved>>
    BY <1>2, SurroundingsFrame DEF remoteVars
  <2>3. CoverInv'
    BY <2>2 DEF IInv, GcsInv, CoverInv, Stored, Pending, TrustedSuccess
  <2> QED
    BY <2>1, <2>2, <2>3 DEF IInv, GcsInv
<1> QED
  BY <1>1, <1>2 DEF Next

(* So does a step in which nothing happens. *)
LEMMA StutterInv == IInv /\ UNCHANGED vars => IInv'
<1> SUFFICES ASSUME IInv, UNCHANGED vars PROVE IInv'
  OBVIOUS
<1>1. UNCHANGED <<exclusive, present, denied, hidden, day, step, result, path,
                  todo, file, latest, panicked, bucket, objects,
                  unsaved>>
  BY DEF vars, uploadVars
<1>2. TypeOK'
  BY <1>1 DEF IInv, TypeOK, FolderTypeOK
<1>3. FolderInv'
  BY <1>1 DEF IInv, GcsInv, FolderInv
<1>4. CoverInv'
  BY <1>1 DEF IInv, GcsInv, CoverInv, Stored, Pending, TrustedSuccess
<1> QED
  BY <1>1, <1>2, <1>3, <1>4 DEF IInv, GcsInv
=============================================================================
