---------------------------- MODULE FolderUpload ----------------------------
(***************************************************************************)
(* What the S3, Azure and GCS clients have in common: an Upload walks the  *)
(* source folder with filepath.Walk and stores every file below the dated  *)
(* path of upload/remote_path.go.  A path is the sequence of its segments; *)
(* an entry of the source folder is its path below it, and <<>> the folder *)
(* itself.  Every member of Uploads is a call of Upload for the same       *)
(* destination by a job of its own.  Destination puts the clients          *)
(* together.                                                               *)
(***************************************************************************)
EXTENDS Naturals, SequencesExt

CONSTANTS
  Uploads,       \* the calls of Upload
  SourceFolder,  \* the path of the source folder
  Files,         \* the files below it
  Exclusive      \* the values of exit_if_in_progress considered

Root == <<>>
Dirs == {Root} \cup UNION {Prefixes(f) \ {f} : f \in Files}
Entries == Files \cup Dirs

ASSUME FilesAssumption ==
  /\ SourceFolder # <<>>
  /\ \A f \in Files : f \in Seq(Range(f))
  /\ Files \cap Dirs = {}

ASSUME ExclusiveAssumption == Exclusive \subseteq BOOLEAN

ASSUME UploadsAssumption == "none" \notin Uploads

(* Bound: at most one entry is out of reach, in one of two ways: it is a   *)
(* directory that cannot be listed or a file that cannot be read, or its   *)
(* lstat fails although it is there, for want of search permission on its  *)
(* directory or because the file system fails.                             *)
Denials == {{}} \cup {{e} : e \in Entries}

(* Bound: the days on which the uploads take place, with one midnight. *)
Days == {1, 2}

VARIABLES
  exclusive,  \* exit_if_in_progress: uploads and cleanups exclude one another
  present,    \* the entries of the source folder that exist
  denied,     \* the directories that cannot be listed, the files that cannot be read
  hidden,     \* the entries whose lstat fails
  day,        \* today
  step,       \* where each upload is
  result,     \* what each upload returned
  path,       \* the day in the remote path it is using
  todo,       \* its walk: the entries known and not yet visited
  file,       \* its walk: the entry being visited
  latest,     \* history: the upload that began last
  panicked    \* an upload has panicked, which ends the program

folderVars == <<exclusive, present, denied, hidden>>
walkVars == <<todo, file>>
uploadVars == <<exclusive, present, denied, hidden, day, step, result, path,
                todo, file, latest, panicked>>

FolderTypeOK ==
  /\ exclusive \in Exclusive
  /\ present \subseteq Entries
  /\ denied \in Denials /\ hidden \in Denials
  /\ day \in Days
  /\ result \in [Uploads -> {"none", "ok", "failed"}]
  /\ path \in [Uploads -> Days]
  /\ todo \in [Uploads -> SUBSET Entries]
  /\ file \in [Uploads -> Entries]
  /\ latest \in Uploads \cup {"none"}
  /\ panicked \in BOOLEAN

(* The source folder is missing or complete. *)
FolderInit ==
  /\ exclusive \in Exclusive
  /\ present \in {{}, Entries}
  /\ denied \in Denials /\ hidden \in Denials
  /\ denied = {} \/ hidden = {}
  /\ day = 1
  /\ step = [u \in Uploads |-> "idle"]
  /\ result = [u \in Uploads |-> "none"]
  /\ path = [u \in Uploads |-> 1]
  /\ todo = [u \in Uploads |-> {}]
  /\ file = [u \in Uploads |-> Root]
  /\ latest = "none"
  /\ panicked = FALSE

Goto(u, place) == step' = [step EXCEPT ![u] = place]

(* A remote request is answered, carried out though its answer was lost,   *)
(* or not carried out.                                                     *)
Replies == {"answered", "lost", "refused"}

-----------------------------------------------------------------------------
(* Upload is called and evaluates remotePathFn. *)
Begin(u, place) ==
  /\ step[u] = "idle"
  /\ exclusive => \A v \in Uploads : step[v] \in {"idle", "returned"}
  /\ Goto(u, place)
  /\ path' = [path EXCEPT ![u] = day]
  /\ latest' = u
  /\ UNCHANGED <<folderVars, day, result, walkVars, panicked>>

(* From one step to the next, touching nothing else of an upload. *)
Proceed(u, place) ==
  /\ Goto(u, place)
  /\ UNCHANGED <<folderVars, day, result, path, walkVars, latest, panicked>>

(* The upload returns r and its walk is gone. *)
Return(u, r) ==
  /\ Goto(u, "returned")
  /\ result' = [result EXCEPT ![u] = r]
  /\ todo' = [todo EXCEPT ![u] = {}]
  /\ file' = [file EXCEPT ![u] = Root]
  /\ UNCHANGED <<folderVars, day, path, latest, panicked>>

Fail(u) == Return(u, "failed")

-----------------------------------------------------------------------------
(* filepath.Walk visits the directory first, listed already, and then what *)
(* the listing has.  The order depends on the names and is left open.      *)

WalkBegins(u) ==
  /\ Goto(u, "walk")
  /\ todo' = [todo EXCEPT ![u] = {Root}]
  /\ UNCHANGED <<folderVars, day, result, path, file, latest, panicked>>

(* What the walk function gets: no FileInfo for an entry whose lstat       *)
(* fails, be it that the entry is gone or out of reach, and an error for   *)
(* that or for a directory that cannot be read.                            *)
HasInfo(e) == e \in present \ hidden
HasError(e) == ~HasInfo(e) \/ e \in Dirs \cap denied

Listing(e) ==
  IF e \in Dirs /\ ~HasError(e)
  THEN {x \in present \ {Root} : Front(x) = e}
  ELSE {}

(* The walk calls its function for e, which goes on at place. *)
Visit(u, e, place) ==
  /\ step[u] = "walk"
  /\ e \in todo[u]
  /\ Goto(u, place)
  /\ todo' = [todo EXCEPT ![u] = (@ \ {e}) \cup Listing(e)]
  /\ file' = [file EXCEPT ![u] = e]
  /\ UNCHANGED <<folderVars, day, result, path, latest, panicked>>

(* os.Open or os.ReadFile of the file being visited succeeds. *)
Readable(u) == file[u] \in present \ denied

(* Walk returns nil, and so does Upload. *)
WalkEnds(u) == step[u] = "walk" /\ todo[u] = {} /\ Return(u, "ok")

(* The walk function of S3 and Azure uses the FileInfo without a check. *)
VisitPanics(u) ==
  /\ step[u] = "walk"
  /\ \E e \in todo[u] : ~HasInfo(e)
  /\ panicked' = TRUE
  /\ UNCHANGED <<folderVars, day, step, result, path, walkVars, latest>>

(* It does not use its error: an unreadable directory has no entries. *)
VisitDir(u) == \E e \in todo[u] \cap Dirs : HasInfo(e) /\ Visit(u, e, "walk")

VisitFile(u, place) ==
  \E e \in todo[u] \cap Files : HasInfo(e) /\ Visit(u, e, place)

-----------------------------------------------------------------------------
(* strings.Replace(path, localDir, "", -1) of S3 and Azure removes the     *)
(* path of the source folder wherever it occurs, also below the folder.    *)
Replace(full) ==
  LET At(i) == IsPrefix(SourceFolder, SubSeq(full, i, Len(full)))
      rest[i \in 1..(Len(full) + Len(SourceFolder))] ==
        IF i > Len(full) THEN <<>>
        ELSE IF At(i) THEN rest[i + Len(SourceFolder)]
        ELSE <<full[i]>> \o rest[i + 1]
  IN rest[1]

(* The name below the dated path that S3 and Azure give a file.  GCS uses  *)
(* filepath.Rel, which is the file's path below the source folder.         *)
RemoteName == [f \in Files |-> Replace(SourceFolder \o f)]

Names == {RemoteName[f] : f \in Files}

-----------------------------------------------------------------------------
(* Another job's cleanup removes an entry, with what is below it. *)
CleanupRemoves ==
  /\ ~exclusive
  /\ \E e \in present \ {Root} :
       present' = {x \in present : ~IsPrefix(e, x)}
  /\ UNCHANGED <<exclusive, denied, hidden, day, step, result, path, walkVars,
                 latest, panicked>>

Midnight ==
  /\ day = 1
  /\ day' = 2
  /\ UNCHANGED <<folderVars, step, result, path, walkVars, latest, panicked>>

-----------------------------------------------------------------------------
(* The latest upload has returned without an error, and nothing could      *)
(* change the folder meanwhile.                                            *)
TrustedSuccess(u) == exclusive /\ latest = u /\ result[u] = "ok"

(* The files that no unreadable directory hides. *)
Visible == {f \in Files : (Prefixes(f) \ {f}) \cap denied = {}}

(* S3 and Azure give no two files the same name, as is the case when the   *)
(* path of the source folder does not recur below it.                      *)
DistinctNames == IsInjective(RemoteName)

(* What the inductive invariants of the clients have in common.  An upload *)
(* with a result has returned; the directories above a file that is there  *)
(* are there; and as long as uploads exclude one another, the folder stays *)
(* as it was and only the latest upload can be active.                     *)
FolderInv ==
  /\ \A u \in Uploads : result[u] # "none" => step[u] = "returned"
  /\ \A f \in Files \cap present : Prefixes(f) \subseteq present
  /\ exclusive =>
       /\ present \in {{}, Entries}
       /\ \A u \in Uploads : step[u] \notin {"idle", "returned"} => latest = u

(* The walk of upload u has file f, or a directory above it, to visit. *)
Pending(u, f) == todo[u] \cap Prefixes(f) # {}
=============================================================================
