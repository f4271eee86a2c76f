------------------------- MODULE FolderUploadProofs -------------------------
(***************************************************************************)
(* Lemmas about the walk of FolderUpload, for any files and any number of  *)
(* uploads.  The proofs for the S3, Azure and GCS clients rest on them.    *)
(***************************************************************************)
EXTENDS FolderUpload, TLAPS

-----------------------------------------------------------------------------
(* The tree of directories *)

(* The walk of every file's path starts at the source folder. *)
LEMMA RootIsAbove ==
  ASSUME NEW f \in Files
  PROVE  Root \in Prefixes(f)
<1>1. f \in Seq(Range(f))
  BY FilesAssumption
<1>2. SubSeq(f, 1, 0) = <<>> /\ 0 \in 0..Len(f)
  BY <1>1
<1> QED
  BY <1>2 DEF Root, Prefixes

(* Nothing is below a file. *)
LEMMA FilesAreLeaves ==
  ASSUME NEW f \in Files, NEW e \in Files, e \in Prefixes(f)
  PROVE  e = f
BY FilesAssumption DEF Dirs

(* Between a file and a directory above it there is an entry of that       *)
(* directory: the one whose listing leads the walk on to the file.         *)
LEMMA EntryOnTheWay ==
  ASSUME NEW f \in Files, NEW e \in Prefixes(f), e # f
  PROVE  \E x \in Entries \ {Root} : Front(x) = e /\ x \in Prefixes(f)
<1>1. f \in Seq(Range(f))
  BY FilesAssumption
<1>2. PICK l \in 0..Len(f) : e = SubSeq(f, 1, l)
  BY DEF Prefixes
<1>3. l + 1 \in 0..Len(f)
  BY <1>1, <1>2
<1> DEFINE x == SubSeq(f, 1, l + 1)
<1>4. x \in Prefixes(f)
  BY <1>3 DEF Prefixes
<1>5. Len(x) = l + 1 /\ x \in Seq(Range(f))
  BY <1>1, <1>3
<1>6. x # Root
  BY <1>5, <1>2 DEF Root
<1>7. Front(x) = e
  <2>1. Len(Front(x)) = l /\ Front(x) \in Seq(Range(f))
    BY <1>5, <1>2 DEF Front
  <2>2. Len(e) = l /\ e \in Seq(Range(f))
    BY <1>1, <1>2
  <2>3. \A i \in 1..l : Front(x)[i] = e[i]
    BY <1>1, <1>2, <1>3, <1>5 DEF Front
  <2> QED
    BY <2>1, <2>2, <2>3
<1>8. x \in Entries
  <2> HIDE DEF x
  <2>1. CASE x = f
    BY <2>1 DEF Entries
  <2>2. CASE x # f
    BY <1>4, <2>2 DEF Entries, Dirs
  <2> QED
    BY <2>1, <2>2
<1> QED
  BY <1>4, <1>6, <1>7, <1>8

(* What is above a file is an entry. *)
LEMMA PrefixesAreEntries == ASSUME NEW f \in Files PROVE Prefixes(f) \subseteq Entries
BY DEF Entries, Dirs

(* A file below an entry that is below e is below e. *)
LEMMA PrefixIsTransitive ==
  ASSUME NEW f \in Files, NEW x \in Prefixes(f), NEW e \in Entries, IsPrefix(e, x)
  PROVE  IsPrefix(e, f)
<1>1. f \in Seq(Range(f))
  BY FilesAssumption
<1>2. PICK l \in 0..Len(f) : x = SubSeq(f, 1, l)
  BY DEF Prefixes
<1>3. Len(x) = l /\ x \in Seq(Range(f)) /\ \A i \in 1..l : x[i] = f[i]
  BY <1>1, <1>2
<1>4. PICK S : e \in Seq(S)
  <2>1. CASE e \in Files
    BY <2>1, FilesAssumption
  <2>2. CASE e \in Dirs
    <3>1. CASE e = Root
      BY <3>1 DEF Root
    <3>2. CASE e # Root
      <4>1. PICK g \in Files : e \in Prefixes(g)
        BY <2>2, <3>2 DEF Dirs
      <4>2. g \in Seq(Range(g))
        BY FilesAssumption
      <4>3. PICK k \in 0..Len(g) : e = SubSeq(g, 1, k)
        BY <4>1 DEF Prefixes
      <4>4. e \in Seq(Range(g))
        BY <4>2, <4>3
      <4> QED
        BY <4>4
    <3> QED
      BY <3>1, <3>2
  <2> QED
    BY <2>1, <2>2 DEF Entries
<1>5. Len(e) \in Nat /\ Len(e) <= l /\ SubSeq(e, 1, Len(e)) = SubSeq(x, 1, Len(e))
  BY <1>3, <1>4 DEF IsPrefix
<1>6. SubSeq(x, 1, Len(e)) = SubSeq(f, 1, Len(e))
  <2>1. Len(SubSeq(x, 1, Len(e))) = Len(e) /\ Len(SubSeq(f, 1, Len(e))) = Len(e)
    BY <1>1, <1>3, <1>5
  <2>2. /\ SubSeq(x, 1, Len(e)) \in Seq(Range(f))
        /\ SubSeq(f, 1, Len(e)) \in Seq(Range(f))
    BY <1>1, <1>2, <1>3, <1>5
  <2>3. \A i \in 1..Len(e) : SubSeq(x, 1, Len(e))[i] = SubSeq(f, 1, Len(e))[i]
    BY <1>1, <1>2, <1>3, <1>5
  <2> QED
    BY <2>1, <2>2, <2>3
<1> QED
  BY <1>1, <1>2, <1>5, <1>6 DEF IsPrefix

-----------------------------------------------------------------------------
(* The destination *)

(* Every file has a name. *)
LEMMA NameOfFile == ASSUME NEW f \in Files PROVE RemoteName[f] \in Names
BY DEF Names

(* Storing under one name below one dated path leaves the rest alone. *)
LEMMA StoreUnderName ==
  ASSUME NEW T, NEW before \in [Days -> [Names -> T]], NEW after,
         NEW d \in Days, NEW n \in Names, NEW x \in T,
         after = [before EXCEPT ![d][n] = x]
  PROVE  /\ after \in [Days -> [Names -> T]]
         /\ after[d][n] = x
         /\ \A b \in Days, m \in Names :
              b # d \/ m # n => after[b][m] = before[b][m]
OBVIOUS

-----------------------------------------------------------------------------
(* A visit leaves the files ahead of the walk ahead of it, but for the one *)
(* it visits: no entry that is still there gets lost between the listing   *)
(* of a directory and the visits to what it lists.                         *)
LEMMA VisitKeepsPending ==
  ASSUME NEW u \in Uploads, NEW e, NEW place, NEW f \in Files,
         todo \in [Uploads -> SUBSET Entries],
         Prefixes(f) \subseteq present, HasInfo(e),
         Visit(u, e, place),
         e \in Dirs \cap Prefixes(f) => e \notin denied,
         Pending(u, f)
  PROVE  Pending(u, f)' \/ e = f
<1>1. /\ e \in todo[u]
      /\ todo'[u] = (todo[u] \ {e}) \cup Listing(e)
  BY DEF Visit
<1>2. e \in Entries
  BY <1>1
<1>3. CASE e \notin Prefixes(f)
  BY <1>1, <1>3 DEF Pending
<1>4. CASE e \in Prefixes(f) /\ e \in Files
  BY <1>4, FilesAreLeaves
<1>5. CASE e \in Prefixes(f) /\ e \in Dirs
  <2>1. e # f
    BY <1>5, FilesAssumption
  <2>2. PICK x \in Entries \ {Root} : Front(x) = e /\ x \in Prefixes(f)
    BY <1>5, <2>1, EntryOnTheWay
  <2>3. ~HasError(e) /\ x \in present
    BY <1>5, <2>2 DEF HasError
  <2>4. x \in Listing(e)
    BY <1>5, <2>2, <2>3 DEF Listing
  <2> QED
    BY <1>1, <2>2, <2>4 DEF Pending
<1> QED
  BY <1>2, <1>3, <1>4, <1>5 DEF Entries

(* When the walk begins, every file is ahead of it. *)
LEMMA WalkBeginsPending ==
  ASSUME NEW u \in Uploads, NEW f \in Files,
         todo \in [Uploads -> SUBSET Entries],
         WalkBegins(u)
  PROVE  Pending(u, f)'
<1>1. todo'[u] = {Root}
  BY DEF WalkBegins
<1> QED
  BY <1>1, RootIsAbove DEF Pending

-----------------------------------------------------------------------------
(* What the parts of an upload's steps do to what the clients share *)

(* Upload's steps, as far as they concern the walk. *)
FolderStep(u, places) ==
  \/ \E place \in places \ {"idle", "returned"} :
       \/ Begin(u, place)
       \/ step[u] \notin {"idle", "returned"} /\ Proceed(u, place)
       \/ step[u] \notin {"idle", "returned"} /\ \E e : Visit(u, e, place)
  \/ step[u] \notin {"idle", "returned"} /\ WalkBegins(u)
  \/ step[u] \notin {"idle", "returned"} /\ \E r \in {"ok", "failed"} : Return(u, r)
  \/ step[u] \notin {"idle", "returned"} /\ VisitPanics(u)

(* The source folder itself is an entry the walk can visit. *)
LEMMA RootIsEntry == Root \in Entries
BY DEF Entries, Dirs

(* An upload's step keeps to the types. *)
LEMMA FolderStepTypes ==
  ASSUME NEW places, {"walk", "returned"} \subseteq places,
         FolderTypeOK, step \in [Uploads -> places],
         NEW u \in Uploads, FolderStep(u, places)
  PROVE  FolderTypeOK' /\ step' \in [Uploads -> places]
<1> USE RootIsEntry DEF FolderTypeOK, folderVars, walkVars, Goto
<1>1. ASSUME NEW place \in places,
             Begin(u, place) \/ Proceed(u, place)
      PROVE  FolderTypeOK' /\ step' \in [Uploads -> places]
  BY <1>1 DEF Begin, Proceed
<1>2. ASSUME NEW place \in places, NEW e, Visit(u, e, place)
      PROVE  FolderTypeOK' /\ step' \in [Uploads -> places]
  <2>1. e \in Entries /\ Listing(e) \subseteq Entries
    BY <1>2 DEF Visit, Listing
  <2> QED
    BY <1>2, <2>1 DEF Visit
<1>3. ASSUME WalkBegins(u)
      PROVE  FolderTypeOK' /\ step' \in [Uploads -> places]
  BY <1>3 DEF WalkBegins
<1>4. ASSUME NEW r \in {"ok", "failed"}, Return(u, r)
      PROVE  FolderTypeOK' /\ step' \in [Uploads -> places]
  BY <1>4 DEF Return
<1>5. ASSUME VisitPanics(u)
      PROVE  FolderTypeOK' /\ step' \in [Uploads -> places]
  BY <1>5 DEF VisitPanics
<1> QED
  BY <1>1, <1>2, <1>3, <1>4, <1>5 DEF FolderStep

(* An upload's step keeps the uploads apart. *)
LEMMA FolderStepInv ==
  ASSUME NEW places, {"walk", "returned"} \subseteq places,
         FolderTypeOK, step \in [Uploads -> places], FolderInv,
         NEW u \in Uploads, FolderStep(u, places)
  PROVE  FolderInv'
<1> USE DEF FolderTypeOK, FolderInv, folderVars, walkVars, Goto, Entries, Dirs
<1>1. ASSUME NEW place \in places \ {"idle", "returned"}, Begin(u, place)
      PROVE  FolderInv'
  BY <1>1 DEF Begin
<1>2. ASSUME step[u] \notin {"idle", "returned"},
             NEW place \in places \ {"idle", "returned"},
             Proceed(u, place) \/ WalkBegins(u) \/ \E e : Visit(u, e, place)
      PROVE  FolderInv'
  BY <1>2 DEF Proceed, WalkBegins, Visit
<1>3. ASSUME step[u] \notin {"idle", "returned"},
             NEW r \in {"ok", "failed"}, Return(u, r)
      PROVE  FolderInv'
  BY <1>3 DEF Return
<1>4. ASSUME VisitPanics(u)
      PROVE  FolderInv'
  BY <1>4 DEF VisitPanics
<1> QED
  BY <1>1, <1>2, <1>3, <1>4 DEF FolderStep

(* It touches nothing of the other uploads, and of its own path only when  *)
(* it begins.                                                              *)
LEMMA FolderStepFrame ==
  ASSUME NEW places, "walk" \in places,
         FolderTypeOK, step \in [Uploads -> places],
         NEW u \in Uploads, FolderStep(u, places)
  PROVE  /\ UNCHANGED <<exclusive, present, denied, hidden, day>>
         /\ step'[u] # "idle"
         /\ step[u] # "idle" => path' = path /\ latest' = latest
         /\ step[u] = "idle" => latest' = u
         /\ step[u] # "idle" => step[u] # "returned"
         /\ \A v \in Uploads \ {u} :
              /\ step'[v] = step[v]
              /\ result'[v] = result[v]
              /\ path'[v] = path[v]
              /\ todo'[v] = todo[v]
              /\ file'[v] = file[v]
<1> USE DEF FolderTypeOK, folderVars, walkVars, Goto
<1>1. ASSUME NEW place \in places \ {"idle", "returned"}, Begin(u, place)
      PROVE  /\ UNCHANGED <<exclusive, present, denied, hidden, day, result,
                            todo, file>>
             /\ step[u] = "idle" /\ latest' = u
             /\ step' = [step EXCEPT ![u] = place]
             /\ path' = [path EXCEPT ![u] = day]
  BY <1>1 DEF Begin
<1>2. ASSUME NEW place \in places \ {"idle", "returned"},
             \/ Proceed(u, place) \/ WalkBegins(u)
             \/ \E e : Visit(u, e, place)
             \/ \E r \in {"ok", "failed"} : Return(u, r)
             \/ VisitPanics(u)
      PROVE  /\ UNCHANGED <<exclusive, present, denied, hidden, day, path, latest>>
             /\ \A v \in Uploads \ {u} :
                  /\ step'[v] = step[v]
                  /\ result'[v] = result[v]
                  /\ todo'[v] = todo[v]
                  /\ file'[v] = file[v]
             /\ step'[u] \in {place, "walk", "returned", step[u]}
  BY <1>2 DEF Proceed, WalkBegins, Visit, Return, VisitPanics
<1> QED
  BY <1>1, <1>2 DEF FolderStep

(* So do the cleanup of another job and the passing of a day. *)
LEMMA SurroundingsInv ==
  ASSUME NEW places, FolderTypeOK, step \in [Uploads -> places], FolderInv,
         CleanupRemoves \/ Midnight
  PROVE  FolderTypeOK' /\ step' \in [Uploads -> places] /\ FolderInv'
<1>1. CASE Midnight
  BY <1>1 DEF FolderTypeOK, FolderInv, folderVars, walkVars, Midnight, Days,
              Entries, Dirs
<1>2. CASE CleanupRemoves
  <2>1. PICK e \in present \ {Root} : present' = {x \in present : ~IsPrefix(e, x)}
    BY <1>2 DEF CleanupRemoves
  <2>2. /\ ~exclusive
        /\ UNCHANGED <<exclusive, denied, hidden, day, step, result, path, todo,
                       file, latest, panicked>>
    BY <1>2 DEF CleanupRemoves, walkVars
  <2>3. FolderTypeOK' /\ step' \in [Uploads -> places]
    BY <2>1, <2>2 DEF FolderTypeOK
  <2>4. ASSUME NEW f \in Files \cap present', NEW x \in Prefixes(f)
        PROVE  x \in present'
    <3>1. f \in present /\ ~IsPrefix(e, f)
      BY <2>1, <2>4
    <3>2. x \in present
      BY <2>4, <3>1 DEF FolderInv
    <3>3. e \in Entries
      BY <2>1 DEF FolderTypeOK
    <3>4. ~IsPrefix(e, x)
      BY <2>4, <3>1, <3>3, PrefixIsTransitive
    <3> QED
      BY <2>1, <3>2, <3>4
  <2>5. FolderInv'
    BY <2>2, <2>4 DEF FolderInv
  <2> QED
    BY <2>3, <2>5
<1> QED
  BY <1>1, <1>2

(* Neither touches an upload, and the folder only where jobs overlap. *)
LEMMA SurroundingsFrame ==
  ASSUME CleanupRemoves \/ Midnight
  PROVE  /\ UNCHANGED <<exclusive, denied, hidden, step, result, path, todo,
                         file, latest, panicked>>
         /\ present' \subseteq present
         /\ exclusive => present' = present
BY DEF CleanupRemoves, Midnight, folderVars, walkVars

(* As long as uploads exclude one another, only the upload that takes a    *)
(* step is active after it, or can be the latest.                          *)
LEMMA OthersAreDone ==
  ASSUME NEW places, "walk" \in places,
         FolderTypeOK, step \in [Uploads -> places], FolderInv, exclusive,
         NEW u \in Uploads, FolderStep(u, places), NEW v \in Uploads \ {u}
  PROVE  step'[v] \in {"idle", "returned"} /\ latest' # v
<1>1. step[u] = "idle" => step[v] \in {"idle", "returned"}
  BY DEF FolderStep, Begin
<1>2. step[u] # "idle" => latest = u
  BY FolderStepFrame DEF FolderInv
<1>3. step[v] \notin {"idle", "returned"} => latest = v
  BY DEF FolderInv
<1>4. /\ step'[v] = step[v]
      /\ step[u] # "idle" => latest' = latest
      /\ step[u] = "idle" => latest' = u
  BY FolderStepFrame
<1> QED
  BY <1>1, <1>2, <1>3, <1>4
=============================================================================
