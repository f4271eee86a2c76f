------------------------------- MODULE Azure -------------------------------
(***************************************************************************)
(* azure/azure.go: AzureClient.Upload.  A file becomes a block blob: an    *)
(* empty one is created, the blocks are put, and the list of their names   *)
(* commits them.  The names are the same for every upload.                 *)
(***************************************************************************)
EXTENDS FolderUpload

CONSTANT Sizes   \* the numbers of chunks of a file considered

VARIABLES
  size,         \* the chunks each file is read in
  block,        \* how many blocks each upload has put of its file
  committed,    \* the blocks of each blob: of which upload and which file
  uncommitted   \* the blocks put and not committed yet, by their names

vars == <<uploadVars, size, block, committed, uncommitted>>
blobVars == <<size, block, committed, uncommitted>>

Blocks == UNION {1..n : n \in Sizes}
NoBlock == <<"none", Root>>
NoBlocks == [i \in Blocks |-> NoBlock]
NoBlob == <<NoBlock>>
Blobs == UNION {[1..n -> Uploads \X Files] : n \in Blocks \cup {0}}

TypeOK ==
  /\ FolderTypeOK
  /\ step \in [Uploads -> {"idle", "container", "walk", "open", "chunk", "list",
                           "returned"}]
  /\ size \in [Files -> Sizes]
  /\ block \in [Uploads -> Blocks \cup {0}]
  /\ committed \in [Days -> [Names -> {NoBlob} \cup Blobs]]
  /\ uncommitted \in
       [Days -> [Names -> [Blocks -> (Uploads \X Files) \cup {NoBlock}]]]

Init ==
  /\ FolderInit
  /\ size \in [Files -> Sizes]
  /\ block = [u \in Uploads |-> 0]
  /\ committed = [d \in Days |-> [n \in Names |-> NoBlob]]
  /\ uncommitted = [d \in Days |-> [n \in Names |-> NoBlocks]]

(* The name of the blob of the file being visited. *)
Blob(u) == RemoteName[file[u]]

-----------------------------------------------------------------------------
(* Mistakes the properties would catch: variants of the definitions below  *)
(* that no specification uses.                                             *)

(* A block that could not be put is left out. *)
PutErrorIgnored(u) ==
  /\ step[u] = "chunk"
  /\ block[u] < size[file[u]]
  /\ \/ /\ block' = [block EXCEPT ![u] = @ + 1]
        /\ uncommitted' =
             [uncommitted EXCEPT ![path[u]][Blob(u)][block[u] + 1] = <<u, file[u]>>]
        /\ Proceed(u, "chunk")
     \/ Proceed(u, "list") /\ UNCHANGED <<block, uncommitted>>
  /\ UNCHANGED <<size, committed>>

-----------------------------------------------------------------------------
Upload(u) == Begin(u, "container") /\ UNCHANGED blobVars

(* NewClient and CreateIfNotExists; a container that exists is no error. *)
CreateContainer(u) ==
  /\ step[u] = "container"
  /\ WalkBegins(u) \/ Fail(u)
  /\ UNCHANGED blobVars

VisitEntry(u) ==
  /\ step[u] = "walk"
  /\ VisitDir(u) \/ VisitFile(u, "open") \/ VisitPanics(u)
  /\ UNCHANGED blobVars

(* os.Open, then CreateBlockBlob, which replaces the blob by an empty one  *)
(* and drops the uncommitted blocks, another upload's too.                 *)
OpenAndCreateBlob(u) ==
  /\ step[u] = "open"
  /\ \/ ~Readable(u) /\ Fail(u) /\ UNCHANGED <<block, committed, uncommitted>>
     \/ /\ Readable(u)
        /\ \E reply \in Replies :
             /\ IF reply = "answered" THEN Proceed(u, "chunk") ELSE Fail(u)
             /\ IF reply = "refused" THEN UNCHANGED <<committed, uncommitted>>
                ELSE /\ committed' = [committed EXCEPT ![path[u]][Blob(u)] = <<>>]
                     /\ uncommitted' =
                          [uncommitted EXCEPT ![path[u]][Blob(u)] = NoBlocks]
        /\ block' = [block EXCEPT ![u] = 0]
  /\ UNCHANGED size

(* One turn of the loop: a chunk is read and put under the next name. *)
PutBlock(u) ==
  /\ step[u] = "chunk"
  /\ block[u] < size[file[u]]
  /\ \E reply \in Replies :
       /\ IF reply = "answered" THEN Proceed(u, "chunk") ELSE Fail(u)
       /\ uncommitted' = IF reply = "refused" THEN uncommitted
            ELSE [uncommitted EXCEPT ![path[u]][Blob(u)][block[u] + 1] =
                    <<u, file[u]>>]
  /\ block' = [block EXCEPT ![u] = @ + 1]
  /\ UNCHANGED <<size, committed>>

ReadFails(u) == step[u] = "chunk" /\ Fail(u) /\ UNCHANGED blobVars

EndOfFile(u) ==
  /\ step[u] = "chunk"
  /\ block[u] = size[file[u]]
  /\ Proceed(u, "list")
  /\ UNCHANGED blobVars

(* PutBlockList commits the blocks put under the names this upload used;   *)
(* it is refused if one of them is not there.                              *)
PutBlockList(u) ==
  /\ step[u] = "list"
  /\ \/ /\ \A i \in 1..block[u] : uncommitted[path[u]][Blob(u)][i] # NoBlock
        /\ committed' = [committed EXCEPT ![path[u]][Blob(u)] =
                           [i \in 1..block[u] |-> uncommitted[path[u]][Blob(u)][i]]]
        /\ uncommitted' = [uncommitted EXCEPT ![path[u]][Blob(u)] = NoBlocks]
        /\ Proceed(u, "walk") \/ Fail(u)
     \/ Fail(u) /\ UNCHANGED <<committed, uncommitted>>
  /\ UNCHANGED <<size, block>>

UploadDirEnds(u) == WalkEnds(u) /\ UNCHANGED blobVars

UploadStep(u) ==
  \/ CreateContainer(u)
  \/ VisitEntry(u)
  \/ OpenAndCreateBlob(u)
  \/ PutBlock(u)
  \/ ReadFails(u)
  \/ EndOfFile(u)
  \/ PutBlockList(u)
  \/ UploadDirEnds(u)

Next ==
  /\ ~panicked
  /\ \/ \E u \in Uploads : Upload(u) \/ UploadStep(u)
     \/ (CleanupRemoves \/ Midnight) /\ UNCHANGED blobVars

-----------------------------------------------------------------------------
(* The inductive invariant.  TLC checks it in Destination. *)

(* An upload has put as many blocks as the chunks it has read. *)
ChunkInv ==
  \A u \in Uploads :
    /\ step[u] \in {"open", "chunk", "list"} => file[u] \in Files
    /\ step[u] = "chunk" => block[u] <= size[file[u]]
    /\ step[u] = "list" => block[u] = size[file[u]]

(* A block is of a file with the name of its blob, and below the dated     *)
(* path of the upload that put it.                                         *)
BlockFits(d, n, b) ==
  b[1] \in Uploads =>
    /\ step[b[1]] # "idle"
    /\ path[b[1]] = d
    /\ RemoteName[b[2]] = n

(* Blocks are in their places, and a blob is missing or was committed      *)
(* whole.  As long as uploads exclude one another, the blocks an upload    *)
(* is about to commit, and those of a blob, are of one upload.             *)
BlocksInv ==
  /\ \A d \in Days, n \in Names :
       /\ \A i \in Blocks : BlockFits(d, n, uncommitted[d][n][i])
       /\ \A i \in DOMAIN committed[d][n] : BlockFits(d, n, committed[d][n][i])
       /\ committed[d][n] # NoBlob /\ DistinctNames =>
            \A i \in DOMAIN committed[d][n] :
              DOMAIN committed[d][n] = 1..size[committed[d][n][i][2]]
       /\ exclusive =>
            \A i, k \in DOMAIN committed[d][n] :
              committed[d][n][i] = committed[d][n][k]
  /\ exclusive =>
       \A u \in Uploads : step[u] \in {"chunk", "list"} =>
         \A i \in 1..block[u] : uncommitted[path[u]][Blob(u)][i] = <<u, file[u]>>

Stored(u, f) ==
  committed[path[u]][RemoteName[f]] = [i \in 1..size[f] |-> <<u, f>>]

(* A file that no directory hides is stored, being stored, or ahead of the *)
(* walk.                                                                   *)
CoverInv ==
  \A u \in Uploads, f \in Visible : DistinctNames /\ exclusive =>
    /\ step[u] \in {"walk", "open", "chunk", "list"} =>
         Stored(u, f) \/ Pending(u, f) \/ (step[u] # "walk" /\ file[u] = f)
    /\ TrustedSuccess(u) => Stored(u, f)

AzureInv ==
  /\ FolderInv
  /\ exclusive /\ panicked => present = {} \/ hidden # {}
  /\ ChunkInv
  /\ BlocksInv
  /\ CoverInv
=============================================================================
