---------------------------- MODULE AzureProofs ----------------------------
(***************************************************************************)
(* AzureInv is an inductive invariant of the Azure client, for any files,  *)
(* of any sizes, and any number of uploads.  DestinationProofs draws the   *)
(* conclusions.                                                            *)
(***************************************************************************)
EXTENDS Azure, FolderUploadProofs

Places == {"idle", "container", "walk", "open", "chunk", "list", "returned"}

BlockSet == (Uploads \X Files) \cup {NoBlock}

(* The inductive invariant, with what Destination assumes of Sizes. *)
IInv == Sizes \subseteq Nat /\ TypeOK /\ AzureInv

(* A step of upload u. *)
Step(u) == Upload(u) \/ UploadStep(u)

(* The numbers of blocks. *)
LEMMA BlockNumbers ==
  ASSUME Sizes \subseteq Nat
  PROVE  /\ Blocks \subseteq Nat
         /\ \A s \in Sizes : s \in Blocks \cup {0} /\ 1..s \subseteq Blocks
         /\ \A b \in Blocks \cup {0} : b \in Nat /\ 1..b \subseteq Blocks
BY DEF Blocks

(* A blob without blocks, and a set of blocks without any. *)
LEMMA EmptyBlobs ==
  /\ <<>> \in Blobs
  /\ NoBlocks \in [Blocks -> BlockSet]
<1>1. <<>> \in [1..0 -> Uploads \X Files]
  OBVIOUS
<1>2. NoBlocks \in [Blocks -> BlockSet]
  BY DEF NoBlocks, BlockSet
<1> QED
  BY <1>1, <1>2 DEF Blobs

(* No upload has begun and nothing is stored (azure.go:36-50). *)
LEMMA InitInv == Sizes \subseteq Nat /\ Init => IInv
<1> SUFFICES ASSUME Sizes \subseteq Nat, Init PROVE IInv
  OBVIOUS
<1>1. TypeOK
  <2>1. FolderTypeOK
    BY RootIsEntry DEF Init, FolderInit, FolderTypeOK, Days
  <2>2. uncommitted \in [Days -> [Names -> [Blocks -> BlockSet]]]
    BY EmptyBlobs DEF Init
  <2> QED
    BY <2>1, <2>2 DEF Init, FolderInit, TypeOK, BlockSet
<1>2. FolderInv
  BY PrefixesAreEntries DEF Init, FolderInit, FolderInv
<1>3. ChunkInv /\ CoverInv
  BY DEF Init, FolderInit, ChunkInv, CoverInv, TrustedSuccess
<1>4. BlocksInv
  <2>1. ASSUME NEW d \in Days, NEW n \in Names
        PROVE  /\ \A i \in Blocks : BlockFits(d, n, uncommitted[d][n][i])
               /\ committed[d][n] = NoBlob
    BY UploadsAssumption DEF Init, NoBlocks, NoBlock, BlockFits
  <2>2. DOMAIN NoBlob = {1} /\ NoBlob[1] = <<"none", Root>>
    BY DEF NoBlob, NoBlock
  <2>3. \A u \in Uploads : step[u] \notin {"chunk", "list"}
    BY DEF Init, FolderInit
  <2> QED
    BY <2>1, <2>2, <2>3, UploadsAssumption DEF BlocksInv, BlockFits
<1> QED
  BY <1>1, <1>2, <1>3, <1>4 DEF Init, FolderInit, AzureInv, IInv

-----------------------------------------------------------------------------
(* A step of the client is one of the steps FolderUploadProofs is about. *)
LEMMA StepOfFolder ==
  ASSUME NEW u \in Uploads, Step(u)
  PROVE  FolderStep(u, Places)
<1> USE DEF Places, FolderStep
<1>1. CASE Upload(u) \/ CreateContainer(u)
  BY <1>1 DEF Upload, CreateContainer, Fail
<1>2. CASE VisitEntry(u)
  BY <1>2 DEF VisitEntry, VisitDir, VisitFile
<1>3. CASE OpenAndCreateBlob(u) \/ PutBlock(u)
  BY <1>3 DEF OpenAndCreateBlob, PutBlock, Fail
<1>4. CASE ReadFails(u) \/ EndOfFile(u) \/ PutBlockList(u) \/ UploadDirEnds(u)
  BY <1>4 DEF ReadFails, EndOfFile, PutBlockList, UploadDirEnds, WalkEnds, Fail
<1> QED
  BY <1>1, <1>2, <1>3, <1>4 DEF Step, UploadStep

(* It keeps the uploads apart, begins or goes on, and leaves the other     *)
(* uploads as they are.                                                    *)
LEMMA Frame ==
  ASSUME IInv, NEW u \in Uploads, Step(u)
  PROVE  /\ FolderTypeOK' /\ step' \in [Uploads -> Places] /\ FolderInv'
         /\ UNCHANGED <<exclusive, present, denied, hidden, size>>
         /\ step'[u] # "idle"
         /\ step[u] # "idle" => path' = path
         /\ \A v \in Uploads \ {u} :
              /\ step'[v] = step[v]
              /\ path'[v] = path[v]
              /\ file'[v] = file[v]
              /\ exclusive => step'[v] \in {"idle", "returned"} /\ latest' # v
<1>1. /\ "walk" \in Places /\ "returned" \in Places
      /\ FolderTypeOK /\ step \in [Uploads -> Places] /\ FolderInv
  BY DEF IInv, TypeOK, AzureInv, Places
<1>2. FolderStep(u, Places)
  BY StepOfFolder
<1>3. FolderTypeOK' /\ step' \in [Uploads -> Places] /\ FolderInv'
  BY <1>1, <1>2, FolderStepTypes, FolderStepInv
<1>4. /\ UNCHANGED <<exclusive, present, denied, hidden>>
      /\ step'[u] # "idle"
      /\ step[u] # "idle" => path' = path
      /\ \A v \in Uploads \ {u} :
           step'[v] = step[v] /\ path'[v] = path[v] /\ file'[v] = file[v]
  BY <1>1, <1>2, FolderStepFrame
<1>5. \A v \in Uploads \ {u} :
        exclusive => step'[v] \in {"idle", "returned"} /\ latest' # v
  BY <1>1, <1>2, OthersAreDone
<1>6. size' = size
  BY DEF Step, UploadStep, Upload, CreateContainer, VisitEntry, OpenAndCreateBlob,
         PutBlock, ReadFails, EndOfFile, PutBlockList, UploadDirEnds, blobVars
<1> QED
  BY <1>3, <1>4, <1>5, <1>6

-----------------------------------------------------------------------------
(* The requests *)

(* The steps that send a request about a blob. *)
Request(u) == OpenAndCreateBlob(u) \/ PutBlock(u) \/ PutBlockList(u)

(* The others leave the blobs alone. *)
LEMMA OnlyRequests ==
  ASSUME NEW u \in Uploads, Step(u), ~Request(u)
  PROVE  UNCHANGED <<block, committed, uncommitted>>
BY DEF Step, Request, UploadStep, Upload, CreateContainer, VisitEntry, ReadFails,
       EndOfFile, UploadDirEnds, blobVars

(* Where a request goes. *)
LEMMA Addressee ==
  ASSUME IInv, NEW u \in Uploads, Request(u)
  PROVE  /\ step[u] \in {"open", "chunk", "list"}
         /\ path[u] \in Days /\ file[u] \in Files /\ Blob(u) \in Names
         /\ size[file[u]] \in Sizes /\ block[u] \in Blocks \cup {0}
<1>1. step[u] \in {"open", "chunk", "list"}
  BY DEF Request, OpenAndCreateBlob, PutBlock, PutBlockList
<1> QED
  BY <1>1, NameOfFile DEF IInv, TypeOK, FolderTypeOK, AzureInv, ChunkInv, Blob

(* CreateBlockBlob empties the blob and its blocks, or does nothing. *)
LEMMA OpenEffect ==
  ASSUME IInv, NEW u \in Uploads, OpenAndCreateBlob(u)
  PROVE  /\ committed' \in [Days -> [Names -> {NoBlob} \cup Blobs]]
         /\ uncommitted' \in [Days -> [Names -> [Blocks -> BlockSet]]]
         /\ block' \in [Uploads -> Blocks \cup {0}]
         /\ \A v \in Uploads \ {u} : block'[v] = block[v]
         /\ \A d \in Days, n \in Names : d # path[u] \/ n # Blob(u) =>
              /\ committed'[d][n] = committed[d][n]
              /\ uncommitted'[d][n] = uncommitted[d][n]
         /\ \/ UNCHANGED <<committed, uncommitted>> /\ step'[u] = "returned"
            \/ /\ committed'[path[u]][Blob(u)] = <<>>
               /\ uncommitted'[path[u]][Blob(u)] = NoBlocks
               /\ block'[u] = 0
<1>1. path[u] \in Days /\ Blob(u) \in Names
  BY Addressee DEF Request
<1>2. /\ committed \in [Days -> [Names -> {NoBlob} \cup Blobs]]
      /\ uncommitted \in [Days -> [Names -> [Blocks -> BlockSet]]]
      /\ block \in [Uploads -> Blocks \cup {0}]
      /\ step \in [Uploads -> Places]
  BY DEF IInv, TypeOK, BlockSet, Places
<1>3. /\ block' \in [Uploads -> Blocks \cup {0}]
      /\ \A v \in Uploads \ {u} : block'[v] = block[v]
  BY <1>2 DEF OpenAndCreateBlob
<1>4. CASE UNCHANGED <<committed, uncommitted>> /\ step'[u] = "returned"
  BY <1>2, <1>3, <1>4
<1>5. CASE /\ committed' = [committed EXCEPT ![path[u]][Blob(u)] = <<>>]
           /\ uncommitted' = [uncommitted EXCEPT ![path[u]][Blob(u)] = NoBlocks]
           /\ block' = [block EXCEPT ![u] = 0]
  <2> DEFINE d == path[u]
             n == Blob(u)
  <2>1. /\ d \in Days /\ n \in Names
        /\ committed' = [committed EXCEPT ![d][n] = <<>>]
        /\ uncommitted' = [uncommitted EXCEPT ![d][n] = NoBlocks]
    BY <1>1, <1>5
  <2>2. <<>> \in {NoBlob} \cup Blobs /\ NoBlocks \in [Blocks -> BlockSet]
    BY EmptyBlobs
  <2> HIDE DEF d, n
  <2>3. /\ committed' \in [Days -> [Names -> {NoBlob} \cup Blobs]]
        /\ committed'[d][n] = <<>>
        /\ \A b \in Days, m \in Names :
             b # d \/ m # n => committed'[b][m] = committed[b][m]
    BY <1>2, <2>1, <2>2, StoreUnderName
  <2>4. /\ uncommitted' \in [Days -> [Names -> [Blocks -> BlockSet]]]
        /\ uncommitted'[d][n] = NoBlocks
        /\ \A b \in Days, m \in Names :
             b # d \/ m # n => uncommitted'[b][m] = uncommitted[b][m]
    BY <1>2, <2>1, <2>2, StoreUnderName
  <2>5. block'[u] = 0
    BY <1>2, <1>5
  <2> QED
    BY <1>3, <2>3, <2>4, <2>5 DEF d, n
<1> QED
  BY <1>2, <1>4, <1>5 DEF OpenAndCreateBlob, Fail, Return, Goto

(* PutBlock adds the next block to those of the blob, or does nothing. *)
LEMMA PutEffect ==
  ASSUME IInv, NEW u \in Uploads, PutBlock(u)
  PROVE  /\ committed' = committed
         /\ uncommitted' \in [Days -> [Names -> [Blocks -> BlockSet]]]
         /\ block' = [block EXCEPT ![u] = block[u] + 1]
         /\ block[u] \in Nat /\ size[file[u]] \in Nat
         /\ block[u] + 1 \in Blocks /\ block[u] + 1 <= size[file[u]]
         /\ \A d \in Days, n \in Names : d # path[u] \/ n # Blob(u) =>
              uncommitted'[d][n] = uncommitted[d][n]
         /\ \/ uncommitted' = uncommitted /\ step'[u] = "returned"
            \/ uncommitted'[path[u]][Blob(u)] =
                 [uncommitted[path[u]][Blob(u)] EXCEPT ![block[u] + 1] = <<u, file[u]>>]
<1>1. /\ path[u] \in Days /\ file[u] \in Files /\ Blob(u) \in Names
      /\ size[file[u]] \in Sizes /\ block[u] \in Blocks \cup {0}
  BY Addressee DEF Request
<1>2. /\ uncommitted \in [Days -> [Names -> [Blocks -> BlockSet]]]
      /\ block \in [Uploads -> Blocks \cup {0}]
      /\ step \in [Uploads -> Places] /\ Sizes \subseteq Nat
  BY DEF IInv, TypeOK, BlockSet, Places
<1>3. /\ block[u] \in Nat /\ size[file[u]] \in Nat
      /\ block[u] + 1 \in Blocks /\ block[u] + 1 <= size[file[u]]
  <2>1. block[u] \in Nat /\ size[file[u]] \in Nat /\ block[u] < size[file[u]]
    BY <1>1, <1>2, BlockNumbers DEF PutBlock
  <2>2. block[u] + 1 \in 1..size[file[u]]
    BY <2>1
  <2> QED
    BY <1>1, <1>2, <2>1, <2>2, BlockNumbers
<1>4. committed' = committed /\ block' = [block EXCEPT ![u] = block[u] + 1]
  BY DEF PutBlock
<1>5. CASE uncommitted' = uncommitted /\ step'[u] = "returned"
  BY <1>2, <1>3, <1>4, <1>5
<1>6. CASE uncommitted' =
             [uncommitted EXCEPT ![path[u]][Blob(u)][block[u] + 1] = <<u, file[u]>>]
  <2> DEFINE d == path[u]
             n == Blob(u)
             x == [uncommitted[d][n] EXCEPT ![block[u] + 1] = <<u, file[u]>>]
  <2>1. d \in Days /\ n \in Names /\ uncommitted' = [uncommitted EXCEPT ![d][n] = x]
    BY <1>1, <1>6
  <2>2. x \in [Blocks -> BlockSet]
    <3>1. uncommitted[d][n] \in [Blocks -> BlockSet] /\ <<u, file[u]>> \in BlockSet
      BY <1>1, <1>2 DEF BlockSet
    <3> QED
      BY <1>3, <3>1
  <2> HIDE DEF d, n, x
  <2>3. /\ uncommitted' \in [Days -> [Names -> [Blocks -> BlockSet]]]
        /\ uncommitted'[d][n] = x
        /\ \A b \in Days, m \in Names :
             b # d \/ m # n => uncommitted'[b][m] = uncommitted[b][m]
    BY <1>2, <2>1, <2>2, StoreUnderName
  <2> QED
    BY <1>3, <1>4, <2>3 DEF d, n, x
<1> QED
  BY <1>2, <1>5, <1>6 DEF PutBlock, Fail, Return, Goto

(* PutBlockList turns the blocks into the blob, or does nothing. *)
LEMMA ListEffect ==
  ASSUME IInv, NEW u \in Uploads, PutBlockList(u)
  PROVE  /\ committed' \in [Days -> [Names -> {NoBlob} \cup Blobs]]
         /\ uncommitted' \in [Days -> [Names -> [Blocks -> BlockSet]]]
         /\ block' = block
         /\ \A d \in Days, n \in Names : d # path[u] \/ n # Blob(u) =>
              /\ committed'[d][n] = committed[d][n]
              /\ uncommitted'[d][n] = uncommitted[d][n]
         /\ \/ UNCHANGED <<committed, uncommitted>> /\ step'[u] = "returned"
            \/ /\ committed'[path[u]][Blob(u)] =
                    [i \in 1..block[u] |-> uncommitted[path[u]][Blob(u)][i]]
               /\ \A i \in 1..block[u] :
                    uncommitted[path[u]][Blob(u)][i] \in Uploads \X Files
               /\ uncommitted'[path[u]][Blob(u)] = NoBlocks
<1>1. /\ path[u] \in Days /\ Blob(u) \in Names /\ block[u] \in Blocks \cup {0}
  BY Addressee DEF Request
<1>2. /\ committed \in [Days -> [Names -> {NoBlob} \cup Blobs]]
      /\ uncommitted \in [Days -> [Names -> [Blocks -> BlockSet]]]
      /\ step \in [Uploads -> Places] /\ Sizes \subseteq Nat
  BY DEF IInv, TypeOK, BlockSet, Places
<1>3. block' = block
  BY DEF PutBlockList
<1>4. CASE UNCHANGED <<committed, uncommitted>> /\ step'[u] = "returned"
  BY <1>2, <1>3, <1>4
<1> DEFINE d == path[u]
           n == Blob(u)
           x == [i \in 1..block[u] |-> uncommitted[d][n][i]]
<1>5. CASE /\ \A i \in 1..block[u] : uncommitted[d][n][i] # NoBlock
           /\ committed' = [committed EXCEPT ![d][n] = x]
           /\ uncommitted' = [uncommitted EXCEPT ![d][n] = NoBlocks]
  <2>1. d \in Days /\ n \in Names
    BY <1>1
  <2>2. \A i \in 1..block[u] : uncommitted[d][n][i] \in Uploads \X Files
    <3>1. uncommitted[d][n] \in [Blocks -> BlockSet] /\ 1..block[u] \subseteq Blocks
      BY <1>1, <1>2, BlockNumbers
    <3> QED
      BY <1>5, <3>1 DEF BlockSet
  <2>3. x \in {NoBlob} \cup Blobs /\ NoBlocks \in [Blocks -> BlockSet]
    BY <1>1, <2>2, EmptyBlobs DEF Blobs
  <2> HIDE DEF d, n, x
  <2>4. /\ committed' \in [Days -> [Names -> {NoBlob} \cup Blobs]]
        /\ committed'[d][n] = x
        /\ \A b \in Days, m \in Names :
             b # d \/ m # n => committed'[b][m] = committed[b][m]
    BY <1>2, <1>5, <2>1, <2>3, StoreUnderName
  <2>5. /\ uncommitted' \in [Days -> [Names -> [Blocks -> BlockSet]]]
        /\ uncommitted'[d][n] = NoBlocks
        /\ \A b \in Days, m \in Names :
             b # d \/ m # n => uncommitted'[b][m] = uncommitted[b][m]
    BY <1>2, <1>5, <2>1, <2>3, StoreUnderName
  <2> QED
    BY <1>3, <2>2, <2>4, <2>5 DEF d, n, x
<1> QED
  BY <1>2, <1>4, <1>5 DEF PutBlockList, Fail, Return, Goto

-----------------------------------------------------------------------------
(* The parts of the invariant *)

(* Every step keeps to the types. *)
LEMMA StepTypes ==
  ASSUME IInv, NEW u \in Uploads, Step(u)
  PROVE  TypeOK'
<1>1. FolderTypeOK' /\ step' \in [Uploads -> Places] /\ size' \in [Files -> Sizes]
  BY Frame DEF IInv, TypeOK
<1>2. CASE OpenAndCreateBlob(u)
  BY <1>1, <1>2, OpenEffect DEF TypeOK, Places, BlockSet
<1>3. CASE PutBlock(u)
  BY <1>1, <1>3, PutEffect DEF IInv, TypeOK, Places, BlockSet
<1>4. CASE PutBlockList(u)
  BY <1>1, <1>4, ListEffect DEF IInv, TypeOK, Places, BlockSet
<1>5. CASE ~Request(u)
  BY <1>1, <1>5, OnlyRequests DEF IInv, TypeOK, Places
<1> QED
  BY <1>2, <1>3, <1>4, <1>5 DEF Request

(* An upload counts the blocks of the file it has open. *)
LEMMA StepChunks ==
  ASSUME IInv, NEW u \in Uploads, Step(u)
  PROVE  ChunkInv'
<1> USE DEF Goto, walkVars
<1> SUFFICES ASSUME NEW v \in Uploads
             PROVE  /\ step'[v] \in {"open", "chunk", "list"} => file'[v] \in Files
                    /\ step'[v] = "chunk" => block'[v] <= size'[file'[v]]
                    /\ step'[v] = "list" => block'[v] = size'[file'[v]]
  BY DEF ChunkInv
<1>1. size' = size
  BY Frame
<1>2. CASE v # u
  <2>1. block'[v] = block[v]
    BY <1>2, OpenEffect, PutEffect, ListEffect, OnlyRequests
       DEF Request, IInv, TypeOK
  <2> QED
    BY <1>1, <1>2, <2>1, Frame DEF IInv, AzureInv, ChunkInv
<1>3. CASE v = u
  <2>1. /\ FolderTypeOK /\ step \in [Uploads -> Places]
        /\ step[u] \in {"open", "chunk", "list"} => file[u] \in Files
        /\ size \in [Files -> Sizes] /\ Sizes \subseteq Nat
        /\ block \in [Uploads -> Blocks \cup {0}]
    BY DEF IInv, TypeOK, Places, AzureInv, ChunkInv
  <2>2. CASE Upload(u) \/ CreateContainer(u) \/ ReadFails(u) \/ UploadDirEnds(u)
    BY <1>3, <2>1, <2>2 DEF Upload, CreateContainer, ReadFails, UploadDirEnds,
         WalkEnds, Begin, Fail, Return, WalkBegins, FolderTypeOK
  <2>3. CASE VisitEntry(u)
    BY <1>3, <2>1, <2>3 DEF VisitEntry, VisitDir, VisitFile, Visit, VisitPanics,
         FolderTypeOK
  <2>4. CASE OpenAndCreateBlob(u)
    <3>1. /\ step'[u] \in {"chunk", "returned"} /\ step[u] = "open"
          /\ step'[u] = "chunk" => block'[u] = 0 /\ file'[u] = file[u]
      BY <2>1, <2>4 DEF OpenAndCreateBlob, Proceed, Fail, Return, FolderTypeOK
    <3>2. size[file[u]] \in Nat
      BY <2>1, <3>1
    <3> QED
      BY <1>1, <1>3, <2>1, <3>1, <3>2
  <2>5. CASE PutBlock(u)
    <3>1. /\ step'[u] \in {"chunk", "returned"} /\ step[u] = "chunk"
          /\ step'[u] = "chunk" => file'[u] = file[u]
      BY <2>1, <2>5 DEF PutBlock, Proceed, Fail, Return, FolderTypeOK
    <3>2. block'[u] = block[u] + 1 /\ block[u] + 1 <= size[file[u]]
      BY <2>1, <2>5, PutEffect
    <3> QED
      BY <1>1, <1>3, <2>1, <3>1, <3>2
  <2>6. CASE EndOfFile(u) \/ PutBlockList(u)
    BY <1>1, <1>3, <2>1, <2>6 DEF EndOfFile, PutBlockList, Proceed, Fail, Return,
         FolderTypeOK, blobVars
  <2> QED
    BY <2>2, <2>3, <2>4, <2>5, <2>6 DEF Step, UploadStep
<1> QED
  BY <1>2, <1>3

(* A walk that meets no other job's cleanup and no failing lstat misses no *)
(* entry of a folder that is there (azure.go:112-115).                     *)
LEMMA StepPanics ==
  ASSUME IInv, NEW u \in Uploads, Step(u), ~panicked
  PROVE  exclusive' /\ panicked' => present' = {} \/ hidden' # {}
<1>1. CASE ~VisitPanics(u)
  BY <1>1 DEF Step, UploadStep, Upload, CreateContainer, VisitEntry, VisitDir,
              VisitFile, Visit, OpenAndCreateBlob, PutBlock, ReadFails, EndOfFile,
              PutBlockList, UploadDirEnds, WalkEnds, Begin, Proceed, Fail, Return,
              WalkBegins
<1>2. CASE VisitPanics(u)
  <2>1. todo[u] \subseteq Entries /\ (exclusive => present \in {{}, Entries})
    BY DEF IInv, TypeOK, FolderTypeOK, AzureInv, FolderInv
  <2> QED
    BY <1>2, <2>1 DEF VisitPanics, HasInfo, folderVars
<1> QED
  BY <1>1, <1>2

(* A block stays in its place: an upload that has begun keeps its path. *)
LEMMA FitsForGood ==
  ASSUME IInv, NEW u \in Uploads, Step(u), NEW d, NEW n, NEW b, BlockFits(d, n, b)
  PROVE  b[1] \in Uploads =>
           step'[b[1]] # "idle" /\ path'[b[1]] = d /\ RemoteName[b[2]] = n
<1>1. \A v \in Uploads : step[v] # "idle" => step'[v] # "idle" /\ path'[v] = path[v]
  BY Frame
<1> QED
  BY <1>1 DEF BlockFits

(* What the invariant says of one blob. *)
BlobInv(d, n) ==
  /\ \A i \in Blocks : BlockFits(d, n, uncommitted[d][n][i])
  /\ \A i \in DOMAIN committed[d][n] : BlockFits(d, n, committed[d][n][i])
  /\ committed[d][n] # NoBlob /\ DistinctNames =>
       \A i \in DOMAIN committed[d][n] :
         DOMAIN committed[d][n] = 1..size[committed[d][n][i][2]]
  /\ exclusive =>
       \A i, k \in DOMAIN committed[d][n] :
         committed[d][n][i] = committed[d][n][k]

(* The blocks an upload is about to commit are its own. *)
OwnBlocks(u) ==
  exclusive /\ step[u] \in {"chunk", "list"} =>
    \A i \in 1..block[u] : uncommitted[path[u]][Blob(u)][i] = <<u, file[u]>>

LEMMA BlocksInvParts ==
  BlocksInv <=> /\ \A d \in Days, n \in Names : BlobInv(d, n)
                /\ \A u \in Uploads : OwnBlocks(u)
BY DEF BlocksInv, BlobInv, OwnBlocks

(* A step leaves every blob whole (azure.go:52-92). *)
LEMMA StepBlobs ==
  ASSUME IInv, NEW u \in Uploads, Step(u), NEW d \in Days, NEW n \in Names
  PROVE  BlobInv(d, n)'
<1> DEFINE Fits(b) == b[1] \in Uploads =>
             step'[b[1]] # "idle" /\ path'[b[1]] = d /\ RemoteName[b[2]] = n
           WholeBlob(c) ==
             /\ \A i \in DOMAIN c : Fits(c[i])
             /\ c # NoBlob /\ DistinctNames =>
                  \A i \in DOMAIN c : DOMAIN c = 1..size[c[i][2]]
             /\ exclusive => \A i, k \in DOMAIN c : c[i] = c[k]
<1>1. size' = size /\ exclusive' = exclusive
  BY Frame
<1>2. ASSUME NEW b, BlockFits(d, n, b) PROVE Fits(b)
  BY <1>2, FitsForGood
<1>3. BlobInv(d, n) /\ OwnBlocks(u)
  BY BlocksInvParts DEF IInv, AzureInv
<1>4. WholeBlob(committed[d][n]) /\ \A i \in Blocks : Fits(uncommitted[d][n][i])
  BY <1>2, <1>3 DEF BlobInv
<1>5. SUFFICES /\ WholeBlob(committed'[d][n])
               /\ \A i \in Blocks : Fits(uncommitted'[d][n][i])
  BY <1>1 DEF BlobInv, BlockFits, DistinctNames, RemoteName, Replace, NoBlob,
              NoBlock, Root, Blocks
<1>6. CASE ~Request(u)
  BY <1>4, <1>6, OnlyRequests
<1>7. CASE d # path[u] \/ n # Blob(u)
  <2>1. /\ committed'[d][n] = committed[d][n]
        /\ uncommitted'[d][n] = uncommitted[d][n]
    <3>1. CASE OpenAndCreateBlob(u)
      BY <1>7, <3>1, OpenEffect
    <3>2. CASE PutBlock(u)
      <4>1. committed' = committed
        BY <3>2, PutEffect
      <4>2. \A b \in Days, m \in Names : b # path[u] \/ m # Blob(u) =>
              uncommitted'[b][m] = uncommitted[b][m]
        BY <3>2, PutEffect
      <4> QED
        BY <1>7, <4>1, <4>2
    <3>3. CASE PutBlockList(u)
      BY <1>7, <3>3, ListEffect
    <3>4. CASE ~Request(u)
      BY <3>4, OnlyRequests
    <3> QED
      BY <3>1, <3>2, <3>3, <3>4 DEF Request
  <2> QED
    BY <1>4, <2>1
<1>8. CASE Request(u) /\ d = path[u] /\ n = Blob(u)
  <2>1. /\ step[u] # "idle" /\ step'[u] # "idle" /\ path'[u] = d
        /\ file[u] \in Files /\ RemoteName[file[u]] = n
        /\ block[u] \in Blocks \cup {0}
    BY <1>8, Addressee, Frame DEF Blob
  <2>2. \A i \in Blocks : Fits(NoBlocks[i])
    BY UploadsAssumption DEF NoBlocks, NoBlock
  <2>3. CASE OpenAndCreateBlob(u)
    <3>1. WholeBlob(<<>>)
      OBVIOUS
    <3> HIDE DEF WholeBlob, Fits
    <3> QED
      BY <1>4, <1>8, <2>2, <2>3, <3>1, OpenEffect
  <2>4. CASE PutBlock(u)
    <3>1. Fits(<<u, file[u]>>)
      BY <2>1
    <3>2. /\ committed' = committed
          /\ block[u] + 1 \in Blocks
          /\ \/ uncommitted' = uncommitted
             \/ uncommitted'[path[u]][Blob(u)] =
                  [uncommitted[path[u]][Blob(u)] EXCEPT
                     ![block[u] + 1] = <<u, file[u]>>]
      BY <2>4, PutEffect
    <3>3. \/ uncommitted'[d][n] = uncommitted[d][n]
          \/ uncommitted'[d][n] =
               [uncommitted[d][n] EXCEPT ![block[u] + 1] = <<u, file[u]>>]
      BY <1>8, <3>2
    <3>4. uncommitted[d][n] \in [Blocks -> BlockSet]
      BY DEF IInv, TypeOK, BlockSet
    <3> HIDE DEF WholeBlob, Fits
    <3> QED
      BY <1>4, <3>1, <3>2, <3>3, <3>4
  <2>5. CASE PutBlockList(u)
    <3> DEFINE c == [i \in 1..block[u] |-> uncommitted[d][n][i]]
    <3>1. CASE UNCHANGED <<committed, uncommitted>>
      BY <1>4, <3>1
    <3>2. CASE /\ committed'[d][n] = c
               /\ \A i \in 1..block[u] : uncommitted[d][n][i] \in Uploads \X Files
               /\ uncommitted'[d][n] = NoBlocks
      <4>1. DOMAIN c = 1..block[u] /\ \A i \in DOMAIN c : c[i] = uncommitted[d][n][i]
        OBVIOUS
      <4>2. 1..block[u] \subseteq Blocks /\ block[u] = size[file[u]]
        BY <2>1, <2>5, BlockNumbers DEF IInv, AzureInv, ChunkInv, PutBlockList
      <4>3. \A i \in DOMAIN c : Fits(c[i])
        <5> HIDE DEF Fits, c
        <5> QED
          BY <1>4, <4>1, <4>2
      <4>4. DistinctNames => \A i \in DOMAIN c : c[i][2] = file[u]
        <5>1. \A i \in DOMAIN c : c[i][1] \in Uploads /\ c[i][2] \in Files
          BY <3>2, <4>1
        <5>2. \A i \in DOMAIN c : RemoteName[c[i][2]] = n
          BY <4>3, <5>1
        <5> HIDE DEF c
        <5> QED
          BY <2>1, <5>1, <5>2 DEF DistinctNames, IsInjective, RemoteName
      <4>5. exclusive => \A i \in DOMAIN c : c[i] = <<u, file[u]>>
        BY <1>3, <1>8, <2>5, <4>1 DEF OwnBlocks, PutBlockList
      <4>6. WholeBlob(c)
        <5> HIDE DEF Fits, c
        <5> QED
          BY <4>1, <4>2, <4>3, <4>4, <4>5
      <4> HIDE DEF WholeBlob, Fits, c
      <4> QED
        BY <2>2, <3>2, <4>6
    <3> HIDE DEF WholeBlob, Fits
    <3> QED
      BY <1>8, <2>5, <3>1, <3>2, ListEffect
  <2> QED
    BY <1>8, <2>3, <2>4, <2>5 DEF Request
<1> QED
  BY <1>6, <1>7, <1>8

(* While an upload puts the blocks of a file, nobody else does             *)
(* (azure.go:64-86).                                                       *)
LEMMA StepOwnBlocks ==
  ASSUME IInv, NEW u \in Uploads, Step(u), NEW v \in Uploads
  PROVE  OwnBlocks(v)'
<1> USE DEF Goto, folderVars, walkVars
<1> SUFFICES ASSUME exclusive', step'[v] \in {"chunk", "list"}, NEW i \in 1..block'[v]
             PROVE  uncommitted'[path'[v]][RemoteName[file'[v]]][i] = <<v, file'[v]>>
  BY DEF OwnBlocks, Blob, RemoteName, Replace
<1>1. exclusive /\ v = u
  BY Frame
<1>2. /\ FolderTypeOK /\ step \in [Uploads -> Places]
      /\ block \in [Uploads -> Blocks \cup {0}]
      /\ OwnBlocks(u)
  BY BlocksInvParts DEF IInv, TypeOK, Places, AzureInv
<1>3. CASE OpenAndCreateBlob(u)
  <2>1. step'[u] # "returned" /\ (step'[u] = "returned" \/ block'[u] = 0)
    BY <1>1, <1>3, OpenEffect
  <2> QED
    BY <1>1, <2>1
<1>4. CASE PutBlock(u)
  <2>1. Proceed(u, "chunk") /\ step[u] = "chunk"
    BY <1>1, <1>2, <1>4 DEF PutBlock, Fail, Return
  <2>2. path' = path /\ file' = file
    BY <2>1 DEF Proceed
  <2> DEFINE old == uncommitted[path[u]][Blob(u)]
             new == uncommitted'[path[u]][Blob(u)]
  <2>3. new = [old EXCEPT ![block[u] + 1] = <<u, file[u]>>]
    BY <1>1, <1>4, PutEffect
  <2>4. old \in [Blocks -> BlockSet] /\ 1..block[u] \subseteq Blocks
    <3>1. path[u] \in Days /\ Blob(u) \in Names
      BY <1>4, Addressee DEF Request
    <3>2. Sizes \subseteq Nat
      BY DEF IInv
    <3> QED
      BY <1>2, <3>1, <3>2, BlockNumbers DEF IInv, TypeOK, BlockSet
  <2>5. /\ block'[u] = block[u] + 1 /\ block[u] \in Nat
        /\ block[u] + 1 \in Blocks
    BY <1>2, <1>4, PutEffect
  <2>6. \A k \in 1..block[u] : old[k] = <<u, file[u]>>
    BY <1>1, <1>2, <2>1 DEF OwnBlocks
  <2>7. i \in 1..block[u] \/ i = block[u] + 1
    BY <1>1, <2>5
  <2> HIDE DEF old, new
  <2>8. new[i] = <<u, file[u]>>
    BY <2>3, <2>4, <2>5, <2>6, <2>7
  <2> QED
    BY <1>1, <2>2, <2>8 DEF new, Blob
<1>5. CASE EndOfFile(u)
  <2>1. /\ step[u] = "chunk"
        /\ UNCHANGED <<path, file, block, uncommitted>>
    BY <1>5 DEF EndOfFile, Proceed, blobVars
  <2> QED
    BY <1>1, <1>2, <2>1 DEF OwnBlocks, Blob
<1>6. CASE ~(OpenAndCreateBlob(u) \/ PutBlock(u) \/ EndOfFile(u))
  <2>1. step'[u] \notin {"chunk", "list"}
    BY <1>2, <1>6
       DEF Step, UploadStep, Upload, CreateContainer, VisitEntry, VisitDir, VisitFile,
           Visit, VisitPanics, ReadFails, PutBlockList, UploadDirEnds, WalkEnds,
           Begin, Proceed, Fail, Return, WalkBegins
  <2> QED
    BY <1>1, <2>1
<1> QED
  BY <1>3, <1>4, <1>5, <1>6

(* A request for one file leaves the blob of another alone. *)
LEMMA OtherBlobStays ==
  ASSUME IInv, NEW u \in Uploads, Step(u), DistinctNames,
         NEW f \in Files, step[u] # "idle", file[u] # f \/ ~Request(u),
         Stored(u, f)
  PROVE  Stored(u, f)'
<1>1. path' = path /\ size' = size
  BY Frame
<1>2. committed'[path[u]][RemoteName[f]] = committed[path[u]][RemoteName[f]]
  <2>1. CASE ~Request(u)
    BY <2>1, OnlyRequests
  <2>2. CASE Request(u)
    <3>1. path[u] \in Days /\ file[u] \in Files /\ RemoteName[f] \in Names
      BY <2>2, Addressee, NameOfFile
    <3>2. RemoteName[f] # Blob(u)
      BY <2>2, <3>1 DEF DistinctNames, IsInjective, RemoteName, Blob
    <3>3. CASE OpenAndCreateBlob(u)
      BY <3>1, <3>2, <3>3, OpenEffect
    <3>4. CASE PutBlock(u)
      <4>1. committed' = committed
        BY <3>4, PutEffect
      <4> QED
        BY <4>1
    <3>5. CASE PutBlockList(u)
      BY <3>1, <3>2, <3>5, ListEffect
    <3> QED
      BY <2>2, <3>3, <3>4, <3>5 DEF Request
  <2> QED
    BY <2>1, <2>2
<1> QED
  BY <1>1, <1>2 DEF Stored, RemoteName, Replace

(* A step of the upload itself leaves every file covered                   *)
(* (azure.go:52-127).                                                      *)
LEMMA OwnStepCovers ==
  ASSUME IInv, NEW u \in Uploads, Step(u),
         DistinctNames, exclusive, NEW f \in Visible
  PROVE  /\ step'[u] \in {"walk", "open", "chunk", "list"} =>
              \/ Stored(u, f)' \/ Pending(u, f)'
              \/ step'[u] # "walk" /\ file'[u] = f
         /\ TrustedSuccess(u)' => Stored(u, f)'
<1> USE DEF Goto, folderVars, walkVars
<1> DEFINE Covered ==
      Stored(u, f) \/ Pending(u, f) \/ (step[u] # "walk" /\ file[u] = f)
<1>1. /\ f \in Files
      /\ FolderTypeOK /\ step \in [Uploads -> Places]
      /\ step[u] \in {"walk", "open", "chunk", "list"} => Covered
      /\ result[u] # "none" => step[u] = "returned"
      /\ present \in {{}, Entries}
      /\ (Prefixes(f) \ {f}) \cap denied = {}
  BY DEF IInv, TypeOK, Places, AzureInv, FolderInv, CoverInv, Visible
<1>2. CASE Upload(u)
  BY <1>1, <1>2 DEF Upload, Begin, Places, FolderTypeOK, TrustedSuccess
<1>3. CASE CreateContainer(u)
  <2>1. CASE WalkBegins(u)
    <3>1. Pending(u, f)'
      BY <1>1, <2>1, WalkBeginsPending DEF FolderTypeOK
    <3>2. step[u] # "returned" /\ result' = result
      BY <1>3, <2>1 DEF CreateContainer, WalkBegins
    <3> QED
      BY <1>1, <3>1, <3>2 DEF TrustedSuccess
  <2>2. CASE ~WalkBegins(u)
    BY <1>1, <1>3, <2>2 DEF CreateContainer, Fail, Return, Places, FolderTypeOK,
                            TrustedSuccess
  <2> QED
    BY <2>1, <2>2
<1>4. CASE VisitEntry(u)
  <2>1. step[u] = "walk" /\ result' = result /\ ~Request(u)
    BY <1>4 DEF VisitEntry, VisitDir, VisitFile, Visit, VisitPanics, Request,
                OpenAndCreateBlob, PutBlock, PutBlockList
  <2>2. Stored(u, f) => Stored(u, f)'
    BY <1>1, <2>1, OtherBlobStays
  <2>3. CASE VisitPanics(u)
    BY <1>1, <2>1, <2>2, <2>3 DEF VisitPanics, Pending, TrustedSuccess
  <2>4. CASE VisitDir(u) \/ VisitFile(u, "open")
    <3>1. PICK e \in todo[u] :
            /\ HasInfo(e)
            /\ \/ e \in Dirs /\ Visit(u, e, "walk")
               \/ e \in Files /\ Visit(u, e, "open")
      BY <2>4, Zenon DEF VisitDir, VisitFile
    <3>2. Prefixes(f) \subseteq present
      BY <1>1, <3>1, PrefixesAreEntries DEF HasInfo
    <3>3. e \in Dirs \cap Prefixes(f) => e \notin denied
      BY <1>1, FilesAssumption
    <3>4. Pending(u, f) => Pending(u, f)' \/ e = f
      BY <1>1, <3>1, <3>2, <3>3, VisitKeepsPending DEF FolderTypeOK
    <3>5. e = f => step'[u] = "open" /\ file'[u] = f
      BY <1>1, <3>1, FilesAssumption DEF Visit, FolderTypeOK
    <3> QED
      BY <1>1, <2>1, <2>2, <3>4, <3>5 DEF TrustedSuccess
  <2> QED
    BY <1>4, <2>3, <2>4 DEF VisitEntry
<1>5. CASE step'[u] = "returned" /\ ~UploadDirEnds(u)
  <2>1. result'[u] # "ok"
    BY <1>1, <1>5
       DEF Step, UploadStep, Upload, CreateContainer, VisitEntry, VisitDir, VisitFile,
           Visit, VisitPanics, OpenAndCreateBlob, PutBlock, ReadFails, EndOfFile,
           PutBlockList, Begin, Proceed, Fail, Return, WalkBegins, FolderTypeOK,
           Places
  <2> QED
    BY <1>5, <2>1 DEF TrustedSuccess
<1>6. CASE /\ OpenAndCreateBlob(u) \/ PutBlock(u) \/ EndOfFile(u)
           /\ step'[u] # "returned"
  <2>1. /\ step[u] \in {"open", "chunk"} /\ step'[u] \in {"chunk", "list"}
        /\ UNCHANGED <<result, todo, file>>
    BY <1>1, <1>6 DEF OpenAndCreateBlob, PutBlock, EndOfFile, Proceed, Fail, Return
  <2>2. file[u] # f /\ Stored(u, f) => Stored(u, f)'
    BY <1>1, <2>1, OtherBlobStays
  <2> QED
    BY <1>1, <2>1, <2>2 DEF Pending, TrustedSuccess
<1>7. CASE PutBlockList(u) /\ step'[u] # "returned"
  <2>1. /\ step[u] = "list" /\ UNCHANGED <<result, todo, file>>
    BY <1>1, <1>7 DEF PutBlockList, Proceed, Fail, Return
  <2>2. CASE file[u] = f
    <3>1. committed'[path[u]][Blob(u)] =
            [i \in 1..block[u] |-> uncommitted[path[u]][Blob(u)][i]]
      BY <1>7, ListEffect
    <3>2. block[u] = size[f] /\ Blob(u) = RemoteName[f]
      BY <2>1, <2>2 DEF IInv, AzureInv, ChunkInv, Blob
    <3>3. \A i \in 1..block[u] : uncommitted[path[u]][Blob(u)][i] = <<u, f>>
      BY <2>1, <2>2, BlocksInvParts DEF IInv, AzureInv, OwnBlocks
    <3>4. committed'[path[u]][RemoteName[f]] = [i \in 1..size[f] |-> <<u, f>>]
      BY <3>1, <3>2, <3>3
    <3>5. path' = path /\ size' = size
      BY <2>1, Frame
    <3>6. Stored(u, f)'
      BY <3>4, <3>5 DEF Stored, RemoteName, Replace
    <3> QED
      BY <3>6
  <2>3. CASE file[u] # f
    <3>1. Stored(u, f) => Stored(u, f)'
      BY <1>1, <2>1, <2>3, OtherBlobStays
    <3> QED
      BY <1>1, <2>1, <2>3, <3>1 DEF Pending, TrustedSuccess
  <2> QED
    BY <2>2, <2>3
<1>8. CASE UploadDirEnds(u)
  <2>1. step[u] = "walk" /\ ~Pending(u, f) /\ step'[u] = "returned"
    BY <1>1, <1>8 DEF UploadDirEnds, WalkEnds, Return, Pending
  <2>2. ~Request(u)
    BY <2>1 DEF Request, OpenAndCreateBlob, PutBlock, PutBlockList
  <2>3. Stored(u, f)'
    BY <1>1, <2>1, <2>2, OtherBlobStays
  <2> QED
    BY <2>1, <2>3
<1>9. CASE ReadFails(u)
  BY <1>1, <1>5, <1>8, <1>9 DEF ReadFails, Fail, Return
<1> QED
  BY <1>2, <1>3, <1>4, <1>5, <1>6, <1>7, <1>8, <1>9 DEF Step, UploadStep

(* Every step of the client and around it preserves the invariant. *)
LEMMA NextInv == IInv /\ Next => IInv'
<1> SUFFICES ASSUME IInv, Next PROVE IInv'
  OBVIOUS
<1>1. ASSUME NEW u \in Uploads, Step(u) PROVE IInv'
  <2>1. TypeOK' /\ FolderInv' /\ ChunkInv'
    BY <1>1, StepTypes, StepChunks, Frame
  <2>2. exclusive' /\ panicked' => present' = {} \/ hidden' # {}
    BY <1>1, StepPanics DEF Next
  <2>3. BlocksInv'
    <3>1. /\ \A d \in Days, n \in Names : BlobInv(d, n)'
          /\ \A v \in Uploads : OwnBlocks(v)'
      BY <1>1, StepBlobs, StepOwnBlocks
    <3> QED
      BY <3>1 DEF BlocksInv, BlobInv, OwnBlocks
  <2>4. CoverInv'
    <3> SUFFICES ASSUME NEW v \in Uploads, NEW f \in Visible', DistinctNames,
                        exclusive'
                 PROVE  /\ step'[v] \in {"walk", "open", "chunk", "list"} =>
                             \/ Stored(v, f)' \/ Pending(v, f)'
                             \/ step'[v] # "walk" /\ file'[v] = f
                        /\ TrustedSuccess(v)' => Stored(v, f)'
      BY DEF CoverInv, DistinctNames, RemoteName, Replace
    <3>1. exclusive /\ denied' = denied
      BY <1>1, Frame
    <3>2. f \in Visible
      BY <3>1 DEF Visible
    <3>3. CASE v = u
      BY <1>1, <3>1, <3>2, <3>3, OwnStepCovers
    <3>4. CASE v # u
      <4>1. step'[v] \in {"idle", "returned"} /\ latest' # v
        BY <1>1, <3>1, <3>4, Frame
      <4> QED
        BY <4>1 DEF TrustedSuccess
    <3> QED
      BY <3>3, <3>4
  <2> QED
    BY <2>1, <2>2, <2>3, <2>4 DEF IInv, AzureInv
<1>2. ASSUME CleanupRemoves \/ Midnight, UNCHANGED blobVars PROVE IInv'
  <2>1. TypeOK' /\ FolderInv'
    BY <1>2, SurroundingsInv DEF IInv, TypeOK, AzureInv, blobVars
  <2>2. /\ UNCHANGED <<exclusive, denied, hidden, step, result, path, todo, file,
                       latest, panicked, size, block, committed, uncommitted>>
        /\ exclusive => present' = present
    BY <1>2, SurroundingsFrame DEF blobVars
  <2>3. ChunkInv'
    BY <2>2 DEF IInv, AzureInv, ChunkInv
  <2>4. BlocksInv'
    BY <2>2 DEF IInv, AzureInv, BlocksInv, BlockFits, Blob
  <2>5. CoverInv'
    BY <2>2 DEF IInv, AzureInv, CoverInv, Visible, Stored, Pending, TrustedSuccess
  <2> QED
    BY <2>1, <2>2, <2>3, <2>4, <2>5 DEF IInv, AzureInv
<1> QED
  BY <1>1, <1>2 DEF Next, Step

(* So does a step in which nothing happens. *)
LEMMA StutterInv == IInv /\ UNCHANGED vars => IInv'
<1> SUFFICES ASSUME IInv, UNCHANGED vars PROVE IInv'
  OBVIOUS
<1>1. UNCHANGED <<exclusive, present, denied, hidden, day, step, result, path,
                  todo, file, latest, panicked, size, block,
                  committed, uncommitted>>
  BY DEF vars, uploadVars
<1>2. TypeOK'
  BY <1>1 DEF IInv, TypeOK, FolderTypeOK
<1>3. FolderInv'
  BY <1>1 DEF IInv, AzureInv, FolderInv
<1>4. ChunkInv'
  BY <1>1 DEF IInv, AzureInv, ChunkInv
<1>5. BlocksInv'
  BY <1>1 DEF IInv, AzureInv, BlocksInv, BlockFits, Blob
<1>6. CoverInv'
  BY <1>1 DEF IInv, AzureInv, CoverInv, Visible, Stored, Pending,
              TrustedSuccess
<1> QED
  BY <1>1, <1>2, <1>3, <1>4, <1>5, <1>6 DEF IInv, AzureInv
=============================================================================
