------------------------------ MODULE Executor ------------------------------
(***************************************************************************)
(* executor/executor.go, the loop over the destinations of                 *)
(* upload/multi_uploader.go and the cron job of scheduler/scheduler.go     *)
(* that calls Execute and reports its failures.                            *)
(*                                                                         *)
(* Every member of Jobs is one activation of the cron entry: a goroutine   *)
(* of its own, all of them sharing one executor, one source folder and one *)
(* list of destinations.  An operation that takes time (running a command, *)
(* uploading, sending an alert) is a call step and a return step, between  *)
(* which the other jobs run.  How a managed command or an upload ends is a *)
(* parameter of the return step.                                           *)
(***************************************************************************)
EXTENDS Naturals, FiniteSets

CONSTANTS
  Jobs,      \* the activations of the cron entry
  NumDests,  \* the number of configured destinations
  Configs    \* the configurations considered

ASSUME NumDestsAssumption == NumDests \in Nat \ {0}

(* exit_if_in_progress, and whether source_executable, cleanup_executable, *)
(* service_identifier_executable and alerts are configured.                *)
BackupConfig == [exitIfInProgress : BOOLEAN, creator : BOOLEAN,
                 cleanup : BOOLEAN, identifier : BOOLEAN, alerts : BOOLEAN]

ASSUME ConfigsAssumption == Configs \subseteq BackupConfig

VARIABLES
  conf,              \* the parts of the configuration that steer the executor
  backupInProgress,  \* executor.backupInProgress
  pc,                \* where each job is
  next,              \* multiUploader.Upload: the uploader whose turn it is
  failed,            \* multiUploader.Upload: errors is not empty
  verdict,           \* what Execute returns
  alert,             \* what became of the job's alert
  folder,            \* what the source folder holds
  seen,              \* what it held when the running upload began
  stored,            \* what each upload of a job that returned no error read
  panicked           \* a job has panicked, which ends the program

vars == <<conf, backupInProgress, pc, next, failed, verdict, alert,
          folder, seen, stored, panicked>>

Dests == 1..NumDests

(* The source folder holds nothing, an unfinished backup, or the complete  *)
(* backup that the creator of some job left there.                         *)
Contents == Jobs \cup {"empty", "partial"}

ASSUME ContentsAssumption == {"empty", "partial", "mixed", "none"} \cap Jobs = {}

(* The places of a job between backupCanBeStarted and doneBackup. *)
InBackup == {"perform", "performing", "upload", "uploading", "measure",
             "cleanup", "cleaning", "release"}

TypeOK ==
  /\ conf \in Configs
  /\ backupInProgress \in BOOLEAN
  /\ pc \in [Jobs -> {"idle", "identify", "identifying", "claim", "returned",
                      "alerting", "done"} \cup InBackup]
  /\ next \in [Jobs -> 1..(NumDests + 1)]
  /\ failed \in [Jobs -> BOOLEAN]
  /\ verdict \in [Jobs -> {"none", "ok", "failed", "rejected"}]
  /\ alert \in [Jobs -> {"none", "sent", "lost"}]
  /\ folder \in Contents
  /\ seen \in [Jobs -> Contents]
  /\ stored \in [Jobs -> [Dests -> Contents \cup {"none", "mixed"}]]
  /\ panicked \in BOOLEAN

(* NewExecutor, for any configuration. *)
Init ==
  /\ conf \in Configs
  /\ backupInProgress = FALSE
  /\ pc = [j \in Jobs |-> "idle"]
  /\ next = [j \in Jobs |-> 1]
  /\ failed = [j \in Jobs |-> FALSE]
  /\ verdict = [j \in Jobs |-> "none"]
  /\ alert = [j \in Jobs |-> "none"]
  /\ folder = "empty"
  /\ seen = [j \in Jobs |-> "empty"]
  /\ stored = [j \in Jobs |-> [d \in Dests |-> "none"]]
  /\ panicked = FALSE

Goto(j, place) == pc' = [pc EXCEPT ![j] = place]

uploadVars == <<next, failed, seen, stored>>

(* The job goes from one place to the next and touches nothing else. *)
Move(j, from, to) ==
  /\ pc[j] = from
  /\ Goto(j, to)
  /\ UNCHANGED <<conf, backupInProgress, verdict, alert, folder, uploadVars,
                 panicked>>

(* Execute leaves with v; the deferred doneBackup is still to run. *)
Leave(j, v) ==
  /\ Goto(j, "release")
  /\ verdict' = [verdict EXCEPT ![j] = v]

-----------------------------------------------------------------------------
(* Mistakes the properties would catch: variants of the definitions below  *)
(* that no specification uses.                                             *)

(* The flag is not set. *)
AdmittedUnflagged(j) ==
  /\ ~(backupInProgress /\ conf.exitIfInProgress)
  /\ Move(j, "claim", "perform")

(* doneBackup is deferred before the check. *)
RejectedReleases(j) ==
  /\ pc[j] = "claim"
  /\ backupInProgress /\ conf.exitIfInProgress
  /\ Leave(j, "rejected")
  /\ UNCHANGED <<conf, backupInProgress, alert, folder, uploadVars, panicked>>

(* The creator's failure is ignored. *)
PerformIgnored(j, ok) ==
  /\ pc[j] = "performing"
  /\ Goto(j, "upload")
  /\ folder' = IF ok THEN j ELSE folder
  /\ UNCHANGED <<conf, backupInProgress, verdict, alert, uploadVars, panicked>>

(* The loop runs once too often. *)
UploadTooFar(j) ==
  /\ pc[j] = "upload"
  /\ next[j] <= NumDests + 1
  /\ Goto(j, "uploading")
  /\ seen' = [seen EXCEPT ![j] = folder]
  /\ UNCHANGED <<conf, backupInProgress, next, failed, verdict, alert, folder,
                 stored, panicked>>

(* Only the last upload's error counts. *)
LastErrorOnly(j, ok) ==
  /\ pc[j] = "uploading"
  /\ Goto(j, "upload")
  /\ next' = [next EXCEPT ![j] = @ + 1]
  /\ failed' = [failed EXCEPT ![j] = ~ok]
  /\ stored' = IF ok THEN [stored EXCEPT ![j][next[j]] = folder] ELSE stored
  /\ UNCHANGED <<conf, backupInProgress, verdict, alert, folder, seen,
                 panicked>>

(* A failed upload is tried again. *)
UploadRetries(j, ok) ==
  /\ pc[j] = "uploading"
  /\ Goto(j, "upload")
  /\ next' = [next EXCEPT ![j] = IF ok THEN @ + 1 ELSE @]
  /\ stored' = IF ok THEN [stored EXCEPT ![j][next[j]] = folder] ELSE stored
  /\ UNCHANGED <<conf, backupInProgress, failed, verdict, alert, folder, seen,
                 panicked>>

(* The first failure ends the loop. *)
UploadStops(j, ok) ==
  /\ pc[j] = "uploading"
  /\ \/ /\ ok
        /\ Goto(j, "upload")
        /\ next' = [next EXCEPT ![j] = @ + 1]
        /\ stored' = [stored EXCEPT ![j][next[j]] = folder]
        /\ UNCHANGED verdict
     \/ ~ok /\ Leave(j, "failed") /\ UNCHANGED <<next, stored>>
  /\ UNCHANGED <<conf, backupInProgress, failed, alert, folder, seen, panicked>>

(* The joined error is ignored. *)
UploadErrorIgnored(j) == next[j] \notin Dests /\ Move(j, "upload", "measure")

(* The flag is not reset. *)
DoneUnflagged(j) == Move(j, "release", "returned")

-----------------------------------------------------------------------------
(* cron activates the job, which calls Execute. *)
Fire(j) == Move(j, "idle", "identify")

(* identifyService without a command, or with one that does not exist. *)
IdentifySkipped(j) == Move(j, "identify", "claim")

IdentifyCall(j) == conf.identifier /\ Move(j, "identify", "identifying")

(* The command's failure is logged and leaves the identifier empty. *)
IdentifyReturn(j) == Move(j, "identifying", "claim")

(* backupCanBeStarted, under the executor's mutex, returns true. *)
BackupAdmitted(j) ==
  /\ pc[j] = "claim"
  /\ ~(backupInProgress /\ conf.exitIfInProgress)
  /\ backupInProgress' = TRUE
  /\ Goto(j, "perform")
  /\ UNCHANGED <<conf, verdict, alert, folder, uploadVars, panicked>>

(* backupCanBeStarted returns false.  doneBackup is not deferred yet. *)
BackupRejected(j) ==
  /\ pc[j] = "claim"
  /\ backupInProgress /\ conf.exitIfInProgress
  /\ Goto(j, "returned")
  /\ verdict' = [verdict EXCEPT ![j] = "rejected"]
  /\ UNCHANGED <<conf, backupInProgress, alert, folder, uploadVars, panicked>>

-----------------------------------------------------------------------------
(* performBackup *)

PerformSkipped(j) == ~conf.creator /\ Move(j, "perform", "upload")

PerformCall(j) == conf.creator /\ Move(j, "perform", "performing")

(* The backup creator is at work in the source folder. *)
CreatorWrites(j) ==
  /\ pc[j] = "performing"
  /\ folder' = "partial"
  /\ UNCHANGED <<conf, backupInProgress, pc, verdict, alert, uploadVars,
                 panicked>>

(* processManager.Start returns; a creator that succeeds has finished the  *)
(* backup.                                                                 *)
PerformReturn(j, ok) ==
  /\ pc[j] = "performing"
  /\ \/ ok /\ Goto(j, "upload") /\ folder' = j /\ UNCHANGED verdict
     \/ ~ok /\ Leave(j, "failed") /\ UNCHANGED folder
  /\ UNCHANGED <<conf, backupInProgress, alert, uploadVars, panicked>>

-----------------------------------------------------------------------------
(* uploadBackup and multiUploader.Upload *)

(* The next uploader's Upload is called. *)
UploadCall(j) ==
  /\ pc[j] = "upload"
  /\ next[j] \in Dests
  /\ Goto(j, "uploading")
  /\ seen' = [seen EXCEPT ![j] = folder]
  /\ UNCHANGED <<conf, backupInProgress, next, failed, verdict, alert, folder,
                 stored, panicked>>

(* An upload during which the folder changed delivers a mixture.  An error *)
(* is remembered and the loop goes on.  The executor takes an upload that  *)
(* returns no error for a delivery; Destination has the cases in which the *)
(* S3, Azure and GCS clients return none although something is missing.    *)
UploadReturn(j, ok) ==
  /\ pc[j] = "uploading"
  /\ Goto(j, "upload")
  /\ next' = [next EXCEPT ![j] = @ + 1]
  /\ failed' = [failed EXCEPT ![j] = @ \/ ~ok]
  /\ stored' = IF ~ok THEN stored
               ELSE [stored EXCEPT ![j][next[j]] =
                       IF folder = seen[j] THEN folder ELSE "mixed"]
  /\ UNCHANGED <<conf, backupInProgress, verdict, alert, folder, seen,
                 panicked>>

(* Upload returns the joined errors, if there are any. *)
UploadDone(j) ==
  /\ pc[j] = "upload"
  /\ next[j] \notin Dests
  /\ \/ failed[j] /\ Leave(j, "failed")
     \/ ~failed[j] /\ Goto(j, "measure") /\ UNCHANGED verdict
  /\ UNCHANGED <<conf, backupInProgress, alert, folder, uploadVars, panicked>>

(* calculateDirSize walks the source folder; its error is dropped. *)
Measure(j) == Move(j, "measure", "cleanup")

(* An entry whose lstat fails reaches the walk function of                 *)
(* calculateDirSize, or that of the S3 and Azure clients, with a nil       *)
(* FileInfo: IsDir panics, and nothing recovers a job's panic.  The source *)
(* folder may be missing, the entry may have been removed since its        *)
(* directory was listed (by another job's command or by anyone else), it   *)
(* may be out of reach or the file system may fail; so any walk may panic. *)
WalkPanics(j) ==
  /\ pc[j] \in {"uploading", "measure"}
  /\ panicked' = TRUE
  /\ UNCHANGED <<conf, backupInProgress, pc, verdict, alert, folder,
                 uploadVars>>

-----------------------------------------------------------------------------
(* performCleanup, whose error Execute drops *)

CleanupSkipped(j) ==
  /\ pc[j] = "cleanup"
  /\ ~conf.cleanup
  /\ Leave(j, "ok")
  /\ UNCHANGED <<conf, backupInProgress, alert, folder, uploadVars, panicked>>

CleanupCall(j) == conf.cleanup /\ Move(j, "cleanup", "cleaning")

(* The cleanup command empties the source folder. *)
CleanupRemoves(j) ==
  /\ pc[j] = "cleaning"
  /\ folder' = "empty"
  /\ UNCHANGED <<conf, backupInProgress, pc, verdict, alert, uploadVars,
                 panicked>>

CleanupReturn(j) ==
  /\ pc[j] = "cleaning"
  /\ Leave(j, "ok")
  /\ UNCHANGED <<conf, backupInProgress, alert, folder, uploadVars, panicked>>

(* The deferred doneBackup, under the executor's mutex. *)
DoneBackup(j) ==
  /\ pc[j] = "release"
  /\ backupInProgress' = FALSE
  /\ Goto(j, "returned")
  /\ UNCHANGED <<conf, verdict, alert, folder, uploadVars, panicked>>

-----------------------------------------------------------------------------
(* The rest of the scheduled function *)

JobSilent(j) ==
  /\ (verdict[j] = "ok" \/ ~conf.alerts)
  /\ Move(j, "returned", "done")

AlertCall(j) ==
  /\ verdict[j] # "ok" /\ conf.alerts
  /\ Move(j, "returned", "alerting")

(* SendServiceAlert succeeds or fails; a failure is logged. *)
AlertReturn(j) ==
  /\ pc[j] = "alerting"
  /\ \E a \in {"sent", "lost"} : alert' = [alert EXCEPT ![j] = a]
  /\ Goto(j, "done")
  /\ UNCHANGED <<conf, backupInProgress, verdict, folder, uploadVars,
                 panicked>>

-----------------------------------------------------------------------------
(* The steps of Execute that involve neither the process manager nor a     *)
(* destination.                                                            *)
OwnStep(j) ==
  \/ IdentifySkipped(j)
  \/ IdentifyCall(j)
  \/ IdentifyReturn(j)
  \/ BackupAdmitted(j)
  \/ BackupRejected(j)
  \/ PerformSkipped(j)
  \/ UploadDone(j)
  \/ Measure(j)
  \/ CleanupSkipped(j)
  \/ DoneBackup(j)

CommandStep(j) ==
  \/ PerformCall(j)
  \/ \E ok \in BOOLEAN : PerformReturn(j, ok)
  \/ CleanupCall(j)
  \/ CleanupReturn(j)

UploadStep(j) == UploadCall(j) \/ \E ok \in BOOLEAN : UploadReturn(j, ok)

ReportStep(j) == JobSilent(j) \/ AlertCall(j) \/ AlertReturn(j)

JobStep(j) == OwnStep(j) \/ CommandStep(j) \/ UploadStep(j) \/ ReportStep(j)

FolderStep(j) == CreatorWrites(j) \/ CleanupRemoves(j)

(* After a panic there is no program left to take a step. *)
Next ==
  /\ ~panicked
  /\ \E j \in Jobs : \/ Fire(j)
                     \/ JobStep(j)
                     \/ FolderStep(j)
                     \/ WalkPanics(j)

SafeSpec == Init /\ [][Next]_vars

(* Go runs every runnable goroutine; commands, uploads and alerts are      *)
(* assumed to end (nothing in the code would stop one that does not).      *)
Fairness == \A j \in Jobs : WF_vars(~panicked /\ JobStep(j))

Spec == SafeSpec /\ Fairness
-----------------------------------------------------------------------------
(* Properties *)

Exclusive == conf.exitIfInProgress

(* With exit_if_in_progress at most one job is between backupCanBeStarted  *)
(* and doneBackup, rejected jobs and failed backups notwithstanding        *)
(* (executor.go:85-100, 113-122).                                          *)
MutualExclusion ==
  Exclusive =>
    \A i, j \in Jobs : pc[i] \in InBackup /\ pc[j] \in InBackup => i = j

(* With exit_if_in_progress what a job delivers to a destination is the    *)
(* complete backup its own creator made, never a half-written one, an      *)
(* emptied folder or another job's (executor.go:124-139).                  *)
UploadsOwnBackup ==
  Exclusive /\ conf.creator =>
    \A j \in Jobs, d \in Dests : stored[j][d] \in {"none", j}

(* Where alerts are configured SendServiceAlert is called for exactly the  *)
(* jobs that end with an upload to some destination missing: one rejected, *)
(* one whose creator failed, one of whose uploads failed wherever it is in *)
(* the list, and not one whose cleanup failed (multi_uploader.go:21-34,    *)
(* scheduler.go:31-46).  The call may fail, which is only logged           *)
(* (scheduler.go:39-41, "lost"), so that no message arrives does not show  *)
(* that the backup succeeded.                                              *)
AlertsMatchDelivery ==
  \A j \in Jobs :
    pc[j] = "done" /\ conf.alerts =>
      (alert[j] = "none" <=> \A d \in Dests : stored[j][d] # "none")

(* With exit_if_in_progress a panic in a walk of the source folder, which  *)
(* ends the program, comes over the backup of the job that walks, as its   *)
(* creator left it: the creator has succeeded and no command of this or of *)
(* another job has since touched the folder (executor.go:124-139,          *)
(* dir_size.go:18-23).                                                     *)
PanicKeepsBackup ==
  Exclusive /\ conf.creator /\ panicked =>
    \E j \in Jobs : pc[j] \in {"uploading", "measure"} /\ folder = j

(* With exit_if_in_progress a complete backup is removed only once the     *)
(* uploads of it to all destinations have returned without an error        *)
(* (executor.go:131-139).  Whether such an upload has delivered the whole  *)
(* folder is the destination's part: see Destination.                      *)
CleanupRemovesOnlyStored ==
  [][Exclusive /\ folder \in Jobs /\ folder' = "empty" =>
       \A d \in Dests : stored[folder][d] = folder]_vars

(* Every activation comes to its end, rejected or not. *)
EveryJobEnds ==
  \A j \in Jobs : pc[j] = "identify" ~> pc[j] = "done" \/ panicked

(* A backup that ends, in whichever way, lets a later one start            *)
(* (executor.go:96-100, 122).                                              *)
NoLockout == backupInProgress ~> ~backupInProgress \/ panicked

(* A destination that fails does not keep the others from being tried      *)
(* (multi_uploader.go:21-34).                                              *)
EveryDestinationTried ==
  \A j \in Jobs : pc[j] = "upload" ~> next[j] = NumDests + 1 \/ panicked

-----------------------------------------------------------------------------
(* The inductive invariant behind the safety properties. *)

(* The flag is set only while some backup is running, and, where backups   *)
(* exclude one another, exactly then.                                      *)
FlagInv ==
  /\ backupInProgress => \E j \in Jobs : pc[j] \in InBackup
  /\ Exclusive => \A j \in Jobs : pc[j] \in InBackup => backupInProgress

AllStored(j) == \A d \in Dests : stored[j][d] # "none"

(* How far the uploads of a job are, given how far the job is. *)
ProgressInv(j) ==
  /\ pc[j] \in {"idle", "identify", "identifying", "claim", "perform", "performing"}
       => next[j] = 1 /\ ~failed[j]
  /\ pc[j] = "uploading" => next[j] \in Dests
  /\ pc[j] \in {"upload", "uploading"} =>
       failed[j] \/ \A d \in Dests : d < next[j] => stored[j][d] # "none"
  /\ \A d \in Dests : d >= next[j] => stored[j][d] = "none"
  /\ failed[j] => \E d \in Dests : d < next[j] /\ stored[j][d] = "none"
  /\ verdict[j] \in {"failed", "rejected"} => ~AllStored(j)
  /\ pc[j] \in {"measure", "cleanup", "cleaning"} \/ verdict[j] = "ok"
       => AllStored(j) /\ ~failed[j]
  /\ verdict[j] = "none" <=>
       pc[j] \notin {"release", "returned", "alerting", "done"}
  /\ verdict[j] = "rejected" => pc[j] # "release"
  /\ pc[j] = "alerting" => verdict[j] # "ok" /\ conf.alerts
  /\ IF pc[j] = "done" /\ conf.alerts
       THEN alert[j] = "none" <=> verdict[j] = "ok"
       ELSE alert[j] = "none"

(* No other job can have touched the source folder since this one began.  *)
Undisturbed(j) == Exclusive \/ \A k \in Jobs \ {j} : pc[k] = "idle"

(* Whose backup the source folder holds while a job relies on it, and so   *)
(* what the job delivers, as long as no other job disturbs it.             *)
OwnershipInv ==
  /\ ~conf.creator =>
       /\ folder = "empty"
       /\ \A j \in Jobs : /\ pc[j] # "performing"
                         /\ seen[j] = "empty"
                         /\ \A d \in Dests : stored[j][d] \in {"none", "empty"}
  /\ conf.creator =>
       \A j \in Jobs : Undisturbed(j) =>
         /\ pc[j] \in {"upload", "uploading", "measure", "cleanup"} => folder = j
         /\ pc[j] = "uploading" => seen[j] = j
         /\ pc[j] = "cleaning" => folder \in {j, "empty"}
         /\ \A d \in Dests : stored[j][d] \in {"none", j}

(* Conjoined with TypeOK, preserved by every step: the flag is the token   *)
(* that makes the source folder the job's own (executor.go:85-144).        *)
ExecutorInv ==
  /\ FlagInv
  /\ MutualExclusion
  /\ \A j \in Jobs : ProgressInv(j)
  /\ OwnershipInv

-----------------------------------------------------------------------------
(* The abstract view: what each activation is, seen from outside. *)
runBar ==
  [j \in Jobs |-> IF pc[j] \in InBackup THEN "active"
                  ELSE IF verdict[j] = "none" THEN "idle" ELSE verdict[j]]

Abstract == INSTANCE BackupRuns
              WITH run <- runBar, exclusive <- conf.exitIfInProgress,
                   down <- panicked

(* The executor keeps the promise of BackupRuns: it rejects a job only     *)
(* while a backup is running, and every backup that begins ends            *)
(* (executor.go:85-144).                                                   *)
ImplementsBackupRuns == Abstract!Spec
=============================================================================
