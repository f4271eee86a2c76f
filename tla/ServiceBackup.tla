--------------------------- MODULE ServiceBackup ---------------------------
(***************************************************************************)
(* main.go and cmd/manual-backup/main.go: the daemon, which runs a backup  *)
(* whenever cron fires, and the command that runs one at once.  Both are   *)
(* composed of their start-up (Startup), the executor and its jobs         *)
(* (Executor), the scp client (Scp), the process manager (ProcessManager)  *)
(* and a goroutine that handles SIGTERM (manual-backup: SIGINT as well).   *)
(*                                                                         *)
(* The backup creator, the cleanup command and every scp command are calls *)
(* of the manager's Start: PerformCall, CleanupCall and CopyCall are steps *)
(* of the job and of the manager at once, and the job goes on when the     *)
(* call has returned, with its result.                                     *)
(***************************************************************************)
EXTENDS Startup, FiniteSets

CONSTANTS
  Jobs, Configs,   \* see Executor
  Calls,           \* see ProcessManager
  MaxFiles,        \* see Scp
  CreatorOf,       \* the call of Start a job makes to run its creator,
  CleanupOf,       \* its cleanup command,
  CopyOf           \* and the copy of the n-th file to a destination

ASSUME NumDestsAssumption == NumDests \in Nat \ {0}

ASSUME MaxFilesAssumption == MaxFiles \in Nat

ASSUME JobsAssumption == {"empty", "partial", "mixed", "none"} \cap Jobs = {}

ASSUME CallsAssumption == IsFiniteSet(Calls) /\ {"free", "terminate"} \cap Calls = {}

ASSUME CallsOfJobsAssumption ==
  /\ CreatorOf \in [Jobs -> Calls]
  /\ CleanupOf \in [Jobs -> Calls]
  /\ CopyOf \in [Jobs -> [1..NumDests -> [1..MaxFiles -> Calls]]]

(* Neither two jobs nor a job's creator, cleanup and copies share a call.  *)
ASSUME DistinctCallsAssumption ==
  \A j, k \in Jobs :
    /\ CreatorOf[j] # CleanupOf[k]
    /\ j # k => CreatorOf[j] # CreatorOf[k] /\ CleanupOf[j] # CleanupOf[k]
    /\ \A d \in 1..NumDests, n \in 1..MaxFiles :
         /\ CopyOf[j][d][n] \notin {CreatorOf[k], CleanupOf[k]}
         /\ j # k => \A e \in 1..NumDests, m \in 1..MaxFiles :
                       CopyOf[j][d][n] # CopyOf[k][e][m]

VARIABLES
  lock, killAll, wg, startPc, startResult, reaper, exitChan, child, output,
  sigterm, term,                                      \* ProcessManager
  conf, backupInProgress, pc, next, failed, verdict, alert, folder, seen,
  stored, panicked,                                   \* Executor
  step, keyFile, files, copied, scpResult,            \* Scp
  cron,       \* the cron scheduler: new, running or stopped
  signalled,  \* the signal has arrived
  late        \* history: the jobs activated after the signal had arrived

PM == INSTANCE ProcessManager WITH pc <- startPc, result <- startResult
EX == INSTANCE Executor
SC == INSTANCE Scp WITH Uploads <- Jobs

ASSUME ConfigsAssumption == Configs \subseteq EX!BackupConfig

pmVars == <<lock, killAll, wg, startPc, startResult, reaper, exitChan, child,
            output, sigterm, term>>
exVars == <<conf, backupInProgress, pc, next, failed, verdict, alert, folder,
            seen, stored, panicked>>
scVars == <<step, keyFile, files, copied, scpResult>>
signalVars == <<cron, signalled, late>>
mainVars == <<startVars, signalVars>>

vars == <<pmVars, exVars, scVars, mainVars>>

TypeOK ==
  /\ PM!TypeOK
  /\ EX!TypeOK
  /\ SC!TypeOK
  /\ StartTypeOK
  /\ cron \in {"new", "running", "stopped"}
  /\ signalled \in BOOLEAN
  /\ late \subseteq Jobs

Init ==
  /\ PM!Init
  /\ EX!Init
  /\ SC!Init
  /\ StartInit
  /\ cron = "new"
  /\ signalled = FALSE
  /\ late = {}

-----------------------------------------------------------------------------
(* Mistakes the properties would catch: variants of the definitions below  *)
(* that no specification uses.                                             *)

(* The handler waits for the running jobs, as cron's Stop would let it. *)
StopWaitsForJobs ==
  /\ Daemon /\ handler = "waiting" /\ signalled
  /\ \A j \in Jobs : pc[j] \in {"idle", "done"}
  /\ cron' = IF cron = "running" THEN "stopped" ELSE cron
  /\ handler' = "terminate"
  /\ UNCHANGED <<pmVars, exVars, scVars, configVars, main, uploaders, status,
                 signalled, late>>

(* The handler exits without waiting for Terminate. *)
ExitsEarly ==
  /\ handler = "terminating"
  /\ Exit("exit 1")
  /\ UNCHANGED <<pmVars, exVars, scVars, signalVars>>

(* The error of Execute is logged and the program ends as usual. *)
ExitsClean ==
  /\ main = "executing"
  /\ \E j \in Jobs : pc[j] = "returned"
  /\ Exit("exit 0")
  /\ UNCHANGED <<pmVars, exVars, scVars, signalVars>>

-----------------------------------------------------------------------------
(* The main goroutine after the start-up. *)

StartupAlone == StartupStep /\ UNCHANGED <<pmVars, exVars, scVars, signalVars>>

(* Scheduler.Run starts cron, whether or not it has been stopped before. *)
CronStart ==
  /\ main = "run" /\ cron = "new"
  /\ cron' = "running"
  /\ UNCHANGED <<pmVars, exVars, scVars, startVars, signalled, late>>

(* Without destinations the dummy executor does nothing, successfully. *)
ExecuteDummy ==
  /\ main = "execute" /\ NoDestinations
  /\ Exit("exit 0")
  /\ UNCHANGED <<pmVars, exVars, scVars, signalVars>>

Execute ==
  /\ main = "execute" /\ ~NoDestinations
  /\ main' = "executing"
  /\ \E j \in Jobs : EX!Fire(j)
  /\ UNCHANGED <<pmVars, scVars, configVars, uploaders, handler, status,
                 signalVars>>

(* Execute has returned. *)
MainEnds ==
  /\ main = "executing"
  /\ \E j \in Jobs :
       /\ pc[j] = "returned"
       /\ Exit(IF verdict[j] = "ok" THEN "exit 0" ELSE "exit 2")
  /\ UNCHANGED <<pmVars, exVars, scVars, signalVars>>

MainStep == StartupAlone \/ CronStart \/ ExecuteDummy \/ Execute \/ MainEnds

(* cron activates the job; a dummy executor does nothing in it. *)
CronFires(j) ==
  /\ cron = "running" /\ ~NoDestinations
  /\ EX!Fire(j)
  /\ late' = IF signalled THEN late \cup {j} ELSE late
  /\ UNCHANGED <<pmVars, scVars, startVars, cron, signalled>>

-----------------------------------------------------------------------------
(* The job of the executor, where it does not call the manager. *)

(* The destination whose turn it is is uploaded to over scp. *)
IsScp(j) == next[j] \in DOMAIN uploaders /\ uploaders[next[j]].type = "scp"

(* Of the clients only those of S3 and Azure can panic in their walk: GCS's *)
(* looks at the error first, and scp's leaves the walk to a command.       *)
JobAlone(j) ==
  /\ \/ EX!OwnStep(j)
     \/ Daemon /\ EX!ReportStep(j)
     \/ /\ EX!WalkPanics(j)
        /\ pc[j] = "uploading" => uploaders[next[j]].type \in {"s3", "azure"}
  /\ UNCHANGED <<pmVars, scVars, mainVars>>

(* Start has returned from call c. *)
Returned(c) == startPc[c] = "returned"
Succeeded(c) == startResult[c] = "ok"

PerformCall(j) ==
  /\ EX!PerformCall(j)
  /\ PM!StartCall(CreatorOf[j])
  /\ UNCHANGED <<scVars, mainVars>>

PerformReturn(j) ==
  /\ Returned(CreatorOf[j])
  /\ EX!PerformReturn(j, Succeeded(CreatorOf[j]))
  /\ UNCHANGED <<pmVars, scVars, mainVars>>

CleanupCall(j) ==
  /\ EX!CleanupCall(j)
  /\ PM!StartCall(CleanupOf[j])
  /\ UNCHANGED <<scVars, mainVars>>

CleanupReturn(j) ==
  /\ Returned(CleanupOf[j])
  /\ EX!CleanupReturn(j)
  /\ UNCHANGED <<pmVars, scVars, mainVars>>

(* The commands at work in the source folder. *)
CommandWrites(j) ==
  /\ \/ child[CreatorOf[j]] = "running" /\ EX!CreatorWrites(j)
     \/ child[CleanupOf[j]] = "running" /\ EX!CleanupRemoves(j)
  /\ UNCHANGED <<pmVars, scVars, mainVars>>

-----------------------------------------------------------------------------
(* The uploads: over scp, or inside the program (S3, Azure, GCS). *)

UploadCall(j) ==
  /\ EX!UploadCall(j)
  /\ \/ IsScp(j) /\ SC!Upload(j)
     \/ ~IsScp(j) /\ UNCHANGED scVars
  /\ UNCHANGED <<pmVars, mainVars>>

InProcessReturn(j) ==
  /\ ~IsScp(j)
  /\ \E ok \in BOOLEAN : EX!UploadReturn(j, ok)
  /\ UNCHANGED <<pmVars, scVars, mainVars>>

ScpAlone(j) ==
  /\ IsScp(j)
  /\ SC!OwnStep(j, uploaders[next[j]].fingerprint)
  /\ UNCHANGED <<pmVars, exVars, mainVars>>

ScpReturn(j) ==
  /\ IsScp(j) /\ step[j] = "out"
  /\ EX!UploadReturn(j, scpResult[j] = "ok")
  /\ UNCHANGED <<pmVars, scVars, mainVars>>

(* The call of Start for the next entry of the folder. *)
CurrentCopy(j) == CopyOf[j][next[j]][copied[j] + 1]

CopyCall(j) ==
  /\ SC!CopyCall(j)
  /\ PM!StartCall(CurrentCopy(j))
  /\ UNCHANGED <<exVars, mainVars>>

CopyReturn(j) ==
  /\ step[j] = "copying"
  /\ Returned(CurrentCopy(j))
  /\ SC!CopyReturn(j, Succeeded(CurrentCopy(j)))
  /\ UNCHANGED <<pmVars, exVars, mainVars>>

JobStep(j) ==
  \/ JobAlone(j)
  \/ PerformCall(j)
  \/ PerformReturn(j)
  \/ UploadCall(j)
  \/ InProcessReturn(j)
  \/ ScpAlone(j)
  \/ ScpReturn(j)
  \/ CopyCall(j)
  \/ CopyReturn(j)
  \/ CleanupCall(j)
  \/ CleanupReturn(j)

-----------------------------------------------------------------------------
(* The manager on its own, and the processes it started. *)

StartAlone(c) == PM!StartStep(c) /\ UNCHANGED <<exVars, scVars, mainVars>>
ReaperAlone(c) == PM!ReaperStep(c) /\ UNCHANGED <<exVars, scVars, mainVars>>
TerminateAlone == PM!TerminateStep /\ UNCHANGED <<exVars, scVars, mainVars>>
ChildAlone(c) == PM!ChildStep(c) /\ UNCHANGED <<exVars, scVars, mainVars>>

-----------------------------------------------------------------------------
(* The signal and its handler. *)

SignalArrives ==
  /\ ~signalled
  /\ signalled' = TRUE
  /\ UNCHANGED <<pmVars, exVars, scVars, startVars, cron, late>>

(* Scheduler.Stop: cron's Stop does nothing unless cron is running. *)
HandlerStopsCron ==
  /\ Daemon /\ handler = "waiting" /\ signalled
  /\ cron' = IF cron = "running" THEN "stopped" ELSE cron
  /\ handler' = "terminate"
  /\ UNCHANGED <<pmVars, exVars, scVars, configVars, main, uploaders, status,
                 signalled, late>>

(* manual-backup has no scheduler to stop. *)
HandlerTerminates ==
  /\ \/ Daemon /\ handler = "terminate"
     \/ ~Daemon /\ handler = "waiting" /\ signalled
  /\ PM!TerminateCall
  /\ handler' = "terminating"
  /\ UNCHANGED <<exVars, scVars, configVars, main, uploaders, status, signalVars>>

(* "All backup processes terminated. Exiting", then os.Exit(1). *)
HandlerExits ==
  /\ handler = "terminating" /\ term = "done"
  /\ Exit("exit 1")
  /\ UNCHANGED <<pmVars, exVars, scVars, signalVars>>

HandlerStep == HandlerStopsCron \/ HandlerTerminates \/ HandlerExits

-----------------------------------------------------------------------------
(* The Go program has neither exited nor panicked. *)
Up == status = "running" /\ ~panicked

(* The processes run on whether or not the program does. *)
Next ==
  \/ /\ Up
     /\ \/ MainStep
        \/ \E j \in Jobs : CronFires(j) \/ JobStep(j)
        \/ \E c \in Calls : StartAlone(c) \/ ReaperAlone(c)
        \/ TerminateAlone
        \/ SignalArrives
        \/ HandlerStep
  \/ \E j \in Jobs : CommandWrites(j)
  \/ \E c \in Calls : ChildAlone(c)

SafeSpec == Init /\ [][Next]_vars

(* Fairness: Go runs every goroutine that can run, and its mutex is handed *)
(* to the longest waiter (strong fairness of the Lock steps).  A command   *)
(* is assumed to exit once it has received SIGTERM, with its descendants;  *)
(* nothing is assumed about the jobs, whose uploads and unmanaged commands *)
(* may hang.                                                               *)
Fairness ==
  /\ WF_vars(Up /\ MainStep)
  /\ WF_vars(Up /\ HandlerStep)
  /\ WF_vars(Up /\ TerminateAlone)
  /\ SF_vars(Up /\ TerminateAlone /\ PM!TerminateLock)
  /\ \A c \in Calls :
       /\ WF_vars(Up /\ StartAlone(c))
       /\ SF_vars(Up /\ StartAlone(c) /\ PM!StartLock(c))
       /\ WF_vars(Up /\ ReaperAlone(c))
       /\ WF_vars(ChildAlone(c) /\ (PM!OutputCloses(c) \/ sigterm[c]))

Spec == SafeSpec /\ Fairness

-----------------------------------------------------------------------------
(* Properties *)

Exited == status # "running"

(* When a program exits, on a signal, after a failure or by itself, no     *)
(* backup creator, cleanup or scp command that any job started is left     *)
(* behind (main.go:76-82, manual-backup/main.go:42-47, 70-74).  A panic is *)
(* not an exit: it leaves the commands of other jobs running.              *)
ExitLeavesNoCommand == Exited => \A c \in Calls : ~PM!Alive(c)

(* A job that has got as far as its uploads has a creator that succeeded   *)
(* and was not interrupted by the shutdown (executor.go:124-136,           *)
(* manager.go:63-70).                                                      *)
UploadedBackupIsWhole ==
  conf.creator =>
    \A j \in Jobs :
      \/ pc[j] \in {"upload", "uploading", "measure", "cleanup", "cleaning"}
      \/ \E d \in EX!Dests : stored[j][d] # "none"
      => child[CreatorOf[j]] = "ok" /\ ~sigterm[CreatorOf[j]]

(* The upload to every destination has returned without an error, and no   *)
(* copy over scp failed or was interrupted by the shutdown.  Where an      *)
(* upload inside the program may return no error and still miss something  *)
(* is the subject of Destination.                                          *)
Delivered(j) ==
  /\ \A d \in EX!Dests : stored[j][d] = IF conf.creator THEN j ELSE "empty"
  /\ \A d \in EX!Dests, n \in 1..MaxFiles :
       LET c == CopyOf[j][d][n] IN child[c] \in {"none", "ok"} /\ ~sigterm[c]

(* With exit_if_in_progress the cleanup command is started only for a      *)
(* backup that has been delivered, as far as the uploads' results tell     *)
(* (scp.go:107-117, multi_uploader.go:21-34, executor.go:131-139).         *)
CleanupMeansDelivered ==
  conf.exitIfInProgress =>
    \A j \in Jobs : child[CleanupOf[j]] # "none" => Delivered(j)

(* manual-backup never gives status 0 to a backup that failed or was cut   *)
(* short by a signal, as far as the uploads' results tell, and the daemon  *)
(* never gives it at all                                                   *)
(* (manual-backup/main.go:42-47, 70-73, manager.go:63-70).                 *)
ZeroMeansDelivered ==
  status = "exit 0" =>
    /\ ~Daemon
    /\ NoDestinations \/ \E j \in Jobs : pc[j] = "returned" /\ Delivered(j)

(* With exit_if_in_progress at most one managed command is alive, over all *)
(* jobs and phases (executor.go:85-100, manager.go:37-71).                 *)
OneCommandAtATime ==
  conf.exitIfInProgress =>
    \A c, e \in Calls : PM!Alive(c) /\ PM!Alive(e) => c = e

(* The private key is on disk while an ssh or scp command needs it and is  *)
(* gone after a successful upload (scp.go:82-122).                         *)
KeyFileLifetime ==
  \A j \in Jobs :
    /\ SC!UsesKey(j) => keyFile[j]
    /\ scpResult[j] = "ok" => ~keyFile[j]

(* A destination is uploaded to by the client of its type, which trusts a  *)
(* host on first sight only if no fingerprint is configured as a string:   *)
(* a configuration the start-up cannot use never gets as far as a backup   *)
(* (initialize.go:47-66, factory.go:76-82, scp.go:58-72).                  *)
ClientsFitDestinations ==
  \A j \in Jobs : pc[j] = "uploading" =>
    LET dest == destinations[next[j]]
    IN /\ dest.type # "unknown" /\ dest.type = uploaders[next[j]].type
       /\ step[j] = "scanning" => dest.fingerprint # "string"

(* The daemon "doesn't exit until terminated"                              *)
(* (s3_integration_test.go:1166): unless it panics it ends without a       *)
(* signal only when its configuration is unusable, which a missing         *)
(* schedule is not as long as there is no destination (main.go:32-53,      *)
(* scheduler.go:47-50).                                                    *)
DaemonStays ==
  Daemon /\ Exited /\ ~signalled =>
    \/ main = "parse"
    \/ main = "initialize" /\ ~NoDestinations
    \/ main = "schedule" /\ schedule = "invalid"
    \/ main = "schedule" /\ schedule = "missing" /\ ~NoDestinations

(* A signal ends the program, whatever the jobs are doing, even if it      *)
(* arrives before the handler runs, unless a job panics first              *)
(* (main.go:25-26, 76-82, manual-backup/main.go:22-23, 42-47).             *)
ShutdownCompletes == signalled ~> Exited \/ panicked

(* What the daemon's handler logs before it exits (main.go:80): all backup *)
(* processes terminated, the commands run by CombinedOutput included.      *)
AllBackupProcessesTerminated ==
  status = "exit 1" =>
    /\ \A c \in Calls : ~PM!Alive(c)
    /\ \A j \in Jobs : pc[j] # "identifying" /\ ~SC!RunsUnmanaged(j)

(* "doesn't start a new backup after a sigterm is received"                *)
(* (process_manager_integration_test.go:105): a job activated after        *)
(* SIGTERM arrived does not start its backup.                              *)
NoBackupAfterSigterm == \A j \in late : pc[j] # "performing"

-----------------------------------------------------------------------------
(* What the program as a whole adds to the invariants of its parts.        *)

(* How far the start-up is, given what runs: no job exists before the      *)
(* clients have been built, and manual-backup has one job only.            *)
StartInv ==
  /\ main \in {"schedule", "run"} => Daemon
  /\ main \in {"execute", "executing"} => ~Daemon
  /\ main \notin {"parse", "initialize"} =>
       /\ \A d \in DOMAIN destinations : destinations[d].type # "unknown"
       /\ uploaders = [d \in DOMAIN destinations |-> Client(destinations[d])]
  /\ cron # "new" => main = "run"
  /\ handler \in {"terminate", "terminating"} => signalled
  /\ \A j \in Jobs : pc[j] # "idle" =>
       ~NoDestinations /\ main \in {"run", "executing"}
  /\ ~Daemon => \A i, j \in Jobs : pc[i] # "idle" /\ pc[j] # "idle" => i = j

(* Job j waits for call c to return. *)
WaitsFor(j, c) ==
  \/ pc[j] = "performing" /\ c = CreatorOf[j]
  \/ pc[j] = "cleaning" /\ c = CleanupOf[j]
  \/ step[j] = "copying" /\ c = CurrentCopy(j)

(* No call of Start is pending that no job waits for. *)
WaitingInv ==
  \A c \in Calls : startPc[c] \notin {"idle", "returned"} =>
    \E j \in Jobs : WaitsFor(j, c)

(* The scp client runs inside an upload to an scp destination. *)
ScpInv(j) ==
  /\ step[j] # "out" => pc[j] = "uploading" /\ IsScp(j)
  /\ step[j] \notin {"out", "key"} => keyFile[j]
  /\ step[j] = "scanning" => uploaders[next[j]].fingerprint = ""
  /\ step[j] = "copying" => copied[j] < files[j]
  /\ scpResult[j] = "ok" => step[j] = "out" /\ ~keyFile[j]

(* The scp client has returned an error that UploadReturn will record. *)
ErrorPending(j) ==
  pc[j] = "uploading" /\ IsScp(j) /\ step[j] = "out" /\ scpResult[j] = "err"

(* What the results of a job's calls have led to. *)
ResultInv(j) ==
  /\ startPc[CleanupOf[j]] # "idle" => pc[j] = "cleaning" \/ verdict[j] = "ok"
  /\ /\ conf.creator
     /\ \/ pc[j] \in {"upload", "uploading", "measure", "cleanup", "cleaning"}
        \/ \E d \in EX!Dests : stored[j][d] # "none"
     => Succeeded(CreatorOf[j])
  /\ \A d \in EX!Dests, n \in 1..MaxFiles :
       startPc[CopyOf[j][d][n]] # "idle" =>
         \/ Succeeded(CopyOf[j][d][n])
         \/ failed[j]
         \/ ErrorPending(j)
         \/ step[j] = "copying" /\ CopyOf[j][d][n] = CurrentCopy(j)

(* Status 0 is the verdict of manual-backup's job. *)
StatusInv ==
  status = "exit 0" =>
    /\ ~Daemon
    /\ NoDestinations \/ \E j \in Jobs : pc[j] = "returned" /\ verdict[j] = "ok"

(* Conjoined with TypeOK and the invariants of the manager and of the      *)
(* executor, preserved by every step: every pending command has a job that *)
(* waits for it and remembers its failure (main.go:24-87,                  *)
(* manual-backup/main.go:21-74, executor.go:103-144, scp.go:75-122).       *)
ProgramInv ==
  /\ StartInv
  /\ WaitingInv
  /\ \A j \in Jobs : ScpInv(j) /\ ResultInv(j)
  /\ StatusInv
  /\ ExitLeavesNoCommand
  /\ DaemonStays
=============================================================================
