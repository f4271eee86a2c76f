------------------------ MODULE ServiceBackupProofs ------------------------
(***************************************************************************)
(* The safety properties of ServiceBackup, proved for every set of jobs,   *)
(* calls, destinations and configurations, and for every number of files.  *)
(* The theorems of ProcessManagerProofs and ExecutorProofs are used for    *)
(* the manager and the executor inside the program; the rest is            *)
(* ProgramInv.                                                             *)
(***************************************************************************)
EXTENDS ServiceBackup, TLAPS

(* PM and EX, with what is proved about them. *)
PMP == INSTANCE ProcessManagerProofs WITH pc <- startPc, result <- startResult
EXP == INSTANCE ExecutorProofs

(* The types of what belongs neither to the manager nor to the executor. *)
OwnTypeOK ==
  /\ SC!TypeOK
  /\ StartTypeOK
  /\ cron \in {"new", "running", "stopped"}
  /\ signalled \in BOOLEAN
  /\ late \subseteq Jobs

(* The inductive invariant. *)
IInv == PMP!IInv /\ EXP!IInv /\ OwnTypeOK /\ ProgramInv

-----------------------------------------------------------------------------
(* The manager inside the program *)

(* A step of the manager that begins no call of Start. *)
ManagerAlone ==
  \/ \E c \in Calls : PM!StartStep(c) \/ PM!ReaperStep(c) \/ PM!ChildStep(c)
  \/ PM!TerminateCall
  \/ PM!TerminateStep

(* A step of the manager, in whichever goroutine. *)
ManagerStep == ManagerAlone \/ \E c \in Calls : PM!StartCall(c)

(* What ProcessManagerProofs assumes of the calls. *)
LEMMA CallsFinite == PMP!IsFiniteSet(Calls)
BY CallsAssumption DEF IsFiniteSet, PMP!IsFiniteSet

(* A new manager satisfies the manager's invariant (manager.go:27-35). *)
LEMMA ManagerInit == PM!Init => PMP!IInv
<1>1. PM!Init => PMP!Init
  BY DEF PM!Init, PMP!Init
<1>2. PMP!Init => PMP!IInv
  BY PMP!InitInv, CallsFinite, CallsAssumption
<1> QED
  BY <1>1, <1>2

(* Every step of the manager preserves it. *)
LEMMA ManagerKeeps ==
  ASSUME PMP!IInv, ManagerStep
  PROVE  PMP!IInv'
<1>1. ASSUME NEW c \in Calls PROVE PM!StartCall(c) => PMP!StartCall(c)
  BY DEF PM!StartCall, PM!osVars, PMP!StartCall, PMP!osVars
<1>2. ASSUME NEW c \in Calls PROVE PM!StartStep(c) => PMP!StartStep(c)
  BY DEF PM!StartStep, PM!StartLock, PM!StartRefused, PM!StartSpawnFails,
         PM!StartSpawn, PM!StartRegister, PM!StartKilled, PM!StartDrained,
         PM!StartFinished, PM!Returns, PM!isBeingShutdown, PM!osVars,
         PMP!StartStep, PMP!StartLock, PMP!StartRefused, PMP!StartSpawnFails,
         PMP!StartSpawn, PMP!StartRegister, PMP!StartKilled, PMP!StartDrained,
         PMP!StartFinished, PMP!Returns, PMP!isBeingShutdown, PMP!osVars
<1>3. ASSUME NEW c \in Calls PROVE PM!ReaperStep(c) => PMP!ReaperStep(c)
  BY DEF PM!ReaperStep, PM!ReaperSend, PM!ReaperDone, PM!Exited, PM!osVars,
         PMP!ReaperStep, PMP!ReaperSend, PMP!ReaperDone, PMP!Exited, PMP!osVars
<1>4. ASSUME NEW c \in Calls PROVE PM!ChildStep(c) => PMP!ChildStep(c)
  BY DEF PM!ChildStep, PM!ChildExits, PM!OutputCloses, PM!Exited,
         PMP!ChildStep, PMP!ChildExits, PMP!OutputCloses, PMP!Exited
<1>5. PM!TerminateCall \/ PM!TerminateStep => PMP!TerminateCall \/ PMP!TerminateStep
  BY DEF PM!TerminateCall, PM!TerminateStep, PM!TerminateLock,
         PM!TerminateClose, PM!TerminateWait, PM!osVars,
         PMP!TerminateCall, PMP!TerminateStep, PMP!TerminateLock,
         PMP!TerminateClose, PMP!TerminateWait, PMP!osVars
<1>6. PMP!Next
  BY <1>1, <1>2, <1>3, <1>4, <1>5 DEF ManagerStep, ManagerAlone, PMP!Next
<1> QED
  BY <1>6, PMP!NextInv, CallsFinite, CallsAssumption

(* So does a step that does not involve it. *)
LEMMA ManagerIdle == PMP!IInv /\ UNCHANGED pmVars => PMP!IInv'
<1>1. UNCHANGED pmVars => UNCHANGED PMP!vars
  BY DEF pmVars, PMP!vars
<1> QED
  BY <1>1, PMP!NextInv, CallsFinite, CallsAssumption

(* Without a call of Start no call begins, a call that is pending has been *)
(* before, and one that has returned keeps its result.                     *)
LEMMA ManagerFrame ==
  ASSUME PMP!IInv, ManagerAlone, NEW c \in Calls
  PROVE  /\ startPc[c] = "idle" <=> startPc'[c] = "idle"
         /\ startPc[c] = "returned" => startPc'[c] = "returned"
         /\ startResult[c] # "none" => startResult'[c] = startResult[c]
<1> USE DEF PMP!IInv, PMP!TypeOK
<1>1. ASSUME NEW e \in Calls, PM!StartStep(e)
      PROVE  /\ startPc[e] \notin {"idle", "returned"}
             /\ \E p \in {"check", "register", "select", "drain", "returned"} :
                  startPc' = [startPc EXCEPT ![e] = p]
             /\ \A d \in Calls \ {e} : startResult'[d] = startResult[d]
  BY <1>1
     DEF PM!StartStep, PM!StartLock, PM!StartRefused, PM!StartSpawnFails,
         PM!StartSpawn, PM!StartRegister, PM!StartKilled, PM!StartDrained,
         PM!StartFinished, PM!Returns
<1>2. ASSUME NEW e \in Calls, PM!StartStep(e) PROVE startResult[e] = "none"
  BY <1>1, <1>2 DEF PMP!ManagerInv, PMP!CallInv
<1>3. ASSUME \/ \E e \in Calls : PM!ReaperStep(e) \/ PM!ChildStep(e)
             \/ PM!TerminateCall
             \/ PM!TerminateStep
      PROVE  UNCHANGED <<startPc, startResult>>
  BY <1>3
     DEF PM!ReaperStep, PM!ReaperSend, PM!ReaperDone, PM!ChildStep,
         PM!ChildExits, PM!OutputCloses, PM!TerminateCall, PM!TerminateStep,
         PM!TerminateLock, PM!TerminateClose, PM!TerminateWait
<1> QED
  BY <1>1, <1>2, <1>3 DEF ManagerAlone

(* A call of Start that begins leaves the other calls alone. *)
LEMMA CallFrame ==
  ASSUME PMP!IInv, NEW c \in Calls, PM!StartCall(c)
  PROVE  /\ startPc[c] = "idle" /\ startPc'[c] = "lock"
         /\ \A e \in Calls \ {c} : startPc'[e] = startPc[e]
         /\ startResult' = startResult
BY DEF PMP!IInv, PMP!TypeOK, PM!StartCall

-----------------------------------------------------------------------------
(* The executor inside the program *)

(* A step of job j in the executor. *)
ExecutorStep(j) ==
  EX!Fire(j) \/ EX!JobStep(j) \/ EX!FolderStep(j) \/ EX!WalkPanics(j)

(* A new executor satisfies the executor's invariant. *)
LEMMA ExecutorInit == EX!Init => EXP!IInv
<1>1. EX!Init => EXP!Init
  BY DEF EX!Init, EX!Dests, EXP!Init, EXP!Dests
<1>2. Configs \subseteq EXP!BackupConfig
  BY ConfigsAssumption DEF EX!BackupConfig, EXP!BackupConfig
<1>3. EXP!Init => EXP!IInv
  BY <1>2, EXP!InitInv, NumDestsAssumption, JobsAssumption
<1> QED
  BY <1>1, <1>3

(* Those steps are the ones ExecutorProofs is about. *)
LEMMA SameStep ==
  ASSUME NEW j \in Jobs, ExecutorStep(j)
  PROVE  EXP!Fire(j) \/ EXP!JobStep(j) \/ EXP!FolderStep(j) \/ EXP!WalkPanics(j)
<1>1. EX!OwnStep(j) => EXP!OwnStep(j)
  BY DEF EX!OwnStep, EX!IdentifySkipped, EX!IdentifyCall, EX!IdentifyReturn,
         EX!BackupAdmitted, EX!BackupRejected, EX!PerformSkipped,
         EX!UploadDone, EX!Measure, EX!CleanupSkipped, EX!DoneBackup,
         EX!Move, EX!Leave, EX!Goto, EX!uploadVars, EX!Dests,
         EXP!OwnStep, EXP!IdentifySkipped, EXP!IdentifyCall, EXP!IdentifyReturn,
         EXP!BackupAdmitted, EXP!BackupRejected, EXP!PerformSkipped,
         EXP!UploadDone, EXP!Measure, EXP!CleanupSkipped, EXP!DoneBackup,
         EXP!Move, EXP!Leave, EXP!Goto, EXP!uploadVars, EXP!Dests
<1>2. EX!CommandStep(j) => EXP!CommandStep(j)
  BY DEF EX!CommandStep, EX!PerformCall, EX!PerformReturn, EX!CleanupCall,
         EX!CleanupReturn, EX!Move, EX!Leave, EX!Goto, EX!uploadVars,
         EXP!CommandStep, EXP!PerformCall, EXP!PerformReturn, EXP!CleanupCall,
         EXP!CleanupReturn, EXP!Move, EXP!Leave, EXP!Goto, EXP!uploadVars
<1>3. EX!UploadStep(j) => EXP!UploadStep(j)
  BY DEF EX!UploadStep, EX!UploadCall, EX!UploadReturn, EX!Goto, EX!Dests,
         EXP!UploadStep, EXP!UploadCall, EXP!UploadReturn, EXP!Goto, EXP!Dests
<1>4. EX!ReportStep(j) \/ EX!Fire(j) => EXP!ReportStep(j) \/ EXP!Fire(j)
  BY DEF EX!ReportStep, EX!JobSilent, EX!AlertCall, EX!AlertReturn, EX!Fire,
         EX!Move, EX!Goto, EX!uploadVars,
         EXP!ReportStep, EXP!JobSilent, EXP!AlertCall, EXP!AlertReturn,
         EXP!Fire, EXP!Move, EXP!Goto, EXP!uploadVars
<1>5. EX!FolderStep(j) \/ EX!WalkPanics(j) => EXP!FolderStep(j) \/ EXP!WalkPanics(j)
  BY DEF EX!FolderStep, EX!CreatorWrites, EX!CleanupRemoves, EX!WalkPanics,
         EX!uploadVars,
         EXP!FolderStep, EXP!CreatorWrites, EXP!CleanupRemoves, EXP!WalkPanics,
         EXP!uploadVars
<1> QED
  BY <1>1, <1>2, <1>3, <1>4, <1>5 DEF ExecutorStep, EX!JobStep, EXP!JobStep

(* Every step of a job preserves it. *)
LEMMA ExecutorKeeps ==
  ASSUME EXP!IInv, NEW j \in Jobs, ExecutorStep(j)
  PROVE  EXP!IInv'
<1>1. Configs \subseteq EXP!BackupConfig
  BY ConfigsAssumption DEF EX!BackupConfig, EXP!BackupConfig
<1> QED
  BY <1>1, SameStep, EXP!JobStepInv, NumDestsAssumption, JobsAssumption

(* So does a step that does not involve it. *)
LEMMA ExecutorIdle == EXP!IInv /\ UNCHANGED exVars => EXP!IInv'
<1>1. UNCHANGED exVars => UNCHANGED EXP!vars
  BY DEF exVars, EXP!vars
<1>2. Configs \subseteq EXP!BackupConfig
  BY ConfigsAssumption DEF EX!BackupConfig, EXP!BackupConfig
<1> QED
  BY <1>1, <1>2, EXP!NextInv, NumDestsAssumption, JobsAssumption

(* Which parts of the other jobs, and which facts about its own job, no    *)
(* step of the executor takes back.                                        *)
LEMMA ExecutorFrame ==
  ASSUME EXP!IInv, NEW j \in Jobs, ExecutorStep(j)
  PROVE  /\ conf' = conf
         /\ \A k \in Jobs \ {j} :
              /\ pc'[k] = pc[k] /\ next'[k] = next[k]
              /\ failed'[k] = failed[k] /\ verdict'[k] = verdict[k]
              /\ stored'[k] = stored[k]
         /\ verdict[j] = "ok" => verdict'[j] = "ok"
<1> USE DEF EXP!IInv, EXP!TypeOK
<1>1. ASSUME EX!OwnStep(j) \/ EX!CommandStep(j)
      PROVE  /\ UNCHANGED <<conf, next, failed, stored>>
             /\ pc[j] \notin {"returned", "alerting", "done"}
             /\ verdict' # verdict => pc[j] # "release"
             /\ \A k \in Jobs \ {j} : pc'[k] = pc[k] /\ verdict'[k] = verdict[k]
  BY <1>1
     DEF EX!OwnStep, EX!IdentifySkipped, EX!IdentifyCall, EX!IdentifyReturn,
         EX!BackupAdmitted, EX!BackupRejected, EX!PerformSkipped,
         EX!UploadDone, EX!Measure, EX!CleanupSkipped, EX!DoneBackup,
         EX!CommandStep, EX!PerformCall, EX!PerformReturn, EX!CleanupCall,
         EX!CleanupReturn, EX!Move, EX!Leave, EX!Goto, EX!uploadVars
<1>2. ASSUME EX!UploadStep(j) \/ EX!ReportStep(j) \/ EX!Fire(j) \/
             EX!FolderStep(j) \/ EX!WalkPanics(j)
      PROVE  /\ UNCHANGED <<conf, verdict>>
             /\ \A k \in Jobs \ {j} :
                  /\ pc'[k] = pc[k] /\ next'[k] = next[k]
                  /\ failed'[k] = failed[k] /\ stored'[k] = stored[k]
  BY <1>2
     DEF EX!UploadStep, EX!UploadCall, EX!UploadReturn, EX!ReportStep,
         EX!JobSilent, EX!AlertCall, EX!AlertReturn, EX!Fire, EX!FolderStep,
         EX!CreatorWrites, EX!CleanupRemoves, EX!WalkPanics, EX!Move, EX!Goto,
         EX!uploadVars
<1>3. verdict[j] = "none" <=> pc[j] \notin {"release", "returned", "alerting", "done"}
  BY DEF EXP!ExecutorInv, EXP!ProgressInv
<1> QED
  BY <1>1, <1>2, <1>3 DEF ExecutorStep, EX!JobStep

-----------------------------------------------------------------------------
(* The program *)

(* The calls of Start a job makes are calls. *)
LEMMA CallsOfJob ==
  ASSUME NEW j \in Jobs
  PROVE  /\ CreatorOf[j] \in Calls /\ CleanupOf[j] \in Calls
         /\ \A d \in EX!Dests, n \in 1..MaxFiles : CopyOf[j][d][n] \in Calls
<1>1. CreatorOf[j] \in Calls /\ CleanupOf[j] \in Calls
  BY CallsOfJobsAssumption
<1>2. CopyOf[j] \in [1..NumDests -> [1..MaxFiles -> Calls]]
  BY CallsOfJobsAssumption
<1>3. \A d \in 1..NumDests : CopyOf[j][d] \in [1..MaxFiles -> Calls]
  BY <1>2
<1>4. \A d \in 1..NumDests : \A n \in 1..MaxFiles : CopyOf[j][d][n] \in Calls
  BY <1>3
<1> QED
  BY <1>1, <1>4 DEF EX!Dests

(* The copy an scp client is about to make, or makes, is one of them. *)
LEMMA CopyIsCall ==
  ASSUME IInv, NEW j \in Jobs, copied[j] < files[j], pc[j] = "uploading"
  PROVE  /\ next[j] \in EX!Dests /\ copied[j] + 1 \in 1..MaxFiles
         /\ CurrentCopy(j) \in Calls
<1>1. next[j] \in EX!Dests
  BY DEF IInv, EXP!IInv, EXP!ExecutorInv, EXP!ProgressInv, EXP!Dests, EX!Dests
<1>2. copied[j] + 1 \in 1..MaxFiles
  BY MaxFilesAssumption DEF IInv, OwnTypeOK, SC!TypeOK
<1> QED
  BY <1>1, <1>2, CallsOfJob DEF CurrentCopy

(* The calls in progress, the scp clients and the results depend on no     *)
(* other part of the state than this.                                      *)
jobVars == <<startPc, startResult, conf, pc, next, failed, verdict, stored, scVars,
             uploaders>>

LEMMA JobsIdle ==
  ASSUME ProgramInv, UNCHANGED jobVars
  PROVE  WaitingInv' /\ \A j \in Jobs : ScpInv(j)' /\ ResultInv(j)'
<1>1. WaitingInv'
  BY DEF ProgramInv, jobVars, scVars, WaitingInv, WaitsFor, CurrentCopy
<1>2. \A j \in Jobs : ScpInv(j)'
  BY DEF ProgramInv, jobVars, scVars, ScpInv, IsScp
<1>3. \A j \in Jobs : ResultInv(j)'
  BY DEF ProgramInv, jobVars, scVars, ResultInv, ErrorPending, Succeeded,
         CurrentCopy, IsScp
<1> QED
  BY <1>1, <1>2, <1>3

(* A step that activates no job and leaves the start-up alone. *)
LEMMA StartIdle ==
  ASSUME ProgramInv, UNCHANGED mainVars,
         \A j \in Jobs : pc'[j] # "idle" => pc[j] # "idle"
  PROVE  StartInv'
BY DEF ProgramInv, mainVars, startVars, signalVars, StartInv, Daemon, NoDestinations

(* What is said about the end of the program holds while it runs. *)
LEMMA StillRunning ==
  ASSUME status' = "running"
  PROVE  StatusInv' /\ ExitLeavesNoCommand' /\ DaemonStays'
BY DEF StatusInv, ExitLeavesNoCommand, DaemonStays, Exited

(* If no job is at work no command is. *)
LEMMA NoCommandWithoutJob ==
  ASSUME IInv, \A j \in Jobs : pc[j] \notin {"performing", "uploading", "cleaning"}
  PROVE  \A c \in Calls : ~PM!Alive(c)
<1> SUFFICES ASSUME NEW c \in Calls PROVE ~PM!Alive(c)
  OBVIOUS
<1>1. startPc[c] \in {"idle", "returned"}
  BY DEF IInv, ProgramInv, WaitingInv, WaitsFor, ScpInv
<1> QED
  BY <1>1 DEF IInv, PMP!IInv, PMP!TypeOK, PMP!ManagerInv, PMP!CallInv,
              PMP!Exited, PM!Alive

(* A program that exits while no job is at work leaves no command behind.  *)
LEMMA QuietExit ==
  ASSUME IInv, UNCHANGED pmVars, \A j \in Jobs : pc[j] \in {"idle", "returned"}
  PROVE  ExitLeavesNoCommand'
<1>1. \A c \in Calls : ~PM!Alive(c)
  BY NoCommandWithoutJob
<1>2. \A c \in Calls : PM!Alive(c)' <=> PM!Alive(c)
  BY DEF pmVars, PM!Alive
<1> QED
  BY <1>1, <1>2 DEF ExitLeavesNoCommand

(* The steps of the start-up (main.go:32-66, manual-backup/main.go:25-41). *)
LEMMA StartupKeeps ==
  ASSUME IInv, Up, StartupAlone
  PROVE  OwnTypeOK' /\ ProgramInv'
<1> USE DEF IInv
<1>1. UNCHANGED <<pmVars, exVars, scVars, signalVars>> /\ status = "running"
  BY DEF StartupAlone, Up
<1>2. SC!TypeOK' /\ UNCHANGED <<cron, signalled, late, configVars>>
  BY <1>1
     DEF OwnTypeOK, SC!TypeOK, scVars, signalVars, StartupAlone, StartupStep,
         Parse, ParseFails, Initialize, InitializeFails, NewScheduler,
         NewSchedulerFails, Exit
<1>3. \A j \in Jobs : pc[j] = "idle"
  BY DEF ProgramInv, StartInv, StartupAlone, StartupStep, Parse, ParseFails,
         Initialize, InitializeFails, NewScheduler, NewSchedulerFails
<1>4. ASSUME UNCHANGED uploaders
      PROVE  WaitingInv' /\ \A j \in Jobs : ScpInv(j)' /\ ResultInv(j)'
  BY <1>1, <1>4, JobsIdle DEF jobVars, pmVars, exVars
<1>5. CASE Parse
  <2>1. StartTypeOK'
    BY <1>2, <1>5 DEF OwnTypeOK, StartTypeOK, Parse, configVars
  <2>2. StartInv'
    BY <1>1, <1>2, <1>3, <1>5
       DEF ProgramInv, StartInv, Parse, configVars, exVars, Daemon, NoDestinations
  <2> QED
    BY <1>1, <1>2, <1>4, <1>5, <2>1, <2>2, StillRunning
       DEF Parse, OwnTypeOK, ProgramInv
<1>6. CASE Initialize
  <2>1. StartTypeOK'
    BY <1>2, <1>6 DEF OwnTypeOK, StartTypeOK, Initialize, configVars
  <2>2. StartInv'
    BY <1>1, <1>2, <1>3, <1>6
       DEF ProgramInv, StartInv, Initialize, configVars, exVars, Daemon,
           NoDestinations, Client
  <2>3. \A j \in Jobs : step[j] = "out"
    BY <1>3 DEF ProgramInv, ScpInv
  <2>4. WaitingInv'
    BY <1>1
       DEF ProgramInv, pmVars, exVars, scVars, WaitingInv, WaitsFor, CurrentCopy
  <2>5. \A j \in Jobs : ScpInv(j)'
    BY <1>1, <2>3 DEF ProgramInv, ScpInv, scVars
  <2>6. \A j \in Jobs : ResultInv(j)'
    BY <1>1, <1>3, <2>3
       DEF ProgramInv, ResultInv, ErrorPending, Succeeded, pmVars, exVars, scVars
  <2> QED
    BY <1>1, <1>2, <1>6, <2>1, <2>2, <2>4, <2>5, <2>6, StillRunning
       DEF Initialize, OwnTypeOK, ProgramInv
<1>7. CASE NewScheduler
  <2>1. StartTypeOK'
    BY <1>2, <1>7 DEF OwnTypeOK, StartTypeOK, NewScheduler, configVars
  <2>2. StartInv'
    BY <1>1, <1>2, <1>3, <1>7
       DEF ProgramInv, StartInv, NewScheduler, configVars, exVars, Daemon,
           NoDestinations
  <2> QED
    BY <1>1, <1>2, <1>4, <1>7, <2>1, <2>2, StillRunning
       DEF NewScheduler, OwnTypeOK, ProgramInv
<1>8. CASE ParseFails \/ InitializeFails \/ NewSchedulerFails
  <2>1. Exit("exit 2")
    BY <1>8 DEF ParseFails, InitializeFails, NewSchedulerFails
  <2>2. StartTypeOK'
    BY <1>2, <2>1 DEF OwnTypeOK, StartTypeOK, Exit, configVars
  <2>3. StartInv'
    BY <1>1, <1>2, <2>1
       DEF ProgramInv, StartInv, Exit, configVars, exVars, Daemon, NoDestinations
  <2>4. DaemonStays'
    <3>1. CASE ParseFails
      BY <2>1, <3>1 DEF ParseFails, Exit, DaemonStays
    <3>2. CASE InitializeFails
      <4>1. ~NoDestinations
        <5>1. DOMAIN <<>> = {}
          OBVIOUS
        <5>2. DOMAIN destinations # {}
          BY <3>2 DEF InitializeFails
        <5> QED
          BY <5>1, <5>2 DEF NoDestinations
      <4> QED
        BY <1>2, <2>1, <3>2, <4>1
           DEF InitializeFails, Exit, DaemonStays, NoDestinations, configVars
    <3>3. CASE NewSchedulerFails
      <4>1. schedule \in {"valid", "invalid", "missing"}
        BY SchedulesAssumption DEF OwnTypeOK, StartTypeOK
      <4> QED
        BY <1>2, <2>1, <3>3, <4>1
           DEF NewSchedulerFails, CronSchedule, Exit, DaemonStays,
               NoDestinations, configVars
    <3> QED
      BY <1>8, <3>1, <3>2, <3>3
  <2>5. StatusInv'
    BY <2>1 DEF Exit, StatusInv
  <2>6. ExitLeavesNoCommand'
    BY <1>1, <1>3, QuietExit
  <2> QED
    BY <1>1, <1>2, <1>4, <2>1, <2>2, <2>3, <2>4, <2>5, <2>6
       DEF Exit, OwnTypeOK, ProgramInv
<1> QED
  BY <1>5, <1>6, <1>7, <1>8 DEF StartupAlone, StartupStep

(* The end of manual-backup (manual-backup/main.go:70-74). *)
LEMMA MainEndsKeeps ==
  ASSUME IInv, Up, ExecuteDummy \/ MainEnds
  PROVE  OwnTypeOK' /\ ProgramInv'
<1> USE DEF IInv
<1>1. PICK code \in {"exit 0", "exit 2"} : Exit(code)
  BY DEF ExecuteDummy, MainEnds
<1>2. UNCHANGED <<pmVars, exVars, scVars, signalVars>> /\ status = "running"
  BY DEF ExecuteDummy, MainEnds, Up
<1>3. OwnTypeOK'
  BY <1>1, <1>2
     DEF OwnTypeOK, StartTypeOK, SC!TypeOK, scVars, signalVars, Exit, configVars
<1>4. WaitingInv' /\ \A j \in Jobs : ScpInv(j)' /\ ResultInv(j)'
  BY <1>1, <1>2, JobsIdle DEF jobVars, pmVars, exVars, Exit
<1>5. StartInv'
  BY <1>1, <1>2
     DEF ProgramInv, StartInv, Exit, configVars, exVars, signalVars, Daemon,
         NoDestinations
<1>6. ~Daemon
  BY DEF ProgramInv, StartInv, ExecuteDummy, MainEnds
<1>7. DaemonStays'
  BY <1>1, <1>6 DEF DaemonStays, Daemon, Exit, configVars
<1>8. StatusInv'
  <2>1. status' = "exit 0" =>
          NoDestinations \/ \E j \in Jobs : pc[j] = "returned" /\ verdict[j] = "ok"
    BY DEF ExecuteDummy, MainEnds, Exit
  <2> QED
    BY <1>1, <1>2, <1>6, <2>1
       DEF StatusInv, Daemon, NoDestinations, Exit, configVars, exVars
<1>9. \A j \in Jobs : pc[j] \in {"idle", "returned"}
  BY <1>6 DEF ProgramInv, StartInv, ExecuteDummy, MainEnds
<1>10. ExitLeavesNoCommand'
  BY <1>2, <1>9, QuietExit
<1> QED
  BY <1>3, <1>4, <1>5, <1>7, <1>8, <1>10 DEF ProgramInv

(* An activation, by cron or by manual-backup's main (scheduler.go:31-33,  *)
(* manual-backup/main.go:70).                                              *)
LEMMA FireKeeps ==
  ASSUME IInv, Up, Execute \/ \E j \in Jobs : CronFires(j)
  PROVE  OwnTypeOK' /\ ProgramInv'
<1> USE DEF IInv
<1>1. PICK j \in Jobs : EX!Fire(j)
  BY DEF Execute, CronFires
<1>2. /\ pc[j] = "idle" /\ pc'[j] = "identify"
      /\ \A k \in Jobs \ {j} : pc'[k] = pc[k]
      /\ UNCHANGED <<conf, next, failed, verdict, stored>>
  BY <1>1 DEF EX!Fire, EX!Move, EX!Goto, EX!uploadVars, EXP!IInv, EXP!TypeOK
<1>3. /\ UNCHANGED <<pmVars, scVars, configVars, uploaders, handler, status, cron, signalled>>
      /\ status = "running"
  BY DEF Execute, CronFires, Up, startVars, configVars, signalVars
<1>4. OwnTypeOK'
  BY <1>3
     DEF Execute, CronFires, OwnTypeOK, StartTypeOK, SC!TypeOK, scVars,
         signalVars, startVars, configVars
<1>5. StartInv'
  <2>1. CASE Execute
    <3>1. \A k \in Jobs : pc[k] = "idle"
      BY <2>1 DEF Execute, ProgramInv, StartInv
    <3> QED
      BY <1>2, <1>3, <2>1, <3>1
         DEF Execute, ProgramInv, StartInv, Daemon, NoDestinations, configVars
  <2>2. CASE \E k \in Jobs : CronFires(k)
    <3>1. main = "run" /\ Daemon /\ ~NoDestinations
      BY <2>2 DEF CronFires, ProgramInv, StartInv
    <3>2. main' = main
      BY <2>2 DEF CronFires, startVars
    <3> QED
      BY <1>2, <1>3, <3>1, <3>2
         DEF ProgramInv, StartInv, Daemon, NoDestinations, configVars
  <2> QED
    BY <2>1, <2>2
<1>6. WaitingInv'
  BY <1>2, <1>3
     DEF ProgramInv, WaitingInv, WaitsFor, CurrentCopy, pmVars, scVars
<1>7. \A k \in Jobs : ScpInv(k)'
  BY <1>2, <1>3 DEF ProgramInv, ScpInv, IsScp, scVars
<1>8. \A k \in Jobs : ResultInv(k)'
  BY <1>2, <1>3
     DEF ProgramInv, ResultInv, ErrorPending, IsScp, Succeeded, CurrentCopy,
         pmVars, scVars
<1> QED
  BY <1>3, <1>4, <1>5, <1>6, <1>7, <1>8, StillRunning DEF ProgramInv

(* Run starts cron, the signal arrives, and the handler stops cron and     *)
(* calls Terminate (scheduler.go:53-59, main.go:68-79).                    *)
LEMMA HandlerKeeps ==
  ASSUME IInv, Up,
         CronStart \/ SignalArrives \/ HandlerStopsCron \/ HandlerTerminates
  PROVE  OwnTypeOK' /\ ProgramInv'
<1> USE DEF IInv
<1>1. /\ UNCHANGED <<exVars, scVars, configVars, main, uploaders, status, late>>
      /\ UNCHANGED <<startPc, startResult>>
      /\ status = "running"
  BY DEF CronStart, SignalArrives, HandlerStopsCron, HandlerTerminates,
         PM!TerminateCall, pmVars, startVars, configVars, signalVars, Up
<1>2. OwnTypeOK'
  BY <1>1
     DEF CronStart, SignalArrives, HandlerStopsCron, HandlerTerminates,
         OwnTypeOK, StartTypeOK, SC!TypeOK, scVars, startVars, signalVars,
         configVars
<1>3. StartInv'
  BY <1>1
     DEF CronStart, SignalArrives, HandlerStopsCron, HandlerTerminates,
         ProgramInv, StartInv, Daemon, NoDestinations, exVars, startVars,
         signalVars, configVars
<1>4. WaitingInv' /\ \A j \in Jobs : ScpInv(j)' /\ ResultInv(j)'
  BY <1>1, JobsIdle DEF jobVars, exVars
<1> QED
  BY <1>1, <1>2, <1>3, <1>4, StillRunning DEF ProgramInv

(* The handler exits once Terminate has returned (main.go:79-81). *)
LEMMA HandlerExitsKeeps ==
  ASSUME IInv, HandlerExits
  PROVE  OwnTypeOK' /\ ProgramInv'
<1> USE DEF IInv
<1>1. UNCHANGED <<pmVars, exVars, scVars, signalVars>> /\ Exit("exit 1")
  BY DEF HandlerExits
<1>2. OwnTypeOK'
  BY <1>1
     DEF OwnTypeOK, StartTypeOK, SC!TypeOK, scVars, signalVars, Exit, configVars
<1>3. StartInv'
  BY <1>1
     DEF ProgramInv, StartInv, Exit, configVars, exVars, signalVars, Daemon,
         NoDestinations
<1>4. WaitingInv' /\ \A j \in Jobs : ScpInv(j)' /\ ResultInv(j)'
  BY <1>1, JobsIdle DEF jobVars, pmVars, exVars, Exit
<1>5. StatusInv' /\ DaemonStays'
  <2>1. signalled
    BY DEF HandlerExits, ProgramInv, StartInv
  <2>2. signalled' /\ status' = "exit 1"
    BY <1>1, <2>1 DEF signalVars, Exit
  <2> QED
    BY <2>2 DEF StatusInv, DaemonStays
<1>6. ExitLeavesNoCommand'
  <2>1. \A c \in Calls : ~PM!Alive(c)
    BY DEF HandlerExits, PMP!IInv, PMP!TypeOK, PMP!ManagerInv, PMP!LockInv,
           PMP!CallInv, PMP!WaitGroupInv, PMP!Outstanding, PMP!Exited, PM!Alive
  <2> QED
    BY <1>1, <2>1 DEF ExitLeavesNoCommand, pmVars, PM!Alive
<1> QED
  BY <1>2, <1>3, <1>4, <1>5, <1>6 DEF ProgramInv

(* The manager on its own, while the program runs (manager.go:37-78). *)
LEMMA ManagerAloneKeeps ==
  ASSUME IInv, Up, ManagerAlone, UNCHANGED <<exVars, scVars, mainVars>>
  PROVE  OwnTypeOK' /\ ProgramInv'
<1> USE DEF IInv
<1>1. OwnTypeOK'
  BY DEF OwnTypeOK, StartTypeOK, SC!TypeOK, scVars, mainVars, startVars, signalVars
<1>2. StartInv'
  BY StartIdle DEF exVars
<1>3. UNCHANGED <<conf, pc, next, failed, verdict, stored, step, keyFile, files,
                  copied, scpResult, uploaders, status>>
  BY DEF exVars, scVars, mainVars, startVars
<1>4. WaitingInv'
  <2>1. \A c \in Calls : startPc'[c] \notin {"idle", "returned"}
                           => startPc[c] \notin {"idle", "returned"}
    BY ManagerFrame
  <2> QED
    BY <1>3, <2>1 DEF ProgramInv, WaitingInv, WaitsFor, CurrentCopy
<1>5. \A j \in Jobs : ScpInv(j)'
  BY <1>3 DEF ProgramInv, ScpInv, IsScp
<1>6. ASSUME NEW j \in Jobs PROVE ResultInv(j)'
  <2>1. \A c \in Calls : /\ startPc'[c] # "idle" => startPc[c] # "idle"
                         /\ Succeeded(c) => Succeeded(c)'
    BY ManagerFrame DEF Succeeded
  <2> QED
    BY <1>3, <2>1, CallsOfJob
       DEF ProgramInv, ResultInv, ErrorPending, IsScp, CurrentCopy
<1>7. status' = "running"
  BY <1>3 DEF Up
<1> QED
  BY <1>1, <1>2, <1>4, <1>5, <1>6, <1>7, StillRunning DEF ProgramInv

(* The processes, whether or not the program still runs. *)
LEMMA ProcessesKeep ==
  ASSUME IInv, \/ \E c \in Calls : ChildAlone(c)
               \/ \E j \in Jobs : CommandWrites(j)
  PROVE  OwnTypeOK' /\ ProgramInv'
<1> USE DEF IInv
<1>1. /\ UNCHANGED <<scVars, mainVars, startPc, startResult, conf, pc, next, failed,
                     verdict, stored>>
      /\ \A c \in Calls : PM!Alive(c)' => PM!Alive(c)
  <2>1. ASSUME NEW c \in Calls, ChildAlone(c)
        PROVE  \A e \in Calls : PM!Alive(e)' => PM!Alive(e)
    BY <2>1
       DEF ChildAlone, PM!ChildStep, PM!ChildExits, PM!OutputCloses, PM!Exited,
           PM!Alive, PMP!IInv, PMP!TypeOK
  <2>2. ASSUME NEW j \in Jobs, CommandWrites(j)
        PROVE  \A e \in Calls : PM!Alive(e)' => PM!Alive(e)
    BY <2>2 DEF CommandWrites, pmVars, PM!Alive
  <2> QED
    BY <2>1, <2>2
       DEF ChildAlone, PM!ChildStep, PM!ChildExits, PM!OutputCloses,
           CommandWrites, EX!CreatorWrites, EX!CleanupRemoves, EX!uploadVars,
           exVars, pmVars
<1>2. OwnTypeOK'
  BY <1>1
     DEF OwnTypeOK, StartTypeOK, SC!TypeOK, scVars, mainVars, startVars, signalVars
<1>3. StartInv'
  BY <1>1, StartIdle
<1>4. WaitingInv' /\ \A j \in Jobs : ScpInv(j)' /\ ResultInv(j)'
  BY <1>1, JobsIdle DEF jobVars, mainVars, startVars
<1>5. StatusInv' /\ DaemonStays'
  BY <1>1
     DEF ProgramInv, StatusInv, DaemonStays, Daemon, NoDestinations, Exited,
         mainVars, startVars, signalVars
<1>6. ExitLeavesNoCommand'
  BY <1>1 DEF ProgramInv, ExitLeavesNoCommand, Exited, mainVars, startVars
<1> QED
  BY <1>2, <1>3, <1>4, <1>5, <1>6 DEF ProgramInv

-----------------------------------------------------------------------------
(* The steps of a job *)

(* What job k has done and is doing does not change. *)
SameJob(k) ==
  /\ pc'[k] = pc[k] /\ next'[k] = next[k] /\ failed'[k] = failed[k]
  /\ verdict'[k] = verdict[k] /\ stored'[k] = stored[k]
  /\ step'[k] = step[k] /\ keyFile'[k] = keyFile[k] /\ files'[k] = files[k]
  /\ copied'[k] = copied[k] /\ scpResult'[k] = scpResult[k]

(* No call of job k begins or ends. *)
SameCalls(k) ==
  /\ startPc'[CleanupOf[k]] = startPc[CleanupOf[k]]
  /\ \A d \in EX!Dests, n \in 1..MaxFiles :
       startPc'[CopyOf[k][d][n]] = startPc[CopyOf[k][d][n]]
  /\ startResult' = startResult

(* The invariants of a job speak of that job only. *)
LEMMA OtherJob ==
  ASSUME IInv, NEW k \in Jobs, SameJob(k), SameCalls(k), UNCHANGED <<conf, uploaders>>
  PROVE  ScpInv(k)' /\ ResultInv(k)'
<1>1. ScpInv(k)'
  BY DEF IInv, ProgramInv, ScpInv, SameJob, IsScp
<1>2. ErrorPending(k)' <=> ErrorPending(k)
  BY DEF ErrorPending, IsScp, SameJob
<1>3. CurrentCopy(k)' = CurrentCopy(k)
  BY DEF CurrentCopy, SameJob
<1>4. ResultInv(k)'
  BY <1>2, <1>3
     DEF IInv, ProgramInv, ResultInv, Succeeded, SameJob, SameCalls
<1> QED
  BY <1>1, <1>4

(* A pending call keeps its job if the job that moves waits on for it. *)
LEMMA WaitingKept ==
  ASSUME IInv, NEW j \in Jobs, \A k \in Jobs \ {j} : SameJob(k),
         \A c \in Calls : startPc'[c] \notin {"idle", "returned"} =>
           /\ startPc[c] \notin {"idle", "returned"} \/ WaitsFor(j, c)'
           /\ WaitsFor(j, c) => WaitsFor(j, c)'
  PROVE  WaitingInv'
<1>1. \A k \in Jobs \ {j}, c \in Calls : WaitsFor(k, c) => WaitsFor(k, c)'
  BY DEF WaitsFor, CurrentCopy, SameJob
<1> SUFFICES ASSUME NEW c \in Calls, startPc'[c] \notin {"idle", "returned"}
             PROVE  \E k \in Jobs : WaitsFor(k, c)'
  BY DEF WaitingInv
<1>2. CASE WaitsFor(j, c)'
  BY <1>2
<1>3. CASE ~WaitsFor(j, c)'
  <2>1. PICK k \in Jobs : WaitsFor(k, c)
    BY <1>3 DEF IInv, ProgramInv, WaitingInv
  <2> QED
    BY <1>1, <1>3, <2>1
<1> QED
  BY <1>2, <1>3

(* What the steps of a job preserve, apart from the executor's state. *)
JobsOK == SC!TypeOK /\ WaitingInv /\ \A j \in Jobs : ScpInv(j) /\ ResultInv(j)

(* A step of job j in the executor alone leaves the other jobs alone. *)
LEMMA OthersInExecutor ==
  ASSUME IInv, NEW j \in Jobs, ExecutorStep(j), UNCHANGED <<pmVars, scVars>>,
         UNCHANGED uploaders
  PROVE  \A k \in Jobs \ {j} : SameJob(k) /\ ScpInv(k)' /\ ResultInv(k)'
<1> SUFFICES ASSUME NEW k \in Jobs \ {j}
             PROVE  SameJob(k) /\ ScpInv(k)' /\ ResultInv(k)'
  OBVIOUS
<1>1. SameJob(k) /\ conf' = conf
  BY ExecutorFrame DEF IInv, SameJob, scVars
<1>2. SameCalls(k)
  BY DEF SameCalls, pmVars
<1> QED
  BY <1>1, <1>2, OtherJob

(* The steps of Execute and of the scheduled function that call neither    *)
(* the manager nor a destination (executor.go:85-122, scheduler.go:34-46). *)
LEMMA JobAloneKeeps ==
  ASSUME IInv, NEW j \in Jobs, JobAlone(j)
  PROVE  JobsOK' /\ (pc'[j] # "idle" => pc[j] # "idle")
<1> USE DEF IInv
<1>1. UNCHANGED <<pmVars, scVars, mainVars>> /\ ExecutorStep(j)
  BY DEF JobAlone, ExecutorStep, EX!JobStep
<1>2. \A k \in Jobs \ {j} : SameJob(k) /\ ScpInv(k)' /\ ResultInv(k)'
  BY <1>1, OthersInExecutor DEF mainVars, startVars
<1>3. SC!TypeOK'
  BY <1>1 DEF OwnTypeOK, SC!TypeOK, scVars
<1>4. CASE EX!WalkPanics(j)
  BY <1>1, <1>3, <1>4, JobsIdle
     DEF EX!WalkPanics, EX!uploadVars, jobVars, pmVars, mainVars, startVars, JobsOK
<1>5. CASE EX!OwnStep(j) \/ EX!ReportStep(j)
  <2>1. /\ UNCHANGED <<conf, next, failed, stored>>
        /\ pc[j] \notin {"idle", "performing", "uploading", "cleaning"}
        /\ pc'[j] \notin {"performing", "uploading", "cleaning"}
        /\ conf.creator /\ pc'[j] \in {"upload", "measure", "cleanup"}
             => pc[j] \in {"upload", "measure"}
    BY <1>5
       DEF EXP!IInv, EXP!TypeOK, EX!OwnStep, EX!IdentifySkipped,
           EX!IdentifyCall, EX!IdentifyReturn, EX!BackupAdmitted,
           EX!BackupRejected, EX!PerformSkipped, EX!UploadDone, EX!Measure,
           EX!CleanupSkipped, EX!DoneBackup, EX!ReportStep, EX!JobSilent,
           EX!AlertCall, EX!AlertReturn, EX!Move, EX!Leave, EX!Goto,
           EX!uploadVars
  <2>2. verdict[j] = "ok" => verdict'[j] = "ok"
    BY <1>1, ExecutorFrame
  <2>3. step[j] = "out" /\ UNCHANGED <<step, keyFile, copied, scpResult>>
    BY <1>1, <2>1 DEF ProgramInv, ScpInv, scVars
  <2>4. ScpInv(j)'
    BY <2>3 DEF ProgramInv, ScpInv
  <2>5. ResultInv(j)'
    BY <1>1, <2>1, <2>2, <2>3
       DEF ProgramInv, ResultInv, ErrorPending, Succeeded, pmVars
  <2>6. WaitingInv'
    BY <1>1, <1>2, <2>1, <2>3, WaitingKept DEF WaitsFor, pmVars
  <2> QED
    BY <1>2, <1>3, <2>1, <2>4, <2>5, <2>6 DEF JobsOK
<1> QED
  BY <1>4, <1>5 DEF JobAlone

(* The creator and the cleanup command return (executor.go:124-144). *)
LEMMA CommandReturnKeeps ==
  ASSUME IInv, NEW j \in Jobs, PerformReturn(j) \/ CleanupReturn(j)
  PROVE  JobsOK' /\ (pc'[j] # "idle" => pc[j] # "idle")
<1> USE DEF IInv
<1>1. UNCHANGED <<pmVars, scVars, mainVars>> /\ ExecutorStep(j)
  <2>1. Succeeded(CreatorOf[j]) \in BOOLEAN
    BY DEF Succeeded
  <2> QED
    BY <2>1
       DEF PerformReturn, CleanupReturn, ExecutorStep, EX!JobStep, EX!CommandStep
<1>2. \A k \in Jobs \ {j} : SameJob(k) /\ ScpInv(k)' /\ ResultInv(k)'
  BY <1>1, OthersInExecutor DEF mainVars, startVars
<1>3. SC!TypeOK'
  BY <1>1 DEF OwnTypeOK, SC!TypeOK, scVars
<1>4. UNCHANGED <<conf, next, failed, stored, startPc, startResult>>
  BY <1>1
     DEF PerformReturn, EX!PerformReturn, CleanupReturn, EX!CleanupReturn,
         EX!uploadVars, pmVars
<1>5. /\ pc[j] \in {"performing", "cleaning"}
      /\ pc'[j] \in {"upload", "release"}
      /\ pc[j] = "performing" => startPc[CreatorOf[j]] = "returned"
      /\ pc[j] = "cleaning" => startPc[CleanupOf[j]] = "returned" /\ verdict'[j] = "ok"
      /\ pc'[j] = "upload" => Succeeded(CreatorOf[j])
  BY DEF PerformReturn, EX!PerformReturn, CleanupReturn, EX!CleanupReturn,
         EX!Leave, EX!Goto, Returned, EXP!IInv, EXP!TypeOK
<1>6. step[j] = "out" /\ UNCHANGED <<step, keyFile, copied, scpResult>>
  BY <1>1, <1>5 DEF ProgramInv, ScpInv, scVars
<1>7. ScpInv(j)'
  BY <1>6 DEF ProgramInv, ScpInv
<1>8. ResultInv(j)'
  <2>1. verdict[j] = "ok" => verdict'[j] = "ok"
    BY <1>1, ExecutorFrame
  <2> QED
    BY <1>4, <1>5, <1>6, <2>1
       DEF ProgramInv, ResultInv, ErrorPending, Succeeded
<1>9. WaitingInv'
  BY <1>2, <1>4, <1>5, <1>6, WaitingKept DEF WaitsFor
<1> QED
  BY <1>2, <1>3, <1>5, <1>7, <1>8, <1>9 DEF JobsOK

(* A call of Start made for job j leaves the other jobs alone, and of the  *)
(* calls of job j begins that one.                                         *)
LEMMA CallOfJob ==
  ASSUME IInv, NEW j \in Jobs, NEW c \in Calls, PM!StartCall(c),
         \/ c = CreatorOf[j]
         \/ c = CleanupOf[j]
         \/ \E d \in EX!Dests, n \in 1..MaxFiles : c = CopyOf[j][d][n]
  PROVE  \A k \in Jobs \ {j} : SameCalls(k)
<1> SUFFICES ASSUME NEW k \in Jobs \ {j} PROVE SameCalls(k)
  OBVIOUS
<1>1. CleanupOf[k] # c
  BY DistinctCallsAssumption DEF EX!Dests
<1>2. ASSUME NEW d \in EX!Dests, NEW n \in 1..MaxFiles PROVE CopyOf[k][d][n] # c
  BY DistinctCallsAssumption DEF EX!Dests
<1>3. /\ \A e \in Calls \ {c} : startPc'[e] = startPc[e]
      /\ startResult' = startResult
  BY CallFrame DEF IInv
<1> QED
  BY <1>1, <1>2, <1>3, CallsOfJob DEF SameCalls

(* The creator and the cleanup command are handed to Start                 *)
(* (executor.go:124-144).                                                  *)
LEMMA CommandCallKeeps ==
  ASSUME IInv, NEW j \in Jobs, PerformCall(j) \/ CleanupCall(j)
  PROVE  JobsOK' /\ (pc'[j] # "idle" => pc[j] # "idle")
<1> USE DEF IInv
<1>1. UNCHANGED <<scVars, mainVars>> /\ ExecutorStep(j)
  BY DEF PerformCall, CleanupCall, ExecutorStep, EX!JobStep, EX!CommandStep
<1>2. PICK c \in Calls :
        /\ PM!StartCall(c)
        /\ \/ pc'[j] = "performing" /\ c = CreatorOf[j]
           \/ pc'[j] = "cleaning" /\ c = CleanupOf[j]
  BY CallsOfJob
     DEF PerformCall, EX!PerformCall, CleanupCall, EX!CleanupCall, EX!Move,
         EX!Goto, EXP!IInv, EXP!TypeOK
<1>3. /\ UNCHANGED <<conf, next, failed, verdict, stored>>
      /\ \/ pc[j] = "perform" /\ pc'[j] = "performing"
         \/ pc[j] = "cleanup" /\ pc'[j] = "cleaning"
  BY DEF PerformCall, EX!PerformCall, CleanupCall, EX!CleanupCall, EX!Move,
         EX!Goto, EX!uploadVars, EXP!IInv, EXP!TypeOK
<1>4. /\ startPc[c] = "idle"
      /\ \A e \in Calls \ {c} : startPc'[e] = startPc[e]
      /\ startResult' = startResult
  BY <1>2, CallFrame
<1>5. \A k \in Jobs \ {j} : SameJob(k) /\ ScpInv(k)' /\ ResultInv(k)'
  <2> SUFFICES ASSUME NEW k \in Jobs \ {j}
               PROVE  SameJob(k) /\ ScpInv(k)' /\ ResultInv(k)'
    OBVIOUS
  <2>1. SameJob(k) /\ UNCHANGED <<conf, uploaders>>
    BY <1>1, ExecutorFrame DEF SameJob, scVars, mainVars, startVars
  <2>2. SameCalls(k)
    BY <1>2, CallOfJob
  <2> QED
    BY <2>1, <2>2, OtherJob
<1>6. SC!TypeOK'
  BY <1>1 DEF OwnTypeOK, SC!TypeOK, scVars
<1>7. step[j] = "out" /\ UNCHANGED <<step, keyFile, copied, scpResult>>
  BY <1>1, <1>3 DEF ProgramInv, ScpInv, scVars
<1>8. ScpInv(j)'
  BY <1>7 DEF ProgramInv, ScpInv
<1>9. ResultInv(j)'
  <2>1. startPc'[CleanupOf[j]] # "idle" => pc'[j] = "cleaning" \/ verdict'[j] = "ok"
    BY <1>2, <1>3, <1>4, CallsOfJob, DistinctCallsAssumption
       DEF ProgramInv, ResultInv
  <2>2. ASSUME NEW d \in EX!Dests, NEW n \in 1..MaxFiles,
               startPc'[CopyOf[j][d][n]] # "idle"
        PROVE  Succeeded(CopyOf[j][d][n])' \/ failed'[j]
    <3>1. CopyOf[j][d][n] # c
      BY <1>2, DistinctCallsAssumption DEF EX!Dests
    <3>2. startPc[CopyOf[j][d][n]] # "idle"
      BY <1>4, <2>2, <3>1, CallsOfJob
    <3> QED
      BY <1>3, <1>4, <1>7, <3>2
         DEF ProgramInv, ResultInv, ErrorPending, Succeeded
  <2> QED
    BY <1>3, <1>4, <2>1, <2>2 DEF ProgramInv, ResultInv, Succeeded
<1>10. WaitingInv'
  <2>1. \A e \in Calls : ~WaitsFor(j, e)
    BY <1>3, <1>7 DEF WaitsFor
  <2>2. WaitsFor(j, c)'
    BY <1>2 DEF WaitsFor
  <2>3. \A e \in Calls : startPc'[e] \notin {"idle", "returned"} =>
          startPc[e] \notin {"idle", "returned"} \/ WaitsFor(j, e)'
    BY <1>4, <2>2
  <2> QED
    BY <1>5, <2>1, <2>3, WaitingKept
<1> QED
  BY <1>3, <1>5, <1>6, <1>8, <1>9, <1>10 DEF JobsOK

(* A destination's Upload is called (multi_uploader.go:21-24). *)
LEMMA UploadCallKeeps ==
  ASSUME IInv, NEW j \in Jobs, UploadCall(j)
  PROVE  JobsOK' /\ (pc'[j] # "idle" => pc[j] # "idle")
<1> USE DEF IInv
<1>1. UNCHANGED <<pmVars, mainVars>> /\ ExecutorStep(j)
  BY DEF UploadCall, ExecutorStep, EX!JobStep, EX!UploadStep
<1>2. /\ UNCHANGED <<conf, next, failed, verdict, stored>>
      /\ pc[j] = "upload" /\ pc'[j] = "uploading"
  BY DEF UploadCall, EX!UploadCall, EX!Goto, EXP!IInv, EXP!TypeOK
<1>3. /\ step[j] = "out"
      /\ \/ step'[j] = "key" /\ IsScp(j) /\ scpResult'[j] = "none"
         \/ step'[j] = "out" /\ UNCHANGED <<keyFile, scpResult>>
      /\ \A k \in Jobs \ {j} : step'[k] = step[k] /\ keyFile'[k] = keyFile[k] /\
                               scpResult'[k] = scpResult[k]
      /\ UNCHANGED <<files, copied>>
      /\ SC!TypeOK'
  <2>1. step[j] = "out"
    BY <1>2 DEF ProgramInv, ScpInv
  <2>2. CASE IsScp(j) /\ SC!Upload(j)
    BY <2>1, <2>2 DEF SC!Upload, SC!Goto, OwnTypeOK, SC!TypeOK
  <2>3. CASE UNCHANGED scVars
    BY <2>1, <2>3 DEF scVars, OwnTypeOK, SC!TypeOK
  <2> QED
    BY <2>2, <2>3 DEF UploadCall
<1>4. \A k \in Jobs \ {j} : SameJob(k) /\ ScpInv(k)' /\ ResultInv(k)'
  <2> SUFFICES ASSUME NEW k \in Jobs \ {j}
               PROVE  SameJob(k) /\ ScpInv(k)' /\ ResultInv(k)'
    OBVIOUS
  <2>1. SameJob(k) /\ UNCHANGED <<conf, uploaders>>
    BY <1>1, <1>3, ExecutorFrame DEF SameJob, mainVars, startVars
  <2>2. SameCalls(k)
    BY <1>1 DEF SameCalls, pmVars
  <2> QED
    BY <2>1, <2>2, OtherJob
<1>5. ScpInv(j)'
  BY <1>1, <1>2, <1>3 DEF ProgramInv, ScpInv, IsScp, mainVars, startVars
<1>6. ResultInv(j)'
  BY <1>1, <1>2, <1>3 DEF ProgramInv, ResultInv, ErrorPending, Succeeded, pmVars
<1>7. WaitingInv'
  BY <1>1, <1>2, <1>3, <1>4, WaitingKept DEF WaitsFor, pmVars
<1> QED
  BY <1>2, <1>3, <1>4, <1>5, <1>6, <1>7 DEF JobsOK

(* A destination's Upload returns (multi_uploader.go:24-34). *)
LEMMA UploadReturnKeeps ==
  ASSUME IInv, NEW j \in Jobs, InProcessReturn(j) \/ ScpReturn(j)
  PROVE  JobsOK' /\ (pc'[j] # "idle" => pc[j] # "idle")
<1> USE DEF IInv
<1>1. PICK ok \in BOOLEAN :
        /\ EX!UploadReturn(j, ok)
        /\ ~IsScp(j) \/ (step[j] = "out" /\ ok = (scpResult[j] = "ok"))
  BY DEF InProcessReturn, ScpReturn
<1>2. UNCHANGED <<pmVars, scVars, mainVars>> /\ ExecutorStep(j)
  BY <1>1
     DEF InProcessReturn, ScpReturn, ExecutorStep, EX!JobStep, EX!UploadStep
<1>3. \A k \in Jobs \ {j} : SameJob(k) /\ ScpInv(k)' /\ ResultInv(k)'
  BY <1>2, OthersInExecutor DEF mainVars, startVars
<1>4. SC!TypeOK'
  BY <1>2 DEF OwnTypeOK, SC!TypeOK, scVars
<1>5. /\ UNCHANGED <<conf, verdict>>
      /\ pc[j] = "uploading" /\ pc'[j] = "upload"
      /\ failed'[j] = (failed[j] \/ ~ok)
  BY <1>1 DEF EX!UploadReturn, EX!Goto, EXP!IInv, EXP!TypeOK
<1>6. step[j] = "out" /\ UNCHANGED <<step, keyFile, copied, scpResult>>
  BY <1>1, <1>2 DEF ProgramInv, ScpInv, scVars
<1>7. ScpInv(j)'
  BY <1>6 DEF ProgramInv, ScpInv
<1>8. ResultInv(j)'
  <2>1. ErrorPending(j) => ~ok
    BY <1>1 DEF ErrorPending
  <2>2. failed[j] \/ ErrorPending(j) => failed'[j]
    BY <1>5, <2>1
  <2>3. \A d \in EX!Dests, n \in 1..MaxFiles :
          startPc'[CopyOf[j][d][n]] # "idle" =>
            Succeeded(CopyOf[j][d][n])' \/ failed'[j]
    BY <1>2, <1>6, <2>2 DEF ProgramInv, ResultInv, Succeeded, pmVars
  <2> QED
    BY <1>2, <1>5, <2>3 DEF ProgramInv, ResultInv, Succeeded, pmVars
<1>9. WaitingInv'
  BY <1>2, <1>3, <1>5, <1>6, WaitingKept DEF WaitsFor, pmVars
<1> QED
  BY <1>3, <1>4, <1>5, <1>7, <1>8, <1>9 DEF JobsOK

(* A step of job j's scp client leaves the other jobs alone. *)
LEMMA OthersInScp ==
  ASSUME IInv, NEW j \in Jobs, UNCHANGED <<exVars, mainVars>>,
         \A k \in Jobs \ {j} :
           /\ step'[k] = step[k] /\ keyFile'[k] = keyFile[k] /\ files'[k] = files[k]
           /\ copied'[k] = copied[k] /\ scpResult'[k] = scpResult[k]
           /\ SameCalls(k)
  PROVE  \A k \in Jobs \ {j} : SameJob(k) /\ ScpInv(k)' /\ ResultInv(k)'
<1> SUFFICES ASSUME NEW k \in Jobs \ {j}
             PROVE  SameJob(k) /\ ScpInv(k)' /\ ResultInv(k)'
  OBVIOUS
<1>1. SameJob(k) /\ UNCHANGED <<conf, uploaders>>
  BY DEF SameJob, exVars, mainVars, startVars
<1> QED
  BY <1>1, OtherJob

(* The steps of the scp client outside the manager (scp.go:75-106,         *)
(* 118-122).                                                               *)
LEMMA ScpAloneKeeps ==
  ASSUME IInv, NEW j \in Jobs, ScpAlone(j)
  PROVE  JobsOK' /\ (pc'[j] # "idle" => pc[j] # "idle")
<1> USE DEF IInv
<1> DEFINE fp == uploaders[next[j]].fingerprint
<1>1. UNCHANGED <<pmVars, exVars, mainVars>> /\ IsScp(j) /\ SC!OwnStep(j, fp)
  BY DEF ScpAlone
<1>2. /\ \A k \in Jobs \ {j} :
           /\ step'[k] = step[k] /\ keyFile'[k] = keyFile[k] /\ files'[k] = files[k]
           /\ copied'[k] = copied[k] /\ scpResult'[k] = scpResult[k]
      /\ step[j] \notin {"out", "copying"} /\ step'[j] # "copying"
      /\ step'[j] \notin {"out", "key"} => keyFile'[j]
      /\ step'[j] = "scanning" => fp = ""
      /\ scpResult'[j] = "ok" => step'[j] = "out" /\ ~keyFile'[j]
      /\ SC!TypeOK'
  <2> USE DEF OwnTypeOK, SC!TypeOK, SC!Goto, SC!Move, SC!Abandon, SC!Return
  <2> HIDE DEF fp
  <2>1. /\ step[j] \notin {"out", "key"} => keyFile[j]
        /\ scpResult[j] = "ok" => step[j] = "out"
    BY DEF ProgramInv, ScpInv
  <2>2. CASE SC!GenerateBackupKey(j)
    BY <2>1, <2>2 DEF SC!GenerateBackupKey
  <2>3. CASE SC!KeyScanCall(j, fp)
    BY <2>1, <2>3 DEF SC!KeyScanCall
  <2>4. CASE SC!KeyScanReturn(j)
    BY <2>1, <2>4 DEF SC!KeyScanReturn
  <2>5. CASE SC!KnownHostsFile(j)
    BY <2>1, <2>5 DEF SC!KnownHostsFile
  <2>6. CASE SC!EnsureRemoteDirectoryCall(j)
    BY <2>1, <2>6 DEF SC!EnsureRemoteDirectoryCall
  <2>7. CASE SC!EnsureRemoteDirectoryReturn(j)
    BY <2>1, <2>7 DEF SC!EnsureRemoteDirectoryReturn
  <2>8. CASE SC!ReadDir(j)
    <3>1. CASE SC!Return(j, "err")
      BY <2>1, <2>8, <3>1 DEF SC!ReadDir
    <3>2. ASSUME NEW n \in 0..MaxFiles, files' = [files EXCEPT ![j] = n],
                 SC!Goto(j, "copy"), copied' = [copied EXCEPT ![j] = 0],
                 UNCHANGED <<keyFile, scpResult>>
          PROVE  /\ step'[j] = "copy"
                 /\ \A k \in Jobs \ {j} :
                      /\ step'[k] = step[k] /\ files'[k] = files[k]
                      /\ copied'[k] = copied[k]
                 /\ SC!TypeOK'
      BY <3>2, MaxFilesAssumption
    <3> QED
      BY <2>1, <2>8, <3>1, <3>2 DEF SC!ReadDir
  <2>9. CASE SC!UploadEnds(j)
    BY <2>1, <2>9 DEF SC!UploadEnds
  <2> QED
    BY <1>1, <2>2, <2>3, <2>4, <2>5, <2>6, <2>7, <2>8, <2>9 DEF SC!OwnStep
<1>3. \A k \in Jobs \ {j} : SameJob(k) /\ ScpInv(k)' /\ ResultInv(k)'
  <2>1. \A k \in Jobs \ {j} : SameCalls(k)
    BY <1>1 DEF SameCalls, pmVars
  <2> QED
    BY <1>1, <1>2, <2>1, OthersInScp
<1>4. pc[j] = "uploading" /\ UNCHANGED <<conf, pc, next, failed, verdict, stored, uploaders>>
  BY <1>1, <1>2 DEF ProgramInv, ScpInv, exVars, mainVars, startVars
<1>5. ScpInv(j)'
  BY <1>1, <1>2, <1>4 DEF ScpInv, IsScp
<1>6. ResultInv(j)'
  BY <1>1, <1>2, <1>4 DEF ProgramInv, ResultInv, ErrorPending, Succeeded, pmVars
<1>7. WaitingInv'
  BY <1>1, <1>2, <1>3, <1>4, WaitingKept DEF WaitsFor, pmVars
<1> QED
  BY <1>2, <1>3, <1>4, <1>5, <1>6, <1>7 DEF JobsOK

(* An scp command is handed to Start (scp.go:107-113). *)
LEMMA CopyCallKeeps ==
  ASSUME IInv, NEW j \in Jobs, CopyCall(j)
  PROVE  JobsOK' /\ (pc'[j] # "idle" => pc[j] # "idle")
<1> USE DEF IInv
<1>1. UNCHANGED <<exVars, mainVars>> /\ PM!StartCall(CurrentCopy(j))
  BY DEF CopyCall
<1>2. /\ step[j] = "copy" /\ copied[j] < files[j]
      /\ step' = [step EXCEPT ![j] = "copying"]
      /\ UNCHANGED <<keyFile, files, copied, scpResult>>
  BY DEF CopyCall, SC!CopyCall, SC!Move, SC!Goto
<1>3. SC!TypeOK' /\ step'[j] = "copying" /\ \A k \in Jobs \ {j} : step'[k] = step[k]
  BY <1>2 DEF OwnTypeOK, SC!TypeOK
<1>4. /\ pc[j] = "uploading" /\ IsScp(j) /\ keyFile[j] /\ scpResult[j] # "ok"
      /\ UNCHANGED <<conf, pc, next, failed, verdict, stored, uploaders>>
  BY <1>1, <1>2 DEF ProgramInv, ScpInv, exVars, mainVars, startVars
<1>5. /\ CurrentCopy(j) \in Calls /\ next[j] \in EX!Dests
      /\ copied[j] + 1 \in 1..MaxFiles
  BY <1>2, <1>4, CopyIsCall
<1>6. /\ startPc[CurrentCopy(j)] = "idle"
      /\ \A e \in Calls \ {CurrentCopy(j)} : startPc'[e] = startPc[e]
      /\ startResult' = startResult
  BY <1>1, <1>5, CallFrame
<1>7. \A k \in Jobs \ {j} : SameJob(k) /\ ScpInv(k)' /\ ResultInv(k)'
  <2>1. \A k \in Jobs \ {j} : SameCalls(k)
    <3>1. \E d \in EX!Dests, n \in 1..MaxFiles : CurrentCopy(j) = CopyOf[j][d][n]
      BY <1>5 DEF CurrentCopy
    <3> QED
      BY <1>1, <1>5, <3>1, CallOfJob
  <2> QED
    BY <1>1, <1>2, <1>3, <2>1, OthersInScp
<1>8. ScpInv(j)'
  BY <1>2, <1>3, <1>4 DEF ScpInv, IsScp
<1>9. CurrentCopy(j)' = CurrentCopy(j)
  BY <1>2, <1>4 DEF CurrentCopy
<1>10. ResultInv(j)'
  <2>1. CleanupOf[j] # CurrentCopy(j)
    BY <1>5, DistinctCallsAssumption DEF CurrentCopy, EX!Dests
  <2>2. startPc'[CleanupOf[j]] # "idle" => pc'[j] = "cleaning" \/ verdict'[j] = "ok"
    BY <1>4, <1>6, <2>1, CallsOfJob DEF ProgramInv, ResultInv
  <2>3. ASSUME NEW d \in EX!Dests, NEW n \in 1..MaxFiles,
               startPc'[CopyOf[j][d][n]] # "idle",
               CopyOf[j][d][n] # CurrentCopy(j)
        PROVE  Succeeded(CopyOf[j][d][n])' \/ failed'[j]
    <3>1. startPc[CopyOf[j][d][n]] # "idle"
      BY <1>6, <2>3, CallsOfJob
    <3> QED
      BY <1>2, <1>4, <1>6, <3>1
         DEF ProgramInv, ResultInv, ErrorPending, Succeeded
  <2> QED
    BY <1>3, <1>4, <1>6, <1>9, <2>2, <2>3 DEF ProgramInv, ResultInv, Succeeded
<1>11. WaitingInv'
  <2>1. \A e \in Calls : ~WaitsFor(j, e)
    BY <1>2, <1>4 DEF WaitsFor
  <2>2. WaitsFor(j, CurrentCopy(j))'
    BY <1>3 DEF WaitsFor
  <2>3. \A e \in Calls : startPc'[e] \notin {"idle", "returned"} =>
          startPc[e] \notin {"idle", "returned"} \/ WaitsFor(j, e)'
    BY <1>3, <1>6, <1>9 DEF WaitsFor
  <2> QED
    BY <1>7, <2>1, <2>3, WaitingKept
<1> QED
  BY <1>3, <1>4, <1>7, <1>8, <1>10, <1>11 DEF JobsOK

(* An scp command has returned: the first error ends the upload            *)
(* (scp.go:113-117).                                                       *)
LEMMA CopyReturnKeeps ==
  ASSUME IInv, NEW j \in Jobs, CopyReturn(j)
  PROVE  JobsOK' /\ (pc'[j] # "idle" => pc[j] # "idle")
<1> USE DEF IInv
<1>1. /\ UNCHANGED <<pmVars, exVars, mainVars>> /\ step[j] = "copying"
      /\ startPc[CurrentCopy(j)] = "returned"
      /\ SC!CopyReturn(j, Succeeded(CurrentCopy(j)))
  BY DEF CopyReturn, Returned
<1>2. /\ pc[j] = "uploading" /\ IsScp(j) /\ keyFile[j] /\ scpResult[j] # "ok"
      /\ copied[j] < files[j]
      /\ UNCHANGED <<conf, pc, next, failed, verdict, stored, uploaders>>
  BY <1>1 DEF ProgramInv, ScpInv, exVars, mainVars, startVars
<1>3. copied[j] + 1 \in 0..MaxFiles
  BY <1>2, CopyIsCall, MaxFilesAssumption
<1>4. /\ \A k \in Jobs \ {j} :
           /\ step'[k] = step[k] /\ keyFile'[k] = keyFile[k] /\ files'[k] = files[k]
           /\ copied'[k] = copied[k] /\ scpResult'[k] = scpResult[k]
      /\ \/ /\ Succeeded(CurrentCopy(j))
            /\ step'[j] = "copy" /\ UNCHANGED <<keyFile, scpResult>>
         \/ step'[j] = "out" /\ scpResult'[j] = "err"
      /\ SC!TypeOK'
  BY <1>1, <1>3
     DEF SC!CopyReturn, SC!Return, SC!Goto, OwnTypeOK, SC!TypeOK
<1>5. \A k \in Jobs \ {j} : SameJob(k) /\ ScpInv(k)' /\ ResultInv(k)'
  <2>1. \A k \in Jobs \ {j} : SameCalls(k)
    BY <1>1 DEF SameCalls, pmVars
  <2> QED
    BY <1>1, <1>4, <2>1, OthersInScp
<1>6. ScpInv(j)'
  BY <1>2, <1>4 DEF ScpInv, IsScp
<1>7. ResultInv(j)'
  <2>1. Succeeded(CurrentCopy(j)) \/ ErrorPending(j)'
    BY <1>2, <1>4 DEF ErrorPending, IsScp
  <2>2. \A c \in Calls : Succeeded(c)' <=> Succeeded(c)
    BY <1>1 DEF Succeeded, pmVars
  <2>3. ASSUME NEW d \in EX!Dests, NEW n \in 1..MaxFiles,
               startPc'[CopyOf[j][d][n]] # "idle"
        PROVE  Succeeded(CopyOf[j][d][n]) \/ failed[j] \/ ErrorPending(j)'
    <3>1. startPc[CopyOf[j][d][n]] # "idle"
      BY <1>1, <2>3 DEF pmVars
    <3>2. ~ErrorPending(j)
      BY <1>1 DEF ErrorPending
    <3> QED
      BY <2>1, <3>1, <3>2 DEF ProgramInv, ResultInv
  <2> QED
    BY <1>1, <1>2, <2>2, <2>3, CallsOfJob DEF ProgramInv, ResultInv, pmVars
<1>8. WaitingInv'
  <2>1. \A c \in Calls : startPc'[c] \notin {"idle", "returned"} => ~WaitsFor(j, c)
    BY <1>1, <1>2 DEF WaitsFor, pmVars
  <2> QED
    BY <1>1, <1>5, <2>1, WaitingKept DEF pmVars
<1> QED
  BY <1>2, <1>4, <1>5, <1>6, <1>7, <1>8 DEF JobsOK

(* Every step of a job. *)
LEMMA JobStepKeeps ==
  ASSUME IInv, Up, NEW j \in Jobs, JobStep(j)
  PROVE  OwnTypeOK' /\ ProgramInv'
<1>1. UNCHANGED mainVars
  BY DEF JobStep, JobAlone, PerformCall, PerformReturn, UploadCall,
         InProcessReturn, ScpAlone, ScpReturn, CopyCall, CopyReturn,
         CleanupCall, CleanupReturn
<1>2. JobsOK' /\ (pc'[j] # "idle" => pc[j] # "idle")
  BY JobAloneKeeps, CommandCallKeeps, CommandReturnKeeps, UploadCallKeeps,
     UploadReturnKeeps, ScpAloneKeeps, CopyCallKeeps, CopyReturnKeeps
     DEF JobStep
<1>3. UNCHANGED exVars \/ ExecutorStep(j)
  <2>1. Succeeded(CreatorOf[j]) \in BOOLEAN /\ (scpResult[j] = "ok") \in BOOLEAN
    BY DEF Succeeded
  <2> QED
    BY <2>1
       DEF JobStep, JobAlone, PerformCall, PerformReturn, UploadCall,
           InProcessReturn, ScpAlone, ScpReturn, CopyCall, CopyReturn,
           CleanupCall, CleanupReturn, ExecutorStep, EX!JobStep,
           EX!CommandStep, EX!UploadStep
<1>4. \A k \in Jobs : pc'[k] # "idle" => pc[k] # "idle"
  BY <1>2, <1>3, ExecutorFrame DEF IInv, exVars
<1>5. StartInv'
  BY <1>1, <1>4, StartIdle DEF IInv
<1>6. OwnTypeOK'
  BY <1>1, <1>2
     DEF IInv, OwnTypeOK, StartTypeOK, JobsOK, mainVars, startVars, signalVars
<1>7. status' = "running"
  BY <1>1 DEF Up, mainVars, startVars
<1> QED
  BY <1>2, <1>5, <1>6, <1>7, StillRunning DEF JobsOK, ProgramInv

-----------------------------------------------------------------------------
(* The invariant *)

(* The program starts in a state of the invariant. *)
LEMMA InitInv == Init => IInv
<1> SUFFICES ASSUME Init PROVE IInv
  OBVIOUS
<1>1. PMP!IInv /\ EXP!IInv
  BY ManagerInit, ExecutorInit DEF Init
<1>2. OwnTypeOK
  <2>1. 0 \in 0..MaxFiles
    BY MaxFilesAssumption
  <2>2. SC!TypeOK
    BY <2>1 DEF Init, SC!Init, SC!TypeOK
  <2>3. StartTypeOK
    BY DEF Init, StartInit, StartTypeOK
  <2> QED
    BY <2>2, <2>3 DEF Init, OwnTypeOK
<1>3. StartInv /\ StatusInv /\ ExitLeavesNoCommand /\ DaemonStays
  BY DEF Init, StartInit, EX!Init, StartInv, StatusInv, ExitLeavesNoCommand,
         DaemonStays, Exited
<1>4. WaitingInv
  BY DEF Init, PM!Init, WaitingInv
<1>5. \A j \in Jobs : ScpInv(j)
  BY DEF Init, SC!Init, ScpInv
<1>6. \A j \in Jobs : ResultInv(j)
  BY CallsOfJob DEF Init, PM!Init, EX!Init, ResultInv
<1> QED
  BY <1>1, <1>2, <1>3, <1>4, <1>5, <1>6 DEF IInv, ProgramInv

(* The copy an scp client starts is one of the job's calls. *)
LEMMA CopyCallOfJob ==
  ASSUME IInv, NEW j \in Jobs, CopyCall(j)
  PROVE  CurrentCopy(j) \in Calls
<1>1. step[j] = "copy" /\ copied[j] < files[j]
  BY DEF CopyCall, SC!CopyCall, SC!Move
<1>2. pc[j] = "uploading"
  BY <1>1 DEF IInv, ProgramInv, ScpInv
<1> QED
  BY <1>1, <1>2, CopyIsCall

(* Every step of the program is a step of the manager or leaves it alone. *)
LEMMA StepOfManager ==
  ASSUME IInv, [Next]_vars
  PROVE  ManagerStep \/ UNCHANGED pmVars
<1>1. ASSUME MainStep \/ SignalArrives \/ HandlerStopsCron \/ HandlerExits
      PROVE  UNCHANGED pmVars
  BY <1>1
     DEF MainStep, StartupAlone, CronStart, ExecuteDummy, Execute, MainEnds,
         SignalArrives, HandlerStopsCron, HandlerExits
<1>2. ASSUME NEW j \in Jobs, CronFires(j) \/ JobStep(j) \/ CommandWrites(j)
      PROVE  ManagerStep \/ UNCHANGED pmVars
  <2>1. CASE PerformCall(j) \/ CleanupCall(j)
    BY <2>1, CallsOfJob DEF PerformCall, CleanupCall, ManagerStep
  <2>2. CASE CopyCall(j)
    BY <2>2, CopyCallOfJob DEF CopyCall, ManagerStep
  <2> QED
    BY <1>2, <2>1, <2>2
       DEF CronFires, JobStep, JobAlone, PerformReturn, UploadCall,
           InProcessReturn, ScpAlone, ScpReturn, CopyReturn, CleanupReturn,
           CommandWrites
<1>3. ASSUME \/ \E c \in Calls : StartAlone(c) \/ ReaperAlone(c) \/ ChildAlone(c)
             \/ TerminateAlone
             \/ HandlerTerminates
      PROVE  ManagerStep
  BY <1>3
     DEF StartAlone, ReaperAlone, ChildAlone, TerminateAlone,
         HandlerTerminates, ManagerStep, ManagerAlone
<1>4. CASE UNCHANGED vars
  BY <1>4 DEF vars
<1> QED
  BY <1>1, <1>2, <1>3, <1>4 DEF Next, HandlerStep

(* Every step of the program is a step of one job in the executor or       *)
(* leaves the executor alone.                                              *)
LEMMA StepOfExecutor ==
  ASSUME [Next]_vars
  PROVE  (\E j \in Jobs : ExecutorStep(j)) \/ UNCHANGED exVars
<1>1. ASSUME MainStep \/ SignalArrives \/ HandlerStep \/ TerminateAlone
      PROVE  (\E j \in Jobs : ExecutorStep(j)) \/ UNCHANGED exVars
  BY <1>1
     DEF MainStep, StartupAlone, CronStart, ExecuteDummy, Execute, MainEnds,
         SignalArrives, HandlerStep, HandlerStopsCron, HandlerTerminates,
         HandlerExits, TerminateAlone, ExecutorStep
<1>2. ASSUME NEW c \in Calls, StartAlone(c) \/ ReaperAlone(c) \/ ChildAlone(c)
      PROVE  UNCHANGED exVars
  BY <1>2 DEF StartAlone, ReaperAlone, ChildAlone
<1>3. ASSUME NEW j \in Jobs, CronFires(j) \/ JobStep(j) \/ CommandWrites(j)
      PROVE  ExecutorStep(j) \/ UNCHANGED exVars
  <2>1. Succeeded(CreatorOf[j]) \in BOOLEAN /\ (scpResult[j] = "ok") \in BOOLEAN
    BY DEF Succeeded
  <2> QED
    BY <1>3, <2>1
       DEF CronFires, JobStep, JobAlone, PerformCall, PerformReturn,
           UploadCall, InProcessReturn, ScpAlone, ScpReturn, CopyCall,
           CopyReturn, CleanupCall, CleanupReturn, CommandWrites,
           ExecutorStep, EX!JobStep, EX!CommandStep, EX!UploadStep,
           EX!FolderStep
<1>4. CASE UNCHANGED vars
  BY <1>4 DEF vars
<1> QED
  BY <1>1, <1>2, <1>3, <1>4 DEF Next

(* The invariant is inductive. *)
LEMMA NextInv == IInv /\ [Next]_vars => IInv'
<1> SUFFICES ASSUME IInv, [Next]_vars PROVE IInv'
  OBVIOUS
<1>1. PMP!IInv'
  BY StepOfManager, ManagerKeeps, ManagerIdle DEF IInv
<1>2. EXP!IInv'
  BY StepOfExecutor, ExecutorKeeps, ExecutorIdle DEF IInv
<1>3. CASE Up /\ MainStep
  BY <1>3, StartupKeeps, HandlerKeeps, MainEndsKeeps, FireKeeps, <1>1, <1>2
     DEF MainStep, IInv
<1>4. CASE Up /\ \E j \in Jobs : CronFires(j) \/ JobStep(j)
  BY <1>4, FireKeeps, JobStepKeeps, <1>1, <1>2 DEF IInv
<1>5. CASE /\ Up
           /\ \/ \E c \in Calls : StartAlone(c) \/ ReaperAlone(c)
              \/ TerminateAlone
  <2>1. ManagerAlone /\ UNCHANGED <<exVars, scVars, mainVars>>
    BY <1>5 DEF StartAlone, ReaperAlone, TerminateAlone, ManagerAlone
  <2> QED
    BY <1>1, <1>2, <1>5, <2>1, ManagerAloneKeeps DEF IInv
<1>6. CASE Up /\ (SignalArrives \/ HandlerStep)
  BY <1>6, HandlerKeeps, HandlerExitsKeeps, <1>1, <1>2 DEF HandlerStep, IInv
<1>7. CASE \/ \E j \in Jobs : CommandWrites(j)
           \/ \E c \in Calls : ChildAlone(c)
  BY <1>7, ProcessesKeep, <1>1, <1>2 DEF IInv
<1>8. CASE UNCHANGED vars
  <2>1. UNCHANGED <<pmVars, exVars, scVars, mainVars>>
    BY <1>8 DEF vars
  <2>2. OwnTypeOK'
    BY <2>1
       DEF IInv, OwnTypeOK, StartTypeOK, SC!TypeOK, scVars, mainVars,
           startVars, signalVars
  <2>3. StartInv'
    BY <2>1, StartIdle DEF IInv, exVars
  <2>4. WaitingInv' /\ \A j \in Jobs : ScpInv(j)' /\ ResultInv(j)'
    BY <2>1, JobsIdle DEF IInv, jobVars, pmVars, exVars, mainVars, startVars
  <2>5. StatusInv' /\ DaemonStays'
    BY <2>1
       DEF IInv, ProgramInv, StatusInv, DaemonStays, Daemon, NoDestinations,
           Exited, exVars, mainVars, startVars, signalVars
  <2>6. ExitLeavesNoCommand'
    BY <2>1
       DEF IInv, ProgramInv, ExitLeavesNoCommand, Exited, PM!Alive, pmVars,
           mainVars, startVars
  <2> QED
    BY <1>1, <1>2, <2>2, <2>3, <2>4, <2>5, <2>6 DEF IInv, ProgramInv
<1> QED
  BY <1>3, <1>4, <1>5, <1>6, <1>7, <1>8 DEF Next

(* The invariant holds in every reachable state. *)
LEMMA Invariant == SafeSpec => []IInv
BY InitInv, NextInv, PTL DEF SafeSpec

-----------------------------------------------------------------------------
(* The theorems *)

(* Every pending command has a job that waits for it and remembers its     *)
(* failure, in every reachable state of both programs (main.go:24-87,      *)
(* manual-backup/main.go:21-74, executor.go:103-144, scp.go:75-122).       *)
THEOREM ProgramInvariant == SafeSpec => []ProgramInv
<1>1. IInv => ProgramInv
  BY DEF IInv
<1> QED
  BY <1>1, Invariant, PTL

(* Every variable keeps its type; in particular the wait group never goes  *)
(* below zero and the scp client never runs past the files it has listed.  *)
THEOREM TypesHold == SafeSpec => []TypeOK
<1>1. IInv => TypeOK
  <2>1. PMP!TypeOK => PM!TypeOK
    BY DEF PMP!TypeOK, PMP!Holders, PMP!Exited, PM!TypeOK, PM!Holders, PM!Exited
  <2>2. EXP!TypeOK => EX!TypeOK
    BY DEF EXP!TypeOK, EXP!InBackup, EXP!Contents, EXP!Dests,
           EX!TypeOK, EX!InBackup, EX!Contents, EX!Dests
  <2> QED
    BY <2>1, <2>2 DEF IInv, PMP!IInv, EXP!IInv, OwnTypeOK, TypeOK
<1> QED
  BY <1>1, Invariant, PTL

(* Whatever the jobs, the scp clients and the signal handler do with it,   *)
(* the manager inside the program behaves as ProcessManager says, so that  *)
(* what is proved there holds here.                                        *)
THEOREM ManagerEmbedded == SafeSpec => PM!SafeSpec
<1>1. Init => PM!Init
  BY DEF Init
<1>2. IInv /\ [Next]_vars => [PM!Next]_(PM!vars)
  <2>1. ManagerStep => PM!Next
    BY DEF ManagerStep, ManagerAlone, PM!Next
  <2>2. UNCHANGED pmVars => UNCHANGED PM!vars
    BY DEF pmVars, PM!vars
  <2> QED
    BY <2>1, <2>2, StepOfManager
<1> QED
  BY <1>1, <1>2, Invariant, PTL DEF SafeSpec, PM!SafeSpec

(* A step of the program is one of the executor's as a whole; only the     *)
(* commands, which survive a panic, go on after one.                       *)
LEMMA StepOfBackups ==
  ASSUME [Next]_vars
  PROVE  EXP!Next \/ UNCHANGED exVars \/ \E j \in Jobs : EX!FolderStep(j)
<1>1. CASE ~panicked
  BY <1>1, StepOfExecutor, SameStep DEF EXP!Next
<1>2. CASE panicked
  BY <1>2 DEF Next, Up, vars, CommandWrites, ChildAlone, EX!FolderStep
<1> QED
  BY <1>1, <1>2

(* Both programs keep the executor's promise to whoever activates a job,   *)
(* also while commands are being killed and after a panic: a job is        *)
(* rejected only while a backup runs, and exclusive backups never overlap  *)
(* (executor.go:85-144, scheduler.go:31-46, manual-backup/main.go:70).     *)
THEOREM BackupsRunAsPromised == SafeSpec => EXP!Abstract!SafeSpec
<1> USE NumDestsAssumption, JobsAssumption
<1>1. Configs \subseteq EXP!BackupConfig
  BY ConfigsAssumption DEF EX!BackupConfig, EXP!BackupConfig
<1>2. Init => EXP!Abstract!Init
  <2>1. EX!Init => EXP!Init
    BY DEF EX!Init, EX!Dests, EXP!Init, EXP!Dests
  <2> QED
    BY <1>1, <2>1, EXP!AbstractInit DEF Init
<1>3. IInv /\ IInv' /\ [Next]_vars => [EXP!Abstract!Next]_(EXP!Abstract!vars)
  <2> SUFFICES ASSUME IInv, IInv', [Next]_vars
               PROVE  [EXP!Abstract!Next]_(EXP!Abstract!vars)
    OBVIOUS
  <2>1. CASE EXP!Next
    BY <1>1, <2>1, EXP!AbstractStep DEF IInv
  <2>2. ASSUME UNCHANGED <<conf, pc, verdict, panicked>>
        PROVE  UNCHANGED EXP!Abstract!vars
    BY <1>1, <2>2, EXP!AbstractStutter DEF EXP!InBackup
  <2>3. CASE UNCHANGED exVars \/ \E j \in Jobs : EX!FolderStep(j)
    BY <2>2, <2>3 DEF exVars, EX!FolderStep, EX!CreatorWrites, EX!CleanupRemoves
  <2> QED
    BY <2>1, <2>3, StepOfBackups
<1> QED
  BY <1>2, <1>3, Invariant, PTL DEF SafeSpec, EXP!Abstract!SafeSpec

(* However and whenever a program exits, no command it started through the *)
(* manager is left behind (main.go:76-82, manual-backup/main.go:42-47,     *)
(* 70-74).                                                                 *)
THEOREM ExitIsClean == SafeSpec => []ExitLeavesNoCommand
<1>1. IInv => ExitLeavesNoCommand
  BY DEF IInv, ProgramInv
<1> QED
  BY <1>1, Invariant, PTL

(* The daemon ends without a signal only on an unusable configuration      *)
(* (main.go:32-53, scheduler.go:47-50).                                    *)
THEOREM DaemonPersists == SafeSpec => []DaemonStays
<1>1. IInv => DaemonStays
  BY DEF IInv, ProgramInv
<1> QED
  BY <1>1, Invariant, PTL

(* A call of Start that succeeded ran a command that exited with status 0  *)
(* and was not sent SIGTERM; one that was never made ran none.             *)
LEMMA CallMeaning ==
  ASSUME IInv, NEW c \in Calls
  PROVE  /\ Succeeded(c) => child[c] = "ok" /\ ~sigterm[c]
         /\ startPc[c] = "idle" => child[c] = "none" /\ ~sigterm[c]
         /\ PM!Alive(c) => startPc[c] \notin {"idle", "returned"}
BY DEF IInv, PMP!IInv, PMP!TypeOK, PMP!ManagerInv, PMP!CallInv, PMP!Exited,
       PM!Alive, Succeeded

(* A backup that is uploaded is one whose creator succeeded and was not    *)
(* interrupted (executor.go:124-136, manager.go:63-70).                    *)
THEOREM UploadsAreWhole == SafeSpec => []UploadedBackupIsWhole
<1>1. IInv => UploadedBackupIsWhole
  BY CallMeaning, CallsOfJob
     DEF IInv, ProgramInv, ResultInv, UploadedBackupIsWhole
<1> QED
  BY <1>1, Invariant, PTL

(* With exit_if_in_progress at most one managed command is alive           *)
(* (executor.go:85-100, manager.go:37-71).                                 *)
THEOREM CommandsExclude == SafeSpec => []OneCommandAtATime
<1>1. IInv => OneCommandAtATime
  <2> SUFFICES ASSUME IInv, conf.exitIfInProgress,
                      NEW c \in Calls, NEW e \in Calls, PM!Alive(c), PM!Alive(e)
               PROVE  c = e
    BY DEF OneCommandAtATime
  <2>1. PICK i \in Jobs : WaitsFor(i, c)
    BY CallMeaning DEF IInv, ProgramInv, WaitingInv
  <2>2. PICK j \in Jobs : WaitsFor(j, e)
    BY CallMeaning DEF IInv, ProgramInv, WaitingInv
  <2>3. \A k \in Jobs : step[k] = "copying" => pc[k] = "uploading"
    BY DEF IInv, ProgramInv, ScpInv
  <2>4. pc[i] \in EXP!InBackup /\ pc[j] \in EXP!InBackup
    BY <2>1, <2>2, <2>3 DEF WaitsFor, EXP!InBackup
  <2>5. i = j
    BY <2>4
       DEF IInv, EXP!IInv, EXP!ExecutorInv, EXP!MutualExclusion, EXP!Exclusive
  <2> QED
    BY <2>1, <2>2, <2>3, <2>5 DEF WaitsFor
<1> QED
  BY <1>1, Invariant, PTL

(* A job that no other one has disturbed and that got as far as its        *)
(* cleanup has delivered its backup (multi_uploader.go:21-34,              *)
(* scp.go:107-117).                                                        *)
LEMMA UndisturbedDelivers ==
  ASSUME IInv, NEW j \in Jobs, pc[j] = "cleaning" \/ verdict[j] = "ok",
         conf.exitIfInProgress \/ \A k \in Jobs \ {j} : pc[k] = "idle"
  PROVE  Delivered(j)
<1>1. /\ \A d \in EX!Dests : stored[j][d] # "none"
      /\ ~failed[j] /\ pc[j] # "uploading"
  BY DEF IInv, EXP!IInv, EXP!ExecutorInv, EXP!ProgressInv, EXP!AllStored,
         EXP!Dests, EX!Dests
<1>2. \A d \in EX!Dests : stored[j][d] = IF conf.creator THEN j ELSE "empty"
  BY <1>1
     DEF IInv, EXP!IInv, EXP!ExecutorInv, EXP!OwnershipInv, EXP!Undisturbed,
         EXP!Exclusive, EXP!Dests, EX!Dests
<1>3. ASSUME NEW d \in EX!Dests, NEW n \in 1..MaxFiles
      PROVE  child[CopyOf[j][d][n]] \in {"none", "ok"} /\ ~sigterm[CopyOf[j][d][n]]
  <2>1. step[j] # "copying" /\ ~ErrorPending(j)
    BY <1>1 DEF IInv, ProgramInv, ScpInv, ErrorPending
  <2>2. startPc[CopyOf[j][d][n]] = "idle" \/ Succeeded(CopyOf[j][d][n])
    BY <1>1, <2>1 DEF IInv, ProgramInv, ResultInv
  <2> QED
    BY <2>2, CallMeaning, CallsOfJob
<1> QED
  BY <1>2, <1>3 DEF Delivered

(* With exit_if_in_progress nothing is cleaned up that has not been        *)
(* delivered (scp.go:107-117, multi_uploader.go:21-34,                     *)
(* executor.go:131-139).                                                   *)
THEOREM CleanupAfterDelivery == SafeSpec => []CleanupMeansDelivered
<1>1. IInv => CleanupMeansDelivered
  <2> SUFFICES ASSUME IInv, conf.exitIfInProgress, NEW j \in Jobs,
                      child[CleanupOf[j]] # "none"
               PROVE  Delivered(j)
    BY DEF CleanupMeansDelivered
  <2>1. startPc[CleanupOf[j]] # "idle"
    BY CallMeaning, CallsOfJob
  <2>2. pc[j] = "cleaning" \/ verdict[j] = "ok"
    BY <2>1 DEF IInv, ProgramInv, ResultInv
  <2> QED
    BY <2>2, UndisturbedDelivers
<1> QED
  BY <1>1, Invariant, PTL

(* manual-backup gives status 0 only to a backup that has been delivered,  *)
(* with or without exit_if_in_progress (manual-backup/main.go:42-47,       *)
(* 70-73).                                                                 *)
THEOREM ZeroIsHonest == SafeSpec => []ZeroMeansDelivered
<1>1. IInv => ZeroMeansDelivered
  <2> SUFFICES ASSUME IInv, status = "exit 0"
               PROVE  /\ ~Daemon
                      /\ NoDestinations \/
                           \E j \in Jobs : pc[j] = "returned" /\ Delivered(j)
    BY DEF ZeroMeansDelivered
  <2>1. ~Daemon
    BY DEF IInv, ProgramInv, StatusInv
  <2>2. CASE NoDestinations
    BY <2>1, <2>2
  <2>3. CASE ~NoDestinations
    <3>1. PICK j \in Jobs : pc[j] = "returned" /\ verdict[j] = "ok"
      BY <2>3 DEF IInv, ProgramInv, StatusInv
    <3>2. \A k \in Jobs \ {j} : pc[k] = "idle"
      BY <2>1, <3>1 DEF IInv, ProgramInv, StartInv
    <3>3. Delivered(j)
      BY <3>1, <3>2, UndisturbedDelivers
    <3> QED
      BY <2>1, <3>1, <3>3
  <2> QED
    BY <2>2, <2>3
<1> QED
  BY <1>1, Invariant, PTL

(* The private key is there while a command needs it and is gone after a   *)
(* successful upload (scp.go:82-122).                                      *)
THEOREM KeyFileIsManaged == SafeSpec => []KeyFileLifetime
<1>1. IInv => KeyFileLifetime
  BY DEF IInv, ProgramInv, ScpInv, KeyFileLifetime, SC!UsesKey
<1> QED
  BY <1>1, Invariant, PTL

(* Every upload is made by the client of the destination's type, and no    *)
(* host is trusted on first sight for which a fingerprint is configured    *)
(* (initialize.go:47-66, factory.go:76-82, scp.go:58-72).                  *)
THEOREM ClientsFit == SafeSpec => []ClientsFitDestinations
<1>1. IInv => ClientsFitDestinations
  <2> SUFFICES ASSUME IInv, NEW j \in Jobs, pc[j] = "uploading"
               PROVE  /\ destinations[next[j]].type # "unknown"
                      /\ destinations[next[j]].type = uploaders[next[j]].type
                      /\ step[j] = "scanning" =>
                           destinations[next[j]].fingerprint # "string"
    BY DEF ClientsFitDestinations
  <2>1. next[j] \in 1..NumDests
    BY DEF IInv, EXP!IInv, EXP!ExecutorInv, EXP!ProgressInv, EXP!Dests
  <2>2. destinations # <<>> /\ main \notin {"parse", "initialize"}
    BY DEF IInv, ProgramInv, StartInv, NoDestinations
  <2>3. destinations \in [1..NumDests -> Destination]
    BY <2>2, DestinationsAssumption DEF IInv, OwnTypeOK, StartTypeOK
  <2>4. next[j] \in DOMAIN destinations
    BY <2>1, <2>3
  <2>5. /\ destinations[next[j]].type # "unknown"
        /\ uploaders[next[j]] = Client(destinations[next[j]])
    BY <2>2, <2>4 DEF IInv, ProgramInv, StartInv
  <2>6. step[j] = "scanning" => uploaders[next[j]].fingerprint = ""
    BY DEF IInv, ProgramInv, ScpInv
  <2>7. /\ uploaders[next[j]].type = destinations[next[j]].type
        /\ uploaders[next[j]].fingerprint
             = toString(destinations[next[j]].fingerprint)
    BY <2>5 DEF Client
  <2>8. toString("string") # ""
    BY DEF toString
  <2>9. step[j] = "scanning" => destinations[next[j]].fingerprint # "string"
    BY <2>6, <2>7, <2>8
  <2> QED
    BY <2>5, <2>7, <2>9
<1> QED
  BY <1>1, Invariant, PTL
=============================================================================
