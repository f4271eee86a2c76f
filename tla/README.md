# A TLA+ model of service-backup

service-backup runs on a service instance. On a cron schedule it runs a command
that creates a backup in a source folder, uploads the folder to one or more
destinations (S3, Azure, GCS, scp) and runs a cleanup command. On SIGTERM it
passes the signal on to the commands it is running, waits for them and exits.
This directory models that program from its Go source, model-checks it with TLC
and proves its safety properties with TLAPS.

## Inventory

| Component | Source | State | Operations | Module |
|---|---|---|---|---|
| process manager | `process/manager.go` | mutex, `killAll` channel, wait group; per call a waiting goroutine and a buffered channel | `Start`, `Terminate` | `ProcessManager`, abstractly `ManagedProcesses` |
| executor | `executor/executor.go`, `dir_size.go` | `backupInProgress` under a mutex | `Execute`: identify, check the flag, create, upload, measure, clean up, reset the flag | `Executor`, abstractly `BackupRuns` |
| multi uploader | `upload/multi_uploader.go` | the loop's position and its errors | `Upload` | `Executor` |
| scheduler | `scheduler/scheduler.go` | the cron instance | the scheduled function and its alert; `Run`, `Stop` | `Executor`, `ServiceBackup` |
| scp client | `scp/scp.go` | temporary key file, position in the list of files | `Upload` | `Scp` |
| daemon | `main.go` | signal channel, handler goroutine, cron | start-up, jobs on a schedule, SIGTERM, exit | `Startup`, `ServiceBackup` |
| manual-backup | `cmd/manual-backup/main.go` | signal channel, handler goroutine | start-up, one `Execute`, signal, three exit statuses | `Startup`, `ServiceBackup` |
| S3, Azure, GCS clients | `s3/s3.go`, `azure/azure.go`, `gcs/gcs.go` | position in the walk, remote buckets, objects, blocks | `Upload`: ensure the bucket, walk, upload each file | `S3`, `Azure`, `Gcs` over `FolderUpload`, composed in `Destination` |
| configuration, start-up | `config/`, `upload/initialize.go`, `factory.go`, `ca_cert_locator.go` | the list of clients | parse, build a client for each destination, default the schedule | `Startup` |
| remote path | `upload/remote_path.go` | none | compute the dated path | `FolderUpload` |

How they interact. cron starts one goroutine per activation of its single
entry; activations may overlap. Each calls `Execute` of the one executor, which
runs the creator and the cleanup command through `processManager.Start` and the
identifier command directly, and calls the multi uploader, which calls the
destinations one after the other in the same goroutine; the scp client runs one
scp command per file through `Start` and ssh-keyscan and ssh directly. The
SIGTERM handler stops cron, calls `Terminate`, which closes `killAll` (every
pending `Start` then signals its command) and waits for the wait group, and
exits. All jobs share the flag, the manager, the source folder and the
destinations.

What makes each part correct. Manager: no command outlives `Terminate` or its
own `Start`, and an interrupted command is not a success. Executor: exclusive
backups do not overlap, every destination is tried, nothing is cleaned up that is
not stored, the alert is called for exactly the failed jobs, the flag is never left
set. Clients: an upload
that returns no error has stored the folder, whole and below one dated path.
Start-up: a configuration that cannot be used never gets as far as a backup, and
one that can does not end the daemon. Daemon and manual-backup: a signal ends the
program and leaves no command behind; exit status 0 means delivered.

What is hard: `Start` racing with `Terminate`; the select of `Start` when both
of its branches are ready; the flag shared by overlapping, rejected and failing
jobs; the source folder shared by commands of different jobs; one destination
of several failing; files that vanish or cannot be read during a walk;
overlapping uploads to the same names, and files that get the same name; a
signal at any point of all that, the start-up included. `PROJECT.json` lists the
hazards with the line each is at.

## Modules

**ProcessManager** has one step for each operation of `Start`, of its waiting
goroutine and of `Terminate` that another goroutine can observe. `lock`,
`killAll` and `wg` are the fields of `Manager`; `pc`, `reaper` and `exitChan`
are the local state of one call; `child`, `output` and `sigterm` are the
operating system's side: the command may exit at any time with any status, and
`cmd.Wait` returns only when the pipe held by its descendants is closed too.

**ManagedProcesses** says what the manager promises without any of that:
commands start while it is open, vanish, and it is closed when none is left.
`ProcessManager!Abstract` is the refinement mapping.

**Executor** models jobs in the executor, the multi uploader and the scheduled
function. Operations that take time are a call and a return step. `folder` is
what the source folder holds: nothing, a partial backup, or the complete backup
of a job; `stored` is what each upload delivered, "mixed" if the folder changed
meanwhile. What the commands do in the folder (`CreatorWrites`,
`CleanupRemoves`) is external. `conf` is chosen in the initial state and never
changes. A walk that meets an entry whose `lstat` fails panics (`WalkPanics`) and
the program ends. A second job that removes files is only one reason for that; the
folder may be missing, or an entry out of reach, so any walk may panic at any time.

**BackupRuns** is the abstract executor: an activation is rejected only if
backups exclude one another and one is running; otherwise it becomes a backup,
which ends. A running backup may crash the program.

**Scp** models `SCPClient.Upload`: key file, key scan, remote directory, and the
copies, each a call of `Start` whose result is a parameter.

**Startup** is the main goroutine of both programs up to the first backup.
`program`, `destinations` and `schedule` are the configuration: the type of each
destination, known or not, and whether the fingerprint of an scp destination is a
string, some other YAML value (which `toString` turns into "") or absent. `Parse`,
`Initialize` and `NewScheduler` succeed or end the program with status 2;
`uploaders` is what `Initialize` built. The goroutine that handles the signal is
started by `NewScheduler` (daemon) or `Initialize` (manual-backup); until then a
signal waits in its channel.

**ServiceBackup** EXTENDS `Startup` and composes it with the executor, the scp
client, the process manager, cron and the signal handler, for both programs. A
job's step that calls `Start` is a joint step of the job and of the manager
(`PerformCall`, `CleanupCall`, `CopyCall`); the job continues when that call has
returned, with the manager's result. `uploaders` decides whether an upload is
made over scp. manual-backup has no cron: `Execute` starts its one job and
`MainEnds` turns the job's verdict into the exit status, racing with the
handler's exit. A job may panic while it measures the folder and, with an S3 or Azure
client, while it uploads. Everything of the Go program stops when it exits or a job panics;
processes do not.

**FolderUpload** is what the three in-program clients share: the source folder as
a tree of paths (a path is the sequence of its segments), `filepath.Walk` as it
calls its function (a directory already listed; an entry whose `lstat` fails,
because it is gone or `hidden` by a directory without search permission, comes
without a FileInfo), the name a file gets (`Replace` is
`strings.Replace` on segments), the dated path, a midnight, and another job's
cleanup that removes entries. The folder may be missing from the start.
**S3**, **Azure** and **Gcs** add one step for each remote request, which is
answered, carried out with its answer lost, or refused. `objects`, `committed`
and `uncommitted` are the remote side, by day and name: which upload stored which
file there. **Destination** gives a destination the
client of its type, and states the properties of all three.

**MCExecutor, MCServiceBackup, MCServiceBackupScp, MCDestination** give the
constants values for TLC.

**ProcessManagerProofs, ExecutorProofs, ServiceBackupProofs** and
**DestinationProofs** hold the theorems about the module each is named after.
**S3Proofs, AzureProofs** and **GcsProofs** hold the lemmas that each client
preserves its invariant, and **FolderUploadProofs** the lemmas about the walk that
these three share. `ServiceBackupProofs` takes what is proved about the manager and
the executor through INSTANCE of their proof modules, with the substitution of
`ServiceBackup`, and `DestinationProofs` does the same with the three clients.

Sections headed "Mistakes the properties would catch" hold
variants of definitions with a plausible mistake; no specification uses them,
and each property is shown to fail when its variant takes the definition's
place.

## Runs

| Run | Instance | Shows |
|---|---|---|
| `manager` | 3 calls of Start, fairness | safety of the manager and its inductive invariant; `Terminate` and registered calls return; `ManagedProcesses` is implemented |
| `manager_leaked_lock` | 2 calls, fairness | **violation**: a refused call keeps the mutex, the next call blocks for ever |
| `executor` | 2 jobs, 2 destinations, all 32 configurations, fairness | exclusive backups: no overlap, own complete backup uploaded, nothing removed before its uploads returned without an error, a panic only over the job's own backup; all: the alert is called for exactly the jobs with a missing upload, jobs end, the flag is freed, all destinations are tried, `BackupRuns` is implemented |
| `daemon` | the daemon; 2 jobs, 4 commands, uploads in the program; no, one known or one unknown destination, every schedule | the exit leaves no managed command, interrupted backups are not uploaded, one command at a time, the daemon stays until it is told to end; the program's inductive invariant |
| `daemon_scp` | both programs; 1 job, an in-program destination and scp with 0 to 2 files, with and without a usable fingerprint; an unknown or no destination | cleanup and status 0 only after all copies; every destination gets its client; life of the key file; the program's inductive invariant, with scp |
| `daemon_shutdown` | both programs, 2 jobs, fairness | a signal ends the program, also one that arrives during the start-up |
| `daemon_orphans` | the daemon of `daemon_scp` | **violation**: identifier, ssh-keyscan or ssh still running at "All backup processes terminated" |
| `daemon_late_backup` | as `daemon_scp` | **violation**: a job activated after SIGTERM begins its backup |
| `destination` | S3, Azure and GCS; 2 uploads, 2 files | which failures an upload never loses, one dated path on S3 and Azure, which panics can happen, overlapping S3 uploads do not undo one another, whole blobs; the inductive invariants of the clients |
| `s3_skipped_directory` | S3 | **violation**: the files in an unreadable directory are missing after a success |
| `gcs_dropped_close` | GCS | **violation**: an object whose `Close` failed is missing after a success |
| `s3_colliding_names` | S3; source folder `/d` with `s/b` and `s/d/b` | **violation**: the two files get one object name, and the upload succeeds |

Bounds. Three calls are needed for one to hold the mutex while one is
registered and one waits; two jobs are one that holds the flag and one that meets
it, and any number is covered by the proof; two destinations distinguish the last error from any error;
two files distinguish a failed first copy from a complete upload. Every safety
property of the passing runs is also proved, without these bounds; the runs show
that the cases it speaks of occur, and check liveness. In
`daemon` the identifier and the cleanup command are configured only where
backups exclude one another, to keep the instance small. `destination` has one
file in the source folder and one in its subdirectory (what differs is only
whether a directory hides a file), at most one entry that cannot be read or whose
`lstat` fails, one midnight,
and Azure files of no or two chunks (a commit can be short or mixed only from two
on); its two uploads are interchangeable, which the symmetry set uses. Deadlock is not
checked: every instance has finitely many jobs or calls and then stops, as does
the program after its exit. `daemon` leaves out the alerts, which `executor` has,
and `daemon_shutdown` the cleanup command, whose call of `Start` is like the
creator's.

Fairness. Go runs every goroutine that can run: weak fairness of each
goroutine's steps, the main goroutine and the handler included. `sync.Mutex` hands
the lock to a waiter that has waited too long: strong fairness of the Lock steps.
A command is assumed to exit once it has received SIGTERM, and its descendants to
close its output; without SIGTERM it may run for ever in `ProcessManager` and
`ServiceBackup`. `Executor` assumes that commands, uploads and alerts end, since
the code has no timeout and nothing else would end them; `daemon_shutdown` does
not assume it. `Destination` has safety properties only and no fairness.

## Proofs

`ProcessManagerProofs`, for every finite set of calls. None of the properties
is inductive. The invariant is `TypeOK /\ ManagerInv`: who can hold the mutex
(`LockInv`), how far a command can be given its call and its waiting goroutine
(`CallInv`), and `wg = Cardinality(Outstanding)` (`WaitGroupInv`). The mutex
makes registration and `close(killAll)` exclusive, so a command is either
counted when `Terminate` waits or never started; the count needs the
cardinality theorems for finite sets. `TerminatedMeansReaped`,
`ReturnedMeansReaped`, `SuccessIsGenuine`, `NoSpawnDuringShutdown` and the
safety part of the refinement follow. Assumptions: `Calls` is finite and the
names "free" and "terminate" are not calls.

`ExecutorProofs`, for every set of jobs, number of destinations and set of
configurations. The invariant is `TypeOK /\ ExecutorInv`: the flag is set
exactly while an exclusive backup runs (`FlagInv`), so at most one runs
(`MutualExclusion`), so the source folder holds that job's backup from the
creator's success to the cleanup (`OwnershipInv`), so what is uploaded is its
own (`UploadsOwnBackup`), and a job that is past its uploads without an error
has stored everywhere (`ProgressInv`). `OwnershipInv` is stated for a job that is
`Undisturbed`: by the flag, or because no other job was ever activated, which is
the case of manual-backup, whatever it is configured to do. `AlertsMatchDelivery`,
`CleanupRemovesOnlyStored` and the safety part of the refinement of `BackupRuns`
follow; `PanicKeepsBackup` is proved along with the invariant, since no step is taken
after a panic. Assumptions: there is at least one destination,
configurations are records of five flags, and the words for the contents of the
folder are not jobs.

`ServiceBackupProofs`, for both programs and for every set of jobs and calls,
number of destinations and files, and set of configurations. Every step of the
program is a step of the manager or leaves it alone (`StepOfManager`; as a theorem,
`ManagerEmbedded`), and likewise for the executor (`StepOfExecutor`), so both
invariants hold in the program without being proved again. They say nothing of each
other, and that is what the invariant adds as `ProgramInv`: no job exists before
the clients are built (`StartInv`); a call of `Start` that is under way has a job
that waits for it (`WaitingInv`); the scp client runs inside an upload over scp and
has its key when it needs it (`ScpInv`); a job uploads only after its creator's
call succeeded, and the failure of a copy is remembered by its job (`ResultInv`);
and status 0 is the verdict of manual-backup's job (`StatusInv`).
`ExitLeavesNoCommand` then follows for each way out: the handler
exits after `Terminate`, where the manager's invariant applies, and the main
goroutine where no job waits, so that no call is pending.
`UploadedBackupIsWhole`, `CleanupMeansDelivered` and `ZeroMeansDelivered` combine
`ResultInv` with the manager's `SuccessIsGenuine` and the executor's
`OwnershipInv`; `OneCommandAtATime` combines `WaitingInv` with `MutualExclusion`.
`BackupsRunAsPromised`: both programs implement the safety part of `BackupRuns`. It
is not a corollary of the executor's refinement, since after a panic the commands go
on changing the folder; those steps are stutters of `BackupRuns`.
Assumptions beyond those of the parts: different jobs, and the creator, the cleanup
and the copies of one job, are different calls of `Start` (in the code each is a
call of its own; copies of one job to two destinations need not be told apart).

`CleanupRemovesOnlyStored`, `CleanupMeansDelivered` and `ZeroMeansDelivered` take an
upload inside the program that returned no error as one that delivered. That is all
the executor knows, and it is not always true: findings 4 to 6 are uploads to S3,
Azure and GCS that return no error without having stored the whole folder. What holds
of the program is the conjunction of these properties with `SuccessMeansStored`, and
its exceptions.

`DestinationProofs`, for every source folder, every set of uploads and all three
clients. A success is reported long after the walk has passed a file, so
`SuccessMeansStored` is not inductive. The invariant follows the walk (`CoverInv`
of each client): during an upload that no other disturbs, every file that no
unreadable directory hides is stored, is being stored, or is still ahead of the walk (`Pending`, in
`FolderUpload`: some entry the walk has yet to visit is the file or a directory
above it). That visiting an entry loses no file is the lemma
`VisitKeepsPending`. On S3 and Azure the overwriting of a name must be excluded:
an object lies below the dated path of the upload that put it (`ObjectsInv`), and on
Azure a block also lies in a blob with its file's name, and a blob is committed only
with all blocks of a file (`BlocksInv`). `OneDatedPath`
and `PanicNeedsFailedLstat` follow for any folder. `OverlapLosesNothing` is about
uploads to S3 that share their names, where who stored a file is left open
(`OverlapInv`): the folder only shrinks and stays closed under directories, so a file
that is still there has been passed, or is still ahead of the walk, and a put to its
name is always of the same file. Azure and GCS have no such property: another upload
empties a blob before it fills it, and commits what it has of an object when its copy
fails. `SuccessMeansStored` on S3 and Azure, `OverlapLosesNothing` and `BlobsAreWhole`
have the hypothesis
`DistinctNames`: no two files get the same name. It cannot be dropped, as finding 6
shows (`s3_colliding_names`); the folder of `destination` satisfies it. For GCS,
which takes the path relative to the folder, there is no such hypothesis.
Assumptions: paths are sequences, no file is also a directory, sizes are natural
numbers, and "none" is not an upload.

Only model-checked, because it is out of the prover's reach:

- liveness (`TerminateReturns`, `RegisteredStartReturns`, `EveryJobEnds`,
  `NoLockout`, `EveryDestinationTried`, `ShutdownCompletes`) and the fairness parts
  of `ImplementsManagedProcesses` and `ImplementsBackupRuns`;
- what `Replace` computes for every path, by induction over the path: that
  `DistinctNames` holds whenever the folder's path does not recur below it.

## Findings

1. `process/manager.go:40` returns "Shutdown in progress" with the mutex
   locked; later calls of `Start` block for ever. The daemon hides it by exiting.
2. The identifier, ssh-keyscan and ssh commands bypass the process manager and
   may be running when `main.go:80` logs that all backup processes terminated.
3. A job activated between the arrival of SIGTERM and the end of
   `scheduler.Stop`, or after a `Stop` that came before cron's start, still
   begins a backup.
4. The walk functions of S3 and Azure (`s3.go:231`, `azure.go:113`) ignore the
   error they are given: a directory that cannot be listed is skipped, and the
   upload succeeds without its files.
5. `gcs.go:93` drops the error of the writer's `Close`, which is the call that
   stores the object.
6. `s3.go:235` and `azure.go:117` remove the path of the source folder from a
   file's path wherever it occurs, not only in front: two files can get the same
   name, one overwrites the other and the upload succeeds. `gcs.go:84` uses
   `filepath.Rel`.

## Not modelled, and the plan

Every component with logic of its own is modelled, and every safety property of the
passing runs is proved. What could be added is an abstract specification of an
upload (an attempt that stores the folder or fails), implemented by the three
clients and by `Scp`.

Abstractions a reader should know of:

- In `Executor` and `ServiceBackup` an upload inside the program is one call and
  one return with either result, or a panic; `Destination` has what happens between
  them, and when an upload may panic or return no error without having stored all.
- The race of two overlapping first uploads for the bucket is in `S3` and `Gcs`: the
  loser's upload fails, and its job reports it. No property is about it.
- Names are compared by segments. `strings.Replace` works on text, so it also
  removes `/d` from `/data`; that case only adds to finding 6.
- manual-backup and the daemon are separate processes, each modelled alone. Their
  flags do not exclude each other; with respect to the source folder two
  processes are like overlapping jobs without `exit_if_in_progress`.
- Of the settings of a destination only the type and the fingerprint decide what
  the program does; the others, which `factory.go:20-90` copies into the clients, only
  matter to the services.

Left out for good: log lines, messages and command lines (data no property is
about), YAML parsing, HTTP and cloud SDKs, the alerts client and cron's schedule
arithmetic (libraries), `S3Cmd`, `RealFileSystem` and the options of `Initialize`
(no code of the programs calls them), test code.
