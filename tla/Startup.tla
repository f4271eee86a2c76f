------------------------------ MODULE Startup ------------------------------
(***************************************************************************)
(* What the main goroutines of the two programs, main.go (the daemon) and  *)
(* cmd/manual-backup/main.go, do before the first backup: config.Parse,    *)
(* upload.Initialize, which builds a client for each destination, and, in  *)
(* the daemon, scheduler.NewScheduler.  Every failure ends the program.    *)
(* The goroutine that handles the signal is started late: until then a     *)
(* signal waits in its channel.  ServiceBackup has what follows.           *)
(***************************************************************************)
EXTENDS Naturals, Sequences

CONSTANTS
  NumDests,      \* the number of destinations, when there are any
  Programs,      \* the programs considered,
  Destinations,  \* their lists of destinations
  Schedules      \* and their values of cron_schedule

(* A type is known or not; only scp has a fingerprint, which may be a      *)
(* string, a YAML value of some other type, or absent.                     *)
Destination == [type : {"s3", "scp", "azure", "gcs", "unknown"},
                fingerprint : {"string", "other", "absent"}]

ASSUME ProgramsAssumption == Programs \subseteq {"service-backup", "manual-backup"}

ASSUME DestinationsAssumption ==
  Destinations \subseteq {<<>>} \cup [1..NumDests -> Destination]

ASSUME SchedulesAssumption == Schedules \subseteq {"valid", "invalid", "missing"}

VARIABLES
  program,       \* the program that runs
  destinations,  \* destinations of its configuration
  schedule,      \* cron_schedule of its configuration
  main,          \* where the main goroutine is
  uploaders,     \* the clients, in the order of the destinations
  handler,       \* where the goroutine that handles the signal is
  status         \* the program runs or has exited with a status

configVars == <<program, destinations, schedule>>
startVars == <<program, destinations, schedule, main, uploaders, handler, status>>

StartTypeOK ==
  /\ program \in Programs
  /\ destinations \in Destinations
  /\ schedule \in Schedules
  /\ main \in {"parse", "initialize", "schedule", "run", "execute", "executing"}
  /\ uploaders = <<>> \/ DOMAIN uploaders = DOMAIN destinations
  /\ handler \in {"none", "waiting", "terminate", "terminating"}
  /\ status \in {"running", "exit 0", "exit 1", "exit 2"}

StartInit ==
  /\ program \in Programs
  /\ destinations \in Destinations
  /\ schedule \in Schedules
  /\ main = "parse"
  /\ uploaders = <<>>
  /\ handler = "none"
  /\ status = "running"

Daemon == program = "service-backup"
NoDestinations == destinations = <<>>

(* os.Exit, or the return from main: the Go program ends there and then. *)
Exit(code) ==
  /\ status' = code
  /\ UNCHANGED <<configVars, main, uploaders, handler>>

(* A setting that is absent or not a string silently becomes "". *)
toString(raw) == IF raw = "string" THEN raw ELSE ""

(* uploaderFactory (factory.go:20-90), of which only the type and the      *)
(* fingerprint are kept: the settings of the other types, and the other    *)
(* ones of scp, only matter to the services behind them.                   *)
Client(dest) == [type |-> dest.type, fingerprint |-> toString(dest.fingerprint)]

-----------------------------------------------------------------------------
(* Mistakes the properties would catch: variants of the definitions below  *)
(* that no specification uses.                                             *)

(* The loop of Initialize leaves no client for a type it does not know. *)
UnknownTypeSkipped ==
  /\ main = "initialize"
  /\ uploaders' = [d \in DOMAIN destinations |->
                     IF destinations[d].type = "unknown"
                     THEN [type |-> "nil", fingerprint |-> ""]
                     ELSE Client(destinations[d])]
  /\ main' = IF Daemon THEN "schedule" ELSE "execute"
  /\ handler' = IF Daemon THEN handler ELSE "waiting"
  /\ UNCHANGED <<configVars, status>>

(* The schedule is not defaulted when there is no destination. *)
NotDefaulted == schedule

-----------------------------------------------------------------------------
Parse ==
  /\ main = "parse"
  /\ main' = "initialize"
  /\ UNCHANGED <<configVars, uploaders, handler, status>>

(* The file cannot be read or is not the YAML of a BackupConfig. *)
ParseFails == main = "parse" /\ Exit("exit 2")

(* manual-backup starts its handler as soon as it has the uploaders. *)
Initialize ==
  /\ main = "initialize"
  /\ \A d \in DOMAIN destinations : destinations[d].type # "unknown"
  /\ uploaders' = [d \in DOMAIN destinations |-> Client(destinations[d])]
  /\ main' = IF Daemon THEN "schedule" ELSE "execute"
  /\ handler' = IF Daemon THEN handler ELSE "waiting"
  /\ UNCHANGED <<configVars, status>>

(* A type is unknown, or there is no CA certificate for one on S3. *)
InitializeFails ==
  /\ main = "initialize"
  /\ \E d \in DOMAIN destinations : destinations[d].type \in {"unknown", "s3"}
  /\ Exit("exit 2")

(* "@monthly" if there is neither a schedule nor a destination. *)
CronSchedule == IF NoDestinations /\ schedule = "missing" THEN "valid" ELSE schedule

(* The daemon starts its handler between NewScheduler and Run. *)
NewScheduler ==
  /\ main = "schedule"
  /\ CronSchedule = "valid"
  /\ main' = "run"
  /\ handler' = "waiting"
  /\ UNCHANGED <<configVars, uploaders, status>>

NewSchedulerFails ==
  /\ main = "schedule"
  /\ CronSchedule # "valid"
  /\ Exit("exit 2")

StartupStep ==
  \/ Parse
  \/ ParseFails
  \/ Initialize
  \/ InitializeFails
  \/ NewScheduler
  \/ NewSchedulerFails
=============================================================================
