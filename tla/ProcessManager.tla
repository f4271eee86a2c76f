--------------------------- MODULE ProcessManager ---------------------------
(***************************************************************************)
(* process/manager.go: the Manager through which service-backup runs its   *)
(* child processes, so that SIGTERM can be passed on to them.              *)
(*                                                                         *)
(* Every member of Calls is one call of Start: a goroutine of its own with *)
(* a command of its own.  One further goroutine may call Terminate.  The   *)
(* steps are cut at each operation another goroutine can observe: taking   *)
(* the mutex, starting the process, wg.Add and Unlock, the select, the     *)
(* send on processExitChan, wg.Done, close(killAll) and wg.Wait.           *)
(***************************************************************************)
EXTENDS Naturals, FiniteSets

CONSTANT Calls     \* the calls of Start; each call has one command

ASSUME CallsAssumption == IsFiniteSet(Calls)

VARIABLES
  lock,      \* Manager.lock: the call that holds it, "terminate" or "free"
  killAll,   \* Manager.killAll has been closed
  wg,        \* the counter of Manager.wg
  pc,        \* where each call of Start is
  result,    \* what each call of Start returned ("none" before it returns)
  reaper,    \* the goroutine of lines 58-61 that waits for the command
  exitChan,  \* processExitChan (capacity 1) holds the result of cmd.Wait
  child,     \* the command's process: none, running, or its exit status
  output,    \* the pipe cmd.Wait drains is still open
  sigterm,   \* SIGTERM was delivered to the running process
  term       \* where the call of Terminate is

vars == <<lock, killAll, wg, pc, result, reaper, exitChan,
          child, output, sigterm, term>>

Holders == Calls \cup {"free", "terminate"}

(* "terminate" and "free" name no call. *)
ASSUME HoldersAssumption == {"free", "terminate"} \cap Calls = {}

Exited == {"ok", "err"}

TypeOK ==
  /\ lock \in Holders
  /\ killAll \in BOOLEAN
  /\ wg \in Nat
  /\ pc \in [Calls -> {"idle", "lock", "check", "register", "select",
                       "drain", "returned"}]
  /\ result \in [Calls -> {"none", "ok", "err", "shutdown", "sigterm"}]
  /\ reaper \in [Calls -> {"none", "wait", "sent", "done"}]
  /\ exitChan \in [Calls -> BOOLEAN]
  /\ child \in [Calls -> {"none", "running"} \cup Exited]
  /\ output \in [Calls -> BOOLEAN]
  /\ sigterm \in [Calls -> BOOLEAN]
  /\ term \in {"idle", "lock", "close", "wait", "done"}

(* NewManager: nothing started, killAll open. *)
Init ==
  /\ lock = "free"
  /\ killAll = FALSE
  /\ wg = 0
  /\ pc = [c \in Calls |-> "idle"]
  /\ result = [c \in Calls |-> "none"]
  /\ reaper = [c \in Calls |-> "none"]
  /\ exitChan = [c \in Calls |-> FALSE]
  /\ child = [c \in Calls |-> "none"]
  /\ output = [c \in Calls |-> FALSE]
  /\ sigterm = [c \in Calls |-> FALSE]
  /\ term = "idle"

osVars == <<child, output, sigterm>>

Returns(c, r) ==
  /\ pc' = [pc EXCEPT ![c] = "returned"]
  /\ result' = [result EXCEPT ![c] = r]

-----------------------------------------------------------------------------
(* Mistakes the properties would catch: variants of the definitions below  *)
(* that no specification uses.                                             *)

(* No call is ever refused. *)
NeverShutdown == FALSE

(* The mutex stays locked when cmd.Start fails. *)
SpawnFailsLocked(c) ==
  /\ pc[c] = "check"
  /\ ~killAll
  /\ Returns(c, "err")
  /\ UNCHANGED <<lock, killAll, wg, reaper, exitChan, osVars, term>>

(* The mutex is unlocked before wg.Add. *)
SpawnUnlocked(c) ==
  /\ pc[c] = "check"
  /\ ~killAll
  /\ lock' = "free"
  /\ child' = [child EXCEPT ![c] = "running"]
  /\ output' = [output EXCEPT ![c] = TRUE]
  /\ pc' = [pc EXCEPT ![c] = "register"]
  /\ UNCHANGED <<killAll, wg, result, reaper, exitChan, sigterm, term>>

(* wg.Add is missing. *)
RegisterUncounted(c) ==
  /\ pc[c] = "register"
  /\ lock' = "free"
  /\ reaper' = [reaper EXCEPT ![c] = "wait"]
  /\ pc' = [pc EXCEPT ![c] = "select"]
  /\ UNCHANGED <<killAll, wg, result, exitChan, osVars, term>>

(* Start returns without waiting for the process it has signalled. *)
KilledAtOnce(c) ==
  /\ pc[c] = "select"
  /\ killAll
  /\ sigterm' = [sigterm EXCEPT ![c] = child[c] = "running"]
  /\ Returns(c, "sigterm")
  /\ UNCHANGED <<lock, killAll, wg, reaper, exitChan, child, output, term>>

(* The process is not signalled. *)
KilledUnsignalled(c) ==
  /\ pc[c] = "select"
  /\ killAll
  /\ pc' = [pc EXCEPT ![c] = "drain"]
  /\ UNCHANGED <<lock, killAll, wg, result, reaper, exitChan, osVars, term>>

(* The signalled process's own exit status is returned. *)
DrainedStatus(c) ==
  /\ pc[c] = "drain"
  /\ exitChan[c]
  /\ exitChan' = [exitChan EXCEPT ![c] = FALSE]
  /\ Returns(c, child[c])
  /\ UNCHANGED <<lock, killAll, wg, reaper, osVars, term>>

(* Terminate does not wait. *)
TerminateUnwaited ==
  /\ term = "wait"
  /\ lock' = "free"
  /\ term' = "done"
  /\ UNCHANGED <<killAll, wg, pc, result, reaper, exitChan, osVars>>

-----------------------------------------------------------------------------
(* Start *)

StartCall(c) ==
  /\ pc[c] = "idle"
  /\ pc' = [pc EXCEPT ![c] = "lock"]
  /\ UNCHANGED <<lock, killAll, wg, result, reaper, exitChan, osVars, term>>

StartLock(c) ==
  /\ pc[c] = "lock"
  /\ lock = "free"
  /\ lock' = c
  /\ pc' = [pc EXCEPT ![c] = "check"]
  /\ UNCHANGED <<killAll, wg, result, reaper, exitChan, osVars, term>>

isBeingShutdown == killAll

(* The early return of line 40 leaves the mutex locked. *)
StartRefused(c) ==
  /\ pc[c] = "check"
  /\ isBeingShutdown
  /\ Returns(c, "shutdown")
  /\ UNCHANGED <<lock, killAll, wg, reaper, exitChan, osVars, term>>

(* cmd.Start failed, for instance because the executable is missing. *)
StartSpawnFails(c) ==
  /\ pc[c] = "check"
  /\ ~isBeingShutdown
  /\ lock' = "free"
  /\ Returns(c, "err")
  /\ UNCHANGED <<killAll, wg, reaper, exitChan, osVars, term>>

StartSpawn(c) ==
  /\ pc[c] = "check"
  /\ ~isBeingShutdown
  /\ child' = [child EXCEPT ![c] = "running"]
  /\ output' = [output EXCEPT ![c] = TRUE]
  /\ pc' = [pc EXCEPT ![c] = "register"]
  /\ UNCHANGED <<lock, killAll, wg, result, reaper, exitChan, sigterm, term>>

(* wg.Add(1), Unlock, and the goroutine that waits for the command. *)
StartRegister(c) ==
  /\ pc[c] = "register"
  /\ wg' = wg + 1
  /\ lock' = "free"
  /\ reaper' = [reaper EXCEPT ![c] = "wait"]
  /\ pc' = [pc EXCEPT ![c] = "select"]
  /\ UNCHANGED <<killAll, result, exitChan, osVars, term>>

(* The killAll branch of the select.  Signalling a process that was      *)
(* already reaped fails, and the error is dropped.                       *)
StartKilled(c) ==
  /\ pc[c] = "select"
  /\ killAll
  /\ sigterm' = [sigterm EXCEPT ![c] = child[c] = "running"]
  /\ pc' = [pc EXCEPT ![c] = "drain"]
  /\ UNCHANGED <<lock, killAll, wg, result, reaper, exitChan, child, output,
                 term>>

StartDrained(c) ==
  /\ pc[c] = "drain"
  /\ exitChan[c]
  /\ exitChan' = [exitChan EXCEPT ![c] = FALSE]
  /\ Returns(c, "sigterm")
  /\ UNCHANGED <<lock, killAll, wg, reaper, osVars, term>>

(* The processExitChan branch of the select. *)
StartFinished(c) ==
  /\ pc[c] = "select"
  /\ exitChan[c]
  /\ exitChan' = [exitChan EXCEPT ![c] = FALSE]
  /\ Returns(c, child[c])
  /\ UNCHANGED <<lock, killAll, wg, reaper, osVars, term>>

-----------------------------------------------------------------------------
(* The waiting goroutine, and the operating system.                        *)

(* cmd.Wait returns when the process has exited and its output pipe has    *)
(* been drained; the send on the buffered channel does not block.          *)
ReaperSend(c) ==
  /\ reaper[c] = "wait"
  /\ child[c] \in Exited
  /\ ~output[c]
  /\ exitChan' = [exitChan EXCEPT ![c] = TRUE]
  /\ reaper' = [reaper EXCEPT ![c] = "sent"]
  /\ UNCHANGED <<lock, killAll, wg, pc, result, osVars, term>>

ReaperDone(c) ==
  /\ reaper[c] = "sent"
  /\ wg' = wg - 1
  /\ reaper' = [reaper EXCEPT ![c] = "done"]
  /\ UNCHANGED <<lock, killAll, pc, result, exitChan, osVars, term>>

(* A process may exit at any time with any status, signalled or not. *)
ChildExits(c) ==
  /\ child[c] = "running"
  /\ \E s \in Exited : child' = [child EXCEPT ![c] = s]
  /\ UNCHANGED <<lock, killAll, wg, pc, result, reaper, exitChan, output,
                 sigterm, term>>

(* The last descendant that inherited stdout or stderr is gone.  SIGTERM   *)
(* goes to the process itself only, never to its descendants.              *)
OutputCloses(c) ==
  /\ child[c] \in Exited
  /\ output[c]
  /\ output' = [output EXCEPT ![c] = FALSE]
  /\ UNCHANGED <<lock, killAll, wg, pc, result, reaper, exitChan, child,
                 sigterm, term>>

-----------------------------------------------------------------------------
(* Terminate *)

TerminateCall ==
  /\ term = "idle"
  /\ term' = "lock"
  /\ UNCHANGED <<lock, killAll, wg, pc, result, reaper, exitChan, osVars>>

TerminateLock ==
  /\ term = "lock"
  /\ lock = "free"
  /\ lock' = "terminate"
  /\ term' = "close"
  /\ UNCHANGED <<killAll, wg, pc, result, reaper, exitChan, osVars>>

TerminateClose ==
  /\ term = "close"
  /\ killAll' = TRUE
  /\ term' = "wait"
  /\ UNCHANGED <<lock, wg, pc, result, reaper, exitChan, osVars>>

(* wg.Wait, with the mutex held, then Unlock. *)
TerminateWait ==
  /\ term = "wait"
  /\ wg = 0
  /\ lock' = "free"
  /\ term' = "done"
  /\ UNCHANGED <<killAll, wg, pc, result, reaper, exitChan, osVars>>

-----------------------------------------------------------------------------
(* The steps of Start once it has been called, of its waiting goroutine,   *)
(* and of the command and its descendants.                                 *)
StartStep(c) ==
  \/ StartLock(c)
  \/ StartRefused(c)
  \/ StartSpawnFails(c)
  \/ StartSpawn(c)
  \/ StartRegister(c)
  \/ StartKilled(c)
  \/ StartDrained(c)
  \/ StartFinished(c)

ReaperStep(c) == ReaperSend(c) \/ ReaperDone(c)

ChildStep(c) == ChildExits(c) \/ OutputCloses(c)

TerminateStep == TerminateLock \/ TerminateClose \/ TerminateWait

Next ==
  \/ \E c \in Calls : \/ StartCall(c)
                      \/ StartStep(c)
                      \/ ReaperStep(c)
                      \/ ChildStep(c)
  \/ TerminateCall
  \/ TerminateStep

SafeSpec == Init /\ [][Next]_vars

(* Go's scheduler runs every runnable goroutine, and its mutex has a       *)
(* starvation mode that hands the lock to the longest waiter, hence strong *)
(* fairness for the two Lock steps.  The commands are assumed to exit once *)
(* they have received SIGTERM, and their descendants to follow; without    *)
(* SIGTERM a command may run for ever, so ChildExits alone is not fair.    *)
Fairness ==
  /\ \A c \in Calls :
       /\ SF_vars(StartLock(c))
       /\ WF_vars(StartRefused(c) \/ StartSpawnFails(c) \/ StartSpawn(c))
       /\ WF_vars(StartRegister(c))
       /\ WF_vars(StartKilled(c) \/ StartFinished(c))
       /\ WF_vars(StartDrained(c))
       /\ WF_vars(ReaperStep(c))
       /\ WF_vars(sigterm[c] /\ ChildExits(c))
       /\ WF_vars(OutputCloses(c))
  /\ SF_vars(TerminateLock)
  /\ WF_vars(TerminateClose \/ TerminateWait)

Spec == SafeSpec /\ Fairness

-----------------------------------------------------------------------------
(* Properties *)

(* A command's process, or a descendant of it, is still there. *)
Alive(c) == child[c] = "running" \/ output[c]

(* When Terminate has returned, no command the manager ever started is     *)
(* still running: main.go then logs that all backup processes terminated   *)
(* and exits (manager.go:73-78).                                           *)
TerminatedMeansReaped == term = "done" => \A c \in Calls : ~Alive(c)

(* A call of Start that has returned leaves no process behind, on whichever *)
(* path it returned (manager.go:37-71).                                     *)
ReturnedMeansReaped ==
  \A c \in Calls : pc[c] = "returned" => ~Alive(c)

(* Start reports success only for a command that exited with status 0 and  *)
(* that the manager never sent SIGTERM: a backup cut short by the shutdown *)
(* is never taken for a complete one (manager.go:63-70).                   *)
SuccessIsGenuine ==
  \A c \in Calls : result[c] = "ok" => child[c] = "ok" /\ ~sigterm[c]

(* Once killAll is closed no command is started, although calls of Start   *)
(* may still be waiting for the mutex (manager.go:38-41, 74-75).           *)
NoSpawnDuringShutdown ==
  [][killAll => \A c \in Calls : child[c] = "none" => child'[c] = "none"]_vars

(* Terminate returns once it has been called: no command, no blocked Start *)
(* and no waiting goroutine can hold it up for ever (manager.go:73-78).    *)
TerminateReturns == term = "lock" ~> term = "done"

(* A Start that has registered its command returns once the shutdown has   *)
(* begun or the command's process is gone (manager.go:58-70).              *)
RegisteredStartReturns ==
  \A c \in Calls :
    pc[c] = "select" /\ (killAll \/ child[c] \in Exited) ~> pc[c] = "returned"

(* What manager.go:40 promises a call made during the shutdown: it is      *)
(* refused with the error "Shutdown in progress", so it returns.           *)
StartDuringShutdownReturns ==
  \A c \in Calls : pc[c] = "lock" /\ killAll ~> pc[c] = "returned"

-----------------------------------------------------------------------------
(* The inductive invariant behind the safety properties. *)

(* The commands whose waiting goroutine has yet to call wg.Done. *)
Outstanding == {c \in Calls : reaper[c] \in {"wait", "sent"}}

(* Who holds the mutex.  A refused call keeps it, which is why the         *)
(* implications go one way only.                                           *)
LockInv ==
  /\ \A c \in Calls : pc[c] \in {"check", "register"} => lock = c
  /\ term \in {"close", "wait"} => lock = "terminate"
  /\ killAll <=> term \in {"wait", "done"}
  /\ \A c \in Calls : pc[c] = "register" => ~killAll

(* How far the command of a call can be, given how far the call and its    *)
(* waiting goroutine are.                                                  *)
CallInv(c) ==
  /\ pc[c] \in {"idle", "lock", "check"} => child[c] = "none" /\ reaper[c] = "none"
  /\ pc[c] = "register" => child[c] # "none" /\ reaper[c] = "none"
  /\ pc[c] \in {"select", "drain"} => reaper[c] # "none"
  /\ pc[c] = "returned" => reaper[c] # "wait" /\ (reaper[c] = "none" => child[c] = "none")
  /\ pc[c] # "returned" <=> result[c] = "none"
  /\ child[c] = "none" => ~output[c]
  /\ reaper[c] = "wait" => child[c] # "none"
  /\ reaper[c] \in {"sent", "done"} => child[c] \in Exited /\ ~output[c]
  /\ exitChan[c] => reaper[c] \in {"sent", "done"}
  /\ sigterm[c] => pc[c] = "drain" \/ result[c] = "sigterm"
  /\ result[c] = "ok" => child[c] = "ok"

(* wg counts the waiting goroutines, and none is left after Terminate. *)
WaitGroupInv ==
  /\ wg = Cardinality(Outstanding)
  /\ term = "done" => Outstanding = {}

(* Conjoined with TypeOK, preserved by every step of Next: the mutex       *)
(* orders registration and shutdown, and wg stands for the live commands   *)
(* (manager.go:37-78).                                                     *)
ManagerInv == LockInv /\ (\A c \in Calls : CallInv(c)) /\ WaitGroupInv

-----------------------------------------------------------------------------
(* The abstract view of the manager's state. *)
phaseBar ==
  IF ~killAll THEN "open" ELSE IF term = "done" THEN "closed" ELSE "closing"

procBar ==
  [c \in Calls |-> IF child[c] = "none" THEN "absent"
                   ELSE IF Alive(c) THEN "live" ELSE "gone"]

Abstract == INSTANCE ManagedProcesses WITH phase <- phaseBar, proc <- procBar

(* The manager keeps the promise of ManagedProcesses: commands start only  *)
(* before the shutdown, and Terminate finishes exactly when none is left,  *)
(* which it eventually does (manager.go:37-78).                            *)
ImplementsManagedProcesses == Abstract!Spec
=============================================================================
