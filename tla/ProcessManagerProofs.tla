------------------------ MODULE ProcessManagerProofs ------------------------
(***************************************************************************)
(* The safety properties of ProcessManager, proved for every finite set of *)
(* calls of Start.  The argument is one inductive invariant, TypeOK and    *)
(* ManagerInv together: the mutex orders wg.Add before close(killAll), so  *)
(* that a command is either counted by wg when Terminate waits or never    *)
(* started at all.                                                         *)
(***************************************************************************)
EXTENDS ProcessManager, FiniteSetTheorems, TLAPS

IInv == TypeOK /\ ManagerInv

(* Only finitely many commands are waited for, so wg is a natural number.  *)
LEMMA OutstandingFinite ==
  /\ IsFiniteSet(Outstanding)
  /\ Cardinality(Outstanding) \in Nat
  /\ Cardinality(Outstanding) = 0 <=> Outstanding = {}
<1>1. IsFiniteSet(Outstanding)
  BY FS_Subset, CallsAssumption DEF Outstanding
<1> QED
  BY <1>1, FS_CardinalityType, FS_EmptySet

(* A step that leaves the waiting goroutines and wg alone, and does not    *)
(* end Terminate, keeps the count right.                                   *)
LEMMA WaitGroupKept ==
  ASSUME WaitGroupInv, UNCHANGED <<wg, reaper>>, term' = "done" => term = "done"
  PROVE  WaitGroupInv'
BY DEF WaitGroupInv, Outstanding

(* NewManager's state satisfies the invariant. *)
LEMMA InitInv == Init => IInv
<1> SUFFICES ASSUME Init PROVE IInv
  OBVIOUS
<1>1. TypeOK
  BY DEF Init, TypeOK, Holders, Exited
<1>2. LockInv
  BY DEF Init, LockInv
<1>3. \A c \in Calls : CallInv(c)
  BY DEF Init, CallInv, Exited
<1>4. WaitGroupInv
  <2>1. Outstanding = {}
    BY DEF Init, Outstanding
  <2> QED
    BY <2>1, FS_EmptySet DEF Init, WaitGroupInv
<1> QED
  BY <1>1, <1>2, <1>3, <1>4 DEF IInv, ManagerInv

(* The steps of Start, of its waiting goroutine and of its command.        *)
LEMMA CallStepInv ==
  ASSUME IInv, NEW c \in Calls,
         StartCall(c) \/ StartStep(c) \/ ReaperStep(c) \/ ChildStep(c)
  PROVE  IInv'
<1> USE DEF IInv, ManagerInv
<1>1. CASE StartCall(c)
  <2>1. TypeOK'
    BY <1>1 DEF StartCall, osVars, TypeOK, Holders, Exited
  <2>2. LockInv'
    BY <1>1, HoldersAssumption DEF StartCall, osVars, LockInv, TypeOK, Holders
  <2>3. \A d \in Calls : CallInv(d)'
    BY <1>1 DEF StartCall, osVars, CallInv, TypeOK, Exited
  <2>4. WaitGroupInv'
    BY <1>1, WaitGroupKept DEF StartCall
  <2> QED
    BY <2>1, <2>2, <2>3, <2>4
<1>2. CASE StartLock(c)
  <2>1. TypeOK'
    BY <1>2 DEF StartLock, osVars, TypeOK, Holders, Exited
  <2>2. LockInv'
    BY <1>2, HoldersAssumption DEF StartLock, osVars, LockInv, TypeOK, Holders
  <2>3. \A d \in Calls : CallInv(d)'
    BY <1>2 DEF StartLock, osVars, CallInv, TypeOK, Exited
  <2>4. WaitGroupInv'
    BY <1>2, WaitGroupKept DEF StartLock
  <2> QED
    BY <2>1, <2>2, <2>3, <2>4
<1>3. CASE StartRefused(c)
  <2>1. TypeOK'
    BY <1>3
       DEF StartRefused, Returns, isBeingShutdown, osVars, TypeOK, Holders,
           Exited
  <2>2. LockInv'
    BY <1>3, HoldersAssumption
       DEF StartRefused, Returns, isBeingShutdown, osVars, LockInv, TypeOK,
           Holders
  <2>3. \A d \in Calls : CallInv(d)'
    BY <1>3
       DEF StartRefused, Returns, isBeingShutdown, osVars, CallInv, TypeOK,
           Exited
  <2>4. WaitGroupInv'
    BY <1>3, WaitGroupKept DEF StartRefused
  <2> QED
    BY <2>1, <2>2, <2>3, <2>4
<1>4. CASE StartSpawnFails(c)
  <2>1. TypeOK'
    BY <1>4
       DEF StartSpawnFails, Returns, isBeingShutdown, osVars, TypeOK, Holders,
           Exited
  <2>2. LockInv'
    BY <1>4, HoldersAssumption
       DEF StartSpawnFails, Returns, isBeingShutdown, osVars, LockInv, TypeOK,
           Holders
  <2>3. \A d \in Calls : CallInv(d)'
    BY <1>4
       DEF StartSpawnFails, Returns, isBeingShutdown, osVars, CallInv, TypeOK,
           Exited
  <2>4. WaitGroupInv'
    BY <1>4, WaitGroupKept DEF StartSpawnFails
  <2> QED
    BY <2>1, <2>2, <2>3, <2>4
<1>5. CASE StartSpawn(c)
  <2>1. TypeOK'
    BY <1>5 DEF StartSpawn, isBeingShutdown, TypeOK, Holders, Exited
  <2>2. LockInv'
    BY <1>5, HoldersAssumption
       DEF StartSpawn, isBeingShutdown, LockInv, TypeOK, Holders
  <2>3. \A d \in Calls : CallInv(d)'
    BY <1>5 DEF StartSpawn, isBeingShutdown, CallInv, TypeOK, Exited
  <2>4. WaitGroupInv'
    BY <1>5, WaitGroupKept DEF StartSpawn
  <2> QED
    BY <2>1, <2>2, <2>3, <2>4
<1>6. CASE StartRegister(c)
  <2>1. /\ wg \in Nat
        /\ wg = Cardinality(Outstanding)
        /\ Cardinality(Outstanding \cup {c}) = wg + 1
    <3>1. c \notin Outstanding
      BY <1>6 DEF StartRegister, Outstanding, CallInv
    <3> QED
      BY <3>1, OutstandingFinite, FS_AddElement DEF WaitGroupInv
  <2>2. TypeOK'
    BY <2>1, <1>6 DEF StartRegister, osVars, TypeOK, Holders, Exited
  <2>3. LockInv'
    BY <1>6, HoldersAssumption
       DEF StartRegister, osVars, LockInv, TypeOK, Holders
  <2>4. \A d \in Calls : CallInv(d)'
    BY <1>6 DEF StartRegister, osVars, CallInv, TypeOK, Exited
  <2>5. WaitGroupInv'
    <3>1. Outstanding' = Outstanding \cup {c}
      BY <1>6 DEF StartRegister, Outstanding, TypeOK
    <3>2. term' # "done"
      BY <1>6 DEF StartRegister, LockInv
    <3> QED
      BY <3>1, <3>2, <2>1, <1>6 DEF StartRegister, WaitGroupInv
  <2> QED
    BY <2>2, <2>3, <2>4, <2>5
<1>7. CASE StartKilled(c)
  <2>1. TypeOK'
    BY <1>7 DEF StartKilled, TypeOK, Holders, Exited
  <2>2. LockInv'
    BY <1>7, HoldersAssumption DEF StartKilled, LockInv, TypeOK, Holders
  <2>3. \A d \in Calls : CallInv(d)'
    BY <1>7 DEF StartKilled, CallInv, TypeOK, Exited
  <2>4. WaitGroupInv'
    BY <1>7, WaitGroupKept DEF StartKilled
  <2> QED
    BY <2>1, <2>2, <2>3, <2>4
<1>8. CASE StartDrained(c)
  <2>1. TypeOK'
    BY <1>8 DEF StartDrained, Returns, osVars, TypeOK, Holders, Exited
  <2>2. LockInv'
    BY <1>8, HoldersAssumption
       DEF StartDrained, Returns, osVars, LockInv, TypeOK, Holders
  <2>3. \A d \in Calls : CallInv(d)'
    BY <1>8 DEF StartDrained, Returns, osVars, CallInv, TypeOK, Exited
  <2>4. WaitGroupInv'
    BY <1>8, WaitGroupKept DEF StartDrained
  <2> QED
    BY <2>1, <2>2, <2>3, <2>4
<1>9. CASE StartFinished(c)
  <2>1. TypeOK'
    BY <1>9
       DEF StartFinished, Returns, osVars, TypeOK, Holders, Exited, CallInv
  <2>2. LockInv'
    BY <1>9, HoldersAssumption
       DEF StartFinished, Returns, osVars, LockInv, TypeOK, Holders
  <2>3. \A d \in Calls : CallInv(d)'
    BY <1>9 DEF StartFinished, Returns, osVars, CallInv, TypeOK, Exited
  <2>4. WaitGroupInv'
    BY <1>9, WaitGroupKept DEF StartFinished
  <2> QED
    BY <2>1, <2>2, <2>3, <2>4
<1>10. CASE ReaperSend(c)
  <2>1. TypeOK'
    BY <1>10 DEF ReaperSend, osVars, TypeOK, Holders, Exited
  <2>2. LockInv'
    BY <1>10, HoldersAssumption
       DEF ReaperSend, osVars, LockInv, TypeOK, Holders
  <2>3. \A d \in Calls : CallInv(d)'
    BY <1>10 DEF ReaperSend, osVars, CallInv, TypeOK, Exited
  <2>4. WaitGroupInv'
    <3>1. Outstanding' = Outstanding
      BY <1>10 DEF ReaperSend, Outstanding, TypeOK
    <3> QED
      BY <3>1, <1>10 DEF ReaperSend, WaitGroupInv
  <2> QED
    BY <2>1, <2>2, <2>3, <2>4
<1>11. CASE ReaperDone(c)
  <2>1. /\ wg \in Nat /\ wg - 1 \in Nat
        /\ wg = Cardinality(Outstanding)
        /\ Cardinality(Outstanding \ {c}) = wg - 1
    <3>1. c \in Outstanding
      BY <1>11 DEF ReaperDone, Outstanding
    <3> QED
      BY <3>1, OutstandingFinite, FS_RemoveElement, FS_CardinalityType
         DEF WaitGroupInv
  <2>2. TypeOK'
    BY <2>1, <1>11 DEF ReaperDone, osVars, TypeOK, Holders, Exited
  <2>3. LockInv'
    BY <1>11, HoldersAssumption
       DEF ReaperDone, osVars, LockInv, TypeOK, Holders
  <2>4. \A d \in Calls : CallInv(d)'
    BY <1>11 DEF ReaperDone, osVars, CallInv, TypeOK, Exited
  <2>5. WaitGroupInv'
    <3>1. Outstanding' = Outstanding \ {c}
      BY <1>11 DEF ReaperDone, Outstanding, TypeOK
    <3> QED
      BY <3>1, <2>1, <1>11 DEF ReaperDone, WaitGroupInv
  <2> QED
    BY <2>2, <2>3, <2>4, <2>5
<1>12. CASE ChildExits(c)
  <2>1. TypeOK'
    BY <1>12 DEF ChildExits, TypeOK, Holders, Exited
  <2>2. LockInv'
    BY <1>12, HoldersAssumption DEF ChildExits, LockInv, TypeOK, Holders
  <2>3. \A d \in Calls : CallInv(d)'
    BY <1>12 DEF ChildExits, CallInv, TypeOK, Exited
  <2>4. WaitGroupInv'
    BY <1>12, WaitGroupKept DEF ChildExits
  <2> QED
    BY <2>1, <2>2, <2>3, <2>4
<1>13. CASE OutputCloses(c)
  <2>1. TypeOK'
    BY <1>13 DEF OutputCloses, TypeOK, Holders, Exited
  <2>2. LockInv'
    BY <1>13, HoldersAssumption DEF OutputCloses, LockInv, TypeOK, Holders
  <2>3. \A d \in Calls : CallInv(d)'
    BY <1>13 DEF OutputCloses, CallInv, TypeOK, Exited
  <2>4. WaitGroupInv'
    BY <1>13, WaitGroupKept DEF OutputCloses
  <2> QED
    BY <2>1, <2>2, <2>3, <2>4
<1> QED
  BY <1>1, <1>2, <1>3, <1>4, <1>5, <1>6, <1>7, <1>8, <1>9, <1>10, <1>11, <1>12,
     <1>13
     DEF StartStep, ReaperStep, ChildStep

(* The steps of Terminate. *)
LEMMA TerminateStepInv ==
  ASSUME IInv, TerminateCall \/ TerminateStep
  PROVE  IInv'
<1> USE DEF IInv, ManagerInv
<1>1. CASE TerminateCall
  <2>1. TypeOK'
    BY <1>1 DEF TerminateCall, osVars, TypeOK, Holders, Exited
  <2>2. LockInv'
    BY <1>1, HoldersAssumption
       DEF TerminateCall, osVars, LockInv, TypeOK, Holders
  <2>3. \A d \in Calls : CallInv(d)'
    BY <1>1 DEF TerminateCall, osVars, CallInv, TypeOK, Exited
  <2>4. WaitGroupInv'
    BY <1>1, WaitGroupKept DEF TerminateCall
  <2> QED
    BY <2>1, <2>2, <2>3, <2>4
<1>2. CASE TerminateLock
  <2>1. TypeOK'
    BY <1>2 DEF TerminateLock, osVars, TypeOK, Holders, Exited
  <2>2. LockInv'
    BY <1>2, HoldersAssumption
       DEF TerminateLock, osVars, LockInv, TypeOK, Holders
  <2>3. \A d \in Calls : CallInv(d)'
    BY <1>2 DEF TerminateLock, osVars, CallInv, TypeOK, Exited
  <2>4. WaitGroupInv'
    BY <1>2, WaitGroupKept DEF TerminateLock
  <2> QED
    BY <2>1, <2>2, <2>3, <2>4
<1>3. CASE TerminateClose
  <2>1. TypeOK'
    BY <1>3 DEF TerminateClose, osVars, TypeOK, Holders, Exited
  <2>2. LockInv'
    BY <1>3, HoldersAssumption
       DEF TerminateClose, osVars, LockInv, TypeOK, Holders
  <2>3. \A d \in Calls : CallInv(d)'
    BY <1>3 DEF TerminateClose, osVars, CallInv, TypeOK, Exited
  <2>4. WaitGroupInv'
    BY <1>3, WaitGroupKept DEF TerminateClose
  <2> QED
    BY <2>1, <2>2, <2>3, <2>4
<1>4. CASE TerminateWait
  <2>1. TypeOK'
    BY <1>4 DEF TerminateWait, osVars, TypeOK, Holders, Exited
  <2>2. LockInv'
    BY <1>4, HoldersAssumption
       DEF TerminateWait, osVars, LockInv, TypeOK, Holders
  <2>3. \A d \in Calls : CallInv(d)'
    BY <1>4 DEF TerminateWait, osVars, CallInv, TypeOK, Exited
  <2>4. WaitGroupInv'
    <3>1. Outstanding = {} /\ Outstanding' = Outstanding
      BY <1>4, OutstandingFinite DEF TerminateWait, Outstanding, WaitGroupInv
    <3> QED
      BY <3>1, <1>4 DEF TerminateWait, WaitGroupInv
  <2> QED
    BY <2>1, <2>2, <2>3, <2>4
<1> QED
  BY <1>1, <1>2, <1>3, <1>4 DEF TerminateStep

(* Every step of the manager preserves the invariant. *)
LEMMA NextInv == IInv /\ [Next]_vars => IInv'
<1> SUFFICES ASSUME IInv, [Next]_vars PROVE IInv'
  OBVIOUS
<1>1. CASE \E c \in Calls :
             StartCall(c) \/ StartStep(c) \/ ReaperStep(c) \/ ChildStep(c)
  BY <1>1, CallStepInv
<1>2. CASE TerminateCall \/ TerminateStep
  BY <1>2, TerminateStepInv
<1>3. CASE UNCHANGED vars
  BY <1>3 DEF vars, IInv, TypeOK, ManagerInv, LockInv, CallInv, WaitGroupInv,
              Outstanding
<1> QED
  BY <1>1, <1>2, <1>3 DEF Next

(* ManagerInv holds in every reachable state, for any number of calls: wg  *)
(* counts exactly the commands Terminate still has to wait for, and the    *)
(* mutex is where manager.go:37-78 expects it.                             *)
THEOREM ManagerInvariant == SafeSpec => [](TypeOK /\ ManagerInv)
<1>1. Init => TypeOK /\ ManagerInv
  BY InitInv DEF IInv
<1>2. TypeOK /\ ManagerInv /\ [Next]_vars => (TypeOK /\ ManagerInv)'
  BY NextInv DEF IInv
<1> QED
  BY <1>1, <1>2, PTL DEF SafeSpec

(* The mutex, wait group, channels and calls of manager.go:18-78 keep to   *)
(* their types; in particular wg.Done never takes the counter below zero.  *)
THEOREM TypesHold == SafeSpec => []TypeOK
  BY ManagerInvariant, PTL

(* When Terminate returns, no command started through the manager is left  *)
(* running, however many calls of Start raced with it (manager.go:73-78).  *)
THEOREM TerminateLeavesNothing == SafeSpec => []TerminatedMeansReaped
<1>1. TypeOK /\ ManagerInv => TerminatedMeansReaped
  BY DEF TypeOK, ManagerInv, LockInv, CallInv, WaitGroupInv, Outstanding,
         TerminatedMeansReaped, Alive, Exited
<1> QED
  BY <1>1, ManagerInvariant, PTL

(* Start never returns while its command or a descendant is alive          *)
(* (manager.go:37-71).                                                     *)
THEOREM StartLeavesNothing == SafeSpec => []ReturnedMeansReaped
<1>1. TypeOK /\ ManagerInv => ReturnedMeansReaped
  BY DEF TypeOK, ManagerInv, CallInv, ReturnedMeansReaped, Alive, Exited
<1> QED
  BY <1>1, ManagerInvariant, PTL

(* Start reports success only for a command that succeeded and was never   *)
(* sent SIGTERM (manager.go:63-70).                                        *)
THEOREM StartSuccessIsGenuine == SafeSpec => []SuccessIsGenuine
<1>1. TypeOK /\ ManagerInv => SuccessIsGenuine
  BY DEF TypeOK, ManagerInv, CallInv, SuccessIsGenuine
<1> QED
  BY <1>1, ManagerInvariant, PTL

(* No step taken after close(killAll) starts a command (manager.go:38-41,  *)
(* 74-75).                                                                 *)
THEOREM ShutdownStartsNothing == SafeSpec => NoSpawnDuringShutdown
<1> DEFINE Quiet == killAll => \A c \in Calls : child[c] = "none" => child'[c] = "none"
<1>1. TypeOK /\ ManagerInv /\ [Next]_vars => [Quiet]_vars
  <2> SUFFICES ASSUME TypeOK, [Next]_vars, killAll,
                      NEW d \in Calls, child[d] = "none"
               PROVE  child'[d] = "none"
    BY DEF vars
  <2>1. ASSUME NEW c \in Calls, StartCall(c) \/ StartStep(c) \/ ReaperStep(c)
        PROVE  child' = child
    BY <2>1 DEF StartCall, StartStep, StartLock, StartRefused, StartSpawnFails,
                StartSpawn, isBeingShutdown, StartRegister, StartKilled,
                StartDrained, StartFinished, ReaperStep, ReaperSend, ReaperDone,
                osVars
  <2>2. ASSUME NEW c \in Calls, ChildStep(c) PROVE child'[d] = "none"
    BY <2>2 DEF ChildStep, ChildExits, OutputCloses, TypeOK
  <2>3. CASE TerminateCall \/ TerminateStep
    BY <2>3 DEF TerminateCall, TerminateStep, TerminateLock, TerminateClose,
                TerminateWait, osVars
  <2>4. CASE UNCHANGED vars
    BY <2>4 DEF vars
  <2> QED
    BY <2>1, <2>2, <2>3, <2>4 DEF Next
<1> QED
  BY <1>1, ManagerInvariant, PTL DEF SafeSpec, NoSpawnDuringShutdown

-----------------------------------------------------------------------------
(* Refinement of ManagedProcesses *)

(* A new manager is an open one with no process. *)
LEMMA AbstractInit == Init => Abstract!Init
BY DEF Init, Abstract!Init, phaseBar, procBar, Alive

(* A step that changes neither the processes nor the progress of the       *)
(* shutdown is a stutter of the abstract manager.                          *)
LEMMA AbstractStutter ==
  ASSUME UNCHANGED <<child, output, killAll, term>>
  PROVE  UNCHANGED Abstract!vars
BY DEF Abstract!vars, phaseBar, procBar, Alive

(* Every step of the manager is a step of the abstract one or a stutter:   *)
(* starting the command spawns, its exit or the closing of its output      *)
(* makes it vanish, close(killAll) closes and the end of wg.Wait has       *)
(* closed.                                                                 *)
LEMMA AbstractStep ==
  ASSUME IInv, IInv', [Next]_vars
  PROVE  [Abstract!Next]_(Abstract!vars)
<1>1. ASSUME NEW c \in Calls, StartSpawn(c) PROVE Abstract!Spawn(c)
  <2>1. child[c] = "none" /\ ~killAll
    BY <1>1 DEF StartSpawn, isBeingShutdown, IInv, ManagerInv, CallInv
  <2>2. phaseBar = "open" /\ phaseBar' = phaseBar
    BY <1>1, <2>1 DEF StartSpawn, phaseBar
  <2>3. procBar[c] = "absent" /\ procBar' = [procBar EXCEPT ![c] = "live"]
    BY <1>1, <2>1 DEF StartSpawn, procBar, Alive, IInv, TypeOK
  <2> QED
    BY <2>2, <2>3 DEF Abstract!Spawn
<1>2. ASSUME NEW c \in Calls, ChildStep(c)
      PROVE  Abstract!Vanish(c) \/ UNCHANGED Abstract!vars
  <2>1. child[c] # "none" /\ child'[c] # "none" /\ Alive(c)
    BY <1>2
       DEF ChildStep, ChildExits, OutputCloses, Exited, Alive, IInv, TypeOK
  <2>2. phaseBar' = phaseBar
    BY <1>2 DEF ChildStep, ChildExits, OutputCloses, phaseBar
  <2>3. \A d \in Calls \ {c} : child'[d] = child[d] /\ output'[d] = output[d]
    BY <1>2 DEF ChildStep, ChildExits, OutputCloses, IInv, TypeOK
  <2>4. CASE Alive(c)'
    <3>1. procBar' = procBar
      BY <2>1, <2>3, <2>4 DEF procBar, Alive
    <3> QED
      BY <3>1, <2>2 DEF Abstract!vars
  <2>5. CASE ~Alive(c)'
    <3>1. procBar[c] = "live" /\ procBar' = [procBar EXCEPT ![c] = "gone"]
      BY <2>1, <2>3, <2>5 DEF procBar, Alive
    <3> QED
      BY <3>1, <2>2 DEF Abstract!Vanish
  <2> QED
    BY <2>4, <2>5
<1>3. ASSUME NEW c \in Calls, StartCall(c) \/ StartStep(c) \/ ReaperStep(c),
             ~StartSpawn(c)
      PROVE  UNCHANGED Abstract!vars
  BY <1>3, AbstractStutter
     DEF StartCall, StartStep, StartLock, StartRefused, StartSpawnFails,
         StartRegister, StartKilled, StartDrained, StartFinished, ReaperStep,
         ReaperSend, ReaperDone, osVars
<1>4. CASE TerminateCall \/ TerminateLock
  <2>1. phaseBar' = phaseBar /\ procBar' = procBar
    BY <1>4 DEF TerminateCall, TerminateLock, osVars, phaseBar, procBar, Alive
  <2> QED
    BY <2>1 DEF Abstract!vars
<1>5. CASE TerminateClose
  <2>1. phaseBar = "open" /\ phaseBar' = "closing"
    BY <1>5 DEF TerminateClose, phaseBar, IInv, ManagerInv, LockInv
  <2>2. procBar' = procBar
    BY <1>5 DEF TerminateClose, osVars, procBar, Alive
  <2> QED
    BY <2>1, <2>2 DEF Abstract!Next, Abstract!Close
<1>6. CASE TerminateWait
  <2>1. phaseBar = "closing" /\ phaseBar' = "closed"
    BY <1>6 DEF TerminateWait, phaseBar, IInv, ManagerInv, LockInv
  <2>2. procBar' = procBar
    BY <1>6 DEF TerminateWait, osVars, procBar, Alive
  <2>3. \A c \in Calls : ~Alive(c)'
    <3>1. term' = "done"
      BY <1>6 DEF TerminateWait
    <3> QED
      BY <3>1 DEF IInv, TypeOK, ManagerInv, LockInv, CallInv, WaitGroupInv,
                  Outstanding, Alive, Exited
  <2>4. \A c \in Calls : procBar[c] # "live"
    BY <2>2, <2>3 DEF procBar
  <2> QED
    BY <2>1, <2>2, <2>4 DEF Abstract!Next, Abstract!Closed
<1>7. CASE UNCHANGED vars
  BY <1>7, AbstractStutter DEF vars
<1> QED
  BY <1>1, <1>2, <1>3, <1>4, <1>5, <1>6, <1>7
     DEF Next, TerminateStep, Abstract!Next

(* The safety half of ImplementsManagedProcesses: the manager of           *)
(* manager.go, with its mutex, wait group and channels, does nothing that  *)
(* ManagedProcesses forbids.                                               *)
THEOREM SafeRefinement == SafeSpec => Abstract!SafeSpec
<1>1. TypeOK /\ ManagerInv /\ (TypeOK /\ ManagerInv)' /\ [Next]_vars
        => [Abstract!Next]_(Abstract!vars)
  BY AbstractStep DEF IInv
<1> QED
  BY <1>1, AbstractInit, ManagerInvariant, PTL DEF SafeSpec, Abstract!SafeSpec
=============================================================================
