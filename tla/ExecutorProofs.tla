--------------------------- MODULE ExecutorProofs ---------------------------
(***************************************************************************)
(* The safety properties of Executor, proved for every set of jobs, every  *)
(* number of destinations and every set of configurations.  The inductive  *)
(* invariant is TypeOK and ExecutorInv: where backups exclude one another  *)
(* the flag is held by exactly the job that is between backupCanBeStarted  *)
(* and doneBackup, and the source folder belongs to that job.              *)
(***************************************************************************)
EXTENDS Executor, TLAPS

IInv == TypeOK /\ ExecutorInv

(* NewExecutor's state satisfies the invariant. *)
LEMMA InitInv == Init => IInv
<1> SUFFICES ASSUME Init PROVE IInv
  OBVIOUS
<1>1. TypeOK
  <2>1. 1 \in 1..(NumDests + 1)
    BY NumDestsAssumption
  <2>2. stored \in [Jobs -> [Dests -> Contents \cup {"none", "mixed"}]]
    BY DEF Init
  <2> QED
    BY <2>1, <2>2 DEF Init, TypeOK, Contents, InBackup
<1>2. FlagInv /\ MutualExclusion
  BY DEF Init, FlagInv, MutualExclusion, Exclusive, InBackup
<1>3. \A j \in Jobs : ProgressInv(j)
  BY DEF Init, ProgressInv, AllStored
<1>4. OwnershipInv
  BY DEF Init, OwnershipInv, Undisturbed, Exclusive
<1> QED
  BY <1>1, <1>2, <1>3, <1>4 DEF IInv, ExecutorInv

(* A job that has not begun to upload has stored nothing. *)
LEMMA NoneYet ==
  ASSUME TypeOK, NEW j \in Jobs, ProgressInv(j), pc[j] \in {"claim", "performing"}
  PROVE  ~AllStored(j)
<1>1. 1 \in Dests /\ 1 >= next[j]
  BY NumDestsAssumption DEF ProgressInv, Dests
<1> QED
  BY <1>1 DEF ProgressInv, AllStored

(* Every step of a job, and of the commands it runs, preserves it. *)
LEMMA JobStepInv ==
  ASSUME IInv, NEW j \in Jobs,
         Fire(j) \/ JobStep(j) \/ FolderStep(j) \/ WalkPanics(j)
  PROVE  IInv'
<1> USE DEF IInv, ExecutorInv
<1>1. CASE Fire(j)
  <2>1. TypeOK'
    BY <1>1 DEF Fire, Move, Goto, uploadVars, TypeOK, Contents, Dests, InBackup
  <2>2. FlagInv' /\ MutualExclusion'
    BY <1>1
       DEF Fire, Move, Goto, uploadVars, TypeOK, FlagInv, MutualExclusion,
           Exclusive, InBackup
  <2>3. \A k \in Jobs : ProgressInv(k)'
    BY <1>1 DEF Fire, Move, Goto, uploadVars, TypeOK, ProgressInv, AllStored
  <2>4. OwnershipInv'
    BY <1>1, ContentsAssumption
       DEF Fire, Move, Goto, uploadVars, TypeOK, MutualExclusion, OwnershipInv,
           Undisturbed, Exclusive, InBackup
  <2> QED
    BY <2>1, <2>2, <2>3, <2>4
<1>2. CASE IdentifySkipped(j)
  <2>1. TypeOK'
    BY <1>2
       DEF IdentifySkipped, Move, Goto, uploadVars, TypeOK, Contents, Dests,
           InBackup
  <2>2. FlagInv' /\ MutualExclusion'
    BY <1>2
       DEF IdentifySkipped, Move, Goto, uploadVars, TypeOK, FlagInv,
           MutualExclusion, Exclusive, InBackup
  <2>3. \A k \in Jobs : ProgressInv(k)'
    BY <1>2
       DEF IdentifySkipped, Move, Goto, uploadVars, TypeOK, ProgressInv,
           AllStored
  <2>4. OwnershipInv'
    BY <1>2, ContentsAssumption
       DEF IdentifySkipped, Move, Goto, uploadVars, TypeOK, MutualExclusion, OwnershipInv,
           Undisturbed, Exclusive, InBackup
  <2> QED
    BY <2>1, <2>2, <2>3, <2>4
<1>3. CASE IdentifyCall(j)
  <2>1. TypeOK'
    BY <1>3
       DEF IdentifyCall, Move, Goto, uploadVars, TypeOK, Contents, Dests,
           InBackup
  <2>2. FlagInv' /\ MutualExclusion'
    BY <1>3
       DEF IdentifyCall, Move, Goto, uploadVars, TypeOK, FlagInv,
           MutualExclusion, Exclusive, InBackup
  <2>3. \A k \in Jobs : ProgressInv(k)'
    BY <1>3
       DEF IdentifyCall, Move, Goto, uploadVars, TypeOK, ProgressInv, AllStored
  <2>4. OwnershipInv'
    BY <1>3, ContentsAssumption
       DEF IdentifyCall, Move, Goto, uploadVars, TypeOK, MutualExclusion, OwnershipInv,
           Undisturbed, Exclusive, InBackup
  <2> QED
    BY <2>1, <2>2, <2>3, <2>4
<1>4. CASE BackupAdmitted(j)
  <2>1. TypeOK'
    BY <1>4
       DEF BackupAdmitted, Goto, uploadVars, TypeOK, Contents, Dests, InBackup
  <2>2. FlagInv' /\ MutualExclusion'
    BY <1>4
       DEF BackupAdmitted, Goto, uploadVars, TypeOK, FlagInv, MutualExclusion,
           Exclusive, InBackup
  <2>3. \A k \in Jobs : ProgressInv(k)'
    BY <1>4
       DEF BackupAdmitted, Goto, uploadVars, TypeOK, ProgressInv, AllStored
  <2>4. OwnershipInv'
    BY <1>4, ContentsAssumption
       DEF BackupAdmitted, Goto, uploadVars, TypeOK, MutualExclusion, OwnershipInv,
           Undisturbed, Exclusive, InBackup
  <2> QED
    BY <2>1, <2>2, <2>3, <2>4
<1>5. CASE BackupRejected(j)
  <2>1. TypeOK'
    BY <1>5
       DEF BackupRejected, Goto, uploadVars, TypeOK, Contents, Dests, InBackup
  <2>2. FlagInv' /\ MutualExclusion'
    BY <1>5
       DEF BackupRejected, Goto, uploadVars, TypeOK, FlagInv, MutualExclusion,
           Exclusive, InBackup
  <2>3. \A k \in Jobs : ProgressInv(k)'
    <3>1. ~AllStored(j)
      BY <1>5, NoneYet DEF BackupRejected
    <3> QED
      BY <1>5, <3>1
         DEF BackupRejected, Goto, uploadVars, TypeOK, ProgressInv, AllStored
  <2>4. OwnershipInv'
    BY <1>5, ContentsAssumption
       DEF BackupRejected, Goto, uploadVars, TypeOK, MutualExclusion, OwnershipInv,
           Undisturbed, Exclusive, InBackup
  <2> QED
    BY <2>1, <2>2, <2>3, <2>4
<1>6. CASE PerformSkipped(j)
  <2>1. TypeOK'
    BY <1>6
       DEF PerformSkipped, Move, Goto, uploadVars, TypeOK, Contents, Dests,
           InBackup
  <2>2. FlagInv' /\ MutualExclusion'
    BY <1>6
       DEF PerformSkipped, Move, Goto, uploadVars, TypeOK, FlagInv,
           MutualExclusion, Exclusive, InBackup
  <2>3. \A k \in Jobs : ProgressInv(k)'
    BY <1>6
       DEF PerformSkipped, Move, Goto, uploadVars, TypeOK, ProgressInv,
           AllStored, Dests
  <2>4. OwnershipInv'
    BY <1>6, ContentsAssumption
       DEF PerformSkipped, Move, Goto, uploadVars, TypeOK, MutualExclusion, OwnershipInv,
           Undisturbed, Exclusive, InBackup
  <2> QED
    BY <2>1, <2>2, <2>3, <2>4
<1>7. CASE PerformCall(j)
  <2>1. TypeOK'
    BY <1>7
       DEF PerformCall, Move, Goto, uploadVars, TypeOK, Contents, Dests,
           InBackup
  <2>2. FlagInv' /\ MutualExclusion'
    BY <1>7
       DEF PerformCall, Move, Goto, uploadVars, TypeOK, FlagInv,
           MutualExclusion, Exclusive, InBackup
  <2>3. \A k \in Jobs : ProgressInv(k)'
    BY <1>7
       DEF PerformCall, Move, Goto, uploadVars, TypeOK, ProgressInv, AllStored
  <2>4. OwnershipInv'
    BY <1>7, ContentsAssumption
       DEF PerformCall, Move, Goto, uploadVars, TypeOK, MutualExclusion, OwnershipInv,
           Undisturbed, Exclusive, InBackup
  <2> QED
    BY <2>1, <2>2, <2>3, <2>4
<1>8. CASE UploadCall(j)
  <2>1. TypeOK'
    BY <1>8, NumDestsAssumption
       DEF UploadCall, Goto, TypeOK, Contents, Dests, InBackup
  <2>2. FlagInv' /\ MutualExclusion'
    BY <1>8
       DEF UploadCall, Goto, TypeOK, FlagInv, MutualExclusion, Exclusive,
           InBackup
  <2>3. \A k \in Jobs : ProgressInv(k)'
    BY <1>8 DEF UploadCall, Goto, TypeOK, ProgressInv, AllStored, Dests
  <2>4. OwnershipInv'
    BY <1>8, ContentsAssumption
       DEF UploadCall, Goto, TypeOK, MutualExclusion, OwnershipInv,
           Undisturbed, Exclusive, InBackup
  <2> QED
    BY <2>1, <2>2, <2>3, <2>4
<1>9. CASE UploadDone(j)
  <2>1. TypeOK'
    BY <1>9
       DEF UploadDone, Leave, Goto, uploadVars, TypeOK, Contents, Dests,
           InBackup
  <2>2. FlagInv' /\ MutualExclusion'
    <3>1. \A k \in Jobs : pc'[k] \in InBackup <=> pc[k] \in InBackup
      BY <1>9 DEF UploadDone, Leave, Goto, TypeOK, InBackup
    <3> QED
      BY <1>9, <3>1 DEF UploadDone, FlagInv, MutualExclusion, Exclusive
  <2>3. \A k \in Jobs : ProgressInv(k)'
    <3>1. next[j] = NumDests + 1
      BY <1>9, NumDestsAssumption DEF UploadDone, TypeOK, Dests
    <3>2. ~failed[j] => AllStored(j)
      BY <1>9, <3>1, NumDestsAssumption
         DEF UploadDone, ProgressInv, AllStored, Dests
    <3> QED
      BY <1>9, <3>2
         DEF UploadDone, Leave, Goto, uploadVars, TypeOK, ProgressInv, AllStored
  <2>4. OwnershipInv'
    BY <1>9, ContentsAssumption
       DEF UploadDone, Leave, Goto, uploadVars, TypeOK, MutualExclusion, OwnershipInv,
           Undisturbed, Exclusive, InBackup
  <2> QED
    BY <2>1, <2>2, <2>3, <2>4
<1>10. CASE Measure(j)
  <2>1. TypeOK'
    BY <1>10
       DEF Measure, Move, Goto, uploadVars, TypeOK, Contents, Dests, InBackup
  <2>2. FlagInv' /\ MutualExclusion'
    BY <1>10
       DEF Measure, Move, Goto, uploadVars, TypeOK, FlagInv, MutualExclusion,
           Exclusive, InBackup
  <2>3. \A k \in Jobs : ProgressInv(k)'
    BY <1>10
       DEF Measure, Move, Goto, uploadVars, TypeOK, ProgressInv, AllStored
  <2>4. OwnershipInv'
    BY <1>10, ContentsAssumption
       DEF Measure, Move, Goto, uploadVars, TypeOK, MutualExclusion, OwnershipInv,
           Undisturbed, Exclusive, InBackup
  <2> QED
    BY <2>1, <2>2, <2>3, <2>4
<1>11. CASE CleanupSkipped(j)
  <2>1. TypeOK'
    BY <1>11
       DEF CleanupSkipped, Leave, Goto, uploadVars, TypeOK, Contents, Dests,
           InBackup
  <2>2. FlagInv' /\ MutualExclusion'
    BY <1>11
       DEF CleanupSkipped, Leave, Goto, uploadVars, TypeOK, FlagInv,
           MutualExclusion, Exclusive, InBackup
  <2>3. \A k \in Jobs : ProgressInv(k)'
    BY <1>11
       DEF CleanupSkipped, Leave, Goto, uploadVars, TypeOK, ProgressInv,
           AllStored
  <2>4. OwnershipInv'
    BY <1>11, ContentsAssumption
       DEF CleanupSkipped, Leave, Goto, uploadVars, TypeOK, MutualExclusion, OwnershipInv,
           Undisturbed, Exclusive, InBackup
  <2> QED
    BY <2>1, <2>2, <2>3, <2>4
<1>12. CASE CleanupCall(j)
  <2>1. TypeOK'
    BY <1>12
       DEF CleanupCall, Move, Goto, uploadVars, TypeOK, Contents, Dests,
           InBackup
  <2>2. FlagInv' /\ MutualExclusion'
    BY <1>12
       DEF CleanupCall, Move, Goto, uploadVars, TypeOK, FlagInv,
           MutualExclusion, Exclusive, InBackup
  <2>3. \A k \in Jobs : ProgressInv(k)'
    BY <1>12
       DEF CleanupCall, Move, Goto, uploadVars, TypeOK, ProgressInv, AllStored
  <2>4. OwnershipInv'
    BY <1>12, ContentsAssumption
       DEF CleanupCall, Move, Goto, uploadVars, TypeOK, MutualExclusion, OwnershipInv,
           Undisturbed, Exclusive, InBackup
  <2> QED
    BY <2>1, <2>2, <2>3, <2>4
<1>13. CASE DoneBackup(j)
  <2>1. TypeOK'
    BY <1>13
       DEF DoneBackup, Goto, uploadVars, TypeOK, Contents, Dests, InBackup
  <2>2. FlagInv' /\ MutualExclusion'
    BY <1>13
       DEF DoneBackup, Goto, uploadVars, TypeOK, FlagInv, MutualExclusion,
           Exclusive, InBackup
  <2>3. \A k \in Jobs : ProgressInv(k)'
    BY <1>13 DEF DoneBackup, Goto, uploadVars, TypeOK, ProgressInv, AllStored
  <2>4. OwnershipInv'
    BY <1>13, ContentsAssumption
       DEF DoneBackup, Goto, uploadVars, TypeOK, MutualExclusion, OwnershipInv,
           Undisturbed, Exclusive, InBackup
  <2> QED
    BY <2>1, <2>2, <2>3, <2>4
<1>14. CASE JobSilent(j)
  <2>1. TypeOK'
    BY <1>14
       DEF JobSilent, Move, Goto, uploadVars, TypeOK, Contents, Dests, InBackup
  <2>2. FlagInv' /\ MutualExclusion'
    BY <1>14
       DEF JobSilent, Move, Goto, uploadVars, TypeOK, FlagInv, MutualExclusion,
           Exclusive, InBackup
  <2>3. \A k \in Jobs : ProgressInv(k)'
    BY <1>14
       DEF JobSilent, Move, Goto, uploadVars, TypeOK, ProgressInv, AllStored
  <2>4. OwnershipInv'
    BY <1>14, ContentsAssumption
       DEF JobSilent, Move, Goto, uploadVars, TypeOK, MutualExclusion, OwnershipInv,
           Undisturbed, Exclusive, InBackup
  <2> QED
    BY <2>1, <2>2, <2>3, <2>4
<1>15. CASE AlertCall(j)
  <2>1. TypeOK'
    BY <1>15
       DEF AlertCall, Move, Goto, uploadVars, TypeOK, Contents, Dests, InBackup
  <2>2. FlagInv' /\ MutualExclusion'
    BY <1>15
       DEF AlertCall, Move, Goto, uploadVars, TypeOK, FlagInv, MutualExclusion,
           Exclusive, InBackup
  <2>3. \A k \in Jobs : ProgressInv(k)'
    BY <1>15
       DEF AlertCall, Move, Goto, uploadVars, TypeOK, ProgressInv, AllStored
  <2>4. OwnershipInv'
    BY <1>15, ContentsAssumption
       DEF AlertCall, Move, Goto, uploadVars, TypeOK, MutualExclusion, OwnershipInv,
           Undisturbed, Exclusive, InBackup
  <2> QED
    BY <2>1, <2>2, <2>3, <2>4
<1>16. CASE IdentifyReturn(j)
  <2>1. TypeOK'
    BY <1>16
       DEF IdentifyReturn, Move, Goto, uploadVars, TypeOK, Contents, Dests,
           InBackup
  <2>2. FlagInv' /\ MutualExclusion'
    BY <1>16
       DEF IdentifyReturn, Move, Goto, uploadVars, TypeOK, FlagInv,
           MutualExclusion, Exclusive, InBackup
  <2>3. \A k \in Jobs : ProgressInv(k)'
    BY <1>16
       DEF IdentifyReturn, Move, Goto, uploadVars, TypeOK, ProgressInv,
           AllStored
  <2>4. OwnershipInv'
    BY <1>16, ContentsAssumption
       DEF IdentifyReturn, Move, Goto, uploadVars, TypeOK, MutualExclusion, OwnershipInv,
           Undisturbed, Exclusive, InBackup
  <2> QED
    BY <2>1, <2>2, <2>3, <2>4
<1>17. ASSUME NEW ok \in BOOLEAN, PerformReturn(j, ok) PROVE IInv'
  <2>1. TypeOK'
    BY <1>17
       DEF PerformReturn, Leave, Goto, uploadVars, TypeOK, Contents, Dests,
           InBackup
  <2>2. FlagInv' /\ MutualExclusion'
    BY <1>17
       DEF PerformReturn, Leave, Goto, uploadVars, TypeOK, FlagInv,
           MutualExclusion, Exclusive, InBackup
  <2>3. \A k \in Jobs : ProgressInv(k)'
    <3>1. ~AllStored(j)
      BY <1>17, NoneYet DEF PerformReturn
    <3> QED
      BY <1>17, <3>1
         DEF PerformReturn, Leave, Goto, uploadVars, TypeOK, ProgressInv,
             AllStored, Dests
  <2>4. OwnershipInv'
    BY <1>17, ContentsAssumption
       DEF PerformReturn, Leave, Goto, uploadVars, TypeOK, MutualExclusion, OwnershipInv,
           Undisturbed, Exclusive, InBackup
  <2> QED
    BY <2>1, <2>2, <2>3, <2>4
<1>18. ASSUME NEW ok \in BOOLEAN, UploadReturn(j, ok) PROVE IInv'
  <2>1. TypeOK'
    BY <1>18, NumDestsAssumption
       DEF UploadReturn, Goto, TypeOK, Contents, Dests, InBackup, ProgressInv
  <2>2. FlagInv' /\ MutualExclusion'
    BY <1>18
       DEF UploadReturn, Goto, TypeOK, FlagInv, MutualExclusion, Exclusive,
           InBackup
  <2>3. \A k \in Jobs : ProgressInv(k)'
    <3>1. ASSUME ok
          PROVE  /\ \A d \in Dests \ {next[j]} : stored'[j][d] = stored[j][d]
                 /\ stored'[j][next[j]] # "none"
      BY <1>18, <3>1, ContentsAssumption
         DEF UploadReturn, TypeOK, Contents, ProgressInv
    <3>2. failed'[j] \/ \A d \in Dests : d < next'[j] => stored'[j][d] # "none"
      <4> SUFFICES ASSUME ~failed'[j], NEW d \in Dests, d < next'[j]
                   PROVE  stored'[j][d] # "none"
        OBVIOUS
      <4>1. ok /\ ~failed[j]
        BY <1>18 DEF UploadReturn, TypeOK
      <4>2. d < next[j] \/ d = next[j]
        BY <1>18, NumDestsAssumption DEF UploadReturn, TypeOK, Dests
      <4> QED
        BY <1>18, <3>1, <4>1, <4>2 DEF UploadReturn, TypeOK, ProgressInv
    <3>3. \A d \in Dests : d >= next'[j] => stored'[j][d] = "none"
      <4> SUFFICES ASSUME NEW d \in Dests, d >= next'[j]
                   PROVE  stored'[j][d] = "none"
        OBVIOUS
      <4>1. d >= next[j] /\ d # next[j]
        BY <1>18, NumDestsAssumption DEF UploadReturn, TypeOK, Dests
      <4>2. stored'[j][d] = stored[j][d]
        BY <1>18, <3>1, <4>1 DEF UploadReturn
      <4> QED
        BY <4>1, <4>2 DEF ProgressInv
    <3>4. failed'[j] =>
            \E d \in Dests : d < next'[j] /\ stored'[j][d] = "none"
      <4>1. next[j] \in Nat /\ next'[j] = next[j] + 1
        BY <1>18 DEF UploadReturn, TypeOK
      <4>2. CASE ~ok
        <5>1. next[j] \in Dests /\ stored' = stored
          BY <1>18, <4>2 DEF UploadReturn, ProgressInv
        <5>2. stored'[j][next[j]] = "none" /\ next[j] < next'[j]
          BY <4>1, <5>1 DEF ProgressInv
        <5> QED
          BY <5>1, <5>2
      <4>3. CASE ok /\ failed[j]
        <5>1. PICK d \in Dests : d < next[j] /\ stored[j][d] = "none"
          BY <4>3 DEF ProgressInv
        <5>2. d # next[j] /\ d < next'[j]
          BY <4>1, <5>1 DEF Dests
        <5> QED
          BY <3>1, <4>3, <5>1, <5>2
      <4> QED
        BY <1>18, <4>2, <4>3 DEF UploadReturn, TypeOK
    <3>5. ProgressInv(j)'
      BY <1>18, <3>2, <3>3, <3>4 DEF UploadReturn, Goto, TypeOK, ProgressInv
    <3>6. ASSUME NEW k \in Jobs, k # j PROVE ProgressInv(k)'
      BY <1>18, <3>6 DEF UploadReturn, Goto, TypeOK, ProgressInv, AllStored
    <3> QED
      BY <3>5, <3>6
  <2>4. OwnershipInv'
    BY <1>18, ContentsAssumption
       DEF UploadReturn, Goto, TypeOK, MutualExclusion, OwnershipInv,
           Undisturbed, Exclusive, InBackup, ProgressInv
  <2> QED
    BY <2>1, <2>2, <2>3, <2>4
<1>19. CASE CleanupReturn(j)
  <2>1. TypeOK'
    BY <1>19
       DEF CleanupReturn, Leave, Goto, uploadVars, TypeOK, Contents, Dests,
           InBackup
  <2>2. FlagInv' /\ MutualExclusion'
    BY <1>19
       DEF CleanupReturn, Leave, Goto, uploadVars, TypeOK, FlagInv,
           MutualExclusion, Exclusive, InBackup
  <2>3. \A k \in Jobs : ProgressInv(k)'
    BY <1>19
       DEF CleanupReturn, Leave, Goto, uploadVars, TypeOK, ProgressInv,
           AllStored
  <2>4. OwnershipInv'
    BY <1>19, ContentsAssumption
       DEF CleanupReturn, Leave, Goto, uploadVars, TypeOK, MutualExclusion, OwnershipInv,
           Undisturbed, Exclusive, InBackup
  <2> QED
    BY <2>1, <2>2, <2>3, <2>4
<1>20. CASE AlertReturn(j)
  <2>1. TypeOK'
    BY <1>20
       DEF AlertReturn, Goto, uploadVars, TypeOK, Contents, Dests, InBackup
  <2>2. FlagInv' /\ MutualExclusion'
    BY <1>20
       DEF AlertReturn, Goto, uploadVars, TypeOK, FlagInv, MutualExclusion,
           Exclusive, InBackup
  <2>3. \A k \in Jobs : ProgressInv(k)'
    <3>1. ProgressInv(j)'
      <4>1. /\ pc[j] = "alerting" /\ pc'[j] = "done"
            /\ alert'[j] \in {"sent", "lost"}
            /\ UNCHANGED <<conf, next, failed, stored, verdict>>
        BY <1>20 DEF AlertReturn, Goto, uploadVars, TypeOK
      <4>2. conf.alerts
        BY <4>1 DEF ProgressInv
      <4> QED
        BY <4>1, <4>2 DEF ProgressInv, AllStored
    <3>2. ASSUME NEW k \in Jobs, k # j PROVE ProgressInv(k)'
      BY <1>20, <3>2
         DEF AlertReturn, Goto, uploadVars, TypeOK, ProgressInv, AllStored
    <3> QED
      BY <3>1, <3>2
  <2>4. OwnershipInv'
    BY <1>20, ContentsAssumption
       DEF AlertReturn, Goto, uploadVars, TypeOK, MutualExclusion, OwnershipInv,
           Undisturbed, Exclusive, InBackup
  <2> QED
    BY <2>1, <2>2, <2>3, <2>4
<1>21. CASE CreatorWrites(j)
  <2>1. TypeOK'
    BY <1>21 DEF CreatorWrites, uploadVars, TypeOK, Contents, Dests, InBackup
  <2>2. FlagInv' /\ MutualExclusion'
    BY <1>21
       DEF CreatorWrites, uploadVars, TypeOK, FlagInv, MutualExclusion,
           Exclusive, InBackup
  <2>3. \A k \in Jobs : ProgressInv(k)'
    BY <1>21 DEF CreatorWrites, uploadVars, TypeOK, ProgressInv, AllStored
  <2>4. OwnershipInv'
    BY <1>21, ContentsAssumption
       DEF CreatorWrites, uploadVars, TypeOK, MutualExclusion, OwnershipInv,
           Undisturbed, Exclusive, InBackup
  <2> QED
    BY <2>1, <2>2, <2>3, <2>4
<1>22. CASE CleanupRemoves(j)
  <2>1. TypeOK'
    BY <1>22 DEF CleanupRemoves, uploadVars, TypeOK, Contents, Dests, InBackup
  <2>2. FlagInv' /\ MutualExclusion'
    BY <1>22
       DEF CleanupRemoves, uploadVars, TypeOK, FlagInv, MutualExclusion,
           Exclusive, InBackup
  <2>3. \A k \in Jobs : ProgressInv(k)'
    BY <1>22 DEF CleanupRemoves, uploadVars, TypeOK, ProgressInv, AllStored
  <2>4. OwnershipInv'
    BY <1>22, ContentsAssumption
       DEF CleanupRemoves, uploadVars, TypeOK, MutualExclusion, OwnershipInv,
           Undisturbed, Exclusive, InBackup
  <2> QED
    BY <2>1, <2>2, <2>3, <2>4
<1>23. CASE WalkPanics(j)
  <2>1. TypeOK'
    BY <1>23 DEF WalkPanics, uploadVars, TypeOK, Contents, Dests, InBackup
  <2>2. FlagInv' /\ MutualExclusion'
    BY <1>23
       DEF WalkPanics, uploadVars, TypeOK, FlagInv, MutualExclusion, Exclusive,
           InBackup
  <2>3. \A k \in Jobs : ProgressInv(k)'
    BY <1>23 DEF WalkPanics, uploadVars, TypeOK, ProgressInv, AllStored
  <2>4. OwnershipInv'
    BY <1>23, ContentsAssumption
       DEF WalkPanics, uploadVars, TypeOK, MutualExclusion, OwnershipInv,
           Undisturbed, Exclusive, InBackup
  <2> QED
    BY <2>1, <2>2, <2>3, <2>4
<1> QED
  BY <1>1, <1>2, <1>3, <1>4, <1>5, <1>6, <1>7, <1>8, <1>9, <1>10, <1>11,
     <1>12, <1>13, <1>14, <1>15, <1>16, <1>17, <1>18, <1>19, <1>20,
     <1>21, <1>22, <1>23
     DEF JobStep, OwnStep, CommandStep, UploadStep, ReportStep, FolderStep

(* The invariant is inductive. *)
LEMMA NextInv == IInv /\ [Next]_vars => IInv'
<1> SUFFICES ASSUME IInv, [Next]_vars PROVE IInv'
  OBVIOUS
<1>1. CASE Next
  BY <1>1, JobStepInv DEF Next
<1>2. CASE UNCHANGED vars
  BY <1>2 DEF vars, IInv, TypeOK, ExecutorInv, FlagInv, MutualExclusion,
              ProgressInv, AllStored, OwnershipInv, Undisturbed, Exclusive
<1> QED
  BY <1>1, <1>2

(* ExecutorInv holds in every reachable state, for any number of jobs and  *)
(* destinations: the flag of executor.go:85-100 is the token that makes    *)
(* the source folder a job's own.                                          *)
THEOREM ExecutorInvariant == SafeSpec => [](TypeOK /\ ExecutorInv)
<1>1. Init => TypeOK /\ ExecutorInv
  BY InitInv DEF IInv
<1>2. TypeOK /\ ExecutorInv /\ [Next]_vars => (TypeOK /\ ExecutorInv)'
  BY NextInv DEF IInv
<1> QED
  BY <1>1, <1>2, PTL DEF SafeSpec

(* Every variable keeps its type; in particular the loop over the          *)
(* destinations never runs past the last one (multi_uploader.go:21-34).    *)
THEOREM TypesHold == SafeSpec => []TypeOK
BY ExecutorInvariant, PTL

(* With exit_if_in_progress two backups never overlap, rejected jobs and   *)
(* failed backups notwithstanding (executor.go:85-122).                    *)
THEOREM BackupsExclude == SafeSpec => []MutualExclusion
<1>1. ExecutorInv => MutualExclusion
  BY DEF ExecutorInv
<1> QED
  BY <1>1, ExecutorInvariant, PTL

(* With exit_if_in_progress what a job uploads is the complete backup its  *)
(* own creator made (executor.go:124-139).                                 *)
THEOREM OwnBackupUploaded == SafeSpec => []UploadsOwnBackup
<1>1. ExecutorInv => UploadsOwnBackup
  BY DEF ExecutorInv, OwnershipInv, UploadsOwnBackup, Undisturbed
<1> QED
  BY <1>1, ExecutorInvariant, PTL

(* SendServiceAlert is called for exactly the jobs that end with an upload *)
(* to some destination missing, in every configuration with alerts         *)
(* (multi_uploader.go:21-34, scheduler.go:31-46).                          *)
THEOREM AlertsAreAccurate == SafeSpec => []AlertsMatchDelivery
<1>1. TypeOK /\ ExecutorInv => AlertsMatchDelivery
  <2> SUFFICES ASSUME TypeOK, ExecutorInv, NEW j \in Jobs,
                      pc[j] = "done", conf.alerts
               PROVE  alert[j] = "none" <=> AllStored(j)
    BY DEF AlertsMatchDelivery, AllStored
  <2>1. ProgressInv(j)
    BY DEF ExecutorInv
  <2>2. alert[j] = "none" <=> verdict[j] = "ok"
    BY <2>1 DEF ProgressInv
  <2>3. verdict[j] = "ok" \/ verdict[j] \in {"failed", "rejected"}
    BY <2>1 DEF ProgressInv, TypeOK
  <2> QED
    BY <2>1, <2>2, <2>3 DEF ProgressInv
<1> QED
  BY <1>1, ExecutorInvariant, PTL

(* With exit_if_in_progress a panic in a walk of the source folder comes   *)
(* over the complete backup of the job that walks (executor.go:124-139,    *)
(* dir_size.go:18-23).                                                     *)
THEOREM PanicsKeepBackup == SafeSpec => []PanicKeepsBackup
<1>1. Init => PanicKeepsBackup
  BY DEF Init, PanicKeepsBackup
<1>2. TypeOK /\ ExecutorInv /\ PanicKeepsBackup /\ [Next]_vars => PanicKeepsBackup'
  <2> SUFFICES ASSUME TypeOK, ExecutorInv, PanicKeepsBackup, [Next]_vars
               PROVE  PanicKeepsBackup'
    OBVIOUS
  <2>1. CASE UNCHANGED vars
    BY <2>1 DEF vars, PanicKeepsBackup, Exclusive
  <2>2. ASSUME NEW j \in Jobs, WalkPanics(j) PROVE PanicKeepsBackup'
    <3>1. Exclusive /\ conf.creator => folder = j
      BY <2>2 DEF WalkPanics, ExecutorInv, OwnershipInv, Undisturbed
    <3> QED
      BY <2>2, <3>1 DEF WalkPanics, PanicKeepsBackup, Exclusive
  <2>3. ASSUME ~panicked, NEW j \in Jobs,
               Fire(j) \/ JobStep(j) \/ FolderStep(j)
        PROVE  ~panicked'
    BY <2>3
       DEF Fire, JobStep, OwnStep, CommandStep, UploadStep, ReportStep,
           IdentifySkipped, IdentifyCall, BackupAdmitted, BackupRejected,
           PerformSkipped, PerformCall, UploadCall, UploadDone, Measure,
           CleanupSkipped, CleanupCall, DoneBackup, JobSilent, AlertCall,
           IdentifyReturn, PerformReturn, UploadReturn, CleanupReturn,
           AlertReturn, FolderStep, CreatorWrites, CleanupRemoves, Move
  <2> QED
    BY <2>1, <2>2, <2>3 DEF Next, PanicKeepsBackup
<1> QED
  BY <1>1, <1>2, ExecutorInvariant, PTL DEF SafeSpec

(* No step removes a complete backup that some destination lacks, where    *)
(* backups exclude one another (executor.go:131-139).                      *)
THEOREM CleanupIsSafe == SafeSpec => CleanupRemovesOnlyStored
<1> DEFINE Kept == Exclusive /\ folder \in Jobs /\ folder' = "empty" =>
                     \A d \in Dests : stored[folder][d] = folder
<1>1. TypeOK /\ ExecutorInv /\ [Next]_vars => [Kept]_vars
  <2> SUFFICES ASSUME TypeOK, ExecutorInv, [Next]_vars, Exclusive,
                      folder \in Jobs, folder' = "empty"
               PROVE  \A d \in Dests : stored[folder][d] = folder
    BY DEF vars
  <2>1. folder' # folder
    BY ContentsAssumption
  <2>2. PICK j \in Jobs : CleanupRemoves(j)
    BY <2>1, ContentsAssumption
       DEF Next, vars, Fire, JobStep, OwnStep, CommandStep, UploadStep,
           ReportStep, IdentifySkipped, IdentifyCall,
           BackupAdmitted, BackupRejected, PerformSkipped, PerformCall,
           UploadCall, UploadDone, Measure, CleanupSkipped, CleanupCall,
           DoneBackup, JobSilent, AlertCall, IdentifyReturn,
           PerformReturn, UploadReturn, CleanupReturn, AlertReturn,
           FolderStep, CreatorWrites, WalkPanics, Move
  <2>3. conf.creator
    BY ContentsAssumption DEF ExecutorInv, OwnershipInv
  <2>4. folder = j
    BY <2>2, <2>3, ContentsAssumption
       DEF CleanupRemoves, ExecutorInv, OwnershipInv, Undisturbed
  <2>5. \A d \in Dests : stored[j][d] \in {"none", j} /\ stored[j][d] # "none"
    BY <2>2, <2>3
       DEF CleanupRemoves, ExecutorInv, OwnershipInv, Undisturbed, ProgressInv,
           AllStored
  <2> QED
    BY <2>4, <2>5
<1> QED
  BY <1>1, ExecutorInvariant, PTL DEF SafeSpec, CleanupRemovesOnlyStored

-----------------------------------------------------------------------------
(* Refinement of BackupRuns *)

(* At the start no activation has begun. *)
LEMMA AbstractInit == Init => Abstract!Init
BY ConfigsAssumption DEF Init, Abstract!Init, runBar, InBackup, BackupConfig

(* A step that moves no job into or out of a backup, gives no verdict and  *)
(* does not panic is a stutter of the abstract executor.                   *)
LEMMA AbstractStutter ==
  ASSUME UNCHANGED <<conf, verdict, panicked>>,
         \A k \in Jobs : pc'[k] \in InBackup <=> pc[k] \in InBackup
  PROVE  UNCHANGED Abstract!vars
<1>1. runBar' = runBar
  BY DEF runBar
<1> QED
  BY <1>1 DEF Abstract!vars

(* Every step is a step of the abstract executor or a stutter: admission   *)
(* begins a backup, doneBackup ends it.                                    *)
LEMMA AbstractStep ==
  ASSUME IInv, IInv', [Next]_vars
  PROVE  [Abstract!Next]_(Abstract!vars)
<1> USE DEF IInv, ExecutorInv
<1>1. \A k \in Jobs : k \in Abstract!Active <=> pc[k] \in InBackup
  BY DEF Abstract!Active, runBar, TypeOK
<1>2. ASSUME NEW j \in Jobs, BackupAdmitted(j) PROVE Abstract!Begin(j)
  <2>1. runBar[j] = "idle" /\ runBar' = [runBar EXCEPT ![j] = "active"]
    <3>1. pc[j] \notin InBackup /\ verdict[j] = "none"
      BY <1>2 DEF BackupAdmitted, ProgressInv, InBackup
    <3>2. pc'[j] \in InBackup /\ \A k \in Jobs \ {j} : pc'[k] = pc[k]
      BY <1>2 DEF BackupAdmitted, Goto, TypeOK, InBackup
    <3> QED
      BY <1>2, <3>1, <3>2 DEF BackupAdmitted, runBar
  <2>2. conf.exitIfInProgress => Abstract!Active = {}
    BY <1>1, <1>2
       DEF BackupAdmitted, FlagInv, Exclusive, TypeOK, Abstract!Active
  <2> QED
    BY <1>2, <2>1, <2>2 DEF BackupAdmitted, Abstract!Begin
<1>3. ASSUME NEW j \in Jobs, BackupRejected(j) PROVE Abstract!Reject(j)
  <2>1. runBar[j] = "idle" /\ runBar' = [runBar EXCEPT ![j] = "rejected"]
    <3>1. pc[j] \notin InBackup /\ verdict[j] = "none"
      BY <1>3 DEF BackupRejected, ProgressInv, InBackup
    <3>2. /\ pc'[j] \notin InBackup /\ verdict'[j] = "rejected"
          /\ \A k \in Jobs \ {j} : pc'[k] = pc[k] /\ verdict'[k] = verdict[k]
      BY <1>3 DEF BackupRejected, Goto, TypeOK, InBackup
    <3> QED
      BY <3>1, <3>2 DEF runBar
  <2>2. Abstract!Active # {}
    BY <1>1, <1>3 DEF BackupRejected, FlagInv
  <2> QED
    BY <1>3, <2>1, <2>2 DEF BackupRejected, Abstract!Reject
<1>4. ASSUME NEW j \in Jobs, DoneBackup(j) PROVE Abstract!End(j)
  <2>1. verdict[j] \in {"ok", "failed"}
    BY <1>4 DEF DoneBackup, TypeOK, ProgressInv
  <2>2. runBar[j] = "active" /\ runBar' = [runBar EXCEPT ![j] = verdict[j]]
    <3>1. pc[j] \in InBackup
      BY <1>4 DEF DoneBackup, InBackup
    <3>2. /\ pc'[j] \notin InBackup /\ verdict' = verdict
          /\ \A k \in Jobs \ {j} : pc'[k] = pc[k]
      BY <1>4 DEF DoneBackup, Goto, TypeOK, InBackup
    <3> QED
      BY <2>1, <3>1, <3>2 DEF runBar
  <2> QED
    BY <1>4, <2>1, <2>2 DEF DoneBackup, Abstract!End
<1>5. ASSUME NEW j \in Jobs, WalkPanics(j) PROVE Abstract!Crash
  <2>1. j \in Abstract!Active
    BY <1>1, <1>5 DEF WalkPanics, InBackup
  <2>2. runBar' = runBar
    BY <1>5 DEF WalkPanics, runBar
  <2> QED
    BY <1>5, <2>1, <2>2 DEF WalkPanics, Abstract!Crash
<1>6. ASSUME NEW j \in Jobs,
             \/ Fire(j) \/ IdentifySkipped(j) \/ IdentifyCall(j)
             \/ PerformSkipped(j) \/ PerformCall(j) \/ UploadCall(j)
             \/ Measure(j) \/ CleanupCall(j) \/ JobSilent(j) \/ AlertCall(j)
             \/ IdentifyReturn(j) \/ (\E ok \in BOOLEAN : UploadReturn(j, ok))
             \/ AlertReturn(j) \/ FolderStep(j)
      PROVE  UNCHANGED Abstract!vars
  BY <1>6, AbstractStutter
     DEF Fire, IdentifySkipped, IdentifyCall, PerformSkipped, PerformCall,
         UploadCall, Measure, CleanupCall, JobSilent, AlertCall,
         IdentifyReturn, UploadReturn, AlertReturn, FolderStep, CreatorWrites,
         CleanupRemoves, Move, Goto, InBackup, TypeOK
<1>7. ASSUME NEW j \in Jobs,
             \/ UploadDone(j) \/ CleanupSkipped(j) \/ CleanupReturn(j)
             \/ \E ok \in BOOLEAN : PerformReturn(j, ok)
      PROVE  UNCHANGED Abstract!vars
  <2>1. /\ pc[j] \in InBackup /\ pc'[j] \in InBackup
        /\ \A k \in Jobs \ {j} : pc'[k] = pc[k] /\ verdict'[k] = verdict[k]
        /\ UNCHANGED <<conf, panicked>>
    BY <1>7 DEF UploadDone, CleanupSkipped, CleanupReturn, PerformReturn,
                Leave, Goto, InBackup, TypeOK
  <2>2. runBar' = runBar
    BY <2>1 DEF runBar
  <2> QED
    BY <2>1, <2>2 DEF Abstract!vars
<1>8. CASE UNCHANGED vars
  BY <1>8, AbstractStutter DEF vars
<1>9. CASE Next
  <2>1. ~panicked
    BY <1>9 DEF Next
  <2> QED
    BY <1>2, <1>3, <1>4, <1>5, <1>6, <1>7, <1>9, <2>1
       DEF Next, JobStep, OwnStep, CommandStep, UploadStep, ReportStep,
           Abstract!Next
<1> QED
  BY <1>8, <1>9

(* The safety half of ImplementsBackupRuns: the executor rejects a job     *)
(* only while a backup runs, and never lets exclusive backups overlap      *)
(* (executor.go:85-144).                                                   *)
THEOREM SafeRefinement == SafeSpec => Abstract!SafeSpec
<1>1. TypeOK /\ ExecutorInv /\ (TypeOK /\ ExecutorInv)' /\ [Next]_vars
        => [Abstract!Next]_(Abstract!vars)
  BY AbstractStep DEF IInv
<1> QED
  BY <1>1, AbstractInit, ExecutorInvariant, PTL DEF SafeSpec, Abstract!SafeSpec
=============================================================================
