----------------------------- MODULE BackupRuns -----------------------------
(***************************************************************************)
(* What the executor promises the scheduler: each activation is either     *)
(* rejected, only if backups exclude one another and one is running, or    *)
(* becomes a backup that ends, unless one that is running brings the       *)
(* program down.                                                           *)
(***************************************************************************)
CONSTANT Jobs

VARIABLES
  run,        \* each activation: idle, active, or how it ended
  exclusive,  \* backups exclude one another
  down        \* the program has crashed

vars == <<run, exclusive, down>>

Active == {j \in Jobs : run[j] = "active"}

Init ==
  /\ run = [j \in Jobs |-> "idle"]
  /\ exclusive \in BOOLEAN
  /\ down = FALSE

Begin(j) ==
  /\ run[j] = "idle"
  /\ exclusive => Active = {}
  /\ run' = [run EXCEPT ![j] = "active"]
  /\ UNCHANGED <<exclusive, down>>

Reject(j) ==
  /\ run[j] = "idle"
  /\ exclusive /\ Active # {}
  /\ run' = [run EXCEPT ![j] = "rejected"]
  /\ UNCHANGED <<exclusive, down>>

End(j) ==
  /\ run[j] = "active"
  /\ \E v \in {"ok", "failed"} : run' = [run EXCEPT ![j] = v]
  /\ UNCHANGED <<exclusive, down>>

Crash ==
  /\ Active # {}
  /\ down' = TRUE
  /\ UNCHANGED <<run, exclusive>>

Next ==
  /\ ~down
  /\ (\E j \in Jobs : Begin(j) \/ Reject(j) \/ End(j)) \/ Crash

SafeSpec == Init /\ [][Next]_vars

Spec == SafeSpec /\ \A j \in Jobs : WF_vars(~down /\ End(j))
=============================================================================
