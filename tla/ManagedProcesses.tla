-------------------------- MODULE ManagedProcesses --------------------------
(***************************************************************************)
(* What process.Manager promises its users, with no mutex, wait group or   *)
(* channel in sight: commands are started while the manager is open; once  *)
(* it is closing none is started and those that live go away; and it is    *)
(* closed only when none is left.                                          *)
(***************************************************************************)
CONSTANT Calls

VARIABLES
  phase,   \* "open", then "closing", then "closed"
  proc     \* each command: "absent", then "live", then "gone"

vars == <<phase, proc>>

Init ==
  /\ phase = "open"
  /\ proc = [c \in Calls |-> "absent"]

Spawn(c) ==
  /\ phase = "open"
  /\ proc[c] = "absent"
  /\ proc' = [proc EXCEPT ![c] = "live"]
  /\ UNCHANGED phase

Vanish(c) ==
  /\ proc[c] = "live"
  /\ proc' = [proc EXCEPT ![c] = "gone"]
  /\ UNCHANGED phase

Close ==
  /\ phase = "open"
  /\ phase' = "closing"
  /\ UNCHANGED proc

Closed ==
  /\ phase = "closing"
  /\ \A c \in Calls : proc[c] # "live"
  /\ phase' = "closed"
  /\ UNCHANGED proc

Next ==
  \/ \E c \in Calls : Spawn(c) \/ Vanish(c)
  \/ Close
  \/ Closed

SafeSpec == Init /\ [][Next]_vars

(* A manager that is closing gets rid of its processes and is closed. *)
Fairness ==
  /\ \A c \in Calls : WF_vars(phase = "closing" /\ Vanish(c))
  /\ WF_vars(Closed)

Spec == SafeSpec /\ Fairness
=============================================================================
