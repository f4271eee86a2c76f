------------------------- MODULE MCServiceBackupScp -------------------------
(* ServiceBackup for TLC: one job, a first destination that is uploaded to *)
(* inside the program and a second one over scp, with up to two files.     *)
EXTENDS ServiceBackup, TLC

CONSTANTS j1, create, clean, copy1, copy2

MCCreatorOf == j1 :> create
MCCleanupOf == j1 :> clean
MCCopyOf == j1 :> [d \in {1, 2} |-> <<copy1, copy2>>]

(* The scp destination has a fingerprint or not, or the second destination *)
(* is of a type the program does not know; or there is none.  The first    *)
(* destination's client may panic or not.                                  *)
AzureDest == [type |-> "azure", fingerprint |-> "absent"]
GcsDest == [type |-> "gcs", fingerprint |-> "absent"]
ScpDest(raw) == [type |-> "scp", fingerprint |-> raw]
UnknownDest == [type |-> "unknown", fingerprint |-> "absent"]

MCDestinations ==
  {<<AzureDest, ScpDest("string")>>, <<GcsDest, ScpDest("other")>>,
   <<GcsDest, UnknownDest>>, <<>>}

(* Every configuration of a backup that excludes others.                   *)
MCConfigs == [exitIfInProgress : {TRUE}, creator : BOOLEAN, cleanup : BOOLEAN,
              identifier : BOOLEAN, alerts : BOOLEAN]
=============================================================================
