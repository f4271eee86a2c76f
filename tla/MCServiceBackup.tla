-------------------------- MODULE MCServiceBackup --------------------------
(* ServiceBackup for TLC: two jobs, which upload inside the program. *)
EXTENDS ServiceBackup, TLC

CONSTANTS j1, j2, create1, create2, clean1, clean2

MCJobs == {j1, j2}
MCCalls == {create1, create2, clean1, clean2}

MCCreatorOf == j1 :> create1 @@ j2 :> create2
MCCleanupOf == j1 :> clean1 @@ j2 :> clean2
MCCopyOf == [j \in MCJobs |-> <<<<>>>>]

Dest(type) == [type |-> type, fingerprint |-> "absent"]

(* No destination, one on S3, one the program does not know. *)
MCDestinations == {<<>>, <<Dest("s3")>>, <<Dest("unknown")>>}

(* The daemon and manual-backup with one destination that needs nothing. *)
LiveDestinations == {<<Dest("azure")>>}

(* The jobs are interchangeable, each with the calls it makes. *)
JobSymmetry ==
  {j1 :> j2 @@ j2 :> j1 @@ create1 :> create2 @@ create2 :> create1 @@
   clean1 :> clean2 @@ clean2 :> clean1}

(* Backups that exclude one another, with everything configured, and       *)
(* backups that may overlap.                                               *)
MCConfigs ==
  {[exitIfInProgress |-> b, creator |-> TRUE, cleanup |-> b,
    identifier |-> b, alerts |-> FALSE] : b \in BOOLEAN}

(* Backups that exclude one another, with the creator and nothing else. *)
CreatorConfigs ==
  {[exitIfInProgress |-> TRUE, creator |-> TRUE, cleanup |-> FALSE,
    identifier |-> FALSE, alerts |-> FALSE]}
=============================================================================
