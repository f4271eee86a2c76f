----------------------------- MODULE MCExecutor -----------------------------
(* The instance of Executor for TLC: every configuration. *)
EXTENDS Executor

AllConfigs == BackupConfig
=============================================================================
