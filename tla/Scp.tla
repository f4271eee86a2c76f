-------------------------------- MODULE Scp --------------------------------
(***************************************************************************)
(* scp/scp.go: SCPClient.Upload.  Every member of Uploads is a goroutine   *)
(* that may call it, several times in a row.  The ssh-keyscan and ssh      *)
(* commands run inside the steps "scanning" and "making" by CombinedOutput *)
(* and are unknown to the process manager; the scp commands are started    *)
(* through it, and how a Start ends is the parameter of CopyReturn.        *)
(***************************************************************************)
EXTENDS Naturals

CONSTANTS
  Uploads,   \* the goroutines that call Upload
  MaxFiles   \* bound: the entries of the source folder, at most

VARIABLES
  step,      \* where each upload is
  keyFile,   \* the private key is in a temporary file of this Upload
  files,     \* how many entries ReadDir returned
  copied,    \* how many of them have been copied
  scpResult  \* what the last Upload returned

vars == <<step, keyFile, files, copied, scpResult>>

TypeOK ==
  /\ step \in [Uploads -> {"out", "key", "hosts", "scanning", "hostsFile",
                           "directory", "making", "list", "copy", "copying"}]
  /\ keyFile \in [Uploads -> BOOLEAN]
  /\ files \in [Uploads -> 0..MaxFiles]
  /\ copied \in [Uploads -> 0..MaxFiles]
  /\ scpResult \in [Uploads -> {"none", "ok", "err"}]

Init ==
  /\ step = [u \in Uploads |-> "out"]
  /\ keyFile = [u \in Uploads |-> FALSE]
  /\ files = [u \in Uploads |-> 0]
  /\ copied = [u \in Uploads |-> 0]
  /\ scpResult = [u \in Uploads |-> "none"]

Goto(u, place) == step' = [step EXCEPT ![u] = place]

Move(u, from, to) ==
  /\ step[u] = from
  /\ Goto(u, to)
  /\ UNCHANGED <<keyFile, files, copied, scpResult>>

(* Upload returns r before the removal of the key file is deferred. *)
Abandon(u, r) ==
  /\ Goto(u, "out")
  /\ scpResult' = [scpResult EXCEPT ![u] = r]
  /\ UNCHANGED <<keyFile, files, copied>>

(* Upload returns r and the deferred os.Remove deletes the key file. *)
Return(u, r) ==
  /\ Goto(u, "out")
  /\ scpResult' = [scpResult EXCEPT ![u] = r]
  /\ keyFile' = [keyFile EXCEPT ![u] = FALSE]
  /\ UNCHANGED <<files, copied>>

-----------------------------------------------------------------------------
(* Mistakes the properties would catch: variants of the definitions below  *)
(* that no specification uses.                                             *)

(* The key is removed as soon as the remote directory exists. *)
KeyRemovedEarly(u) ==
  /\ step[u] = "making"
  /\ \/ /\ Goto(u, "list")
        /\ keyFile' = [keyFile EXCEPT ![u] = FALSE]
        /\ UNCHANGED <<files, copied, scpResult>>
     \/ Return(u, "err")

(* The loop goes on after a failed copy. *)
CopyErrorIgnored(u, ok) ==
  /\ step[u] = "copying"
  /\ ok \in BOOLEAN
  /\ Goto(u, "copy")
  /\ copied' = [copied EXCEPT ![u] = @ + 1]
  /\ UNCHANGED <<keyFile, files, scpResult>>

-----------------------------------------------------------------------------
Upload(u) ==
  /\ step[u] = "out"
  /\ Goto(u, "key")
  /\ keyFile' = [keyFile EXCEPT ![u] = FALSE]
  /\ scpResult' = [scpResult EXCEPT ![u] = "none"]
  /\ UNCHANGED <<files, copied>>

GenerateBackupKey(u) ==
  /\ step[u] = "key"
  /\ \/ /\ Goto(u, "hosts")
        /\ keyFile' = [keyFile EXCEPT ![u] = TRUE]
        /\ UNCHANGED <<files, copied, scpResult>>
     \/ Abandon(u, "err")

(* generateKnownHosts, up to the ssh-keyscan that a client without a       *)
(* fingerprint needs.                                                      *)
KeyScanCall(u, fingerprint) ==
  Move(u, "hosts", IF fingerprint # "" THEN "hostsFile" ELSE "scanning")

KeyScanReturn(u) ==
  \/ Move(u, "scanning", "hostsFile")
  \/ step[u] = "scanning" /\ Abandon(u, "err")

(* The rest of generateKnownHosts; the file it creates is never removed. *)
KnownHostsFile(u) ==
  \/ Move(u, "hostsFile", "directory")
  \/ step[u] = "hostsFile" /\ Abandon(u, "err")

EnsureRemoteDirectoryCall(u) == Move(u, "directory", "making")

EnsureRemoteDirectoryReturn(u) ==
  \/ Move(u, "making", "list")
  \/ step[u] = "making" /\ Return(u, "err")

ReadDir(u) ==
  /\ step[u] = "list"
  /\ \/ /\ Goto(u, "copy")
        /\ \E n \in 0..MaxFiles : files' = [files EXCEPT ![u] = n]
        /\ copied' = [copied EXCEPT ![u] = 0]
        /\ UNCHANGED <<keyFile, scpResult>>
     \/ Return(u, "err")

(* The next entry is handed to processManager.Start. *)
CopyCall(u) == copied[u] < files[u] /\ Move(u, "copy", "copying")

(* Start returns: the first error ends the upload. *)
CopyReturn(u, ok) ==
  /\ step[u] = "copying"
  /\ \/ /\ ok
        /\ Goto(u, "copy")
        /\ copied' = [copied EXCEPT ![u] = @ + 1]
        /\ UNCHANGED <<keyFile, files, scpResult>>
     \/ ~ok /\ Return(u, "err")

UploadEnds(u) ==
  /\ step[u] = "copy"
  /\ copied[u] = files[u]
  /\ Return(u, "ok")

(* The steps of a client that do not involve the process manager. *)
OwnStep(u, fingerprint) ==
  \/ GenerateBackupKey(u)
  \/ KeyScanCall(u, fingerprint)
  \/ KeyScanReturn(u)
  \/ KnownHostsFile(u)
  \/ EnsureRemoteDirectoryCall(u)
  \/ EnsureRemoteDirectoryReturn(u)
  \/ ReadDir(u)
  \/ UploadEnds(u)

(* A command the process manager does not know of is running. *)
RunsUnmanaged(u) == step[u] \in {"scanning", "making"}

(* A command that reads the key file is running. *)
UsesKey(u) == step[u] \in {"making", "copying"}
=============================================================================
