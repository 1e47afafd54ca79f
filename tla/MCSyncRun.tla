----------------------------- MODULE MCSyncRun -----------------------------
(* Instances of SyncRun for TLC. *)
EXTENDS SyncRun
=============================================================================
