----------------------------- MODULE MCSyncJobs -----------------------------
(* Two jobs and the recovery.  No symmetry: the run checks liveness.       *)
EXTENDS SyncJobs
=============================================================================
