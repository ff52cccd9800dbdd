------------------------------ MODULE SyncJobs ------------------------------
(***************************************************************************)
(* Life of the DingTalk synchronization jobs: the row of sync_jobs, the    *)
(* thread that executes it, the execution lease (a session-level advisory  *)
(* lock of the database), cancellation, and the recovery of jobs whose     *)
(* thread is gone (apps/api/app/modules/dingtalk: sync_runtime.py,         *)
(* router.py:4033-5077; app/main.py:50-62).                                *)
(*                                                                         *)
(* What a job pulls is left out: a thread checks for cancellation, pulls,  *)
(* checks a last time and writes its outcome.  A handler that writes a     *)
(* status it derived from an earlier read is two actions.                  *)
(***************************************************************************)
EXTENDS Naturals

CONSTANTS
  Job,       \* identifiers of sync_jobs rows: bounds how many are started
  NoJob,     \* nobody holds the lease
  Recovery   \* the recovery holds the lease

ASSUME HoldersAssumption == NoJob \notin Job /\ Recovery \notin Job /\ NoJob # Recovery

VARIABLES
  kind,        \* how the job was started
  status,      \* SyncJob.status, "none" before the row is inserted
  committed,   \* jobs whose row other sessions can see
  old,         \* jobs created more than five minutes ago
  worker,      \* where the thread that executes the job is
  lease,       \* holder of the advisory lock
  broken,      \* jobs whose thread goes on without the lease it took
  canceling,   \* jobs a cancel request has read as running
  recovering   \* jobs the recovery has read as interrupted

rowVars == <<kind, status, committed>>
leaseVars == <<lease, broken>>
vars == <<rowVars, old, worker, leaseVars, canceling, recovering>>

\* "queued": start or resume with run_async; "inline": without; "store":
\* store-approval-sync; "auto": the scheduler or auto-sync/run.
Kind == {"queued", "inline", "store", "auto"}
Pulling == {"pulling", "finishing", "reporting"}

Running(j) == status[j] = "running"
\* uq_sync_jobs_running_dingtalk: an insertion that meets a committed running row fails,
\* one that meets an uncommitted row waits for it.
SlotFree == \A j \in Job : ~Running(j)

Init ==
  /\ kind = [j \in Job |-> "queued"]
  /\ status = [j \in Job |-> "none"]
  /\ committed = {}
  /\ old = {}
  /\ worker = [j \in Job |-> "none"]
  /\ lease = NoJob
  /\ broken = {}
  /\ canceling = {}
  /\ recovering = {}
-----------------------------------------------------------------------------
(* Starting. *)

Insert(j, k, seen, at) ==
  /\ SlotFree
  /\ kind' = [kind EXCEPT ![j] = k]
  /\ status' = [status EXCEPT ![j] = "running"]
  /\ committed' = IF seen THEN committed \cup {j} ELSE committed
  /\ worker' = [worker EXCEPT ![j] = at]

\* The row is committed, the response sent, then the background task begins.
StartQueued(j) ==
  /\ worker[j] = "none"
  /\ Insert(j, "queued", TRUE, "starting")
  /\ UNCHANGED <<old, leaseVars, canceling, recovering>>

\* The row stays in the transaction of the request until the first approval is saved.
StartInRequest(j, k) ==
  /\ worker[j] = "none"
  /\ Insert(j, k, FALSE, "starting")
  /\ UNCHANGED <<old, leaseVars, canceling, recovering>>

LeaseWithout(j) == IF lease = j THEN NoJob ELSE lease

\* execute_auto_sync holds the lease before it inserts.
LeaseForAuto(j) ==
  /\ worker[j] = "none"
  /\ \A i \in committed : ~Running(i)
  /\ lease = NoJob
  /\ lease' = j
  /\ worker' = [worker EXCEPT ![j] = "inserting"]
  /\ UNCHANGED <<rowVars, old, canceling, recovering, broken>>

StartAuto(j) ==
  /\ worker[j] = "inserting"
  /\ Insert(j, "auto", TRUE, "pulling")
  /\ UNCHANGED <<old, leaseVars, canceling, recovering>>

\* Refused by the index: the exception leaves execute_auto_sync and frees the lease.
AutoRefused(j) ==
  /\ worker[j] = "inserting"
  /\ \E i \in committed : Running(i)
  /\ lease' = LeaseWithout(j)
  /\ broken' = broken \ {j}
  /\ worker' = [worker EXCEPT ![j] = "none"]
  /\ UNCHANGED <<rowVars, old, canceling, recovering>>

Age(j) ==
  /\ status[j] # "none"
  /\ old' = old \cup {j}
  /\ UNCHANGED <<rowVars, worker, leaseVars, canceling, recovering>>
-----------------------------------------------------------------------------
(* Executing. *)

MayPull_LeaseIgnored(j) == TRUE
MayPull(j) == lease = NoJob

\* guarded_sync: without the lease the job fails with a conflict.
TakeLease(j) ==
  /\ worker[j] = "starting"
  /\ lease' = IF MayPull(j) THEN j ELSE lease
  /\ worker' = [worker EXCEPT ![j] = IF MayPull(j) THEN "pulling" ELSE "failing"]
  /\ UNCHANGED <<rowVars, old, canceling, recovering, broken>>

\* Each approval is committed; with the first one the row of the job becomes visible.
SaveApproval(j) ==
  /\ worker[j] = "pulling"
  /\ committed' = committed \cup {j}
  /\ UNCHANGED <<kind, status, old, worker, leaseVars, canceling, recovering>>

\* The automatic sync holds the lease around its handling of errors; the others free it
\* when run_approval_sync ends.
LeaseAfterPull(j) == IF kind[j] = "auto" THEN lease ELSE LeaseWithout(j)

\* Where the thread of a job that is not automatic is when it has freed the lease: on a
\* broken connection the unlock raises an exception, handled like any error.
Unlocked(j) == IF j \in broken THEN "failing" ELSE "done"

\* ensure_sync_job_not_canceled.  Only the handlers of manual jobs know the exception;
\* the automatic and the store sync handle it like any error.
StopCanceled(j) ==
  /\ worker[j] = "pulling"
  /\ status[j] = "canceled"
  /\ lease' = LeaseAfterPull(j)
  /\ worker' = [worker EXCEPT ![j] =
       IF kind[j] \in {"auto", "store"} THEN "failing" ELSE Unlocked(j)]
  /\ UNCHANGED <<rowVars, old, canceling, recovering, broken>>

\* The last check for cancellation.  An automatic run without approvals has none.
LastCheck(j) ==
  /\ worker[j] = "pulling"
  /\ status[j] # "canceled" \/ kind[j] = "auto"
  /\ worker' = [worker EXCEPT ![j] = "finishing"]
  /\ UNCHANGED <<rowVars, old, leaseVars, canceling, recovering>>

\* "failed" when a page limit left a cursor.
Finish(j) ==
  /\ worker[j] = "finishing"
  /\ \E outcome \in {"succeeded", "failed"} :
       status' = [status EXCEPT ![j] = outcome]
  /\ committed' = committed \cup {j}
  /\ lease' = LeaseAfterPull(j)
  /\ worker' = [worker EXCEPT ![j] = IF kind[j] = "auto" THEN "reporting" ELSE Unlocked(j)]
  /\ UNCHANGED <<kind, old, canceling, recovering, broken>>

\* The rest of execute_auto_sync: warnings of earlier stages turn the job into a failure.
Report(j) ==
  /\ worker[j] = "reporting"
  /\ \/ UNCHANGED status
     \/ status' = [status EXCEPT ![j] = "failed"]
  /\ lease' = LeaseWithout(j)
  /\ worker' = [worker EXCEPT ![j] = "done"]
  /\ UNCHANGED <<kind, committed, old, canceling, recovering, broken>>

\* DingTalk or the database reports an error.
Error(j) ==
  /\ worker[j] \in {"pulling", "finishing"}
  /\ lease' = LeaseAfterPull(j)
  /\ worker' = [worker EXCEPT ![j] = "failing"]
  /\ UNCHANGED <<rowVars, old, canceling, recovering, broken>>

LeaseAfterFailure_Kept(j) == lease
LeaseAfterFailure(j) == LeaseWithout(j)

\* Whatever another session has written to the row since, failed is written.
RecordFailure(j) ==
  /\ worker[j] = "failing"
  /\ status' = [status EXCEPT ![j] = "failed"]
  /\ committed' = committed \cup {j}
  /\ lease' = LeaseAfterFailure(j)
  /\ worker' = [worker EXCEPT ![j] = "done"]
  /\ UNCHANGED <<kind, old, canceling, recovering, broken>>

\* The process stops, or the database breaks both connections of the thread: the lease
\* goes with its session, an uncommitted row with its transaction, a committed one stays.
Die(j) ==
  /\ worker[j] \notin {"none", "done"}
  /\ lease' = LeaseWithout(j)
  /\ status' = IF j \in committed THEN status ELSE [status EXCEPT ![j] = "none"]
  /\ worker' = [worker EXCEPT ![j] = "done"]
  /\ old' = IF j \in committed THEN old ELSE old \ {j}
  /\ UNCHANGED <<kind, committed, canceling, recovering, broken>>

\* The lease has a connection of its own, idle until the pull ends: the database may end
\* only that one, and nothing tells the thread before it unlocks.
LoseLease(j) ==
  /\ lease = j
  /\ lease' = NoJob
  /\ broken' = broken \cup {j}
  /\ UNCHANGED <<rowVars, old, worker, canceling, recovering>>
-----------------------------------------------------------------------------
(* Cancelling and recovering. *)

CancelRead(j) ==
  /\ j \in committed /\ Running(j)
  /\ canceling' = canceling \cup {j}
  /\ UNCHANGED <<rowVars, old, worker, leaseVars, recovering>>

CancelWrite(j) ==
  /\ j \in canceling
  /\ status' = [status EXCEPT ![j] = "canceled"]
  /\ canceling' = canceling \ {j}
  /\ UNCHANGED <<kind, committed, old, worker, leaseVars, recovering>>

CancelAborted(j) ==
  /\ j \in canceling
  /\ canceling' = canceling \ {j}
  /\ UNCHANGED <<rowVars, old, worker, leaseVars, recovering>>

Interrupted_DirtyRead(j) == j \in old /\ Running(j)
Interrupted_AutoOnly(j) == j \in committed \cap old /\ Running(j) /\ kind[j] = "auto"
Interrupted(j) == j \in committed \cap old /\ Running(j)

RecoveryMayRun_LeaseIgnored == lease # Recovery
RecoveryMayRun == lease = NoJob

\* Every minute the loop of the application takes the lease and reads the old jobs ...
RecoverRead ==
  /\ RecoveryMayRun
  /\ lease' = Recovery
  /\ recovering' = {j \in Job : Interrupted(j)}
  /\ UNCHANGED <<rowVars, old, worker, canceling, broken>>

\* ... and writes them failed.
RecoverWrite ==
  /\ lease = Recovery
  /\ status' = [j \in Job |-> IF j \in recovering THEN "failed" ELSE status[j]]
  /\ lease' = NoJob
  /\ recovering' = {}
  /\ UNCHANGED <<kind, committed, old, worker, canceling, broken>>

RecoveryDies ==
  /\ lease = Recovery
  /\ lease' = NoJob
  /\ recovering' = {}
  /\ UNCHANGED <<rowVars, old, worker, canceling, broken>>
-----------------------------------------------------------------------------
\* What a live thread does next.
Work(j) ==
  \/ StartAuto(j) \/ AutoRefused(j)
  \/ TakeLease(j)
  \/ StopCanceled(j) \/ LastCheck(j)
  \/ Finish(j) \/ Report(j) \/ RecordFailure(j)

Next ==
  \/ \E j \in Job :
       \/ StartQueued(j)
       \/ \E k \in {"inline", "store"} : StartInRequest(j, k)
       \/ LeaseForAuto(j)
       \/ Work(j)
       \/ SaveApproval(j) \/ Error(j) \/ Die(j) \/ LoseLease(j) \/ Age(j)
       \/ CancelRead(j) \/ CancelWrite(j) \/ CancelAborted(j)
  \/ RecoverRead \/ RecoverWrite \/ RecoveryDies

\* Threads run on, time passes and the loop keeps calling the recovery.  Nobody has to
\* start or cancel a job, and threads may die; the recovery does not die every time.
Fairness ==
  /\ \A j \in Job : WF_vars(Work(j)) /\ WF_vars(Age(j))
  /\ WF_vars(RecoverRead) /\ SF_vars(RecoverWrite)

Spec == Init /\ [][Next]_vars /\ Fairness
-----------------------------------------------------------------------------
(* Properties. *)

TypeOK ==
  /\ kind \in [Job -> Kind]
  /\ status \in [Job -> {"none", "running", "succeeded", "failed", "canceled"}]
  /\ worker \in [Job -> {"none", "inserting", "starting", "pulling", "finishing",
                         "reporting", "failing", "done"}]
  /\ committed \subseteq Job /\ old \subseteq Job
  /\ lease \in Job \cup {NoJob, Recovery}
  /\ broken \subseteq Job
  /\ canceling \subseteq committed /\ recovering \subseteq committed

\* Approvals are pulled by one thread at a time, the one that holds the lease, even when
\* its job was canceled and another one has been started; only a thread whose lease the
\* database took away (its connection, nothing else does) goes on beside it.
PullsUnderLease == \A j \in Job : worker[j] \in Pulling => lease = j \/ j \in broken

\* A job is recovered only when nobody pulls for it (sync_runtime.py, docstring of
\* recover_interrupted_sync_jobs), so that a job being executed is not judged interrupted
\* (docs/2026-10-08-dingtalk-sync-store-and-state-fix.md:10).  A thread whose connection
\* of the lease is broken is nobody to the recovery.
RecoveryStep ==
  \A j \in Job : RecoverWrite /\ j \in recovering => worker[j] \notin Pulling \/ j \in broken
LivePullsNotRecovered == [][RecoveryStep]_vars

\* No job stays running for ever, whatever dies or breaks; a running row would block every later
\* synchronization.
JobsEnd == \A j \in Job : Running(j) ~> ~Running(j)

\* The lease always becomes free again.
LeaseReturned == (lease # NoJob) ~> (lease = NoJob)

\* A canceled job stays canceled (docs/integrations/dingtalk/staged-sync-design.md:116).
CanceledStays ==
  [][\A j \in Job : status[j] = "canceled" => status'[j] = "canceled"]_vars
=============================================================================
