--------------------------- MODULE SyncJobsProofs ---------------------------
(***************************************************************************)
(* Proofs about SyncJobs for any set of jobs.  A thread that pulls took    *)
(* the lease when nobody held it; the automatic run holds it already while *)
(* it inserts its row, so the invariant speaks of that thread as well.     *)
(* Only a broken connection takes the lease from the thread that has it.   *)
(***************************************************************************)
EXTENDS SyncJobs, TLAPS

\* The threads that pull, and the automatic run between its lease and its row.
LeaseHolders == Pulling \cup {"inserting"}
HoldersHold == \A j \in Job : worker[j] \in LeaseHolders => lease = j \/ j \in broken

IInv == TypeOK /\ HoldersHold
-----------------------------------------------------------------------------
LEMMA InitIInv == Init => IInv
  BY HoldersAssumption
  DEF Init, IInv, TypeOK, Kind, HoldersHold, LeaseHolders, Pulling

\* Moving one thread: nobody else moves, and the lease goes to nobody who has it.
LEMMA ThreadMoves ==
  ASSUME HoldersHold, NEW j \in Job, NEW at,
         worker' = [worker EXCEPT ![j] = at], DOMAIN worker = Job,
         at \in LeaseHolders => lease' = j \/ j \in broken',
         broken \subseteq broken' \cup {j},
         lease' # lease => lease \in {NoJob, j}
  PROVE  HoldersHold'
<1> SUFFICES ASSUME NEW i \in Job, worker'[i] \in LeaseHolders
             PROVE  lease' = i \/ i \in broken'
  BY DEF HoldersHold
<1>1. CASE i = j
  BY <1>1
<1>2. CASE i # j
  <2>1. lease = i \/ i \in broken
    BY <1>2 DEF HoldersHold
  <2> QED BY <1>2, <2>1, HoldersAssumption
<1> QED BY <1>1, <1>2

-----------------------------------------------------------------------------
LEMMA TypesKept == ASSUME IInv, [Next]_vars  PROVE TypeOK'
<1> USE DEF IInv, leaseVars
<1>1. ASSUME NEW j \in Job, \/ StartQueued(j) \/ StartInRequest(j, "inline")
                            \/ StartInRequest(j, "store") \/ StartAuto(j)
      PROVE  TypeOK'
  BY <1>1 DEF TypeOK, Kind, StartQueued, StartInRequest, StartAuto, Insert
<1>2. ASSUME NEW j \in Job, \/ LeaseForAuto(j) \/ AutoRefused(j) \/ TakeLease(j)
                            \/ StopCanceled(j) \/ LastCheck(j) \/ Error(j)
      PROVE  TypeOK'
  BY <1>2 DEF TypeOK, LeaseForAuto, AutoRefused, TakeLease, MayPull, StopCanceled,
              LastCheck, Error, LeaseAfterPull, LeaseWithout, Unlocked, rowVars
<1>3. ASSUME NEW j \in Job, \/ Finish(j) \/ Report(j) \/ RecordFailure(j)
                            \/ SaveApproval(j) \/ Age(j)
      PROVE  TypeOK'
  BY <1>3 DEF TypeOK, Finish, Report, RecordFailure, LeaseAfterFailure, LeaseAfterPull,
              LeaseWithout, Unlocked, SaveApproval, Age, rowVars
<1>4. ASSUME NEW j \in Job, Die(j) \/ LoseLease(j)
      PROVE  TypeOK'
  BY <1>4 DEF TypeOK, Die, LoseLease, LeaseWithout, rowVars
<1>5. ASSUME NEW j \in Job, CancelRead(j) \/ CancelWrite(j) \/ CancelAborted(j)
      PROVE  TypeOK'
  BY <1>5 DEF TypeOK, CancelRead, CancelWrite, CancelAborted, rowVars
<1>6. CASE RecoverRead
  BY <1>6 DEF TypeOK, RecoverRead, Interrupted, rowVars
<1>7. CASE RecoverWrite \/ RecoveryDies
  BY <1>7 DEF TypeOK, RecoverWrite, RecoveryDies, rowVars
<1>8. CASE UNCHANGED vars
  BY <1>8 DEF TypeOK, vars, rowVars
<1> QED
  BY <1>1, <1>2, <1>3, <1>4, <1>5, <1>6, <1>7, <1>8 DEF Next, Work

LEMMA HoldersKept == ASSUME IInv, [Next]_vars  PROVE HoldersHold'
<1> USE DEF IInv, leaseVars
<1>0. DOMAIN worker = Job
  BY DEF TypeOK
<1>1. ASSUME NEW j \in Job, \/ StartQueued(j) \/ StartInRequest(j, "inline")
                            \/ StartInRequest(j, "store")
      PROVE  HoldersHold'
  <2>1. worker' = [worker EXCEPT ![j] = "starting"] /\ UNCHANGED <<lease, broken>>
    BY <1>1 DEF StartQueued, StartInRequest, Insert
  <2> QED BY <1>0, <2>1, ThreadMoves DEF LeaseHolders, Pulling
<1>2. ASSUME NEW j \in Job, StartAuto(j)
      PROVE  HoldersHold'
  <2>1. lease = j \/ j \in broken
    BY <1>2 DEF StartAuto, HoldersHold, LeaseHolders
  <2>2. worker' = [worker EXCEPT ![j] = "pulling"] /\ UNCHANGED <<lease, broken>>
    BY <1>2 DEF StartAuto, Insert
  <2> QED BY <1>0, <2>1, <2>2, ThreadMoves
<1>3. ASSUME NEW j \in Job, LeaseForAuto(j)
      PROVE  HoldersHold'
  BY <1>0, <1>3, ThreadMoves DEF LeaseForAuto
<1>4. ASSUME NEW j \in Job, TakeLease(j)
      PROVE  HoldersHold'
  <2>1. CASE lease = NoJob
    BY <1>0, <1>4, <2>1, ThreadMoves DEF TakeLease, MayPull
  <2>2. CASE lease # NoJob
    <3>1. worker' = [worker EXCEPT ![j] = "failing"] /\ UNCHANGED <<lease, broken>>
      BY <1>4, <2>2 DEF TakeLease, MayPull
    <3> QED BY <1>0, <3>1, ThreadMoves DEF LeaseHolders, Pulling
  <2> QED BY <2>1, <2>2
\* A thread that has the lease leaves it if it is its own, or goes on as it was.
<1>5. ASSUME NEW j \in Job, \/ AutoRefused(j) \/ StopCanceled(j) \/ Error(j)
                            \/ Report(j) \/ RecordFailure(j) \/ Die(j)
      PROVE  HoldersHold'
  <2>1. lease' # lease => lease = j
    BY <1>5 DEF AutoRefused, StopCanceled, Error, Report, RecordFailure, Die,
                LeaseAfterFailure, LeaseAfterPull, LeaseWithout
  <2>2. broken \subseteq broken' \cup {j}
    BY <1>5 DEF AutoRefused, StopCanceled, Error, Report, RecordFailure, Die
  <2>3. PICK at : worker' = [worker EXCEPT ![j] = at] /\ at \in {"none", "failing", "done"}
    BY <1>5 DEF AutoRefused, StopCanceled, Error, Report, RecordFailure, Die, Unlocked
  <2> QED BY <1>0, <2>1, <2>2, <2>3, ThreadMoves DEF LeaseHolders, Pulling
<1>6. ASSUME NEW j \in Job, LastCheck(j) \/ Finish(j)
      PROVE  HoldersHold'
  <2>1. lease = j \/ j \in broken
    BY <1>6 DEF LastCheck, Finish, HoldersHold, LeaseHolders, Pulling
  <2>2. CASE LastCheck(j)
    BY <1>0, <2>1, <2>2, ThreadMoves DEF LastCheck
  <2>3. CASE Finish(j) /\ kind[j] = "auto"
    <3>1. worker' = [worker EXCEPT ![j] = "reporting"] /\ UNCHANGED <<lease, broken>>
      BY <2>3 DEF Finish, LeaseAfterPull
    <3> QED BY <1>0, <2>1, <3>1, ThreadMoves
  <2>4. CASE Finish(j) /\ kind[j] # "auto"
    <3>1. PICK at : worker' = [worker EXCEPT ![j] = at] /\ at \in {"failing", "done"}
      BY <2>4 DEF Finish, Unlocked
    <3>2. (lease' # lease => lease = j) /\ UNCHANGED broken
      BY <2>4 DEF Finish, LeaseAfterPull, LeaseWithout
    <3> QED BY <1>0, <3>1, <3>2, ThreadMoves DEF LeaseHolders, Pulling
  <2> QED BY <1>6, <2>2, <2>3, <2>4
<1>7. ASSUME NEW j \in Job, LoseLease(j)
      PROVE  HoldersHold'
  BY <1>7, HoldersAssumption DEF LoseLease, HoldersHold
<1>8. ASSUME NEW j \in Job, SaveApproval(j) \/ Age(j) \/ CancelRead(j) \/ CancelWrite(j)
                            \/ CancelAborted(j)
      PROVE  UNCHANGED <<worker, lease, broken>>
  BY <1>8 DEF SaveApproval, Age, CancelRead, CancelWrite, CancelAborted
\* The recovery takes the lease from nobody, and while it has it nobody else does.
<1>9. CASE RecoverRead \/ RecoverWrite \/ RecoveryDies
  <2>1. lease \notin Job /\ UNCHANGED <<worker, broken>>
    BY <1>9, HoldersAssumption
    DEF RecoverRead, RecoveryMayRun, RecoverWrite, RecoveryDies
  <2> QED BY <2>1 DEF HoldersHold
<1>10. UNCHANGED <<worker, lease, broken>> => HoldersHold'
  BY DEF HoldersHold
<1>11. CASE UNCHANGED vars
  BY <1>10, <1>11 DEF vars
<1> QED
  BY <1>1, <1>2, <1>3, <1>4, <1>5, <1>6, <1>7, <1>8, <1>9, <1>10, <1>11 DEF Next, Work

LEMMA Invariance == Spec => []IInv
<1>1. IInv /\ [Next]_vars => IInv'
  BY TypesKept, HoldersKept DEF IInv
<1> QED BY InitIInv, <1>1, PTL DEF Spec
-----------------------------------------------------------------------------
\* The states of rows, threads and the lease are what the code can write, and whoever holds
\* a copy of a row holds that of a row others can see.
THEOREM Types == Spec => []TypeOK
<1>1. IInv => TypeOK
  BY DEF IInv
<1> QED BY <1>1, Invariance, PTL

\* Whoever pulls holds the lease unless the database has broken its connection: two threads
\* never pull at once otherwise.
THEOREM OnePulls == Spec => []PullsUnderLease
<1>1. IInv => PullsUnderLease
  BY DEF IInv, HoldersHold, LeaseHolders, PullsUnderLease
<1> QED BY <1>1, Invariance, PTL

\* The recovery writes failed only into rows nobody pulls for, or a thread that has lost its
\* lease: it holds the lease itself then.
THEOREM RecoversTheDead == Spec => LivePullsNotRecovered
<1>1. IInv /\ [Next]_vars => [RecoveryStep]_vars
  <2> SUFFICES ASSUME IInv, NEW j \in Job, RecoverWrite
               PROVE  worker[j] \notin Pulling \/ j \in broken
    BY DEF RecoveryStep
  <2>1. lease = Recovery
    BY DEF RecoverWrite
  <2> QED BY <2>1, HoldersAssumption DEF IInv, HoldersHold, LeaseHolders
<1> QED BY <1>1, Invariance, PTL DEF Spec, LivePullsNotRecovered
=============================================================================
