SPECIFICATION Spec
CONSTANTS
  Job = {j1, j2}
  NoJob = NoJob
  Recovery = Recovery
INVARIANTS TypeOK PullsUnderLease
PROPERTIES LivePullsNotRecovered JobsEnd LeaseReturned
