SPECIFICATION FairSpec
CONSTANTS
  Users = {u1}
  Clients = {c1, c2}
  None = None
  MaxTries = 1
  MaxRpc = 3
  MaxLease = 2
  MaxCrash = 1
INVARIANTS FileIsCommitted LiveLeaseIsCurrent LeasedRecordIntact
PROPERTY CallsReturn
CHECK_DEADLOCK FALSE
