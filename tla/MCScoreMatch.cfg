CONSTANTS
  Users = {u1, u2}
  Workers = {w1, w2, w3}
  None = None
  MaxOffers = 2
  MaxBroken = 1
  MaxTries = 1
  MaxRestarts = 1
SPECIFICATION Spec
SYMMETRY Symmetry
INVARIANTS EntryUsedOnce SilentEndHasReason PoolEntryServed
CHECK_DEADLOCK FALSE
