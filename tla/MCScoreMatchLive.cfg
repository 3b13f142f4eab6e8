CONSTANTS
  Users = {u1, u2}
  Workers = {w1, w2}
  None = None
  MaxOffers = 2
  MaxBroken = 2
  MaxTries = 0
  MaxRestarts = 1
SPECIFICATION FairSpec
PROPERTY GoroutinesEnd
CHECK_DEADLOCK FALSE
