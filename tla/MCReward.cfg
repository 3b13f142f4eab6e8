CONSTANTS
  Results = {1, 2, 3}
  PlayerOf <- Paired
  None = None
  Zero = Zero
  MaxConns = 2
  MaxFaults = 2
SPECIFICATION FairSpec
INVARIANTS TypeOK FileFollowsRank RewardedInFull
PROPERTY ResultEnds
CHECK_DEADLOCK FALSE
