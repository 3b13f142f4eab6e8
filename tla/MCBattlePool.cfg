CONSTANTS
  Sessions = {1, 2, 3}
  UserOf <- Player
  Capacity = 2
  MaxBattles = 2
  MaxCrashes = 1
  MaxExits = 1
  MaxRequests = 5
SPECIFICATION FairSpec
INVARIANTS BattleKept ToldIsResumable
PROPERTIES ResumedWithinRound Served
CHECK_DEADLOCK FALSE
