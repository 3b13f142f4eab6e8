SPECIFICATION FairSpec
CONSTANTS
  Addrs = {1, 2}
  TicketOf <- FirstAndThird
  None = None
  Junk = Junk
  Conns = 2
  Capacity = 2
  MaxBattles = 3
  MaxCrashes = 1
  Leftovers <- Stack
  MaxJunk = 1
INVARIANTS StateIsOwn HeldIsOld NullHasCause
PROPERTY EndIsSeen
CHECK_DEADLOCK FALSE
