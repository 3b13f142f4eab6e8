SPECIFICATION FairSpec
CONSTANTS
  Play = Play
  Over = Over
  Items <- States
  Capacity = 3
  KeepBelow = 2
  MaxLate = 1
INVARIANTS TypeOK OverlapSlipped
PROPERTIES RingIsQueue WaitsEnd EndApplied
CHECK_DEADLOCK FALSE
