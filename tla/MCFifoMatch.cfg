SPECIFICATION FifoFairSpec
CONSTANTS
  Conns = {1, 2, 3}
  UserOf <- Twice
  NoAgent = NoAgent
  MaxTaps <- Few
  MaxFaults = 1
INVARIANTS FifoTypeOK ViewsAgree
PROPERTY ComesToRest
CHECK_DEADLOCK FALSE
