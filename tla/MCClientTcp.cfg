SPECIFICATION TcpFairSpec
CONSTANTS
  Ordinary <- Nick
  Direct <- Board
  NoRequest = NoRequest
  BufLen = 3
  Tries = 2
  MaxPackets = 5
  MaxBreaks = 3
INVARIANTS TcpTypeOK StreamsWhole FailureIsNoticed
PROPERTIES RequestsSent
CHECK_DEADLOCK FALSE
