CONSTANTS
  Hp = 2
  Total = 4
  WaitTicks = 2
  Tries = 2
  MaxSudden = 2
SPECIFICATION FairSpec
INVARIANTS WinnerIsPhase ReportedOnce
PROPERTIES EndIsFinal BattleEnds
CHECK_DEADLOCK FALSE
