CONSTANTS
  Ids = {p, q, r}
  Scores <- ScoresDef
  Nicks = {m, n}
  ElapsedTable <- ElapsedDef
  DistanceTable <- DistanceDef
  MaxTime = 2
SPECIFICATION Spec
SYMMETRY Symmetry
INVARIANTS Aligned RevealShowsPlayer
PROPERTIES ImplementsTable
CHECK_DEADLOCK FALSE
