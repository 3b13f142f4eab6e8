CONSTANTS
  Ids = {p, q, r}
  Scores <- ScoresDef
  Nicks = {m, n}
  Callers = {c, d}
SPECIFICATION RaceSpec
INVARIANT IdIsFound
CHECK_DEADLOCK FALSE
