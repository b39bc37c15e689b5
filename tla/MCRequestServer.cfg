SPECIFICATION Spec
CONSTANTS
  Tasks = {c1, c2, c3}
  Workers = {w1, w2}
  FDs = {0}
  Resubmit = FALSE
  MayFin = {c1, c2, c3}
  MayReset = {c1, c2, c3}
SYMMETRY Symmetry
CHECK_DEADLOCK FALSE
INVARIANTS
  NoTaskStranded
  EachTaskOnce
  OnlyCaughtAreUsed
  OneTimerPerRequest
  
