SPECIFICATION Spec
CONSTANTS
  NumThreads = 12
  MayFail = TRUE
CHECK_DEADLOCK FALSE
INVARIANTS
  NoLostNotify
  LoopsRunning
PROPERTY
  PoolStarts
