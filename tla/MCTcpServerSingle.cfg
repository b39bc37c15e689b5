SPECIFICATION Spec
CONSTANTS
  Clients = {c1, c2, c3}
  Main = main
  l1 = l1
  l2 = l2
  SubLoops <- NoPool
  FDs = {5, 6}
  MAXFDS = 6
  BufSegs = 1
  MaxSegs = 1
  MayReset = {c1}
  MayUrge = {c2}
  None = none
PROPERTIES
  ReclaimedInTheEnd
CHECK_DEADLOCK FALSE
