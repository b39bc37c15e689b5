SPECIFICATION Spec
CONSTANTS
  Clients = {c1, c2, c3}
  Main = main
  l1 = l1
  l2 = l2
  SubLoops <- Pool
  FDs = {5, 6}
  MAXFDS = 6
  BufSegs = 1
  MaxSegs = 1
  MayReset = {}
  MayUrge = {}
  None = none
PROPERTIES
  AcceptedInTheEnd
CHECK_DEADLOCK FALSE
