SPECIFICATION Spec
CONSTANTS
  Clients = {c1, c2}
  Main = main
  l1 = l1
  l2 = l2
  SubLoops <- Pool
  FDs = {5}
  MAXFDS = 100
  BufSegs = 2
  MaxSegs = 3
  MayReset = {c1}
  MayUrge = {c2}
  None = none
INVARIANT AnswersRequests
PROPERTIES
  AcceptedInTheEnd
  AnsweredInTheEnd
  ReclaimedInTheEnd
CHECK_DEADLOCK FALSE
