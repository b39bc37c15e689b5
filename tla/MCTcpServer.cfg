SPECIFICATION Spec
CONSTANTS
  Clients = {c1, c2, c3}
  Main = main
  l1 = l1
  l2 = l2
  SubLoops <- Pool
  FDs = {5, 6}
  MAXFDS = 100
  BufSegs = 1
  MaxSegs = 2
  MayReset = {c1}
  MayUrge = {c2}
  None = none
INVARIANTS
  MapMatchesChannels
  OneOwner
  ListenerArmed
PROPERTY DestroyedIsOver
CHECK_DEADLOCK FALSE
