SPECIFICATION Spec
CONSTANTS
  Length = 5
  BUF_SIZE = 2
  SocketSize = 3
  MaxSignals = 2
  MaxCalls = 3
CHECK_DEADLOCK FALSE
INVARIANTS
  ReadInOrder
  WrittenInOrder
  NothingLeftBehind
PROPERTY
  CallReturns
