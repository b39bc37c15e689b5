SPECIFICATION Spec
CONSTANTS
  Buffers = {b1, b2, b3, b4, b5, b6, b7, b8}
  Null = null
  SIZE = 3
  MaxBacklog = 3
  FlushFreq = 3
  MaxMsgs = 7
INVARIANTS
  AllAccountedFor
  NoSharedBuffer
  SparesSuffice
  NothingUnflushed
PROPERTIES
  LogSafety
  Persisted
  StopReturns
CHECK_DEADLOCK FALSE
