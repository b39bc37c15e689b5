SPECIFICATION Spec
CONSTANTS
  Callers = {t1, t2}
  LoopThread = loop
  Functors = {f1, f2, f3}
  Channels = {c1, c2}
  MayUrge = {c1}
  Wake = wake
  EVENT_SUM = 1
INVARIANTS
  NoLostWakeup
  NoChannelForgotten
  NoStaleEvent
PROPERTIES
  EventsServed
  QueueSpec
CHECK_DEADLOCK FALSE
