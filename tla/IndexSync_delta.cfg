\* One device that is reached over two connections: delta index, reordering
\* by the message pool, a clearIndex or a restart at any point.
SPECIFICATION Spec
CONSTANTS
  c1 = c1  c2 = c2  d1 = d1  d2 = d2  f1 = f1  f2 = f2  p1 = p1  p2 = p2
  x1 = x1  x2 = x2
  Conn = {c1, c2}
  Device = {d1}
  Folder = {f1}
  Path = {p1}
  Index = {x1}
  DeviceOf <- OneDevice
  IndexSeen <- OneIndex
  Log <- ShortLog
  Announced <- AnnounceTwo
  Waiters = {}
  MaxBacklog = 2
  MaxResets = 1
INVARIANTS
  TypeOK
  StoreIsNewest
  DeltaIndexComplete
  SequenceNotForgotten
\* The scenario is finite: the connections of Conn are used once each.
CHECK_DEADLOCK FALSE
