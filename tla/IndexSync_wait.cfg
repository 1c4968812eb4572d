\* Two devices share a folder, a client waits for the index of one of them.
SPECIFICATION FairSpec
CONSTANTS
  c1 = c1  c2 = c2  d1 = d1  d2 = d2  f1 = f1  f2 = f2  p1 = p1  p2 = p2
  x1 = x1  x2 = x2
  Conn = {c1, c2}
  Device = {d1, d2}
  Folder = {f1}
  Path = {p1}
  Index = {x1, x2}
  DeviceOf <- TwoDevices
  IndexSeen <- TwoIndexes
  Log <- TwoLogs
  Announced <- AnnounceOther
  Waiters = {c1}
  MaxBacklog = 2
  MaxResets = 0
PROPERTIES
  PipelineDrains
  WaiterAnswered
\* The scenario is finite: the connections of Conn are used once each.
CHECK_DEADLOCK FALSE
