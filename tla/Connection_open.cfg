\* A peer that shares two folders, both new.
SPECIFICATION Spec
CONSTANTS
  f1 = f1  f2 = f2
  Folder = {f1, f2}
  Configured = {}
  MaxAttempts = 2
  Received = {"clusterConfig"}
  MaxCuts = 1
  MaxSends = 0
INVARIANTS
  NewFolderAnnounced
  OpenIsListed
PROPERTIES
  WireIsStream
\* A closed connection stops.
CHECK_DEADLOCK FALSE
