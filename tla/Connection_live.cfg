\* A peer that shares one folder, which is configured, and one connection.
SPECIFICATION FairSpec
CONSTANTS
  f1 = f1  f2 = f2
  Folder = {f1}
  Configured = {f1}
  MaxAttempts = 1
  Received = {"clusterConfig", "fatal"}
  MaxCuts = 1
  MaxSends = 1
PROPERTIES
  ConnectWoken
  SendsComplete
  CloseIsReported
\* A closed connection stops.
CHECK_DEADLOCK FALSE
