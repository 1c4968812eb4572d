\* One waiting thread, a file with a repeated block, any answers of the peer.
SPECIFICATION FairSpec
CONSTANTS
  h1 = h1  h2 = h2  h3 = h3  None = None
  Hash = {h1, h2, h3}
  HashList <- RepeatedBlock
  Waiter = {w1}
  CloseConnection = TRUE
INVARIANTS
  BlocksPartitioned
  MissingIsRequested
PROPERTIES
  SleeperWoken
\* A thread may wait for ever: see the README.
CHECK_DEADLOCK FALSE
