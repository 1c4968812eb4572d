\* Two records written, three navigations.
SPECIFICATION FairSpec
CONSTANTS
  MaxWrites = 2
  MaxNavigations = 3
INVARIANTS
  CachedIsFresh
  JobsHaveTasks
PROPERTIES
  WaiterReleased
\* A user that is done stops; one whose preload threw waits for ever.
CHECK_DEADLOCK FALSE
