\* A file of two blocks and one other range, two requests, one hash the file
\* does not have.
SPECIFICATION FairSpec
CONSTANTS
  b1 = b1  b2 = b2  p = p  x = x
  Block = {b1, b2}
  Piece = {p}
  Foreign = {x}
  MaxRequests = 2
  MaxRecords = 1
INVARIANTS
  UploadedIsHeld
  ProgressIsSent
  OneResponse
PROPERTIES
  SleeperWoken
\* A closed upload stops, and a missed notification is not repeated.
CHECK_DEADLOCK FALSE
