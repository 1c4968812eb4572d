\* Two bytes, in one direction or one each way; failures and close at any time.
SPECIFICATION FairSpec
CONSTANTS
  MaxBytes = 2
  SeqWidth = 3
INVARIANTS
  NothingLostOutward
  NothingLostInward
PROPERTIES
  ToDeviceIsStream
  FromDeviceIsStream
  WrittenArrives
  ReaderReleased
  SessionEnds
\* A closed connection stops.
CHECK_DEADLOCK FALSE
