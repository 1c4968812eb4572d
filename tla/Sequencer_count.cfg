\* Two uploads, three numbers, the tables made twice, two stops.
SPECIFICATION SequencerSpec
CONSTANTS
  u1 = u1  u2 = u2
  Upload = {u1, u2}
  Start = {1, 2}
  MaxNumbers = 3
  MaxInits = 2
  MaxStops = 2
SYMMETRY Symmetry
INVARIANTS
  SequencesGrow
PROPERTIES
  AnnouncedCovers
\* The bounds end a run.
CHECK_DEADLOCK FALSE
