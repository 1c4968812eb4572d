\* Two paths, every order of records, a restart or a clear at any point, a
\* browser that is opened and closed.
SPECIFICATION Spec
CONSTANTS
  p1 = p1  p2 = p2
  Path = {p1, p2}
  NoPath = NoPath
  MaxTime = 2
  MaxResets = 2
SYMMETRY Paths
INVARIANTS
  BlocksCoverInfo
  StatsExact
  ShownIsCurrent
\* The bound on resets and times ends every behaviour.
CHECK_DEADLOCK FALSE
