CONSTANTS
  Histories = {h1, h2}
  Workers = {w1, w2}
  MaxFiles = 4
  Idle = Idle
  NoDraft = NoDraft
  None = None
SPECIFICATION Spec
SYMMETRY Symmetry
CONSTRAINT Apart
INVARIANTS
  FilesKept
  NewestShown
  DiscardedStayAway
CHECK_DEADLOCK FALSE
