CONSTANTS
  Requests = {r1, r2}
  Workers = {w1, w2}
  Commits = {c1, c2}
  Numbers = {c1}
  None = None
  NoDraft = NoDraft
  Absent = Absent
  Deleted = Deleted
  Idle = Idle
SPECIFICATION Spec
CONSTRAINT Apart
SYMMETRY Symmetry
INVARIANTS
  OneClaim
  NeverRefused
  CreationCompletes
  NothingLeft
CHECK_DEADLOCK FALSE
