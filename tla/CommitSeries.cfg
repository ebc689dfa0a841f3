CONSTANTS
  Paths = {p1, p2}
  Blobs = {b1, b2}
  Absent = Absent
  MaxCommits = 3
  Relocations = {"moved", "copied"}
  Unedited = FALSE
  Uncomputed = Uncomputed
  NoRevision = NoRevision
  Failed = Failed
SPECIFICATION Spec
SYMMETRY Symmetry
INVARIANTS
  NeverRefused
  KeptAncestorsTrue
  Rebuilt
  RangeShowsTip
  RangeStartsAtBase
CHECK_DEADLOCK FALSE
