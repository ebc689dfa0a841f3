CONSTANTS
  v1 = v1
  v2 = v2
  v3 = v3
  Workers = {w1, w2}
  Reviews = {v1, v2, v3}
  Leftovers <- Three
  Comments = {c1, c2}
  Contents <- Text
  Unborn = Unborn
  Deleted = Deleted
  MaxCrashes = 1
SPECIFICATION Spec
CONSTRAINT Unharmed
SYMMETRY Symmetry
INVARIANTS
  CommentsKept
  Consolidated
PROPERTIES
  PublishedKept
CHECK_DEADLOCK FALSE
