CONSTANTS
  r1 = r1
  r2 = r2
  v1 = v1
  v2 = v2
  ReviewRequests = {r1, r2}
  Reviews = {v1, v2}
  About <- AboutThem
  Batches = {b1, b2}
  Idle = Idle
  MaxDrafts = 2
SPECIFICATION Spec
SYMMETRY Symmetry
CONSTRAINT Followed
INVARIANTS
  
  AllSent
  Undisturbed
PROPERTY PublishedInOrder
CHECK_DEADLOCK FALSE
