CONSTANTS
  v1 = v1
  v2 = v2
  c1 = c1
  c2 = c2
  Workers = {w1, w2}
  Reviews = {v1, v2}
  Comments = {c1, c2}
  ReviewOf <- Drafts
  Guarded = {c1}
  Extended = TRUE
  NoStatus = NoStatus
  NoComment = NoComment
  MaxDrift = 0
SPECIFICATION Spec
CONSTRAINT Bounded
SYMMETRY Symmetry
INVARIANTS
  CountsExact
  ClosedByVerifier
PROPERTIES
  PublishedReviewKept
CHECK_DEADLOCK FALSE
