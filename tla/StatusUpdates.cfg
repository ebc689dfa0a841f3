CONSTANTS
  Checks = {c1}
  Workers = {w1, w2}
  Idle = Idle
  Absent = Absent
  Deleted = Deleted
  Answers <- Reported
  Timeout = 2
  MaxRuns = 3
  MaxTime = 8
SPECIFICATION Spec
SYMMETRY Symmetry
INVARIANTS
  AnswersStored
  RunsOnce
PROPERTY ImplementsTable
CHECK_DEADLOCK FALSE
