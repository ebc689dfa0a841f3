CONSTANTS
  Checks = {c1}
  Absent = Absent
  Deleted = Deleted
  Null = Null
  Written <- SomeRows
  MaxPolls = 2
  Timeout = 2
  MaxTime = 4
SPECIFICATION FairPageSpec
CONSTRAINT OverlapEarly
INVARIANTS
  OnlyWhileWatched
PROPERTY CompletedShown
CHECK_DEADLOCK FALSE
