\* One file of up to four lines in each revision, every way in which the
\* two can differ and every choice of the lines that each diff wrote.
CONSTANT MaxLines = 4
SPECIFICATION FilterSpec
INVARIANTS
  Tiled
  ChangesKept
  UpstreamFiltered
PROPERTY Progress
CHECK_DEADLOCK FALSE
