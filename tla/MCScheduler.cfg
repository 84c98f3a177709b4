SPECIFICATION FairSpec
CONSTANTS
  Jobs = {j1, j2}
  Types = {t1}
  Workers = {w1, w2}
  None = None
  Handled = {j1}
  DueQuery = TRUE
  Levels = {"DEBUG", "INFO", "WARNING", "ERROR"}
  MaxRetries = 2
  Limit = 2
  Stale = 3
  Base = 1
  Cap = 1
  Interval = 1
  JobMax = 1
  TickMax = 2
  MaxFaults = 1
INVARIANTS ClaimedOnce CallsBounded
PROPERTIES ImplementsQueue JobsSettle RecursForever
