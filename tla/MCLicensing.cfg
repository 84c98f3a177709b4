SPECIFICATION Spec
CONSTANTS
  Keys = {k1, k2}
  Issuers = {i1, i2}
  Checkers = {c1, c2}
  None = None
  Levels = {"INFO", "WARNING", "ERROR"}
  MaxAttempts = 2
  MaxRuns = 1
  MaxFaults = 1
INVARIANTS PoolKeyOnce NothingLost RunsBounded
SYMMETRY Symmetry
CHECK_DEADLOCK FALSE
