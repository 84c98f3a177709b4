SPECIFICATION FairSpec
CONSTANTS
  Events = {e1, e2}
  Keys = {k1, k2}
  Receivers = {p1, p2}
  Workers = {w1, w2}
  None = None
  Handled = {k1}
  Levels = {"DEBUG", "INFO", "WARNING", "ERROR"}
  MaxRetries = 2
  Limit = 2
  Base = 1
  Cap = 2
  Window = 1
  MaxFaults = 1
INVARIANTS DoneOncePerRow AckedIsPersisted
PROPERTIES ImplementsQueue EventsSettle
