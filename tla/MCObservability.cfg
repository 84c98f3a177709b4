CONSTANTS
  NRecords = 2
  QueueSize = 2
  BatchSize = 2
  Earlier = {0}
  Operators = {o1}
  Fingerprints = {"f1"}
  Fingerprint <- MCFingerprint
  None = None

SPECIFICATION Spec
INVARIANTS
  Accounted
  CountsWithin
  ResolvedIsQuiet
  OneFirst
PROPERTY Flushed
CHECK_DEADLOCK FALSE
