SPECIFICATION FairSpec
CONSTANTS
  Subs = {s1}
  Notices = {n1, n2}
  Requests = {r1, r2}
  None = None
  Levels = {"INFO", "WARNING"}
  MaxFaults = 1
INVARIANTS AckedIsRecorded StatusBacked RecordedIsAudited
PROPERTY PaymentsSettle
CHECK_DEADLOCK FALSE
