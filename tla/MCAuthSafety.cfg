SPECIFICATION Spec
CONSTANTS
  Users = {u1}
  Tokens = {t1, t2, t3}
  Requests = {r1, r2}
  None = None
  TTL = 1
  Retention = 0
  MaxFails = 2
  Lockout = 1
  MaxTime = 3
SYMMETRY Symmetry
INVARIANTS OneLivePerFamily CounterExact
PROPERTIES LockoutHolds IssueToActive ReplayKillsMatched ImplementsFamilies
