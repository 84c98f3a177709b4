SPECIFICATION Spec
CONSTANTS
  Users = {u1}
  Tokens = {t1, t2, t3}
  Requests = {r1, r2}
  None = None
  TTL = 1
  Retention = 0
  MaxFails = 1
  Lockout = 1
  MaxTime = 1
PROPERTY ReplayKillsFamily
