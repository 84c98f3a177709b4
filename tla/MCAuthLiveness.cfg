SPECIFICATION AgedSpec
CONSTANTS
  Users = {u1}
  Old = t1
  New = t2
  Tokens = {t1, t2, t3}
  Requests = {r1, r2}
  None = None
  TTL = 3
  Retention = 0
  MaxFails = 1
  Lockout = 1
  MaxTime = 5
PROPERTY RequestsReturn
