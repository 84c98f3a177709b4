CONSTANTS
  RateCallers = {c1, c2}
  Capacity = 2
  Window = 2
  MaxClock = 5
  MaxChecks = 4
  Keys = {"k1", "k2"}
  Workers = {w1}
  Purges = {p1, p2}
  MaxVersion = 1
  Requests = {r1, r2, r3}
  Orders <- MCOrders
  ApiKeys = {k1}
  AdminCalls = {a1, a2, a3, a4}
  Calls = {s1}
  MaxProjects = 2
  LlmCallers = {l1, l2, l3}
  MaxRetries <- MCMaxRetries
  Limit = 3
  MaxTokens = 2
  Upserts = {u1, u2, u3}
  Contents = {"a", "b"}
  Files = {f1, f2}
  Deletions = {d1, d2}
  Levels = {"INFO", "WARNING", "ERROR"}
  Checks = {h1}
  Polls = {q1, q2, q3}
  CacheSeconds = 1
  CheckTimeout = 1
  MaxTime = 3
  Samples <- MCSamples
  None = None

SPECIFICATION Spec
INVARIANTS
  RateBound
  StaleOnlyByOverlap
  EnvSafe
  LlmCallsSafe
  TokensCurrent
  OrphansExplained
  AnswersFresh
  AlgorithmsCorrect
PROPERTY RequestsEnd
CHECK_DEADLOCK FALSE
