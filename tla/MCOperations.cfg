SPECIFICATION OperationsSpec
CONSTANTS
  Dests = {"telegram", "healthchecks"}
  Hour = 2
  MaxAlertTime = 4
  ReminderLag = 1
  Databases = {d1, d2}
  MaxBackups = 2
  Deployers = {d1, d2}
  MaxRelease = 2
  MaxMishaps = 1
  MaxStarts = 1
  Units = {u1, u2}
  MaxInstalls = 3
  Calls = {c1, c2}
  CallLimit = 1
  CallBudget = 5
  MaxCallTime = 7
  NewsRuns = {w1, w2}
  NewsBatches <- BatchesOf
  MaxEntries = 5
  BreakAfter = 2
  BreakFor = 2
  MaxNewsCalls = 4
  MaxNewsTime = 3
  Gets = {g1, g2}
  TokenLife = 2
  MaxEpoch = 3
  WindowLife = 2
  MaxUmamiTime = 4
  Addresses = {a1, a2}
  RateLimit = 2
  RateWindow = 2
  MaxBuckets = 1
  MaxRateTime = 4
  MaxRequests = 6
  Reads = {r1, r2, r3}
  ReadCapacity = 2
  Posts = {"p1", "p2"}
  Batch <- BatchOf
  Minute = 1
  Quota = 2
  MaxPostTime = 6
  OldTargets = {1, 2, 3}
  ShownDays = 4
  KeptDays = 4
  PageRows = 2
  MaxMoment = 7
  Members = {m1, m2}
  SignIns = {s1, s2}
  MaxInstant = 5
  MaxLogins = 2
  Retained = 2
  FactOrders = {"o1", "o2", "o3"}
  FactTrades = {t1}
  OrgOf <- OwnerOf
  SideOf <- BookSide
  ClassOf <- OriginOf
  CacheTTL = 2
  CacheSize = 1
  Queries = {q1, q2}
  Readers = {r1, r2}
INVARIANTS  ReleaseWhole LimitsHonest
PROPERTIES GuardedForward ProvidersSpared 
CHECK_DEADLOCK FALSE
