SPECIFICATION HistorySpec
CONSTANTS
  Members = {m1, m2}
  SignIns = {s1}
  MaxInstant = 1
  MaxLogins = 1
  Retained = 2
  FactOrders = {"o1"}
  FactTrades = {t1}
  OrgOf <- OwnerOf
  SideOf <- BookSide
  ClassOf <- OriginOf
  CacheTTL = 2
  CacheSize = 1
  Queries = {q1}
  Readers = {r1}
INVARIANT StatusHistoryTrue
