SPECIFICATION DeskSpec
CONSTANTS
  Tabs = {a1, a2}
  Clients = {c1}
  MaxContexts = 2
  BidPrices = {1, 2}
  MaxCrossing = 1
  WatchTabs = {t1, t2}
  PinTabs = {t1}
  WatchOrders = {o1, o2}
  WatchPrices = {1, 2}
  WatchQuantity = 2
  WatchTimes = {1, 2}
  MaxWatchLog = 4
  PageSize = 2
  ViewRows = {1, 2, 3}
  ToldRows = {1}
  ViewPrices = {1, 2}
  Depth = 1
  MarkTrades = {t1, t2}
  CurveTrades = {t1}
  QuoteKinds <- KindsOf
  References = {"band"}
  Lookback = 2
  MaxMarkTime = 4
  Ingests = {"w1", "w2"}
  File <- FileOf
  PartOf <- SideOfEvent
  SeedEvents = {5, 6}
  FocusLimit = 2
  QOrders = {q1, q2}
  MaxVersion = 1
  Rfqs = {r1, r2}
  Traders = {m1, m2}
  Runners = {w1, w2}
  MaxTicks = 3
  DemoCap = 1
INVARIANTS AssistanceBounded  ViewsAgree 
PROPERTIES HitAsReviewed 
SYMMETRY OrdersAlike
CHECK_DEADLOCK FALSE
