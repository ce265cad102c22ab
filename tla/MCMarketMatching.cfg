SPECIFICATION FairSpec
CONSTANTS
  g1 = g1
  g2 = g2
  g3 = g3
  i1 = i1
  c1 = c1
  c2 = c2
  Orgs = {g1, g2, g3}
  Items = {}
  OwnerOf <- MCOwnerOf
  Certs = {c1, c2}
  AnyCert = AnyCert
  KeepCert = KeepCert
  NoOrg = NoOrg
  NoItem = NoItem
  MaxOrders = 3
  MaxTrades = 2
  MaxQty = 2
  MinLot = 1
  Prices = {1, 2}
  MaxClock = 0
  MaxDelay = 0
  MaxOrdinal = 4
  MaxCrossing = 2
  MaxExpiry = 1
  MaxInvalidation = 2
  Expiries = {0}
  Amendments <- MCMatchingAmendments
  BidCerts = {c1}
  Bidders = {g1}
  Askers = {g2, g3}
  Hitters = {}
  Sizes = {1, 2}
  Deliveries = {}
  StockLevels = {}
  RevocableUsers <- MCNoPrincipals
  RevocableOrgs = {}
  AutoMatching = TRUE
PROPERTIES NoTradeThrough 
