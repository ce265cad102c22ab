SPECIFICATION Spec
CONSTANTS
  g1 = g1
  g2 = g2
  g3 = g3
  i1 = i1
  c1 = c1
  c2 = c2
  Orgs = {g1, g2}
  Items = {i1}
  OwnerOf <- MCOwnerOf
  Certs = {c1}
  AnyCert = AnyCert
  KeepCert = KeepCert
  NoOrg = NoOrg
  NoItem = NoItem
  MaxOrders = 2
  MaxTrades = 2
  MaxQty = 2
  MinLot = 1
  Prices = {1}
  MaxClock = 1
  MaxDelay = 1
  MaxOrdinal = 3
  MaxCrossing = 1
  MaxExpiry = 1
  MaxInvalidation = 2
  Expiries = {0}
  Amendments <- MCLedgerAmendments
  BidCerts = {AnyCert}
  Bidders = {g2}
  Askers = {}
  Hitters = {g2}
  Sizes = {1, 2}
  Deliveries = {1}
  StockLevels = {2}
  RevocableUsers <- MCBuyer
  RevocableOrgs = {g1, g2}
  AutoMatching = TRUE
INVARIANTS LedgerBalances
PROPERTIES NeverRevived BindingOnlyBetweenEligible
