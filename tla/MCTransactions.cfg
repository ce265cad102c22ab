SPECIFICATION FairSpec
CONSTANTS
  d1 = d1  d2 = d2
  Deliveries = {d1, d2}
  Catalogue <- AllCommands
  Users = {1, 2, 3}
  Orgs = {1, 2, 3}
  Slices = {1}
  Trades = {1}
  Orders = {1, 2}
  Items = {1}
  Keys = {1, 2, 3, 4, 5, 6, 7}
  NoKey = 0
  Bodies = {"b1", "b2"}
  MaxAttempts = 2
PROPERTIES Linearized EveryDeliveryEnds
CHECK_DEADLOCK FALSE
