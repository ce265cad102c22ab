SPECIFICATION FairSpec
CONSTANTS
  w1 = w1  w2 = w2  c1 = c1  g1 = g1  g2 = g2
  NoWorker = NoWorker
  Workers = {w1}
  Events = {1, 2, 3}
  Clients = {c1}
  Orgs = {g1, g2}
  OrgOf <- MCOrgOf
  Participants <- MCParticipants
  Marked = {}
  BatchSize = 2
  QueueSize = 1
  MaxFaults = 1
INVARIANTS NothingSlips
PROPERTIES FollowsLog DeliveredOrClosed
CHECK_DEADLOCK FALSE
