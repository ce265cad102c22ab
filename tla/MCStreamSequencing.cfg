SPECIFICATION FairSpec
CONSTANTS
  w1 = w1  w2 = w2  c1 = c1  g1 = g1  g2 = g2
  NoWorker = NoWorker
  Workers = {w1, w2}
  Events = {1, 2}
  Clients = {}
  Orgs = {g1, g2}
  OrgOf <- MCOrgOf
  Participants <- MCParticipants
  Marked = {1}
  BatchSize = 2
  QueueSize = 1
  MaxFaults = 2
INVARIANTS AssignmentFenced 
PROPERTIES VisibleMaxGrows EventuallySequenced
CHECK_DEADLOCK FALSE
