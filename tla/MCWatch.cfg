SPECIFICATION WatchSpec
CONSTANTS
  Streams = {s1}
  StreamOrgs = {g1, g2}
  MaxTime = 6
  StreamTTL = 3
  Revalidation = 1
  Cooldown = 2
  DeepInterval = 2
  MaxFaults = 2
  MaxDeploys = 1
  WatchedFault = {"endpoint"}
INVARIANTS ProbesReport
PROPERTIES LapsedStreamEnds OutageEnds
CHECK_DEADLOCK FALSE
