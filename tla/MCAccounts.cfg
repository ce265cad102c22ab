SPECIFICATION AccountsSpec
CONSTANTS
  u1 = u1  u2 = u2  o1 = o1  o2 = o2  p1 = p1  p2 = p2
  Users = {u1, u2}
  Managed = {u1}
  Devices = {b1}
  MaxTokens = 3
  MaxClock = 3
  Grace = 1
  AccessTTL = 1
  RefreshTTL = 2
  ResetTTL = 1
  Retention = 1
  People = {p1, p2}
  Companies = {o1, o2}
  Domain <- DomainOf
  Founded = {o2}
  Registrations = {r1}
  Mailers = {w1, w2}
  MaxDecisions = 2
  MaxMailTime = 4
  ClaimTime = 1
  RetryTime = 2
  Timers = {w1, w2}
  Expiries = {4, 8}
  LeadTime = 4
  LeaseTime = 1
  RetryWindow = 2
  KeyLife = 3
  MaxRemindTime = 3
  Candidates = {c1}
INVARIANTS RevocationComplete  UndeliveredIsScheduled RemindedOnce 
PROPERTIES RotationSound
CHECK_DEADLOCK FALSE
