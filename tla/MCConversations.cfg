SPECIFICATION Spec
CONSTANTS
  b1 = b1  s1 = s1  c1 = c1  c2 = c2
  Clients = {c1, c2}
  Users = {b1, s1}
  Orgs = {"fleet", "plant"}
  OrgOf <- Company
  RoleOf <- Side
  Slices = {1}
  ProductOf <- OneProduct
  Prices = {1}
  Lifetime = 1
  MaxRounds = 2
  MaxNegotiations = 2
  MaxRfqs = 1
  MaxClock = 1
  Makers = {s1}
  RevocableUsers = {b1}
  RevocableOrgs = {"plant"}
  NoUser = NoUser
INVARIANTS TurnsAlternate 
PROPERTIES QuotesFollowRfq DeclineIsFinal ProposesWhileAdmitted
SYMMETRY MCClients
