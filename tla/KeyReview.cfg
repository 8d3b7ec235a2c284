SPECIFICATION MCSpec
CONSTANTS
  Keys = {k1}
  Orgs = {o1, o2}
  Domains = {d1, d2}
  Requests = {r1, r2}
  None = None
  MaxSubs = 2
SYMMETRY Symmetry
CHECK_DEADLOCK FALSE
INVARIANTS
  TypeOK
  EquippedWhenApproved
  
  SubscriptionLimit
  DomainsAgree
