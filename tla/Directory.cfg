SPECIFICATION MCSpec
CONSTANTS
  Orgs = {o1}
  Accounts = {a1, a2}
  Keys = {k1, k2}
  Admins = {k1}
  Trusted = {k1}
  Apps = {p1, p2}
  Ids = {i1, i2}
  Personal = {i2}
  Challenges = {c1, c2}
  Reviews = {v1, v2}
  Broadcasts = {b1}
  Places = {g1}
  Items = {1}
  Events = {1, 2, 3}
  Series = {s1}
  Horizon = 2
  Limit = 1
  OverFetch = 3
  RssFetch = 2
  MaxStamp = 2
  Positions = {1, 2}
  Requests = {r1, r2}
  None = None
  MaxAttempts = 2
SYMMETRY Symmetry
VIEW View
CHECK_DEADLOCK FALSE
INVARIANTS
  FeedTypeOK
  ChallengeHolds
  VerifiedIsPromoted
  ReviewsAgree
  ClaimOnce
  WalkIsTheList
  CaughtUp
  
