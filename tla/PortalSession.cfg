SPECIFICATION MCSpec
CONSTANTS
  Links = {l1, l2}
  Sessions = {s1, s2}
  Codes = {c1}
  Requests = {r1, r2}
  None = None
  MaxAttempts = 3
  MaxStep = 2
SYMMETRY Symmetry
VIEW View
CHECK_DEADLOCK FALSE
INVARIANTS
  TypeOK
  LinkOnce
  
  ThrottleHolds
  LogoServed
