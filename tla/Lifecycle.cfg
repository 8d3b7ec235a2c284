SPECIFICATION MCSpec
CONSTANTS
  Events = {e1}
  None = None
  Patchers = {p1, p2}
  Senders = {x1, x2, x3}
  Attachers = {a1, a2}
  Removers = {r1}
  Verifiers = {v1}
  BatchSize = 1
  MaxRev = 4
  FewRevs = 2
CHECK_DEADLOCK FALSE
INVARIANTS
  TypeOK
  
  

  
