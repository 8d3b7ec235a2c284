SPECIFICATION Spec
CONSTANTS
  Subs = {s1}
  Deliveries = {d1, d2}
  Events = {e1}
  NoEvent = NoEvent
  None = None
  Unsigned = {}
  Dispatchers = {x1}
  Workers = {w1, w2}
  Crons = {c1}
  MaxRetries = 3
  MaxFailures = 1
  BatchLimit = 1
  SerialCron = TRUE
  WritesFail = FALSE
  MayCrash = FALSE
SYMMETRY Symmetry
CHECK_DEADLOCK FALSE
INVARIANTS
  TypeOK
  NothingLost
PROPERTIES
  ContractSpec
