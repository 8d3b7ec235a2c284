SPECIFICATION Spec
CONSTANTS
  Subs = {s1, s2}
  Deliveries = {d1}
  Events = {e1}
  NoEvent = NoEvent
  None = None
  Unsigned = {s2}
  Dispatchers = {x1}
  Workers = {w1, w2}
  Crons = {c1}
  MaxRetries = 2
  MaxFailures = 2
  BatchLimit = 50
  SerialCron = FALSE
  WritesFail = TRUE
  MayCrash = TRUE
SYMMETRY Symmetry
INVARIANTS
  ActiveBelowThreshold
  AttemptsWithinLimit
  DeliveredWasAcked
CHECK_DEADLOCK FALSE
