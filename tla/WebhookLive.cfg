SPECIFICATION FairSpec
CONSTANTS
  Subs = {s1}
  Deliveries = {d1}
  Events = {e1}
  NoEvent = NoEvent
  None = None
  Unsigned = {}
  Dispatchers = {x1}
  Workers = {w1, w2}
  Crons = {c1}
  MaxRetries = 2
  MaxFailures = 2
  BatchLimit = 50
  SerialCron = FALSE
  WritesFail = FALSE
  MayCrash = FALSE
PROPERTIES
  EveryDeliverySettles
CHECK_DEADLOCK FALSE
