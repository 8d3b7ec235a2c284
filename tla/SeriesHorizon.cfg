SPECIFICATION FairSpec
CONSTANTS
  None = None
  Series = {1}
  Patchers = {p1}
  Deleters = {d1}
  Crons = {c1}
  Step = 2
  Limit = 2
  Horizon = 4
  Threshold = 2
  BatchLimit = 1
  Counts = {0}
  Starts = {0}
  NoTime = {}
  OrganizerRequired = TRUE
  WritesFail = FALSE
  Exclusive = TRUE
  MaxDay = 2
  MaxRev = 0
  MaxEdits = 0
CHECK_DEADLOCK FALSE
PROPERTIES HorizonKept
