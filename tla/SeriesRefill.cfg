SPECIFICATION MCFairSpec
CONSTANTS
  None = None
  Series = {1, 2}
  Patchers = {p1}
  Deleters = {d1}
  Crons = {c1}
  Step = 2
  Limit = 2
  Horizon = 4
  Threshold = 2
  BatchLimit = 1
  Counts = {0, 3}
  Starts = {0}
  NoTime = {}
  OrganizerRequired = FALSE
  WritesFail = FALSE
  Exclusive = TRUE
  MaxDay = 2
  MaxRev = 1
  MaxEdits = 0
  FirstMonth = 276
  LastMonth = 311
  RuleStarts = {8766}
  RuleCounts = {1}
CHECK_DEADLOCK FALSE
PROPERTIES HorizonKept
