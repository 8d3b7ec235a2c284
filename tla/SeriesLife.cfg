SPECIFICATION MCSpec
CONSTANTS
  None = None
  Series = {1}
  Patchers = {p1}
  Deleters = {d1}
  Crons = {c1}
  Step = 2
  Limit = 2
  Horizon = 4
  Threshold = 2
  BatchLimit = 1
  Counts = {3}
  Starts = {0}
  NoTime = {}
  OrganizerRequired = FALSE
  WritesFail = TRUE
  Exclusive = TRUE
  MaxDay = 2
  MaxRev = 2
  MaxEdits = 1
  FirstMonth = 276
  LastMonth = 311
  RuleStarts = {8762, 8765, 8766, 8774, 8825, 8856, 8932, 9070}
  RuleCounts = {0, 1, 5, 13}
CHECK_DEADLOCK FALSE
INVARIANTS TypeOK SeriesIntact  DatesFollowRule 
PROPERTIES PastPreserved
