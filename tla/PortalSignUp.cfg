SPECIFICATION SignUpSpec
CONSTANTS
  Emails = {m1}
  Null = Null
  Registers = {r1, r2}
  Visits = {v1, v2}
SYMMETRY Symmetry
CHECK_DEADLOCK FALSE
INVARIANTS
  SignUpTypeOK
  OneCode
  CodeHonoured
  WholeOrNothing
