SPECIFICATION Spec
CONSTANTS
  WordSize = 16777216
  Numbers = {0, 1, 2, 150}
  MaxPre = 2
  Base = 151
INVARIANTS
  StatusFollowsPrecedence
  LagMeasuresOutdated
CHECK_DEADLOCK FALSE
