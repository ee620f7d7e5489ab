CONSTANTS
  Names = {a, b}
  Networks = {n1, n2}
  None = none
  Free = free
  Flags <- MCFlags
  Repeated = {a}
  MaxBuilds = 1
SPECIFICATION Spec
INVARIANTS CreatedIsCleaned
CHECK_DEADLOCK FALSE
