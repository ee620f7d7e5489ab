CONSTANTS
  Names = {a, b}
  Networks = {n1, n2}
  None = none
  Free = free
  Flags <- MCFlags
  Repeated = {a}
  MaxBuilds = 2
SPECIFICATION FairSpec
INVARIANTS ExperimentInv
PROPERTIES PrunedIsAlone DropCleans LeavesOthersAlone BuildsAndDropsReturn
CHECK_DEADLOCK FALSE
