CONSTANTS
  Procs = {p1, p2}
  Disconnectors = {p1, p2}
  Targets = {t1, t2}
  Unusable = {}
  DiscoveryNqn = discovery_nqn
  Garbage = garbage
  Free = free
  MaxInstance = 1
  MaxPolls = 2
  MaxOps = 3
  MaxExports = 1
  MaxGrowth = 1
  MaxLosses = 1
SPECIFICATION FairSpec
INVARIANTS NvmfInv
PROPERTIES DeletesWhatItNamed ConnectsUpToAnError SubsystemIsTheConnected
   OperationsEnd
CHECK_DEADLOCK FALSE
