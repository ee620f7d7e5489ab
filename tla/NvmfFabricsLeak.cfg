CONSTANTS
  Procs = {p1}
  Disconnectors = {}
  Targets = {t1, t2}
  Unusable = {}
  DiscoveryNqn = discovery_nqn
  Garbage = garbage
  Free = free
  MaxInstance = 2
  MaxPolls = 1
  MaxOps = 2
  MaxExports = 1
  MaxGrowth = 0
  MaxLosses = 0
SPECIFICATION Spec
INVARIANTS ClosedBeforeConnect
CHECK_DEADLOCK FALSE
