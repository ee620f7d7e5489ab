CONSTANTS
  MaxSeconds = 3
  MaxTries = 4
  NS = 4
  Max64 = 5
  Max32 = 9
  ChronoBefore = 4
  ChronoMax = 4
  ChronoSpan = 4
  Services <- MCServices
  Component <- MCComponent
  MaxWiths = 3
  Tasks = {"t1", "t2"}
  Callers = {"c"}
  Threads = {"h"}
  MaxCalls = 2
  small = small
  large = large
  Names = {c1, c2}
  Networks = {small, large}
  Size <- MCSize
  LastTried = 3
  MaxAdded = 3
  MaxSetters = 2
  ImageConfigs <- MCImageConfigs
  Ports = {"80"}
  Paths <- MCPaths
  MaxNumber = 1
  MaxChanges = 3
SPECIFICATION Spec
INVARIANT BypassLeavesImagePortsOut
CHECK_DEADLOCK FALSE
