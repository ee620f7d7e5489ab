CONSTANTS
  MaxEvents = 2
  StreamLimit = 1
  Capacity = 1
  MaxRetries = 1
  Unpublishable = {}
  Straggling = FALSE
  MaxLosses = 1
  MaxAckPending = 1
  Unparsable = {}
  MaxInbox = 1
  MaxCrashes = 1
SPECIFICATION Spec
PROPERTIES EndToEnd
CHECK_DEADLOCK FALSE
