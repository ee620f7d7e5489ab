CONSTANTS
  MaxEvents = 3
  StreamLimit = 2
  MaxRetries = 1
  MaxAckPending = 1
  Unparsable = {2}
  MaxInbox = 2
  MaxCrashes = 0
  MaxCopies = 1
  MaxLosses = 1
SPECIFICATION FairSpec

PROPERTIES Delivered
CHECK_DEADLOCK FALSE
