CONSTANTS
  MaxEvents = 3
  StreamLimit = 2
  MaxRetries = 1
  MaxAckPending = 1
  Unparsable = {3}
  MaxInbox = 2
  MaxCrashes = 1
  MaxCopies = 1
  MaxLosses = 1
SPECIFICATION FairSpec
INVARIANTS SubscriberInv
PROPERTIES HandedInOrder DeliveredUnlessLost
CHECK_DEADLOCK FALSE
