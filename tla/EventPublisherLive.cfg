CONSTANTS
  MaxEvents = 3
  StreamLimit = 1
  Capacity = 1
  MaxRetries = 1
  Unpublishable = {2}
  Straggling = TRUE
  MaxLosses = 1
SPECIFICATION FairSpec
PROPERTIES TaskSettles ImplementsDelivery
CHECK_DEADLOCK FALSE
