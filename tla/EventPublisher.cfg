CONSTANTS
  MaxEvents = 4
  StreamLimit = 2
  Capacity = 2
  MaxRetries = 2
  Unpublishable = {3}
  Straggling = FALSE
  MaxLosses = 1
SPECIFICATION Spec
INVARIANTS PublisherInv OrderInv AckedWasStored AckedSurvives
CHECK_DEADLOCK FALSE
