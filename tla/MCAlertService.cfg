SPECIFICATION FairServiceSpec
CONSTANTS
  g1 = g1
  h1 = h1
  h2 = h2
  nobody = nobody
  none = none
  Devices <- OneDevice
  NoDevice <- nobody
  Handlers <- TwoHandlers
  WatchdogSeconds = 1
  MaxMissedHeartbeats = 1
  Prompt = TRUE
  MaxTime = 4
  MaxHeartbeats = 2
  Events <- SomeEvents
  HeartbeatDestination = TRUE
  AlertDestination = TRUE
  MaxEvents = 2
  MaxRaised = 2
INVARIANTS
  ServiceTypeOK
  FirstReadingDecides
  CloudTellsStatus
  DetectionDeadline
PROPERTIES
  HeartbeatsAreForwarded
\* The instance stops at MaxTime and MaxEvents.
CHECK_DEADLOCK FALSE
