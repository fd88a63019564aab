SPECIFICATION FairSpec
CONSTANTS
  g1 = g1
  g2 = g2
  h1 = h1
  h2 = h2
  none = none
  Devices <- OneDevice
  NoDevice <- none
  Handlers <- TwoHandlers
  WatchdogSeconds = 1
  MaxMissedHeartbeats = 2
  Prompt = FALSE
  MaxTime = 5
  MaxHeartbeats = 3
INVARIANTS
  TypeOK
  WatchdogActsOnRegistered
  MissesAreSpaced
  AlertsTellStatus
  SeenTimesOrdered
PROPERTIES
  ImplementsRegistration
\* The instance stops at MaxTime and MaxHeartbeats.
CHECK_DEADLOCK FALSE
