SPECIFICATION Spec
CONSTANTS
  g1 = g1
  g2 = g2
  h1 = h1
  h2 = h2
  none = none
  Devices <- TwoDevices
  NoDevice <- none
  Handlers <- OneHandler
  WatchdogSeconds = 1
  MaxMissedHeartbeats = 1
  Prompt = FALSE
  MaxTime = 4
  MaxHeartbeats = 2
INVARIANTS
  EveryNewGatewayRegistered
\* The instance stops at MaxTime and MaxHeartbeats.
CHECK_DEADLOCK FALSE
