SPECIFICATION FairServerSpec
CONSTANTS
  r1 = r1
  r2 = r2
  data = data
  nil = nil
  none = none
  Requests <- TwoRequests
  Alerts <- TwoAlerts
  NoAlert <- none
  NoData <- nil
  NotificationChanSize = 0
  HasDestination = TRUE
  Files <- SomeFiles
INVARIANTS
  ServerTypeOK
  StatusTellsHandover
  DrainedCompletely
PROPERTIES
  ExitsAfterInterrupt
  EveryRequestAnswered
  AcceptedIsSettled
  ImplementsHandling
\* The process ends.
CHECK_DEADLOCK FALSE
