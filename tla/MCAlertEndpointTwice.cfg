SPECIFICATION Spec
CONSTANTS
  r1 = r1
  r2 = r2
  data = data
  nil = nil
  none = none
  Requests <- TwoRequests
  Alerts <- TwoAlerts
  NoAlert <- none
  NoData <- nil
  NotificationChanSize = 0
  HasDestination = TRUE
INVARIANTS
  AnsweredOnce
\* The instance stops when both requests have been handled.
CHECK_DEADLOCK FALSE
