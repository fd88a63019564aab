SPECIFICATION FairSpec
CONSTANTS
  n1 = n1
  n2 = n2
  n3 = n3
  n4 = n4
  none = none
  Notifications <- FourNotifications
  Addressed <- WithDestination
  NotificationChanSize = 1
  NoNotification <- none
INVARIANTS
  TypeOK
  EachInOnePlace
  PostedInOrder
  ReachesAtMostOnce
PROPERTIES
  ImplementsDelivery
\* The instance stops when every notification is settled.
CHECK_DEADLOCK FALSE
