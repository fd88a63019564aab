------------------------ MODULE MCNotificationChannel ------------------------
(* Instances of NotificationChannel for TLC. *)
EXTENDS NotificationChannel

CONSTANTS n1, n2, n3, n4, none

FourNotifications == {n1, n2, n3, n4}
WithDestination   == {n1, n2, n3}

==============================================================================
