---------------------------- MODULE MCAlertServer ----------------------------
(* Instances of AlertServer for TLC. *)
EXTENDS AlertServer

CONSTANTS r1, r2, data, nil, none

TwoRequests == {r1, r2}

\* With and without a number, with and without related data.
TwoAlerts == {Alert(0, data), Alert(260, nil)}

Complete ==
  [k \in Settings |->
     CASE k = "notificationChanSize" -> Number(NotificationChanSize)
       [] k \in IntSettings \ {"notificationChanSize"} -> Number(0)
       [] k \in BoolSettings -> Flag(FALSE)
       [] OTHER -> Text("x")]

\* Complete, without what is optional, and with one setting wrong.
SomeFiles ==
  { Complete,
    [k \in Settings |-> IF k \in OptionalSettings THEN Unset ELSE Complete[k]],
    [Complete EXCEPT !["port"] = Unset],
    [Complete EXCEPT !["batchSizeMax"] = Text("many")],
    [Complete EXCEPT !["sendNotWhitelistedAlert"] = Number(1)],
    [Complete EXCEPT !["watchdogSeconds"] = Number(-1)],
    [Complete EXCEPT !["notificationChanSize"] = Number(-1)] }

==============================================================================
