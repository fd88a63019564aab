------------------------- MODULE MCHeartbeatMonitor -------------------------
(* Instances of HeartbeatMonitor for TLC. *)
EXTENDS HeartbeatMonitor

CONSTANTS g1, g2, h1, h2, none

OneDevice   == {g1}
TwoDevices  == {g1, g2}
OneHandler  == {h1}
TwoHandlers == {h1, h2}

==============================================================================
