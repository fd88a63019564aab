--------------------------- MODULE MCAlertEndpoint ---------------------------
(* Instances of AlertEndpoint for TLC. *)
EXTENDS AlertEndpoint

CONSTANTS r1, r2, data, nil, none

TwoRequests == {r1, r2}

\* With and without a number, with and without related data.
TwoAlerts   == {Alert(0, data), Alert(260, nil)}

==============================================================================
