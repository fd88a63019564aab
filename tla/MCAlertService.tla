---------------------------- MODULE MCAlertService ----------------------------
(* Instances of AlertService for TLC. *)
EXTENDS AlertService

CONSTANTS g1, h1, h2, nobody, none

OneDevice   == {g1}
TwoHandlers == {h1, h2}

R(name, decodes) == [name |-> name, decodes |-> decodes, device |-> g1]

\* An event without readings, a heartbeat before and behind an alert, one behind a reading
\* that cannot be decoded, and a notice.
SomeEvents ==
  { <<>>,
    <<R(heartbeat, TRUE), R(deviceAlert, TRUE)>>,
    <<R(deviceAlert, TRUE), R(heartbeat, TRUE)>>,
    <<R(heartbeat, FALSE), R(heartbeat, TRUE)>>,
    <<R(asnData, TRUE)>> }

==============================================================================
