---------------------------- MODULE GatewayStatus ----------------------------
(***************************************************************************)
(* The singleton gatewayStatus of app/models/GatewayStatus.go.             *)
(*                                                                         *)
(* Every method of the Go type takes gatewayMutex, does one assignment or  *)
(* one read, and releases it.  So a method is one atomic step, and nothing *)
(* is atomic across two calls.  Each writing method is an operator from    *)
(* the old record to the new one; a reading method is a field access.      *)
(***************************************************************************)
EXTENDS Naturals

CONSTANTS Devices,      \* device ids that heartbeats carry
          NoDevice      \* the device id of a zero-valued models.Heartbeat

Pending      == "Pending"
Registered   == "Registered"
Deregistered == "Deregistered"
Status       == {Pending, Registered, Deregistered}

\* The zero time.Time: it precedes every reading of the clock, which starts at 1.
DefaultTime == 0

\* The singleton as GetInstanceGateway creates it.
GetInstanceGateway ==
  [ RegistrationStatus |-> Pending,
    MissedHeartBeats   |-> 0,
    FirstHeartbeatSeen |-> DefaultTime,
    LastHeartbeatSeen  |-> DefaultTime,
    LastHeartbeat      |-> NoDevice ]

GatewayType ==
  [ RegistrationStatus : Status,
    MissedHeartBeats   : Nat,
    FirstHeartbeatSeen : Nat,
    LastHeartbeatSeen  : Nat,
    LastHeartbeat      : Devices \cup {NoDevice} ]

UpdateGatewayStatus(g, seen, missed, hb) ==
  [ g EXCEPT !.LastHeartbeatSeen = seen,
             !.LastHeartbeat     = hb,
             !.MissedHeartBeats  = missed ]

\* Mutant: the time of the first heartbeat is forgotten.
RegisterGatewayKeepsFirstSeen(g) == [ g EXCEPT !.RegistrationStatus = Registered ]

RegisterGateway(g) ==
  [ g EXCEPT !.RegistrationStatus = Registered,
             !.FirstHeartbeatSeen = g.LastHeartbeatSeen ]

\* Mutant: the counter counts down.
UpdateMissedHeartBeatsDown(g) == [ g EXCEPT !.MissedHeartBeats = @ - 1 ]

UpdateMissedHeartBeats(g) == [ g EXCEPT !.MissedHeartBeats = @ + 1 ]

DeregisterGateway(g) == [ g EXCEPT !.RegistrationStatus = Deregistered ]

==============================================================================
