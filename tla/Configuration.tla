---------------------------- MODULE Configuration ----------------------------
(***************************************************************************)
(* config.InitConfig, app/config/config.go: which configurations the       *)
(* service starts with.                                                    *)
(*                                                                         *)
(* The settings are read one after the other and the first that cannot be  *)
(* read ends the program, so their order makes no difference.  A setting   *)
(* is unset, or the text of a number, of a flag, or another text.          *)
(***************************************************************************)
EXTENDS Integers

Text(s)   == [kind |-> "text", text |-> s]
Number(n) == [kind |-> "number", number |-> n]
Flag(b)   == [kind |-> "flag", flag |-> b]
Unset     == [kind |-> "unset"]

StringSettings ==
  {"serviceName", "cloudConnectorURL", "cloudConnectorEndpoint", "port", "loggingLevel",
   "telemetryEndpoint", "telemetryDataStoreName", "mappingSkuURL", "mappingSkuEndpoint",
   "alertDestination", "heartbeatDestination"}
IntSettings ==
  {"watchdogSeconds", "notificationChanSize", "maxMissedHeartbeats", "batchSizeMax"}
BoolSettings == {"sendNotWhitelistedAlert"}
NotNegative  == {"watchdogSeconds", "maxMissedHeartbeats"}

\* Empty if they cannot be read.
OptionalSettings ==
  {"alertDestinationAuthEndpoint", "alertDestinationAuthType", "alertDestinationClientID",
   "alertDestinationClientSecret"}

Settings == StringSettings \cup IntSettings \cup BoolSettings \cup OptionalSettings

InitConfigSucceeds(file) ==
  /\ \A k \in StringSettings : file[k].kind # "unset"
  /\ \A k \in IntSettings : file[k].kind = "number"
  /\ \A k \in BoolSettings : file[k].kind = "flag"
  /\ \A k \in NotNegative : file[k].number >= 0

==============================================================================
