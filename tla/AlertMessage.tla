---------------------------- MODULE AlertMessage ----------------------------
(***************************************************************************)
(* The two JSON forms of an alert and what alert.ProcessAlert reads of     *)
(* them: models.Alert, and models.AlertMessage, an envelope whose "value"  *)
(* is an Alert.  A JSON object is a record; encoding/json leaves a field   *)
(* of the target at its zero value if the object has no such key.          *)
(***************************************************************************)
EXTENDS Naturals

CONSTANT NoData   \* the nil of an interface{}

\* The fields of models.Alert that tell alerts apart.
Alert(number, optional) == [alert_number |-> number, optional |-> optional]

\* models.AlertMessage around an alert.
Envelope(application, alert) == [application |-> application, value |-> alert]

Field(object, key, zero) == IF key \in DOMAIN object THEN object[key] ELSE zero

\* ProcessAlert unmarshals whatever it is given into a models.Alert.
ProcessAlert(object) ==
  Alert(Field(object, "alert_number", 0), Field(object, "optional", NoData))

==============================================================================
