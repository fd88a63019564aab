--------------------------- MODULE RequestHandling ---------------------------
(***************************************************************************)
(* What the service promises of the requests to its endpoint, without      *)
(* handlers, goroutines, a listener and signals.  Requests are admitted    *)
(* only while the service is open, those admitted before it closes are     *)
(* still handled.  Each gets one status, 200 exactly if its alert has been *)
(* accepted by then.  An accepted alert is settled once, or lost when the  *)
(* process ends, after which nothing happens to anyone.                    *)
(***************************************************************************)
CONSTANT Requests

VARIABLES phase,    \* "starting", "open", "closing" or "ended"
          request,  \* "none", "admitted" or "accepted"
          status,   \* the status each client gets, 0 if none yet
          outcome   \* what became of each alert

vars == <<phase, request, status, outcome>>

Settled == {"posted", "failed", "dropped"}
Refusals == {400, 500}

Init ==
  /\ phase = "starting"
  /\ request = [r \in Requests |-> "none"]
  /\ status = [r \in Requests |-> 0]
  /\ outcome = [r \in Requests |-> "none"]

Open ==
  /\ phase = "starting"
  /\ phase' = "open"
  /\ UNCHANGED <<request, status, outcome>>

Close ==
  /\ phase = "open"
  /\ phase' = "closing"
  /\ UNCHANGED <<request, status, outcome>>

End ==
  /\ phase # "ended"
  /\ phase' = "ended"
  /\ outcome' = [r \in Requests |->
       IF request[r] = "accepted" /\ outcome[r] = "none" THEN "lost" ELSE outcome[r]]
  /\ UNCHANGED <<request, status>>

Admit(r) ==
  /\ phase = "open"
  /\ request[r] = "none"
  /\ request' = [request EXCEPT ![r] = "admitted"]
  /\ UNCHANGED <<phase, status, outcome>>

Working == phase \in {"open", "closing"}

Accept(r) ==
  /\ Working
  /\ request[r] = "admitted" /\ status[r] = 0
  /\ request' = [request EXCEPT ![r] = "accepted"]
  /\ UNCHANGED <<phase, status, outcome>>

Answer(r) ==
  /\ Working
  /\ request[r] # "none" /\ status[r] = 0
  /\ \E s \in IF request[r] = "accepted" THEN {200} ELSE Refusals :
       status' = [status EXCEPT ![r] = s]
  /\ UNCHANGED <<phase, request, outcome>>

Settle(r) ==
  /\ Working
  /\ request[r] = "accepted" /\ outcome[r] = "none"
  /\ \E o \in Settled : outcome' = [outcome EXCEPT ![r] = o]
  /\ UNCHANGED <<phase, request, status>>

Next ==
  \/ Open \/ Close \/ End
  \/ \E r \in Requests : Admit(r) \/ Accept(r) \/ Answer(r) \/ Settle(r)

Spec == Init /\ [][Next]_vars

==============================================================================
