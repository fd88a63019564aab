------------------------ MODULE GatewayRegistration -------------------------
(***************************************************************************)
(* What supervision promises about registration, without heartbeats,       *)
(* timers or counters: the status changes Pending -> Registered <->        *)
(* Deregistered, and every change is told by exactly one alert, possibly   *)
(* after later changes have already happened and out of their order.       *)
(***************************************************************************)
EXTENDS Naturals

VARIABLES concurrent, \* heartbeats have been handled at once
          status,     \* the registration status
          untold,     \* changes of each kind that no alert tells yet
          told        \* alerts raised for each kind of change

vars == <<concurrent, status, untold, told>>

Changes == {"registration", "deregistration"}

TypeOK ==
  /\ concurrent \in BOOLEAN
  /\ status \in {"Pending", "Registered", "Deregistered"}
  /\ untold \in [Changes -> Nat]
  /\ told \in [Changes -> Nat]

Init ==
  /\ concurrent = FALSE
  /\ status = "Pending"
  /\ untold = [c \in Changes |-> 0]
  /\ told = [c \in Changes |-> 0]

\* From now on heartbeats may have been handled at once.
Overlap ==
  /\ concurrent' = TRUE
  /\ UNCHANGED <<status, untold, told>>

\* Concurrent handlers may each register a gateway they saw unregistered.
Register ==
  /\ concurrent \/ status # "Registered"
  /\ status' = "Registered"
  /\ untold' = [untold EXCEPT !["registration"] = @ + 1]
  /\ UNCHANGED <<concurrent, told>>

Deregister ==
  /\ status = "Registered"
  /\ status' = "Deregistered"
  /\ untold' = [untold EXCEPT !["deregistration"] = @ + 1]
  /\ UNCHANGED <<concurrent, told>>

Tell(c) ==
  /\ untold[c] > 0
  /\ untold' = [untold EXCEPT ![c] = @ - 1]
  /\ told' = [told EXCEPT ![c] = @ + 1]
  /\ UNCHANGED <<concurrent, status>>

Next == Overlap \/ Register \/ Deregister \/ \E c \in Changes : Tell(c)

\* Every change is eventually told.
Spec == Init /\ [][Next]_vars /\ \A c \in Changes : WF_vars(Tell(c))

==============================================================================
