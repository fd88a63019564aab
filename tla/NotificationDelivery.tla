------------------------ MODULE NotificationDelivery ------------------------
(***************************************************************************)
(* What sending a notification promises, without channels or connections:  *)
(* every notification handed over is settled while the service runs, it    *)
(* reaches the cloud connector at most once, and it counts as posted only  *)
(* if it did.  It is not promised that it reaches the cloud connector, nor *)
(* that a notification reported as failed did not reach it, nor any order. *)
(***************************************************************************)
EXTENDS Naturals

CONSTANT Notifications

VARIABLES outcome,   \* what became of each notification
          reaches    \* how often each has reached the cloud connector

vars == <<outcome, reaches>>

Settled  == {"posted", "failed", "dropped"}
Outcomes == {"new", "pending", "lost"} \cup Settled

HasReached(n) == reaches[n] > 0

Init ==
  /\ outcome = [n \in Notifications |-> "new"]
  /\ reaches = [n \in Notifications |-> 0]

Accept(n) ==
  /\ outcome[n] = "new"
  /\ outcome' = [outcome EXCEPT ![n] = "pending"]
  /\ UNCHANGED reaches

\* A notification may arrive after the service has given up on it, or exited.
Reach(n) ==
  /\ outcome[n] \in {"pending", "failed", "lost"}
  /\ ~HasReached(n)
  /\ reaches' = [reaches EXCEPT ![n] = @ + 1]
  /\ UNCHANGED outcome

Settle(n) ==
  /\ outcome[n] = "pending"
  /\ \E o \in Settled :
       /\ o = "posted" => HasReached(n)
       /\ o = "dropped" => ~HasReached(n)
       /\ outcome' = [outcome EXCEPT ![n] = o]
  /\ UNCHANGED reaches

\* The service exits: what is not settled by then never is.
Exit ==
  /\ outcome' = [n \in Notifications |-> IF outcome[n] = "pending" THEN "lost"
                                                                   ELSE outcome[n]]
  /\ UNCHANGED reaches

Next == Exit \/ \E n \in Notifications : Accept(n) \/ Reach(n) \/ Settle(n)

Spec ==
  /\ Init /\ [][Next]_vars
  /\ \A n \in Notifications : WF_vars(Settle(n))

==============================================================================
