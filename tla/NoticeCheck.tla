----------------------------- MODULE NoticeCheck -----------------------------
(***************************************************************************)
(* What the check of a shipping notice promises, without batches, filters  *)
(* and answers of the product data service: a notice is judged at most     *)
(* once and as a whole; what is reported is in the notice and has all of   *)
(* its unknown products; an alert is raised for a report that is not empty *)
(* and for nothing else.  It is not promised that a notice is judged: the  *)
(* check may give up as long as it has not reported anything.              *)
(***************************************************************************)
CONSTANTS ProductIds, Known, SendNotWhitelistedAlert

VARIABLES ids,       \* the products of the notice
          exact,     \* a small notice: no known product may be reported
          state,     \* "open", "reporting", "closed" or "abandoned"
          reported,  \* the products reported as unknown
          alerted    \* an alert was given to the notification channel

vars == <<ids, exact, state, reported, alerted>>

Verdicts ==
  {verdict \in SUBSET ids :
     /\ ids \ Known \subseteq verdict
     /\ exact => verdict \cap Known = {}}

Init ==
  /\ ids \in SUBSET ProductIds
  /\ exact \in BOOLEAN
  /\ state = "open"
  /\ reported = {}
  /\ alerted = FALSE

Judge ==
  /\ state = "open"
  /\ reported' \in Verdicts
  /\ state' = IF reported' = {} THEN "closed" ELSE "reporting"
  /\ UNCHANGED <<ids, exact, alerted>>

Report ==
  /\ state = "reporting"
  /\ state' = "closed"
  /\ alerted' = SendNotWhitelistedAlert
  /\ UNCHANGED <<ids, exact, reported>>

Abandon ==
  /\ state = "open"
  /\ state' = "abandoned"
  /\ UNCHANGED <<ids, exact, reported, alerted>>

Next == Judge \/ Report \/ Abandon

Spec == Init /\ [][Next]_vars

==============================================================================
