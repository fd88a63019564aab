----------------------------- MODULE FullService -----------------------------
(***************************************************************************)
(* The running service down to its channel: AlertService with the steps of *)
(* NotificationChannel in the place of those of NotificationDelivery.  A   *)
(* notification that the pipeline or the watchdog raises gets a goroutine  *)
(* that sends it on the one channel of main.go; the consumer and the       *)
(* network settle it.  What AlertService says has reached the cloud        *)
(* connector is counted over what the channel says, which keeps the order. *)
(***************************************************************************)
EXTENDS AlertService

CONSTANT NotificationChanSize   \* config: buffer size of the channel

VARIABLES starting, buffer, blocked, consumer, current, sent, inFlight, reached

Channel == INSTANCE NotificationChannel WITH
  Notifications  <- Numbered,
  Addressed      <- {n \in Numbered : HasDestination(n[1])},
  NoNotification <- <<>>

channelVars == <<starting, buffer, blocked, consumer, current, sent, inFlight, reached>>
fullVars    == <<serviceVars, channelVars>>

FullInit == ServiceInit /\ Channel!Init

\* What the service raises, it gives to a goroutine.
GivenToGoroutine ==
  UNCHANGED <<deliveryVars, channelVars>> \/ \E n \in Numbered : Channel!Spawn(n)

PipelineOrWatchdog ==
  \/ ServiceTick
  \/ ServiceWatchdog
  \/ \E h \in Handlers :
       ServiceHandler(h) \/ NoticeChecked(h) \/ \E e \in Events : Arrive(h, e)

\* The goroutines end with the process, the network does not.
Goroutines ==
  /\ running
  /\ Channel!NotifyChannel \/ \E n \in Numbered : Channel!Send(n)
  /\ UNCHANGED <<vars, pipelineVars, reaches, running>>

Network ==
  /\ \E n \in Numbered : Channel!Arrive(n) \/ Channel!Vanish(n)
  /\ reaches' = Channel!Reaches'
  /\ UNCHANGED <<vars, pipelineVars, running>>

FullNext ==
  \/ PipelineOrWatchdog /\ GivenToGoroutine
  \/ Goroutines
  \/ Network
  \/ ServiceExit /\ Channel!Exit

FullSpec == FullInit /\ [][FullNext]_fullVars

==============================================================================
