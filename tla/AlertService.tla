----------------------------- MODULE AlertService -----------------------------
(***************************************************************************)
(* The running service: the event pipeline of main.go (receiveZmqEvents,   *)
(* processEvents), the heartbeat supervision of HeartbeatMonitor and the   *)
(* delivery of what both of them raise.                                    *)
(*                                                                         *)
(* The EdgeX SDK calls the pipeline once per event, with the readings that *)
(* pass its filter, and may run several invocations at once.  An           *)
(* invocation that raises a notification hands it over in the same step.   *)
(* The check of a shipping notice raises an alert or not, ShippingNotice   *)
(* has its details.  Delivery is NotificationDelivery, which               *)
(* NotificationChannel implements: it keeps no order.                      *)
(***************************************************************************)
EXTENDS HeartbeatMonitor

CONSTANTS Events,                \* the events that devices send
          HeartbeatDestination,  \* config: a heartbeatDestination is set
          AlertDestination,      \* config: an alertDestination is set
          MaxEvents,             \* bound: events received
          MaxRaised              \* bound: notifications of one kind

VARIABLES arrived,   \* history: the events received
          checking,  \* invocations that check a shipping notice
          alerts,    \* number of alerts raised by ProcessAlert
          outcome,   \* what became of each notification
          reaches,   \* how often each has reached the cloud connector
          running    \* the process has not ended

pipelineVars == <<arrived, checking, alerts>>
deliveryVars == <<outcome, reaches>>

------------------------------------------------------------------------------
\* Names of readings, and what the pipeline tells apart of a reading.
heartbeat   == "controller_heartbeat"
deviceAlert == "device_alert"
asnData     == "ASN_data"

readingFilter == {heartbeat, deviceAlert, asnData}

Reading == [name : readingFilter, decodes : BOOLEAN, device : Devices]

ASSUME ServiceAssumption ==
  /\ Events \subseteq Seq(Reading)
  /\ HeartbeatDestination \in BOOLEAN
  /\ AlertDestination \in BOOLEAN
  /\ MaxEvents \in Nat
  /\ MaxRaised \in Nat
  /\ MaxEvents <= MaxHeartbeats
  /\ MaxEvents <= MaxRaised

\* Notifications are numbered by kind, in the order they are raised.
ForwardAlert == "Process Alert"
AllKinds     == Kinds \cup {ForwardAlert}
Numbered     == AllKinds \X (1 .. MaxRaised)
HasDestination(k) == IF k = ForwardHeartbeat THEN HeartbeatDestination ELSE AlertDestination

Delivery == INSTANCE NotificationDelivery WITH Notifications <- Numbered

serviceVars == <<vars, pipelineVars, deliveryVars, running>>

ServiceInit ==
  /\ Init
  /\ Delivery!Init
  /\ arrived = <<>>
  /\ checking = {}
  /\ alerts = 0
  /\ running = TRUE

------------------------------------------------------------------------------
\* One more notification of kind k is handed over.
Raise(k, count) ==
  /\ count < MaxRaised
  /\ Delivery!Accept(<<k, count + 1>>)

\* A step of the monitor, with the notification it raises, if any.
Raising ==
  \/ spawned' = spawned /\ UNCHANGED deliveryVars
  \/ \E k \in Kinds :
       /\ Count(k, spawned') = Count(k, spawned) + 1
       /\ Raise(k, Count(k, spawned))

ServiceTick ==
  /\ running
  /\ Tick
  /\ UNCHANGED <<pipelineVars, deliveryVars, running>>

ServiceWatchdog ==
  /\ running
  /\ Watchdog
  /\ Raising
  /\ UNCHANGED <<pipelineVars, running>>

ServiceHandler(h) ==
  /\ running
  /\ Handler(h)
  /\ Raising
  /\ UNCHANGED <<pipelineVars, running>>

------------------------------------------------------------------------------
\* The pipeline.
Free(h) == hpc[h] = "idle" /\ h \notin checking

\* alert.ProcessAlert: the alert is forwarded.
RaiseAlert ==
  /\ alerts' = alerts + 1
  /\ Raise(ForwardAlert, alerts)

\* Mutant: a heartbeat that cannot be decoded is handled as one of no device.
DispatchUndecoded(h, reading) ==
  \/ /\ reading.name = heartbeat
     /\ Receive(h, IF reading.decodes THEN reading.device ELSE NoDevice)
     /\ UNCHANGED <<checking, alerts, deliveryVars>>
  \/ /\ reading.name = deviceAlert /\ reading.decodes
     /\ RaiseAlert
     /\ UNCHANGED <<vars, checking>>
  \/ /\ reading.name = asnData /\ reading.decodes
     /\ checking' = checking \cup {h}
     /\ UNCHANGED <<vars, alerts, deliveryVars>>
  \/ /\ reading.name # heartbeat /\ ~reading.decodes
     /\ UNCHANGED <<vars, checking, alerts, deliveryVars>>

\* processEvents for the reading of an event that decides.
Dispatch(h, reading) ==
  \/ /\ reading.name = heartbeat /\ reading.decodes
     /\ Receive(h, reading.device)
     /\ UNCHANGED <<checking, alerts, deliveryVars>>
  \/ /\ reading.name = deviceAlert /\ reading.decodes
     /\ RaiseAlert
     /\ UNCHANGED <<vars, checking>>
  \/ /\ reading.name = asnData /\ reading.decodes
     /\ checking' = checking \cup {h}
     /\ UNCHANGED <<vars, alerts, deliveryVars>>
  \/ /\ ~reading.decodes
     /\ UNCHANGED <<vars, checking, alerts, deliveryVars>>

\* Mutant: the last reading decides.
ArriveLast(h, e) ==
  /\ running
  /\ Free(h)
  /\ Len(arrived) < MaxEvents
  /\ arrived' = Append(arrived, e)
  /\ \/ e = <<>> /\ UNCHANGED <<vars, checking, alerts, deliveryVars>>
     \/ e # <<>> /\ Dispatch(h, e[Len(e)])
  /\ UNCHANGED running

\* An event without readings is done with; else the first reading decides.
Arrive(h, e) ==
  /\ running
  /\ Free(h)
  /\ Len(arrived) < MaxEvents
  /\ arrived' = Append(arrived, e)
  /\ \/ e = <<>> /\ UNCHANGED <<vars, checking, alerts, deliveryVars>>
     \/ e # <<>> /\ Dispatch(h, e[1])
  /\ UNCHANGED running

\* processShippingNotice returns, having raised an alert or not.
NoticeChecked(h) ==
  /\ running
  /\ h \in checking
  /\ checking' = checking \ {h}
  /\ RaiseAlert \/ UNCHANGED <<alerts, deliveryVars>>
  /\ UNCHANGED <<vars, arrived, running>>

------------------------------------------------------------------------------
\* The delivery, and the end of the process.
ServiceSettle(n) ==
  /\ running
  /\ Delivery!Settle(n)
  /\ outcome'[n] = "dropped" <=> ~HasDestination(n[1])
  /\ UNCHANGED <<vars, pipelineVars, running>>

\* A request may still be on its way when the process has ended.
ServiceReach(n) ==
  /\ HasDestination(n[1])
  /\ Delivery!Reach(n)
  /\ UNCHANGED <<vars, pipelineVars, running>>

ServiceExit ==
  /\ running
  /\ running' = FALSE
  /\ Delivery!Exit
  /\ UNCHANGED <<vars, pipelineVars>>

ServiceNext ==
  \/ ServiceTick \/ ServiceWatchdog \/ ServiceExit
  \/ \E h \in Handlers :
       ServiceHandler(h) \/ NoticeChecked(h) \/ \E e \in Events : Arrive(h, e)
  \/ \E n \in Numbered : ServiceSettle(n) \/ ServiceReach(n)

ServiceSpec == ServiceInit /\ [][ServiceNext]_serviceVars

\* The fairness of the parts: goroutines are scheduled, and the timeouts of the two HTTP
\* clients end every post and every call of the product data service.
FairServiceSpec ==
  /\ ServiceSpec
  /\ \A h \in Handlers : WF_serviceVars(ServiceHandler(h) \/ NoticeChecked(h))
  /\ \A n \in Numbered : WF_serviceVars(ServiceSettle(n))

------------------------------------------------------------------------------
\* The variables have their types; a heartbeat that is handled was decoded and has its
\* device, through every step of its invocation, since one that cannot be decoded never
\* gets there (main.go:158).
ServiceTypeOK ==
  /\ TypeOK
  /\ \A h \in Handlers : hpc[h] # "idle" => event[h].device \in Devices
  /\ arrived \in Seq(Events)
  /\ checking \subseteq {h \in Handlers : hpc[h] = "idle"}
  /\ alerts \in Nat
  /\ outcome \in [Numbered -> Delivery!Outcomes]
  /\ reaches \in [Numbered -> Nat]
  /\ running \in BOOLEAN

\* What the first reading of the events says was received.
Arrivals(name) ==
  Cardinality({i \in DOMAIN arrived :
    arrived[i] # <<>> /\ arrived[i][1].name = name /\ arrived[i][1].decodes})

\* The first reading of an event decides alone what becomes of it (main.go:540): through
\* the invocations in flight and the steps of each, every event whose first reading is a
\* heartbeat is forwarded once, every device alert raises one alert, every notice at most
\* one, and the readings behind the first raise nothing.
FirstReadingDecides ==
  /\ Count(ForwardHeartbeat, spawned) + Cardinality({h \in Handlers : hpc[h] # "idle"})
       = Arrivals(heartbeat)
  /\ Arrivals(deviceAlert) <= alerts
  /\ alerts + Cardinality(checking) <= Arrivals(deviceAlert) + Arrivals(asnData)

ReachedOf(k) == Cardinality({n \in Numbered : n[1] = k /\ Delivery!HasReached(n)})

\* The cloud can tell the status of the gateway from what it got (main.go:86-139,
\* lib.go:85): once every alert about a status change is raised and posted, it has got more
\* registrations than deregistrations, by one exactly, if the gateway is registered,
\* although they may have arrived in another order.  Once heartbeats have been handled at
\* once, the gateway may have been registered more than once.
ChangesPosted ==
  /\ wpc # "alertDeregistered"
  /\ \A h \in Handlers : hpc[h] # "alertRegistered"
  /\ \A n \in Numbered :
       n[1] \in {RegisteredAlert, DeregisteredAlert} => outcome[n] \in {"new", "posted"}

CloudTellsStatus ==
  LET told == ReachedOf(DeregisteredAlert)
                + (IF gateway.RegistrationStatus = Registered THEN 1 ELSE 0)
  IN  ChangesPosted => /\ ReachedOf(RegisteredAlert) >= told
                       /\ ~overlapped => ReachedOf(RegisteredAlert) = told

\* A heartbeat is not kept forever: whatever the watchdog, the other invocations and the
\* cloud connector do, its forwarding is settled or lost with the process
\* (main.go:142, lib.go:85).
HeartbeatsAreForwarded ==
  \A i \in 1 .. MaxEvents :
    Arrivals(heartbeat) >= i
      ~> ~ running \/ outcome[<<ForwardHeartbeat, i>>] \in {"posted", "failed", "dropped"}

==============================================================================
