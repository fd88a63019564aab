------------------------- MODULE AlertService_proofs -------------------------
(***************************************************************************)
(* Theorems about AlertService, for every set of devices, invocations and  *)
(* events, every configuration, and every bound.                           *)
(***************************************************************************)
EXTENDS AlertService, HeartbeatMonitor_proofs

------------------------------------------------------------------------------
(* The service runs the monitor and the delivery, and nothing else. *)

\* The readings of an event that is not empty: the first one is well-formed.
LEMMA FirstReadingType ==
  ASSUME NEW e \in Events, e # <<>>
  PROVE  e[1] \in Reading /\ e[1].device \in Devices
<1>1. e \in Seq(Reading)
  BY ServiceAssumption
<1>2. 1 \in 1 .. Len(e)
  BY <1>1
<1>3. e[1] \in Reading
  BY <1>1, <1>2
<1> QED
  BY <1>3 DEF Reading

\* main.go:407, 494-609: for the monitor, a step of the service is one of its own or none.
LEMMA StepsOfMonitor == [ServiceNext]_serviceVars => [Next]_vars
<1> SUFFICES ASSUME [ServiceNext]_serviceVars PROVE [Next]_vars
  OBVIOUS
<1>1. CASE ServiceTick
  BY <1>1 DEF ServiceTick, Next
<1>2. CASE ServiceWatchdog
  BY <1>2 DEF ServiceWatchdog, Next
<1>3. CASE ServiceExit
  BY <1>3 DEF ServiceExit
<1>4. ASSUME NEW h \in Handlers, ServiceHandler(h) PROVE Next
  BY <1>4 DEF ServiceHandler, Next
<1>5. ASSUME NEW h \in Handlers, NoticeChecked(h) PROVE UNCHANGED vars
  BY <1>5 DEF NoticeChecked
<1>6. ASSUME NEW h \in Handlers, NEW e \in Events, Arrive(h, e) PROVE [Next]_vars
  <2>1. CASE e = <<>>
    BY <1>6, <2>1 DEF Arrive
  <2>2. CASE e # <<>>
    <3>1. Dispatch(h, e[1])
      BY <1>6, <2>2 DEF Arrive
    <3>2. Receive(h, e[1].device) \/ UNCHANGED vars
      BY <3>1 DEF Dispatch
    <3> QED
      BY <2>2, <3>2, FirstReadingType DEF Next
  <2> QED
    BY <2>1, <2>2
<1>7. ASSUME NEW n \in Numbered, ServiceSettle(n) \/ ServiceReach(n) PROVE UNCHANGED vars
  BY <1>7 DEF ServiceSettle, ServiceReach
<1>8. CASE UNCHANGED serviceVars
  BY <1>8 DEF serviceVars
<1> QED
  BY <1>1, <1>2, <1>3, <1>4, <1>5, <1>6, <1>7, <1>8 DEF ServiceNext

\* The pipeline, the delivery and the end of the process do nothing to the monitor that it
\* could not meet alone: what is proved of HeartbeatMonitor holds of the service.
THEOREM ServiceRunsMonitor == ServiceSpec => Spec
BY StepsOfMonitor, PTL DEF ServiceSpec, ServiceInit, Spec

\* main.go:77-140: in the service, too, every change of the status is told by an alert of
\* its own kind, at most once.
THEOREM ServiceRefinesRegistration ==
  ServiceSpec => Registration!Init /\ [][Registration!Next]_(Registration!vars)
BY ServiceRunsMonitor, RefinesRegistration

\* main.go:80-86: a silent gateway does not stay registered, whatever else the service does,
\* if its threads are prompt.
THEOREM ServiceDetectsSilence ==
  ASSUME Prompt
  PROVE  ServiceSpec => []DetectionDeadline
BY ServiceRunsMonitor, SilenceDetected, PTL

------------------------------------------------------------------------------
(* Raising and handing over go together. *)

\* How many notifications of a kind were raised.
Raised(k) == IF k = ForwardAlert THEN alerts ELSE Count(k, spawned)

\* A step that raises one notification, and a step that raises none.
RaisesOne(k) == /\ Raise(k, Raised(k))
                /\ Raised(k)' = Raised(k) + 1
                /\ \A j \in AllKinds \ {k} : Raised(j)' = Raised(j)
RaisesNone   == /\ \A k \in AllKinds : Raised(k)' = Raised(k)
                /\ \/ UNCHANGED deliveryVars
                   \/ Delivery!Exit
                   \/ \E n \in Numbered : Delivery!Reach(n) \/ Delivery!Settle(n)

\* "Process Alert" is not one of the messages of main.go.
LEMMA ForwardAlertDiffers == ForwardAlert \notin Kinds
BY DEF ForwardAlert, Kinds, RegisteredAlert, MissedAlert, DeregisteredAlert,
       ForwardHeartbeat

\* How often each kind was raised can be counted.
LEMMA RaisedType ==
  ASSUME ServiceTypeOK
  PROVE  \A k \in AllKinds : Raised(k) \in Nat
<1>1. Notify(MissedAlert, NoDevice) \in Notification
  BY DEF Notify, Notification, Kinds
<1>2. alerts \in Nat /\ spawned \in Seq(Notification)
  BY DEF ServiceTypeOK, TypeOK
<1> QED
  BY <1>1, <1>2, CountAppend DEF Raised

\* main.go:77-177: a step of the monitor logs at most one notification.
LEMMA LogGrows ==
  ASSUME TypeOK, Watchdog \/ \E h \in Handlers : Handler(h)
  PROVE  \/ UNCHANGED spawned
         \/ \E n \in Notification : spawned' = Append(spawned, n)
<1>1. gateway.LastHeartbeat \in Devices \cup {NoDevice}
  BY DEF TypeOK, GatewayType
<1>2. \A k \in Kinds, d \in Devices \cup {NoDevice} : Notify(k, d) \in Notification
  BY DEF Notify, Notification
<1>3. CASE Watchdog
  BY <1>1, <1>2, <1>3
     DEF Watchdog, WatchdogCheckStatus, WatchdogReadSeen, WatchdogCheckAge,
         WatchdogCount, WatchdogCompare, WatchdogDeregister,
         WatchdogAlertDeregistered, WatchdogAlertMissed, Kinds
<1>4. ASSUME NEW h \in Handlers, Handler(h)
      PROVE  \/ UNCHANGED spawned
             \/ \E n \in Notification : spawned' = Append(spawned, n)
  <2>1. event[h].device \in Devices \cup {NoDevice}
    BY DEF TypeOK, EventType
  <2> QED
    BY <1>1, <1>2, <1>4, <2>1
       DEF Handler, HandlerUpdate, HandlerCheckPending, HandlerCheckDeregistered,
           HandlerRegister, HandlerAlertRegistered, HandlerForward, Kinds
<1> QED
  BY <1>3, <1>4

\* What a step of the monitor logs is what it hands over (main.go:89-139).
LEMMA RaisingSteps ==
  ASSUME ServiceTypeOK, Watchdog \/ \E h \in Handlers : Handler(h), Raising,
         UNCHANGED alerts
  PROVE  RaisesNone \/ \E k \in AllKinds : RaisesOne(k)
<1>1. TypeOK /\ spawned \in Seq(Notification) /\ \A k \in AllKinds : Raised(k) \in Nat
  BY RaisedType DEF ServiceTypeOK, TypeOK
<1>2. \A k \in Kinds : k \in AllKinds /\ k # ForwardAlert
  BY ForwardAlertDiffers DEF AllKinds
<1>3. ASSUME UNCHANGED <<spawned, deliveryVars>> PROVE RaisesNone
  BY <1>3 DEF RaisesNone, Raised
<1>4. ASSUME NEW k \in Kinds, Count(k, spawned') = Count(k, spawned) + 1,
             Raise(k, Count(k, spawned))
      PROVE  RaisesOne(k)
  <2>1. Raised(k) = Count(k, spawned) /\ Raised(k)' = Raised(k) + 1 /\ Raised(k) \in Nat
    BY <1>1, <1>2, <1>4 DEF Raised
  <2>2. spawned' # spawned
    BY <1>4, <2>1
  <2>3. PICK n \in Notification : spawned' = Append(spawned, n)
    BY <1>1, <2>2, LogGrows
  <2>4. n.kind = k
    BY <1>1, <1>4, <2>1, <2>3, CountAppend
  <2>5. \A j \in AllKinds \ {k} : Raised(j)' = Raised(j)
    BY <1>1, <2>3, <2>4, CountAppend DEF Raised
  <2> QED
    BY <1>4, <2>1, <2>5 DEF RaisesOne
<1> QED
  BY <1>2, <1>3, <1>4 DEF Raising

\* lib.go:69-77: a forwarded alert is counted where it is handed over.
LEMMA RaiseAlertSteps ==
  ASSUME ServiceTypeOK, RaiseAlert, UNCHANGED spawned
  PROVE  RaisesOne(ForwardAlert)
BY DEF RaiseAlert, RaisesOne, Raised, ServiceTypeOK

\* Every step of the service raises one notification and hands it over, or neither.
LEMMA ServiceSteps ==
  ASSUME ServiceTypeOK, [ServiceNext]_serviceVars
  PROVE  RaisesNone \/ \E k \in AllKinds : RaisesOne(k)
<1>1. ForwardAlert \in AllKinds
  BY DEF AllKinds
<1>2. ASSUME UNCHANGED <<spawned, alerts, deliveryVars>> PROVE RaisesNone
  BY <1>2 DEF RaisesNone, Raised
<1>3. CASE ServiceTick
  BY <1>2, <1>3 DEF ServiceTick, Tick, pipelineVars
<1>4. CASE ServiceWatchdog
  BY <1>4, RaisingSteps DEF ServiceWatchdog, pipelineVars
<1>5. ASSUME NEW h \in Handlers, ServiceHandler(h)
      PROVE  RaisesNone \/ \E k \in AllKinds : RaisesOne(k)
  BY <1>5, RaisingSteps DEF ServiceHandler, pipelineVars
<1>6. ASSUME NEW h \in Handlers, NoticeChecked(h)
      PROVE  RaisesNone \/ RaisesOne(ForwardAlert)
  BY <1>2, <1>6, RaiseAlertSteps DEF NoticeChecked, vars
<1>7. ASSUME NEW h \in Handlers, NEW e \in Events, Arrive(h, e)
      PROVE  RaisesNone \/ RaisesOne(ForwardAlert)
  <2>1. CASE e = <<>>
    BY <1>2, <1>7, <2>1 DEF Arrive, vars
  <2>2. CASE e # <<>>
    BY <1>2, <1>7, <2>2, RaiseAlertSteps DEF Arrive, Dispatch, Receive, vars
  <2> QED
    BY <2>1, <2>2
<1>8. ASSUME ServiceExit \/ \E n \in Numbered : ServiceSettle(n) \/ ServiceReach(n)
      PROVE  RaisesNone
  <2>1. UNCHANGED <<spawned, alerts>>
    BY <1>8 DEF ServiceExit, ServiceSettle, ServiceReach, vars, pipelineVars
  <2> QED
    BY <1>8, <2>1 DEF ServiceExit, ServiceSettle, ServiceReach, RaisesNone, Raised
<1>9. CASE UNCHANGED serviceVars
  BY <1>2, <1>9 DEF serviceVars, vars, pipelineVars
<1> QED
  BY <1>1, <1>3, <1>4, <1>5, <1>6, <1>7, <1>8, <1>9 DEF ServiceNext

\* lib.go:69-122: each step of the service is at most one step of the delivery.
LEMMA StepsOfDelivery ==
  ASSUME ServiceTypeOK, [ServiceNext]_serviceVars
  PROVE  [Delivery!Next]_(Delivery!vars)
<1>1. ASSUME NEW k \in AllKinds, RaisesOne(k) PROVE Delivery!Next
  <2>1. <<k, Raised(k) + 1>> \in Numbered
    BY <1>1, RaisedType, ServiceAssumption DEF RaisesOne, Raise, Numbered
  <2> QED
    BY <1>1, <2>1 DEF RaisesOne, Raise, Delivery!Next
<1>2. ASSUME RaisesNone PROVE [Delivery!Next]_(Delivery!vars)
  BY <1>2 DEF RaisesNone, Delivery!Next, Delivery!vars, deliveryVars
<1> QED
  BY <1>1, <1>2, ServiceSteps

------------------------------------------------------------------------------
(* Type correctness. *)

\* lib.go:85-122: a step of the delivery keeps the types.
LEMMA DeliveryType ==
  ASSUME outcome \in [Numbered -> Delivery!Outcomes], reaches \in [Numbered -> Nat],
         [Delivery!Next]_(Delivery!vars)
  PROVE  outcome' \in [Numbered -> Delivery!Outcomes] /\ reaches' \in [Numbered -> Nat]
<1> USE DEF Delivery!Outcomes, Delivery!Settled
<1>1. ASSUME NEW n \in Numbered, Delivery!Accept(n) \/ Delivery!Settle(n) \/ Delivery!Reach(n)
      PROVE  outcome' \in [Numbered -> Delivery!Outcomes] /\ reaches' \in [Numbered -> Nat]
  BY <1>1 DEF Delivery!Accept, Delivery!Settle, Delivery!Reach
<1>2. CASE Delivery!Exit
  BY <1>2 DEF Delivery!Exit
<1>3. CASE UNCHANGED Delivery!vars
  BY <1>3 DEF Delivery!vars
<1> QED
  BY <1>1, <1>2, <1>3 DEF Delivery!Next

\* A heartbeat at work has its device (main.go:142-161): Arrive hands over only what was
\* decoded, and no step of an invocation changes what it works on.
LEMMA AtWorkType ==
  ASSUME ServiceTypeOK, [ServiceNext]_serviceVars
  PROVE  (\A h \in Handlers : hpc[h] # "idle" => event[h].device \in Devices)'
<1> SUFFICES ASSUME NEW k \in Handlers, hpc'[k] # "idle" PROVE event'[k].device \in Devices
  OBVIOUS
<1> USE DEF ServiceTypeOK
<1>1. ASSUME hpc[k] # "idle", event'[k] = event[k] PROVE event'[k].device \in Devices
  BY <1>1
<1>2. CASE ServiceTick
  BY <1>1, <1>2 DEF ServiceTick, Tick, handlerVars
<1>3. CASE ServiceWatchdog
  BY <1>1, <1>3, WatchdogLeavesHandlers DEF ServiceWatchdog
<1>4. ASSUME NEW h \in Handlers, ServiceHandler(h) PROVE event'[k].device \in Devices
  <2>1. CASE k # h
    BY <1>1, <1>4, <2>1, HandlerMovesItself DEF ServiceHandler
  <2>2. CASE k = h
    <3>1. /\ hpc[h] # "idle" /\ TypeOK
          /\ HandlerForward(h) \/ UNCHANGED event
      BY <1>4, HandlerMovesItself
         DEF ServiceHandler, Handler, HandlerUpdate, HandlerCheckPending,
             HandlerCheckDeregistered, HandlerRegister, HandlerAlertRegistered
    <3>2. ~HandlerForward(h)
      BY <2>2, <3>1 DEF HandlerForward, HandlerAt, TypeOK
    <3> QED
      BY <1>1, <2>2, <3>1, <3>2
  <2> QED
    BY <2>1, <2>2
<1>5. ASSUME NEW h \in Handlers, NEW e \in Events, Arrive(h, e)
      PROVE  event'[k].device \in Devices
  <2>1. CASE UNCHANGED vars
    BY <1>1, <2>1 DEF vars
  <2>2. CASE e # <<>> /\ Receive(h, e[1].device)
    <3>1. e[1].device \in Devices
      BY <2>2, FirstReadingType DEF Reading
    <3>2. CASE k = h
      BY <2>2, <3>1, <3>2 DEF Receive, TypeOK, EventType
    <3>3. CASE k # h
      BY <1>1, <2>2, <3>3 DEF Receive, HandlerAt, TypeOK
    <3> QED
      BY <3>2, <3>3
  <2> QED
    BY <1>5, <2>1, <2>2 DEF Arrive, Dispatch
<1>6. ASSUME \/ ServiceExit \/ \E h \in Handlers : NoticeChecked(h)
             \/ \E n \in Numbered : ServiceSettle(n) \/ ServiceReach(n)
      PROVE  event'[k].device \in Devices
  BY <1>1, <1>6 DEF ServiceExit, NoticeChecked, ServiceSettle, ServiceReach, vars
<1>7. CASE UNCHANGED serviceVars
  BY <1>1, <1>7 DEF serviceVars, vars
<1> QED
  BY <1>2, <1>3, <1>4, <1>5, <1>6, <1>7 DEF ServiceNext

\* The pipeline (main.go:525-609) keeps its own types.
LEMMA PipelineType ==
  ASSUME ServiceTypeOK, [ServiceNext]_serviceVars
  PROVE  /\ arrived' \in Seq(Events)
         /\ checking' \subseteq {h \in Handlers : hpc'[h] = "idle"}
         /\ alerts' \in Nat
         /\ running' \in BOOLEAN
<1> USE DEF ServiceTypeOK, TypeOK, pipelineVars
<1>1. CASE ServiceTick
  BY <1>1 DEF ServiceTick, Tick, handlerVars
<1>2. CASE ServiceWatchdog
  <2>1. UNCHANGED hpc
    BY <1>2 DEF ServiceWatchdog, Watchdog, WatchdogCheckStatus, WatchdogReadSeen,
                WatchdogCheckAge, WatchdogCount, WatchdogCompare, WatchdogDeregister,
                WatchdogAlertDeregistered, WatchdogAlertMissed, handlerVars
  <2> QED
    BY <1>2, <2>1 DEF ServiceWatchdog
<1>3. ASSUME NEW h \in Handlers, ServiceHandler(h)
      PROVE  UNCHANGED <<arrived, checking, alerts, running>>
             /\ checking \subseteq {k \in Handlers : hpc'[k] = "idle"}
  <2>1. hpc[h] # "idle" /\ \A k \in Handlers \ {h} : hpc'[k] = hpc[k]
    BY <1>3 DEF ServiceHandler, Handler, HandlerUpdate, HandlerCheckPending,
                HandlerCheckDeregistered, HandlerRegister, HandlerAlertRegistered,
                HandlerForward, HandlerAt
  <2> QED
    BY <1>3, <2>1 DEF ServiceHandler
<1>4. ASSUME NEW h \in Handlers, NoticeChecked(h)
      PROVE  /\ UNCHANGED <<hpc, arrived, running>>
             /\ checking' \subseteq checking /\ alerts' \in Nat
  BY <1>4 DEF NoticeChecked, RaiseAlert, vars
<1>5. ASSUME NEW h \in Handlers, NEW e \in Events, Arrive(h, e)
      PROVE  /\ arrived' \in Seq(Events) /\ alerts' \in Nat /\ UNCHANGED running
             /\ checking' \subseteq {k \in Handlers : hpc'[k] = "idle"}
  <2>1. arrived' \in Seq(Events) /\ UNCHANGED running /\ hpc[h] = "idle" /\ h \notin checking
    BY <1>5 DEF Arrive, Free
  <2>2. CASE e = <<>>
    BY <1>5, <2>1, <2>2 DEF Arrive, vars
  <2>3. CASE e # <<>>
    <3>1. Dispatch(h, e[1])
      BY <1>5, <2>3 DEF Arrive
    <3>2. alerts' \in Nat
      BY <3>1 DEF Dispatch, RaiseAlert
    <3>3. ASSUME Receive(h, e[1].device), UNCHANGED checking
          PROVE  checking' \subseteq {k \in Handlers : hpc'[k] = "idle"}
      BY <2>1, <3>3 DEF Receive, HandlerAt
    <3>4. ASSUME UNCHANGED hpc, checking' \subseteq checking \cup {h}
          PROVE  checking' \subseteq {k \in Handlers : hpc'[k] = "idle"}
      BY <2>1, <3>4
    <3> QED
      BY <2>1, <3>1, <3>2, <3>3, <3>4 DEF Dispatch, vars
  <2> QED
    BY <2>2, <2>3
<1>6. ASSUME ServiceExit \/ \E n \in Numbered : ServiceSettle(n) \/ ServiceReach(n)
      PROVE  UNCHANGED <<hpc, arrived, checking, alerts>> /\ running' \in BOOLEAN
  BY <1>6 DEF ServiceExit, ServiceSettle, ServiceReach, vars
<1>7. CASE UNCHANGED serviceVars
  BY <1>7 DEF serviceVars, vars
<1> QED
  BY <1>1, <1>2, <1>3, <1>4, <1>5, <1>6, <1>7 DEF ServiceNext

\* Type correctness of the whole service; every heartbeat at work has its device
\* (main.go:525-609).
THEOREM ServiceTypeCorrect == ServiceSpec => []ServiceTypeOK
<1>1. ServiceInit => ServiceTypeOK
  <2>1. ServiceInit => TypeOK
    BY InitType DEF ServiceInit
  <2> QED
    BY <2>1 DEF ServiceInit, Init, ServiceTypeOK, Delivery!Init, Delivery!Outcomes,
                Delivery!Settled
<1>2. ServiceTypeOK /\ [ServiceNext]_serviceVars => ServiceTypeOK'
  <2> SUFFICES ASSUME ServiceTypeOK, [ServiceNext]_serviceVars PROVE ServiceTypeOK'
    OBVIOUS
  <2>1. TypeOK'
    BY StepsOfMonitor, NextType DEF ServiceTypeOK
  <2>2. outcome' \in [Numbered -> Delivery!Outcomes] /\ reaches' \in [Numbered -> Nat]
    BY StepsOfDelivery, DeliveryType DEF ServiceTypeOK
  <2> QED
    BY <2>1, <2>2, PipelineType, AtWorkType DEF ServiceTypeOK
<1> QED
  BY <1>1, <1>2, PTL DEF ServiceSpec

\* lib.go:69-122: what the service does with its notifications is what NotificationDelivery
\* allows: none reaches the cloud connector twice, none counts as posted that did not reach
\* it. (The fairness of NotificationDelivery is left to TLC.)
THEOREM ServiceRunsDelivery ==
  ServiceSpec => Delivery!Init /\ [][Delivery!Next]_(Delivery!vars)
BY ServiceTypeCorrect, StepsOfDelivery, PTL DEF ServiceSpec, ServiceInit

------------------------------------------------------------------------------
(* The first reading decides. *)

\* What the first reading of e asks for.
Asks(e, name) == e # <<>> /\ e[1].name = name /\ e[1].decodes

\* One more event raises the count of what its first reading asks for, and no other.
LEMMA ArrivalsAppend ==
  ASSUME arrived \in Seq(Events), NEW e \in Events, NEW name,
         arrived' = Append(arrived, e)
  PROVE  /\ Arrivals(name) \in Nat
         /\ Arrivals(name)' = Arrivals(name) + (IF Asks(e, name) THEN 1 ELSE 0)
<1> DEFINE Places(t) == {i \in DOMAIN t : Asks(t[i], name)}
           next == Len(arrived) + 1
<1>1. Arrivals(name) = Cardinality(Places(arrived))
      /\ Arrivals(name)' = Cardinality(Places(arrived'))
  BY DEF Arrivals, Asks
<1>2. IsFiniteSet(Places(arrived))
  <2>1. IsFiniteSet(1 .. Len(arrived))
    BY FS_Interval
  <2>2. Places(arrived) \subseteq 1 .. Len(arrived)
    OBVIOUS
  <2> QED
    BY <2>1, <2>2, FS_Subset
<1>3. next \notin Places(arrived)
  OBVIOUS
<1>4. ASSUME Asks(e, name) PROVE Places(arrived') = Places(arrived) \cup {next}
  BY <1>4
<1>5. ASSUME ~Asks(e, name) PROVE Places(arrived') = Places(arrived)
  BY <1>5
<1> HIDE DEF Places, next
<1> QED
  BY <1>1, <1>2, <1>3, <1>4, <1>5, FS_AddElement, FS_CardinalityType

\* The invocations that handle a heartbeat.
Busy == {h \in Handlers : hpc[h] # "idle"}

\* The invocations in flight can be counted.
LEMMA InFlightFinite ==
  ASSUME ServiceTypeOK
  PROVE  /\ IsFiniteSet(Busy) /\ Cardinality(Busy) \in Nat
         /\ IsFiniteSet(checking) /\ Cardinality(checking) \in Nat
BY ModelAssumption, FS_Subset, FS_CardinalityType DEF Busy, ServiceTypeOK

\* A heartbeat that arrives occupies an invocation, and its forwarding frees it
\* (main.go:118-177).
LEMMA BusyMoves ==
  ASSUME ServiceTypeOK, NEW h \in Handlers, NEW here, NEW there, HandlerAt(h, here, there)
  PROVE  /\ here = "idle" /\ there # "idle"
              => Cardinality(Busy)' = Cardinality(Busy) + 1
         /\ here # "idle" /\ there = "idle"
              => Cardinality(Busy)' = Cardinality(Busy) - 1
         /\ here # "idle" /\ there # "idle" => Busy' = Busy
<1> USE DEF HandlerAt
<1>1. hpc \in [Handlers -> HandlerPoints] /\ IsFiniteSet(Busy)
  BY InFlightFinite DEF ServiceTypeOK, TypeOK
<1>2. ASSUME here = "idle", there # "idle"
      PROVE  Cardinality(Busy)' = Cardinality(Busy) + 1
  <2>1. Busy' = Busy \cup {h} /\ h \notin Busy
    BY <1>1, <1>2 DEF Busy
  <2> QED
    BY <1>1, <2>1, FS_AddElement
<1>3. ASSUME here # "idle", there = "idle"
      PROVE  Cardinality(Busy)' = Cardinality(Busy) - 1
  <2>1. Busy' = Busy \ {h} /\ h \in Busy
    BY <1>1, <1>3 DEF Busy
  <2> QED
    BY <1>1, <2>1, FS_RemoveElement
<1>4. ASSUME here # "idle", there # "idle" PROVE Busy' = Busy
  BY <1>1, <1>4 DEF Busy
<1> QED
  BY <1>2, <1>3, <1>4

Forwarded == Count(ForwardHeartbeat, spawned)
InFlight  == Forwarded + Cardinality(Busy)

\* Both are numbers.
LEMMA InFlightType ==
  ASSUME ServiceTypeOK
  PROVE  Forwarded \in Nat /\ Cardinality(Busy) \in Nat
<1>1. Notify(MissedAlert, NoDevice) \in Notification
  BY DEF Notify, Notification, Kinds
<1>2. spawned \in Seq(Notification)
  BY DEF ServiceTypeOK, TypeOK
<1> QED
  BY <1>1, <1>2, CountAppend, InFlightFinite DEF Forwarded

\* main.go:118-177: a step of an invocation leaves the heartbeats forwarded or in flight.
LEMMA HandlerKeepsInFlight ==
  ASSUME ServiceTypeOK, NEW h \in Handlers, Handler(h)
  PROVE  InFlight' = InFlight
<1>1. /\ spawned \in Seq(Notification) /\ gateway.LastHeartbeat \in Devices \cup {NoDevice}
      /\ event[h].device \in Devices \cup {NoDevice}
  BY DEF ServiceTypeOK, TypeOK, GatewayType, EventType
<1>2. \A k \in Kinds, d \in Devices \cup {NoDevice} :
        Notify(k, d) \in Notification /\ Notify(k, d).kind = k
  BY DEF Notify, Notification
<1>3. Forwarded \in Nat
  BY InFlightType
<1>4. Cardinality(Busy) \in Nat
  BY InFlightType
<1>5. ASSUME \/ HandlerUpdate(h) \/ HandlerCheckPending(h) \/ HandlerCheckDeregistered(h)
             \/ HandlerRegister(h)
      PROVE  Forwarded' = Forwarded /\ Busy' = Busy
  <2>1. UNCHANGED spawned
    BY <1>5 DEF HandlerUpdate, HandlerCheckPending, HandlerCheckDeregistered,
                HandlerRegister
  <2>2. Busy' = Busy
    BY <1>5, BusyMoves DEF HandlerUpdate, HandlerCheckPending, HandlerCheckDeregistered,
                           HandlerRegister
  <2> QED
    BY <2>1, <2>2 DEF Forwarded
<1>6. ASSUME HandlerAlertRegistered(h) PROVE Forwarded' = Forwarded /\ Busy' = Busy
  <2>1. PICK n \in Notification : n.kind = RegisteredAlert /\ spawned' = Append(spawned, n)
    BY <1>1, <1>2, <1>6 DEF HandlerAlertRegistered, Kinds
  <2>2. Forwarded' = Forwarded
    BY <1>1, <1>3, <2>1, CountAppend, KindsDiffer DEF Forwarded
  <2> QED
    BY <1>6, <2>2, BusyMoves DEF HandlerAlertRegistered
<1>7. ASSUME HandlerForward(h)
      PROVE  Forwarded' = Forwarded + 1 /\ Cardinality(Busy)' = Cardinality(Busy) - 1
  <2>1. PICK n \in Notification : n.kind = ForwardHeartbeat /\ spawned' = Append(spawned, n)
    BY <1>1, <1>2, <1>7 DEF HandlerForward, Kinds
  <2>2. Forwarded' = Forwarded + 1
    BY <1>1, <1>3, <2>1, CountAppend DEF Forwarded
  <2> QED
    BY <1>7, <2>2, BusyMoves DEF HandlerForward
<1> HIDE DEF Forwarded, Busy
<1> QED
  BY <1>3, <1>4, <1>5, <1>6, <1>7 DEF Handler, InFlight

\* main.go:77-116: the watchdog forwards no heartbeat.
LEMMA WatchdogKeepsInFlight ==
  ASSUME ServiceTypeOK, Watchdog
  PROVE  InFlight' = InFlight
<1>1. /\ spawned \in Seq(Notification) /\ gateway.LastHeartbeat \in Devices \cup {NoDevice}
  BY DEF ServiceTypeOK, TypeOK, GatewayType
<1>2. \A k \in Kinds, d \in Devices \cup {NoDevice} :
        Notify(k, d) \in Notification /\ Notify(k, d).kind = k
  BY DEF Notify, Notification
<1>3. \/ UNCHANGED spawned
      \/ \E n \in Notification : n.kind # ForwardHeartbeat /\ spawned' = Append(spawned, n)
  <2>1. DeregisteredAlert # ForwardHeartbeat /\ MissedAlert # ForwardHeartbeat
    BY DEF DeregisteredAlert, MissedAlert, ForwardHeartbeat
  <2> QED
    BY <1>1, <1>2, <2>1
       DEF Watchdog, WatchdogCheckStatus, WatchdogReadSeen, WatchdogCheckAge,
           WatchdogCount, WatchdogCompare, WatchdogDeregister,
           WatchdogAlertDeregistered, WatchdogAlertMissed, Kinds
<1>4. Forwarded' = Forwarded
  <2>1. CASE UNCHANGED spawned
    BY <2>1 DEF Forwarded
  <2>2. ASSUME NEW n \in Notification, n.kind # ForwardHeartbeat, spawned' = Append(spawned, n)
        PROVE  Forwarded' = Forwarded
    BY <1>1, <2>2, CountAppend, InFlightType DEF Forwarded
  <2> QED
    BY <1>3, <2>1, <2>2
<1>5. Busy' = Busy
  BY DEF Watchdog, WatchdogCheckStatus, WatchdogReadSeen, WatchdogCheckAge,
         WatchdogCount, WatchdogCompare, WatchdogDeregister,
         WatchdogAlertDeregistered, WatchdogAlertMissed, handlerVars, Busy
<1> QED
  BY <1>4, <1>5 DEF InFlight

\* Of what a step may change, FirstReadingDecides compares these five numbers.
DecidesStep(heartbeats, deviceAlerts, notices, alerted, check) ==
  /\ InFlight' = InFlight + heartbeats
  /\ Arrivals(heartbeat)' = Arrivals(heartbeat) + heartbeats
  /\ Arrivals(deviceAlert)' = Arrivals(deviceAlert) + deviceAlerts
  /\ Arrivals(asnData)' = Arrivals(asnData) + notices
  /\ alerts' = alerts + alerted
  /\ Cardinality(checking)' = Cardinality(checking) + check

Unmoved       == DecidesStep(0, 0, 0, 0, 0)
HeartbeatIn   == DecidesStep(1, 0, 0, 0, 0)
AlertIn       == DecidesStep(0, 1, 0, 1, 0)
NoticeIn      == DecidesStep(0, 0, 1, 0, 1)
NoticeDone    == DecidesStep(0, 0, 0, 0, -1)
NoticeAlerted == DecidesStep(0, 0, 0, 1, -1)

\* The numbers of DecidesStep.
LEMMA DecidesType ==
  ASSUME ServiceTypeOK
  PROVE  /\ InFlight \in Nat /\ alerts \in Nat /\ Cardinality(checking) \in Nat
         /\ \A name : Arrivals(name) \in Nat
<1>1. InFlight \in Nat
  BY InFlightType DEF InFlight
<1>2. \A name : Arrivals(name) \in Nat
  <2> SUFFICES ASSUME NEW name PROVE Arrivals(name) \in Nat
    OBVIOUS
  <2> DEFINE Places == {i \in DOMAIN arrived : Asks(arrived[i], name)}
  <2>1. Arrivals(name) = Cardinality(Places)
    BY DEF Arrivals, Asks
  <2>2. Len(arrived) \in Nat /\ Places \subseteq 1 .. Len(arrived)
    BY DEF ServiceTypeOK
  <2>3. IsFiniteSet(1 .. Len(arrived))
    BY <2>2, FS_Interval
  <2> HIDE DEF Places
  <2> QED
    BY <2>1, <2>2, <2>3, FS_Subset, FS_CardinalityType
<1> QED
  BY <1>1, <1>2, InFlightFinite DEF ServiceTypeOK

\* The three names of readings are different.
LEMMA NamesDiffer ==
  heartbeat # deviceAlert /\ heartbeat # asnData /\ deviceAlert # asnData
BY DEF heartbeat, deviceAlert, asnData

\* main.go:525-609: the first reading of an event moves the numbers.
LEMMA ArriveMoves ==
  ASSUME ServiceTypeOK, NEW h \in Handlers, NEW e \in Events, Arrive(h, e)
  PROVE  Unmoved \/ HeartbeatIn \/ AlertIn \/ NoticeIn
<1> USE DecidesType DEF DecidesStep
<1>1. arrived \in Seq(Events) /\ arrived' = Append(arrived, e) /\ h \notin checking
  BY DEF ServiceTypeOK, Arrive, Free
<1>2. \A name : Arrivals(name)' = Arrivals(name) + (IF Asks(e, name) THEN 1 ELSE 0)
  BY <1>1, ArrivalsAppend
<1>3. ASSUME UNCHANGED vars PROVE InFlight' = InFlight
  BY <1>3 DEF vars, InFlight, Forwarded, Busy
<1>4. ASSUME e = <<>> \/ ~e[1].decodes PROVE Unmoved
  <2>1. \A name : ~Asks(e, name)
    BY <1>4 DEF Asks
  <2>2. UNCHANGED <<vars, checking, alerts>>
    BY <1>4 DEF Arrive, Dispatch
  <2> QED
    BY <1>2, <1>3, <2>1, <2>2 DEF Unmoved
<1>5. ASSUME e # <<>>, e[1].decodes PROVE HeartbeatIn \/ AlertIn \/ NoticeIn
  <2>1. Dispatch(h, e[1])
    BY <1>5 DEF Arrive
  <2>2. ASSUME e[1].name = heartbeat, Receive(h, e[1].device), UNCHANGED <<checking, alerts>>
        PROVE  HeartbeatIn
    <3>1. Asks(e, heartbeat) /\ ~Asks(e, deviceAlert) /\ ~Asks(e, asnData)
      BY <1>5, <2>2, NamesDiffer DEF Asks
    <3>2. Cardinality(Busy)' = Cardinality(Busy) + 1
      BY <2>2, BusyMoves DEF Receive
    <3>3. Forwarded' = Forwarded
      BY <2>2 DEF Receive, Forwarded
    <3>4. InFlight' = InFlight + 1
      BY <3>2, <3>3, InFlightType DEF InFlight
    <3> QED
      BY <1>2, <2>2, <3>1, <3>4 DEF HeartbeatIn
  <2>3. ASSUME e[1].name = deviceAlert, RaiseAlert, UNCHANGED <<vars, checking>>
        PROVE  AlertIn
    <3>1. ~Asks(e, heartbeat) /\ Asks(e, deviceAlert) /\ ~Asks(e, asnData)
      BY <1>5, <2>3, NamesDiffer DEF Asks
    <3> QED
      BY <1>2, <1>3, <2>3, <3>1 DEF AlertIn, RaiseAlert
  <2>4. ASSUME e[1].name = asnData, checking' = checking \cup {h}, UNCHANGED <<vars, alerts>>
        PROVE  NoticeIn
    <3>1. ~Asks(e, heartbeat) /\ ~Asks(e, deviceAlert) /\ Asks(e, asnData)
      BY <1>5, <2>4, NamesDiffer DEF Asks
    <3>2. Cardinality(checking)' = Cardinality(checking) + 1
      BY <1>1, <2>4, InFlightFinite, FS_AddElement
    <3> QED
      BY <1>2, <1>3, <2>4, <3>1, <3>2 DEF NoticeIn
  <2> QED
    BY <1>5, <2>1, <2>2, <2>3, <2>4 DEF Dispatch
<1> QED
  BY <1>4, <1>5

\* Every step of the service moves the numbers in one of six ways.
LEMMA DecidesSteps ==
  ASSUME ServiceTypeOK, [ServiceNext]_serviceVars
  PROVE  Unmoved \/ HeartbeatIn \/ AlertIn \/ NoticeIn \/ NoticeDone \/ NoticeAlerted
<1> USE DecidesType DEF DecidesStep
<1>1. ASSUME UNCHANGED pipelineVars, InFlight' = InFlight PROVE Unmoved
  <2>1. UNCHANGED <<arrived, checking, alerts>>
    BY <1>1 DEF pipelineVars
  <2>2. \A name : Arrivals(name)' = Arrivals(name)
    BY <2>1 DEF Arrivals
  <2>3. Cardinality(checking)' = Cardinality(checking)
    BY <2>1
  <2> QED
    BY <1>1, <2>1, <2>2, <2>3 DEF Unmoved
<1>2. ASSUME UNCHANGED <<spawned, hpc>> PROVE InFlight' = InFlight
  BY <1>2 DEF InFlight, Forwarded, Busy
<1>3. ASSUME ServiceTick \/ ServiceExit
             \/ (\E n \in Numbered : ServiceSettle(n) \/ ServiceReach(n))
      PROVE  Unmoved
  BY <1>1, <1>2, <1>3
     DEF ServiceTick, Tick, handlerVars, ServiceExit, ServiceSettle, ServiceReach, vars
<1>4. CASE ServiceWatchdog
  BY <1>1, <1>4, WatchdogKeepsInFlight DEF ServiceWatchdog
<1>5. ASSUME NEW h \in Handlers, ServiceHandler(h) PROVE Unmoved
  BY <1>1, <1>5, HandlerKeepsInFlight DEF ServiceHandler
<1>6. ASSUME NEW h \in Handlers, NoticeChecked(h) PROVE NoticeDone \/ NoticeAlerted
  <2>1. Cardinality(checking)' = Cardinality(checking) - 1
    BY <1>6, InFlightFinite, FS_RemoveElement DEF NoticeChecked
  <2>2. InFlight' = InFlight /\ \A name : Arrivals(name)' = Arrivals(name)
    BY <1>2, <1>6 DEF NoticeChecked, vars, Arrivals
  <2>3. alerts' = alerts \/ alerts' = alerts + 1
    BY <1>6 DEF NoticeChecked, RaiseAlert
  <2> QED
    BY <2>1, <2>2, <2>3 DEF NoticeDone, NoticeAlerted
<1>7. ASSUME NEW h \in Handlers, NEW e \in Events, Arrive(h, e)
      PROVE  Unmoved \/ HeartbeatIn \/ AlertIn \/ NoticeIn
  BY <1>7, ArriveMoves
<1>8. CASE UNCHANGED serviceVars
  BY <1>1, <1>2, <1>8 DEF serviceVars, vars
<1> QED
  BY <1>3, <1>4, <1>5, <1>6, <1>7, <1>8 DEF ServiceNext

\* main.go:525-609: the first reading of an event decides alone what becomes of it: every
\* event whose first reading is a heartbeat is in flight or forwarded, and forwarded once;
\* every device alert raises one alert, every notice at most one.
THEOREM FirstReadingRules == ServiceSpec => []FirstReadingDecides
<1> DEFINE Inv == /\ InFlight = Arrivals(heartbeat)
                  /\ Arrivals(deviceAlert) <= alerts
                  /\ alerts + Cardinality(checking)
                       <= Arrivals(deviceAlert) + Arrivals(asnData)
<1>1. ServiceInit => Inv
  <2> SUFFICES ASSUME ServiceInit PROVE Inv
    OBVIOUS
  <2>1. Busy = {} /\ checking = {}
    BY DEF ServiceInit, Init, Busy
  <2>2. Forwarded = 0
    BY FS_EmptySet DEF ServiceInit, Init, Forwarded, Count
  <2>3. \A name : Arrivals(name) = 0
    BY FS_EmptySet DEF ServiceInit, Arrivals
  <2> QED
    BY <2>1, <2>2, <2>3, FS_EmptySet DEF ServiceInit, InFlight
<1>2. ServiceTypeOK /\ Inv /\ [ServiceNext]_serviceVars => Inv'
  <2> SUFFICES ASSUME ServiceTypeOK, Inv, [ServiceNext]_serviceVars PROVE Inv'
    OBVIOUS
  <2> QED
    BY DecidesType, DecidesSteps
       DEF Unmoved, HeartbeatIn, AlertIn, NoticeIn, NoticeDone, NoticeAlerted, DecidesStep
<1>3. Inv => FirstReadingDecides
  BY DEF FirstReadingDecides, InFlight, Forwarded, Busy
<1> QED
  BY <1>1, <1>2, <1>3, ServiceTypeCorrect, PTL DEF ServiceSpec

------------------------------------------------------------------------------
(* The cloud can tell the status. *)

\* The notifications handed over are the ones raised, by their numbers.
NumberedInv ==
  \A k \in AllKinds :
    /\ Raised(k) <= MaxRaised
    /\ \A i \in 1 .. MaxRaised : outcome[<<k, i>>] # "new" <=> i <= Raised(k)

\* No notification that was not handed over or was dropped reaches the cloud connector, and
\* each one that was posted has.
ReachedInv ==
  /\ \A n \in Numbered : outcome[n] \in {"new", "dropped"} => ~Delivery!HasReached(n)
  /\ \A n \in Numbered : outcome[n] = "posted" => Delivery!HasReached(n)

\* Handing over a notification takes the next number of its kind.
LEMMA NumberedPreserved ==
  ASSUME ServiceTypeOK, NumberedInv, [ServiceNext]_serviceVars
  PROVE  NumberedInv'
<1>1. outcome \in [Numbered -> Delivery!Outcomes] /\ \A k \in AllKinds : Raised(k) \in Nat
  BY RaisedType DEF ServiceTypeOK
<1>2. ASSUME NEW k \in AllKinds, RaisesOne(k) PROVE NumberedInv'
  <2> DEFINE next == Raised(k) + 1
  <2>1. /\ Raised(k) < MaxRaised /\ Raised(k)' = next
        /\ outcome' = [outcome EXCEPT ![<<k, next>>] = "pending"]
        /\ \A j \in AllKinds \ {k} : Raised(j)' = Raised(j)
    BY <1>2 DEF RaisesOne, Raise, Delivery!Accept
  <2>2. \A j \in AllKinds, i \in 1 .. MaxRaised : <<j, i>> \in Numbered
    BY DEF Numbered
  <2>3. ASSUME NEW j \in AllKinds \ {k}, NEW i \in 1 .. MaxRaised
        PROVE  outcome'[<<j, i>>] # "new" <=> i <= Raised(j)'
    BY <1>1, <2>1, <2>2 DEF NumberedInv
  <2>4. ASSUME NEW i \in 1 .. MaxRaised
        PROVE  outcome'[<<k, i>>] # "new" <=> i <= Raised(k)'
    <3>1. CASE i = next
      BY <1>1, <2>1, <2>2, <3>1
    <3>2. CASE i # next
      <4>1. outcome'[<<k, i>>] = outcome[<<k, i>>]
        BY <1>1, <2>1, <2>2, <3>2
      <4>2. i <= Raised(k)' <=> i <= Raised(k)
        BY <1>1, <2>1, <3>2
      <4> QED
        BY <4>1, <4>2 DEF NumberedInv
    <3> QED
      BY <3>1, <3>2
  <2>5. \A j \in AllKinds : Raised(j)' <= MaxRaised
    BY <1>1, <2>1, ServiceAssumption DEF NumberedInv
  <2> QED
    BY <2>3, <2>4, <2>5 DEF NumberedInv
<1>3. ASSUME RaisesNone PROVE NumberedInv'
  <2>1. \A k \in AllKinds : Raised(k)' = Raised(k)
    BY <1>3 DEF RaisesNone
  <2>2. \A n \in Numbered : outcome'[n] = "new" <=> outcome[n] = "new"
    BY <1>1, <1>3
       DEF RaisesNone, deliveryVars, Delivery!Exit, Delivery!Reach, Delivery!Settle,
           Delivery!Settled
  <2>3. \A k \in AllKinds, i \in 1 .. MaxRaised : <<k, i>> \in Numbered
    BY DEF Numbered
  <2> QED
    BY <2>1, <2>2, <2>3 DEF NumberedInv
<1> QED
  BY <1>2, <1>3, ServiceSteps

\* The delivery keeps its promise (lib.go:85-122).
LEMMA ReachedPreserved ==
  ASSUME outcome \in [Numbered -> Delivery!Outcomes], reaches \in [Numbered -> Nat],
         ReachedInv, [Delivery!Next]_(Delivery!vars)
  PROVE  ReachedInv'
<1> USE DEF ReachedInv, Delivery!HasReached
<1>1. ASSUME NEW n \in Numbered, Delivery!Accept(n) PROVE ReachedInv'
  BY <1>1 DEF Delivery!Accept
<1>2. ASSUME NEW n \in Numbered, Delivery!Reach(n) PROVE ReachedInv'
  <2>1. /\ UNCHANGED outcome /\ outcome[n] \notin {"new", "dropped"}
        /\ reaches' = [reaches EXCEPT ![n] = @ + 1]
    BY <1>2 DEF Delivery!Reach
  <2>2. \A m \in Numbered : Delivery!HasReached(m)' <=> Delivery!HasReached(m) \/ m = n
    BY <2>1
  <2> QED
    BY <2>1, <2>2
<1>3. ASSUME NEW n \in Numbered, Delivery!Settle(n) PROVE ReachedInv'
  BY <1>3 DEF Delivery!Settle, Delivery!Settled
<1>4. CASE Delivery!Exit
  BY <1>4 DEF Delivery!Exit
<1>5. CASE UNCHANGED Delivery!vars
  BY <1>5 DEF Delivery!vars
<1> QED
  BY <1>1, <1>2, <1>3, <1>4, <1>5 DEF Delivery!Next

\* If all that was raised of a kind was posted, the cloud got as many as were raised.
LEMMA PostedAllReached ==
  ASSUME ServiceTypeOK, NumberedInv, ReachedInv, NEW k \in AllKinds,
         \A i \in 1 .. MaxRaised : outcome[<<k, i>>] \in {"new", "posted"}
  PROVE  ReachedOf(k) = Raised(k)
<1> DEFINE Got   == {n \in Numbered : n[1] = k /\ Delivery!HasReached(n)}
           number == [i \in 1 .. Raised(k) |-> <<k, i>>]
<1>1. /\ Raised(k) \in Nat /\ Raised(k) <= MaxRaised /\ MaxRaised \in Nat
  BY RaisedType, ServiceAssumption DEF NumberedInv
<1>2. \A i \in 1 .. MaxRaised : <<k, i>> \in Numbered /\ <<k, i>>[1] = k
  BY DEF Numbered
<1>3. \A i \in 1 .. Raised(k) : <<k, i>> \in Got
  <2> SUFFICES ASSUME NEW i \in 1 .. Raised(k) PROVE <<k, i>> \in Got
    OBVIOUS
  <2>1. i \in 1 .. MaxRaised
    BY <1>1
  <2>2. outcome[<<k, i>>] = "posted"
    BY <1>1, <2>1 DEF NumberedInv
  <2> QED
    BY <1>2, <2>1, <2>2 DEF ReachedInv
<1>4. \A n \in Got : \E i \in 1 .. Raised(k) : n = <<k, i>>
  <2> SUFFICES ASSUME NEW n \in Got PROVE \E i \in 1 .. Raised(k) : n = <<k, i>>
    OBVIOUS
  <2>1. PICK i \in 1 .. MaxRaised : n = <<k, i>>
    BY DEF Numbered
  <2>2. outcome[<<k, i>>] # "new"
    BY <1>2, <2>1 DEF ReachedInv
  <2> QED
    BY <1>1, <2>1, <2>2 DEF NumberedInv
<1> HIDE DEF Got
<1>5. number \in Bijection(1 .. Raised(k), Got)
  <2>1. number \in [1 .. Raised(k) -> Got]
    BY <1>3
  <2>2. \A i, j \in 1 .. Raised(k) : number[i] = number[j] => i = j
    OBVIOUS
  <2>3. \A n \in Got : \E i \in 1 .. Raised(k) : number[i] = n
    BY <1>4
  <2> HIDE DEF number
  <2> QED
    BY <2>1, <2>2, <2>3 DEF Bijection, Injection, Surjection, IsInjective
<1>6. ExistsBijection(1 .. Raised(k), Got)
  BY <1>5 DEF ExistsBijection
<1>7. Cardinality(Got) = Raised(k)
  BY <1>1, <1>6, FS_CountingElements
<1> QED
  BY <1>7 DEF ReachedOf, Got

\* main.go:86-139, lib.go:85-122: once every alert about a status change is raised and
\* posted, what the cloud got tells the status of the gateway, in whatever order it came.
THEOREM CloudKnowsStatus == ServiceSpec => []CloudTellsStatus
<1>1. ServiceInit => NumberedInv /\ ReachedInv
  <2> SUFFICES ASSUME ServiceInit PROVE NumberedInv /\ ReachedInv
    OBVIOUS
  <2>1. \A k \in AllKinds : Raised(k) = 0
    BY FS_EmptySet DEF ServiceInit, Init, Raised, Count
  <2> QED
    BY <2>1, ServiceAssumption
       DEF ServiceInit, NumberedInv, ReachedInv, Numbered, Delivery!Init, Delivery!HasReached
<1>2. ServiceTypeOK /\ NumberedInv /\ ReachedInv /\ [ServiceNext]_serviceVars
        => NumberedInv' /\ ReachedInv'
  BY NumberedPreserved, ReachedPreserved, StepsOfDelivery DEF ServiceTypeOK
<1>3. ServiceTypeOK /\ NumberedInv /\ ReachedInv /\ AlertsTellStatus => CloudTellsStatus
  <2> SUFFICES ASSUME ServiceTypeOK, NumberedInv, ReachedInv, AlertsTellStatus, ChangesPosted
               PROVE  LET told == ReachedOf(DeregisteredAlert)
                                    + (IF gateway.RegistrationStatus = Registered THEN 1 ELSE 0)
                      IN  /\ ReachedOf(RegisteredAlert) >= told
                          /\ ~overlapped => ReachedOf(RegisteredAlert) = told
    BY DEF CloudTellsStatus
  <2>1. ASSUME NEW k \in {RegisteredAlert, DeregisteredAlert}
        PROVE  ReachedOf(k) = Count(k, spawned) /\ Count(k, spawned) \in Nat
    <3>1. k \in AllKinds /\ k # ForwardAlert
      BY ForwardAlertDiffers DEF AllKinds, Kinds
    <3>2. \A i \in 1 .. MaxRaised : <<k, i>> \in Numbered /\ <<k, i>>[1] = k
      BY <3>1 DEF Numbered
    <3>3. \A i \in 1 .. MaxRaised : outcome[<<k, i>>] \in {"new", "posted"}
      BY <3>2 DEF ChangesPosted
    <3> QED
      BY <3>1, <3>3, PostedAllReached, RaisedType DEF Raised
  <2>2. {h \in Handlers : hpc[h] = "alertRegistered"} = {}
    BY DEF ChangesPosted
  <2>3. Registrations = Count(RegisteredAlert, spawned)
    BY <2>1, <2>2, FS_EmptySet DEF Registrations
  <2>4. Deregistrations = Count(DeregisteredAlert, spawned)
    BY <2>1 DEF Deregistrations, ChangesPosted
  <2> QED
    BY <2>1, <2>3, <2>4 DEF AlertsTellStatus
<1>4. ServiceSpec => []AlertsTellStatus
  BY ServiceRunsMonitor, AlertsMatchStatus, PTL
<1> QED
  BY <1>1, <1>2, <1>3, <1>4, ServiceTypeCorrect, PTL DEF ServiceSpec

==============================================================================
