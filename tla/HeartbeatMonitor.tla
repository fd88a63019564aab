-------------------------- MODULE HeartbeatMonitor --------------------------
(***************************************************************************)
(* Heartbeat supervision of main.go: the watchdog goroutine                *)
(* (monitorHeartbeat) and the pipeline invocations that handle             *)
(* controller_heartbeat readings (processHeartbeat, updateGatewayStatus),  *)
(* running over the shared singleton of GatewayStatus.                     *)
(*                                                                         *)
(* One step is one call of a gatewayStatus method with the local code      *)
(* around it: gatewayMutex is released between two calls, so every other   *)
(* thread may run in between.  A heartbeat that does not parse returns     *)
(* before it touches any state and is no step here.                        *)
(*                                                                         *)
(* Every notification is handed to a new goroutine that sends it on the    *)
(* channel.  spawned logs those goroutines in the order they are started;  *)
(* what happens to them afterwards is the subject of NotificationChannel.  *)
(***************************************************************************)
EXTENDS GatewayStatus, Integers, Sequences, FiniteSets

CONSTANTS Handlers,             \* pipeline invocations that may be in flight
          WatchdogSeconds,      \* config: watchdog period and allowed silence
          MaxMissedHeartbeats,  \* config: misses before deregistration
          Prompt,               \* TRUE: threads take no time (see Tick)
          MaxTime,              \* bound: last reading of the clock
          MaxHeartbeats         \* bound: heartbeats received

\* InitConfig rejects negative values of both settings (config.go:56,79).
ASSUME ConfigAssumption ==
  /\ WatchdogSeconds \in Nat
  /\ MaxMissedHeartbeats \in Nat

ASSUME ModelAssumption ==
  /\ Prompt \in BOOLEAN
  /\ MaxTime \in Nat
  /\ MaxHeartbeats \in Nat
  /\ IsFiniteSet(Handlers)

VARIABLES now,        \* the clock, in seconds
          gateway,    \* the gatewayStatus singleton
          wpc,        \* where the watchdog is
          wakeAt,     \* when its timer fires
          lastSeen,   \* the LastHeartbeatSeen it has read
          hpc,        \* where each handler is
          event,      \* the heartbeat each handler works on, with its arrival time
          received,   \* heartbeats received so far
          overlapped, \* history: a heartbeat came in while another was handled
          spawned     \* log of the notifications given to a goroutine

watchdogVars == <<wpc, wakeAt, lastSeen>>
handlerVars  == <<hpc, event, received, overlapped>>
vars == <<now, gateway, wpc, wakeAt, lastSeen, hpc, event, received, overlapped, spawned>>

------------------------------------------------------------------------------
\* Notifications: the NotificationMessage and the device id they carry.
RegisteredAlert   == "Gateway Registered Alert"
MissedAlert       == "Missed HeartBeat Alert"
DeregisteredAlert == "Gateway Deregistered Alert"
ForwardHeartbeat  == "Process Heartbeat"
Kinds == {RegisteredAlert, MissedAlert, DeregisteredAlert, ForwardHeartbeat}

Notification == [kind : Kinds, device : Devices \cup {NoDevice}]
Notify(k, d) == [kind |-> k, device |-> d]

\* How many notifications of kind k the log s holds.
Count(k, s) == Cardinality({i \in DOMAIN s : s[i].kind = k})

WatchdogPoints == {"sleeping", "readSeen", "checkAge", "count", "compare",
                   "deregister", "alertDeregistered", "alertMissed"}
HandlerPoints  == {"idle", "update", "checkPending", "checkDeregistered",
                   "register", "alertRegistered", "forward"}

NoEvent   == [device |-> NoDevice, seen |-> DefaultTime]
EventType == [device : Devices \cup {NoDevice}, seen : Nat]

Init ==
  /\ now = DefaultTime + 1
  /\ gateway = GetInstanceGateway
  /\ wpc = "sleeping"
  /\ wakeAt = now + WatchdogSeconds
  /\ lastSeen = DefaultTime
  /\ hpc = [h \in Handlers |-> "idle"]
  /\ event = [h \in Handlers |-> NoEvent]
  /\ received = 0
  /\ overlapped = FALSE
  /\ spawned = <<>>

------------------------------------------------------------------------------
\* Time may pass between any two steps.  Under Prompt the threads finish what
\* they can do before it does, which gives the deadlines of the design.
Tick ==
  /\ now < MaxTime
  /\ Prompt => /\ wpc = "sleeping" /\ now < wakeAt
               /\ \A h \in Handlers : hpc[h] = "idle"
  /\ now' = now + 1
  /\ UNCHANGED <<gateway, watchdogVars, handlerVars, spawned>>

------------------------------------------------------------------------------
\* The watchdog.
WatchdogAt(here, there) == wpc = here /\ wpc' = there

\* The loop starts over: a new time.After from the current time.
Sleep(here) ==
  /\ WatchdogAt(here, "sleeping")
  /\ wakeAt' = now + WatchdogSeconds
  /\ lastSeen' = DefaultTime

\* Mutant: only the age of the last heartbeat is looked at.
WatchdogIgnoresStatus ==
  /\ now >= wakeAt
  /\ WatchdogAt("sleeping", "readSeen")
  /\ UNCHANGED <<now, gateway, wakeAt, lastSeen, handlerVars, spawned>>

\* The timer fires and GetRegistrationStatus is read.
WatchdogCheckStatus ==
  /\ now >= wakeAt
  /\ IF gateway.RegistrationStatus = Registered
     THEN WatchdogAt("sleeping", "readSeen") /\ UNCHANGED <<wakeAt, lastSeen>>
     ELSE Sleep("sleeping")
  /\ UNCHANGED <<now, gateway, handlerVars, spawned>>

\* GetLastHeartbeatSeen is read, the argument of time.Since ...
WatchdogReadSeen ==
  /\ WatchdogAt("readSeen", "checkAge")
  /\ lastSeen' = gateway.LastHeartbeatSeen
  /\ UNCHANGED <<now, gateway, wakeAt, handlerVars, spawned>>

\* ... which then reads the clock.
WatchdogCheckAge ==
  /\ IF now - lastSeen > WatchdogSeconds
     THEN WatchdogAt("checkAge", "count") /\ UNCHANGED <<wakeAt, lastSeen>>
     ELSE Sleep("checkAge")
  /\ UNCHANGED <<now, gateway, handlerVars, spawned>>

WatchdogCount ==
  /\ WatchdogAt("count", "compare")
  /\ gateway' = UpdateMissedHeartBeats(gateway)
  /\ UNCHANGED <<now, wakeAt, lastSeen, handlerVars, spawned>>

\* Mutant: one miss more than the configured maximum.
WatchdogCompareStrictly ==
  /\ IF gateway.MissedHeartBeats > MaxMissedHeartbeats
     THEN WatchdogAt("compare", "deregister")
     ELSE WatchdogAt("compare", "alertMissed")
  /\ UNCHANGED <<now, gateway, wakeAt, lastSeen, handlerVars, spawned>>

WatchdogCompare ==
  /\ IF gateway.MissedHeartBeats >= MaxMissedHeartbeats
     THEN WatchdogAt("compare", "deregister")
     ELSE WatchdogAt("compare", "alertMissed")
  /\ UNCHANGED <<now, gateway, wakeAt, lastSeen, handlerVars, spawned>>

WatchdogDeregister ==
  /\ WatchdogAt("deregister", "alertDeregistered")
  /\ gateway' = DeregisterGateway(gateway)
  /\ UNCHANGED <<now, wakeAt, lastSeen, handlerVars, spawned>>

\* Mutant: the alert of the other branch, copied.
WatchdogAlertMissedInstead ==
  /\ Sleep("alertDeregistered")
  /\ spawned' = Append(spawned, Notify(MissedAlert, gateway.LastHeartbeat))
  /\ UNCHANGED <<now, gateway, handlerVars>>

\* GetLastHeartbeat is read and a goroutine is started with the alert.
WatchdogAlertDeregistered ==
  /\ Sleep("alertDeregistered")
  /\ spawned' = Append(spawned, Notify(DeregisteredAlert, gateway.LastHeartbeat))
  /\ UNCHANGED <<now, gateway, handlerVars>>

WatchdogAlertMissed ==
  /\ Sleep("alertMissed")
  /\ spawned' = Append(spawned, Notify(MissedAlert, gateway.LastHeartbeat))
  /\ UNCHANGED <<now, gateway, handlerVars>>

Watchdog ==
  \/ WatchdogCheckStatus
  \/ WatchdogReadSeen
  \/ WatchdogCheckAge
  \/ WatchdogCount
  \/ WatchdogCompare
  \/ WatchdogDeregister
  \/ WatchdogAlertDeregistered
  \/ WatchdogAlertMissed

------------------------------------------------------------------------------
\* The heartbeat handlers.
HandlerAt(h, here, there) ==
  /\ hpc[h] = here
  /\ hpc' = [hpc EXCEPT ![h] = there]

\* A reading arrives and parses; time.Now is read before the mutex is taken.
Receive(h, d) ==
  /\ received < MaxHeartbeats
  /\ HandlerAt(h, "idle", "update")
  /\ event' = [event EXCEPT ![h] = [device |-> d, seen |-> now]]
  /\ received' = received + 1
  /\ overlapped' = (overlapped \/ \E k \in Handlers : hpc[k] # "idle")
  /\ UNCHANGED <<now, gateway, watchdogVars, spawned>>

\* Mutant: the heartbeat does not clear the counter.
HandlerUpdateKeepsMissed(h) ==
  /\ HandlerAt(h, "update", "checkPending")
  /\ gateway' = UpdateGatewayStatus(gateway, event[h].seen,
                                    gateway.MissedHeartBeats, event[h].device)
  /\ UNCHANGED <<now, watchdogVars, event, received, overlapped, spawned>>

HandlerUpdate(h) ==
  /\ HandlerAt(h, "update", "checkPending")
  /\ gateway' = UpdateGatewayStatus(gateway, event[h].seen, 0, event[h].device)
  /\ UNCHANGED <<now, watchdogVars, event, received, overlapped, spawned>>

\* The two operands of || are two separate reads of the status.
HandlerCheckPending(h) ==
  /\ IF gateway.RegistrationStatus = Pending
     THEN HandlerAt(h, "checkPending", "register")
     ELSE HandlerAt(h, "checkPending", "checkDeregistered")
  /\ UNCHANGED <<now, gateway, watchdogVars, event, received, overlapped, spawned>>

HandlerCheckDeregistered(h) ==
  /\ IF gateway.RegistrationStatus = Deregistered
     THEN HandlerAt(h, "checkDeregistered", "register")
     ELSE HandlerAt(h, "checkDeregistered", "forward")
  /\ UNCHANGED <<now, gateway, watchdogVars, event, received, overlapped, spawned>>

\* Mutant: a registration without its alert.
HandlerRegisterSilently(h) ==
  /\ HandlerAt(h, "register", "forward")
  /\ gateway' = RegisterGateway(gateway)
  /\ UNCHANGED <<now, watchdogVars, event, received, overlapped, spawned>>

HandlerRegister(h) ==
  /\ HandlerAt(h, "register", "alertRegistered")
  /\ gateway' = RegisterGateway(gateway)
  /\ UNCHANGED <<now, watchdogVars, event, received, overlapped, spawned>>

HandlerAlertRegistered(h) ==
  /\ HandlerAt(h, "alertRegistered", "forward")
  /\ spawned' = Append(spawned, Notify(RegisteredAlert, gateway.LastHeartbeat))
  /\ UNCHANGED <<now, gateway, watchdogVars, event, received, overlapped>>

\* Mutant: only the heartbeats of a registered gateway are forwarded.
HandlerForwardRegistered(h) ==
  /\ HandlerAt(h, "forward", "idle")
  /\ event' = [event EXCEPT ![h] = NoEvent]
  /\ spawned' = IF gateway.RegistrationStatus = Registered
                THEN Append(spawned, Notify(ForwardHeartbeat, event[h].device))
                ELSE spawned
  /\ UNCHANGED <<now, gateway, watchdogVars, received, overlapped>>

HandlerForward(h) ==
  /\ HandlerAt(h, "forward", "idle")
  /\ event' = [event EXCEPT ![h] = NoEvent]
  /\ spawned' = Append(spawned, Notify(ForwardHeartbeat, event[h].device))
  /\ UNCHANGED <<now, gateway, watchdogVars, received, overlapped>>

Handler(h) ==
  \/ HandlerUpdate(h)
  \/ HandlerCheckPending(h)
  \/ HandlerCheckDeregistered(h)
  \/ HandlerRegister(h)
  \/ HandlerAlertRegistered(h)
  \/ HandlerForward(h)

Next ==
  \/ Tick
  \/ Watchdog
  \/ \E h \in Handlers : Handler(h) \/ \E d \in Devices : Receive(h, d)

Spec == Init /\ [][Next]_vars

\* A thread that can take its next step eventually does; the environment may
\* stop sending heartbeats.
FairSpec ==
  /\ Spec
  /\ WF_vars(Tick)
  /\ WF_vars(Watchdog)
  /\ \A h \in Handlers : WF_vars(Handler(h))

------------------------------------------------------------------------------
\* The variables have their types: no step of monitorHeartbeat (main.go:77) or
\* updateGatewayStatus (main.go:118) leaves them.
TypeOK ==
  /\ now \in Nat
  /\ gateway \in GatewayType
  /\ wpc \in WatchdogPoints
  /\ wakeAt \in Nat
  /\ lastSeen \in Nat
  /\ hpc \in [Handlers -> HandlerPoints]
  /\ event \in [Handlers -> EventType]
  /\ received \in Nat
  /\ overlapped \in BOOLEAN
  /\ spawned \in Seq(Notification)

\* The watchdog reads the status once, at the start of an iteration, and acts
\* on it five unprotected steps later.  The reading cannot go stale: no thread
\* but the watchdog itself ever takes a gateway out of Registered.
WatchdogActsOnRegistered ==
  wpc \in {"readSeen", "checkAge", "count", "compare", "deregister"}
    => gateway.RegistrationStatus = Registered

\* However the steps interleave and however late they run, the counter never
\* runs ahead of the clock by more than one: m misses mean that the last
\* heartbeat is at least m-1 watchdog periods old.  (The one is real: a
\* heartbeat may be stored after its predecessor's age was compared and before
\* the miss is counted.)
MissesAreSpaced ==
  gateway.MissedHeartBeats > 0
    => (gateway.MissedHeartBeats - 1) * WatchdogSeconds
         <= now - gateway.LastHeartbeatSeen

\* Registrations and deregistrations, counting those whose alert is still to be
\* raised.
Registrations ==
  Count(RegisteredAlert, spawned)
    + Cardinality({h \in Handlers : hpc[h] = "alertRegistered"})
Deregistrations ==
  Count(DeregisteredAlert, spawned) + (IF wpc = "alertDeregistered" THEN 1 ELSE 0)

\* The alerts tell the status: in every state the registrations exceed the
\* deregistrations by one exactly if the gateway is registered.  Once heartbeats
\* have been handled at once a registration may be told more than once, never less.
AlertsTellStatus ==
  LET told == Deregistrations
                + (IF gateway.RegistrationStatus = Registered THEN 1 ELSE 0)
  IN  /\ Registrations >= told
      /\ ~overlapped => Registrations = told

\* As long as heartbeats are handled one at a time, the times of a registered
\* gateway are in order, although they are stored by two separate steps and read
\* from the clock by a third.
SeenTimesOrdered ==
  ~overlapped /\ gateway.RegistrationStatus = Registered
    => /\ DefaultTime < gateway.FirstHeartbeatSeen
       /\ gateway.FirstHeartbeatSeen <= gateway.LastHeartbeatSeen
       /\ gateway.LastHeartbeatSeen <= now

\* When threads are prompt, a silent gateway does not stay registered: the
\* misses are counted in time for the configured limit.
DetectionDeadline ==
  LET misses == IF MaxMissedHeartbeats = 0 THEN 1 ELSE MaxMissedHeartbeats
  IN  gateway.RegistrationStatus = Registered /\ wpc = "sleeping"
        => now - gateway.LastHeartbeatSeen <= (misses + 1) * WatchdogSeconds

\* main.go:85 introduces the deregistration with "Since we have missed the maximum
\* amount of heartbeats": a gateway is deregistered only while its counter is at
\* the maximum.  The code compares and deregisters in two steps, and a heartbeat
\* stored between them clears the counter.
DeregisteredAfterMaxMissed ==
  [][gateway.RegistrationStatus # Deregistered /\ gateway'.RegistrationStatus = Deregistered
       => gateway.MissedHeartBeats >= MaxMissedHeartbeats]_vars

\* app/models/alert.go:39 says that GatewayRegisteredAlert is "generated when a new
\* gateway is seen in a heartbeat": a heartbeat is forwarded only after the alert
\* that registers its gateway.  The code keeps one status for all gateways.
EveryNewGatewayRegistered ==
  \A i \in DOMAIN spawned :
    spawned[i].kind = ForwardHeartbeat
      => \E j \in 1 .. i : spawned[j] = Notify(RegisteredAlert, spawned[i].device)

\* The abstract specification, its change counters read off the program counters
\* and its alerts off the log.
Registration == INSTANCE GatewayRegistration WITH
  concurrent <- overlapped,
  status <- gateway.RegistrationStatus,
  untold <- [ registration   |-> Cardinality({h \in Handlers : hpc[h] = "alertRegistered"}),
              deregistration |-> IF wpc = "alertDeregistered" THEN 1 ELSE 0 ],
  told   <- [ registration   |-> Count(RegisteredAlert, spawned),
              deregistration |-> Count(DeregisteredAlert, spawned) ]

\* The monitor implements GatewayRegistration, its liveness included: a status
\* change whose alert is never raised would break it.
ImplementsRegistration == Registration!Spec

==============================================================================
