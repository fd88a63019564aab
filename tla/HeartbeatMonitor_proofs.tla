----------------------- MODULE HeartbeatMonitor_proofs -----------------------
(***************************************************************************)
(* Theorems about HeartbeatMonitor, for every set of devices and handlers, *)
(* every watchdog period and limit, and every bound.                       *)
(***************************************************************************)
EXTENDS HeartbeatMonitor, FiniteSetTheorems, TLAPS

------------------------------------------------------------------------------
(* What the methods of the singleton preserve. *)

\* GatewayStatus.go: every method maps a gateway to a gateway.
LEMMA GatewayMethodsType ==
  ASSUME NEW g \in GatewayType
  PROVE  /\ \A seen \in Nat, missed \in Nat, hb \in Devices \cup {NoDevice} :
              UpdateGatewayStatus(g, seen, missed, hb) \in GatewayType
         /\ RegisterGateway(g) \in GatewayType
         /\ UpdateMissedHeartBeats(g) \in GatewayType
         /\ DeregisterGateway(g) \in GatewayType
<1> USE DEF GatewayType
<1>1. \A seen \in Nat, missed \in Nat, hb \in Devices \cup {NoDevice} :
        UpdateGatewayStatus(g, seen, missed, hb) \in GatewayType
  BY DEF UpdateGatewayStatus
<1>2. RegisterGateway(g) \in GatewayType
  BY DEF RegisterGateway, Status
<1>3. UpdateMissedHeartBeats(g) \in GatewayType
  BY DEF UpdateMissedHeartBeats
<1>4. DeregisterGateway(g) \in GatewayType
  BY DEF DeregisterGateway, Status
<1> QED
  BY <1>1, <1>2, <1>3, <1>4

\* GatewayStatus.go: which fields a method assigns and which it leaves alone.
LEMMA GatewayMethodsFields ==
  ASSUME NEW g \in GatewayType
  PROVE  /\ \A seen, missed, hb :
              LET u == UpdateGatewayStatus(g, seen, missed, hb)
              IN  /\ u.RegistrationStatus = g.RegistrationStatus
                  /\ u.LastHeartbeatSeen = seen
                  /\ u.FirstHeartbeatSeen = g.FirstHeartbeatSeen
                  /\ u.MissedHeartBeats = missed
         /\ LET r == RegisterGateway(g)
            IN  /\ r.RegistrationStatus = Registered
                /\ r.LastHeartbeatSeen = g.LastHeartbeatSeen
                /\ r.FirstHeartbeatSeen = g.LastHeartbeatSeen
                /\ r.MissedHeartBeats = g.MissedHeartBeats
         /\ LET m == UpdateMissedHeartBeats(g)
            IN  /\ m.RegistrationStatus = g.RegistrationStatus
                /\ m.LastHeartbeatSeen = g.LastHeartbeatSeen
                /\ m.FirstHeartbeatSeen = g.FirstHeartbeatSeen
                /\ m.MissedHeartBeats = g.MissedHeartBeats + 1
         /\ LET d == DeregisterGateway(g)
            IN  /\ d.RegistrationStatus = Deregistered
                /\ d.LastHeartbeatSeen = g.LastHeartbeatSeen
                /\ d.FirstHeartbeatSeen = g.FirstHeartbeatSeen
                /\ d.MissedHeartBeats = g.MissedHeartBeats
BY DEF GatewayType, UpdateGatewayStatus, RegisterGateway, UpdateMissedHeartBeats,
       DeregisterGateway

------------------------------------------------------------------------------
(* Type correctness. *)

\* The singleton and the threads start well-typed (GatewayStatus.go:39, main.go:407).
LEMMA InitType == Init => TypeOK
<1> SUFFICES ASSUME Init PROVE TypeOK
  OBVIOUS
<1>1. overlapped \in BOOLEAN
  BY DEF Init
<1>2. gateway \in GatewayType /\ NoEvent \in EventType
  BY DEF Init, GatewayType, GetInstanceGateway, DefaultTime, Status, Pending,
         EventType, NoEvent
<1> QED
  BY <1>1, <1>2, ConfigAssumption
     DEF Init, TypeOK, DefaultTime, WatchdogPoints, HandlerPoints

\* Every step of monitorHeartbeat (main.go:77) keeps the types.
LEMMA WatchdogType == TypeOK /\ Watchdog => TypeOK'
<1> SUFFICES ASSUME TypeOK, Watchdog PROVE TypeOK'
  OBVIOUS
<1> USE ConfigAssumption
    DEF TypeOK, handlerVars, WatchdogAt, WatchdogPoints
<1>1. CASE WatchdogCheckStatus
  BY <1>1 DEF WatchdogCheckStatus, Sleep, DefaultTime
<1>2. CASE WatchdogReadSeen
  BY <1>2 DEF WatchdogReadSeen, GatewayType
<1>3. CASE WatchdogCheckAge
  BY <1>3 DEF WatchdogCheckAge, Sleep, DefaultTime
<1>4. CASE WatchdogCount
  BY <1>4, GatewayMethodsType DEF WatchdogCount
<1>5. CASE WatchdogCompare
  BY <1>5 DEF WatchdogCompare
<1>6. CASE WatchdogDeregister
  BY <1>6, GatewayMethodsType DEF WatchdogDeregister
<1>7. CASE WatchdogAlertDeregistered
  <2>1. Notify(DeregisteredAlert, gateway.LastHeartbeat) \in Notification
    BY DEF Notify, Notification, Kinds, GatewayType
  <2> QED
    BY <1>7, <2>1 DEF WatchdogAlertDeregistered, Sleep, DefaultTime
<1>8. CASE WatchdogAlertMissed
  <2>1. Notify(MissedAlert, gateway.LastHeartbeat) \in Notification
    BY DEF Notify, Notification, Kinds, GatewayType
  <2> QED
    BY <1>8, <2>1 DEF WatchdogAlertMissed, Sleep, DefaultTime
<1> QED
  BY <1>1, <1>2, <1>3, <1>4, <1>5, <1>6, <1>7, <1>8 DEF Watchdog

\* Every step of a heartbeat invocation (main.go:118-177) keeps the types.
LEMMA HandlerType ==
  ASSUME NEW h \in Handlers
  PROVE  TypeOK /\ Handler(h) => TypeOK'
<1> SUFFICES ASSUME TypeOK, Handler(h) PROVE TypeOK'
  OBVIOUS
<1> USE DEF TypeOK, watchdogVars, HandlerAt, HandlerPoints
<1>1. CASE HandlerUpdate(h)
  BY <1>1, GatewayMethodsType DEF HandlerUpdate, EventType
<1>2. CASE HandlerCheckPending(h)
  BY <1>2 DEF HandlerCheckPending
<1>3. CASE HandlerCheckDeregistered(h)
  BY <1>3 DEF HandlerCheckDeregistered
<1>4. CASE HandlerRegister(h)
  BY <1>4, GatewayMethodsType DEF HandlerRegister
<1>5. CASE HandlerAlertRegistered(h)
  <2>1. Notify(RegisteredAlert, gateway.LastHeartbeat) \in Notification
    BY DEF Notify, Notification, Kinds, GatewayType
  <2> QED
    BY <1>5, <2>1 DEF HandlerAlertRegistered
<1>6. CASE HandlerForward(h)
  <2>1. Notify(ForwardHeartbeat, event[h].device) \in Notification
    BY DEF Notify, Notification, Kinds, EventType
  <2>2. NoEvent \in EventType
    BY DEF NoEvent, EventType, DefaultTime
  <2> QED
    BY <1>6, <2>1, <2>2 DEF HandlerForward
<1> QED
  BY <1>1, <1>2, <1>3, <1>4, <1>5, <1>6 DEF Handler

\* Type correctness is inductive.
LEMMA NextType == TypeOK /\ [Next]_vars => TypeOK'
<1> SUFFICES ASSUME TypeOK, [Next]_vars PROVE TypeOK'
  OBVIOUS
<1>1. CASE Tick
  BY <1>1 DEF TypeOK, Tick, watchdogVars, handlerVars
<1>2. CASE Watchdog
  BY <1>2, WatchdogType
<1>3. ASSUME NEW h \in Handlers, Handler(h) PROVE TypeOK'
  BY <1>3, HandlerType
<1>4. ASSUME NEW h \in Handlers, NEW d \in Devices, Receive(h, d) PROVE TypeOK'
  BY <1>4 DEF TypeOK, Receive, HandlerAt, HandlerPoints, EventType, watchdogVars
<1>5. CASE UNCHANGED vars
  BY <1>5 DEF TypeOK, vars
<1> QED
  BY <1>1, <1>2, <1>3, <1>4, <1>5 DEF Next

\* Type correctness of the supervision of main.go:77-177.
THEOREM TypeCorrect == Spec => []TypeOK
BY InitType, NextType, PTL DEF Spec

------------------------------------------------------------------------------
(* The status read at the start of a watchdog iteration does not go stale. *)

\* main.go:82-86: between the reading of the status and the deregistration, the
\* gateway stays registered, whatever the handlers do.
THEOREM ActsOnRegistered == Spec => []WatchdogActsOnRegistered
<1> USE DEF WatchdogActsOnRegistered
<1>1. Init => WatchdogActsOnRegistered
  BY DEF Init
<1>2. TypeOK /\ WatchdogActsOnRegistered /\ [Next]_vars => WatchdogActsOnRegistered'
  <2> SUFFICES ASSUME TypeOK, WatchdogActsOnRegistered, [Next]_vars
               PROVE  WatchdogActsOnRegistered'
    OBVIOUS
  <2> gateway \in GatewayType
    BY DEF TypeOK
  <2>1. CASE Tick
    BY <2>1 DEF Tick, watchdogVars
  <2>2. CASE Watchdog
    BY <2>2, GatewayMethodsFields
       DEF Watchdog, WatchdogCheckStatus, WatchdogReadSeen, WatchdogCheckAge,
           WatchdogCount, WatchdogCompare, WatchdogDeregister,
           WatchdogAlertDeregistered, WatchdogAlertMissed, WatchdogAt, Sleep
  <2>3. ASSUME NEW h \in Handlers, Handler(h) PROVE WatchdogActsOnRegistered'
    <3>1. gateway'.RegistrationStatus \in {gateway.RegistrationStatus, Registered}
      BY <2>3, GatewayMethodsFields
         DEF Handler, HandlerUpdate, HandlerCheckPending, HandlerCheckDeregistered,
             HandlerRegister, HandlerAlertRegistered, HandlerForward
    <3>2. UNCHANGED wpc
      BY <2>3 DEF Handler, HandlerUpdate, HandlerCheckPending, HandlerCheckDeregistered,
                  HandlerRegister, HandlerAlertRegistered, HandlerForward, watchdogVars
    <3> QED
      BY <3>1, <3>2
  <2>4. ASSUME NEW h \in Handlers, NEW d \in Devices, Receive(h, d)
        PROVE  WatchdogActsOnRegistered'
    BY <2>4 DEF Receive, watchdogVars
  <2>5. CASE UNCHANGED vars
    BY <2>5 DEF vars
  <2> QED
    BY <2>1, <2>2, <2>3, <2>4, <2>5 DEF Next
<1> QED
  BY <1>1, <1>2, TypeCorrect, PTL DEF Spec

------------------------------------------------------------------------------
(* Misses are spaced by the timer. *)

\* m watchdog periods.
Periods(m) == m * WatchdogSeconds

\* Watchdog periods add up like numbers.
LEMMA PeriodsFacts ==
  /\ Periods(0) = 0
  /\ \A m \in Nat : Periods(m) \in Nat /\ Periods(m + 1) = Periods(m) + WatchdogSeconds
BY ConfigAssumption DEF Periods

\* No stored time lies in the future.
SeenInPast ==
  /\ gateway.LastHeartbeatSeen <= now
  /\ \A h \in Handlers : event[h].seen <= now

\* While the watchdog sleeps, its timer accounts for every miss counted since the
\* last heartbeat; once it wakes, the clock does, the miss being counted excepted.
SpacingInv ==
  LET silence == IF wpc = "sleeping" THEN wakeAt - gateway.LastHeartbeatSeen
                                     ELSE now - gateway.LastHeartbeatSeen
      beforeCount == wpc \in {"sleeping", "readSeen", "checkAge", "count"}
  IN  /\ wakeAt <= now + WatchdogSeconds
      /\ gateway.MissedHeartBeats > 0
           => Periods(gateway.MissedHeartBeats)
                <= silence + (IF beforeCount THEN 0 ELSE WatchdogSeconds)

\* No step of main.go:77-177 stores a time that lies in the future.
LEMMA SeenInPastPreserved == TypeOK /\ SeenInPast /\ [Next]_vars => SeenInPast'
<1> SUFFICES ASSUME TypeOK, SeenInPast, [Next]_vars PROVE SeenInPast'
  OBVIOUS
<1> USE DEF SeenInPast, TypeOK
<1>1. CASE Tick
  BY <1>1 DEF Tick, handlerVars, GatewayType, EventType
<1>2. CASE Watchdog
  <2>1. gateway'.LastHeartbeatSeen = gateway.LastHeartbeatSeen
    BY <1>2, GatewayMethodsFields
       DEF Watchdog, WatchdogCheckStatus, WatchdogReadSeen, WatchdogCheckAge,
           WatchdogCount, WatchdogCompare, WatchdogDeregister,
           WatchdogAlertDeregistered, WatchdogAlertMissed
  <2>2. UNCHANGED <<now, event>>
    BY <1>2 DEF Watchdog, WatchdogCheckStatus, WatchdogReadSeen, WatchdogCheckAge,
                WatchdogCount, WatchdogCompare, WatchdogDeregister,
                WatchdogAlertDeregistered, WatchdogAlertMissed, handlerVars
  <2> QED
    BY <2>1, <2>2
<1>3. ASSUME NEW h \in Handlers, Handler(h) PROVE SeenInPast'
  <2>1. CASE HandlerUpdate(h)
    BY <2>1, GatewayMethodsFields DEF HandlerUpdate
  <2>2. CASE HandlerForward(h)
    BY <2>2 DEF HandlerForward, NoEvent, DefaultTime
  <2>3. CASE HandlerRegister(h)
    BY <2>3, GatewayMethodsFields DEF HandlerRegister
  <2>4. CASE \/ HandlerCheckPending(h) \/ HandlerCheckDeregistered(h)
             \/ HandlerAlertRegistered(h)
    BY <2>4 DEF HandlerCheckPending, HandlerCheckDeregistered, HandlerAlertRegistered
  <2> QED
    BY <1>3, <2>1, <2>2, <2>3, <2>4 DEF Handler
<1>4. ASSUME NEW h \in Handlers, NEW d \in Devices, Receive(h, d) PROVE SeenInPast'
  BY <1>4 DEF Receive
<1>5. CASE UNCHANGED vars
  BY <1>5 DEF vars
<1> QED
  BY <1>1, <1>2, <1>3, <1>4, <1>5 DEF Next

\* Counting a miss (main.go:83) keeps pace with the timer (main.go:80).
LEMMA SpacingPreserved ==
  TypeOK /\ SeenInPast /\ SpacingInv /\ [Next]_vars => SpacingInv'
<1> SUFFICES ASSUME TypeOK, SeenInPast, SpacingInv, [Next]_vars PROVE SpacingInv'
  OBVIOUS
<1> USE ConfigAssumption DEF TypeOK, SpacingInv, SeenInPast
<1>1. /\ gateway.MissedHeartBeats \in Nat
      /\ gateway.LastHeartbeatSeen \in Nat
      /\ Periods(gateway.MissedHeartBeats) \in Nat
  BY PeriodsFacts DEF GatewayType
<1>2. CASE Tick
  BY <1>1, <1>2 DEF Tick, watchdogVars
<1>3. CASE Watchdog
  <2> USE DEF WatchdogAt
  <2>1. CASE WatchdogCheckStatus
    BY <1>1, <2>1 DEF WatchdogCheckStatus, Sleep
  <2>2. CASE WatchdogReadSeen
    BY <1>1, <2>2 DEF WatchdogReadSeen
  <2>3. CASE WatchdogCheckAge
    BY <1>1, <2>3 DEF WatchdogCheckAge, Sleep
  <2>4. CASE WatchdogCount
    <3>1. /\ gateway'.MissedHeartBeats = gateway.MissedHeartBeats + 1
          /\ gateway'.LastHeartbeatSeen = gateway.LastHeartbeatSeen
      BY <2>4, GatewayMethodsFields DEF WatchdogCount
    <3>2. Periods(gateway'.MissedHeartBeats)
            = Periods(gateway.MissedHeartBeats) + WatchdogSeconds
      BY <1>1, <3>1, PeriodsFacts
    <3>3. Periods(gateway.MissedHeartBeats) <= now - gateway.LastHeartbeatSeen
      <4>1. CASE gateway.MissedHeartBeats = 0
        <5>1. Periods(gateway.MissedHeartBeats) = 0
          BY <4>1, PeriodsFacts
        <5> QED
          BY <5>1, <1>1
      <4>2. CASE gateway.MissedHeartBeats > 0
        BY <4>2, <1>1, <2>4 DEF WatchdogCount
      <4> QED
        BY <4>1, <4>2, <1>1
    <3> QED
      BY <1>1, <2>4, <3>1, <3>2, <3>3 DEF WatchdogCount
  <2>5. CASE WatchdogCompare
    BY <1>1, <2>5 DEF WatchdogCompare
  <2>6. CASE WatchdogDeregister
    <3>1. /\ gateway'.MissedHeartBeats = gateway.MissedHeartBeats
          /\ gateway'.LastHeartbeatSeen = gateway.LastHeartbeatSeen
      BY <2>6, GatewayMethodsFields DEF WatchdogDeregister
    <3> QED
      BY <1>1, <2>6, <3>1 DEF WatchdogDeregister
  <2>7. CASE WatchdogAlertDeregistered
    BY <1>1, <2>7 DEF WatchdogAlertDeregistered, Sleep
  <2>8. CASE WatchdogAlertMissed
    BY <1>1, <2>8 DEF WatchdogAlertMissed, Sleep
  <2> QED
    BY <1>3, <2>1, <2>2, <2>3, <2>4, <2>5, <2>6, <2>7, <2>8 DEF Watchdog
<1>4. ASSUME NEW h \in Handlers, Handler(h) PROVE SpacingInv'
  <2>1. UNCHANGED <<now, wpc, wakeAt>>
    BY <1>4 DEF Handler, HandlerUpdate, HandlerCheckPending, HandlerCheckDeregistered,
                HandlerRegister, HandlerAlertRegistered, HandlerForward, watchdogVars
  <2>2. CASE HandlerUpdate(h)
    <3>1. gateway'.MissedHeartBeats = 0
      BY <2>2, GatewayMethodsFields DEF HandlerUpdate
    <3> QED
      BY <2>1, <3>1
  <2>3. CASE ~HandlerUpdate(h)
    <3>1. /\ gateway'.MissedHeartBeats = gateway.MissedHeartBeats
          /\ gateway'.LastHeartbeatSeen = gateway.LastHeartbeatSeen
      BY <1>4, <2>3, GatewayMethodsFields
         DEF Handler, HandlerCheckPending, HandlerCheckDeregistered,
             HandlerRegister, HandlerAlertRegistered, HandlerForward
    <3> QED
      BY <2>1, <3>1
  <2> QED
    BY <2>2, <2>3
<1>5. ASSUME NEW h \in Handlers, NEW d \in Devices, Receive(h, d) PROVE SpacingInv'
  BY <1>5 DEF Receive, watchdogVars
<1>6. CASE UNCHANGED vars
  BY <1>6 DEF vars
<1> QED
  BY <1>2, <1>3, <1>4, <1>5, <1>6 DEF Next

\* main.go:80-84, 119-122: m misses on the counter mean that the last heartbeat is
\* at least m-1 watchdog periods old, however the steps interleave.
THEOREM MissesSpaced == Spec => []MissesAreSpaced
<1>1. Init => SeenInPast /\ SpacingInv
  BY ConfigAssumption
     DEF Init, SeenInPast, SpacingInv, GetInstanceGateway, NoEvent, DefaultTime
<1>2. TypeOK /\ SeenInPast /\ SpacingInv => MissesAreSpaced
  <2> SUFFICES ASSUME TypeOK, SeenInPast, SpacingInv, gateway.MissedHeartBeats > 0
               PROVE  (gateway.MissedHeartBeats - 1) * WatchdogSeconds
                        <= now - gateway.LastHeartbeatSeen
    BY DEF MissesAreSpaced
  <2> DEFINE before == gateway.MissedHeartBeats - 1
  <2>1. before \in Nat /\ gateway.MissedHeartBeats = before + 1
    BY DEF TypeOK, GatewayType
  <2>2. Periods(gateway.MissedHeartBeats) = Periods(before) + WatchdogSeconds
    BY <2>1, PeriodsFacts
  <2>3. Periods(before) \in Nat
    BY <2>1, PeriodsFacts
  <2>4. Periods(before) <= now - gateway.LastHeartbeatSeen
    BY <2>2, <2>3, ConfigAssumption DEF SpacingInv, SeenInPast, TypeOK, GatewayType
  <2> QED
    BY <2>4 DEF Periods
<1>3. Spec => [](TypeOK /\ SeenInPast /\ SpacingInv)
  BY <1>1, InitType, NextType, SeenInPastPreserved, SpacingPreserved, PTL DEF Spec
<1> QED
  BY <1>2, <1>3, PTL

------------------------------------------------------------------------------
(* Heartbeats that are handled one at a time. *)

\* Until heartbeats have overlapped, at most one invocation is at work.
OneAtATime ==
  ~overlapped
    => \A h, k \in Handlers : hpc[h] # "idle" /\ hpc[k] # "idle" => h = k

\* A step of an invocation that is at work leaves the others where they are.
LEMMA HandlerMovesItself ==
  ASSUME TypeOK, NEW h \in Handlers, Handler(h)
  PROVE  /\ hpc[h] # "idle" /\ UNCHANGED <<now, overlapped>>
         /\ \A k \in Handlers : k # h => hpc'[k] = hpc[k] /\ event'[k] = event[k]
BY DEF Handler, HandlerUpdate, HandlerCheckPending, HandlerCheckDeregistered, HandlerRegister,
       HandlerAlertRegistered, HandlerForward, HandlerAt, TypeOK, vars

\* The watchdog leaves the handlers and what they work on alone.
LEMMA WatchdogLeavesHandlers == Watchdog => UNCHANGED <<now, hpc, event, received, overlapped>>
BY DEF Watchdog, WatchdogCheckStatus, WatchdogReadSeen, WatchdogCheckAge, WatchdogCount,
       WatchdogCompare, WatchdogDeregister, WatchdogAlertDeregistered, WatchdogAlertMissed,
       handlerVars

\* An invocation that starts (main.go:540) is alone, or from now on heartbeats have
\* overlapped.
LEMMA OneAtATimePreserved == TypeOK /\ OneAtATime /\ [Next]_vars => OneAtATime'
<1> SUFFICES ASSUME TypeOK, OneAtATime, [Next]_vars PROVE OneAtATime'
  OBVIOUS
<1> USE DEF OneAtATime
<1>1. CASE Tick
  BY <1>1 DEF Tick, handlerVars
<1>2. CASE Watchdog
  BY <1>2, WatchdogLeavesHandlers
<1>3. ASSUME NEW h \in Handlers, Handler(h) PROVE OneAtATime'
  BY <1>3, HandlerMovesItself
<1>4. ASSUME NEW h \in Handlers, NEW d \in Devices, Receive(h, d) PROVE OneAtATime'
  BY <1>4 DEF Receive, HandlerAt, TypeOK
<1>5. CASE UNCHANGED vars
  BY <1>5 DEF vars
<1> QED
  BY <1>1, <1>2, <1>3, <1>4, <1>5 DEF Next

\* At the start every invocation is idle (main.go:407).
LEMMA OneAtATimeInvariant == Spec => []OneAtATime
<1>1. Init => OneAtATime
  BY DEF Init, OneAtATime
<1> QED
  BY <1>1, TypeCorrect, OneAtATimePreserved, PTL DEF Spec

------------------------------------------------------------------------------
(* The times of a gateway whose heartbeats are handled one at a time are in order. *)

\* The reading of the clock a handler carries is real, and no older than the last
\* one stored; once stored, it is there for RegisterGateway to copy.
OrderInv ==
  /\ now > DefaultTime
  /\ ~overlapped => \A h \in Handlers :
       /\ hpc[h] = "update"
            => event[h].seen > DefaultTime /\ gateway.LastHeartbeatSeen <= event[h].seen
       /\ hpc[h] \notin {"idle", "update"} => gateway.LastHeartbeatSeen > DefaultTime

\* main.go:119-124, GatewayStatus.go:51-67: as long as one heartbeat is handled at a time, a
\* registered gateway was first seen no later than last, and neither is unset.
THEOREM SeenOrdered == Spec => []SeenTimesOrdered
<1> DEFINE Inv == SeenInPast /\ OrderInv /\ SeenTimesOrdered
<1>1. Init => Inv
  BY DEF Init, SeenInPast, OrderInv, SeenTimesOrdered, GetInstanceGateway, NoEvent,
         DefaultTime, Pending, Registered
<1>2. TypeOK /\ OneAtATime /\ Inv /\ [Next]_vars => Inv'
  <2> SUFFICES ASSUME TypeOK, OneAtATime, Inv, [Next]_vars
               PROVE  (OrderInv /\ SeenTimesOrdered)'
    BY SeenInPastPreserved
  <2> USE DEF OrderInv, SeenTimesOrdered, DefaultTime
  <2>1. /\ gateway \in GatewayType
        /\ gateway.LastHeartbeatSeen \in Nat /\ gateway.FirstHeartbeatSeen \in Nat
        /\ now \in Nat /\ gateway.LastHeartbeatSeen <= now
        /\ \A h \in Handlers : event[h].seen \in Nat /\ event[h].seen <= now
    BY DEF TypeOK, GatewayType, EventType, SeenInPast
  <2>2. CASE Tick
    BY <2>1, <2>2 DEF Tick, handlerVars
  <2>3. CASE Watchdog
    <3>1. /\ gateway'.LastHeartbeatSeen = gateway.LastHeartbeatSeen
          /\ gateway'.FirstHeartbeatSeen = gateway.FirstHeartbeatSeen
          /\ gateway'.RegistrationStatus \in {gateway.RegistrationStatus, Deregistered}
      BY <2>1, <2>3, GatewayMethodsFields
         DEF Watchdog, WatchdogCheckStatus, WatchdogReadSeen, WatchdogCheckAge,
             WatchdogCount, WatchdogCompare, WatchdogDeregister,
             WatchdogAlertDeregistered, WatchdogAlertMissed
    <3> QED
      BY <2>1, <2>3, <3>1, WatchdogLeavesHandlers DEF Registered, Deregistered
  <2>4. ASSUME NEW h \in Handlers, Handler(h) PROVE (OrderInv /\ SeenTimesOrdered)'
    <3>o. CASE overlapped
      BY <2>4, <3>o, HandlerMovesItself
    <3> SUFFICES ASSUME ~overlapped PROVE (OrderInv /\ SeenTimesOrdered)'
      BY <3>o
    <3>a. /\ hpc[h] # "idle" /\ UNCHANGED <<now, overlapped>>
          /\ \A k \in Handlers : k # h => hpc'[k] = "idle"
      BY <2>4, HandlerMovesItself DEF OneAtATime
    <3> USE DEF HandlerAt, TypeOK
    <3>1. CASE HandlerUpdate(h)
      <4>1. /\ gateway'.LastHeartbeatSeen = event[h].seen
            /\ gateway'.FirstHeartbeatSeen = gateway.FirstHeartbeatSeen
            /\ gateway'.RegistrationStatus = gateway.RegistrationStatus
        BY <2>1, <3>1, GatewayMethodsFields DEF HandlerUpdate
      <4> QED
        BY <2>1, <3>a, <3>1, <4>1 DEF HandlerUpdate
    <3>2. CASE HandlerCheckPending(h)
      BY <2>1, <3>a, <3>2 DEF HandlerCheckPending
    <3>3. CASE HandlerCheckDeregistered(h)
      BY <2>1, <3>a, <3>3 DEF HandlerCheckDeregistered
    <3>4. CASE HandlerRegister(h)
      <4>1. /\ gateway'.LastHeartbeatSeen = gateway.LastHeartbeatSeen
            /\ gateway'.FirstHeartbeatSeen = gateway.LastHeartbeatSeen
        BY <2>1, <3>4, GatewayMethodsFields DEF HandlerRegister
      <4> QED
        BY <2>1, <3>a, <3>4, <4>1 DEF HandlerRegister
    <3>5. CASE HandlerAlertRegistered(h)
      BY <2>1, <3>a, <3>5 DEF HandlerAlertRegistered
    <3>6. CASE HandlerForward(h)
      BY <2>1, <3>a, <3>6 DEF HandlerForward
    <3> QED
      BY <2>4, <3>1, <3>2, <3>3, <3>4, <3>5, <3>6 DEF Handler
  <2>5. ASSUME NEW h \in Handlers, NEW d \in Devices, Receive(h, d)
        PROVE  (OrderInv /\ SeenTimesOrdered)'
    BY <2>1, <2>5 DEF Receive, HandlerAt, TypeOK
  <2>6. CASE UNCHANGED vars
    BY <2>1, <2>6 DEF vars
  <2> QED
    BY <2>1, <2>2, <2>3, <2>4, <2>5, <2>6 DEF Next
<1>3. Inv => SeenTimesOrdered
  OBVIOUS
<1> QED
  BY <1>1, <1>2, <1>3, TypeCorrect, OneAtATimeInvariant, PTL DEF Spec

------------------------------------------------------------------------------
(* Counting alerts. *)

\* One more entry in the log raises the count of its own kind only.
LEMMA CountAppend ==
  ASSUME NEW s \in Seq(Notification), NEW n \in Notification, NEW k
  PROVE  /\ Count(k, s) \in Nat
         /\ Count(k, Append(s, n)) = Count(k, s) + (IF n.kind = k THEN 1 ELSE 0)
<1> DEFINE Places(t) == {i \in DOMAIN t : t[i].kind = k}
           next == Len(s) + 1
<1>1. IsFiniteSet(Places(s))
  <2>1. IsFiniteSet(1 .. Len(s))
    BY FS_Interval
  <2>2. Places(s) \subseteq 1 .. Len(s)
    OBVIOUS
  <2> QED
    BY <2>1, <2>2, FS_Subset
<1>2. next \notin Places(s)
  OBVIOUS
<1>3. \A t : Count(k, t) = Cardinality(Places(t))
  BY DEF Count
<1>4. CASE n.kind = k
  <2>1. Places(Append(s, n)) = Places(s) \cup {next}
    BY <1>4
  <2>2. Cardinality(Places(s) \cup {next}) = Cardinality(Places(s)) + 1
    <3> HIDE DEF Places, next
    <3> QED
      BY <1>1, <1>2, FS_AddElement
  <2> QED
    <3> HIDE DEF Places, next
    <3> QED
      BY <1>1, <1>3, <1>4, <2>1, <2>2, FS_CardinalityType
<1>5. CASE n.kind # k
  <2>1. Places(Append(s, n)) = Places(s)
    BY <1>5
  <2> QED
    <3> HIDE DEF Places
    <3> QED
      BY <1>1, <1>3, <1>5, <2>1, FS_CardinalityType
<1> QED
  BY <1>4, <1>5

\* The handlers that have registered the gateway and not yet raised the alert.
Alerting == {h \in Handlers : hpc[h] = "alertRegistered"}

\* The handlers that owe an alert can be counted.
LEMMA AlertingFinite == Cardinality(Alerting) \in Nat /\ IsFiniteSet(Alerting)
BY ModelAssumption, FS_Subset, FS_CardinalityType DEF Alerting

\* A handler that registers joins those that owe an alert, one that raises it leaves.
LEMMA AlertingMoves ==
  ASSUME TypeOK, NEW h \in Handlers, NEW here, NEW there, HandlerAt(h, here, there)
  PROVE  /\ here # "alertRegistered" /\ there # "alertRegistered"
              => Alerting' = Alerting
         /\ here # "alertRegistered" /\ there = "alertRegistered"
              => Cardinality(Alerting)' = Cardinality(Alerting) + 1
         /\ here = "alertRegistered" /\ there # "alertRegistered"
              => /\ Cardinality(Alerting) > 0
                 /\ Cardinality(Alerting)' = Cardinality(Alerting) - 1
<1> USE DEF TypeOK, HandlerAt
<1>1. ASSUME here # "alertRegistered", there # "alertRegistered"
      PROVE  Alerting' = Alerting
  BY <1>1 DEF Alerting
<1>2. ASSUME here # "alertRegistered", there = "alertRegistered"
      PROVE  Cardinality(Alerting)' = Cardinality(Alerting) + 1
  <2>1. Alerting' = Alerting \cup {h} /\ h \notin Alerting
    BY <1>2 DEF Alerting
  <2> QED
    BY <2>1, AlertingFinite, FS_AddElement
<1>3. ASSUME here = "alertRegistered", there # "alertRegistered"
      PROVE  /\ Cardinality(Alerting) > 0
             /\ Cardinality(Alerting)' = Cardinality(Alerting) - 1
  <2>1. Alerting' = Alerting \ {h} /\ h \in Alerting
    BY <1>3 DEF Alerting
  <2>2. Cardinality(Alerting) # 0
    BY <2>1, AlertingFinite, FS_EmptySet
  <2>3. Cardinality(Alerting)' = Cardinality(Alerting) - 1
    BY <2>1, AlertingFinite, FS_RemoveElement
  <2> QED
    BY <2>2, <2>3, AlertingFinite
<1> QED
  BY <1>1, <1>2, <1>3

------------------------------------------------------------------------------
(* Every step is a step of GatewayRegistration, or none of its business. *)

Told(k) == Count(k, spawned)
UntoldDeregistrations == IF wpc = "alertDeregistered" THEN 1 ELSE 0

\* What a step does to the status and to the four counts.
RegistrationStep(status, registering, registered, deregistering, deregistered) ==
  /\ UNCHANGED overlapped
  /\ gateway'.RegistrationStatus = status
  /\ Cardinality(Alerting)' = Cardinality(Alerting) + registering
  /\ Told(RegisteredAlert)' = Told(RegisteredAlert) + registered
  /\ UntoldDeregistrations' = UntoldDeregistrations + deregistering
  /\ Told(DeregisteredAlert)' = Told(DeregisteredAlert) + deregistered

NoChange    == RegistrationStep(gateway.RegistrationStatus, 0, 0, 0, 0)
Overlaps    == /\ overlapped' = TRUE
               /\ UNCHANGED <<gateway, wpc, spawned>> /\ Alerting' = Alerting
Registers   == /\ overlapped \/ gateway.RegistrationStatus # Registered
               /\ RegistrationStep(Registered, 1, 0, 0, 0)
Deregisters == /\ gateway.RegistrationStatus = Registered
               /\ RegistrationStep(Deregistered, 0, 0, 1, 0)
TellsRegistration   == /\ Cardinality(Alerting) > 0
                       /\ RegistrationStep(gateway.RegistrationStatus, -1, 1, 0, 0)
TellsDeregistration == /\ UntoldDeregistrations > 0
                       /\ RegistrationStep(gateway.RegistrationStatus, 0, 0, -1, 1)

\* Until heartbeats have overlapped, only a gateway that is not registered is registered.
SerialInv ==
  ~overlapped
    => \A h \in Handlers : hpc[h] = "register" => gateway.RegistrationStatus # Registered

\* The four counters of the abstract specification are numbers.
LEMMA CountsAreNumbers ==
  ASSUME TypeOK
  PROVE  /\ Told(RegisteredAlert) \in Nat /\ Told(DeregisteredAlert) \in Nat
         /\ Cardinality(Alerting) \in Nat /\ UntoldDeregistrations \in {0, 1}
<1>1. Notify(MissedAlert, NoDevice) \in Notification
  BY DEF Notify, Notification, Kinds
<1> QED
  BY <1>1, CountAppend, AlertingFinite DEF Told, UntoldDeregistrations, TypeOK

\* The four notification messages of main.go are different.
LEMMA KindsDiffer ==
  /\ RegisteredAlert # DeregisteredAlert /\ MissedAlert \notin {RegisteredAlert, DeregisteredAlert}
  /\ ForwardHeartbeat \notin {RegisteredAlert, DeregisteredAlert}
BY DEF RegisteredAlert, DeregisteredAlert, MissedAlert, ForwardHeartbeat

\* A notification given to a goroutine raises at most the counter of its kind.
LEMMA ToldAppend ==
  ASSUME TypeOK, NEW n \in Notification, spawned' = Append(spawned, n)
  PROVE  /\ Told(RegisteredAlert)'
              = Told(RegisteredAlert) + (IF n.kind = RegisteredAlert THEN 1 ELSE 0)
         /\ Told(DeregisteredAlert)'
              = Told(DeregisteredAlert) + (IF n.kind = DeregisteredAlert THEN 1 ELSE 0)
BY CountAppend DEF Told, TypeOK

\* The watchdog (main.go:77-116) deregisters a registered gateway, raises the alert it
\* owes for that, or changes nothing the abstract specification sees.
LEMMA WatchdogSteps ==
  ASSUME TypeOK, WatchdogActsOnRegistered, Watchdog
  PROVE  NoChange \/ Deregisters \/ TellsDeregistration
<1> USE CountsAreNumbers DEF RegistrationStep, UntoldDeregistrations
<1>1. UNCHANGED overlapped /\ Alerting' = Alerting
  BY WatchdogLeavesHandlers DEF Alerting
<1>2. gateway \in GatewayType /\ spawned \in Seq(Notification)
  BY DEF TypeOK
<1>3. ASSUME \/ WatchdogCheckStatus \/ WatchdogReadSeen \/ WatchdogCheckAge
             \/ WatchdogCount \/ WatchdogCompare
      PROVE  NoChange
  <2>1. /\ UNCHANGED spawned
        /\ gateway'.RegistrationStatus = gateway.RegistrationStatus
        /\ wpc # "alertDeregistered" /\ wpc' # "alertDeregistered"
    BY <1>2, <1>3, GatewayMethodsFields
       DEF WatchdogCheckStatus, WatchdogReadSeen, WatchdogCheckAge, WatchdogCount,
           WatchdogCompare, Sleep, WatchdogAt
  <2> QED
    BY <1>1, <2>1 DEF NoChange, Told
<1>4. ASSUME WatchdogDeregister PROVE Deregisters
  <2>1. /\ UNCHANGED spawned
        /\ gateway.RegistrationStatus = Registered
        /\ gateway'.RegistrationStatus = Deregistered
        /\ wpc = "deregister" /\ wpc' = "alertDeregistered"
    BY <1>2, <1>4, GatewayMethodsFields
       DEF WatchdogDeregister, WatchdogAt, WatchdogActsOnRegistered
  <2> QED
    BY <1>1, <2>1 DEF Deregisters, Told
<1>5. ASSUME WatchdogAlertDeregistered PROVE TellsDeregistration
  <2>1. PICK n \in Notification : n = Notify(DeregisteredAlert, gateway.LastHeartbeat)
    BY <1>2 DEF Notify, Notification, Kinds, GatewayType
  <2>2. /\ spawned' = Append(spawned, n) /\ UNCHANGED gateway
        /\ n.kind = DeregisteredAlert
        /\ wpc = "alertDeregistered" /\ wpc' = "sleeping"
    BY <1>5, <2>1 DEF WatchdogAlertDeregistered, Sleep, WatchdogAt, Notify
  <2>3. /\ Told(DeregisteredAlert)' = Told(DeregisteredAlert) + 1
        /\ Told(RegisteredAlert)' = Told(RegisteredAlert)
    BY <2>2, ToldAppend, KindsDiffer
  <2> QED
    BY <1>1, <2>2, <2>3 DEF TellsDeregistration
<1>6. ASSUME WatchdogAlertMissed PROVE NoChange
  <2>1. PICK n \in Notification : n = Notify(MissedAlert, gateway.LastHeartbeat)
    BY <1>2 DEF Notify, Notification, Kinds, GatewayType
  <2>2. /\ spawned' = Append(spawned, n) /\ UNCHANGED gateway
        /\ n.kind = MissedAlert
        /\ wpc = "alertMissed" /\ wpc' = "sleeping"
    BY <1>6, <2>1 DEF WatchdogAlertMissed, Sleep, WatchdogAt, Notify
  <2>3. /\ Told(DeregisteredAlert)' = Told(DeregisteredAlert)
        /\ Told(RegisteredAlert)' = Told(RegisteredAlert)
    BY <2>2, ToldAppend, KindsDiffer
  <2> QED
    BY <1>1, <2>2, <2>3 DEF NoChange
<1> QED
  BY <1>3, <1>4, <1>5, <1>6 DEF Watchdog

\* A heartbeat invocation (main.go:118-177) registers the gateway, raises the alert it
\* owes for that, or changes nothing the abstract specification sees.
LEMMA HandlerSteps ==
  ASSUME TypeOK, SerialInv, NEW h \in Handlers, Handler(h)
  PROVE  NoChange \/ Registers \/ TellsRegistration
<1> USE CountsAreNumbers DEF RegistrationStep, UntoldDeregistrations
<1>1. UNCHANGED <<wpc, overlapped>>
  BY DEF Handler, HandlerUpdate, HandlerCheckPending, HandlerCheckDeregistered,
         HandlerRegister, HandlerAlertRegistered, HandlerForward, watchdogVars
<1>2. gateway \in GatewayType /\ spawned \in Seq(Notification)
  BY DEF TypeOK
<1>3. ASSUME \/ HandlerUpdate(h) \/ HandlerCheckPending(h) \/ HandlerCheckDeregistered(h)
      PROVE  NoChange
  <2>1. /\ UNCHANGED spawned
        /\ gateway'.RegistrationStatus = gateway.RegistrationStatus
    BY <1>2, <1>3, GatewayMethodsFields
       DEF HandlerUpdate, HandlerCheckPending, HandlerCheckDeregistered
  <2>2. Alerting' = Alerting
    BY <1>3, AlertingMoves
       DEF HandlerUpdate, HandlerCheckPending, HandlerCheckDeregistered
  <2> QED
    BY <1>1, <2>1, <2>2 DEF NoChange, Told
<1>4. ASSUME HandlerRegister(h) PROVE Registers
  <2>1. /\ UNCHANGED spawned
        /\ gateway'.RegistrationStatus = Registered
    BY <1>2, <1>4, GatewayMethodsFields DEF HandlerRegister
  <2>2. Cardinality(Alerting)' = Cardinality(Alerting) + 1
    BY <1>4, AlertingMoves DEF HandlerRegister
  <2>3. overlapped \/ gateway.RegistrationStatus # Registered
    BY <1>4 DEF SerialInv, HandlerRegister, HandlerAt
  <2> QED
    BY <1>1, <2>1, <2>2, <2>3 DEF Registers, Told
<1>5. ASSUME HandlerAlertRegistered(h) PROVE TellsRegistration
  <2>1. PICK n \in Notification : n = Notify(RegisteredAlert, gateway.LastHeartbeat)
    BY <1>2 DEF Notify, Notification, Kinds, GatewayType
  <2>2. /\ spawned' = Append(spawned, n) /\ UNCHANGED gateway
        /\ n.kind = RegisteredAlert
    BY <1>5, <2>1 DEF HandlerAlertRegistered, Notify
  <2>3. /\ Told(DeregisteredAlert)' = Told(DeregisteredAlert)
        /\ Told(RegisteredAlert)' = Told(RegisteredAlert) + 1
    BY <2>2, ToldAppend, KindsDiffer
  <2>4. /\ Cardinality(Alerting) > 0
        /\ Cardinality(Alerting)' = Cardinality(Alerting) - 1
    BY <1>5, AlertingMoves DEF HandlerAlertRegistered
  <2> QED
    BY <1>1, <2>2, <2>3, <2>4 DEF TellsRegistration
<1>6. ASSUME HandlerForward(h) PROVE NoChange
  <2>1. PICK n \in Notification : n = Notify(ForwardHeartbeat, event[h].device)
    BY DEF Notify, Notification, Kinds, TypeOK, EventType
  <2>2. /\ spawned' = Append(spawned, n) /\ UNCHANGED gateway
        /\ n.kind = ForwardHeartbeat
    BY <1>6, <2>1 DEF HandlerForward, Notify
  <2>3. /\ Told(DeregisteredAlert)' = Told(DeregisteredAlert)
        /\ Told(RegisteredAlert)' = Told(RegisteredAlert)
    BY <2>2, ToldAppend, KindsDiffer
  <2>4. Alerting' = Alerting
    BY <1>6, AlertingMoves DEF HandlerForward
  <2> QED
    BY <1>1, <2>2, <2>3, <2>4 DEF NoChange
<1> QED
  BY <1>3, <1>4, <1>5, <1>6 DEF Handler

\* Every step of the monitor is one of the six abstract kinds.
LEMMA NextSteps ==
  TypeOK /\ WatchdogActsOnRegistered /\ SerialInv /\ [Next]_vars
    => \/ NoChange \/ Overlaps \/ Registers \/ Deregisters
       \/ TellsRegistration \/ TellsDeregistration
<1> SUFFICES ASSUME TypeOK, WatchdogActsOnRegistered, SerialInv, [Next]_vars
             PROVE  \/ NoChange \/ Overlaps \/ Registers \/ Deregisters
                    \/ TellsRegistration \/ TellsDeregistration
  OBVIOUS
<1> USE CountsAreNumbers DEF NoChange, RegistrationStep, UntoldDeregistrations, Told
<1>1. CASE Tick
  BY <1>1 DEF Tick, watchdogVars, handlerVars, Alerting
<1>2. CASE Watchdog
  BY <1>2, WatchdogSteps
<1>3. ASSUME NEW h \in Handlers, Handler(h)
      PROVE  NoChange \/ Registers \/ TellsRegistration
  BY <1>3, HandlerSteps
<1>4. ASSUME NEW h \in Handlers, NEW d \in Devices, Receive(h, d) PROVE NoChange \/ Overlaps
  <2>1. Alerting' = Alerting
    BY <1>4, AlertingMoves DEF Receive
  <2>2. UNCHANGED <<gateway, wpc, spawned>>
    BY <1>4 DEF Receive, watchdogVars
  <2>3. CASE \E k \in Handlers : hpc[k] # "idle"
    BY <1>4, <2>1, <2>2, <2>3 DEF Receive, Overlaps
  <2>4. CASE ~ \E k \in Handlers : hpc[k] # "idle"
    <3>1. UNCHANGED overlapped
      BY <1>4, <2>4 DEF Receive, TypeOK
    <3> QED
      BY <2>1, <2>2, <3>1
  <2> QED
    BY <2>3, <2>4
<1>5. CASE UNCHANGED vars
  BY <1>5 DEF vars, Alerting
<1> QED
  BY <1>1, <1>2, <1>3, <1>4, <1>5 DEF Next

\* An invocation that is alone when it has seen the gateway unregistered (main.go:123) is
\* the only one that registers it.
LEMMA SerialPreserved == TypeOK /\ OneAtATime /\ SerialInv /\ [Next]_vars => SerialInv'
<1> SUFFICES ASSUME TypeOK, OneAtATime, SerialInv, [Next]_vars, ~overlapped',
                    NEW k \in Handlers, (hpc[k] = "register")'
             PROVE  gateway'.RegistrationStatus # Registered
  BY DEF SerialInv
<1>1. ~overlapped
  <2>1. ASSUME NEW h \in Handlers, Handler(h) PROVE ~overlapped
    BY <2>1, HandlerMovesItself
  <2>2. ASSUME NEW h \in Handlers, NEW d \in Devices, Receive(h, d) PROVE ~overlapped
    BY <2>2 DEF Receive, TypeOK
  <2> QED
    BY <2>1, <2>2, WatchdogLeavesHandlers DEF Next, Tick, handlerVars, vars
<1>2. gateway \in GatewayType
  BY DEF TypeOK
<1> USE DEF SerialInv
<1>3. CASE Tick
  BY <1>1, <1>3 DEF Tick, handlerVars
<1>4. CASE Watchdog
  <2>1. UNCHANGED hpc
    BY <1>4, WatchdogLeavesHandlers
  <2>2. gateway'.RegistrationStatus \in {gateway.RegistrationStatus, Deregistered}
    BY <1>2, <1>4, GatewayMethodsFields
       DEF Watchdog, WatchdogCheckStatus, WatchdogReadSeen, WatchdogCheckAge,
           WatchdogCount, WatchdogCompare, WatchdogDeregister,
           WatchdogAlertDeregistered, WatchdogAlertMissed
  <2> QED
    BY <1>1, <2>1, <2>2 DEF Registered, Deregistered
<1>5. ASSUME NEW h \in Handlers, Handler(h)
      PROVE  gateway'.RegistrationStatus # Registered
  <2>1. h = k
    BY <1>1, <1>5, HandlerMovesItself DEF OneAtATime
  <2> QED
    BY <1>1, <1>5, <2>1
     DEF Handler, HandlerUpdate, HandlerCheckPending, HandlerCheckDeregistered,
         HandlerRegister, HandlerAlertRegistered, HandlerForward, HandlerAt, TypeOK,
         Pending, Registered, Deregistered
<1>6. ASSUME NEW h \in Handlers, NEW d \in Devices, Receive(h, d)
      PROVE  gateway'.RegistrationStatus # Registered
  BY <1>1, <1>6 DEF Receive, HandlerAt, TypeOK
<1>7. CASE UNCHANGED vars
  BY <1>1, <1>7 DEF vars
<1> QED
  BY <1>3, <1>4, <1>5, <1>6, <1>7 DEF Next

\* main.go:84-97, 123-135: in every state the registrations whose alert is raised or
\* about to be raised cover the deregistrations and the current status; until heartbeats
\* have overlapped they match them exactly.
THEOREM AlertsMatchStatus == Spec => []AlertsTellStatus
<1> DEFINE told == Told(DeregisteredAlert) + UntoldDeregistrations
                     + (IF gateway.RegistrationStatus = Registered THEN 1 ELSE 0)
           registrations == Told(RegisteredAlert) + Cardinality(Alerting)
           Inv == /\ registrations >= told
                  /\ ~overlapped => registrations = told
<1>1. Init => SerialInv /\ Inv
  <2> SUFFICES ASSUME Init PROVE SerialInv /\ Inv
    OBVIOUS
  <2>1. Alerting = {} /\ Cardinality(Alerting) = 0
    BY FS_EmptySet DEF Init, Alerting
  <2>2. Told(RegisteredAlert) = 0 /\ Told(DeregisteredAlert) = 0
    BY FS_EmptySet DEF Init, Told, Count
  <2> QED
    BY <2>1, <2>2
       DEF Init, SerialInv, UntoldDeregistrations, GetInstanceGateway, Pending, Registered
<1>2. TypeOK /\ WatchdogActsOnRegistered /\ SerialInv /\ Inv /\ [Next]_vars => Inv'
  <2> SUFFICES ASSUME TypeOK, WatchdogActsOnRegistered, SerialInv, Inv, [Next]_vars
               PROVE  Inv'
    OBVIOUS
  <2>1. \/ NoChange \/ Overlaps \/ Registers \/ Deregisters
        \/ TellsRegistration \/ TellsDeregistration
    BY NextSteps
  <2>2. ASSUME Overlaps PROVE Inv'
    BY <2>2 DEF Overlaps, Told, UntoldDeregistrations
  <2> HIDE DEF UntoldDeregistrations, Told, Alerting
  <2> QED
    BY <2>1, <2>2, CountsAreNumbers
       DEF NoChange, Registers, Deregisters, TellsRegistration, TellsDeregistration,
           RegistrationStep, Registered, Deregistered
<1>3. Inv => AlertsTellStatus
  BY DEF AlertsTellStatus, Registrations, Deregistrations, Told, UntoldDeregistrations,
         Alerting
<1> QED
  BY <1>1, <1>2, <1>3, TypeCorrect, ActsOnRegistered, OneAtATimeInvariant,
     SerialPreserved, PTL DEF Spec

------------------------------------------------------------------------------
(* The monitor implements GatewayRegistration (its safety part: the weak *)
(* fairness of GatewayRegistration!Tell is checked by TLC only).         *)

\* The refinement mapping in terms of the counts.
Untold == [ registration   |-> Cardinality(Alerting),
            deregistration |-> UntoldDeregistrations ]
ToldOf == [ registration   |-> Told(RegisteredAlert),
            deregistration |-> Told(DeregisteredAlert) ]

\* Each of the six kinds of step is a step or a stutter of GatewayRegistration.
LEMMA StepsRefine ==
  TypeOK /\ WatchdogActsOnRegistered /\ SerialInv /\ [Next]_vars
    => [Registration!Next]_(Registration!vars)
<1> SUFFICES ASSUME TypeOK, WatchdogActsOnRegistered, SerialInv, [Next]_vars
             PROVE  [Registration!Next]_(Registration!vars)
  OBVIOUS
<1> DEFINE status == gateway.RegistrationStatus
<1>1. \/ NoChange \/ Overlaps \/ Registers \/ Deregisters
      \/ TellsRegistration \/ TellsDeregistration
  BY NextSteps
<1> USE CountsAreNumbers DEF RegistrationStep, Untold, ToldOf
<1>2. ASSUME NoChange PROVE UNCHANGED <<overlapped, status, Untold, ToldOf>>
  BY <1>2 DEF NoChange
<1>o. ASSUME Overlaps PROVE Registration!Overlap
  BY <1>o DEF Overlaps, Registration!Overlap, Told, UntoldDeregistrations, Alerting
<1>3. ASSUME Registers PROVE Registration!Register
  <2>1. /\ Untold' = [Untold EXCEPT !["registration"] = @ + 1]
        /\ UNCHANGED ToldOf
    BY <1>3 DEF Registers
  <2> QED
    BY <1>3, <2>1
       DEF Registers, Registration!Register, Registered, Told, UntoldDeregistrations,
           Alerting
<1>4. ASSUME Deregisters PROVE Registration!Deregister
  <2>1. /\ Untold' = [Untold EXCEPT !["deregistration"] = @ + 1]
        /\ UNCHANGED ToldOf
    BY <1>4 DEF Deregisters
  <2> QED
    BY <1>4, <2>1
       DEF Deregisters, Registration!Deregister, Registered, Deregistered, Told,
           UntoldDeregistrations, Alerting
<1>5. ASSUME TellsRegistration PROVE Registration!Tell("registration")
  <2>1. /\ Cardinality(Alerting)' = Cardinality(Alerting) - 1
        /\ UntoldDeregistrations' = UntoldDeregistrations
        /\ Told(RegisteredAlert)' = Told(RegisteredAlert) + 1
        /\ Told(DeregisteredAlert)' = Told(DeregisteredAlert)
        /\ UNCHANGED <<overlapped, status>>
    BY <1>5 DEF TellsRegistration
  <2>2. Untold' = [Untold EXCEPT !["registration"] = @ - 1]
    BY <2>1
  <2>3. ToldOf' = [ToldOf EXCEPT !["registration"] = @ + 1]
    BY <2>1
  <2>4. Untold["registration"] > 0
    BY <1>5 DEF TellsRegistration
  <2> QED
    BY <2>1, <2>2, <2>4, <2>3
       DEF Registration!Tell, Told, UntoldDeregistrations, Alerting
<1>6. ASSUME TellsDeregistration PROVE Registration!Tell("deregistration")
  <2>1. /\ UntoldDeregistrations' = UntoldDeregistrations - 1
        /\ Cardinality(Alerting)' = Cardinality(Alerting)
        /\ Told(DeregisteredAlert)' = Told(DeregisteredAlert) + 1
        /\ Told(RegisteredAlert)' = Told(RegisteredAlert)
        /\ UNCHANGED <<overlapped, status>>
    BY <1>6 DEF TellsDeregistration
  <2>2. Untold' = [Untold EXCEPT !["deregistration"] = @ - 1]
    BY <2>1
  <2>3. ToldOf' = [ToldOf EXCEPT !["deregistration"] = @ + 1]
    BY <2>1
  <2>4. Untold["deregistration"] > 0
    BY <1>6 DEF TellsDeregistration
  <2> QED
    BY <2>1, <2>2, <2>4, <2>3
       DEF Registration!Tell, Told, UntoldDeregistrations, Alerting
<1> QED
  BY <1>1, <1>2, <1>o, <1>3, <1>4, <1>5, <1>6
     DEF Registration!Next, Registration!vars, Registration!Changes, Told,
         UntoldDeregistrations, Alerting

\* The safety part of ImplementsRegistration: every registration and every
\* deregistration of main.go:77-140 is told by an alert of its own kind, at most
\* once, and no alert tells a change that did not happen.
THEOREM RefinesRegistration ==
  Spec => Registration!Init /\ [][Registration!Next]_(Registration!vars)
<1>1. Init => Registration!Init /\ SerialInv
  <2> SUFFICES ASSUME Init PROVE Registration!Init /\ SerialInv
    OBVIOUS
  <2>1. Alerting = {} /\ Cardinality(Alerting) = 0
    BY FS_EmptySet DEF Init, Alerting
  <2>2. Told(RegisteredAlert) = 0 /\ Told(DeregisteredAlert) = 0
    BY FS_EmptySet DEF Init, Told, Count
  <2>3. Untold = [c \in Registration!Changes |-> 0] /\ ToldOf = [c \in Registration!Changes |-> 0]
    BY <2>1, <2>2
       DEF Init, Untold, ToldOf, UntoldDeregistrations, Registration!Changes
  <2>4. SerialInv /\ gateway.RegistrationStatus = "Pending" /\ ~overlapped
    BY DEF Init, SerialInv, GetInstanceGateway, Pending, Registered
  <2> QED
    BY <2>3, <2>4
       DEF Registration!Init, Untold, ToldOf, Told, UntoldDeregistrations, Alerting
<1> QED
  BY <1>1, TypeCorrect, ActsOnRegistered, OneAtATimeInvariant, SerialPreserved,
     StepsRefine, PTL DEF Spec

------------------------------------------------------------------------------
(* A gateway is announced before its heartbeats are forwarded, if it is alone. *)

\* The gateway d has been announced.
Announced(d) == \E j \in DOMAIN spawned : spawned[j] = Notify(RegisteredAlert, d)

\* An invocation that has stored its heartbeat finds it there; it is about to forward one
\* only if the gateway is announced, and it will announce a gateway it has registered.
AnnouncedInv(h, d) ==
  /\ hpc[h] # "idle" => event[h].device = d
  /\ hpc[h] \notin {"idle", "update"} => gateway.LastHeartbeat = d
  /\ gateway.RegistrationStatus # Pending => hpc[h] = "alertRegistered" \/ Announced(d)
  /\ hpc[h] = "checkDeregistered" => gateway.RegistrationStatus # Pending
  /\ hpc[h] = "forward" => Announced(d)

\* alert.go:39: the finding of EveryNewGatewayRegistered needs a second gateway, or an
\* invocation that overtakes another. With one gateway and one invocation at a time no
\* heartbeat is forwarded before the alert that registers its gateway.
THEOREM LoneGatewayAnnounced ==
  ASSUME NEW h, Handlers = {h}, NEW d, Devices = {d}
  PROVE  Spec => []EveryNewGatewayRegistered
<1> DEFINE Inv == AnnouncedInv(h, d) /\ EveryNewGatewayRegistered
<1>1. Init => Inv
  BY DEF Init, AnnouncedInv, EveryNewGatewayRegistered, GetInstanceGateway, Pending
<1>2. TypeOK /\ WatchdogActsOnRegistered /\ Inv /\ [Next]_vars => Inv'
  <2> SUFFICES ASSUME TypeOK, WatchdogActsOnRegistered, Inv, [Next]_vars PROVE Inv'
    OBVIOUS
  <2>0. /\ gateway \in GatewayType /\ spawned \in Seq(Notification)
        /\ hpc \in [Handlers -> HandlerPoints] /\ event \in [Handlers -> EventType]
        /\ h \in Handlers /\ \A k \in Handlers : k = h
    BY DEF TypeOK
  <2>1. ASSUME UNCHANGED spawned PROVE (Announced(d)' <=> Announced(d))
                                       /\ EveryNewGatewayRegistered'
    BY <2>1 DEF Announced, EveryNewGatewayRegistered
  <2>2. ASSUME NEW n, spawned' = Append(spawned, n),
               n.kind = ForwardHeartbeat => n.device = d /\ Announced(d)
        PROVE  /\ Announced(d) \/ n = Notify(RegisteredAlert, d) => Announced(d)'
               /\ EveryNewGatewayRegistered'
    <3>1. /\ DOMAIN spawned' = 1 .. Len(spawned) + 1
          /\ \A i \in DOMAIN spawned : spawned'[i] = spawned[i]
          /\ spawned'[Len(spawned) + 1] = n
          /\ DOMAIN spawned = 1 .. Len(spawned) /\ Len(spawned) \in Nat
      BY <2>0, <2>2
    <3>2. Announced(d) \/ n = Notify(RegisteredAlert, d) => Announced(d)'
      BY <3>1 DEF Announced
    <3>3. ASSUME NEW i \in DOMAIN spawned', spawned'[i].kind = ForwardHeartbeat
          PROVE  \E j \in 1 .. i : spawned'[j] = Notify(RegisteredAlert, spawned'[i].device)
      <4>1. ASSUME i \in DOMAIN spawned
            PROVE  \E j \in 1 .. i : spawned'[j] = Notify(RegisteredAlert, spawned'[i].device)
        <5>1. PICK j \in 1 .. i : spawned[j] = Notify(RegisteredAlert, spawned[i].device)
          BY <3>1, <3>3, <4>1 DEF EveryNewGatewayRegistered
        <5> QED
          BY <3>1, <4>1, <5>1
      <4>2. ASSUME i = Len(spawned) + 1
            PROVE  \E j \in 1 .. i : spawned'[j] = Notify(RegisteredAlert, spawned'[i].device)
        BY <2>2, <3>1, <3>3, <4>2 DEF Announced
      <4> QED
        BY <3>1, <4>1, <4>2
    <3> QED
      BY <3>2, <3>3 DEF EveryNewGatewayRegistered
  <2>3. CASE Tick
    BY <2>1, <2>3 DEF Tick, handlerVars, AnnouncedInv
  <2>4. CASE Watchdog
    <3>1. UNCHANGED <<hpc, event>>
      BY <2>4 DEF Watchdog, WatchdogCheckStatus, WatchdogReadSeen, WatchdogCheckAge,
                  WatchdogCount, WatchdogCompare, WatchdogDeregister,
                  WatchdogAlertDeregistered, WatchdogAlertMissed, handlerVars
    <3>2. gateway'.LastHeartbeat = gateway.LastHeartbeat
      BY <2>0, <2>4
         DEF Watchdog, WatchdogCheckStatus, WatchdogReadSeen, WatchdogCheckAge,
             WatchdogCount, WatchdogCompare, WatchdogDeregister,
             WatchdogAlertDeregistered, WatchdogAlertMissed, GatewayType,
             UpdateMissedHeartBeats, DeregisterGateway
    <3>3. gateway'.RegistrationStatus # Pending => gateway.RegistrationStatus # Pending
      BY <2>0, <2>4, GatewayMethodsFields
         DEF Watchdog, WatchdogCheckStatus, WatchdogReadSeen, WatchdogCheckAge,
             WatchdogCount, WatchdogCompare, WatchdogDeregister,
             WatchdogAlertDeregistered, WatchdogAlertMissed, WatchdogAt,
             WatchdogActsOnRegistered, Pending, Registered
    <3>4. gateway.RegistrationStatus # Pending => gateway'.RegistrationStatus # Pending
      BY <2>0, <2>4, GatewayMethodsFields
         DEF Watchdog, WatchdogCheckStatus, WatchdogReadSeen, WatchdogCheckAge,
             WatchdogCount, WatchdogCompare, WatchdogDeregister,
             WatchdogAlertDeregistered, WatchdogAlertMissed, Pending, Deregistered
    <3>5. (Announced(d) => Announced(d)') /\ EveryNewGatewayRegistered'
      <4>1. ASSUME NEW k \in {MissedAlert, DeregisteredAlert}
            PROVE  Notify(k, gateway.LastHeartbeat).kind # ForwardHeartbeat
        BY DEF Notify, MissedAlert, DeregisteredAlert, ForwardHeartbeat
      <4>2. \/ UNCHANGED spawned
            \/ \E k \in {MissedAlert, DeregisteredAlert} :
                 spawned' = Append(spawned, Notify(k, gateway.LastHeartbeat))
        BY <2>4 DEF Watchdog, WatchdogCheckStatus, WatchdogReadSeen, WatchdogCheckAge,
                    WatchdogCount, WatchdogCompare, WatchdogDeregister,
                    WatchdogAlertDeregistered, WatchdogAlertMissed
      <4> QED
        BY <2>1, <2>2, <4>1, <4>2
    <3> QED
      BY <3>1, <3>2, <3>3, <3>4, <3>5 DEF AnnouncedInv
  <2>5. ASSUME Handler(h) PROVE Inv'
    <3> USE DEF HandlerAt, AnnouncedInv
    <3>1. CASE HandlerUpdate(h)
      <4>1. /\ gateway'.LastHeartbeat = event[h].device
            /\ gateway'.RegistrationStatus = gateway.RegistrationStatus
        BY <2>0, <3>1 DEF HandlerUpdate, UpdateGatewayStatus, GatewayType
      <4> QED
        BY <2>0, <2>1, <3>1, <4>1 DEF HandlerUpdate
    <3>2. CASE HandlerCheckPending(h)
      BY <2>0, <2>1, <3>2 DEF HandlerCheckPending
    <3>3. CASE HandlerCheckDeregistered(h)
      BY <2>0, <2>1, <3>3 DEF HandlerCheckDeregistered
    <3>4. CASE HandlerRegister(h)
      <4>1. gateway'.LastHeartbeat = gateway.LastHeartbeat
        BY <2>0, <3>4 DEF HandlerRegister, RegisterGateway, GatewayType
      <4> QED
        BY <2>0, <2>1, <3>4, <4>1 DEF HandlerRegister
    <3>5. CASE HandlerAlertRegistered(h)
      <4>1. PICK n : n = Notify(RegisteredAlert, d)
        OBVIOUS
      <4>2. n.kind # ForwardHeartbeat
        BY <4>1, KindsDiffer DEF Notify
      <4>3. spawned' = Append(spawned, n)
        BY <3>5, <4>1 DEF HandlerAlertRegistered
      <4>4. Announced(d)' /\ EveryNewGatewayRegistered'
        BY <2>2, <4>1, <4>2, <4>3
      <4> QED
        BY <2>0, <3>5, <4>4 DEF HandlerAlertRegistered
    <3>6. CASE HandlerForward(h)
      <4>1. PICK n : n = Notify(ForwardHeartbeat, event[h].device)
        OBVIOUS
      <4>2. n.device = d /\ Announced(d)
        BY <3>6, <4>1 DEF HandlerForward, Notify
      <4>3. spawned' = Append(spawned, n)
        BY <3>6, <4>1 DEF HandlerForward
      <4>4. Announced(d)' /\ EveryNewGatewayRegistered'
        BY <2>2, <4>2, <4>3
      <4> QED
        BY <2>0, <3>6, <4>4 DEF HandlerForward
    <3> QED
      BY <2>5, <3>1, <3>2, <3>3, <3>4, <3>5, <3>6 DEF Handler
  <2>6. ASSUME NEW c \in Devices, Receive(h, c) PROVE Inv'
    BY <2>0, <2>1, <2>6 DEF Receive, HandlerAt, AnnouncedInv
  <2>7. CASE UNCHANGED vars
    BY <2>1, <2>7 DEF vars, AnnouncedInv
  <2> QED
    BY <2>0, <2>3, <2>4, <2>5, <2>6, <2>7 DEF Next
<1> QED
  BY <1>1, <1>2, TypeCorrect, ActsOnRegistered, PTL DEF Spec

------------------------------------------------------------------------------
(* A silent gateway is deregistered in time if the threads are prompt. *)

\* The misses it takes to deregister a gateway: at least one is always counted.
Misses == IF MaxMissedHeartbeats = 0 THEN 1 ELSE MaxMissedHeartbeats

\* How old the last heartbeat of a registered gateway with m misses may be when the
\* watchdog wakes up.  A heartbeat that races with the watchdog may leave a
\* registered gateway with Misses or more.
Allowed(m) == Periods(IF m < Misses THEN m + 2 ELSE Misses + 1)

\* More periods take no less time.
LEMMA PeriodsMonotonic ==
  ASSUME NEW m \in Nat, NEW n \in Nat, m <= n
  PROVE  Periods(m) <= Periods(n)
<1>1. PICK d \in Nat : n = m + d
  <2>1. n - m \in Nat /\ n = m + (n - m)
    OBVIOUS
  <2> QED
    BY <2>1
<1>2. n * WatchdogSeconds = m * WatchdogSeconds + d * WatchdogSeconds
  BY <1>1, ConfigAssumption
<1>3. d * WatchdogSeconds \in Nat /\ m * WatchdogSeconds \in Nat
  BY ConfigAssumption
<1> QED
  BY <1>2, <1>3 DEF Periods

\* What the allowed silence comes to for each value of the counter.
LEMMA AllowedFacts ==
  ASSUME NEW m \in Nat
  PROVE  /\ Allowed(m) \in Nat
         /\ WatchdogSeconds + WatchdogSeconds <= Allowed(m)
         /\ Allowed(m) <= Periods(Misses + 1)
         /\ m < Misses => Allowed(m) = Periods(m + 1) + WatchdogSeconds
         /\ m + 1 < Misses => Allowed(m) = Periods((m + 1) + 1)
<1> Misses \in Nat /\ Misses >= 1
  BY ConfigAssumption DEF Misses
<1> DEFINE n == IF m < Misses THEN m + 2 ELSE Misses + 1
<1>1. n \in Nat /\ 2 <= n /\ n <= Misses + 1 /\ Allowed(m) = Periods(n)
  BY DEF Allowed
<1>2. Periods(2) = WatchdogSeconds + WatchdogSeconds
  BY PeriodsFacts, ConfigAssumption DEF Periods
<1>3. Allowed(m) \in Nat /\ Periods(2) <= Allowed(m) /\ Allowed(m) <= Periods(Misses + 1)
  BY <1>1, PeriodsFacts, PeriodsMonotonic
<1>4. ASSUME m < Misses PROVE Allowed(m) = Periods(m + 1) + WatchdogSeconds
  <2>1. n = (m + 1) + 1 /\ m + 1 \in Nat
    BY <1>4
  <2> QED
    BY <1>1, <2>1, PeriodsFacts
<1>5. ASSUME m + 1 < Misses PROVE Allowed(m) = Periods((m + 1) + 1)
  <2>1. n = (m + 1) + 1
    BY <1>5
  <2> QED
    BY <1>1, <2>1
<1> QED
  BY <1>2, <1>3, <1>4, <1>5

\* Prompt threads act in the instant they are woken: the watchdog at wakeAt, a
\* handler at the arrival of its heartbeat.
PromptInv ==
  /\ now <= wakeAt
  /\ wpc # "sleeping" => now = wakeAt
  /\ \A h \in Handlers : hpc[h] = "update" => event[h].seen = now
  /\ \A h \in Handlers :
       hpc[h] \notin {"idle", "update"} => gateway.LastHeartbeatSeen = now

\* What is left of the allowed silence, at each point of the watchdog.
DeadlineInv ==
  LET missed == gateway.MissedHeartBeats
      last   == gateway.LastHeartbeatSeen
      registered == gateway.RegistrationStatus = Registered
  IN  /\ wpc = "sleeping" /\ registered => wakeAt <= last + Allowed(missed)
      /\ wpc \in {"readSeen", "checkAge", "count"} => now <= last + Allowed(missed)
      /\ wpc = "checkAge" => lastSeen <= last
      /\ wpc = "compare" /\ missed < Misses => now <= last + Periods(missed + 1)
      /\ wpc = "alertMissed" => missed < Misses /\ now <= last + Periods(missed + 1)
      /\ wpc = "alertDeregistered" /\ registered => last = now

\* Under Prompt the timer of main.go:80 is never overdue.
LEMMA PromptPreserved ==
  Prompt /\ TypeOK /\ SeenInPast /\ PromptInv /\ [Next]_vars => PromptInv'
<1> SUFFICES ASSUME Prompt, TypeOK, SeenInPast, PromptInv, [Next]_vars PROVE PromptInv'
  OBVIOUS
<1> USE ConfigAssumption DEF PromptInv
<1>1. /\ now \in Nat /\ wakeAt \in Nat /\ gateway \in GatewayType
      /\ hpc \in [Handlers -> HandlerPoints] /\ event \in [Handlers -> EventType]
  BY DEF TypeOK
<1>2. CASE Tick
  BY <1>1, <1>2 DEF Tick, watchdogVars, handlerVars
<1>3. CASE Watchdog
  <2>1. /\ UNCHANGED <<now, hpc, event>>
        /\ gateway'.LastHeartbeatSeen = gateway.LastHeartbeatSeen
    BY <1>1, <1>3, GatewayMethodsFields
       DEF Watchdog, WatchdogCheckStatus, WatchdogReadSeen, WatchdogCheckAge,
           WatchdogCount, WatchdogCompare, WatchdogDeregister,
           WatchdogAlertDeregistered, WatchdogAlertMissed, handlerVars
  <2>2. /\ now <= wakeAt'
        /\ wpc' # "sleeping" => now = wakeAt'
    BY <1>1, <1>3
       DEF Watchdog, WatchdogCheckStatus, WatchdogReadSeen, WatchdogCheckAge,
           WatchdogCount, WatchdogCompare, WatchdogDeregister,
           WatchdogAlertDeregistered, WatchdogAlertMissed, Sleep, WatchdogAt
  <2> QED
    BY <2>1, <2>2
<1>4. ASSUME NEW h \in Handlers, Handler(h) PROVE PromptInv'
  <2>1. UNCHANGED <<now, wpc, wakeAt>>
    BY <1>4 DEF Handler, HandlerUpdate, HandlerCheckPending, HandlerCheckDeregistered,
                HandlerRegister, HandlerAlertRegistered, HandlerForward, watchdogVars
  <2>2. CASE HandlerUpdate(h)
    <3>1. gateway'.LastHeartbeatSeen = event[h].seen
      BY <1>1, <2>2, GatewayMethodsFields DEF HandlerUpdate
    <3>2. event[h].seen = now
      BY <2>2 DEF HandlerUpdate, HandlerAt
    <3> QED
      BY <1>1, <2>1, <2>2, <3>1, <3>2 DEF HandlerUpdate, HandlerAt
  <2>3. CASE ~HandlerUpdate(h)
    <3>1. gateway'.LastHeartbeatSeen = gateway.LastHeartbeatSeen
      BY <1>1, <1>4, <2>3, GatewayMethodsFields
         DEF Handler, HandlerCheckPending, HandlerCheckDeregistered,
             HandlerRegister, HandlerAlertRegistered, HandlerForward
    <3>2. /\ hpc[h] \notin {"idle", "update"} /\ hpc'[h] # "update"
          /\ \A k \in Handlers : k # h => hpc'[k] = hpc[k] /\ event'[k] = event[k]
      BY <1>1, <1>4, <2>3
         DEF Handler, HandlerCheckPending, HandlerCheckDeregistered,
             HandlerRegister, HandlerAlertRegistered, HandlerForward, HandlerAt
    <3> QED
      BY <2>1, <3>1, <3>2
  <2> QED
    BY <2>2, <2>3
<1>5. ASSUME NEW h \in Handlers, NEW d \in Devices, Receive(h, d) PROVE PromptInv'
  BY <1>1, <1>5 DEF Receive, HandlerAt, watchdogVars
<1>6. CASE UNCHANGED vars
  BY <1>6 DEF vars
<1> QED
  BY <1>2, <1>3, <1>4, <1>5, <1>6 DEF Next

\* Each miss that is not yet counted leaves the silence within what its count allows.
LEMMA DeadlinePreserved ==
  ASSUME Prompt, TypeOK, SeenInPast, SpacingInv, PromptInv, DeadlineInv, [Next]_vars
  PROVE  DeadlineInv'
<1> DEFINE missed == gateway.MissedHeartBeats
           last   == gateway.LastHeartbeatSeen
<1>1. /\ now \in Nat /\ wakeAt \in Nat /\ lastSeen \in Nat /\ gateway \in GatewayType
      /\ missed \in Nat /\ last \in Nat /\ last <= now
      /\ now <= wakeAt /\ wakeAt <= now + WatchdogSeconds
      /\ wpc # "sleeping" => now = wakeAt
  BY DEF TypeOK, GatewayType, SeenInPast, SpacingInv, PromptInv
<1>2. /\ Misses \in Nat \ {0} /\ MaxMissedHeartbeats <= Misses
      /\ WatchdogSeconds \in Nat /\ MaxMissedHeartbeats \in Nat
  BY ConfigAssumption DEF Misses
<1>3. /\ Allowed(missed) \in Nat
      /\ WatchdogSeconds + WatchdogSeconds <= Allowed(missed)
      /\ missed < Misses => Allowed(missed) = Periods(missed + 1) + WatchdogSeconds
      /\ missed + 1 < Misses => Allowed(missed) = Periods((missed + 1) + 1)
      /\ Periods(missed + 1) \in Nat
  BY <1>1, AllowedFacts, PeriodsFacts
<1> USE <1>1, <1>2, <1>3 DEF DeadlineInv
<1>4. CASE Tick
  BY <1>4 DEF Tick, watchdogVars
<1>5. CASE Watchdog
  <2> USE DEF WatchdogAt
  <2>1. CASE WatchdogCheckStatus
    BY <2>1 DEF WatchdogCheckStatus, Sleep
  <2>2. CASE WatchdogReadSeen
    BY <2>2 DEF WatchdogReadSeen
  <2>3. CASE WatchdogCheckAge
    BY <2>3 DEF WatchdogCheckAge, Sleep
  <2>4. CASE WatchdogCount
    <3>1. gateway'.MissedHeartBeats = missed + 1 /\ gateway'.LastHeartbeatSeen = last
      BY <2>4, GatewayMethodsFields DEF WatchdogCount
    <3> QED
      BY <2>4, <3>1 DEF WatchdogCount
  <2>5. CASE WatchdogCompare
    BY <2>5 DEF WatchdogCompare
  <2>6. CASE WatchdogDeregister
    <3>1. gateway'.RegistrationStatus = Deregistered
      BY <2>6, GatewayMethodsFields DEF WatchdogDeregister
    <3> QED
      BY <2>6, <3>1 DEF WatchdogDeregister, Registered, Deregistered
  <2>7. CASE WatchdogAlertDeregistered
    BY <2>7 DEF WatchdogAlertDeregistered, Sleep
  <2>8. CASE WatchdogAlertMissed
    BY <2>8 DEF WatchdogAlertMissed, Sleep
  <2> QED
    BY <1>5, <2>1, <2>2, <2>3, <2>4, <2>5, <2>6, <2>7, <2>8 DEF Watchdog
<1>6. ASSUME NEW h \in Handlers, Handler(h) PROVE DeadlineInv'
  <2>1. UNCHANGED <<now, wpc, wakeAt, lastSeen>>
    BY <1>6 DEF Handler, HandlerUpdate, HandlerCheckPending, HandlerCheckDeregistered,
                HandlerRegister, HandlerAlertRegistered, HandlerForward, watchdogVars
  <2>2. CASE HandlerUpdate(h)
    <3>1. /\ gateway'.MissedHeartBeats = 0
          /\ gateway'.LastHeartbeatSeen = now
      BY <2>2, GatewayMethodsFields DEF HandlerUpdate, HandlerAt, PromptInv
    <3>2. /\ Allowed(0) \in Nat /\ WatchdogSeconds + WatchdogSeconds <= Allowed(0)
          /\ Periods(0 + 1) \in Nat
      BY AllowedFacts, PeriodsFacts
    <3> QED
      BY <2>1, <3>1, <3>2
  <2>3. CASE HandlerRegister(h)
    <3>1. /\ gateway'.MissedHeartBeats = missed
          /\ gateway'.LastHeartbeatSeen = last
          /\ last = now
      BY <2>3, GatewayMethodsFields DEF HandlerRegister, HandlerAt, PromptInv
    <3> QED
      BY <2>1, <3>1
  <2>4. CASE ~HandlerUpdate(h) /\ ~HandlerRegister(h)
    <3>1. UNCHANGED gateway
      BY <1>6, <2>4 DEF Handler, HandlerCheckPending, HandlerCheckDeregistered,
                        HandlerAlertRegistered, HandlerForward
    <3> QED
      BY <2>1, <3>1
  <2> QED
    BY <2>2, <2>3, <2>4
<1>7. ASSUME NEW h \in Handlers, NEW d \in Devices, Receive(h, d) PROVE DeadlineInv'
  BY <1>7 DEF Receive, watchdogVars
<1>8. CASE UNCHANGED vars
  BY <1>8 DEF vars
<1> QED
  BY <1>4, <1>5, <1>6, <1>7, <1>8 DEF Next

\* main.go:80-86: if the threads are prompt, no gateway stays registered for more
\* than Misses + 1 watchdog periods after its last heartbeat.
THEOREM SilenceDetected ==
  ASSUME Prompt
  PROVE  Spec => []DetectionDeadline
<1> DEFINE Inv == SeenInPast /\ SpacingInv /\ PromptInv /\ DeadlineInv
<1>1. Init => Inv
  <2> SUFFICES ASSUME Init PROVE Inv
    OBVIOUS
  <2>1. SeenInPast /\ SpacingInv
    BY ConfigAssumption
       DEF Init, SeenInPast, SpacingInv, GetInstanceGateway, NoEvent, DefaultTime
  <2>2. PromptInv /\ DeadlineInv
    BY ConfigAssumption
       DEF Init, PromptInv, DeadlineInv, GetInstanceGateway, Pending, Registered,
           DefaultTime
  <2> QED
    BY <2>1, <2>2
<1>2. TypeOK /\ Inv /\ [Next]_vars => Inv'
  BY SeenInPastPreserved, SpacingPreserved, PromptPreserved, DeadlinePreserved
<1>3. TypeOK /\ Inv => DetectionDeadline
  <2> SUFFICES ASSUME TypeOK, Inv, wpc = "sleeping", gateway.RegistrationStatus = Registered
               PROVE  now - gateway.LastHeartbeatSeen <= (Misses + 1) * WatchdogSeconds
    BY DEF DetectionDeadline, Misses
  <2>1. gateway.MissedHeartBeats \in Nat /\ gateway.LastHeartbeatSeen \in Nat
    BY DEF TypeOK, GatewayType
  <2>2. Allowed(gateway.MissedHeartBeats) <= Periods(Misses + 1)
    BY <2>1, AllowedFacts
  <2> Misses + 1 \in Nat
    BY ConfigAssumption DEF Misses
  <2>3. Allowed(gateway.MissedHeartBeats) \in Nat /\ Periods(Misses + 1) \in Nat
    BY <2>1, AllowedFacts, PeriodsFacts
  <2>4. now - gateway.LastHeartbeatSeen <= Periods(Misses + 1)
    BY <2>1, <2>2, <2>3 DEF PromptInv, DeadlineInv, TypeOK
  <2> QED
    BY <2>4 DEF Periods
<1> QED
  BY <1>1, <1>2, <1>3, TypeCorrect, PTL DEF Spec

==============================================================================
