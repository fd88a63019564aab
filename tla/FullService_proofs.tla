-------------------------- MODULE FullService_proofs --------------------------
(***************************************************************************)
(* The service that sends through the channel implements the service that  *)
(* hands its notifications to the abstract delivery: what is proved of     *)
(* AlertService holds of the whole program, for every size of the channel. *)
(***************************************************************************)
EXTENDS FullService, AlertService_proofs

CP == INSTANCE NotificationChannel_proofs WITH
  Notifications  <- Numbered,
  Addressed      <- {n \in Numbered : HasDestination(n[1])},
  NoNotification <- <<>>

------------------------------------------------------------------------------
(* The steps of the service are steps of the channel. *)

\* The notifications of the service meet the assumption of the channel: no pair of a kind
\* and a number is the empty tuple.
LEMMA ChannelAssumed ==
  ASSUME NotificationChanSize \in Nat
  PROVE  CP!ChannelAssumption
<1>1. <<>> \notin Numbered
  BY DEF Numbered
<1> QED
  BY <1>1 DEF CP!ChannelAssumption

\* The consumer of the service is that of the channel.
LEMMA NotifyChannelIsThat == Channel!NotifyChannel => CP!NotifyChannel
BY DEF Channel!NotifyChannel, Channel!Receive, Channel!Generate, Channel!Post,
       Channel!Answered, Channel!TimeOut, Channel!ConsumerAt, Channel!Finish,
       Channel!HasURL, Channel!channelVars, Channel!networkVars,
       CP!NotifyChannel, CP!Receive, CP!Generate, CP!Post, CP!Answered, CP!TimeOut,
       CP!ConsumerAt, CP!Finish, CP!HasURL, CP!channelVars, CP!networkVars

\* A step of the service is one of the channel, or the channel does not notice it.
LEMMA StepsOfChannel == [FullNext]_fullVars => [CP!Next]_(CP!vars)
<1> SUFFICES ASSUME [FullNext]_fullVars PROVE [CP!Next]_(CP!vars)
  OBVIOUS
<1>v. UNCHANGED <<outcome, channelVars>> => UNCHANGED CP!vars
  BY DEF channelVars, CP!vars, CP!channelVars, CP!consumerVars, CP!networkVars
<1>1. CASE PipelineOrWatchdog /\ GivenToGoroutine
  <2>1. ASSUME NEW n \in Numbered, Channel!Spawn(n) PROVE CP!Next
    <3>1. CP!Spawn(n)
      BY <2>1 DEF Channel!Spawn, CP!Spawn, Channel!consumerVars, CP!consumerVars,
                  Channel!networkVars, CP!networkVars
    <3> QED
      BY <3>1 DEF CP!Next
  <2> QED
    BY <1>1, <1>v, <2>1 DEF GivenToGoroutine, deliveryVars
<1>2. CASE Goroutines
  <2>1. ASSUME NEW n \in Numbered, Channel!Send(n) PROVE CP!Send(n)
    BY <2>1 DEF Channel!Send, CP!Send, Channel!consumerVars, CP!consumerVars,
                Channel!networkVars, CP!networkVars
  <2> QED
    BY <1>2, <2>1, NotifyChannelIsThat DEF Goroutines, CP!Next
<1>3. CASE Network
  <2>1. ASSUME NEW n \in Numbered, Channel!Arrive(n) \/ Channel!Vanish(n)
        PROVE  CP!Arrive(n) \/ CP!Vanish(n)
    BY <2>1 DEF Channel!Arrive, Channel!Vanish, CP!Arrive, CP!Vanish, Channel!channelVars,
                CP!channelVars, Channel!consumerVars, CP!consumerVars
  <2> QED
    BY <1>3, <2>1 DEF Network, CP!Next
<1>4. CASE ServiceExit /\ Channel!Exit
  BY <1>4 DEF Channel!Exit, CP!Exit, Channel!networkVars, CP!networkVars, CP!Next
<1>5. CASE UNCHANGED fullVars
  BY <1>5, <1>v DEF fullVars, serviceVars, deliveryVars
<1> QED
  BY <1>1, <1>2, <1>3, <1>4, <1>5 DEF FullNext

\* The channel of the running service behaves as the channel alone (main.go:403-407), so
\* that all that is proved of it holds in the service.
THEOREM ServiceRunsChannel == FullSpec => CP!Spec
<1>1. FullInit => CP!Init
  BY DEF FullInit, Channel!Init, CP!Init
<1> QED
  BY <1>1, StepsOfChannel, PTL DEF FullSpec, CP!Spec

\* In the running service the channel keeps its inductive invariant.
LEMMA ChannelInvariant ==
  ASSUME NotificationChanSize \in Nat
  PROVE  FullSpec => []CP!IInv
<1>1. CP!Spec => []CP!IInv
  BY ChannelAssumed, CP!Inductive
<1> QED
  BY <1>1, ServiceRunsChannel, PTL

------------------------------------------------------------------------------
(* The service counts what the channel lists.  Each instance of the channel has its own *)
(* name of Cardinality: proofs that use both expand them.                              *)

\* How often a notification has reached the cloud connector.
CountsInv == reaches = CP!Reaches

\* Nothing has reached the cloud connector before the start (main.go:403).
LEMMA CountsInit == FullInit => CountsInv
<1> SUFFICES ASSUME FullInit PROVE reaches = CP!Reaches
  BY DEF CountsInv
<1>1. reaches = [n \in Numbered |-> 0] /\ reached = <<>>
  BY DEF FullInit, ServiceInit, Delivery!Init, Channel!Init
<1>2. \A n : {i \in DOMAIN reached : reached[i] = n} = {}
  BY <1>1
<1>3. CP!Cardinality({}) = 0
  BY FS_EmptySet DEF CP!Cardinality, Cardinality
<1> QED
  BY <1>1, <1>2, <1>3 DEF CP!Reaches

\* Only the network lets requests arrive (lib.go:139), and both see it.
LEMMA CountsStep == CountsInv /\ [FullNext]_fullVars => CountsInv'
<1> SUFFICES ASSUME CountsInv, [FullNext]_fullVars PROVE CountsInv'
  OBVIOUS
<1>1. ASSUME UNCHANGED <<reaches, reached>> PROVE CountsInv'
  BY <1>1 DEF CountsInv, CP!Reaches
<1>2. CASE PipelineOrWatchdog /\ GivenToGoroutine
  <2>1. ASSUME NEW n \in Numbered, Channel!Spawn(n) PROVE UNCHANGED reached
    BY <2>1 DEF Channel!Spawn, Channel!networkVars
  <2>2. UNCHANGED reached
    BY <1>2, <2>1 DEF GivenToGoroutine, channelVars
  <2>3. UNCHANGED reaches
    BY <1>2 DEF PipelineOrWatchdog, ServiceTick, ServiceWatchdog, ServiceHandler, Raising,
       Raise, NoticeChecked, RaiseAlert, Arrive, Dispatch, Delivery!Accept, deliveryVars
  <2> QED
    BY <1>1, <2>2, <2>3
<1>3. CASE Goroutines
  <2>1. ASSUME NEW n \in Numbered, Channel!Send(n) PROVE UNCHANGED reached
    BY <2>1 DEF Channel!Send, Channel!networkVars
  <2>2. ASSUME Channel!NotifyChannel PROVE UNCHANGED reached
    BY <2>2 DEF Channel!NotifyChannel, Channel!Receive, Channel!Generate, Channel!Post,
       Channel!Answered, Channel!TimeOut, Channel!networkVars
  <2> QED
    BY <1>1, <1>3, <2>1, <2>2 DEF Goroutines
<1>4. CASE Network
  <2>1. reaches' = CP!Reaches'
    BY <1>4 DEF Network, Channel!Reaches, CP!Reaches, Channel!Cardinality, CP!Cardinality
  <2> QED
    BY <2>1 DEF CountsInv
<1>5. CASE ServiceExit /\ Channel!Exit
  BY <1>1, <1>5 DEF ServiceExit, Delivery!Exit, Channel!Exit, Channel!networkVars
<1>6. CASE UNCHANGED fullVars
  BY <1>1, <1>6 DEF fullVars, serviceVars, deliveryVars, channelVars
<1> QED
  BY <1>2, <1>3, <1>4, <1>5, <1>6 DEF FullNext

------------------------------------------------------------------------------
(* The steps of the goroutines and of the network are those of the delivery. *)

\* A step of a goroutine settles a notification, gives up those without a destination and
\* no other, or changes nothing that the service sees.
LEMMA GoroutinesSettle ==
  ASSUME NotificationChanSize \in Nat, CP!IInv, CountsInv, Goroutines
  PROVE  UNCHANGED serviceVars \/ \E n \in Numbered : ServiceSettle(n)
<1>1. CASE Channel!NotifyChannel
  <2>1. CP!NotifyChannel
    BY <1>1, NotifyChannelIsThat
  <2>2. \/ UNCHANGED <<outcome, reached>>
        \/ \E n \in Numbered :
             /\ CP!Delivery!Settle(n)
             /\ outcome'[n] = "dropped" <=> n \notin {m \in Numbered : HasDestination(m[1])}
    BY <2>1, ChannelAssumed, CP!ConsumerRefines
  <2>3. ASSUME NEW n \in Numbered, CP!Delivery!Settle(n),
               outcome'[n] = "dropped" <=> n \notin {m \in Numbered : HasDestination(m[1])}
        PROVE  ServiceSettle(n)
    <3>1. Delivery!Settle(n)
      BY <2>3 DEF CP!Delivery!Settle, CP!Delivery!Settled, CP!Delivery!HasReached,
                  Delivery!Settle, Delivery!Settled, Delivery!HasReached, CountsInv, Goroutines
    <3> QED
      BY <2>3, <3>1 DEF Goroutines, ServiceSettle
  <2> QED
    BY <2>2, <2>3 DEF Goroutines, serviceVars, deliveryVars
<1>2. ASSUME NEW n \in Numbered, Channel!Send(n) PROVE UNCHANGED serviceVars
  BY <1>2 DEF Goroutines, Channel!Send, Channel!networkVars, serviceVars, deliveryVars
<1> QED
  BY <1>1, <1>2 DEF Goroutines

\* A step of the network lets a notification with a destination reach the cloud connector,
\* or loses a request, which the service does not see.
LEMMA NetworkReaches ==
  ASSUME NotificationChanSize \in Nat, CP!IInv, CountsInv, Network
  PROVE  UNCHANGED serviceVars \/ \E n \in Numbered : ServiceReach(n)
<1>1. ASSUME NEW n \in Numbered, Channel!Arrive(n) PROVE ServiceReach(n)
  <2>1. CP!Arrive(n)
    BY <1>1 DEF Channel!Arrive, CP!Arrive, Channel!channelVars, CP!channelVars,
                Channel!consumerVars, CP!consumerVars
  <2>2. /\ CP!Delivery!Reach(n)
        /\ n \in {m \in Numbered : HasDestination(m[1])}
    BY <2>1, ChannelAssumed, CP!ArrivalRefines
  <2>3. Delivery!Reach(n)
    <3>1. reaches = CP!Reaches /\ reaches' = CP!Reaches'
      BY DEF CountsInv, Network, Channel!Reaches, CP!Reaches, Channel!Cardinality, CP!Cardinality
    <3> QED
      BY <2>2, <3>1 DEF CP!Delivery!Reach, CP!Delivery!HasReached, Delivery!Reach,
                        Delivery!HasReached
  <2> QED
    BY <2>2, <2>3 DEF Network, ServiceReach
<1>2. ASSUME NEW n \in Numbered, Channel!Vanish(n) PROVE UNCHANGED serviceVars
  <2>1. UNCHANGED <<outcome, reached>>
    BY <1>2 DEF Channel!Vanish
  <2>2. reaches' = reaches
    BY <2>1 DEF CountsInv, Network, Channel!Reaches, CP!Reaches, Channel!Cardinality,
                CP!Cardinality
  <2> QED
    BY <2>1, <2>2 DEF Network, serviceVars, deliveryVars
<1> QED
  BY <1>1, <1>2 DEF Network

\* Every step of the running service with its channel is a step of the service with the
\* abstract delivery, or changes nothing that it sees.
LEMMA StepsOfService ==
  ASSUME NotificationChanSize \in Nat, CP!IInv, CountsInv, [FullNext]_fullVars
  PROVE  [ServiceNext]_serviceVars
<1>1. CASE PipelineOrWatchdog
  BY <1>1 DEF PipelineOrWatchdog, ServiceNext
<1>2. CASE Goroutines
  BY <1>2, GoroutinesSettle DEF ServiceNext
<1>3. CASE Network
  BY <1>3, NetworkReaches DEF ServiceNext
<1>4. CASE ServiceExit
  BY <1>4 DEF ServiceNext
<1>5. CASE UNCHANGED fullVars
  BY <1>5 DEF fullVars
<1> QED
  BY <1>1, <1>2, <1>3, <1>4, <1>5 DEF FullNext

\* The program with its goroutines, channel and requests (main.go:403-407, lib.go:69-176)
\* implements the service of AlertService: the goroutines, whatever the size of the
\* channel, add nothing to what the abstract delivery may do.
THEOREM ImplementsService ==
  ASSUME NotificationChanSize \in Nat
  PROVE  FullSpec => ServiceSpec
<1>1. FullInit => ServiceInit
  BY DEF FullInit
<1>2. CP!IInv /\ CountsInv /\ [FullNext]_fullVars => [ServiceNext]_serviceVars
  BY StepsOfService
<1>3. FullSpec => []CountsInv
  BY CountsInit, CountsStep, PTL DEF FullSpec
<1> QED
  BY <1>1, <1>2, <1>3, ChannelInvariant, PTL DEF FullSpec, ServiceSpec

\* In the whole program, too, the first reading of an event decides alone (main.go:540).
THEOREM FirstReadingRulesInFull ==
  ASSUME NotificationChanSize \in Nat
  PROVE  FullSpec => []FirstReadingDecides
BY ImplementsService, FirstReadingRules, PTL

\* In the whole program the cloud can tell the status of the gateway from what it got
\* (main.go:86-139), although goroutines are scheduled in any order, requests overtake one
\* another and a request that timed out may still arrive.
THEOREM CloudKnowsStatusInFull ==
  ASSUME NotificationChanSize \in Nat
  PROVE  FullSpec => []CloudTellsStatus
BY ImplementsService, CloudKnowsStatus, PTL

==============================================================================
