------------------------- MODULE NotificationChannel -------------------------
(***************************************************************************)
(* The notification channel and its consumer, app/alert/lib.go.            *)
(*                                                                         *)
(* A notification is handed to a goroutine of its own, which sends it on a *)
(* Go channel: into the buffer if there is room, else it blocks, in order  *)
(* of arrival, until NotifyChannel takes one out.  NotifyChannel wraps the *)
(* notification for the cloud connector and posts it over HTTP, one after  *)
(* the other, with a timeout and without a retry.                          *)
(*                                                                         *)
(* The Go channel, the network and the cloud connector are not in the      *)
(* repository: they are modelled by their contract.  A request that timed  *)
(* out may still be on its way and arrive later.                           *)
(***************************************************************************)
EXTENDS Naturals, Sequences, FiniteSets

CONSTANTS Notifications,          \* the notifications raised, by identity
          Addressed,              \* those with a configured destination
          NotificationChanSize,   \* config: buffer size of the channel
          NoNotification

\* make() panics on a negative size (main.go:404), before anything is sent.
ASSUME ChannelAssumption ==
  /\ NotificationChanSize \in Nat
  /\ Addressed \subseteq Notifications
  /\ NoNotification \notin Notifications

VARIABLES starting,  \* notifications whose goroutine has not reached its send
          buffer,    \* the channel's buffer
          blocked,   \* notifications whose goroutine is blocked in its send
          consumer,  \* where NotifyChannel is
          current,   \* the notification it works on
          outcome,   \* what became of each notification
          sent,      \* history: the notifications in the order of their sends
          inFlight,  \* requests on their way to the cloud connector
          reached    \* notifications the cloud connector got, in order

channelVars  == <<starting, buffer, blocked, sent>>
consumerVars == <<consumer, current>>
networkVars  == <<inFlight, reached>>
vars == <<channelVars, consumerVars, outcome, networkVars>>

ConsumerPoints == {"receive", "generate", "post", "wait", "exited"}
Outcomes == {"new", "pending", "posted", "failed", "dropped", "lost"}

\* Elements of a sequence.
Elements(s) == {s[i] : i \in DOMAIN s}

Init ==
  /\ starting = {}
  /\ buffer = <<>>
  /\ blocked = <<>>
  /\ consumer = "receive"
  /\ current = NoNotification
  /\ outcome = [n \in Notifications |-> "new"]
  /\ sent = <<>>
  /\ inFlight = {}
  /\ reached = <<>>

------------------------------------------------------------------------------
\* The senders.

\* go func() { notificationChan <- n }()
Spawn(n) ==
  /\ consumer # "exited"
  /\ outcome[n] = "new"
  /\ outcome' = [outcome EXCEPT ![n] = "pending"]
  /\ starting' = starting \cup {n}
  /\ UNCHANGED <<buffer, blocked, sent, consumerVars, networkVars>>

\* The goroutine is scheduled and executes its send.
Send(n) ==
  /\ n \in starting
  /\ starting' = starting \ {n}
  /\ sent' = Append(sent, n)
  /\ IF Len(buffer) < NotificationChanSize
     THEN buffer' = Append(buffer, n) /\ UNCHANGED blocked
     ELSE blocked' = Append(blocked, n) /\ UNCHANGED buffer
  /\ UNCHANGED <<consumerVars, outcome, networkVars>>

------------------------------------------------------------------------------
\* The consumer.
ConsumerAt(here, there) == consumer = here /\ consumer' = there

\* The notification is done with: the loop goes on with the next one.
Finish(here, o) ==
  /\ ConsumerAt(here, "receive")
  /\ current' = NoNotification
  /\ outcome' = [outcome EXCEPT ![current] = o]

\* Mutant: a receive frees the buffer without taking in the first blocked sender,
\* whose notification is gone.
ReceiveDropsSender ==
  /\ ConsumerAt("receive", "generate")
  /\ buffer # <<>>
  /\ current' = Head(buffer)
  /\ buffer' = Tail(buffer)
  /\ blocked' = IF blocked = <<>> THEN blocked ELSE Tail(blocked)
  /\ UNCHANGED <<starting, sent, outcome, networkVars>>

\* A receive makes room for the first blocked sender; without a buffer it takes
\* the notification from that sender directly.
Receive ==
  /\ ConsumerAt("receive", "generate")
  /\ \/ /\ buffer # <<>>
        /\ current' = Head(buffer)
        /\ IF blocked = <<>>
           THEN buffer' = Tail(buffer) /\ UNCHANGED blocked
           ELSE /\ buffer' = Append(Tail(buffer), Head(blocked))
                /\ blocked' = Tail(blocked)
     \/ /\ buffer = <<>> /\ blocked # <<>>
        /\ current' = Head(blocked)
        /\ blocked' = Tail(blocked)
        /\ UNCHANGED buffer
  /\ UNCHANGED <<starting, sent, outcome, networkVars>>

\* GeneratePayload: the endpoint of the notification becomes the URL of the payload.
HasURL(n) == n \in Addressed

\* Without a URL nothing is posted.
Generate ==
  /\ \/ /\ HasURL(current)
        /\ ConsumerAt("generate", "post")
        /\ UNCHANGED <<current, outcome>>
     \/ /\ ~HasURL(current)
        /\ Finish("generate", "dropped")
  /\ UNCHANGED <<channelVars, networkVars>>

\* Mutant: an error ends the loop instead of being logged.
PostReturns ==
  /\ \/ /\ ConsumerAt("post", "wait")
        /\ inFlight' = inFlight \cup {current}
        /\ UNCHANGED <<current, outcome>>
     \/ /\ ConsumerAt("post", "returned")
        /\ current' = NoNotification
        /\ outcome' = [outcome EXCEPT ![current] = "failed"]
        /\ UNCHANGED inFlight
  /\ UNCHANGED <<channelVars, reached>>

\* Mutant: the request is sent in the background and reported at once.
PostInBackground ==
  /\ Finish("post", "posted")
  /\ inFlight' = inFlight \cup {current}
  /\ UNCHANGED <<channelVars, reached>>

\* client.Do: the request leaves, or no connection is made.
Post ==
  /\ \/ /\ ConsumerAt("post", "wait")
        /\ inFlight' = inFlight \cup {current}
        /\ UNCHANGED <<current, outcome>>
     \/ /\ Finish("post", "failed")
        /\ UNCHANGED inFlight
  /\ UNCHANGED <<channelVars, reached>>

\* A 200 is read to its end; any other status, or a body that breaks off, fails.
Answered ==
  /\ \E i \in DOMAIN reached : reached[i] = current
  /\ Finish("wait", "posted") \/ Finish("wait", "failed")
  /\ UNCHANGED <<channelVars, networkVars>>

\* Mutant: a post that timed out is tried again.
TimeOutRetries ==
  /\ ConsumerAt("wait", "post")
  /\ UNCHANGED <<channelVars, current, outcome, networkVars>>

\* Mutant: a client without a timeout fails only when the connector answers.
TimeOutNever ==
  /\ \E i \in DOMAIN reached : reached[i] = current
  /\ Finish("wait", "failed")
  /\ UNCHANGED <<channelVars, networkVars>>

\* The client gives up after connectionTimeout, or the connection breaks.
TimeOut ==
  /\ Finish("wait", "failed")
  /\ UNCHANGED <<channelVars, networkVars>>

NotifyChannel == Receive \/ Generate \/ Post \/ Answered \/ TimeOut

------------------------------------------------------------------------------
\* The network and the cloud connector.
Arrive(n) ==
  /\ n \in inFlight
  /\ inFlight' = inFlight \ {n}
  /\ reached' = Append(reached, n)
  /\ UNCHANGED <<channelVars, consumerVars, outcome>>

Vanish(n) ==
  /\ n \in inFlight
  /\ inFlight' = inFlight \ {n}
  /\ UNCHANGED <<channelVars, consumerVars, outcome, reached>>

\* main returns after an interrupt: the goroutines end wherever they are.  The
\* HTTP server is shut down gracefully, the channel is not.
Exit ==
  /\ consumer # "exited"
  /\ consumer' = "exited"
  /\ current' = NoNotification
  /\ starting' = {} /\ buffer' = <<>> /\ blocked' = <<>>
  /\ outcome' = [n \in Notifications |-> IF outcome[n] = "pending" THEN "lost"
                                                                   ELSE outcome[n]]
  /\ UNCHANGED <<sent, networkVars>>

Next ==
  \/ \E n \in Notifications : Spawn(n) \/ Send(n) \/ Arrive(n) \/ Vanish(n)
  \/ NotifyChannel
  \/ Exit

Spec == Init /\ [][Next]_vars

\* Goroutines are scheduled, and the client's timeout ends every post.
FairSpec ==
  /\ Spec
  /\ \A n \in Notifications : WF_vars(Send(n))
  /\ WF_vars(NotifyChannel)

------------------------------------------------------------------------------
\* The variables have their types: NotifyChannel (lib.go:85) is always at one of its
\* own program points, whatever a post returned.
TypeOK ==
  /\ starting \subseteq Notifications
  /\ buffer \in Seq(Notifications)
  /\ blocked \in Seq(Notifications)
  /\ consumer \in ConsumerPoints
  /\ current \in Notifications \cup {NoNotification}
  /\ outcome \in [Notifications -> Outcomes]
  /\ sent \in Seq(Notifications)
  /\ inFlight \subseteq Notifications
  /\ reached \in Seq(Notifications)

NoDuplicates(s) == \A i, j \in DOMAIN s : s[i] = s[j] => i = j

\* Nothing is lost or duplicated inside the service: a pending notification is in
\* exactly one place, and whatever is in one of them is pending.
Places == <<starting, Elements(buffer), Elements(blocked), {current} \ {NoNotification}>>

EachInOnePlace ==
  /\ NoDuplicates(buffer) /\ NoDuplicates(blocked)
  /\ \A p, q \in DOMAIN Places : p # q => Places[p] \cap Places[q] = {}
  /\ {n \in Notifications : outcome[n] = "pending"} = UNION {Places[p] : p \in DOMAIN Places}

Before(a, b, s) == \E i, j \in DOMAIN s : i < j /\ s[i] = a /\ s[j] = b

\* The posts that succeed reach the cloud connector in the order of the sends, even
\* though a request that timed out may arrive late, after its successors.
PostedInOrder ==
  \A a, b \in Notifications :
    outcome[a] = "posted" /\ outcome[b] = "posted" /\ Before(a, b, sent)
      => Before(a, b, reached)

\* No notification reaches the cloud connector twice, and none that has no
\* destination; one that counts as posted has reached it.
ReachesAtMostOnce ==
  /\ NoDuplicates(reached)
  /\ Elements(reached) \subseteq Addressed
  /\ \A n \in Notifications : outcome[n] = "posted" => n \in Elements(reached)

\* How often each notification has reached the cloud connector.
Reaches == [n \in Notifications |-> Cardinality({i \in DOMAIN reached : reached[i] = n})]

Delivery == INSTANCE NotificationDelivery WITH reaches <- Reaches

\* The channel and its consumer implement the abstract delivery, the fairness of its
\* Settle included: a slow or dead cloud connector delays a notification but cannot hold
\* it forever, nor can a full channel (lib.go:85-176).
ImplementsDelivery == Delivery!Spec

==============================================================================
