---------------------- MODULE NotificationChannel_proofs ----------------------
(***************************************************************************)
(* Theorems about NotificationChannel, for every set of notifications, any *)
(* of which may have a destination, and every size of the channel.         *)
(***************************************************************************)
EXTENDS NotificationChannel, FiniteSetTheorems, SequenceTheorems, TLAPS

------------------------------------------------------------------------------
(* The inductive invariant.  A notification that has been sent is known by its    *)
(* position in the history sent.                                                   *)

\* How many the consumer has taken out of the channel.
Taken == Len(sent) - (Len(buffer) + Len(blocked))

\* What waits in the channel are the last sent, the buffered before the blocked, and
\* senders block only while the buffer is full.
QueueInv ==
  /\ Len(buffer) + Len(blocked) <= Len(sent)
  /\ Len(buffer) < NotificationChanSize => blocked = <<>>
  /\ \A i \in 1 .. Len(buffer) : buffer[i] = sent[Taken + i]
  /\ \A i \in 1 .. Len(blocked) : blocked[i] = sent[Taken + Len(buffer) + i]

\* A notification is sent once, after its goroutine has started.
SentInv ==
  /\ NoDuplicates(sent)
  /\ \A i \in DOMAIN sent : sent[i] \notin starting /\ outcome[sent[i]] # "new"
  /\ \A n \in starting : outcome[n] = "pending"

\* The consumer has a notification at hand exactly while it works on one.
BusyInv ==
  current # NoNotification <=> consumer \in {"generate", "post", "wait"}

\* The pending notifications are those starting, waiting, and the last one taken while
\* the consumer works on it.
PendingInv ==
  /\ current # NoNotification =>
       Taken > 0 /\ current = sent[Taken] /\ outcome[current] = "pending"
  /\ \A i \in DOMAIN sent : i > Taken => outcome[sent[i]] = "pending"
  /\ \A n \in Notifications :
       outcome[n] = "pending" =>
         \/ n \in starting
         \/ n = current
         \/ \E i \in DOMAIN sent : i > Taken /\ sent[i] = n

HasReached(n) == \E i \in DOMAIN reached : reached[i] = n

\* What has left the service was taken and has a destination, and is the current one
\* only while the consumer waits for the answer.
NetworkInv ==
  /\ consumer \in {"post", "wait"} => current \in Addressed
  /\ NoDuplicates(reached)
  /\ \A n \in inFlight : ~HasReached(n)
  /\ \A n \in Notifications : n \in inFlight \/ HasReached(n) =>
       /\ n \in Addressed
       /\ \E i \in DOMAIN sent : i <= Taken /\ sent[i] = n
       /\ n = current => consumer = "wait"
  /\ \A n \in Notifications :
       /\ outcome[n] = "posted" => HasReached(n)
       /\ outcome[n] = "dropped" => n \notin Addressed

\* Whatever reaches the cloud connector comes after the posts that succeeded before it.
OrderInv ==
  \A i, j \in DOMAIN sent :
    i < j /\ outcome[sent[i]] = "posted" /\ HasReached(sent[j])
      => Before(sent[i], sent[j], reached)

IInv ==
  TypeOK /\ BusyInv /\ QueueInv /\ SentInv /\ PendingInv /\ NetworkInv /\ OrderInv

------------------------------------------------------------------------------
(* Sequences. *)

\* What Append does to a sequence, position by position.
LEMMA AppendFacts ==
  ASSUME NEW S, NEW s \in Seq(S), NEW e \in S
  PROVE  /\ Append(s, e) \in Seq(S)
         /\ Len(Append(s, e)) = Len(s) + 1
         /\ DOMAIN Append(s, e) = 1 .. Len(s) + 1
         /\ Append(s, e)[Len(s) + 1] = e
         /\ \A i \in 1 .. Len(s) : Append(s, e)[i] = s[i]
BY AppendProperties, LenProperties

\* What Head and Tail are of a sequence that is not empty.
LEMMA TailFacts ==
  ASSUME NEW S, NEW s \in Seq(S), s # <<>>
  PROVE  /\ Len(s) > 0 /\ Head(s) = s[1] /\ Head(s) \in S
         /\ Tail(s) \in Seq(S) /\ Len(Tail(s)) = Len(s) - 1
         /\ \A i \in 1 .. Len(s) - 1 : Tail(s)[i] = s[i + 1]
BY HeadTailProperties, EmptySeq

\* The empty sequence is the one of length 0.
LEMMA EmptyFacts ==
  ASSUME NEW S, NEW s \in Seq(S)
  PROVE  /\ Len(s) \in Nat /\ DOMAIN s = 1 .. Len(s)
         /\ s = <<>> <=> Len(s) = 0
         /\ \A i \in 1 .. Len(s) : s[i] \in S
BY EmptySeq, LenProperties, ElementOfSeq

------------------------------------------------------------------------------
(* Type correctness. *)

\* Nothing has been raised, sent or taken at the start (main.go:404).
LEMMA InitType == Init => TypeOK
BY DEF Init, TypeOK, ConsumerPoints, Outcomes

\* Every step of the senders, of NotifyChannel and of the network keeps the types.
LEMMA NextType == TypeOK /\ BusyInv /\ [Next]_vars => TypeOK'
<1> SUFFICES ASSUME TypeOK, BusyInv, [Next]_vars PROVE TypeOK'
  OBVIOUS
<1> USE ChannelAssumption DEF TypeOK, channelVars, consumerVars, networkVars
<1>o. ASSUME NEW n, NEW o \in Outcomes
      PROVE  [outcome EXCEPT ![n] = o] \in [Notifications -> Outcomes]
  OBVIOUS
<1>f. ASSUME NEW here, NEW o \in Outcomes, Finish(here, o)
      PROVE  /\ consumer' \in ConsumerPoints
             /\ current' \in Notifications \cup {NoNotification}
             /\ outcome' \in [Notifications -> Outcomes]
  BY <1>f, <1>o DEF Finish, ConsumerAt, ConsumerPoints
<1>1. ASSUME NEW n \in Notifications, Spawn(n) PROVE TypeOK'
  <2>1. outcome' \in [Notifications -> Outcomes]
    BY <1>1, <1>o DEF Spawn, Outcomes
  <2> QED
    BY <1>1, <2>1 DEF Spawn
<1>2. ASSUME NEW n \in Notifications, Send(n) PROVE TypeOK'
  <2>1. /\ Append(sent, n) \in Seq(Notifications)
        /\ Append(buffer, n) \in Seq(Notifications)
        /\ Append(blocked, n) \in Seq(Notifications)
    BY AppendFacts
  <2>2. buffer' \in Seq(Notifications) /\ blocked' \in Seq(Notifications)
    BY <1>2, <2>1 DEF Send
  <2> QED
    BY <1>2, <2>1, <2>2 DEF Send
<1>3. ASSUME NEW n \in Notifications, Arrive(n) \/ Vanish(n) PROVE TypeOK'
  <2>1. Append(reached, n) \in Seq(Notifications)
    BY AppendFacts
  <2> QED
    BY <1>3, <2>1 DEF Arrive, Vanish
<1>4. CASE Receive
  <2>1. buffer # <<>> => Head(buffer) \in Notifications /\ Tail(buffer) \in Seq(Notifications)
    BY TailFacts
  <2>2. blocked # <<>> => Head(blocked) \in Notifications /\ Tail(blocked) \in Seq(Notifications)
    BY TailFacts
  <2>3. buffer # <<>> /\ blocked # <<>>
          => Append(Tail(buffer), Head(blocked)) \in Seq(Notifications)
    BY <2>1, <2>2, AppendFacts
  <2>4. /\ buffer' \in Seq(Notifications)
        /\ blocked' \in Seq(Notifications)
        /\ current' \in Notifications
    BY <1>4, <2>1, <2>2, <2>3 DEF Receive
  <2>5. consumer' \in ConsumerPoints
    BY <1>4 DEF Receive, ConsumerAt, ConsumerPoints
  <2> QED
    BY <1>4, <2>4, <2>5 DEF Receive
<1>5. CASE Generate
  BY <1>5, <1>f DEF Generate, ConsumerAt, ConsumerPoints, Outcomes
<1>6. CASE Post
  <2>1. CASE Finish("post", "failed") /\ UNCHANGED inFlight
    BY <1>6, <2>1, <1>f DEF Post, Outcomes
  <2>2. CASE /\ ConsumerAt("post", "wait")
             /\ inFlight' = inFlight \cup {current}
             /\ UNCHANGED <<current, outcome>>
    BY <1>6, <2>2 DEF Post, ConsumerAt, ConsumerPoints, BusyInv
  <2> QED
    BY <1>6, <2>1, <2>2 DEF Post
<1>7. CASE Answered \/ TimeOut
  BY <1>7, <1>f DEF Answered, TimeOut, Outcomes
<1>8. CASE Exit
  <2>1. outcome' \in [Notifications -> Outcomes]
    BY <1>8 DEF Exit, Outcomes
  <2> QED
    BY <1>8, <2>1 DEF Exit, ConsumerPoints
<1>9. CASE UNCHANGED vars
  BY <1>9 DEF vars
<1> QED
  BY <1>1, <1>2, <1>3, <1>4, <1>5, <1>6, <1>7, <1>8, <1>9 DEF Next, NotifyChannel

\* A step hands the consumer a notification, or takes it from it, exactly when it enters
\* or leaves the part of its loop that works on one.
LEMMA NextBusy == TypeOK /\ BusyInv /\ [Next]_vars => BusyInv'
<1> SUFFICES ASSUME TypeOK, BusyInv, [Next]_vars PROVE BusyInv'
  OBVIOUS
<1> USE ChannelAssumption
    DEF TypeOK, BusyInv, channelVars, consumerVars, networkVars
<1>1. ASSUME NEW n \in Notifications, Spawn(n) \/ Send(n) \/ Arrive(n) \/ Vanish(n)
      PROVE  BusyInv'
  BY <1>1 DEF Spawn, Send, Arrive, Vanish
<1>2. CASE Receive
  <2>1. current' \in Notifications
    BY <1>2, TailFacts DEF Receive
  <2> QED
    BY <1>2, <2>1 DEF Receive, ConsumerAt
<1>3. CASE Generate \/ Post \/ Answered \/ TimeOut
  BY <1>3 DEF Generate, Post, Answered, TimeOut, ConsumerAt, Finish
<1>4. CASE Exit \/ UNCHANGED vars
  BY <1>4 DEF Exit, vars
<1> QED
  BY <1>1, <1>2, <1>3, <1>4 DEF Next, NotifyChannel

\* Type correctness of the channel and its consumer (app/alert/lib.go:85-176).
THEOREM TypeCorrect == Spec => []TypeOK
<1>1. Init => TypeOK /\ BusyInv
  BY InitType DEF Init, BusyInv
<1>2. TypeOK /\ BusyInv /\ [Next]_vars => TypeOK' /\ BusyInv'
  BY NextType, NextBusy
<1> QED
  BY <1>1, <1>2, PTL DEF Spec

------------------------------------------------------------------------------
(* What the steps do. *)

\* The current notification has a URL and goes on to its post.
Advances ==
  /\ consumer = "generate" /\ consumer' = "post"
  /\ current \in Addressed
  /\ UNCHANGED <<current, outcome, inFlight>>

\* The request for the current notification leaves.
Departs ==
  /\ consumer = "post" /\ consumer' = "wait"
  /\ inFlight' = inFlight \cup {current}
  /\ UNCHANGED <<current, outcome>>

\* The consumer is done with the current notification: posted only if it reached the
\* cloud connector, dropped only if it has no destination.
Settles(o) ==
  /\ consumer' = "receive" /\ current' = NoNotification
  /\ outcome' = [outcome EXCEPT ![current] = o]
  /\ UNCHANGED inFlight
  /\ o = "posted" => HasReached(current)
  /\ o = "dropped" => current \notin Addressed
  /\ o # "dropped" => consumer \in {"post", "wait"}

Ends == {"posted", "failed", "dropped"}

\* The consumer's work on a notification advances it, lets its request go, or settles it.
LEMMA WorkSteps ==
  ASSUME TypeOK, BusyInv, Generate \/ Post \/ Answered \/ TimeOut
  PROVE  /\ UNCHANGED <<starting, buffer, blocked, sent, reached>>
         /\ current \in Notifications
         /\ Advances \/ Departs \/ \E o \in Ends : Settles(o)
<1> USE ChannelAssumption DEF channelVars, consumerVars, networkVars, ConsumerAt, Finish
<1>1. UNCHANGED <<starting, buffer, blocked, sent, reached>>
  BY DEF Generate, Post, Answered, TimeOut
<1>2. current \in Notifications
  BY DEF TypeOK, BusyInv, Generate, Post, Answered, TimeOut
<1>3. CASE Generate
  BY <1>1, <1>2, <1>3 DEF Generate, HasURL, Advances, Settles, Ends
<1>4. CASE Post
  BY <1>1, <1>2, <1>4 DEF Post, Departs, Settles, Ends
<1>5. CASE Answered
  <2>1. HasReached(current)
    BY <1>5 DEF Answered, HasReached
  <2> QED
    BY <1>1, <1>2, <1>5, <2>1 DEF Answered, Settles, Ends
<1>6. CASE TimeOut
  BY <1>1, <1>2, <1>6 DEF TimeOut, Settles, Ends
<1> QED
  BY <1>1, <1>2, <1>3, <1>4, <1>5, <1>6

\* The number taken is a position of the history, or 0.
LEMMA TakenFacts ==
  ASSUME TypeOK, QueueInv
  PROVE  /\ Len(buffer) \in Nat /\ Len(blocked) \in Nat /\ Len(sent) \in Nat
         /\ Taken \in 0 .. Len(sent)
         /\ DOMAIN sent = 1 .. Len(sent)
         /\ \A i \in DOMAIN sent : sent[i] \in Notifications
<1>1. /\ Len(buffer) \in Nat /\ Len(blocked) \in Nat /\ Len(sent) \in Nat
      /\ DOMAIN sent = 1 .. Len(sent)
      /\ \A i \in DOMAIN sent : sent[i] \in Notifications
  BY EmptyFacts DEF TypeOK
<1> QED
  BY <1>1 DEF QueueInv, Taken

\* A send adds the last of the waiting notifications and takes none.
LEMMA SendFacts ==
  ASSUME TypeOK, QueueInv, NEW n \in Notifications, Send(n)
  PROVE  /\ QueueInv' /\ Taken' = Taken
         /\ Len(sent') = Len(sent) + 1 /\ DOMAIN sent' = 1 .. Len(sent) + 1
         /\ sent'[Len(sent) + 1] = n
         /\ \A i \in DOMAIN sent : sent'[i] = sent[i]
<1> USE ChannelAssumption
<1>1. /\ Len(sent') = Len(sent) + 1 /\ DOMAIN sent' = 1 .. Len(sent) + 1
      /\ sent'[Len(sent) + 1] = n
      /\ \A i \in 1 .. Len(sent) : sent'[i] = sent[i]
  BY AppendFacts DEF TypeOK, Send
<1>2. /\ Len(buffer) \in Nat /\ Len(blocked) \in Nat /\ Len(sent) \in Nat
      /\ DOMAIN sent = 1 .. Len(sent) /\ Taken \in 0 .. Len(sent)
  BY TakenFacts
<1>3. CASE Len(buffer) < NotificationChanSize
  <2>1. /\ Len(buffer') = Len(buffer) + 1 /\ buffer'[Len(buffer) + 1] = n
        /\ \A i \in 1 .. Len(buffer) : buffer'[i] = buffer[i]
    BY <1>3, AppendFacts DEF TypeOK, Send
  <2>2. blocked' = blocked /\ Len(blocked) = 0 /\ blocked = <<>>
    BY <1>3, EmptyFacts DEF TypeOK, Send, QueueInv
  <2>3. Taken' = Taken
    BY <1>1, <1>2, <2>1, <2>2 DEF Taken
  <2>4. \A i \in 1 .. Len(buffer) : buffer'[i] = sent'[Taken + i]
    BY <1>1, <1>2, <2>1, <2>2 DEF QueueInv, Taken
  <2>5. buffer'[Len(buffer) + 1] = sent'[Taken + Len(buffer) + 1]
    BY <1>1, <1>2, <2>1, <2>2 DEF Taken
  <2>6. \A i \in 1 .. Len(buffer') : buffer'[i] = sent'[Taken' + i]
    BY <1>2, <2>1, <2>3, <2>4, <2>5
  <2>7. QueueInv'
    BY <1>1, <1>2, <2>1, <2>2, <2>3, <2>6 DEF QueueInv
  <2> QED
    BY <1>1, <1>2, <2>3, <2>7
<1>4. CASE ~(Len(buffer) < NotificationChanSize)
  <2>1. /\ Len(blocked') = Len(blocked) + 1 /\ blocked'[Len(blocked) + 1] = n
        /\ \A i \in 1 .. Len(blocked) : blocked'[i] = blocked[i]
        /\ buffer' = buffer
    <3>1. blocked' = Append(blocked, n) /\ buffer' = buffer
      BY <1>4 DEF Send
    <3>2. blocked \in Seq(Notifications)
      BY DEF TypeOK
    <3> QED
      BY <3>1, <3>2, AppendFacts
  <2>2. Taken' = Taken
    BY <1>1, <1>2, <2>1 DEF Taken
  <2>p. \A i \in 1 .. Len(buffer) + Len(blocked) : Taken + i \in 1 .. Len(sent)
    BY <1>2 DEF Taken
  <2>3. \A i \in 1 .. Len(buffer) : buffer'[i] = sent'[Taken + i]
    BY <1>1, <1>2, <2>1, <2>p DEF QueueInv
  <2>4. \A i \in 1 .. Len(blocked) : blocked'[i] = sent'[Taken + Len(buffer) + i]
    <3> SUFFICES ASSUME NEW i \in 1 .. Len(blocked)
                 PROVE  blocked'[i] = sent'[Taken + Len(buffer) + i]
      OBVIOUS
    <3>1. /\ Taken + (Len(buffer) + i) \in 1 .. Len(sent)
          /\ Taken + (Len(buffer) + i) = Taken + Len(buffer) + i
      BY <1>2, <2>p
    <3>2. blocked[i] = sent[Taken + Len(buffer) + i]
      BY DEF QueueInv
    <3> QED
      BY <1>1, <2>1, <3>1, <3>2
  <2>5. blocked'[Len(blocked) + 1] = sent'[Taken + Len(buffer) + Len(blocked) + 1]
    BY <1>1, <1>2, <2>1 DEF Taken
  <2>6. \A i \in 1 .. Len(blocked') : blocked'[i] = sent'[Taken' + Len(buffer') + i]
    BY <1>2, <2>1, <2>2, <2>4, <2>5
  <2>7. QueueInv'
    BY <1>1, <1>2, <1>4, <2>1, <2>2, <2>3, <2>6 DEF QueueInv
  <2> QED
    BY <1>1, <1>2, <2>2, <2>7
<1> QED
  BY <1>3, <1>4

\* A receive takes the first of the waiting notifications.
LEMMA ReceiveFacts ==
  ASSUME TypeOK, QueueInv, Receive
  PROVE  /\ QueueInv' /\ Taken' = Taken + 1
         /\ Taken + 1 \in DOMAIN sent /\ current' = sent[Taken + 1]
<1> USE ChannelAssumption
<1>1. /\ Len(buffer) \in Nat /\ Len(blocked) \in Nat /\ Len(sent) \in Nat
      /\ DOMAIN sent = 1 .. Len(sent) /\ Taken \in 0 .. Len(sent) /\ sent' = sent
  BY TakenFacts DEF Receive
<1>2. CASE buffer # <<>> /\ blocked = <<>>
  <2>1. /\ Len(buffer) > 0 /\ current' = buffer[1] /\ Len(buffer') = Len(buffer) - 1
        /\ \A i \in 1 .. Len(buffer) - 1 : buffer'[i] = buffer[i + 1]
    BY <1>2, TailFacts DEF TypeOK, Receive
  <2>2. blocked' = blocked /\ blocked = <<>> /\ Len(blocked) = 0
    BY <1>2, EmptyFacts DEF TypeOK, Receive
  <2>3. Taken' = Taken + 1
    BY <1>1, <2>1, <2>2 DEF Taken
  <2>4. Taken + 1 \in DOMAIN sent /\ current' = sent[Taken + 1]
    BY <1>1, <2>1, <2>2 DEF QueueInv, Taken
  <2>5. \A i \in 1 .. Len(buffer') : buffer'[i] = sent[Taken' + i]
    <3> SUFFICES ASSUME NEW i \in 1 .. Len(buffer) - 1
                 PROVE  buffer'[i] = sent[Taken + 1 + i]
      BY <2>1, <2>3
    <3>1. buffer[i + 1] = sent[Taken + (i + 1)]
      BY <1>1 DEF QueueInv
    <3>2. Taken + (i + 1) = Taken + 1 + i
      BY <1>1
    <3> QED
      BY <2>1, <3>1, <3>2
  <2>6. QueueInv'
    BY <1>1, <2>1, <2>2, <2>3, <2>5 DEF QueueInv
  <2> QED
    BY <2>3, <2>4, <2>6
<1>3. CASE buffer # <<>> /\ blocked # <<>>
  <2>1. /\ Len(buffer) > 0 /\ current' = buffer[1] /\ Len(Tail(buffer)) = Len(buffer) - 1
        /\ Tail(buffer) \in Seq(Notifications)
        /\ \A i \in 1 .. Len(buffer) - 1 : Tail(buffer)[i] = buffer[i + 1]
    BY <1>3, TailFacts DEF TypeOK, Receive
  <2>2. /\ Len(blocked) > 0 /\ Head(blocked) = blocked[1] /\ Head(blocked) \in Notifications
        /\ Len(blocked') = Len(blocked) - 1
        /\ \A i \in 1 .. Len(blocked) - 1 : blocked'[i] = blocked[i + 1]
    BY <1>3, TailFacts DEF TypeOK, Receive
  <2>3. buffer' = Append(Tail(buffer), Head(blocked))
    BY <1>3 DEF Receive
  <2>4. /\ Len(buffer') = Len(buffer) /\ buffer'[Len(buffer)] = blocked[1]
        /\ \A i \in 1 .. Len(buffer) - 1 : buffer'[i] = buffer[i + 1]
    <3>1. /\ Len(buffer') = Len(Tail(buffer)) + 1
          /\ buffer'[Len(Tail(buffer)) + 1] = Head(blocked)
          /\ \A i \in 1 .. Len(Tail(buffer)) : buffer'[i] = Tail(buffer)[i]
      BY <2>1, <2>2, <2>3, AppendFacts
    <3>2. Len(Tail(buffer)) + 1 = Len(buffer)
      BY <1>1, <2>1
    <3> QED
      BY <1>1, <2>1, <2>2, <3>1, <3>2
  <2>5. Taken' = Taken + 1
    BY <1>1, <2>2, <2>4 DEF Taken
  <2>6. Taken + 1 \in DOMAIN sent /\ current' = sent[Taken + 1]
    BY <1>1, <2>1, <2>2 DEF QueueInv, Taken
  <2>7. \A i \in 1 .. Len(buffer') : buffer'[i] = sent[Taken' + i]
    <3> SUFFICES ASSUME NEW i \in 1 .. Len(buffer)
                 PROVE  buffer'[i] = sent[Taken + 1 + i]
      BY <2>4, <2>5
    <3>1. CASE i = Len(buffer)
      <4>1. blocked[1] = sent[Taken + Len(buffer) + 1]
        BY <1>1, <2>2 DEF QueueInv
      <4>2. Taken + Len(buffer) + 1 = Taken + 1 + i
        BY <1>1, <3>1
      <4> QED
        BY <2>4, <3>1, <4>1, <4>2
    <3>2. CASE i # Len(buffer)
      <4>1. buffer[i + 1] = sent[Taken + (i + 1)]
        BY <1>1, <3>2 DEF QueueInv
      <4>2. Taken + (i + 1) = Taken + 1 + i
        BY <1>1
      <4> QED
        BY <1>1, <2>4, <3>2, <4>1, <4>2
    <3> QED
      BY <3>1, <3>2
  <2>8. \A i \in 1 .. Len(blocked') : blocked'[i] = sent[Taken' + Len(buffer') + i]
    <3> SUFFICES ASSUME NEW i \in 1 .. Len(blocked) - 1
                 PROVE  blocked'[i] = sent[Taken + 1 + Len(buffer) + i]
      BY <2>2, <2>4, <2>5
    <3>1. blocked[i + 1] = sent[Taken + Len(buffer) + (i + 1)]
      BY <1>1 DEF QueueInv
    <3>2. Taken + Len(buffer) + (i + 1) = Taken + 1 + Len(buffer) + i
      BY <1>1
    <3> QED
      BY <2>2, <3>1, <3>2
  <2>9. QueueInv'
    BY <1>1, <1>3, <2>2, <2>4, <2>5, <2>7, <2>8 DEF QueueInv
  <2> QED
    BY <2>5, <2>6, <2>9
<1>4. CASE buffer = <<>>
  <2>1. /\ Len(blocked) > 0 /\ current' = blocked[1] /\ Len(blocked') = Len(blocked) - 1
        /\ \A i \in 1 .. Len(blocked) - 1 : blocked'[i] = blocked[i + 1]
        /\ blocked # <<>>
    BY <1>4, TailFacts DEF TypeOK, Receive
  <2>2. buffer' = buffer /\ Len(buffer) = 0
    BY <1>4, EmptyFacts DEF TypeOK, Receive
  <2>3. Taken' = Taken + 1
    BY <1>1, <2>1, <2>2 DEF Taken
  <2>4. Taken + 1 \in DOMAIN sent /\ current' = sent[Taken + 1]
    BY <1>1, <2>1, <2>2 DEF QueueInv, Taken
  <2>5. \A i \in 1 .. Len(blocked') : blocked'[i] = sent[Taken' + Len(buffer') + i]
    <3> SUFFICES ASSUME NEW i \in 1 .. Len(blocked) - 1
                 PROVE  blocked'[i] = sent[Taken + 1 + Len(buffer) + i]
      BY <2>1, <2>2, <2>3
    <3>1. blocked[i + 1] = sent[Taken + Len(buffer) + (i + 1)]
      BY <1>1 DEF QueueInv
    <3>2. Taken + Len(buffer) + (i + 1) = Taken + 1 + Len(buffer) + i
      BY <1>1
    <3> QED
      BY <2>1, <3>1, <3>2
  <2>6. QueueInv'
    BY <1>1, <2>1, <2>2, <2>3, <2>5 DEF QueueInv
  <2> QED
    BY <2>3, <2>4, <2>6
<1> QED
  BY <1>2, <1>3, <1>4

------------------------------------------------------------------------------
(* The invariant is inductive. *)

\* Nothing has been raised, sent or taken at the start.
LEMMA InitIInv == Init => IInv
<1> SUFFICES ASSUME Init PROVE IInv
  OBVIOUS
<1>1. TypeOK
  BY InitType
<1>2. BusyInv
  BY DEF Init, BusyInv
<1>3. Len(sent) = 0 /\ Len(buffer) = 0 /\ Len(blocked) = 0 /\ Len(reached) = 0
  BY <1>1, EmptyFacts DEF Init, TypeOK
<1>4. DOMAIN sent = {} /\ DOMAIN reached = {}
  BY <1>1, <1>3, EmptyFacts DEF TypeOK
<1>5. QueueInv
  BY <1>3 DEF Init, QueueInv
<1>6. SentInv
  BY <1>4 DEF Init, SentInv, NoDuplicates
<1>7. PendingInv
  BY <1>4, ChannelAssumption DEF Init, PendingInv
<1>8. NetworkInv
  BY <1>4 DEF Init, NetworkInv, NoDuplicates, HasReached
<1>9. OrderInv
  BY <1>4 DEF OrderInv
<1> QED
  BY <1>1, <1>2, <1>5, <1>6, <1>7, <1>8, <1>9 DEF IInv

\* The channel is in order after a send, a receive and an exit; no other step touches it.
LEMMA NextQueue == IInv /\ [Next]_vars => QueueInv'
<1> SUFFICES ASSUME IInv, [Next]_vars PROVE QueueInv'
  OBVIOUS
<1> USE DEF IInv
<1>1. CASE UNCHANGED <<buffer, blocked, sent>>
  BY <1>1 DEF QueueInv, Taken
<1>2. ASSUME NEW n \in Notifications, Spawn(n) \/ Arrive(n) \/ Vanish(n)
      PROVE  QueueInv'
  BY <1>1, <1>2 DEF Spawn, Arrive, Vanish, channelVars
<1>3. ASSUME NEW n \in Notifications, Send(n) PROVE QueueInv'
  BY <1>3, SendFacts
<1>4. CASE Receive
  BY <1>4, ReceiveFacts
<1>5. CASE Generate \/ Post \/ Answered \/ TimeOut
  BY <1>1, <1>5, WorkSteps
<1>6. CASE Exit
  <2>1. buffer' = <<>> /\ blocked' = <<>> /\ sent' = sent /\ Len(sent) \in Nat
    BY <1>6, TakenFacts DEF Exit
  <2>2. Len(buffer') = 0 /\ Len(blocked') = 0
    BY <2>1, EmptyFacts
  <2> QED
    BY <2>1, <2>2 DEF QueueInv
<1>7. CASE UNCHANGED vars
  BY <1>1, <1>7 DEF vars, channelVars
<1> QED
  BY <1>2, <1>3, <1>4, <1>5, <1>6, <1>7 DEF Next, NotifyChannel

\* A send adds a notification that was starting, hence not sent before; the consumer
\* settles one that was sent, hence not starting.
LEMMA NextSent == IInv /\ [Next]_vars => SentInv'
<1> SUFFICES ASSUME IInv, [Next]_vars PROVE SentInv'
  OBVIOUS
<1> USE DEF IInv
<1>t. /\ DOMAIN sent = 1 .. Len(sent) /\ Len(sent) \in Nat /\ Taken \in 0 .. Len(sent)
      /\ \A i \in DOMAIN sent : sent[i] \in Notifications
  BY TakenFacts
<1>1. CASE UNCHANGED <<starting, sent, outcome>>
  BY <1>1 DEF SentInv, NoDuplicates
<1>2. ASSUME NEW n \in Notifications, Spawn(n) PROVE SentInv'
  <2>1. /\ sent' = sent /\ starting' = starting \cup {n} /\ outcome[n] = "new"
        /\ outcome'[n] = "pending"
        /\ \A m \in Notifications \ {n} : outcome'[m] = outcome[m]
    BY <1>2 DEF Spawn, channelVars, TypeOK
  <2>2. \A i \in DOMAIN sent : sent[i] # n
    BY <2>1 DEF SentInv
  <2> QED
    BY <1>t, <2>1, <2>2 DEF SentInv, NoDuplicates, TypeOK
<1>3. ASSUME NEW n \in Notifications, Send(n) PROVE SentInv'
  <2>1. /\ DOMAIN sent' = 1 .. Len(sent) + 1 /\ sent'[Len(sent) + 1] = n
        /\ \A i \in DOMAIN sent : sent'[i] = sent[i]
    BY <1>3, SendFacts
  <2>2. starting' = starting \ {n} /\ n \in starting /\ outcome' = outcome
    BY <1>3 DEF Send
  <2>3. outcome[n] = "pending" /\ \A i \in DOMAIN sent : sent[i] # n
    BY <2>2 DEF SentInv
  <2>4. \A i \in DOMAIN sent' : i \in DOMAIN sent \/ i = Len(sent) + 1
    BY <1>t, <2>1
  <2>5. NoDuplicates(sent)'
    BY <2>1, <2>3, <2>4 DEF SentInv, NoDuplicates
  <2>6. \A i \in DOMAIN sent' : sent'[i] \notin starting' /\ outcome'[sent'[i]] # "new"
    BY <2>1, <2>2, <2>3, <2>4 DEF SentInv
  <2> QED
    BY <2>2, <2>5, <2>6 DEF SentInv
<1>4. CASE Receive
  BY <1>1, <1>4 DEF Receive
<1>5. CASE Generate \/ Post \/ Answered \/ TimeOut
  <2>1. CASE Advances \/ Departs
    BY <1>1, <1>5, <2>1, WorkSteps DEF Advances, Departs
  <2>2. ASSUME NEW o \in Ends, Settles(o) PROVE SentInv'
    <3>1. /\ starting' = starting /\ sent' = sent /\ current \in Notifications
          /\ outcome'[current] = o
          /\ \A m \in Notifications \ {current} : outcome'[m] = outcome[m]
      BY <1>5, <2>2, WorkSteps DEF Settles, TypeOK
    <3>2. current \notin starting
      BY <1>t, <3>1, ChannelAssumption DEF PendingInv, SentInv
    <3> QED
      BY <1>t, <2>2, <3>1, <3>2 DEF SentInv, NoDuplicates, Ends, TypeOK
  <2> QED
    BY <1>5, <2>1, <2>2, WorkSteps
<1>6. CASE Exit
  <2>1. /\ sent' = sent /\ starting' = {}
        /\ \A m \in Notifications : outcome'[m] = "new" => outcome[m] = "new"
    BY <1>6 DEF Exit
  <2> QED
    BY <1>t, <2>1 DEF SentInv, NoDuplicates
<1>7. CASE UNCHANGED vars
  BY <1>1, <1>7 DEF vars, channelVars
<1>8. ASSUME NEW n \in Notifications, Arrive(n) \/ Vanish(n) PROVE SentInv'
  BY <1>1, <1>8 DEF Arrive, Vanish, channelVars
<1> QED
  BY <1>2, <1>3, <1>4, <1>5, <1>6, <1>7, <1>8 DEF Next, NotifyChannel

\* Every pending notification stays accounted for: a spawn puts it with the starting
\* ones, a send at the end of the channel, a receive in the consumer's hands.
LEMMA NextPending == IInv /\ [Next]_vars => PendingInv'
<1> SUFFICES ASSUME IInv, [Next]_vars PROVE PendingInv'
  OBVIOUS
<1> USE ChannelAssumption DEF IInv
<1>t. /\ DOMAIN sent = 1 .. Len(sent) /\ Len(sent) \in Nat /\ Taken \in 0 .. Len(sent)
      /\ \A i \in DOMAIN sent : sent[i] \in Notifications
  BY TakenFacts
<1>1. CASE UNCHANGED <<starting, buffer, blocked, sent, current, outcome>>
  BY <1>1 DEF PendingInv, Taken
<1>2. ASSUME NEW n \in Notifications, Spawn(n) PROVE PendingInv'
  <2>1. /\ sent' = sent /\ current' = current /\ Taken' = Taken
        /\ starting' = starting \cup {n} /\ outcome[n] = "new"
        /\ \A m \in Notifications \ {n} : outcome'[m] = outcome[m]
    BY <1>2 DEF Spawn, channelVars, consumerVars, TypeOK, Taken
  <2>2. \A i \in DOMAIN sent : sent[i] # n
    BY <2>1 DEF SentInv
  <2>3. current' # NoNotification =>
          Taken' > 0 /\ current' = sent'[Taken'] /\ outcome'[current'] = "pending"
    BY <1>t, <2>1, <2>2 DEF PendingInv
  <2> QED
    BY <1>t, <2>1, <2>2, <2>3 DEF PendingInv
<1>3. ASSUME NEW n \in Notifications, Send(n) PROVE PendingInv'
  <2>1. /\ Taken' = Taken /\ DOMAIN sent' = 1 .. Len(sent) + 1
        /\ sent'[Len(sent) + 1] = n
        /\ \A i \in DOMAIN sent : sent'[i] = sent[i]
    BY <1>3, SendFacts
  <2>2. /\ starting' = starting \ {n} /\ outcome' = outcome /\ current' = current
        /\ n \in starting
    BY <1>3 DEF Send, consumerVars
  <2>3. outcome[n] = "pending"
    BY <2>2 DEF SentInv
  <2>4. \A i \in DOMAIN sent' : i \in DOMAIN sent \/ i = Len(sent) + 1
    BY <1>t, <2>1
  <2>5. current' # NoNotification =>
          Taken' > 0 /\ current' = sent'[Taken'] /\ outcome'[current'] = "pending"
    BY <1>t, <2>1, <2>2 DEF PendingInv
  <2>6. \A i \in DOMAIN sent' : i > Taken' => outcome'[sent'[i]] = "pending"
    BY <2>1, <2>2, <2>3, <2>4 DEF PendingInv
  <2>7. Len(sent) + 1 \in DOMAIN sent' /\ Len(sent) + 1 > Taken'
    BY <1>t, <2>1
  <2>8. DOMAIN sent \subseteq DOMAIN sent'
    BY <1>t, <2>1
  <2>9. ASSUME NEW m \in Notifications, outcome'[m] = "pending"
        PROVE  \/ m \in starting'
               \/ m = current'
               \/ \E i \in DOMAIN sent' : i > Taken' /\ sent'[i] = m
    BY <2>1, <2>2, <2>7, <2>8, <2>9 DEF PendingInv
  <2> QED
    BY <2>5, <2>6, <2>9 DEF PendingInv
<1>4. CASE Receive
  <2>1. /\ Taken' = Taken + 1 /\ Taken + 1 \in DOMAIN sent /\ current' = sent[Taken + 1]
    BY <1>4, ReceiveFacts
  <2>2. /\ starting' = starting /\ sent' = sent /\ outcome' = outcome
        /\ current = NoNotification
    BY <1>4 DEF Receive, ConsumerAt, BusyInv
  <2>3. outcome[current'] = "pending" /\ Taken' > 0
    BY <1>t, <2>1 DEF PendingInv
  <2>4. \A i \in DOMAIN sent : i > Taken => i = Taken + 1 \/ i > Taken'
    BY <1>t, <2>1
  <2>5. ASSUME NEW m \in Notifications, outcome'[m] = "pending"
        PROVE  \/ m \in starting'
               \/ m = current'
               \/ \E i \in DOMAIN sent' : i > Taken' /\ sent'[i] = m
    BY <2>1, <2>2, <2>4, <2>5 DEF PendingInv
  <2>6. \A i \in DOMAIN sent' : i > Taken' => outcome'[sent'[i]] = "pending"
    BY <1>t, <2>1, <2>2 DEF PendingInv
  <2> QED
    BY <2>1, <2>2, <2>3, <2>5, <2>6 DEF PendingInv
<1>5. CASE Generate \/ Post \/ Answered \/ TimeOut
  <2>1. CASE Advances \/ Departs
    BY <1>1, <1>5, <2>1, WorkSteps DEF Advances, Departs
  <2>2. ASSUME NEW o \in Ends, Settles(o) PROVE PendingInv'
    <3>1. /\ starting' = starting /\ sent' = sent /\ Taken' = Taken
          /\ current \in Notifications /\ current' = NoNotification
          /\ outcome'[current] = o
          /\ \A m \in Notifications \ {current} : outcome'[m] = outcome[m]
      BY <1>5, <2>2, WorkSteps DEF Settles, TypeOK, Taken
    <3>2. Taken \in DOMAIN sent /\ current = sent[Taken]
      BY <1>t, <3>1 DEF PendingInv
    <3>3. \A i \in DOMAIN sent : i > Taken => sent[i] # current
      BY <1>t, <3>2 DEF SentInv, NoDuplicates
    <3>4. o # "pending"
      BY DEF Ends
    <3> QED
      BY <1>t, <3>1, <3>3, <3>4 DEF PendingInv
  <2> QED
    BY <1>5, <2>1, <2>2, WorkSteps
<1>6. CASE Exit
  <2>1. /\ buffer' = <<>> /\ blocked' = <<>> /\ sent' = sent /\ current' = NoNotification
        /\ \A m \in Notifications : outcome'[m] # "pending"
    BY <1>6 DEF Exit
  <2>2. Taken' = Len(sent)
    <3>1. Len(buffer') = 0 /\ Len(blocked') = 0
      BY <2>1, EmptyFacts
    <3> QED
      BY <1>t, <2>1, <3>1 DEF Taken
  <2> QED
    BY <1>t, <2>1, <2>2 DEF PendingInv
<1>7. CASE UNCHANGED vars
  BY <1>1, <1>7 DEF vars, channelVars, consumerVars
<1>8. ASSUME NEW n \in Notifications, Arrive(n) \/ Vanish(n) PROVE PendingInv'
  BY <1>1, <1>8 DEF Arrive, Vanish, channelVars, consumerVars
<1> QED
  BY <1>2, <1>3, <1>4, <1>5, <1>6, <1>7, <1>8 DEF Next, NotifyChannel

\* A request leaves for the notification the consumer has at hand, which has not left
\* before; what has left was taken, and stays so.
LEMMA NextNetwork == IInv /\ [Next]_vars => NetworkInv'
<1> SUFFICES ASSUME IInv, [Next]_vars PROVE NetworkInv'
  OBVIOUS
<1> USE ChannelAssumption DEF IInv
<1>t. /\ DOMAIN sent = 1 .. Len(sent) /\ Len(sent) \in Nat /\ Taken \in 0 .. Len(sent)
      /\ \A i \in DOMAIN sent : sent[i] \in Notifications
  BY TakenFacts
<1>1. CASE UNCHANGED <<buffer, blocked, sent, consumer, current, outcome, inFlight, reached>>
  BY <1>1 DEF NetworkInv, NoDuplicates, HasReached, Taken
<1>2. ASSUME NEW n \in Notifications, Spawn(n) PROVE NetworkInv'
  <2>1. /\ sent' = sent /\ Taken' = Taken /\ consumer' = consumer /\ current' = current
        /\ inFlight' = inFlight /\ reached' = reached
        /\ \A m \in Notifications : outcome'[m] = outcome[m] \/ outcome'[m] = "pending"
    BY <1>2 DEF Spawn, channelVars, consumerVars, networkVars, TypeOK, Taken
  <2> QED
    BY <2>1 DEF NetworkInv, NoDuplicates, HasReached
<1>3. ASSUME NEW n \in Notifications, Send(n) PROVE NetworkInv'
  <2>1. /\ Taken' = Taken /\ DOMAIN sent' = 1 .. Len(sent) + 1
        /\ \A i \in DOMAIN sent : sent'[i] = sent[i]
    BY <1>3, SendFacts
  <2>2. /\ consumer' = consumer /\ current' = current /\ outcome' = outcome
        /\ inFlight' = inFlight /\ reached' = reached
    BY <1>3 DEF Send, consumerVars, networkVars
  <2>3. DOMAIN sent \subseteq DOMAIN sent'
    BY <1>t, <2>1
  <2>4. \A m : HasReached(m)' <=> HasReached(m)
    BY <2>2 DEF HasReached
  <2>5. ASSUME NEW m \in Notifications, \E i \in DOMAIN sent : i <= Taken /\ sent[i] = m
        PROVE  \E i \in DOMAIN sent' : i <= Taken' /\ sent'[i] = m
    BY <2>1, <2>3, <2>5
  <2> QED
    BY <2>2, <2>4, <2>5 DEF NetworkInv, NoDuplicates
<1>4. CASE Receive
  <2>1. /\ Taken' = Taken + 1 /\ Taken + 1 \in DOMAIN sent /\ current' = sent[Taken + 1]
    BY <1>4, ReceiveFacts
  <2>2. /\ sent' = sent /\ outcome' = outcome /\ inFlight' = inFlight /\ reached' = reached
        /\ consumer' = "generate"
    BY <1>4 DEF Receive, ConsumerAt, networkVars
  <2>3. \A m : HasReached(m)' <=> HasReached(m)
    BY <2>2 DEF HasReached
  <2>4. ASSUME NEW m \in Notifications, m \in inFlight \/ HasReached(m)
        PROVE  /\ m # current'
               /\ \E i \in DOMAIN sent' : i <= Taken' /\ sent'[i] = m
    <3>1. PICK i \in DOMAIN sent : i <= Taken /\ sent[i] = m
      BY <2>4 DEF NetworkInv
    <3>2. i # Taken + 1 /\ i <= Taken + 1
      BY <1>t, <3>1
    <3> QED
      BY <2>1, <2>2, <3>1, <3>2 DEF SentInv, NoDuplicates
  <2> QED
    BY <2>2, <2>3, <2>4 DEF NetworkInv, NoDuplicates
<1>5. CASE Generate \/ Post \/ Answered \/ TimeOut
  <2>1. /\ sent' = sent /\ reached' = reached /\ Taken' = Taken
        /\ current \in Notifications
    BY <1>5, WorkSteps DEF Taken
  <2>2. \A m : HasReached(m)' <=> HasReached(m)
    BY <2>1 DEF HasReached
  <2>3. Taken \in DOMAIN sent /\ sent[Taken] = current
    BY <1>t, <2>1 DEF PendingInv
  <2>4. CASE Advances
    BY <2>1, <2>2, <2>4 DEF Advances, NetworkInv, NoDuplicates
  <2>5. CASE Departs
    <3>1. /\ ~HasReached(current) /\ current \notin inFlight /\ current \in Addressed
      BY <2>1, <2>5 DEF Departs, NetworkInv
    <3>2. \E i \in DOMAIN sent : i <= Taken /\ sent[i] = current
      BY <1>t, <2>3
    <3> QED
      BY <2>1, <2>2, <2>5, <3>1, <3>2 DEF Departs, NetworkInv, NoDuplicates
  <2>6. ASSUME NEW o \in Ends, Settles(o) PROVE NetworkInv'
    <3>1. /\ consumer' = "receive" /\ current' = NoNotification /\ inFlight' = inFlight
          /\ outcome'[current] = o
          /\ \A m \in Notifications \ {current} : outcome'[m] = outcome[m]
          /\ o = "posted" => HasReached(current)
          /\ o = "dropped" => current \notin Addressed
      BY <2>1, <2>6 DEF Settles, TypeOK
    <3> QED
      BY <2>1, <2>2, <3>1 DEF NetworkInv, NoDuplicates
  <2> QED
    BY <1>5, <2>4, <2>5, <2>6, WorkSteps
<1>6. CASE Exit
  <2>1. /\ buffer' = <<>> /\ blocked' = <<>> /\ sent' = sent /\ current' = NoNotification
        /\ consumer' = "exited" /\ inFlight' = inFlight /\ reached' = reached
        /\ \A m \in Notifications : outcome'[m] = outcome[m] \/ outcome'[m] = "lost"
    BY <1>6 DEF Exit, networkVars
  <2>2. Taken' = Len(sent)
    <3>1. Len(buffer') = 0 /\ Len(blocked') = 0
      BY <2>1, EmptyFacts
    <3> QED
      BY <1>t, <2>1, <3>1 DEF Taken
  <2>3. \A i \in DOMAIN sent : i <= Taken => i <= Taken'
    BY <1>t, <2>2
  <2>4. \A m : HasReached(m)' <=> HasReached(m)
    BY <2>1 DEF HasReached
  <2> QED
    BY <2>1, <2>3, <2>4 DEF NetworkInv, NoDuplicates
<1>7. CASE UNCHANGED vars
  BY <1>1, <1>7 DEF vars, channelVars, consumerVars, networkVars
<1>8. ASSUME NEW n \in Notifications, Arrive(n) PROVE NetworkInv'
  <2>1. /\ sent' = sent /\ Taken' = Taken /\ consumer' = consumer /\ current' = current
        /\ outcome' = outcome /\ n \in inFlight /\ inFlight' = inFlight \ {n}
        /\ reached' = Append(reached, n)
    BY <1>8 DEF Arrive, channelVars, consumerVars, Taken
  <2>2. /\ DOMAIN reached = 1 .. Len(reached) /\ Len(reached) \in Nat
        /\ DOMAIN reached' = 1 .. Len(reached) + 1 /\ reached'[Len(reached) + 1] = n
        /\ \A i \in 1 .. Len(reached) : reached'[i] = reached[i]
    BY <2>1, EmptyFacts, AppendFacts DEF TypeOK
  <2>3. ~HasReached(n)
    BY <2>1 DEF NetworkInv
  <2>4. \A i \in DOMAIN reached' : i \in DOMAIN reached \/ i = Len(reached) + 1
    BY <2>2
  <2>5. \A m : HasReached(m)' <=> HasReached(m) \/ m = n
    BY <2>2, <2>4 DEF HasReached
  <2>6. NoDuplicates(reached)'
    BY <2>2, <2>3, <2>4 DEF NetworkInv, NoDuplicates, HasReached
  <2> QED
    BY <2>1, <2>3, <2>5, <2>6 DEF NetworkInv
<1>9. ASSUME NEW n \in Notifications, Vanish(n) PROVE NetworkInv'
  <2>1. /\ sent' = sent /\ Taken' = Taken /\ consumer' = consumer /\ current' = current
        /\ outcome' = outcome /\ inFlight' \subseteq inFlight /\ reached' = reached
    BY <1>9 DEF Vanish, channelVars, consumerVars, Taken
  <2> QED
    BY <2>1 DEF NetworkInv, NoDuplicates, HasReached
<1> QED
  BY <1>2, <1>3, <1>4, <1>5, <1>6, <1>7, <1>8, <1>9 DEF Next, NotifyChannel

\* A post that succeeds was the last one to reach the cloud connector, and whatever
\* arrives later comes after it.
LEMMA NextOrder == IInv /\ [Next]_vars => OrderInv'
<1> SUFFICES ASSUME IInv, [Next]_vars,
                    NEW i \in DOMAIN sent', NEW j \in DOMAIN sent', i < j,
                    outcome'[sent'[i]] = "posted", HasReached(sent[j])'
             PROVE  Before(sent[i], sent[j], reached)'
  BY DEF OrderInv
<1> USE ChannelAssumption DEF IInv
<1>t. /\ DOMAIN sent = 1 .. Len(sent) /\ Len(sent) \in Nat /\ Taken \in 0 .. Len(sent)
      /\ \A k \in DOMAIN sent : sent[k] \in Notifications
  BY TakenFacts
<1>1. CASE /\ UNCHANGED <<sent, reached>>
           /\ \A m \in Notifications : outcome'[m] = "posted" => outcome[m] = "posted"
  BY <1>t, <1>1 DEF OrderInv, HasReached, Before
<1>2. ASSUME NEW n \in Notifications, Spawn(n) PROVE Before(sent[i], sent[j], reached)'
  BY <1>1, <1>2 DEF Spawn, channelVars, networkVars, TypeOK
<1>3. ASSUME NEW n \in Notifications, Send(n) PROVE Before(sent[i], sent[j], reached)'
  <2>1. /\ DOMAIN sent' = 1 .. Len(sent) + 1 /\ sent'[Len(sent) + 1] = n
        /\ \A k \in DOMAIN sent : sent'[k] = sent[k]
        /\ reached' = reached /\ outcome' = outcome /\ n \in starting
    BY <1>3, SendFacts DEF Send, networkVars
  <2>2. HasReached(sent'[j])
    BY <2>1 DEF HasReached
  <2>3. j # Len(sent) + 1
    BY <2>1, <2>2 DEF NetworkInv, SentInv
  <2>4. i \in DOMAIN sent /\ j \in DOMAIN sent
    BY <1>t, <2>1, <2>3
  <2> QED
    BY <2>1, <2>2, <2>4 DEF OrderInv, Before
<1>4. CASE Receive
  BY <1>1, <1>4 DEF Receive, networkVars
<1>5. CASE Generate \/ Post \/ Answered \/ TimeOut
  <2>1. /\ sent' = sent /\ reached' = reached /\ current \in Notifications
    BY <1>5, WorkSteps
  <2>2. CASE Advances \/ Departs
    BY <1>1, <2>1, <2>2 DEF Advances, Departs
  <2>3. ASSUME NEW o \in Ends, Settles(o) PROVE Before(sent[i], sent[j], reached)'
    <3>1. /\ \A m \in Notifications \ {current} : outcome'[m] = outcome[m]
      BY <2>1, <2>3 DEF Settles, TypeOK
    <3>2. CASE sent[i] = current
      <4>1. i = Taken
        BY <1>t, <2>1, <3>2 DEF PendingInv, SentInv, NoDuplicates
      <4>2. HasReached(sent[j]) /\ sent[j] \in Notifications
        BY <1>t, <2>1 DEF HasReached
      <4>3. PICK k \in DOMAIN sent : k <= Taken /\ sent[k] = sent[j]
        BY <4>2 DEF NetworkInv
      <4>4. k = j
        BY <2>1, <4>3 DEF SentInv, NoDuplicates
      <4> QED
        BY <1>t, <2>1, <4>1, <4>3, <4>4
    <3>3. CASE sent[i] # current
      BY <1>t, <2>1, <3>1, <3>3 DEF OrderInv, HasReached, Before
    <3> QED
      BY <3>2, <3>3
  <2> QED
    BY <1>5, <2>2, <2>3, WorkSteps
<1>6. CASE Exit
  BY <1>1, <1>6 DEF Exit, networkVars
<1>7. CASE UNCHANGED vars
  BY <1>1, <1>7 DEF vars, channelVars, networkVars
<1>8. ASSUME NEW n \in Notifications, Arrive(n) PROVE Before(sent[i], sent[j], reached)'
  <2>1. sent' = sent /\ outcome' = outcome /\ reached' = Append(reached, n)
    BY <1>8 DEF Arrive, channelVars
  <2>2. /\ DOMAIN reached = 1 .. Len(reached) /\ Len(reached) \in Nat
        /\ DOMAIN reached' = 1 .. Len(reached) + 1 /\ reached'[Len(reached) + 1] = n
        /\ \A k \in DOMAIN reached : reached'[k] = reached[k]
    BY <2>1, EmptyFacts, AppendFacts DEF TypeOK
  <2>3. \A k \in DOMAIN reached' : k \in DOMAIN reached \/ k = Len(reached) + 1
    BY <2>2
  <2>4. CASE HasReached(sent[j])
    <3>1. Before(sent[i], sent[j], reached)
      BY <2>1, <2>4 DEF OrderInv
    <3>2. PICK k, l \in DOMAIN reached : k < l /\ reached[k] = sent[i] /\ reached[l] = sent[j]
      BY <3>1 DEF Before
    <3>3. k \in DOMAIN reached' /\ l \in DOMAIN reached'
      BY <2>2
    <3> QED
      BY <2>1, <2>2, <3>2, <3>3 DEF Before
  <2>5. CASE ~HasReached(sent[j])
    <3>1. sent[j] = reached'[Len(reached) + 1]
      BY <2>1, <2>2, <2>3, <2>5 DEF HasReached
    <3>2. HasReached(sent[i])
      BY <1>t, <2>1 DEF NetworkInv
    <3>3. PICK k \in DOMAIN reached : reached[k] = sent[i]
      BY <3>2 DEF HasReached
    <3>4. /\ k \in DOMAIN reached' /\ Len(reached) + 1 \in DOMAIN reached'
          /\ k < Len(reached) + 1
      BY <2>2
    <3> QED
      BY <2>1, <2>2, <3>1, <3>3, <3>4 DEF Before
  <2> QED
    BY <2>4, <2>5
<1>9. ASSUME NEW n \in Notifications, Vanish(n) PROVE Before(sent[i], sent[j], reached)'
  BY <1>1, <1>9 DEF Vanish, channelVars
<1> QED
  BY <1>2, <1>3, <1>4, <1>5, <1>6, <1>7, <1>8, <1>9 DEF Next, NotifyChannel

\* The invariant holds in every reachable state.
LEMMA Inductive == Spec => []IInv
<1>1. IInv /\ [Next]_vars => IInv'
  BY NextType, NextBusy, NextQueue, NextSent, NextPending, NextNetwork, NextOrder DEF IInv
<1> QED
  BY InitIInv, <1>1, PTL DEF Spec

------------------------------------------------------------------------------
(* The properties. *)

\* Different positions of the channel hold different notifications, none of which is
\* starting or in the consumer's hands.
LEMMA PlacesFacts ==
  ASSUME IInv
  PROVE  /\ NoDuplicates(buffer) /\ NoDuplicates(blocked)
         /\ \A i \in DOMAIN buffer, j \in DOMAIN blocked : buffer[i] # blocked[j]
         /\ \A n \in Elements(buffer) \cup Elements(blocked) :
              n \in Notifications /\ n \notin starting /\ n # current /\ outcome[n] = "pending"
         /\ \A i \in DOMAIN sent :
              i > Taken => sent[i] \in Elements(buffer) \cup Elements(blocked)
         /\ current # NoNotification =>
              current \in Notifications /\ current \notin starting /\ outcome[current] = "pending"
<1> USE DEF IInv
<1>t. /\ Len(buffer) \in Nat /\ Len(blocked) \in Nat /\ Len(sent) \in Nat
      /\ DOMAIN sent = 1 .. Len(sent) /\ Taken \in 0 .. Len(sent)
      /\ \A i \in DOMAIN sent : sent[i] \in Notifications
      /\ DOMAIN buffer = 1 .. Len(buffer) /\ DOMAIN blocked = 1 .. Len(blocked)
  BY TakenFacts, EmptyFacts DEF TypeOK
<1>1. \A i \in DOMAIN buffer :
        /\ Taken + i \in DOMAIN sent /\ Taken + i > Taken /\ Taken + i <= Taken + Len(buffer)
        /\ buffer[i] = sent[Taken + i]
  <2> SUFFICES ASSUME NEW i \in 1 .. Len(buffer)
               PROVE  /\ Taken + i \in 1 .. Len(sent) /\ Taken + i > Taken
                      /\ Taken + i <= Taken + Len(buffer) /\ buffer[i] = sent[Taken + i]
    BY <1>t
  <2>1. Taken + i \in 1 .. Len(sent)
    BY <1>t DEF Taken
  <2>2. Taken + i > Taken /\ Taken + i <= Taken + Len(buffer)
    BY <1>t
  <2> QED
    BY <2>1, <2>2 DEF QueueInv
<1>2. \A i \in DOMAIN blocked :
        /\ Taken + Len(buffer) + i \in DOMAIN sent
        /\ Taken + Len(buffer) + i > Taken + Len(buffer)
        /\ blocked[i] = sent[Taken + Len(buffer) + i]
  BY <1>t DEF QueueInv, Taken
<1>3. NoDuplicates(buffer)
  <2> SUFFICES ASSUME NEW i \in DOMAIN buffer, NEW j \in DOMAIN buffer, buffer[i] = buffer[j]
               PROVE  i = j
    BY DEF NoDuplicates
  <2>1. Taken + i = Taken + j
    BY <1>1 DEF SentInv, NoDuplicates
  <2> QED
    BY <1>t, <2>1
<1>4. NoDuplicates(blocked)
  <2> SUFFICES ASSUME NEW i \in DOMAIN blocked, NEW j \in DOMAIN blocked,
                      blocked[i] = blocked[j]
               PROVE  i = j
    BY DEF NoDuplicates
  <2>1. Taken + Len(buffer) + i = Taken + Len(buffer) + j
    BY <1>2 DEF SentInv, NoDuplicates
  <2> QED
    BY <1>t, <2>1
<1>5. ASSUME NEW i \in DOMAIN buffer, NEW j \in DOMAIN blocked
      PROVE  buffer[i] # blocked[j]
  <2>1. Taken + i # Taken + Len(buffer) + j
    BY <1>t
  <2> QED
    BY <1>1, <1>2, <2>1 DEF SentInv, NoDuplicates
<1>6. current # NoNotification =>
        /\ Taken \in DOMAIN sent /\ current = sent[Taken]
        /\ current \in Notifications /\ current \notin starting /\ outcome[current] = "pending"
  BY <1>t DEF PendingInv, SentInv
<1>7. ASSUME NEW n \in Elements(buffer) \cup Elements(blocked)
      PROVE  n \in Notifications /\ n \notin starting /\ n # current /\ outcome[n] = "pending"
  <2>1. PICK k \in DOMAIN sent : k > Taken /\ n = sent[k]
    <3>1. CASE n \in Elements(buffer)
      BY <1>1, <3>1 DEF Elements
    <3>2. CASE n \in Elements(blocked)
      <4>1. PICK i \in DOMAIN blocked : n = blocked[i]
        BY <3>2 DEF Elements
      <4>2. Taken + Len(buffer) + i > Taken
        BY <1>t
      <4> QED
        BY <1>2, <4>1, <4>2
    <3> QED
      BY <3>1, <3>2
  <2>2. k # Taken
    BY <1>t, <2>1
  <2>3. n # current
    BY <1>t, <1>6, <2>1, <2>2, ChannelAssumption DEF SentInv, NoDuplicates
  <2> QED
    BY <1>t, <2>1, <2>3 DEF SentInv, PendingInv
<1>8. ASSUME NEW i \in DOMAIN sent, i > Taken
      PROVE  sent[i] \in Elements(buffer) \cup Elements(blocked)
  <2>1. CASE i - Taken <= Len(buffer)
    <3>1. i - Taken \in DOMAIN buffer /\ Taken + (i - Taken) = i
      BY <1>t, <1>8, <2>1
    <3> QED
      BY <1>1, <3>1 DEF Elements
  <2>2. CASE ~(i - Taken <= Len(buffer))
    <3> DEFINE k == i - Taken - Len(buffer)
    <3>1. k \in DOMAIN blocked /\ Taken + Len(buffer) + k = i
      BY <1>t, <1>8, <2>2 DEF QueueInv, Taken
    <3> QED
      BY <1>2, <3>1 DEF Elements
  <2> QED
    BY <2>1, <2>2
<1> QED
  BY <1>3, <1>4, <1>5, <1>6, <1>7, <1>8

\* Nothing is lost or duplicated inside the service: a pending notification is in exactly
\* one place (the go statements of app/alert and the loop of lib.go:85-101).
THEOREM OnePlace == Spec => []EachInOnePlace
<1>1. IInv => EachInOnePlace
  <2> SUFFICES ASSUME IInv PROVE EachInOnePlace
    OBVIOUS
  <2>1. /\ DOMAIN Places = 1 .. 4
        /\ Places[1] = starting /\ Places[2] = Elements(buffer)
        /\ Places[3] = Elements(blocked) /\ Places[4] = {current} \ {NoNotification}
    BY DEF Places
  <2>2. UNION {Places[p] : p \in DOMAIN Places}
          = starting \cup Elements(buffer) \cup Elements(blocked)
                     \cup ({current} \ {NoNotification})
    <3>1. \A p \in DOMAIN Places : p = 1 \/ p = 2 \/ p = 3 \/ p = 4
      BY <2>1
    <3>2. 1 \in DOMAIN Places /\ 2 \in DOMAIN Places /\ 3 \in DOMAIN Places /\ 4 \in DOMAIN Places
      BY <2>1
    <3> QED
      BY <2>1, <3>1, <3>2
  <2>3. /\ starting \cap Elements(buffer) = {}
        /\ starting \cap Elements(blocked) = {}
        /\ starting \cap ({current} \ {NoNotification}) = {}
        /\ Elements(buffer) \cap ({current} \ {NoNotification}) = {}
        /\ Elements(blocked) \cap ({current} \ {NoNotification}) = {}
    BY PlacesFacts
  <2>4. Elements(buffer) \cap Elements(blocked) = {}
    BY PlacesFacts DEF Elements
  <2>5. \A p, q \in DOMAIN Places : p # q => Places[p] \cap Places[q] = {}
    <3> SUFFICES ASSUME NEW p \in 1 .. 4, NEW q \in 1 .. 4, p # q
                 PROVE  Places[p] \cap Places[q] = {}
      BY <2>1
    <3>1. (p = 1 \/ p = 2 \/ p = 3 \/ p = 4) /\ (q = 1 \/ q = 2 \/ q = 3 \/ q = 4)
      OBVIOUS
    <3> QED
      BY <2>1, <2>3, <2>4, <3>1
  <2>6. ASSUME NEW n \in Notifications
        PROVE  outcome[n] = "pending"
                 <=> n \in starting \cup Elements(buffer) \cup Elements(blocked)
                                    \cup ({current} \ {NoNotification})
    <3>1. CASE outcome[n] = "pending"
      BY <3>1, PlacesFacts, ChannelAssumption DEF IInv, PendingInv
    <3>2. CASE n \in starting
      BY <3>2 DEF IInv, SentInv
    <3>3. CASE n \in Elements(buffer) \cup Elements(blocked)
      BY <3>3, PlacesFacts
    <3>4. CASE n = current
      BY <3>4, PlacesFacts, ChannelAssumption
    <3> QED
      BY <3>1, <3>2, <3>3, <3>4
  <2>7. starting \cup Elements(buffer) \cup Elements(blocked)
                 \cup ({current} \ {NoNotification}) \subseteq Notifications
    BY PlacesFacts DEF IInv, TypeOK
  <2>8. {n \in Notifications : outcome[n] = "pending"}
          = UNION {Places[p] : p \in DOMAIN Places}
    BY <2>2, <2>6, <2>7
  <2> QED
    BY <2>5, <2>8, PlacesFacts DEF EachInOnePlace
<1> QED
  BY Inductive, <1>1, PTL

\* The posts that succeed reach the cloud connector in the order of the sends, even when
\* a request that was given up arrives among them (lib.go:103-176).
THEOREM InOrder == Spec => []PostedInOrder
<1>1. IInv => PostedInOrder
  <2> SUFFICES ASSUME IInv, NEW a \in Notifications, NEW b \in Notifications,
                      outcome[a] = "posted", outcome[b] = "posted", Before(a, b, sent)
               PROVE  Before(a, b, reached)
    BY DEF PostedInOrder
  <2>1. PICK i, j \in DOMAIN sent : i < j /\ sent[i] = a /\ sent[j] = b
    BY DEF Before
  <2>2. HasReached(b)
    BY DEF IInv, NetworkInv
  <2> QED
    BY <2>1, <2>2 DEF IInv, OrderInv
<1> QED
  BY Inductive, <1>1, PTL

\* No notification reaches the cloud connector twice, none does that has no destination,
\* and one that counts as posted did (lib.go:103-176).
THEOREM AtMostOnce == Spec => []ReachesAtMostOnce
<1>1. IInv => ReachesAtMostOnce
  <2> SUFFICES ASSUME IInv PROVE ReachesAtMostOnce
    OBVIOUS
  <2>1. \A i \in DOMAIN reached : reached[i] \in Notifications
    BY EmptyFacts DEF IInv, TypeOK
  <2>2. Elements(reached) \subseteq Addressed
    BY <2>1 DEF IInv, NetworkInv, HasReached, Elements
  <2>3. \A n \in Notifications : outcome[n] = "posted" => n \in Elements(reached)
    BY DEF IInv, NetworkInv, HasReached, Elements
  <2> QED
    BY <2>2, <2>3 DEF ReachesAtMostOnce, IInv, NetworkInv
<1> QED
  BY Inductive, <1>1, PTL

------------------------------------------------------------------------------
(* The channel implements the abstract delivery. *)

\* What a sequence without duplicates holds it holds once.
LEMMA OnceOrNever ==
  ASSUME NEW s, NoDuplicates(s), NEW n
  PROVE  Cardinality({i \in DOMAIN s : s[i] = n}) = IF n \in Elements(s) THEN 1 ELSE 0
<1> DEFINE Positions == {i \in DOMAIN s : s[i] = n}
<1>1. CASE n \in Elements(s)
  <2>1. PICK i \in DOMAIN s : s[i] = n
    BY <1>1 DEF Elements
  <2>2. Positions = {i}
    BY <2>1 DEF NoDuplicates
  <2>3. Cardinality({i}) = 1
    BY FS_Singleton
  <2> QED
    BY <1>1, <2>2, <2>3
<1>2. CASE n \notin Elements(s)
  <2>1. Positions = {}
    BY <1>2 DEF Elements
  <2> QED
    BY <1>2, <2>1, FS_EmptySet
<1> QED
  BY <1>1, <1>2

\* The delivery's count of a notification is one if it has reached the cloud connector.
LEMMA ReachesFacts ==
  ASSUME IInv, NEW n \in Notifications
  PROVE  /\ Reaches[n] = IF HasReached(n) THEN 1 ELSE 0
         /\ Delivery!HasReached(n) <=> HasReached(n)
<1>1. n \in Elements(reached) <=> HasReached(n)
  BY DEF Elements, HasReached
<1>2. Reaches[n] = IF n \in Elements(reached) THEN 1 ELSE 0
  BY OnceOrNever DEF IInv, NetworkInv, Reaches
<1> QED
  BY <1>1, <1>2 DEF Delivery!HasReached, Reaches

\* The consumer settles a notification or does nothing that the delivery sees; it gives up
\* just those without a destination before their post.
LEMMA ConsumerRefines ==
  ASSUME IInv, NotifyChannel
  PROVE  \/ UNCHANGED <<outcome, reached>>
         \/ \E n \in Notifications :
              Delivery!Settle(n) /\ (outcome'[n] = "dropped" <=> n \notin Addressed)
<1> USE ChannelAssumption DEF IInv, channelVars, consumerVars, networkVars
<1>1. CASE Receive
  BY <1>1 DEF Receive
<1>2. CASE Generate \/ Post \/ Answered \/ TimeOut
  <2>1. CASE Advances \/ Departs
    BY <1>2, <2>1, WorkSteps DEF Advances, Departs
  <2>2. ASSUME NEW o \in Ends, Settles(o)
        PROVE  /\ Delivery!Settle(current)
               /\ outcome'[current] = "dropped" <=> current \notin Addressed
    <3>1. reached' = reached /\ current \in Notifications /\ outcome[current] = "pending"
      BY <1>2, WorkSteps DEF PendingInv
    <3>2. o = "posted" => Delivery!HasReached(current)
      BY <2>2, <3>1, ReachesFacts DEF Settles
    <3>3. o = "dropped" => ~Delivery!HasReached(current)
      BY <2>2, <3>1, ReachesFacts DEF Settles, NetworkInv
    <3>4. Delivery!Settle(current)
      BY <2>2, <3>1, <3>2, <3>3 DEF Settles, Ends, Delivery!Settle, Delivery!Settled, Reaches
    <3>5. outcome'[current] = o
      BY <2>2, <3>1 DEF Settles, TypeOK
    <3>6. o = "dropped" <=> current \notin Addressed
      BY <2>2 DEF Settles, NetworkInv
    <3> QED
      BY <3>4, <3>5, <3>6
  <2>3. current \in Notifications
    BY <1>2, WorkSteps
  <2> QED
    BY <1>2, <2>1, <2>2, <2>3, WorkSteps
<1> QED
  BY <1>1, <1>2 DEF NotifyChannel

\* A request that arrives is one that the delivery lets reach the cloud connector.
LEMMA ArrivalRefines ==
  ASSUME IInv, NEW n \in Notifications, Arrive(n)
  PROVE  Delivery!Reach(n) /\ n \in Addressed
<1> USE DEF IInv
<1>1. n \in inFlight /\ reached' = Append(reached, n) /\ outcome' = outcome
  BY DEF Arrive
<1>2. ~HasReached(n) /\ n \in Addressed /\ \E i \in DOMAIN sent : sent[i] = n
  BY <1>1 DEF NetworkInv
<1>3. outcome[n] \in {"pending", "failed", "lost"}
  BY <1>2 DEF NetworkInv, SentInv, TypeOK, Outcomes
<1>4. Reaches' = [Reaches EXCEPT ![n] = @ + 1]
  <2> DEFINE next == Len(reached) + 1
  <2>1. NoDuplicates(reached')
    <3>1. [Next]_vars
      BY DEF Next
    <3> QED
      BY <3>1, NextNetwork DEF NetworkInv
  <2>2. /\ DOMAIN reached = 1 .. Len(reached) /\ Len(reached) \in Nat
        /\ DOMAIN reached' = 1 .. next /\ reached'[next] = n
        /\ \A i \in 1 .. Len(reached) : reached'[i] = reached[i]
    BY <1>1 DEF TypeOK
  <2>3. \A m : m \in Elements(reached') <=> m \in Elements(reached) \/ m = n
    BY <2>2 DEF Elements
  <2>4. \A m \in Notifications : Reaches'[m] = IF m \in Elements(reached') THEN 1 ELSE 0
    BY <2>1, OnceOrNever DEF Reaches
  <2>5. \A m \in Notifications : Reaches[m] = IF m \in Elements(reached) THEN 1 ELSE 0
    BY OnceOrNever DEF NetworkInv, Reaches
  <2>6. n \notin Elements(reached)
    BY <1>2 DEF HasReached, Elements
  <2>7. /\ Reaches \in [Notifications -> Nat]
        /\ Reaches' = [m \in Notifications |-> Reaches'[m]]
    BY <2>5 DEF Reaches
  <2> QED
    BY <2>3, <2>4, <2>5, <2>6, <2>7
<1>5. ~Delivery!HasReached(n)
  BY <1>2, ReachesFacts
<1> QED
  BY <1>1, <1>2, <1>3, <1>4, <1>5 DEF Delivery!Reach

\* Every step of the channel and the network is a step of the abstract delivery or
\* changes nothing it sees.
LEMMA StepsRefine == IInv /\ [Next]_vars => [Delivery!Next]_(Delivery!vars)
<1> SUFFICES ASSUME IInv, [Next]_vars PROVE [Delivery!Next]_(Delivery!vars)
  OBVIOUS
<1> USE DEF channelVars, consumerVars, networkVars
<1>1. CASE UNCHANGED <<outcome, reached>>
  BY <1>1 DEF Delivery!vars, Reaches
<1>2. ASSUME NEW n \in Notifications, Spawn(n) PROVE Delivery!Next
  <2>1. Delivery!Accept(n)
    BY <1>2 DEF Spawn, Delivery!Accept, Reaches
  <2> QED
    BY <2>1 DEF Delivery!Next
<1>3. ASSUME NEW n \in Notifications, Send(n) \/ Vanish(n) PROVE UNCHANGED <<outcome, reached>>
  BY <1>3 DEF Send, Vanish
<1>4. CASE NotifyChannel
  BY <1>1, <1>4, ConsumerRefines DEF Delivery!Next
<1>5. CASE Exit
  BY <1>5 DEF Exit, Delivery!Exit, Delivery!Next, Reaches
<1>6. ASSUME NEW n \in Notifications, Arrive(n) PROVE Delivery!Next
  BY <1>6, ArrivalRefines DEF Delivery!Next
<1>7. CASE UNCHANGED vars
  BY <1>1, <1>7 DEF vars
<1> QED
  BY <1>1, <1>2, <1>3, <1>4, <1>5, <1>6, <1>7 DEF Next

\* The channel, its consumer and the network implement the safety part of the abstract
\* delivery (lib.go:85-176, main.go:404).
THEOREM RefinesDelivery == Spec => Delivery!Init /\ [][Delivery!Next]_(Delivery!vars)
<1>1. Init => Delivery!Init
  <2> SUFFICES ASSUME Init PROVE Reaches = [n \in Notifications |-> 0]
    BY DEF Init, Delivery!Init
  <2>1. DOMAIN reached = {}
    BY EmptyFacts DEF Init
  <2>2. \A n : {i \in DOMAIN reached : reached[i] = n} = {}
    BY <2>1
  <2> QED
    BY <2>2, FS_EmptySet DEF Reaches
<1> QED
  BY Inductive, StepsRefine, <1>1, PTL DEF Spec

==============================================================================
