-------------------------- MODULE AlertServer_proofs --------------------------
(***************************************************************************)
(* Theorems about AlertServer and the AlertEndpoint it serves, for every   *)
(* set of requests, whatever they carry, every size of the channel, and    *)
(* every configuration.                                                    *)
(***************************************************************************)
EXTENDS AlertServer, SequenceTheorems, TLAPS

------------------------------------------------------------------------------
\* What a step of the server does to the requests.
Untouched == UNCHANGED vars
Ending    == UNCHANGED <<handlerVars, notification, sender, consumer>> /\
             outcome' = [r \in Requests |->
               IF sender[r] # "none" /\ outcome[r] = "none" THEN "lost" ELSE outcome[r]]

LEMMA ServerSteps ==
  ASSUME [ServerNext]_serverVars
  PROVE  \/ Untouched
         \/ Ending
         \/ \E r \in Requests : \/ \E b \in Bodies : Request(r, b)
                                \/ Handler(r)
                                \/ Send(r) \/ Receive(r) \/ Post(r)
<1>1. ASSUME Main PROVE Untouched \/ Ending
  BY <1>1 DEF Main, Start, StartListener, Notify, Wait, TakeSignal, Shutdown, Drained,
              DrainTimesOut, Close, Join, End, Untouched, Ending
<1>2. ASSUME Listen \/ ListenerReturns PROVE Untouched
  BY <1>2 DEF Listen, ListenerReturns, Untouched
<1>3. ASSUME Interrupt \/ PipelineFails PROVE Untouched \/ Ending
  BY <1>3 DEF Interrupt, PipelineFails, End, Untouched, Ending
<1>4. ASSUME UNCHANGED serverVars PROVE Untouched
  BY <1>4 DEF serverVars, Untouched
<1>5. ASSUME NEW r \in Requests, Accept(r) \/ Serve(r) \/ Deliver(r)
      PROVE  \/ \E b \in Bodies : Request(r, b)
             \/ Handler(r)
             \/ Send(r) \/ Receive(r) \/ Post(r)
  BY <1>5 DEF Accept, Serve, Deliver
<1> QED  BY <1>1, <1>2, <1>3, <1>4, <1>5 DEF ServerNext

------------------------------------------------------------------------------
(* Types.                                                                          *)

Statuses == {Ok, BadRequest, InternalServerError}

LEMMA RespondTyped ==
  ASSUME NEW r \in Requests, NEW status \in Statuses,
         responses \in [Requests -> Seq(Statuses)], Respond(r, status)
  PROVE  /\ responses' \in [Requests -> Seq(Statuses)]
         /\ responses' = [responses EXCEPT ![r] = Append(responses[r], status)]
<1>1. Append(responses[r], status) \in Seq(Statuses)
  OBVIOUS
<1>2. responses' = [responses EXCEPT ![r] = Append(responses[r], status)]
  BY DEF Respond
<1> QED  BY <1>1, <1>2

LEMMA EndpointTypes ==
  ASSUME TypeOK, [ServerNext]_serverVars
  PROVE  TypeOK'
<1> USE DEF Statuses
<1>0. responses \in [Requests -> Seq(Statuses)]
  BY DEF TypeOK
<1>1. CASE Untouched
  BY <1>1 DEF Untouched, vars, handlerVars, channelVars, TypeOK
<1>2. CASE Ending
  <2>1. outcome' \in [Requests -> Settled \cup {"none", "lost"}]
    BY <1>2 DEF Ending, TypeOK
  <2>2. UNCHANGED <<body, hpc, error, responses, notification, sender, consumer>>
    BY <1>2 DEF Ending, handlerVars
  <2> QED  BY <2>1, <2>2 DEF TypeOK
<1>3. ASSUME NEW r \in Requests, NEW b \in Bodies, Request(r, b) PROVE TypeOK'
  BY <1>3 DEF Request, HandlerAt, TypeOK, HandlerPoints, channelVars
<1>4. ASSUME NEW r \in Requests, Handler(r) PROVE TypeOK'
  <2>1. CASE Read(r)
    BY <2>1 DEF Read, HandlerAt, TypeOK, HandlerPoints, Errors, channelVars
  <2>2. CASE Refuse(r)
    <3>1. responses' \in [Requests -> Seq(Statuses)]
      BY <1>0, <2>2, RespondTyped DEF Refuse
    <3> QED  BY <2>2, <3>1 DEF Refuse, HandlerAt, TypeOK, HandlerPoints, Errors, channelVars
  <2>3. CASE HandleError(r)
    <3>1. PICK status \in Statuses : Respond(r, status)
      BY <2>3 DEF HandleError
    <3>2. responses' \in [Requests -> Seq(Statuses)]
      BY <1>0, <3>1, RespondTyped
    <3> QED  BY <2>3, <3>2 DEF HandleError, HandlerAt, TypeOK, HandlerPoints, channelVars
  <2>4. CASE Recover(r)
    <3>1. responses' \in [Requests -> Seq(Statuses)]
      BY <1>0, <2>4, RespondTyped DEF Recover
    <3> QED  BY <2>4, <3>1 DEF Recover, HandlerAt, TypeOK, HandlerPoints, channelVars
  <2>5. CASE HandOver(r)
    <3>1. PICK object : notification' = [notification EXCEPT ![r] = ProcessAlert(object)]
      BY <2>5 DEF HandOver
    <3>2. DOMAIN ProcessAlert(object) = {"alert_number", "optional"}
      BY DEF ProcessAlert, Alert
    <3>3. ASSUME NEW q \in Requests
          PROVE  \/ notification'[q] = NoAlert
                 \/ DOMAIN notification'[q] = {"alert_number", "optional"}
      BY <3>1, <3>2 DEF TypeOK
    <3> QED  BY <2>5, <3>3 DEF HandOver, HandlerAt, TypeOK, HandlerPoints, SenderPoints
  <2>6. CASE Consume(r)
    BY <2>6 DEF Consume, HandlerAt, TypeOK, HandlerPoints, ConsumerPoints
  <2>7. CASE Answer(r)
    <3>1. responses' \in [Requests -> Seq(Statuses)]
      BY <1>0, <2>7, RespondTyped DEF Answer
    <3> QED  BY <2>7, <3>1 DEF Answer, HandlerAt, TypeOK, HandlerPoints, channelVars
  <2> QED  BY <1>4, <2>1, <2>2, <2>3, <2>4, <2>5, <2>6, <2>7 DEF Handler
<1>5. ASSUME NEW r \in Requests, Send(r) \/ Receive(r) \/ Post(r) PROVE TypeOK'
  <2>1. CASE Send(r)
    BY <2>1 DEF Send, TypeOK, SenderPoints, handlerVars
  <2>2. CASE Receive(r)
    BY <2>2 DEF Receive, TypeOK, SenderPoints, ConsumerPoints, handlerVars
  <2>3. CASE Post(r)
    BY <2>3 DEF Post, TypeOK, ConsumerPoints, Settled, handlerVars
  <2> QED  BY <1>5, <2>1, <2>2, <2>3
<1> QED  BY <1>1, <1>2, <1>3, <1>4, <1>5, ServerSteps

LEMMA ServerTypes ==
  ASSUME ServerTypeOK, [ServerNext]_serverVars
  PROVE  ServerTypeOK'
<1>1. TypeOK'
  BY EndpointTypes DEF ServerTypeOK
<1>2. Active \subseteq Requests
  BY DEF Active
<1>3. UNCHANGED file
  BY DEF ServerNext, serverVars, processVars, Main, Start, StartListener, Notify, Wait,
         TakeSignal, Shutdown, Drained, DrainTimesOut, Close, Join, End, Listen,
         ListenerReturns, Interrupt, PipelineFails, Accept, Serve, Deliver
<1> DEFINE Rest == /\ main \in MainPoints /\ listener \in ListenerPoints
                   /\ osSignals \in 0 .. 1
                   /\ cut \subseteq Requests /\ end \in Ends
                   /\ end = "none" <=> main # "exited"
<1>4. Rest
  BY DEF ServerTypeOK, Running
<1>5. ASSUME UNCHANGED processVars PROVE Rest'
  BY <1>4, <1>5 DEF processVars
<1>6. ASSUME NEW how \in Ends \ {"none"}, End(how) PROVE Rest'
  BY <1>2, <1>4, <1>6 DEF End, MainPoints, Ends
<1>7. ASSUME Main, Running PROVE Rest'
  <2>1. CASE Start
    BY <1>4, <1>6, <1>7, <2>1 DEF Start, MainAt, MainPoints, Ends, Running
  <2>2. CASE StartListener \/ Notify \/ Wait \/ Shutdown
    BY <1>4, <1>7, <2>2 DEF StartListener, Notify, Wait, Shutdown, MainAt, MainPoints,
                            ListenerPoints, Running
  <2>3. CASE TakeSignal
    BY <1>4, <1>7, <2>3 DEF TakeSignal, MainAt, MainPoints, Running
  <2>4. CASE Drained \/ DrainTimesOut \/ Close
    BY <1>2, <1>4, <1>7, <2>4 DEF Drained, DrainTimesOut, Close, MainAt, MainPoints, Running
  <2>5. CASE Join
    BY <1>6, <2>5 DEF Join, Ends
  <2> QED  BY <1>7, <2>1, <2>2, <2>3, <2>4, <2>5 DEF Main
<1>8. ASSUME Listen \/ ListenerReturns PROVE Rest'
  BY <1>4, <1>8 DEF Listen, ListenerReturns, ListenerPoints
<1>9. ASSUME Interrupt \/ PipelineFails PROVE Rest'
  BY <1>4, <1>6, <1>9 DEF Interrupt, PipelineFails, Ends, MainPoints
<1>10. ASSUME NEW r \in Requests, Accept(r) \/ Serve(r) \/ Deliver(r)
       PROVE  UNCHANGED processVars
  BY <1>10 DEF Accept, Serve, Deliver
<1>11. Rest'
  BY <1>5, <1>7, <1>8, <1>9, <1>10 DEF ServerNext, serverVars
<1>12. interrupted' = interrupted \/ interrupted' = TRUE
  BY DEF ServerNext, serverVars, processVars, Main, Start, StartListener, Notify, Wait,
         TakeSignal, Shutdown, Drained, DrainTimesOut, Close, Join, End, Listen,
         ListenerReturns, Interrupt, PipelineFails, Accept, Serve, Deliver
<1>13. interrupted' \in BOOLEAN
  BY <1>12, Zenon DEF ServerTypeOK
<1>14. file' \in Files
  BY <1>3 DEF ServerTypeOK
<1> QED  BY <1>1, <1>11, <1>13, <1>14, Zenon DEF ServerTypeOK, Running

\* In every behaviour of the server, and of the requests it serves, the variables have
\* their types, and the process has ended exactly if main has (main.go:378-467,
\* handlers.go:48-90).
THEOREM ServerTypeCorrect == ServerSpec => []ServerTypeOK
<1>1. ServerInit => ServerTypeOK
  <2> SUFFICES ASSUME ServerInit PROVE ServerTypeOK
    OBVIOUS
  <2>1. TypeOK
    BY DEF ServerInit, Init, TypeOK, HandlerPoints, Errors, SenderPoints, ConsumerPoints
  <2>2. osSignals \in 0 .. 1
    BY DEF ServerInit
  <2> QED  BY <2>1, <2>2, Zenon DEF ServerInit, ServerTypeOK, MainPoints, ListenerPoints,
                                  Ends, Running
<1>2. ServerTypeOK /\ [ServerNext]_serverVars => ServerTypeOK'
  BY ServerTypes
<1> QED  BY <1>1, <1>2, PTL DEF ServerSpec

------------------------------------------------------------------------------
(* The answers.                                                                    *)

\* What has been written and handed over at each point of a handler.
Path(r) ==
  /\ hpc[r] \notin {"handleError", "done"} => responses[r] = <<>>
  /\ hpc[r] \notin {"consume", "answer", "done"} => sender[r] = "none"
  /\ hpc[r] \in {"consume", "answer"} => sender[r] # "none"
  /\ hpc[r] = "recover" => body[r].kind = "unsized"
  /\ hpc[r] = "refuse" => body[r].kind = "invalid"
  /\ hpc[r] \in {"handOver", "consume", "answer"} => body[r].kind = "valid"
  /\ hpc[r] = "handleError" =>
       \/ body[r].kind = "unreadable" /\ error[r] = "ErrValidation" /\ responses[r] = <<>>
       \/ body[r].kind = "invalid" /\ error[r] = "other" /\ responses[r] = <<BadRequest>>
  /\ hpc[r] = "done" =>
       \/ body[r].kind = "unsized" /\ responses[r] = <<InternalServerError>>
       \/ body[r].kind = "unreadable" /\ responses[r] = <<BadRequest>>
       \/ /\ body[r].kind = "invalid"
          /\ responses[r] = <<BadRequest, InternalServerError>>
       \/ body[r].kind = "valid" /\ responses[r] = <<Ok>>
  /\ hpc[r] = "done" => (sender[r] # "none" <=> body[r].kind = "valid")

PathInv == \A r \in Requests : Path(r)

\* A handler's step leaves the other requests alone.
LEMMA OthersUntouched ==
  ASSUME TypeOK, NEW r \in Requests, NEW q \in Requests, q # r,
         \/ \E b \in Bodies : Request(r, b)
         \/ Handler(r)
         \/ Send(r) \/ Receive(r) \/ Post(r)
  PROVE  /\ hpc'[q] = hpc[q] /\ body'[q] = body[q] /\ error'[q] = error[q]
         /\ responses'[q] = responses[q] /\ sender'[q] = sender[q]
<1>1. ASSUME NEW b \in Bodies, Request(r, b)
      PROVE  /\ hpc'[q] = hpc[q] /\ body'[q] = body[q]
             /\ UNCHANGED <<error, responses, sender>>
  BY <1>1 DEF Request, HandlerAt, TypeOK, channelVars
<1>2. ASSUME Handler(r)
      PROVE  /\ hpc'[q] = hpc[q] /\ error'[q] = error[q] /\ responses'[q] = responses[q]
             /\ sender'[q] = sender[q] /\ UNCHANGED body
  BY <1>2 DEF Handler, Read, Refuse, HandleError, Recover, HandOver, Consume, Answer,
              HandlerAt, Respond, TypeOK, channelVars
<1>3. ASSUME Send(r) \/ Receive(r) \/ Post(r)
      PROVE  sender'[q] = sender[q] /\ UNCHANGED <<hpc, body, error, responses>>
  BY <1>3 DEF Send, Receive, Post, TypeOK, handlerVars
<1> QED  BY <1>1, <1>2, <1>3

LEMMA ShortSequences ==
  ASSUME NEW a, NEW b
  PROVE  /\ Append(<<>>, a) = <<a>>
         /\ Append(<<a>>, b) = <<a, b>>
         /\ Len(<<a>>) = 1 /\ Len(<<a, b>>) = 2
         /\ Head(<<a>>) = a /\ Head(<<a, b>>) = a
         /\ <<a>> # <<>> /\ <<a, b>> # <<>>
<1> DEFINE Set == {a, b}
<1>1. <<>> \in Seq(Set) /\ <<a>> \in Seq(Set) /\ <<a, b>> \in Seq(Set)
  OBVIOUS
<1>2. Len(<<a>>) = 1 /\ Len(<<a, b>>) = 2 /\ Len(<<>>) = 0
  OBVIOUS
<1>3. Head(<<a>>) = a /\ Head(<<a, b>>) = a
  BY <1>1, <1>2
<1>4. <<a>> # <<>> /\ <<a, b>> # <<>>
  BY <1>2
<1>5. Append(<<>>, a) = <<a>>
  BY <1>1, <1>2
<1>6. Append(<<a>>, b) = <<a, b>>
  <2> DEFINE s == Append(<<a>>, b)
  <2>1. s \in Seq(Set) /\ Len(s) = 2 /\ s[1] = a /\ s[2] = b
    BY <1>1, <1>2, AppendProperties
  <2>2. \A i \in 1 .. 2 : s[i] = <<a, b>>[i]
    BY <2>1
  <2> HIDE DEF s
  <2>3. s = <<a, b>>
    BY <1>1, <1>2, <2>1, <2>2, SeqEqual
  <2> QED  BY <2>3 DEF s
<1> QED  BY <1>2, <1>3, <1>4, <1>5, <1>6

LEMMA HandlerPath ==
  ASSUME TypeOK, NEW r \in Requests, Path(r), Handler(r)
  PROVE  Path(r)'
<1>0. /\ hpc \in [Requests -> HandlerPoints] /\ responses \in [Requests -> Seq(Statuses)]
      /\ error \in [Requests -> Errors] /\ sender \in [Requests -> SenderPoints]
      /\ body[r].kind \in {"none", "unsized", "unreadable", "invalid", "valid"}
  BY DEF TypeOK, Statuses, Bodies, NoBody
<1>1. CASE Read(r)
  BY <1>0, <1>1 DEF Read, HandlerAt, Path, channelVars
<1>2. CASE Refuse(r)
  <2>1. responses'[r] = Append(responses[r], BadRequest)
    BY <1>0, <1>2 DEF Refuse, Respond
  <2>2. responses'[r] = <<BadRequest>>
    BY <1>2, <2>1, ShortSequences DEF Refuse, HandlerAt, Path
  <2> QED  BY <1>0, <1>2, <2>2 DEF Refuse, HandlerAt, Path, channelVars
<1>3. CASE HandleError(r)
  <2>1. responses'[r] = Append(responses[r],
          IF error[r] = "ErrValidation" THEN BadRequest ELSE InternalServerError)
    BY <1>0, <1>3 DEF HandleError, Respond
  <2>2. \/ body[r].kind = "unreadable" /\ responses'[r] = <<BadRequest>>
        \/ /\ body[r].kind = "invalid"
           /\ responses'[r] = <<BadRequest, InternalServerError>>
    BY <1>3, <2>1, ShortSequences DEF HandleError, HandlerAt, Path
  <2> QED  BY <1>0, <1>3, <2>2 DEF HandleError, HandlerAt, Path, channelVars
<1>4. CASE Recover(r)
  <2>1. responses'[r] = Append(responses[r], InternalServerError)
    BY <1>0, <1>4 DEF Recover, Respond
  <2>2. responses'[r] = <<InternalServerError>>
    BY <1>4, <2>1, ShortSequences DEF Recover, HandlerAt, Path
  <2> QED  BY <1>0, <1>4, <2>2 DEF Recover, HandlerAt, Path, channelVars
<1>5. CASE HandOver(r)
  BY <1>0, <1>5 DEF HandOver, HandlerAt, Path
<1>6. CASE Consume(r)
  BY <1>0, <1>6 DEF Consume, HandlerAt, Path
<1>7. CASE Answer(r)
  <2>1. responses'[r] = Append(responses[r], Ok)
    BY <1>0, <1>7 DEF Answer, Respond
  <2>2. responses'[r] = <<Ok>>
    BY <1>7, <2>1, ShortSequences DEF Answer, HandlerAt, Path
  <2> QED  BY <1>0, <1>7, <2>2 DEF Answer, HandlerAt, Path, channelVars
<1> QED  BY <1>1, <1>2, <1>3, <1>4, <1>5, <1>6, <1>7 DEF Handler

LEMMA PathStep ==
  ASSUME TypeOK, PathInv, [ServerNext]_serverVars
  PROVE  PathInv'
<1>1. CASE UNCHANGED <<handlerVars, sender>>
  BY <1>1 DEF handlerVars, PathInv, Path
<1>2. ASSUME NEW r \in Requests,
             \/ \E b \in Bodies : Request(r, b)
             \/ Handler(r)
             \/ Send(r) \/ Receive(r) \/ Post(r),
             NEW q \in Requests
      PROVE  Path(q)'
  <2>1. CASE q # r
    BY <1>2, <2>1, OthersUntouched DEF PathInv, Path
  <2>2. ASSUME NEW b \in Bodies, Request(r, b) PROVE Path(r)'
    BY <2>2 DEF Request, HandlerAt, PathInv, Path, TypeOK, channelVars
  <2>3. CASE Handler(r) /\ q = r
    BY <2>3, HandlerPath DEF PathInv
  <2>4. ASSUME Send(r) \/ Receive(r) \/ Post(r) PROVE Path(r)'
    <3>1. sender'[r] # "none" <=> sender[r] # "none"
      BY <2>4 DEF Send, Receive, Post, TypeOK
    <3>2. UNCHANGED <<hpc, body, error, responses>>
      BY <2>4 DEF Send, Receive, Post, handlerVars
    <3> QED  BY <3>1, <3>2 DEF PathInv, Path
  <2> QED  BY <1>2, <2>1, <2>2, <2>3, <2>4
<1>3. Untouched => UNCHANGED <<handlerVars, sender>>
  BY DEF Untouched, vars, handlerVars, channelVars
<1>4. Ending => UNCHANGED <<handlerVars, sender>>
  BY DEF Ending
<1> QED  BY <1>1, <1>2, <1>3, <1>4, ServerSteps DEF PathInv

LEMMA PathInvariant == ServerSpec => []PathInv
<1>1. ServerInit => PathInv
  BY DEF ServerInit, Init, PathInv, Path
<1>2. TypeOK /\ PathInv /\ [ServerNext]_serverVars => PathInv'
  BY PathStep
<1>3. ServerTypeOK => TypeOK
  BY DEF ServerTypeOK
<1> QED  BY <1>1, <1>2, <1>3, ServerTypeCorrect, PTL DEF ServerSpec

\* The status of an answer tells whether the alert was handed over to the channel, for
\* any number of requests and whatever they carry (handlers.go:51-85, reshandler.go:42).
THEOREM StatusTells == ServerSpec => []StatusTellsHandover
<1>1. PathInv => StatusTellsHandover
  BY DEF PathInv, Path, StatusTellsHandover, Ok, BadRequest, InternalServerError
<1> QED  BY <1>1, PathInvariant, PTL

\* Only a request that the schema refuses is answered more than once (handlers.go:58): every
\* other way through the handler, the error mapping and the recovery ends with one answer
\* (handlers.go:51-85, reshandler.go:42).
THEOREM OthersAnsweredOnce ==
  ServerSpec => [](\A r \in Requests : hpc[r] = "done" /\ body[r].kind # "invalid"
                                        => Len(responses[r]) = 1)
<1>1. PathInv => \A r \in Requests : hpc[r] = "done" /\ body[r].kind # "invalid"
                                      => Len(responses[r]) = 1
  BY ShortSequences DEF PathInv, Path
<1> QED  BY <1>1, PathInvariant, PTL

------------------------------------------------------------------------------
(* The shutdown.                                                                   *)

\* Once Shutdown has closed the listener no request is accepted, so that what it waited
\* for stays so until main joins the listener's goroutine.
DrainInv ==
  /\ ShuttingDown => listener # "serving"
  /\ main = "join" /\ cut = {} => Active = {}
  /\ DrainedCompletely

\* Only Accept lets a request become active.
LEMMA NothingStarts ==
  ASSUME TypeOK, Active = {}, NEW r \in Requests, Serve(r) \/ Deliver(r)
  PROVE  Active' = {}
<1>1. hpc[r] \in {"none", "done"}
  BY DEF Active
<1>2. ~ Serve(r)
  BY <1>1 DEF Serve, Handler, Read, Refuse, HandleError, Recover, HandOver, Consume,
              Answer, HandlerAt
<1>3. UNCHANGED hpc
  BY <1>2 DEF Deliver, Send, Receive, Post, handlerVars
<1> QED  BY <1>3 DEF Active

LEMMA DrainStep ==
  ASSUME ServerTypeOK, DrainInv, [ServerNext]_serverVars
  PROVE  DrainInv'
<1>1. CASE UNCHANGED serverVars
  BY <1>1 DEF serverVars, processVars, vars, handlerVars, DrainInv, ShuttingDown, Active,
              DrainedCompletely
<1>2. ASSUME NEW how, End(how), how = "drained" => cut = {} /\ Active = {} PROVE DrainInv'
  BY <1>2 DEF End, DrainInv, ShuttingDown, DrainedCompletely
<1>3. ASSUME Running PROVE end # "drained"
  BY <1>3 DEF ServerTypeOK
<1>4. CASE Running /\ Main
  <2>1. CASE Start
    BY <1>2, <1>3, <1>4, <2>1 DEF Start, MainAt, DrainInv, ShuttingDown, DrainedCompletely
  <2>2. CASE StartListener \/ Notify \/ Wait \/ TakeSignal
    BY <1>3, <1>4, <2>2 DEF StartListener, Notify, Wait, TakeSignal, MainAt, DrainInv,
                            ShuttingDown, DrainedCompletely
  <2>3. CASE Shutdown
    BY <1>3, <1>4, <2>3 DEF Shutdown, MainAt, DrainInv, ShuttingDown, DrainedCompletely
  <2>4. CASE Drained
    <3>1. Active' = {}
      BY <2>4 DEF Drained, Active, vars, handlerVars
    <3> QED  BY <1>3, <1>4, <2>4, <3>1 DEF Drained, MainAt, DrainInv, ShuttingDown,
                                           DrainedCompletely
  <2>5. CASE DrainTimesOut
    BY <1>3, <1>4, <2>5 DEF DrainTimesOut, MainAt, DrainInv, ShuttingDown,
                            DrainedCompletely
  <2>6. CASE Close
    <3>1. cut' = cut \cup Active /\ Active' = Active
      BY <2>6 DEF Close, Active, vars, handlerVars
    <3>2. cut' = {} => Active' = {}
      BY <3>1
    <3> QED  BY <1>3, <1>4, <2>6, <3>2 DEF Close, MainAt, DrainInv, ShuttingDown,
                                           DrainedCompletely
  <2>7. CASE Join
    BY <1>2, <2>7 DEF Join, DrainInv
  <2> QED  BY <1>4, <2>1, <2>2, <2>3, <2>4, <2>5, <2>6, <2>7 DEF Main
<1>5. CASE Listen \/ ListenerReturns
  <2>1. UNCHANGED <<main, cut, end>> /\ Active' = Active
    BY <1>5 DEF Listen, ListenerReturns, Active, vars, handlerVars
  <2>2. ShuttingDown' => listener' # "serving"
    BY <1>5, <2>1 DEF Listen, ListenerReturns, ShuttingDown
  <2> QED  BY <2>1, <2>2 DEF DrainInv, DrainedCompletely
<1>6. CASE Interrupt
  <2>1. CASE End("killed")
    BY <1>2, <2>1
  <2>2. CASE UNCHANGED <<file, main, listener, cut, end, vars>>
    BY <2>2 DEF vars, handlerVars, DrainInv, ShuttingDown, Active, DrainedCompletely
  <2> QED  BY <1>6, <2>1, <2>2 DEF Interrupt
<1>7. CASE PipelineFails
  BY <1>2, <1>7 DEF PipelineFails
<1>8. ASSUME NEW r \in Requests, Accept(r) PROVE DrainInv'
  <2>1. UNCHANGED <<main, listener, cut, end>> /\ listener = "serving"
    BY <1>8 DEF Accept, processVars
  <2>2. ~ ShuttingDown
    BY <2>1 DEF DrainInv
  <2> QED  BY <2>1, <2>2 DEF DrainInv, ShuttingDown, DrainedCompletely
<1>9. ASSUME NEW r \in Requests, Serve(r) \/ Deliver(r) PROVE DrainInv'
  <2>1. UNCHANGED <<main, listener, cut, end>>
    BY <1>9 DEF Serve, Deliver, processVars
  <2>2. Active = {} => Active' = {}
    BY <1>9, NothingStarts DEF ServerTypeOK
  <2> QED  BY <2>1, <2>2 DEF DrainInv, ShuttingDown, DrainedCompletely
<1> QED  BY <1>1, <1>4, <1>5, <1>6, <1>7, <1>8, <1>9 DEF ServerNext

LEMMA DrainInvariant == ServerSpec => []DrainInv
<1>1. ServerInit => DrainInv
  BY DEF ServerInit, DrainInv, ShuttingDown, DrainedCompletely
<1>2. ServerTypeOK /\ DrainInv /\ [ServerNext]_serverVars => DrainInv'
  BY DrainStep
<1> QED  BY <1>1, <1>2, ServerTypeCorrect, PTL DEF ServerSpec

\* A shutdown that did not time out broke no connection, also not that of a request
\* accepted after the interrupt, for any number of requests (main.go:444-465).
THEOREM DrainsCompletely == ServerSpec => []DrainedCompletely
<1>1. DrainInv => DrainedCompletely
  BY DEF DrainInv
<1> QED  BY <1>1, DrainInvariant, PTL

------------------------------------------------------------------------------
(* The implementation of RequestHandling.                                          *)

\* An alert has an outcome only after its consumer has posted it, and nothing has begun
\* before the service is configured.
SettleInv ==
  /\ Running => \A r \in Requests :
       /\ consumer[r] = "post" => sender[r] = "taken" /\ outcome[r] = "none"
       /\ sender[r] # "taken" => outcome[r] = "none"
  /\ main = "start" => listener = "none" /\ \A r \in Requests : hpc[r] = "none"

LEMMA SettleInit == ServerInit => SettleInv
BY DEF ServerInit, Init, SettleInv

\* What the other requests' goroutines are does not change either.
LEMMA OthersUnsettled ==
  ASSUME TypeOK, NEW r \in Requests, NEW q \in Requests, q # r,
         \/ \E b \in Bodies : Request(r, b)
         \/ Handler(r)
         \/ Send(r) \/ Receive(r) \/ Post(r)
  PROVE  consumer'[q] = consumer[q] /\ outcome'[q] = outcome[q]
<1>1. ASSUME NEW b \in Bodies, Request(r, b) PROVE UNCHANGED <<consumer, outcome>>
  BY <1>1 DEF Request, channelVars
<1>2. ASSUME Handler(r) PROVE consumer'[q] = consumer[q] /\ UNCHANGED outcome
  BY <1>2 DEF Handler, Read, Refuse, HandleError, Recover, HandOver, Consume, Answer,
              TypeOK, channelVars
<1>3. ASSUME Send(r) \/ Receive(r) \/ Post(r)
      PROVE  consumer'[q] = consumer[q] /\ outcome'[q] = outcome[q]
  BY <1>3 DEF Send, Receive, Post, TypeOK
<1> QED  BY <1>1, <1>2, <1>3

LEMMA SettleStep ==
  ASSUME ServerTypeOK, PathInv, SettleInv, [ServerNext]_serverVars
  PROVE  SettleInv'
<1> DEFINE Unsettled(r) ==
      /\ consumer[r] = "post" => sender[r] = "taken" /\ outcome[r] = "none"
      /\ sender[r] # "taken" => outcome[r] = "none"
<1>0. TypeOK /\ (Running => \A r \in Requests : Unsettled(r))
  BY DEF SettleInv, ServerTypeOK
<1>1. CASE UNCHANGED serverVars
  BY <1>1 DEF serverVars, processVars, vars, handlerVars, channelVars, SettleInv, Running
<1>2. ASSUME NEW how, End(how) PROVE SettleInv'
  BY <1>2 DEF End, SettleInv, Running
<1>3. ASSUME UNCHANGED vars, main' # "start", Running PROVE SettleInv'
  BY <1>0, <1>3 DEF SettleInv, vars, channelVars
<1>4. CASE Running /\ Main
  BY <1>2, <1>3, <1>4 DEF Main, Start, StartListener, Notify, Wait, TakeSignal, Shutdown,
                         Drained, DrainTimesOut, Close, Join, MainAt
<1>5. CASE Running /\ (Listen \/ ListenerReturns)
  BY <1>3, <1>5 DEF Listen, ListenerReturns, SettleInv
<1>6. CASE Running /\ (Interrupt \/ PipelineFails)
  BY <1>2, <1>3, <1>6 DEF Interrupt, PipelineFails
<1>7. ASSUME Running, NEW r \in Requests, Accept(r) \/ Serve(r) \/ Deliver(r)
      PROVE  SettleInv'
  <2>0. /\ UNCHANGED <<main, listener>>
        /\ \/ \E b \in Bodies : Request(r, b)
           \/ Handler(r)
           \/ Send(r) \/ Receive(r) \/ Post(r)
    BY <1>7 DEF Accept, Serve, Deliver, processVars
  <2>1. ASSUME NEW q \in Requests, q # r PROVE Unsettled(q)'
    BY <1>0, <1>7, <2>0, <2>1, OthersUntouched, OthersUnsettled
  <2>2. Unsettled(r) /\ Path(r)
    BY <1>0, <1>7 DEF PathInv
  <2>3. Unsettled(r)'
    <3>1. ASSUME NEW b \in Bodies, Request(r, b) PROVE Unsettled(r)'
      BY <2>2, <3>1 DEF Request, channelVars
    <3>2. CASE HandOver(r)
      BY <1>0, <2>2, <3>2 DEF HandOver, HandlerAt, Path, TypeOK
    <3>3. CASE Consume(r)
      BY <1>0, <2>2, <3>3 DEF Consume, TypeOK
    <3>4. CASE Read(r) \/ Refuse(r) \/ HandleError(r) \/ Recover(r) \/ Answer(r)
      BY <2>2, <3>4 DEF Read, Refuse, HandleError, Recover, Answer, channelVars
    <3>5. CASE Send(r)
      BY <1>0, <2>2, <3>5 DEF Send, TypeOK
    <3>6. CASE Receive(r)
      BY <1>0, <2>2, <3>6 DEF Receive, TypeOK
    <3>7. CASE Post(r)
      BY <1>0, <2>2, <3>7 DEF Post, TypeOK
    <3> QED  BY <2>0, <3>1, <3>2, <3>3, <3>4, <3>5, <3>6, <3>7 DEF Handler
  <2>4. main # "start"
    <3>1. ASSUME main = "start" PROVE FALSE
      <4>1. listener = "none" /\ hpc[r] = "none"
        BY <3>1 DEF SettleInv
      <4>2. sender[r] = "none" /\ consumer[r] # "post"
        BY <2>2, <4>1 DEF Path
      <4>3. ~ Accept(r) /\ ~ Serve(r)
        BY <4>1 DEF Accept, Serve, Handler, Read, Refuse, HandleError, Recover, HandOver,
                    Consume, Answer, HandlerAt
      <4>4. ~ Deliver(r)
        BY <4>2 DEF Deliver, Send, Receive, Post
      <4> QED  BY <1>7, <4>3, <4>4
    <3> QED  BY <3>1
  <2> QED  BY <2>0, <2>1, <2>3, <2>4 DEF SettleInv
<1> QED  BY <1>1, <1>4, <1>5, <1>6, <1>7 DEF ServerNext

LEMMA SettleInvariant == ServerSpec => []SettleInv
<1>1. ServerTypeOK /\ PathInv /\ SettleInv /\ [ServerNext]_serverVars => SettleInv'
  BY SettleStep
<1> QED  BY <1>1, SettleInit, ServerTypeCorrect, PathInvariant, PTL DEF ServerSpec

\* What RequestHandling sees of the requests.
Requested == [r \in Requests |-> Progress(r)]
Answered  == [r \in Requests |-> FirstStatus(r)]

\* A step of one request is seen at that request alone.
LEMMA SeenAtOne ==
  ASSUME TypeOK, NEW r \in Requests,
         \/ \E b \in Bodies : Request(r, b)
         \/ Handler(r)
         \/ Send(r) \/ Receive(r) \/ Post(r)
  PROVE  /\ Requested' = [Requested EXCEPT ![r] = Progress(r)']
         /\ Answered' = [Answered EXCEPT ![r] = FirstStatus(r)']
<1>1. ASSUME NEW q \in Requests, q # r
      PROVE  Progress(q)' = Progress(q) /\ FirstStatus(q)' = FirstStatus(q)
  <2>1. hpc'[q] = hpc[q] /\ sender'[q] = sender[q] /\ responses'[q] = responses[q]
    BY <1>1, OthersUntouched
  <2> QED  BY <2>1 DEF Progress, FirstStatus
<1> DEFINE F(q) == Progress(q)'
           G(q) == FirstStatus(q)'
<1>2. Requested' = [q \in Requests |-> F(q)] /\ Answered' = [q \in Requests |-> G(q)]
  BY DEF Requested, Answered
<1>3. \A q \in Requests : q # r => F(q) = Requested[q] /\ G(q) = Answered[q]
  BY <1>1 DEF Requested, Answered
<1>4. DOMAIN Requested = Requests /\ DOMAIN Answered = Requests
  BY DEF Requested, Answered
<1>5. /\ Requested = [q \in Requests |-> Requested[q]]
      /\ Answered = [q \in Requests |-> Answered[q]]
  BY DEF Requested, Answered
<1>6. /\ [q \in Requests |-> F(q)] = [Requested EXCEPT ![r] = F(r)]
      /\ [q \in Requests |-> G(q)] = [Answered EXCEPT ![r] = G(r)]
  <2> HIDE DEF F, G
  <2> QED  BY <1>3, <1>4, <1>5
<1> QED  BY <1>2, <1>6

LEMMA NothingSeen ==
  ASSUME NEW r \in Requests
  PROVE  /\ [Requested EXCEPT ![r] = Progress(r)] = Requested
         /\ [Answered EXCEPT ![r] = FirstStatus(r)] = Answered
         /\ Requested[r] = Progress(r) /\ Answered[r] = FirstStatus(r)
BY DEF Requested, Answered

\* What a handler's step changes of what is seen of its request.
LEMMA HandlerSeen ==
  ASSUME TypeOK, NEW r \in Requests, Path(r), Handler(r)
  PROVE  \/ Progress(r)' = Progress(r) /\ FirstStatus(r)' = FirstStatus(r)
         \/ /\ Progress(r) = "admitted" /\ Progress(r)' = "accepted"
            /\ FirstStatus(r) = 0 /\ FirstStatus(r)' = 0
         \/ /\ Progress(r)' = Progress(r) /\ FirstStatus(r) = 0
            /\ \/ Progress(r) = "accepted" /\ FirstStatus(r)' = Ok
               \/ /\ Progress(r) = "admitted"
                  /\ FirstStatus(r)' \in {BadRequest, InternalServerError}
<1> USE DEF Progress, FirstStatus
<1>0. Path(r)'
  BY HandlerPath
<1>1. CASE Read(r) \/ Consume(r)
  BY <1>0, <1>1 DEF Read, Consume, HandlerAt, Path, channelVars, TypeOK, HandlerPoints
<1>2. CASE Refuse(r) \/ Recover(r) \/ Answer(r)
  BY <1>0, <1>2, ShortSequences
     DEF Refuse, Recover, Answer, HandlerAt, Path, channelVars, TypeOK
<1>3. CASE HandleError(r)
  BY <1>0, <1>3, ShortSequences DEF HandleError, HandlerAt, Path, channelVars, TypeOK
<1>4. CASE HandOver(r)
  BY <1>0, <1>4 DEF HandOver, HandlerAt, Path, TypeOK
<1> QED  BY <1>1, <1>2, <1>3, <1>4 DEF Handler

\* Every step of the server is one of RequestHandling or is not seen there.
LEMMA StepsHandling ==
  ASSUME ServerTypeOK, PathInv, DrainInv, SettleInv, [ServerNext]_serverVars
  PROVE  [Handling!Next]_(Handling!vars)
<1> DEFINE Unseen == /\ Phase' = Phase /\ outcome' = outcome
                     /\ Requested' = Requested /\ Answered' = Answered
<1>a. ASSUME Unseen PROVE [Handling!Next]_(Handling!vars)
  BY <1>a DEF Handling!vars, Requested, Answered
<1>b. ASSUME UNCHANGED vars PROVE Requested' = Requested /\ Answered' = Answered
                                   /\ outcome' = outcome
  BY <1>b DEF vars, handlerVars, channelVars, Requested, Answered, Progress, FirstStatus
<1>1. CASE UNCHANGED serverVars
  BY <1>a, <1>b, <1>1 DEF serverVars, processVars, Phase, Running, ShuttingDown
<1>2. ASSUME Running, NEW how, End(how) PROVE Handling!End
  <2>1. Phase # "ended" /\ Phase' = "ended"
    BY <1>2 DEF End, Phase, Running, ShuttingDown
  <2>2. Requested' = Requested /\ Answered' = Answered
    BY <1>2 DEF End, handlerVars, Requested, Answered, Progress, FirstStatus
  <2>3. \A r \in Requests : Requested[r] = "accepted" <=> sender[r] # "none"
    BY DEF Requested, Progress, PathInv, Path
  <2>4. outcome' = [r \in Requests |->
          IF sender[r] # "none" /\ outcome[r] = "none" THEN "lost" ELSE outcome[r]]
    BY <1>2 DEF End
  <2>5. outcome' = [r \in Requests |->
          IF Requested[r] = "accepted" /\ outcome[r] = "none" THEN "lost" ELSE outcome[r]]
    BY <2>3, <2>4
  <2> QED  BY <2>1, <2>2, <2>5 DEF Handling!End, Requested, Answered
<1>3. ASSUME Running, Main, \A how : ~ End(how) PROVE [Handling!Next]_(Handling!vars)
  <2>1. CASE Start
    <3>1. Phase = "starting" /\ Phase' = "open" /\ UNCHANGED vars
      BY <1>3, <2>1 DEF Start, MainAt, Phase, Running, ShuttingDown
    <3> QED  BY <1>b, <3>1 DEF Handling!Next, Handling!Open, Requested, Answered
  <2>2. CASE Shutdown
    <3>1. Phase = "open" /\ Phase' = "closing" /\ UNCHANGED vars
      BY <1>3, <2>2 DEF Shutdown, MainAt, Phase, Running, ShuttingDown
    <3> QED  BY <1>b, <3>1 DEF Handling!Next, Handling!Close, Requested, Answered
  <2>3. CASE \/ StartListener \/ Notify \/ Wait \/ TakeSignal
             \/ Drained \/ DrainTimesOut \/ Close
    <3>1. Phase' = Phase /\ UNCHANGED vars
      BY <2>3 DEF StartListener, Notify, Wait, TakeSignal, Drained, DrainTimesOut, Close,
                  MainAt, Phase, Running, ShuttingDown
    <3> QED  BY <1>a, <1>b, <3>1
  <2>4. ~ Join
    BY <1>3 DEF Join
  <2> QED  BY <1>3, <2>1, <2>2, <2>3, <2>4 DEF Main
<1>4. CASE Listen \/ ListenerReturns
  BY <1>a, <1>b, <1>4 DEF Listen, ListenerReturns, Phase, Running, ShuttingDown
<1>5. ASSUME Running, Interrupt \/ PipelineFails PROVE [Handling!Next]_(Handling!vars)
  <2>1. CASE \E how : End(how)
    BY <1>2, <1>5, <2>1 DEF Handling!Next
  <2>2. CASE UNCHANGED <<main, vars>>
    BY <1>a, <1>b, <2>2 DEF Phase, Running, ShuttingDown
  <2> QED  BY <1>5, <2>1, <2>2 DEF Interrupt, PipelineFails
<1>6. ASSUME Running, NEW r \in Requests, Accept(r) \/ Serve(r) \/ Deliver(r)
      PROVE  [Handling!Next]_(Handling!vars)
  <2>0. /\ UNCHANGED processVars
        /\ \/ \E b \in Bodies : Request(r, b)
           \/ Handler(r)
           \/ Send(r) \/ Receive(r) \/ Post(r)
    BY <1>6 DEF Accept, Serve, Deliver
  <2>1. Phase' = Phase
    BY <2>0 DEF processVars, Phase, Running, ShuttingDown
  <2>2. Path(r) /\ TypeOK
    BY DEF PathInv, ServerTypeOK
  <2>3. /\ Requested' = [Requested EXCEPT ![r] = Progress(r)']
        /\ Answered' = [Answered EXCEPT ![r] = FirstStatus(r)']
    BY <2>0, <2>2, SeenAtOne
  <2>4. Phase # "starting" => Phase \in {"open", "closing"}
    BY <1>6 DEF Phase
  <2>5. CASE Accept(r)
    <3>1. Phase = "open"
      BY <1>6, <2>5 DEF Accept, SettleInv, DrainInv, Phase
    <3>2. /\ Progress(r) = "none" /\ Progress(r)' = "admitted"
          /\ FirstStatus(r)' = FirstStatus(r) /\ outcome' = outcome
      BY <2>2, <2>5 DEF Accept, Request, HandlerAt, Progress, FirstStatus, Path, TypeOK,
                        channelVars
    <3>3. Handling!Admit(r)
      BY <2>1, <2>3, <3>1, <3>2, NothingSeen DEF Handling!Admit, Requested, Answered
    <3> QED  BY <3>3 DEF Handling!Next
  <2>6. CASE Serve(r)
    <3>1. Handler(r) /\ outcome' = outcome
      BY <2>6 DEF Serve, Handler, Read, Refuse, HandleError, Recover, HandOver, Consume,
                  Answer, channelVars
    <3>2. Handling!Working
      <4>1. hpc[r] # "none"
        BY <3>1 DEF Handler, Read, Refuse, HandleError, Recover, HandOver, Consume, Answer,
                    HandlerAt
      <4>2. Phase # "starting"
        BY <4>1 DEF Phase, SettleInv
      <4> QED  BY <2>4, <4>2 DEF Handling!Working
    <3>3. CASE Progress(r)' = Progress(r) /\ FirstStatus(r)' = FirstStatus(r)
      BY <1>a, <2>1, <2>3, <3>1, <3>3, NothingSeen
    <3>4. CASE /\ Progress(r) = "admitted" /\ Progress(r)' = "accepted"
               /\ FirstStatus(r) = 0 /\ FirstStatus(r)' = 0
      <4>1. Handling!Accept(r)
        BY <2>1, <2>3, <3>1, <3>2, <3>4, NothingSeen
           DEF Handling!Accept, Requested, Answered
      <4> QED  BY <4>1 DEF Handling!Next
    <3>5. CASE /\ Progress(r)' = Progress(r) /\ FirstStatus(r) = 0
               /\ \/ Progress(r) = "accepted" /\ FirstStatus(r)' = Ok
                  \/ /\ Progress(r) = "admitted"
                     /\ FirstStatus(r)' \in {BadRequest, InternalServerError}
      <4>1. FirstStatus(r)' \in IF Progress(r) = "accepted" THEN {200} ELSE Handling!Refusals
        BY <3>5 DEF Handling!Refusals, Ok, BadRequest, InternalServerError
      <4>2. Handling!Answer(r)
        BY <2>1, <2>3, <3>1, <3>2, <3>5, <4>1, NothingSeen
           DEF Handling!Answer, Requested, Answered
      <4> QED  BY <4>2 DEF Handling!Next
    <3> QED  BY <2>2, <3>1, <3>3, <3>4, <3>5, HandlerSeen
  <2>7. CASE Deliver(r)
    <3>1. sender[r] # "none" /\ hpc[r] # "none"
      BY <1>6, <2>2, <2>7 DEF Deliver, Send, Receive, Post, SettleInv, Path
    <3>2. Progress(r)' = Progress(r) /\ FirstStatus(r)' = FirstStatus(r)
      BY <2>2, <2>7, <3>1 DEF Deliver, Send, Receive, Post, handlerVars, Progress,
                              FirstStatus, TypeOK
    <3>3. Requested' = Requested /\ Answered' = Answered
      BY <2>3, <3>2, NothingSeen
    <3>4. CASE Send(r) \/ Receive(r)
      BY <1>a, <2>1, <3>3, <3>4 DEF Send, Receive
    <3>5. CASE Post(r)
      <4>1. outcome[r] = "none" /\ Progress(r) = "accepted" /\ Handling!Working
        BY <1>6, <2>4, <3>1, <3>5 DEF Post, SettleInv, Progress, Phase, Handling!Working
      <4>2. \E o \in Handling!Settled : outcome' = [outcome EXCEPT ![r] = o]
        BY <3>5 DEF Post, Handling!Settled
      <4>3. Handling!Settle(r)
        BY <2>1, <3>3, <4>1, <4>2 DEF Handling!Settle, Requested, Answered
      <4> QED  BY <4>3 DEF Handling!Next
    <3> QED  BY <2>7, <3>4, <3>5 DEF Deliver
  <2> QED  BY <1>6, <2>5, <2>6, <2>7
<1> QED
  <2>1. CASE \E how : Running /\ End(how)
    BY <1>2, <2>1 DEF Handling!Next
  <2> QED  BY <1>1, <1>3, <1>4, <1>5, <1>6, <2>1 DEF ServerNext

\* Whatever the requests carry, wherever their goroutines are when the interrupt comes, and
\* whether the listener wins the race with the shutdown or not: none is admitted once the
\* shutdown began, a 200 follows the handover of the alert, and an alert has one outcome
\* (main.go:415-466, handlers.go:48-90, lib.go:85).
THEOREM RefinesHandling == ServerSpec => ImplementsHandling
<1>1. ServerInit => Handling!Init
  <2> SUFFICES ASSUME ServerInit PROVE Handling!Init
    OBVIOUS
  <2>1. Phase = "starting" /\ outcome = [r \in Requests |-> "none"]
    BY DEF ServerInit, Init, Phase, Running, ShuttingDown
  <2>2. \A r \in Requests : Progress(r) = "none" /\ FirstStatus(r) = 0
    BY DEF ServerInit, Init, Progress, FirstStatus
  <2> QED  BY <2>1, <2>2 DEF Handling!Init
<1>2. ServerTypeOK /\ PathInv /\ DrainInv /\ SettleInv /\ [ServerNext]_serverVars
        => [Handling!Next]_(Handling!vars)
  BY StepsHandling
<1> QED  BY <1>1, <1>2, ServerTypeCorrect, PathInvariant, DrainInvariant, SettleInvariant,
            PTL DEF ImplementsHandling, Handling!Spec, ServerSpec

==============================================================================
