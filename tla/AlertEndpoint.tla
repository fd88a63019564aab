---------------------------- MODULE AlertEndpoint ----------------------------
(***************************************************************************)
(* POST /alert/alertmessage, app/routes/handlers/handlers.go, with the     *)
(* handler wrapper and the recovery from panics around it (pkg/web,        *)
(* pkg/middlewares): a request is validated, its alert is handed to a      *)
(* notification channel made for it alone, and it is answered.             *)
(*                                                                         *)
(* Every request has a goroutine of its own; its handler starts two more,  *)
(* one that sends the alert and one that runs NotifyChannel.  A post is    *)
(* one step here, NotificationChannel has its details.                     *)
(***************************************************************************)
EXTENDS AlertMessage, Sequences

CONSTANTS Requests,
          Alerts,                 \* the alerts that clients send
          NoAlert,
          NotificationChanSize,   \* config: buffer size of the request's channel
          HasDestination          \* config: an alertDestination is set

ASSUME EndpointAssumption ==
  /\ Alerts \subseteq [alert_number : Nat, optional : {a.optional : a \in Alerts}]
  /\ NoAlert \notin Alerts
  /\ NotificationChanSize \in Nat
  /\ HasDestination \in BOOLEAN

VARIABLES body,          \* what each request carries
          hpc,           \* where its handler is
          error,         \* the error the handler returns
          responses,     \* the statuses written to the client
          notification,  \* the alert given to the request's channel
          sender,        \* the goroutine that sends it
          consumer,      \* the goroutine that runs NotifyChannel
          outcome        \* what became of the alert

handlerVars == <<body, hpc, error, responses>>
channelVars == <<notification, sender, consumer, outcome>>
vars == <<handlerVars, channelVars>>

\* What readAndValidateRequest tells apart: a body without a Content-Length, one that
\* breaks off or is no JSON of an AlertMessage, one that the schema refuses.
Bodies ==
  [kind : {"unsized", "unreadable"}, alert : {NoAlert}]
    \cup [kind : {"invalid", "valid"}, alert : Alerts]
NoBody == [kind |-> "none", alert |-> NoAlert]

HandlerPoints  == {"none", "read", "refuse", "handleError", "recover", "handOver",
                   "consume", "answer", "done"}
SenderPoints   == {"none", "sending", "buffered", "blocked", "taken"}
ConsumerPoints == {"none", "receive", "post"}
Errors         == {"none", "ErrValidation", "other"}
Settled        == {"posted", "failed", "dropped"}

Ok == 200
BadRequest == 400
InternalServerError == 500

Init ==
  /\ body = [r \in Requests |-> NoBody]
  /\ hpc = [r \in Requests |-> "none"]
  /\ error = [r \in Requests |-> "none"]
  /\ responses = [r \in Requests |-> <<>>]
  /\ notification = [r \in Requests |-> NoAlert]
  /\ sender = [r \in Requests |-> "none"]
  /\ consumer = [r \in Requests |-> "none"]
  /\ outcome = [r \in Requests |-> "none"]

------------------------------------------------------------------------------
HandlerAt(r, here, there) ==
  /\ hpc[r] = here
  /\ hpc' = [hpc EXCEPT ![r] = there]

\* web.Respond writes the header and the body; the client sees the first header.
Respond(r, status) == responses' = [responses EXCEPT ![r] = Append(@, status)]

Request(r, b) ==
  /\ HandlerAt(r, "none", "read")
  /\ body' = [body EXCEPT ![r] = b]
  /\ UNCHANGED <<error, responses, channelVars>>

\* make([]byte, -1) panics; io.ReadFull and json.Unmarshal fail with ErrValidation.
Read(r) ==
  /\ \/ body[r].kind = "unsized" /\ HandlerAt(r, "read", "recover") /\ UNCHANGED error
     \/ /\ body[r].kind = "unreadable"
        /\ HandlerAt(r, "read", "handleError")
        /\ error' = [error EXCEPT ![r] = "ErrValidation"]
     \/ body[r].kind = "invalid" /\ HandlerAt(r, "read", "refuse") /\ UNCHANGED error
     \/ body[r].kind = "valid" /\ HandlerAt(r, "read", "handOver") /\ UNCHANGED error
  /\ UNCHANGED <<body, responses, channelVars>>

\* Mutant: the return after the response is missing.
RefuseGoesOn(r) ==
  /\ HandlerAt(r, "refuse", "handOver")
  /\ Respond(r, BadRequest)
  /\ UNCHANGED <<body, error, channelVars>>

\* The schema's errors are the response, and then an error is returned as well.
Refuse(r) ==
  /\ HandlerAt(r, "refuse", "handleError")
  /\ Respond(r, BadRequest)
  /\ error' = [error EXCEPT ![r] = "other"]
  /\ UNCHANGED <<body, channelVars>>

\* ServeHTTP gives a returned error to web.Error.
HandleError(r) ==
  /\ HandlerAt(r, "handleError", "done")
  /\ Respond(r, IF error[r] = "ErrValidation" THEN BadRequest ELSE InternalServerError)
  /\ UNCHANGED <<body, error, channelVars>>

Recover(r) ==
  /\ HandlerAt(r, "recover", "done")
  /\ Respond(r, InternalServerError)
  /\ UNCHANGED <<body, error, channelVars>>

\* populateAlertNotificationPayload.
Populate(alert) ==
  IF alert.alert_number = 0 THEN [alert EXCEPT !.alert_number = 686] ELSE alert

\* Mutant: the message is notified as it is.
HandOverUndecoded(r) ==
  /\ HandlerAt(r, "handOver", "consume")
  /\ notification' = [notification EXCEPT ![r] =
       Envelope("any", Populate(body[r].alert))]
  /\ sender' = [sender EXCEPT ![r] = "sending"]
  /\ UNCHANGED <<body, error, responses, consumer, outcome>>

\* Mutant: the handler sends on the channel itself.
HandOverInline(r) ==
  \/ /\ hpc[r] = "handOver" /\ sender[r] = "none"
     /\ notification' = [notification EXCEPT ![r] =
          ProcessAlert(Envelope("any", Populate(body[r].alert)))]
     /\ sender' = [sender EXCEPT ![r] = "sending"]
     /\ UNCHANGED <<handlerVars, consumer, outcome>>
  \/ /\ HandlerAt(r, "handOver", "consume")
     /\ sender[r] \in {"buffered", "taken"}
     /\ UNCHANGED <<body, error, responses, channelVars>>

\* ProcessAlert decodes the bytes of the message and starts the sender.  The message
\* was decoded from JSON, so marshalling it and decoding it again do not fail.
HandOver(r) ==
  /\ HandlerAt(r, "handOver", "consume")
  /\ notification' = [notification EXCEPT ![r] =
       ProcessAlert(Envelope("any", Populate(body[r].alert)))]
  /\ sender' = [sender EXCEPT ![r] = "sending"]
  /\ UNCHANGED <<body, error, responses, consumer, outcome>>

\* Mutant: no consumer is started.
ConsumeElsewhere(r) ==
  /\ HandlerAt(r, "consume", "answer")
  /\ UNCHANGED <<body, error, responses, channelVars>>

\* go NotifyChannel.  It runs forever: nobody closes the channel.
Consume(r) ==
  /\ HandlerAt(r, "consume", "answer")
  /\ consumer' = [consumer EXCEPT ![r] = "receive"]
  /\ UNCHANGED <<body, error, responses, notification, sender, outcome>>

Answer(r) ==
  /\ HandlerAt(r, "answer", "done")
  /\ Respond(r, Ok)
  /\ UNCHANGED <<body, error, channelVars>>

Handler(r) ==
  \/ Read(r) \/ Refuse(r) \/ HandleError(r) \/ Recover(r)
  \/ HandOver(r) \/ Consume(r) \/ Answer(r)

------------------------------------------------------------------------------
\* The goroutines of the request.
Send(r) ==
  /\ sender[r] = "sending"
  /\ sender' = [sender EXCEPT ![r] =
       IF NotificationChanSize > 0 THEN "buffered" ELSE "blocked"]
  /\ UNCHANGED <<handlerVars, notification, consumer, outcome>>

Receive(r) ==
  /\ consumer[r] = "receive"
  /\ sender[r] \in {"buffered", "blocked"}
  /\ sender' = [sender EXCEPT ![r] = "taken"]
  /\ consumer' = [consumer EXCEPT ![r] = "post"]
  /\ UNCHANGED <<handlerVars, notification, outcome>>

Post(r) ==
  /\ consumer[r] = "post"
  /\ consumer' = [consumer EXCEPT ![r] = "receive"]
  /\ \E o \in IF HasDestination THEN {"posted", "failed"} ELSE {"dropped"} :
       outcome' = [outcome EXCEPT ![r] = o]
  /\ UNCHANGED <<handlerVars, notification, sender>>

Next == \E r \in Requests :
  Handler(r) \/ Send(r) \/ Receive(r) \/ Post(r) \/ \E b \in Bodies : Request(r, b)

Spec == Init /\ [][Next]_vars

------------------------------------------------------------------------------
\* The variables have their types; what is notified is a models.Alert (lib.go:73).
TypeOK ==
  /\ body \in [Requests -> Bodies \cup {NoBody}]
  /\ hpc \in [Requests -> HandlerPoints]
  /\ error \in [Requests -> Errors]
  /\ responses \in [Requests -> Seq({Ok, BadRequest, InternalServerError})]
  /\ \A r \in Requests :
       notification[r] = NoAlert \/ DOMAIN notification[r] = {"alert_number", "optional"}
  /\ sender \in [Requests -> SenderPoints]
  /\ consumer \in [Requests -> ConsumerPoints]
  /\ outcome \in [Requests -> Settled \cup {"none", "lost"}]

\* The status the client sees tells what happened to its alert, through the early
\* returns, the error mapping and the recovery of three layers: 200 exactly if the alert
\* was handed over, 500 only after a panic (handlers.go:51-85, reshandler.go:42).
StatusTellsHandover ==
  \A r \in Requests : responses[r] # <<>> =>
    /\ sender[r] # "none" <=> Head(responses[r]) = Ok
    /\ Head(responses[r]) = InternalServerError => body[r].kind = "unsized"

\* route.go:97 lists one answer to a request that the schema refuses, "400: schemaValidation",
\* as it does to every other request: a request that is done with has been answered once,
\* though a handler and two layers around it may respond (handlers.go:58, reshandler.go:42).
AnsweredOnce == \A r \in Requests : hpc[r] = "done" => Len(responses[r]) = 1

\* route.go:85 says that the "response will be either Ok or error messages when posting
\* to cloud connector fails": a request whose post failed is not answered with 200.
FailureIsAnswered ==
  \A r \in Requests :
    outcome[r] = "failed" /\ responses[r] # <<>> => Head(responses[r]) # Ok

==============================================================================
