----------------------------- MODULE AlertServer -----------------------------
(***************************************************************************)
(* The life of the process, main of main.go: configuration, the HTTP       *)
(* server with the requests of AlertEndpoint, the interrupt, the graceful  *)
(* shutdown and its timeout, and the end.                                  *)
(*                                                                         *)
(* net/http and os/signal are modelled by their contract.  A request is    *)
(* accepted only while the server listens; Shutdown closes the listener    *)
(* and waits until no request is being handled, or 5 seconds; Close breaks *)
(* the connections.  A response leaves when its handler returns.  Signals  *)
(* are put on a channel without waiting for room.                          *)
(***************************************************************************)
EXTENDS AlertEndpoint, Configuration

CONSTANT Files   \* the configurations that the service may be started with

\* The settings that AlertEndpoint depends on are those of the configuration.
ASSUME ServerAssumption == \A f \in Files :
  /\ DOMAIN f = Settings
  /\ f["notificationChanSize"].kind = "number" =>
       f["notificationChanSize"].number \in {NotificationChanSize, -1}
  /\ f["alertDestination"].kind # "unset" =>
       (HasDestination <=> f["alertDestination"] # Text(""))

VARIABLES file,         \* the configuration
          main,         \* where main is
          listener,     \* the goroutine that runs ListenAndServe
          osSignals,    \* signals on the channel, of capacity 1
          interrupted,  \* history: an interrupt was delivered to the channel
          cut,          \* requests whose connection was broken
          end           \* how the process ended

processVars == <<file, main, listener, osSignals, interrupted, cut, end>>
serverVars  == <<vars, processVars>>

MainPoints     == {"start", "listen", "notify", "notified", "wait", "shutdown", "drain",
                   "close", "join", "exited"}
ListenerPoints == {"none", "starting", "serving", "closing", "closed"}
Ends           == {"none", "fatal", "panic", "killed", "pipeline", "drained", "forced"}

ServerInit ==
  /\ Init
  /\ file \in Files
  /\ main = "start"
  /\ listener = "none"
  /\ osSignals = 0
  /\ interrupted = FALSE
  /\ cut = {}
  /\ end = "none"

------------------------------------------------------------------------------
MainAt(here, there) == main = here /\ main' = there

Running == main # "exited"

\* Requests being handled.
Active == {r \in Requests : hpc[r] \notin {"none", "done"}}

\* The process ends: its goroutines end wherever they are, and an alert that was handed
\* over but is not settled is lost.
End(how) ==
  /\ main' = "exited"
  /\ end' = how
  /\ cut' = cut \cup Active
  /\ outcome' = [r \in Requests |->
       IF sender[r] # "none" /\ outcome[r] = "none" THEN "lost" ELSE outcome[r]]
  /\ UNCHANGED <<file, listener, osSignals, interrupted, handlerVars, notification, sender,
                 consumer>>

\* InitConfig, and make(chan), which panics on a negative size.
Start ==
  /\ main = "start"
  /\ \/ ~ InitConfigSucceeds(file) /\ End("fatal")
     \/ InitConfigSucceeds(file) /\ file["notificationChanSize"].number < 0 /\ End("panic")
     \/ /\ InitConfigSucceeds(file) /\ file["notificationChanSize"].number >= 0
        /\ MainAt("start", "listen")
        /\ UNCHANGED <<file, listener, osSignals, interrupted, cut, end, vars>>

StartListener ==
  /\ MainAt("listen", "notify")
  /\ listener' = "starting"
  /\ UNCHANGED <<file, osSignals, interrupted, cut, end, vars>>

\* signal.Notify, and then the receive that waits for a signal.
Notify ==
  /\ MainAt("notify", "notified")
  /\ UNCHANGED <<file, listener, osSignals, interrupted, cut, end, vars>>

Wait ==
  /\ MainAt("notified", "wait")
  /\ UNCHANGED <<file, listener, osSignals, interrupted, cut, end, vars>>

TakeSignal ==
  /\ osSignals > 0
  /\ MainAt("wait", "shutdown")
  /\ osSignals' = osSignals - 1
  /\ UNCHANGED <<file, listener, interrupted, cut, end, vars>>

\* Mutant: only the requests are waited for, the port stays open.
ShutdownKeepsListening ==
  /\ MainAt("shutdown", "drain")
  /\ UNCHANGED <<file, listener, osSignals, interrupted, cut, end, vars>>

Shutdown ==
  /\ MainAt("shutdown", "drain")
  /\ listener' = IF listener = "serving" THEN "closing" ELSE listener
  /\ UNCHANGED <<file, osSignals, interrupted, cut, end, vars>>

\* Mutant: Shutdown returns at once.
DrainedAtOnce ==
  /\ MainAt("drain", "join")
  /\ UNCHANGED <<file, listener, osSignals, interrupted, cut, end, vars>>

Drained ==
  /\ Active = {}
  /\ MainAt("drain", "join")
  /\ UNCHANGED <<file, listener, osSignals, interrupted, cut, end, vars>>

DrainTimesOut ==
  /\ MainAt("drain", "close")
  /\ UNCHANGED <<file, listener, osSignals, interrupted, cut, end, vars>>

Close ==
  /\ MainAt("close", "join")
  /\ cut' = cut \cup Active
  /\ UNCHANGED <<file, listener, osSignals, interrupted, end, vars>>

\* wg.Wait, and main returns.
Join ==
  /\ main = "join"
  /\ listener = "closed"
  /\ End(IF cut = {} THEN "drained" ELSE "forced")

Main ==
  \/ Start \/ StartListener \/ Notify \/ Wait \/ TakeSignal \/ Shutdown
  \/ Drained \/ DrainTimesOut \/ Close \/ Join

------------------------------------------------------------------------------
ShuttingDown == main \in {"drain", "close", "join"}

\* ListenAndServe opens the port, fails to, or finds the server shut down already.
Listen ==
  /\ listener = "starting"
  /\ listener' \in IF ShuttingDown THEN {"closed"} ELSE {"serving", "closed"}
  /\ UNCHANGED <<file, main, osSignals, interrupted, cut, end, vars>>

ListenerReturns ==
  /\ listener = "closing"
  /\ listener' = "closed"
  /\ UNCHANGED <<file, main, osSignals, interrupted, cut, end, vars>>

Accept(r) ==
  /\ listener = "serving"
  /\ \E b \in Bodies : Request(r, b)
  /\ UNCHANGED processVars

Serve(r) == Handler(r) /\ UNCHANGED processVars

Deliver(r) == (Send(r) \/ Receive(r) \/ Post(r)) /\ UNCHANGED processVars

------------------------------------------------------------------------------
\* Mutant: the channel of the signals has no buffer.
InterruptUnbuffered ==
  /\ main \notin {"start", "listen", "notify"}
  /\ interrupted' = TRUE
  /\ IF main = "wait" THEN osSignals' = 1 ELSE UNCHANGED osSignals
  /\ UNCHANGED <<file, main, listener, cut, end, vars>>

\* Before signal.Notify an interrupt ends the process; a signal that finds the channel
\* full is dropped.
Interrupt ==
  \/ /\ main \in {"start", "listen", "notify"}
     /\ End("killed")
  \/ /\ main \notin {"start", "listen", "notify"}
     /\ interrupted' = TRUE
     /\ osSignals' = 1
     /\ UNCHANGED <<file, main, listener, cut, end, vars>>

\* The goroutine of the event pipeline ends the process if the SDK fails.
PipelineFails ==
  /\ main # "start"
  /\ End("pipeline")

ServerNext ==
  /\ Running
  /\ \/ Main \/ Listen \/ ListenerReturns \/ Interrupt \/ PipelineFails
     \/ \E r \in Requests : Accept(r) \/ Serve(r) \/ Deliver(r)

ServerSpec == ServerInit /\ [][ServerNext]_serverVars

\* Goroutines are scheduled; the deadlines of the shutdown (5 s), of reading a request
\* (900 s) and of a post (15 s) end what could last.
FairServerSpec ==
  /\ ServerSpec
  /\ WF_serverVars(Running /\ Main)
  /\ WF_serverVars(Running /\ (Listen \/ ListenerReturns))
  /\ \A r \in Requests :
       /\ WF_serverVars(Running /\ Serve(r))
       /\ WF_serverVars(Running /\ Deliver(r))

------------------------------------------------------------------------------
\* The variables have their types; the process has ended in one of six ways exactly if
\* main is past its end (main.go:378-467).
ServerTypeOK ==
  /\ TypeOK
  /\ file \in Files
  /\ main \in MainPoints
  /\ listener \in ListenerPoints
  /\ osSignals \in 0 .. 1
  /\ interrupted \in BOOLEAN
  /\ cut \subseteq Requests
  /\ end \in Ends
  /\ end = "none" <=> Running

\* "Attempt the graceful shutdown by closing the listener and completing all inflight
\* requests" (main.go:444): unless the 5 seconds pass, no connection is broken, also not
\* that of a request accepted while the interrupt was on its way.
DrainedCompletely == end = "drained" => cut = {}

\* After the first interrupt the process ends, whichever requests hang, wherever main was
\* when the signal came, and though the listener may not have started yet
\* (main.go:432-465).
ExitsAfterInterrupt == interrupted ~> ~ Running

\* A request that is accepted is answered in the end, or cut off with the process
\* (handlers.go:70-84): its alert is given to the channel before anyone receives from it
\* and the channel may have no buffer.
EveryRequestAnswered ==
  \A r \in Requests : hpc[r] # "none" ~> responses[r] # <<>> \/ ~ Running

\* A request answered with 200 has its alert settled in the end, or lost with the process
\* (handlers.go:78).
AcceptedIsSettled ==
  \A r \in Requests :
    responses[r] # <<>> /\ Head(responses[r]) = Ok ~> outcome[r] \in Settled \cup {"lost"}

\* How far the process, and each request, have come.
Phase ==
  IF ~Running THEN "ended" ELSE IF ShuttingDown THEN "closing"
  ELSE IF main = "start" THEN "starting" ELSE "open"

Progress(r) ==
  IF hpc[r] = "none" THEN "none" ELSE IF sender[r] = "none" THEN "admitted" ELSE "accepted"

FirstStatus(r) == IF responses[r] = <<>> THEN 0 ELSE Head(responses[r])

Handling == INSTANCE RequestHandling WITH
  phase   <- Phase,
  request <- [r \in Requests |-> Progress(r)],
  status  <- [r \in Requests |-> FirstStatus(r)]

\* Through the handlers, their goroutines, the race of the listener with the shutdown and
\* the end of the process wherever it comes, the service handles requests as
\* RequestHandling says: none is admitted once the shutdown began, a 200 follows the
\* handover of the alert, and an alert has one outcome (main.go:415-466,
\* handlers.go:48-90, lib.go:85).
ImplementsHandling == Handling!Spec

==============================================================================
