# Verification of the alert service

TLA+ models of the RSP Controller alert service (`main.go`, `app/`, `pkg/`),
model-checked with TLC and proved about with TLAPS.

## 1. The system

| Component | State it keeps | Operations |
|---|---|---|
| Gateway status singleton, `app/models/GatewayStatus.go` | registration status, missed heartbeats, first and last time seen, last heartbeat; a mutex | one method per assignment or read, each under the mutex |
| Watchdog, `monitorHeartbeat` | a timer | every `watchdogSeconds`: if registered and silent, count a miss; at the limit deregister and alert, else alert |
| Heartbeat handling, `processHeartbeat` | none | store the heartbeat, register the gateway and alert if need be, forward the heartbeat |
| Notification channel, `app/alert` | a Go channel, a goroutine per notification | `NotifyChannel` posts one notification after the other to the cloud connector |
| Shipping notice check, `processShippingNotice` | none between notices | ask the product data service for the products, in batches; alert about the unknown ones |
| Event pipeline, `processEvents` | none | dispatch the first reading of an EdgeX event to the three above |
| REST endpoint, `app/routes/handlers` | a channel and a consumer per request | validate, hand over to a notification channel, answer |
| Configuration, `app/config` | the settings | `InitConfig` reads them one after the other and checks two of them |
| Start and shutdown, `main` | a channel for signals, a goroutine for the listener | read the configuration, serve requests, wait for an interrupt, close the HTTP server within 5 s, return |
| SGTIN-96, `pkg/sgtin96` | none | decode an EPC to a GTIN-14, a company prefix, an item filter; no part of the service calls it |

How they interact. The EdgeX SDK runs the pipeline, one invocation per event and
possibly several at once; heartbeats and the watchdog goroutine share the singleton,
and nothing is atomic across two of its methods. Every alert and every forwarded
heartbeat is handed to a new goroutine that sends it on the notification channel, so
the log of what was raised and the order of what is sent are two different things. One
consumer takes notifications out and posts them over HTTP with a 15 s timeout and no
retry. The EdgeX SDK, Go channels, the network, the cloud connector and the product
data service are outside the repository and are modelled by their contract.

What is hard: the steps of watchdog and handlers in any order; times read from the clock
before a lock is taken; a status and its alert that are two steps; a full channel; posts
that fail, or time out and arrive late; the end of the process at any moment; the batch
arithmetic of the notice check. `PROJECT.json` lists each hazard at its line.

What makes each component correct:

- supervision: a silent gateway is deregistered in time and a live one is not; each change
  of the status is told by exactly one alert; times and counters stay consistent;
- delivery: nothing is lost or duplicated inside the service, the posts that succeed keep the
  order of the sends, a notification reaches the cloud connector at most once, and each is
  settled whatever the connector does;
- notice check: every unknown product is reported, and no known one;
- endpoint: every request is answered, and the status tells what happened to its alert;
- process: it ends after an interrupt, and a shutdown that did not time out cuts no request
  off;
- SGTIN-96: what is decoded is what the standard's fields encode, everything else is refused.

## 2. Modules

| Module | Models | State and actions |
|---|---|---|
| `GatewayStatus` | the singleton | a record; each writing method an operator on it |
| `HeartbeatMonitor` | `main.go:77-177` | `gateway`, the clock `now`, program counters `wpc` (watchdog) and `hpc` (each handler), the watchdog's timer and the time it has read, each handler's event, `spawned`, the log of notifications given to a goroutine, and the history `overlapped`, whether a heartbeat has come in while another was handled. One action per call of a `gatewayStatus` method with the local code around it |
| `GatewayRegistration` | what supervision promises | the status, changes not yet told, changes told, and whether heartbeats were ever handled at once |
| `HeartbeatMonitor_proofs` | | theorems, see section 5 |
| `NotificationChannel` | `app/alert/lib.go:85-176`, `notification.go` | `starting` (goroutines before their send), `buffer` and `blocked` (the Go channel), `consumer` and `current` (`NotifyChannel`), `outcome`, the history `sent`, `inFlight` and `reached` (network) |
| `NotificationDelivery` | what sending promises | outcomes and how often each notification reached the cloud connector, without an order |
| `AlertMessage` | `models.Alert`, `models.AlertMessage`, `alert.ProcessAlert` | operators on records |
| `ShippingNotice` | `main.go:179-376`, `app/asn` | a notice, the configured batch size, the program counter, the batch start, the filter buffer as the set of the writes to it, the known and unknown products |
| `NoticeCheck` | what the check of a notice promises | the products, whether the notice is small, its state, what was reported and whether an alert was raised |
| `NotificationChannel_proofs`, `ShippingNotice_proofs` | | theorems, see section 5 |
| `AlertEndpoint` | `POST /alert/alertmessage`: `handlers.go:36-122`, `pkg/web`, `recover.go` | for each request its `body`, the handler's program counter `hpc` and `error`, the statuses written, the `notification` made of it, and the `sender` and `consumer` goroutines; one action per part of the handler up to its next response or `go` statement |
| `Configuration` | `config.InitConfig` | which configurations it accepts, an operator on the settings |
| `AlertServer` | `main.go:378-467` | the configuration `file`, program counters of `main` and of the goroutine that listens, the signals on their channel, requests cut off, how the process ended; one action per statement of `main` that another goroutine, a signal or the time can come between |
| `RequestHandling` | what the service promises of its requests | the phase of the process, and for each request how far it is, its status and what became of its alert |
| `AlertServer_proofs`, `AlertService_proofs`, `FullService_proofs`, `Sgtin96_proofs` | | theorems, see section 5 |
| `AlertService` | `main.go:494-609` and all of `HeartbeatMonitor` | the events that arrived, the invocations that check a notice, the number of alerts raised, and the outcome of every notification; `Arrive` is an invocation up to its dispatch, the other actions are those of the parts |
| `FullService` | `main.go:403-407`: the service with its channel | the variables of `AlertService` and of `NotificationChannel`, which share `outcome`, and of which `reaches` counts what `reached` lists; the steps of the pipeline and the watchdog, each with the goroutine it starts, those of the goroutines and the network, and the exit |
| `Sgtin96` | `pkg/sgtin96` | operators; bytes and integers are sets of bit positions. The state is an EPC as a reader reports it, and the actions are the errors it may make |
| `MC*` | | instances for TLC |

`HeartbeatMonitor` extends `GatewayStatus`; `ShippingNotice` and `AlertEndpoint` extend `AlertMessage`.
Three modules compose others. `AlertServer` extends `AlertEndpoint` and `Configuration`: its
steps are those of the requests and those of `main`, and the end of the process ends all of
them. `AlertService` extends `HeartbeatMonitor` with the pipeline that feeds it, and hands
everything that is raised to `NotificationDelivery`, the abstract specification, instead of
`NotificationChannel`. This is sound because the channel implements it
(`RefinesDelivery`), and it keeps the run short, for the states of the channel multiply those
of the monitor. `FullService` composes the two nevertheless, as a module
to prove about: it implements `AlertService` (`ImplementsService`), so that what TLC and TLAPS
show of the smaller specification is true of the whole program. It has no run of its own.
`HeartbeatMonitor` refines `GatewayRegistration`, and `NotificationChannel` refines
`NotificationDelivery`, fairness included; `ShippingNotice` refines `NoticeCheck`, and
`AlertServer` refines `RequestHandling`, in their safety. A definition whose comment begins with
"Mutant" is a deliberate bug next to the definition it replaces; no specification uses it.

Abstractions. A heartbeat is its device id, an alert its kind and device id; the text,
facilities and sending time of an alert are left out. A product id is a model value, a
query its position in the notice. A heartbeat or notice that does not parse returns before
it touches any state and has no step. The filter of the notice check is well-formed if it
was written once and holds no empty term; otherwise the product data service may reject it
or answer anything. Go doubles the capacity of a slice of strings as `append` grows it. A
request is known by what its validation tells apart: no `Content-Length`, unreadable,
refused by the schema, valid. In `AlertEndpoint` a post is a single step, for each request
has a channel and a consumer to itself; `NotificationChannel` has the steps of a post.

## 3. Runs

| Run | Question | Instance | Result |
|---|---|---|---|
| `monitor` | Does the watchdog's reading go stale, do misses outrun the clock, is every status change told, exactly once unless heartbeats overlap, are the times in order? | two handlers, one gateway, 3 heartbeats, clock to 5, limit 2 | holds |
| `monitor_race` | Is a gateway deregistered only at the limit? (`main.go:85`) | one handler, limit 1 | violated |
| `monitor_gateways` | Does every new gateway raise an alert? (`alert.go:39`) | two gateways | violated |
| `channel` | Lost, duplicated, unsettled notifications? Posts in another order than the sends? | 4 notifications, one without a destination, buffer of 1 | holds |
| `notice` | Are unknown products reported, and only those, by one verdict on the whole notice? Does every step bring it nearer to its end? | 3 products, 2 known, notices of up to 5 items, batch size 3, 0 or negative | holds |
| `notice_batch` | Is every notice checked if the service is up? (`Alert-service.yml:34`) | the same, batches of 3 | violated |
| `notice_alert` | Does the alert name the products? (`README.md:20-21`) | the same, batches of 3 | violated |
| `endpoint_failure` | Is a failed post reported to the client? (`route.go:85`) | 2 requests, 6 bodies each, no buffer | violated |
| `endpoint_twice` | Is every request answered once? (`route.go:97`) | the same | violated |
| `server` | Does the service answer every request or end, end after an interrupt, and drain? Does the status of an answer tell what was handed over? What do the clients see of all that? | 2 requests, 6 bodies each, no buffer, 7 configurations | holds |
| `service` | Does the first reading of an event decide alone, can the cloud tell the status, is a silent gateway noticed in time, is every heartbeat forwarded or settled otherwise? | two handlers, one gateway, 2 events out of 5, both destinations configured, period 1, limit 1, clock to 4, prompt threads | holds |
| `sgtin` | Do the decoders agree with reference definitions and the tests, and do errors of a reader show? | 21 EPCs, each as it is and with one error: any bit, any character, the length | holds |

Bounds and why they are enough. `MaxTime` and `MaxHeartbeats` end a behaviour of the
monitor. A clock to 5 with period 1 and limit 2 leaves room for a registration, two
misses, a deregistration and a registration again, with a heartbeat at every point in
between. Two handlers are the least that overlap; as `overlapped` is false until they do, the
same run has every behaviour in which heartbeats are handled one at a time, by either of them,
and checks for it what is true of such behaviours only: that the alerts told equal the changes,
and that the times are in order. One gateway is enough there, as all share one status; the
theorems hold for any number of gateways. Four notifications and a buffer of 1 give
a full buffer, two blocked senders and one being posted. Notices of 4 and 5 items in batches
of 3 are the two cases of the last batch, beyond the capacity (4) and within it (8); a
negative size panics at the first batch, and 0 makes the loop ask the same again forever.
Requests share no state but the process, two show what one may do while another is served;
their bodies take every path of the handler, and the configurations every outcome of
`InitConfig` and of the `make` behind it. In `service` the five events are one without
readings, an alert behind and before a heartbeat, a heartbeat behind a reading that does not
decode, and a notice; two of them with two handlers are the least in which one invocation
overtakes another, and a clock to 4 lets a gateway register, go silent and be deregistered.
The EPCs of `sgtin` are some of the repository's tests, the largest fields of each partition
and the least that exceed them. `MaxRaised` of `service` numbers the notifications of one kind;
two events and the watchdog raise no more than the 2 it allows: with limit 1 the first miss
deregisters. With both destinations a post may be got by the cloud connector, fail, or arrive
after it was given up, so that `HeartbeatsAreForwarded` meets every answer of the connector and
`CloudTellsStatus` every order of arrival, with and without overlapping heartbeats. Of the theorems of section 5 none has a bound.

The six violations are the findings in `PROJECT.json`:

- `monitor_race`: the watchdog compares the counter, a heartbeat arrives and clears it, the
  watchdog deregisters the gateway. `AlertsTellStatus` shows that the cloud is told so, and
  `GatewayRegistration` that the next heartbeat registers it again.
- `monitor_gateways`: one status serves all gateways, a second gateway is never announced.
- `notice_batch`: a last batch that is not full makes the slice exceed the capacity.
- `notice_alert`: the envelope of the alert is decoded as a bare alert, its content is lost.
  The same happens to a message received by the endpoint.
- `endpoint_failure`: the answer is sent as soon as the alert is on its way to the channel.
- `endpoint_twice`: a message that the schema refuses gets the list of errors with 400, and
  then, in the same response, the answer 500 to the error that the handler returns as well.

## 4. Fairness

`HeartbeatMonitor!FairSpec`: the clock, the watchdog and each handler are weakly fair, for
goroutines are scheduled and never blocked for good (a mutex is held for one assignment);
heartbeats need not arrive. `NotificationChannel!FairSpec`: each sender's goroutine runs up
to its send, and the consumer does not stop at a step it can take, in particular the
client's timeout ends a post. Nothing is assumed of the network, the cloud connector or the
interrupt. `ShippingNotice!FairSpec`: the invocation runs on, and the 15 s timeout of the
client ends every call. `AlertServer!FairServerSpec`:
`main` and the listener run on; `Shutdown` gives up after 5 s (`main.go:441`), a request is
read within 900 s or broken off (`main.go:416`), a post ends with the client's 15 s; an
interrupt need not come. `AlertService!FairServiceSpec`: invocations run on, a notice is
checked in the end and a notification settled, by the timeouts of the two HTTP clients; the
clock, the watchdog, events and the end of the process are not fair.

## 5. Proofs

`HeartbeatMonitor_proofs` proves, for every set of gateways and handlers, every watchdog
period and limit, 0 included, and without the bounds. The assumptions are those named in
the modules: the two settings are natural numbers, as `InitConfig` ensures, and the set of
handlers is finite.

- `TypeCorrect`: `[]TypeOK`.
- `ActsOnRegistered`: `[]WatchdogActsOnRegistered`, inductive with `TypeOK`: only the
  watchdog takes a gateway out of `Registered`.
- `MissesSpaced`: `[]MissesAreSpaced`. Not inductive: while the watchdog sleeps the next
  miss may be counted as soon as the timer fires, so `SpacingInv` measures the silence by
  the timer (`wakeAt`) then and by the clock otherwise, and allows one period more between
  the counting and the end of the iteration. `SeenInPast` keeps a heartbeat's time out of
  the future.
- `SeenOrdered`: `[]SeenTimesOrdered`, for any number of handlers; `OneAtATime` says that as
  long as nothing has overlapped at most one of them is at work, and `OrderInv` where its time
  lies at each of its steps.
- `AlertsMatchStatus`: `[]AlertsTellStatus`. Every step is one of five kinds (nothing,
  register, deregister, tell either), and each kind keeps the balance; `SerialInv`
  is needed for equality as long as heartbeats have been handled one at a time.
- `RefinesRegistration`: the same five kinds are the steps of `GatewayRegistration`.
- `SilenceDetected`: `[]DetectionDeadline` if threads are prompt. `PromptInv` says that the
  timer is never overdue, `DeadlineInv` what is left of the allowed silence at each step.
- `LoneGatewayAnnounced`: the violation of `monitor_gateways` needs a second gateway or two
  invocations at once; with one of each no heartbeat is forwarded before the alert that
  registers its gateway.

`NotificationChannel_proofs` proves, for every set of notifications, whichever of them have
a destination, and every size of the channel, with or without a buffer:

- `TypeCorrect`: `[]TypeOK`, with `BusyInv` (the consumer has a notification at hand exactly
  while it works on one), without which a post could send nothing.
- `OnePlace`, `InOrder` and `AtMostOnce`: `[]EachInOnePlace`, `[]PostedInOrder` and
  `[]ReachesAtMostOnce`, all from one inductive invariant `IInv` that
  follows a notification by its position in the history `sent`. `QueueInv`: what waits are
  the last positions, and senders block only while the buffer is full. `SentInv`: a
  notification is sent once. `PendingInv`: the consumer works on the last position taken, the
  later ones are pending, and nothing else is but what is starting. `NetworkInv`: what has
  left the service was taken, and is the current one only during the wait, hence a request
  leaves once. `OrderInv`, stronger than `PostedInOrder`: whatever arrives comes after all
  earlier positions that were posted; a late arrival of a failed one would otherwise go
  unnoticed until it mattered.
- `RefinesDelivery`: each step is one of `NotificationDelivery` or changes nothing it sees; a
  request in flight is not new, posted or dropped, so its arrival is a `Reach`. The
  order of arrivals is mapped to their number: since `reached` has no duplicates, a notification
  is in it once or never (`ReachesFacts`).

`ShippingNotice_proofs` proves, for every notice, every configured batch size, also one that
is not positive, and whatever the product data service answers:

- `TypeCorrect`: `[]TypeOK`.
- `UnknownReported`, `KnownNotReported`, `AllAsked` and `NeverUnchecked`, from one inductive
  invariant `IInv`. `LoopInv`: before each batch, and after the write of it, the positions up
  to `Written` are in the filter, and a batch size that is not positive never gets past the
  first batch. `FilterInv`: what is kept as known is known, without batches all of it, and
  what is reported is the rest. That no unknown product passes rests on `FilterInv` alone: it
  holds whatever the batches do.
- `NearerToTheEnd`: `ComesNearerToItsEnd`. `StepsLeft` counts two steps for each query
  that no batch has reached, and `LoopInv` keeps the start of a batch that is asked for
  below the last query, so that a batch of positive size lowers the count even if it ends past
  it, and a size that is not positive panics. With batch size 0 the measure stands still,
  which is why the property leaves it out. Under fairness `Returns` follows; that step stays
  with TLC.
- `RefinesCheck`: `ImplementsCheck`, which has no fairness and so is proved entirely. Before a
  verdict nothing is reported and nothing posted (`StageInv`); the verdict is the `Filter`
  step, and `FilterInv` makes it one that `NoticeCheck` allows.

`AlertServer_proofs` proves, for every set of requests, every channel size and every set of
configurations:

- `ServerTypeCorrect`: `[]ServerTypeOK`. A step of the server does to the requests one of
  three things (`ServerSteps`): nothing, what the end of the process does, or a step of
  `AlertEndpoint`; every proof about the requests splits on these.
- `StatusTells`, and `OthersAnsweredOnce` (the violation of `endpoint_twice` needs a request that
  the schema refuses; every other one is answered once), from `PathInv`: at each point of a handler, what
  has been written, whether the alert is on its way, and which body leads there.
- `DrainsCompletely`: `[]DrainedCompletely`. `DrainInv` adds that nothing serves the port once
  `Shutdown` was called, so that no request becomes active between the end of the wait and the
  return of the listener.
- `RefinesHandling`: `ImplementsHandling`, entirely. The phase follows from `main` and the
  listener, and the race of the two at the shutdown is hidden by `DrainInv`: a connection is
  never accepted once the service is closing. `SettleInv` adds to `PathInv` that an alert has no
  outcome before it was handed over and one at most afterwards, for its consumer is done when
  it has settled it.

`AlertService_proofs` proves, for every set of events, any number of overlapping invocations,
with or without the two destinations, and whatever order notifications arrive in:

- `ServiceRunsMonitor` and `ServiceRunsDelivery`: every step of the service is one of
  `HeartbeatMonitor`, or leaves its variables alone, and likewise of `NotificationDelivery`. So
  the theorems about the monitor hold of the service: `ServiceRefinesRegistration` and
  `ServiceDetectsSilence` are two of them.
- `ServiceTypeCorrect`: `[]ServiceTypeOK`; a handler that is at work has a heartbeat with its
  device, for it got there from a reading that was decoded and keeps it until it is idle.
- `FirstReadingRules`: `[]FirstReadingDecides`. The property compares what has arrived with
  what was raised; each step changes five numbers (heartbeats, device alerts, notices, alerts,
  checks that run) by the amounts of one of a few kinds (`DecidesStep`), and each kind keeps
  the balance. The invocations between arrival and forwarding are counted as a finite set.
- `CloudKnowsStatus`: `[]CloudTellsStatus`, from `NumberedInv` (a notification is new exactly
  if its number was not raised yet), `ReachedInv` (what reached the cloud was accepted, and only
  once) and the balance of `AlertsMatchStatus`: when everything is posted, the cloud has as many
  alerts of each kind as the log, hence the difference that tells the status.

`FullService_proofs` proves of the whole service, channel included, from the assumptions of its
parts and that the size of the channel is a natural number (`make` panics on a negative one
before anything is raised, the second disjunct of `Start`):

- `ServiceRunsChannel`: each of its steps is one of `NotificationChannel` or is not seen by the
  channel. Hence `IInv` of the channel, and all theorems about it, hold in the service.
  `CountsInv` adds that `reaches` counts what `reached` lists.
- `ImplementsService`: each of its steps is one of `AlertService` or is not seen by it. It needs
  `IInv`: a request that arrives must be one the delivery may let reach the cloud
  (`ArrivalRefines`), and the consumer gives up just the notifications without a destination
  (`ConsumerRefines`). What the pipeline raises is accepted by the delivery and starts a
  goroutine in the same step.
- `FirstReadingRulesInFull`, `CloudKnowsStatusInFull`: two theorems about `AlertService` carried
  over; the others follow in the same way.

`Sgtin96_proofs` proves, for every sequence of characters as an EPC, not only for those of the
run, and for all seven partitions:

- `GtinsAreValid`: `[]GtinIsValid`; `GtinsRoundTrip`: `[]RoundTrip`; `RefusesNothingElse`:
  `[]RefusesExactly`; `BitErrorsAreTold`: `BitErrorsTell`, for each of the 96 bits.
- `ReportsAreText`: the type invariant of the reader, on which the last two rest.

The argument has four layers. Numbers: a number of 13 digits is a pair (`Low` splits it),
`Amount` is its value, and doubling, halving and multiplying by ten do what they should.
Conversions: the value of `Leading`, `Reading` and `Halves` after each step, hence printing and
reading back is the identity on numbers that fit (`PrintedReads`), and the comparison of the
leading digits with 0 is the comparison with a power of ten (`BelowPowerExact`), which
`NumberComparison` reduces to the first bit in which two numbers differ. Bits: a byte under a
mask and a shift is a run of bits of the EPC (`MaskedRun`), and the runs of each partition join
to its two fields (`CompanyPrefixBits`, `ItemReferenceBits`). Digits: head, prefix and tail are
found again where they were put (`Arrangement`), and the check digit completes the sum
(`CheckDigit`). The induction theorems of the library take an operator, which the provers
cannot instantiate; `SetInduction` and `Iteration` replace them: a *set* of indices that holds 0
and is closed under successor holds all of them, by the least element of its complement. For
this the conversions are recursive functions and not folds.

Only model-checked: liveness, for fairness is out of the prover's reach
(`ImplementsRegistration` and `ImplementsDelivery` in that part, `Returns`,
`ExitsAfterInterrupt`, `EveryRequestAnswered`, `AcceptedIsSettled`,
`HeartbeatsAreForwarded`); and `AgreesWithTests`, which computes the repository's own examples
and has nothing to generalise.

## 6. Not modelled, and the plan

1. Done: `GatewayStatus`, `HeartbeatMonitor`, `GatewayRegistration`; `NotificationChannel`,
   `NotificationDelivery`; `AlertMessage`, `ShippingNotice`; `AlertEndpoint`, `Configuration`,
   `AlertServer`; `AlertService`; `Sgtin96`; proofs about the monitor, the channel,
   the notice check, the server, the service and the decoders. Every safety invariant and
   action property of a passing run is a theorem, but for `AgreesWithTests`.
2. Done: the abstract specifications `NoticeCheck` and `RequestHandling` and the proofs that
   they are implemented; the safety behind the termination of the notice check, as a measure that
   every step lowers. The shutdown has no such property: `main` runs through its statements in
   order, and the measure would say no more than that.
3. Done: `FullService`, `NotificationChannel` in the place of `NotificationDelivery` within the
   service, and the proof that the substitution adds nothing.
4. Open: the liveness properties, which need a prover for fairness; and `FullService` as a run.
   On the instance of `service`, with a buffer of 1 and no destination for heartbeats, TLC visits
   7 million states of it, in which
   the service's invariants and the implementation of `ServiceSpec` hold, but that takes too long
   to be repeated with every change.

Two observations that no text of the repository contradicts. Alerts may reach the cloud
in another order than they were raised, for each has a goroutine of its own;
`CloudTellsStatus` says what the cloud can conclude nevertheless. Every request leaves behind
a goroutine that waits for another notification forever.

Left out: metrics and logging, on which no decision depends; the authentication data added to
a payload; the JSON schema of an alert message, which a library applies (the endpoint has its
three outcomes); the error returns of the endpoint behind a conversion that cannot fail; `GET
/`, which has no state; the package that reads the configuration file, external.
