# message-broker-service in TLA+

An HTTP gateway takes events (`POST /api/v1/publish`), checks them and publishes
them to one message broker: RabbitMQ, Kafka or Azure Service Bus. This directory
models that program, checks the models with TLC and proves the most important
properties with TLAPS. `PROJECT.json` lists the components, the runs, the mutants
each property must detect, the lines every definition stands for, the findings,
the hazards and the theorems.

## 1. The system

| Component | State it keeps | Operations |
|---|---|---|
| RabbitMQ adapter (`internal/broker/adapters/rabbitmq.go`) | `conn`, `channel`, `connected` under `mu`; `stats` under `stats.mu` | Connect, Disconnect, Publish, Subscribe, IsHealthy, GetStats, the goroutine `handleConnectionErrors` |
| Kafka adapter (`kafka.go`) | `writer`, `reader`, `connected` under `mu`; `stats` | the same, with a writer that retries and a consumer loop |
| Azure adapter (`azure_service_bus.go`) | `client`, `sender`, `receiver`, `connected` under `mu`; `stats` | the same, with a receive loop that completes or abandons |
| Broker interface, `Manager` (`broker.go`) | which adapter | passes every call on, adds a span |
| Handlers (`handlers.go`) | none | Publish, Health, Stats |
| Server (`server.go`) | the limiter's entries | New, Start, Shutdown, order of the middleware, routes, error handler |
| Middleware (`auth.go`, `logger.go`, `tracing.go`) | one span per request | API key, request log, tracing |
| Message model (`message.go`, `errors.go`) | none | NewMessage, Validate, JSON |
| Process (`cmd/server/main.go`) | none | load, check, connect, serve, wait for a signal, shut down |
| Configuration (`config.go`), dependency check (`dependency_checker.go`), logger (`logger.go`) | the configuration | Load, Validate, CheckDependencies, New: sequential start-up code |
| Tracing (`tracing/tracing.go`) | the global tracer provider, with spans not yet sent | InitTracing, Shutdown |

**How they interact.** fasthttp runs each request in a goroutine of its own. A
request goes through the middleware to a handler, which calls `Manager`, which
calls the adapter; so publishes, health and stats requests meet in one adapter
and its two read-write locks. `Connect` leaves a goroutine behind that watches
the connection and clears `connected`. `main` connects before the server listens
and disconnects after `ShutdownWithContext`, whether or not requests are still
running. `Subscribe`, which the adapters offer and the service does not call yet,
leaves a goroutine behind that takes events from the client library and gives them
to a handler. The client libraries run goroutines of their own. The process
persists nothing; what survives it is with the broker: queues, a group's offset,
locked events.

**What is hard.** The order of those goroutines around the locks: a publish
copies the channel (or writer) under the read lock and uses it outside; the
watcher registers after Connect has returned; GetStats takes `mu` inside
`stats.mu` while Disconnect holds `mu` across network calls. Then failures in the
middle of an operation, the gap between what a client is told and what the broker
has, the second at which the limiter's window turns, and the order in which
middleware reads a status that the error handler sets last. On the consuming side:
who still has an event when a channel, a reader, a lock, a context or the process
ends, also between the fetch and the commit that `ReadMessage` consists of, and what
a group gets again when a reader loses its partition. In the process: a signal at any
point, a deadline that passes with requests in flight, request contexts that the
shutdown ends, `log.Fatal` in one goroutine while another shuts down. `hazards` in
`PROJECT.json` has them, each at its line.

**What makes each part correct.** An adapter: answers nil only for a message it
handed over, refuses without handing over, counts every call once, leaves no
connection behind, is silent after Disconnect, never blocks a request for ever,
notices a loss. The gateway: tells the client the truth, lets only admitted and
authorised requests reach the broker, keeps the correlation ID, forwards valid
messages only, limits exactly, answers every request. A subscription: loses no
event but where its broker's protocol lets it, lets no bad event block the others;
RabbitMQ's offers events in order and ends with its channel, Azure's ends with its
context, Kafka's gives an event to a handler at most once for each time its partition
is assigned (and ends with the process only, see section 4). The process: serves only
with a configuration its parts can work with, spares requests in flight (but for the
publishes of section 4), leaves nothing connected and no span unsent, ends after a
signal.

## 2. The modules

| Module | Stands for |
|---|---|
| `RWMutex` | `sync.RWMutex` as operators on a lock value. `Lock` is two steps: announce (new readers wait from then on) and enter (the old readers have left). External. |
| `PublishContract` | what `Broker.Publish` promises, whatever the adapter: the abstract specification |
| `RabbitMQAdapter`, `RabbitMQConsumer` | `rabbitmq.go`: everything but Subscribe; Subscribe and its goroutine |
| `KafkaAdapter`, `KafkaConsumer` | `kafka.go`, split the same way |
| `AzureServiceBusAdapter` | `azure_service_bus.go`, all of it |
| `RequestPipeline` | a request through `server.go`, the middleware, `handlers.go`, and back; it uses `PublishContract` in place of the broker |
| `Configuration` | `config.go`, `dependency_checker.go` and what the manager, the logger and the server make of a configuration; operators only |
| `ServiceLifecycle` | `main.go`, New, Start and Shutdown of `server.go`, the tracer; it EXTENDS `Configuration` |
| `MC...` | sets, symmetries and the restrictions of section 3 for TLC |
| `RWMutexProofs`, `RabbitMQAdapterProofs`, `RabbitMQConsumerProofs`, `KafkaAdapterProofs`, `KafkaConsumerProofs`, `AzureServiceBusAdapterProofs`, `RequestPipelineProofs`, `ServiceLifecycleProofs` | theorems |

The contract is the joint: `RequestPipeline` is checked and proved against
`PublishContract`, and all three adapters are shown to implement it
(`PublishContractHolds`, with a refinement mapping from a call's position and
result, and from what was written). `PublishContract` allows a message to arrive
after its call has answered an error, as Kafka's writer does, and never after it
was refused or before it was answered nil.

### RabbitMQAdapter

A step runs from one blocking point of a goroutine to the next. `conn`,
`channel`, `connected`, `mu`, `published`, `failed`, `statsMu` are the fields of
the adapter; `mainPc`, `callPc`, `probePc`, `watchPc` say where the owner, each
publish, each health or stats request and each watcher are; `snapshot`, `loaded`,
`dialled`, `watched` are their locals. `connState` and `chanState` are the
library's objects: a channel is named after its connection because Connect opens
one per connection. `handed` is the set of calls whose message was written to a
channel. `ConnectionLost` and `ChannelLost` may come at any time. The increment
of a counter is a load and a store, so that the lock has something to protect.
A watcher whose connection is gone before it registers gets nil at once, as
`NotifyClose` of a closed connection does. `Reconnects` tells the service, which
connects once, from an owner that connects again when the flag is down.

Validation failing and marshalling failing are one action (`PublishReject`), since
both count a failure and answer an error. Spans, logs, headers and
`LastPublishedAt` are left out.

### KafkaAdapter

As above, with the critical sections of Publish and IsHealthy as one step each
(nothing blocks in them) and the counter's increment as one step. The writer is
the library's: `WriterAttempt` may store a message and lose the acknowledgement,
so `copies` can grow beyond 1, and tries up to `MaxAttempts` times;
`PublishContextEnds` gives up on a message the writer still has; `writer.Close`
returns when nothing is waiting or queued. That last point and the retries are
taken from the documented behaviour of the library. `brokerUp` is the cluster.
What GetStats shows is left out; its two locks are not.

### RabbitMQConsumer

A subscription is a queue of its own on the adapter's one channel. `subPc` is where
Subscribe is, `loop` and `hand` where its goroutine is and the event it works on,
`queue` and `buffer` what the server and the library hold for it. Settle is the end
of each of the loop's three branches: Ack, Nack without and with requeue. A request
the server rejects closes the channel for every subscription; a channel may also be
lost, or go with Disconnect, at any point. The queue is auto-delete, so its events
go with its consumer. An event put back gets its old place. Reconnecting is not
here: a subscription does not survive it.

### KafkaConsumer

`reader` is the adapter's field, which the goroutines read anew in every round
(`using` is what they got); `open` are the readers nobody has closed, `owner` the
one that has the partition, `position` how far it has fetched, `buffer` what each
reader has fetched, `marked` what each is to commit, `committed` the group's offset.

ReadMessage is two steps of the library and two of the model: `FetchMessage` takes an
event out of the reader's buffer, `CommitMessages` marks it for the reader's periodic
commit, and only then the handler has it. Between the two another goroutine may use
the reader, Disconnect may close it, the context may end: then `CommitFails`, the loop
goes on, and nobody has the event. A closed reader still hands out what it had fetched
and takes marks that it never commits.

kafka-go v0.4.47 wraps the errors of ReadMessage (`fetching message: %w`, `committing
message: %w`). An error is therefore a chain here, and `AfterError` compares it with
`context.Canceled` as `kafka.go:197` does: the comparison never holds, and the
goroutine loops until the process ends.

`GenerationEnds` takes the partition away from its owner, for any reason a group has;
`Assign` gives it to any open reader, the last owner included, which goes on at the
group's offset, or at the end of the partition when there is none; `AssignNothing` is
a reader that gets nothing. A reader commits once more when its generation ends or it
is closed, and that may fail (`LastCommit`). Marks are kept per reader, not per
partition, so a late one may take the group's offset back. Restart ends the process at
any point and starts it again with what the cluster has.

Four variables are history: `first` (where the group began), `due` (how often an event
was assigned as still ahead, less how often a handler got it), `finished` (what handlers
have returned from) and `cut` (what a goroutine had taken when its process, reader or
context ended). `Failing` are the events the handlers fail for.

### AzureServiceBusAdapter

The publishing side is built as in the other adapters. Connect speaks to nobody, so
it may succeed without a network; Disconnect closes sender, receiver and client in
that order inside `mu`. A subscription's `loop` has a step for each call of the
library; `batch` is what is left of ReceiveMessages' answer, as a set, since the loop
takes its events oldest first (`OnTurn`). The broker's peek-lock
protocol is `state`, `holder` and `deliveries` of each event: an event is locked for
a receiver until it is completed or abandoned or `LockExpires`; settling needs the
lock, an open receiver and a context that has not ended, and may fail anyway.

### RequestPipeline

`pc` is where a request is: before the limiter, at the routes, in the broker, on
the way out. `input` is what it contains, as far as the gateway can tell: route,
key, form, which fields are given. `response` and `error` are the status set and
the error returned up the chain; `logged`, `traced`, `sent` are the three places
a status ends in, in the order in which they are read. `hits` and `exp` are the
limiter's entry for an address, `now` its clock in seconds; `verdict` is history.
`outcome` and `handed` are the contract's. 405 is counted with 404: the router
returns both as an error.

### Configuration and ServiceLifecycle

An environment is a record; a number, truth value or duration is `<<x>>` when its
text can be parsed and `<<>>` when it cannot or is unset, which is all `getEnvInt`
and its like tell apart. `Load` and `Validate` follow the code field by field.
`ServiceLifecycle` starts with any of `Environments`. `mainPc` goes through main's
steps; `serverPc` is the goroutine that calls Start, `listener` what it listens on.
`Ends` is the end of the process, by return, by `log.Fatal` or by a signal before
`Notify`; it cuts the requests in flight. A request asks the adapter once: the rest
of its way is `RequestPipeline`. `late` remembers that Shutdown found no listener to
stop. fasthttp's ShutdownWithContext closes the listeners and then the channel behind
every request's context; with tracing on, that context is what Publish gets, and the
Kafka and the Azure client heed it (`PublishHeedsServer`; amqp091 ignores it).
`PublishAborted` ends such a publish any time after the listener is closed; `aborted`
are the requests it happened to, which are answered with a failure. Spans are kept (`ended`), sent (`exported`), or given up by an exporter that
does not come through.

## 3. The runs

| Run | Shows | Bounds |
|---|---|---|
| `rabbit_service` | TypeOK, CountersExact, StatsFromOneInstant, NoOrphanConnection, SilentWhenDisconnected, PublishContractHolds, EverybodyReturns, WatchedLossIsNoticed | 2 publishes, 1 probe, 1 connection |
| `rabbit_healthy_no_channel` | finding: HealthyCanPublish fails | 1 publish, 1 connection |
| `rabbit_consumer` | NothingVanishes, HandledAtMostOnce, OfferedInOrder, PoisonStarvesNobody, GoroutineEnds | 2 subscriptions, 3 events (one poisonous, one malformed), 1 other failure of each handler |
| `kafka_service` | CountersExact, SilentWhenDisconnected, PublishContractHolds, EverybodyReturns | 2 publishes, 1 probe, 1 writer, 2 attempts (the code has 3) |
| `kafka_consumer` | LostOnlyInHand, GivenOncePerAssignment, EveryEventOffered | 3 events (one malformed, one the handlers fail for); 1 subscription with up to 1 restart and 2 rebalances, or 2 subscriptions with 1 of either |
| `kafka_not_retried` | finding: HandlerErrorRetried fails | the same events, 2 subscriptions, 1 restart, 1 rebalance |
| `azure_service` | CountersExact, AcceptedOnceUnlessExpired, SilentWhenDisconnected, PublishContractHolds, EveryEventSettled, CancelEnds, EverybodyReturns | 2 publishes, 1 probe, 1 subscription, 2 events (one malformed), batches of 2, 2 deliveries |
| `gateway_content` | TypeOK, ForwardedIsValid, SpanFailsWithAnswer | 1 request, all bodies and all routes with all keys |
| `gateway_traffic` | AnswerTellsTruth, OnlyAdmittedIsPublished, LimiterExact, EveryRequestAnswered | 2 requests of any kind or 4 alike, 2 addresses, allowance 1, 2 seconds |
| `gateway_year_one` | finding: OmittedTimestampIsNow fails | 1 request |
| `service_lifecycle` | ServesOnlyUsable, ShutdownSparesRequests, CleanExit, FatalSparesShutdown, EndsAfterSignal | 202 environments, 2 requests |
| `shutdown_aborts_traced` | finding: ShutdownLetsPublishesFinish fails | the same |

The type invariant of every component's module is a theorem, too, whether a run
checks it or not.

**Why the bounds are enough.** A lost update takes two publishes; a wait cycle
through the two locks takes an owner, a publish and a probe; one connection is what
the service has. A retry after a stored message takes two attempts. The safety
properties of the three adapters are proved for any number of calls. Two
subscriptions are what it takes for one to close the other's channel, or to take
over its reader; three events are what it takes for one to be skipped, swapped or
blocked between two others; what one restart or rebalance loses another loses the same
way, since all it finds is the group's offset, and the theorems about the Kafka
consumer hold for any number of them. EveryEventOffered speaks of a subscription that
stands alone, so it is for one reader that `FewBreaks` allows two rebalances, one that
takes the partition back and one in the middle of what is read again, beside a restart. In `azure_service` two
deliveries make a limit that can be reached, and a batch of two has a rest whose
locks run while its first event is handled; publishing and receiving share only
`mu` and what Disconnect closes, so `OneSideSpec` explores behaviours in which
either events arrive or publishes and stats requests are made, beside the owner and
Subscribe. A request meets another one only in the limiter and in the broker; the
limiter needs more requests than twice its allowance, two addresses and a second
that ends. What a request contains matters to nobody else, so content is explored
with one request, and `gateway_traffic` has two requests that end in different places or
more that are alike (`TwoOrAlike`, numbered as they are received: `InTurn`). The state
constraints `TwoOrAlike`, `InTurn` and `FewBreaks` keep out a request, a subscription, a
restart or the end of a generation, which no fairness asks for, and never a step that is
fair: what is checked of liveness is not weakened. The environments of `service_lifecycle` differ in up to two
variables from one that sets only the API key; a check in Validate depends on at
most two. The names of the bounds: `Calls`, `Probes`, `Conns`, `Writers`,
`MaxAttempts`, `Subs`, `LastEvent`, `MaxFailures`, `MaxReaders`, `MaxRestarts`, `MaxRebalances`,
`BatchSize`, `MaxDeliveries`, `Requests`, `Clients`, `Horizon`, `Environments`.

**Deadlock** is checked in `rabbit_service` and `kafka_service` (the owner can always
call Disconnect, so this says that the locks never stop the owner). The other runs
switch it off because their system comes to an end: events, requests and
subscriptions are used up, the process exits.

**Fairness.** In the adapters each goroutine that can run does (strong fairness
per goroutine, since a lock is free only between its holders): Go's scheduler is
fair, and `sync.RWMutex` neither lets readers starve a waiting writer nor writers
the readers that waited for them. An attempt of Kafka's writer ends because its
network calls have deadlines. Nobody has to call anything, nothing has to break, a
context need not end, a lost cluster need not come back. Of the consumers: handlers
return, the broker delivers what it has, Kafka's partition is assigned and fetched, a
lock on an event runs out, receiving does not fail for ever on an open link. That the
generations of a Kafka group stop ending is their bound's doing: a group that never
comes to rest promises nothing. Nobody has to commit. Azure's library does not promise
that a receiver that is closed answers with the end of the context, so `CancelEnds`
excepts that case. In the gateway a received
request is worked on and the broker answers; that it does is what
`EverybodyReturns` shows of each adapter. In the process main runs, its deadline
passes and the goroutine that listens gets to run; no request has to be answered.

## 4. Findings

- `rabbit_healthy_no_channel`: after a channel exception the adapter is healthy
  and every publish fails, until a restart.
- `gateway_year_one`: an event without a timestamp is published in the year 1.
- `kafka_not_retried`: an event whose handler failed is committed and never comes
  again, against the comment at `kafka.go:214`.
- `shutdown_aborts_traced`: with tracing on, the shutdown that `server.go:79` calls
  graceful makes a Kafka or Azure publish fail that is under way, while there is time
  to finish it; the client is answered 500, and the message may still arrive.

Seen in the models and plain from the code, without a run of their own:

- A connection lost before the watcher has registered is never noticed by it
  (`rabbitmq.go:337`); `WatchedLossIsNoticed` therefore speaks of watched losses.
- An Ack or Nack on a channel that has closed is ignored (`rabbitmq.go:307`). The model
  has the channel go, its queue with it, and nobody reconnect, so `HandledAtMostOnce`
  speaks of events while the channel is open.
- An old watcher takes down the flag of a new connection, which Disconnect then
  leaves open. Only an owner that reconnects meets it (`Reconnects`); the service
  does not, and the theorems about connections assume so.
- The loop of a Kafka subscription never ends. `kafka.go:197` compares an error that
  the library has wrapped, so after the context has ended, or after Disconnect, every
  round fails at once, is logged, and another begins: the goroutine spins until the
  process ends. No document of the repository says when it should end.
- An event is lost when a reader is closed between fetch and commit while another
  goroutine commits past it. LostOnlyInHand shows that this, a crash with the event in
  hand and an event nobody can parse are the only ways the offset passes one.
- A late mark of a reader that has lost its partition takes the group's offset back,
  and events come again.
- IsHealthy of the Kafka adapter cannot notice a loss; Connect of the Azure adapter
  succeeds without a network.
- A 404 is traced, and logged, as 200; the span is marked as failed all the same.
- The dependency check looks at the configuration only, and after Validate it has
  nothing left to find (`CheckFindsNothing`, proved).
- A graceful shutdown (README of the repository) is not graceful for a signal before
  `Notify`, for a listener that comes after Shutdown, or when accepting fails and
  `log.Fatal` skips what is deferred.
- The unit in MAX_REQUEST_SIZE is ignored; numbers, truth values and durations that
  cannot be parsed silently become the default; `KAFKA_BROKERS=","` passes as two
  brokers without names.
- The repository's README shows an `Authorization` header where `auth.go` reads
  `X-API-Key`; a test says that a correlation ID is generated where none is given,
  and none is; a health response asks the adapter twice and can contradict itself.
- Kafka's writer.Stats() resets what it returns, so that two readers of the stats
  take numbers from each other.

## 5. The proofs

All theorems hold for every value of the constants that satisfies the named
assumptions: the sets of goroutines are disjoint and `Calls` is finite (adapters),
`MaxAttempts` is positive (Kafka), `Max` is positive, the switches are Booleans,
`Inputs` are inputs, `Nothing` is no message (`RequestPipeline`), the bounds are
numbers and malformed and failing events are events (the consumers; Azure's batch size
and limit of deliveries are positive), a list of brokers is a list (`ServiceLifecycle`). Validate
in `config.go` guarantees the one about `Max`, which is what `ServesOnlyTheUsable`
proves.

Every invariant and action property that a passing run checks is stated by one of
these theorems; the run shows it on a small instance and a mutant shows what breaks it.

**RWMutexProofs** has what the lock operators do to a lock value, cited by the
adapters' proofs.

**RabbitMQAdapterProofs.** `IInv` is inductive: types, and four facts. While a call
is loading or storing a counter, `stats.mu` is announced by that call, and while it
stores or a probe reads there is no one else inside (`StatsMuHeld`); a call's
result and copy fit its position (`CallProgress`); the loaded value is the current
counter (`LoadedCurrent`); the counters are exact and a probe's copy is current.
CountersExact alone is not inductive: a store is right only because what was loaded
is still current, which is so only because the lock is held. From `IInv` follow
`TypeCorrect`, `CountersAreExact`, `StatsAreFromOneInstant` and
`KeepsPublishContract`, in which each action is mapped to a step of the contract
or to a stutter.

`CInv` is inductive when the owner does not reconnect: who holds `mu`
(`MuHeld`), that `conn` and `channel` are set once and together
(`FieldsSetOnce`), that only the connection being dialled or the adapter's own can
be open (`NothingElseOpen`), and that only the adapter's own connection has a
watcher (`OneWatcher`). The last is what fails with reconnection. From it follow
`NoConnectionOrphaned` and `NothingSentAfterDisconnect`.

`LocksNeverCycle` is about the two locks and assumes nothing of the owner: who has
announced itself at `mu` and at `stats.mu`, and who has read-locked either, is known
from where the goroutines are (`LockInv`), so that whoever holds a lock can go on, or
waits inside `stats.mu` for somebody at `mu` who can. It is the safety half of
`EverybodyReturns`: that those who can go on do is fairness, and stays with TLC. The
other two adapters have theorems of the same kind, `KafkaLocksNeverCycle`, where the
owner also waits for the writer, inside `mu`, and `AzureLocksNeverCycle`, where
Subscribe is one more that locks `mu`.

**RabbitMQConsumerProofs.** `IInv` is inductive: types, and for each subscription that
an event is in one place at a time and came through the exchange (`Placed`), what the
goroutine's place says of the event in its hand (`Progress`), and that before an event
in the buffer there is every older one that is new (`NoGap`). NothingVanishes (`Kept`)
is not inductive without `Placed`: an event that was delivered twice could be settled
and waiting at once, and OfferedInOrder (`InOrder`) is not without `NoGap`: that all
older events have been offered when the first of the buffer is taken is known only from
how the buffer was filled. What is put back gets its old place, which `NoGap` allows for
by asking about new events only.

**KafkaAdapterProofs.** `KInv`: types, how far a message is with the writer for each
place of its call (`MessageProgress`: an answer of nil only for a message that has a
copy, a refusal only for one the writer never got), the counters. A delivery after an
error is a step of the contract, not a violation of it. `KafkaSilentAfterDisconnect`
needs a second invariant (`OneWriter`): without reconnecting there is one writer, and
when Disconnect has returned it is closed with nothing waiting or queued.

**AzureServiceBusAdapterProofs.** `AInv`: the types of the publishing side,
`MessageProgress`, the counters, and that the sender is open only while the flag is
up and Disconnect has not closed it yet (`SenderFollowsFlag`). The steps that neither the owner
nor a publish takes are shown once to leave all of this alone (`StepKinds`).

AcceptedOnceUnlessExpired is about history, and no step sees how often an event was
accepted before. `EInv` is a balance: acceptances, and batches that may still accept the event, are
together no more than the locks that have run out and the one that stands or has ended
with the completion (`OncePerLock`). It needs that a goroutine has a batch only while it
handles one (`BatchFollowsLoop`), that who holds an event has it locked
(`HeldIsLocked`), and that only what was accepted is completed
(`CompletesTheAccepted`).

**KafkaConsumerProofs.** `SInv` has the types, what the place of a goroutine says of
its event and its reader (`Goroutines`), and that a buffer is in the partition's order
and not ahead of its owner (`Buffers`); from it follows `TypeCorrect`.

LostOnlyInHand is about what is committed; what is committed was marked earlier, what
is marked was fetched before that, and by then the goroutines have moved on. `CInv`
adds to `SInv` that everything before a commit, a mark or an event between fetch and
commit is accounted for - handled, malformed, in a goroutine's hand, or cut from it
(`Marks`) - and that before an event a reader has fetched there is none that is neither
accounted for nor fetched by that reader (`NoGap`). So the next event taken extends what
is accounted for by one, whichever of the goroutines that share the reader takes it,
and a partition that comes back goes on at an offset with nothing missing before it. With
it (`OffsetPassesOnlyTheOffered`) the offset passes no other event, for any number of
events, subscriptions, restarts and rebalances.

GivenOncePerAssignment is a balance, too: the readers that have an event fetched, the
goroutines that have it between fetch and commit, and the owner that is still to fetch
it are together no more than what is due (`Balance`). Fetching moves an event from ahead
to a buffer, FetchMessage from a buffer to a hand, CommitMessages gives it out and
takes one off what is due; only Assign adds, to both sides.

**RequestPipelineProofs.** `GInv` says of each request what its position, the
limiter's verdict, the contract's outcome and the status so far have to do with
each other. AnswerTellsTruth speaks of finished requests only, so the invariant
says it of the code a request *will* be answered with (`ToldTheTruth`), of what a
request that asked the broker had passed (`Asked`), and of a request that did not
(`NotAsked`). From it follow `AnswersAreTrue`, `OnlyTheAdmittedReachTheBroker`,
`ForwardedMessagesAreValid`, `CorrelationIsKept` and `PipelineTypeCorrect`.
`SpansFailWithAnswers` needs that the one error a handler returns is a failure and
that a request under way has no span yet (`SpanInv`).

`LimiterIsExact`: LimiterExact is about every second there was, the limiter's
entry about the present one. `LimiterInv` says that an entry that runs counts everyone
judged in this second (`HitsCount`), that one that has ended counts nobody of it
(`StaleIsEmpty`), that nobody is judged in the future (`JudgedOnce`), and that all
windows are exact (`WindowsExact`). The set of requests may be infinite: those
admitted in a second are shown to be finite along the way.

`GatewayKeepsContract` is the other side of the refinement the adapters are shown to
keep: the gateway's steps are steps of `PublishContract`, so it asks once for a
request and never behind the adapter's back. `AnswersStay` is what a client can rely on
afterwards: neither the answer nor what the broker has of the message changes, but for
a late delivery behind an error.

**ServiceLifecycleProofs.** `LInv`: types, that what main has prepared is what a valid
configuration makes of it (`Prepared`), how listener and goroutine go together
(`Listening`), that requests are turned away or cut only after the deadline, a late
listener or a failure, and publishes aborted only once the listener is closed and only
those that have its context (`Spared`), and what is true of each way to end (`Ended`).

**Only model-checked.** Liveness, which the prover cannot do: EverybodyReturns,
WatchedLossIsNoticed, PoisonStarvesNobody, GoroutineEnds, EveryEventOffered, CancelEnds,
EveryEventSettled, EveryRequestAnswered, EndsAfterSignal (CancelEnds is Azure's). What
the four runs with a violation show is a counterexample and needs no proof.

## 6. What is not modelled, and the plan

Left out for good: the text of logs and spans, JSON, headers, the logger's output, the
helpers of the JavaScript tests, the functions of `tracing.go` nobody calls.

- What Kafka's GetStats shows, and that reading it resets the writer's own numbers:
  no document says what they mean, so there is nothing to hold them against.
- Strings that point into a request's buffers, kept in spans after fasthttp has used
  the buffers again (`middleware/tracing.go:61`): the life of that memory is the
  libraries', and nothing in the state of this program shows it.
- The propagation of trace headers, which moves data only.
- Where a Kafka group without an offset begins (StartOffset) is in `KafkaConsumer`,
  but no property covers what a restart or rebalance before the first commit skips.

What could come next: more partitions and a group spread over several processes in
`KafkaConsumer`; the order of Azure's deliveries.

A restart is modelled where something survives it: the Kafka group. For the gateway a
restart is the initial state, and messages not yet handed over are lost with their
requests; a RabbitMQ queue goes with its consumer; what Azure has locked comes back
when the lock runs out, which `LockExpires` covers.
