# Verification of quiqupgo

quiqupgo is a Go library of [uber/fx](https://github.com/uber-go/fx) modules:
tracing, logging, Kafka, Temporal, gorm and HTTP middleware that a service
lists in its `fx.New(...)`. This directory holds TLA+ models of its parts, TLC
configurations that check them on small instances, and TLAPS proofs of their
safety properties for every value of the constants.

Everything runs from this directory:

    tlc -config ProviderCache.cfg MCProviderCache
    tlapm ProviderCacheProofs.tla

`PROJECT.json` lists every run with its module, configuration and expected
outcome, the source lines behind each definition (`map`), the hazards of the
code with the properties that cover them, and the theorems.

## The system

| part | state it keeps | operations | interacts with | module |
|---|---|---|---|---|
| provider caches (`tracing/tracer.go`, `metrics.go`, `logging.go`) | a map from service name to OpenTelemetry provider and its mutex, one per signal; otel's global provider | Get, create, Shutdown, Clear | any goroutine; `tracing/module.go` | ProviderCache, ProviderRegistry, AppLifecycle |
| tracing fx module (`tracing/module.go`, `common.go`, `config.go`) | the application's tracer and meter providers | construct, TLS settings, OnStop | provider caches, every module that takes a `trace.Tracer` | AppLifecycle |
| Kafka consumer (`kafka/consumer.go`) | its readers; one goroutine per topic | Subscribe, Close | broker, handler, tracer | KafkaConsumer, KafkaWire |
| Kafka producer (`kafka/producer.go`) | none between calls | Publish, PublishBatch, header carrier | broker, tracer | KafkaWire |
| Kafka fx module, configuration | none | construct, OnStop, defaults | producer, consumer | AppLifecycle, KafkaWire |
| in-memory Kafka (`kafka/testutil/mock.go`) | topics, subscriber channels, a mutex | Publish, Subscribe, GetMessages, Clear | tests | InMemoryKafka |
| HTTP and Echo middleware (`middleware/`) | the recorded status of one request | wrap a handler | tracer, response writer | RequestTracing |
| Encore tracing (`middleware/encore/`) | none | identifier conversion, StartSpan | tracer | RequestTracing |
| service helpers (`tracing/service.go`) | the span of one call | Trace, WithSpan, WithSpanResult | tracer | RequestTracing |
| Temporal queries (`temporal/utils.go`) | the loop of one listing | ListAllWorkflows, GetWorkflowStatus | Temporal's visibility store | WorkflowListing |
| Temporal, gorm, logger modules | client, pool, zap's global logger | construct, OnStop | fx, tracing | AppLifecycle |
| fx helpers (`fxutil/`) | none | hooks around functions | fx | AppLifecycle |
| example services (`examples/`) | server, worker, consumer goroutine | wiring, start and stop | all of the above | AppLifecycle |
| test doubles (`middleware/testutil`, `logger/testutil`) | recorded spans, entries | record, find, reset | tests | TestDoubles |

What is hard in it: racing get-or-create calls with a slow, fallible creation
outside the lock; a provider that is global, cached and in use at once, and
shut down through only one of these; the gap between handling a Kafka message
and committing it; cancellation and Close at any point of a consumer's turn;
batches that are written in part and retried; headers that travel on with a
forwarded message; the order in which fx starts and stops the modules, with
constructors and hooks that fail and timeouts that pass; a response status
recorded at another moment than it is sent; a listing that is read page by page
while what it lists changes. The `hazards` list names the lines.

## What is modelled

### ProviderCache

The three caches are the same code with other types; the model follows the
tracer's copy, and what it says holds of `GetMeterProvider` and
`GetLoggerProvider` alike. A goroutine's call is cut where another goroutine
can come between: `Call` enters with a service name and a configuration that
has an endpoint or not; `Hit` and `Miss` are the first critical section;
`Create`, `CreateNil` and `CreateFails` are `createTracerProvider`, whose last
act is to install the new provider as otel's global one; `Publish`,
`AdoptExisting` and `Lose` are the second critical section; `Discard` is the
loser's `Shutdown`, which happens with the mutex still held. `Shutdown` and
`Clear` are the exported functions of these names, called by whoever holds an
answer, or by anybody. A provider is named after the call that builds it and
its `status` tells whether it runs, was discarded by a losing call or was
stopped by a user. `orphans` and `outdated` are history: they remember what a
`Clear` dropped, so that the properties can say "since the last Clear".

Resource, TLS and exporter set-up are abstracted to success or failure, and the
error of `Shutdown`, which the code drops, is not represented: the SDK marks a
provider as shut down before it does anything that can fail.

`ProviderRegistry` is the promise to callers: an atomic get-or-create.
`ProviderCache!ImplementsRegistry` is the refinement, in which a caller waits
from `Call` until its answer and everything in between is invisible.

### KafkaConsumer

`Subscribe`, `StartReader` (one turn of its loop, with `createReader`), `Block`
and `SubscribeReturns` are `KafkaConsumer.Subscribe`. Per topic, `consumeTopic`
is `StopOnDone`/`Continue` (the select), `Fetch`/`FetchEnds`/`FetchFails`,
`HandleOk`/`HandleFails` (`processMessage` up to the handler's return) and
`CommitOk`/`CommitFails`. `Close` and `CloseReader` are `KafkaConsumer.Close`.
`Crash` replaces a process at any point.

`createReader` gives every reader the group of the configuration, so the
readers of all topics, in all processes, are members of one consumer group: a
`Subscribe` with two topics makes two. The broker, the group and kafka-go's
`Reader` are external; the model holds what the code relies on.

- A partition is a log with the group's committed offset. The log is kept: the
  offset a reader resumes at is still in it.
- A generation gives each partition to one member that reads its topic.
  `Settle` starts one when a reader has been made, closed or lost; `LoseSession`
  starts one without such need and may drop members.
- A member learns of a generation by `Resume` and starts at the committed
  offsets, in the same process and with whatever the goroutine has in hand.
  From there an in-memory position advances whether or not anything is
  committed. Until it resumes it hands out what it has from before.
- A commit is taken only from a member that has resumed, but the generation its
  message was fetched in is no part of it. It sets the offset to one past the
  message, also when that is further back.
- A commit that reports an error may have reached the broker, or may stay
  behind in the reader's queue (`late`) and be taken after its caller has gone
  on (`TakeLate`); closing the reader drops it.
- A fetch may return a buffered message when the reader is closed or the
  context is done.
- A cancelled reader that nobody closes keeps its partitions without reading
  them, which `Served` excepts.

Two `Subscribe` calls of one consumer at a time are out of scope: their appends
to the list of readers would race.

`stale` marks a message in hand that is not of the current generation, `strays`
the partitions that have seen a commit of such a message or a late one: with
`attempted`, `succeeded`, `acked` and `last` they are history for the
properties. `OncePerGeneration` is what a member that has resumed can promise,
and `AckedAgainNeedsStray` names the one way in which an acknowledged message
comes back to it: nothing in `consumer.go` holds a commit back that has
outlived its generation.

### InMemoryKafka

`testutil/mock.go`, which the tests of every service use in place of Kafka.
`Publish` is `PublishBatch` up to its loops; each send of the loops is a step,
`Send` or, on a full channel, `Skip`, because the subscribers receive without
the mutex. `pub` is the loop state, and being other than `None` it is also the
mutex: `Subscribe` and `Clear` wait for it. `Receive`, `Handle` and `Leave` are
the loop of `Subscribe` after the registration. The code's `Publish` of one
message is `PublishBatch` of one; `GetMessages` copies and `Close` returns nil,
so neither is an action. `Clear` empties the topics and not the channels: a slow
subscriber still gets cleared messages, which `OffsetIsIndex` has to except.

A message is the number of its publication, which is what order, loss and
duplication are about; key, value and headers are passed through untouched. A
call of `Subscribe` names each of its topics once. `published`, `since`,
`seen`, `skipped` and `cleared` are history.

### AppLifecycle

An application from `fx.New` to the end of its stop hooks, and the next one of
the same process. fx is external: it constructs what the next invoked function
needs (`Wanted`), appends the hooks in the order of the list (`AppendHook`),
runs start hooks forwards (`StartHook`), stop hooks of the started ones
backwards (`StopHook`), rolls back when a start hook fails (`StartHookFails`),
and gives up when the context of the phase ends (`StartTimesOut`,
`StopTimesOut`). Each module is a record of what it needs, what its constructor
opens, what its start hook opens and what its stop hook closes, read from its
`module.go`; `registerWorker` and `registerRoutes` are those of the examples,
the `job` modules the helpers of `fxutil`.

`newTracingModule` is the constructor of the tracing module with both calls to
the caches, either of which may fail; it uses the caches at the granularity of
a call, which is what `CacheIsLinearizable` proves of them. A provider is named
after the application that made it. `GetTLSConfig` decides when creating one
must fail. `NewLogger`, `NewClient`, `NewProducer` and `NewDB` are the other
constructors, with what each leaves open when it fails; `MigrationFails` is the
`log.Fatal` of api-service, after which there is no process. `Listen`, `Drain`,
`Request` and `Respond` are its HTTP server, `Subscribe` and `Consume` the
goroutine of worker-service's consumer, which holds the context of the start.
`ExportLogs` and `StopLogs` are an application that uses the logger provider,
which no module does. A new application begins once the goroutines and requests
of the one before are gone. All applications of a process trace under one
implicit service name, nobody clears the caches, and constructors return.

`CleanEnd` lets a reader stay open only if its `Subscribe` came to run when
every hook that closes readers was over (`late`). `DependentsCloseFirst` speaks
of worker and server in any listing, and of the Temporal client and the
database, whose constructors take the tracer too, where tracing is listed
before them: in the other order tracing stops first. It says nothing of the
consumer's goroutine, which uses the tracer for every message, because no hook
waits for the message it handles.

### KafkaWire

What is on the wire: one application with its configuration makes its producer
and reader, by the fx module (which refuses to start when the producer cannot
be made) or by hand. `NewProducer` and `createReader` each set up their own
TLS and SASL from it, the one giving up at the first error, the other going on
without; SCRAM may refuse the user. `Publish`, `Convert` and `WriteMessages` are
`PublishBatch`: the span, the header list of each message with the trace
header injected through the carrier (`Get`, `Set`), and the call of the writer.
The code's writer leaves `RequiredAcks` unset and so asks for no
acknowledgement. What it was handed (`handed`) is therefore appended to the
topic by `Arrives`, at its own time: any part of it, in any order, before the
call returns or after, and again when the writer tries again. The result of the
call says nothing of it, and no property claims that a message whose `Publish`
returned nil was written. `PublishNew`, `Retry` and `Forward` are the callers:
a new batch, the same one after an error, a handler that publishes what it was
given. `processMessage` and
`HandlerReturns` are the consumer around the handler, with `ToMap` and
`extractTraceContext`. `ProduceForeign` writes lists that name keys twice.
The iteration order of Go maps is a nondeterministic choice (`Lists`).
A span is its number, a header value the number of the span it names or a word
that does not parse.

### RequestTracing

The frames of a request are a stack: the middleware, then service functions.
`HTTPTracing` and `EchoTracing` push a server span unless the path is skipped,
in the trace the headers name; `StartSpan` and `StartSpanWithParent` do so for
an Encore service, with `ConvertTraceID` cutting or padding what decodes.
`ConvertSpanID` decides whether the span hangs below one of Encore's (`below`)
or only shares its trace. `EncoreCorrelates` compares every two Encore requests:
they share a trace exactly if their identifiers agree as far as OpenTelemetry's
reach, also short, long and undecodable ones. The
handler is any sequence of `WriteHeader`, `Write`, `Trace`, `WithSpan`,
`WithSpanResult` and returns, with an error or not, or a `Panic`, after which
`Unwind` runs the deferred calls frame by frame. `Return` is the middleware
behind `next`: what it records, and then what the server makes of the answer.
Recorded and sent status are two fields, since `responseWriter` notes every
`WriteHeader` while net/http sends the first.

### WorkflowListing

`ListAllWorkflows`, `ListWorkflow` (one page) and `ListWorkflowFails` are the
page loop. The visibility store is external: it follows the executions with a
delay (`Index`), orders running ones before closed ones, each latest first, and
a token is a place in that order. A workflow of the model is one run.
`GetWorkflowStatus` asks for the execution itself, and its error path only
passes the error on; the six predicates are the code's. The run closes
workflows with two of the six outcomes, the theorem with all.

### TestDoubles

`FindSpanByName`, `FindNext` and `FindAnswer` are the loop of the span recorder,
which reads the exported spans anew for its bound, for each name and for the
answer; `ResetSpans` and `ShutdownSpans` both empty the exporter. `Log` is one
call on three loggers: `BufferLogger`'s entry (`toFields`), the line of a
`ZapLogger`, and that of Temporal's `ZapLoggerAdapter`, each behind its own
`With`.

The arguments of a call are strings, zap fields, errors and other values.
`Sweetened` is zap's way through them: a field or an error where a key is due
stands for itself, which shifts the pairs behind it, only the first such error
is kept, and a key that is not a string is dropped with its value. `toFields`
and `toZapFields` take pairs and format the keys (`Text`), so that two keys,
as 1 and "1", may be one; of pairs with one key the last counts, as it does for
a reader of a line. `EntriesAreWritten` says of which calls the entry is what
the line says. Left out are the fields that write more or less than one pair
(`Namespace`, `Inline`, `Skip`), an error's second `...Verbose` pair, and the
lines in which zap complains of a call.

## What is checked

| run | bounds | shows |
|---|---|---|
| ProviderCache | 2 goroutines, 2 services, 2 calls each | answers agree since the last Clear, running providers are reachable, a loser touches only its own provider, every call returns, and the cache implements the atomic get-or-create |
| KafkaConsumer | 1 process, 1 topic, 2 messages, 2 rebalances without need | nothing is skipped unseen, what was acknowledged comes back only after a stray commit, one generation hands out each message once and in order; a closed reader's goroutine ends, cancelling ends all goroutines and Subscribe, while readers serve every message is attempted |
| KafkaWire | 8 configurations, 2 batches and a foreign list, 3 messages, 4 spans, 2 calls | handlers see the headers that were sent, a consumer span follows the call that handed the message over, spans end, producer and reader connect alike |
| InMemoryKafka | 2 topics, 2 subscribers, channels of 1, 2 messages in batches of up to 2 | a handler sees its topics in order of publication, nothing twice; an offset is the index of the stored message until Clear; a message is missed only by a full channel; publishing returns though its subscribers left, queued messages are handled |
| AppLifecycle | 2 applications, 6 listings, 4 tracing configurations, 2 requests | nothing is closed under what uses it, no request meets a closed database or tracer, a clean stop leaves nothing open but a reader that no Close could see and what has no hook, a provider that survives is the cached one, starts and stops come to an end |
| RequestTracing | 2 requests, 3 spans, 2 WriteHeader calls, identifiers of 2 bits | spans end inside out, the work of a request is in one trace, Encore requests share one exactly as their identifiers say, the server span tells what became of the request |
| WorkflowListing | 3 workflows, pages of up to 2, 5 starts and closes | none is missed, one is listed twice only if it closed in between, what was listed stays true, the loop ends |
| TestDoubles | 3 spans of 2 names, 2 log calls of 5 forms | a lookup answers rightly unless the recorder is reset or shut down in its middle; entries are what production writes but for the pairs of With, for the adapter in every call, for ZapLogger in those with a string at every odd place |

Why the bounds are enough. Two goroutines give a loser for a winner, and a
second call each gives a clear, a shutdown and a restart in between; two
services are what it takes to mix entries. Two messages in a partition are what
it takes to pass a failed one; two rebalances let a commit outlive its
generation and a member be dropped and taken back. One member shows every step
of a reader; with two, the liveness properties take longer than the five
minutes a run is given, so KafkaConsumerFailed alone has two, and the theorems
have any number. Two topics are what it takes for two batches to overtake each
other in one channel, and more messages than a channel holds for one to be
skipped. The bounds carry the liveness properties and the disagreements only:
every safety property that a passing run checks is also proved for all bounds.
Three messages in the topic let a batch arrive in part, again, and beside a
retry or a forwarded message; four spans are a call, its consumer, the
forwarded call and its consumer. Two applications are what the caches of a
process can mix up; the listings are the two examples, one of them in another
order, and each helper of `fxutil`, in front of and behind a module that opens
something. Two requests overlap, three spans nest below a server span; two
`WriteHeader` calls are one that counts and one that does not. Three workflows
in pages of two always leave a page boundary, and five ticks let two of them
close while the list is read. Times and names that are interchangeable use
symmetry only in runs without liveness.

Deadlock is checked where the system never stops by itself. It is off for
AppLifecycle, KafkaWire, RequestTracing and WorkflowListing, where applications,
messages, requests and workflows run out. Each `TypeOK` states the states its
variables range over; those of ProviderCache, KafkaConsumer and InMemoryKafka
are proved and checked, those of the other five are proved.

### Disagreements between the source and the code

| run | the source says | the code does |
|---|---|---|
| ProviderCacheGlobal | double-checked locking avoids the race; the provider is registered as the global one | the loser has already replaced the global provider and then shuts it down |
| ProviderCacheRestart | returns a provider for the configuration | after a stop the cache answers with the provider that was shut down |
| KafkaConsumerFailed | a message whose handler fails is not committed | the next success of the partition commits past it |
| KafkaWireTrace | tracing for message propagation | without a global propagator, which nothing in the library sets, no trace header travels |

The models show more that a reader should know, and no property claims
otherwise. The cache is keyed by service name alone: the first answer, nil
included, serves every later configuration of that name (`tracer.go:31`,
against the comment at 21-23). `Subscribe` waits for its context only and stays
blocked when `Close` has ended every goroutine (`consumer.go:58` promises
more). A reader that `Subscribe` opens during or after `Close` stays open
(`consumer.go:191`), which is the exception in `CleanEnd`. `PublishBatch`
returns nil without any broker having taken the messages (`producer.go:101`).
The consumer of worker-service holds the context of its start hook, which ends
with the start timeout: at most fifteen seconds after the start the goroutine
is gone (`examples/worker-service/main.go:118`). An Echo handler that returns
an error leaves a span with status 200 (`echo.go:56`), and a superfluous
`WriteHeader` overwrites the recorded status (`http.go:83`): `SpanTellsOutcome`
names both.

### Fairness

A goroutine inside a call, a loop or a close keeps running (weak fairness): the
Go scheduler is fair. Waiting for the mutex is strongly fair: `sync.Mutex`
hands itself to a waiter that has starved for a millisecond. Handlers and the
SDK's `Shutdown` return: the latter is given the context of the caller and no
timeout of its own (`tracer.go:57`), so `GetReturns` is as good as that. A
group settles and its members learn of the generation, but nobody has to take a
commit that was left behind. A fetch is strongly fair per partition: the reader
retries without end and kafka-go feeds one channel from all partitions in
turn, so a broker that is not down for ever serves it; and a closed reader's
channel runs dry, so `io.EOF` comes in the end. fx goes on with what it has
begun and its timeouts pass; requests need not end. A page request is answered
or fails. Nobody is assumed to produce, cancel, close, shut down or stop.

## What is proved

Every module that models code has a module of proofs beside it;
`ProviderRegistry` is what `ProviderCacheProofs` refines. The theorems hold for
every number of goroutines, services, calls, topics, partitions, subscribers,
messages, applications, requests, spans, workflows and log calls, every size of
channel, batch and page, and any listings, configurations and arguments. The
assumptions are those named in the modules:

- the bounds are natural numbers, and a channel and a page hold at least one
  item;
- the special values (`None`, `NotYet`, `Refused`, `Empty`) differ from the
  values they stand beside;
- every partition has a topic, and `None` is no message and no reader
  (`KafkaConsumer`);
- every argument of a log call has a text, a string's is itself, and fields and
  errors are not strings (`TestDoubles`);
- a listing of modules names each once, has everything the functions it invokes
  need, and has these functions behind the library's modules, as both examples
  do;
- the requests are finitely many (`RequestTracing`): their `WriteHeader` calls
  are counted against the bound.

For the cache, none of the properties is inductive alone. `IInv` adds that the
name a call will give its provider is unused until then (`NameUnused`), that
the provider a call has built runs and is known to nobody else
(`OwnIsPrivate`), and that a loser's answer is still the cache entry, because it
holds the mutex (`LoserKnowsEntry`). Privacy is the heart: it is why shutting
down one's own provider harms nobody, why caching it cannot give it to two
services, and why it is fresh for `ProviderRegistry`. From `IInv` follow the
five invariants, and `CacheIsLinearizable`: every step of `ProviderCache` is a
step of `ProviderRegistry` or leaves it unchanged. `EntryStays` is an action
property and needs type correctness only.

For the consumer, `IInv` has two halves. The first needs nothing of the group:
what a reader has handed out or resumed behind was attempted or is in its hand
(`HandedOutWasAttempted`), so was all below the message in hand
(`BelowHandWasAttempted`), and what is up for commit, by its goroutine or left
behind, was accepted with nothing below it skipped (`RequestsAreCommittable`).
Whoever commits, in whatever generation and however late, therefore passes only
attempted messages and lands right behind an accepted one: `NothingIsSkipped`
and `OffsetsEndInSuccess`. The second half is about the members that have
resumed. Such a member reads what the generation gave it (`GroupShape`), its
message in hand, if of this generation, is the last one it handed out
(`FreshIsLatest`), and what was handled in the generation lies behind it
(`LastBehindReader`), which gives `HandledOncePerGeneration`. On a partition
without a stray commit, the group's offset lies behind the owner
(`OffsetBehindReader`) and in front of all that was acknowledged
(`AckedWasPassed`): `AckedComesBackByStrays` and `RetreatsAreStray` follow.

For the in-memory Kafka, order needs that a channel is increasing in
publication numbers (`QueueIncreasing`) and that whatever the running batch has
still to offer a subscriber is later than all its channel holds
(`SentInTurn`), which holds because a subscriber is registered once per topic
(`RegisteredOnce`) and the mutex keeps two batches apart (`BatchShape`).
`NoMessageAstray` rests on a second invariant, `AInv`, that follows each
message from its publication through the loops to the handler. `RoomForAll`
counts with it: when a channel is full its messages are all due to its
subscriber, they differ because they increase, and the one that does not fit is
due and later than all of them, so more are due than the channel holds
(`SkippedMeansFull`), and what is due never shrinks (`DueGrows`).

For the application, two invariants. `IInv` is what keeps a provider from being
lost: a cache that has no entry has no live provider either (`AbsentIsDead`),
so that a new one may enter it, whatever the rest of the constructor does.
`SurvivorsAreCached` follows. `WInv` ties what is open to the hooks that have
been started: a server or worker that is up, and a listener or a request, has
its hook among the started ones (`ServerIsStarted`, `WorkerIsStarted`); as long
as that of `routes` is, database and tracer are open (`RoutesAreServed`); and
once a stop or rollback has begun, whatever is open has a started hook to close
it, lasts, or belongs to a module behind the one that failed (`StopClosesAll`,
`RollbackClosesStarted`). A reader that is open has a Close ahead of it or came
too late for one (`ReaderIsClosed`). The step that needs an argument is
`StopHook`: invoked functions are listed last (`InvokedLast`), so a hook that
runs while the server's or the worker's is still started is that of another
invoked function, which closes neither database, client nor tracer
(`HookOfInvoked`). From this follow `RequestsAlwaysServed`,
`StopsLeaveNothingOpen` and, as an action property, `DependentsOutlived`.

For a request, a frame's span is open and a span that is open has a frame
(`FramesAreOpen`, `OpenIsFramed`), spans rise with the stack (`FramesGrow`) and
stay within one request (`OwnersArrived`, `ServerIsOwn`, `ParentIsOwn`): pops
therefore end spans inside out, a panic's included, whatever other requests do.
The traces follow from the parents (`InServerTrace`, `InEncoreTrace`), and
whether two Encore requests meet from what cutting and padding does to their
identifiers (`ConvertedMeet`).
`SpanTellsOutcome` needs that, up to the exceptions it names, the recorded
status is the one on the wire while the handler still runs (`RecordedIsWire`).

For what is on the wire, five invariants. The producer has all its settings ask
for and the reader what could be set up (`LinkInv`); a message that was handed
to a writer has the entries of the caller's map, each once, and of the trace
header the call's (`HandedInv`), which stays so when it arrives, whenever and
however often (`LogInv`); exactly the spans of the call and of the handler in
progress are open (`SpanInv`); and the handler's map is that of the message it
was given (`DeliveryInv`). The lemmas under it say what the carrier's `Set`,
`ToMap` and the unordered iteration of a map do to a header list of any length.

For a listing, the store's times are unique and the index never knows more than
the executions (`ServerInv`). What was listed lies in front of the token in the
store's order, and a workflow that has matched from the start is listed or lies
behind it (`ListedInFront`, `MatchedToCome`): closing moves a workflow only
backwards in that order, so it can be met again but not missed.

For the test doubles, as long as the recorder is not emptied, the bound a search
has read stays within the recorded spans, the names it has passed are not the
one it wants, and the one it is about to answer is (`SearchIsSound`). The three
loggers' lines are tied to the calls that made them (`LinesOfCalls`), so that
`EntriesAgree` is a statement on `toFields`, `toZapFields` and `Sweetened` of
one argument list: with a string at every odd place zap opens a pair at exactly
these places (`OpensAre`, `PlainPlaces`), and the last value of a key is the
same in the map and in the list of pairs (`FieldsFill`, `PlainFill`).

Some of these arguments would be inductions over a list or over a finite set.
They take a least or greatest element instead, which the library's theorems on
well-founded orders and finite sets give without an induction.

Ten of the theorems state what no run checks besides: the types of the
variables of AppLifecycle, RequestTracing, KafkaWire, WorkflowListing and
TestDoubles (each a `TypeCorrect`), the mutex is released on every path
(`LockIsReleased`), one provider serves one service (`ServicesDoNotShare`), an
entry is replaced by nothing but Clear (`EntryStays`), the group's offset ends
in a success (`OffsetsEndInSuccess`) and moves back by a stray commit only
(`RetreatsAreStray`). Three more (`InvariantHolds`) are the inductive
invariants of ProviderCache, KafkaConsumer and InMemoryKafka.

Only model-checked: the liveness properties (fairness and ENABLED are out of
the prover's reach). The four disagreements are counterexamples.

Worth proving next: an abstract subscription, a log read in order by a handler
that may miss or repeat messages but not reorder them, which `InMemoryKafka`
implements, and `KafkaConsumer` within a generation.

## What is not modelled

- `tracing/testutil/noop.go` and the no-op logger: constant values.
- `RequestRecorder` appends under a mutex before its handler answers, and
  `TestServer` wraps `httptest`: nothing can come between.
- Two `Subscribe` calls of one consumer at a time: a data race on the list of
  readers, which no caller in the repository makes.
- Span attributes other than the status, log levels and encoders, formatted
  messages, pool limits, sampler and interval options, Temporal's interceptors:
  values handed to a library, with no state of this code's own.
- `examples/minimal`: a list of modules.
- The headers map that publisher, store and subscribers of the in-memory Kafka
  share: InMemoryKafka has no headers.
