# Aero Arc Relay in TLA+

Specifications, model-checking runs and proofs for the concurrent core of
aero-arc-relay: a process that reads MAVLink telemetry from several endpoints
and offers every message to every configured sink.

## 1. The system

```
 gomavlib node ──events──> processMessages ─┐                  ┌─> BaseAsyncSink queue ─worker─> NATS, file
 gomavlib node ──events──> processMessages ─┼─> WriteMessage ──┼─> BaseAsyncSink queue ─worker─> FileSink ─ticker─> S3, GCS
 agent streams (gRPC) ── TelemetryStream ───┘   of every sink  └─> buffer + mutex ─ticker, writers─> Timestream, BigQuery, ...
 SIGINT/SIGTERM ─> main.go ─> context ─> Start: close nodes, close sinks, stop HTTP
```

| Component | Code | State | Operations | What is hard |
|---|---|---|---|---|
| Asynchronous sink | `internal/sinks/base.go` | channel, policy, WaitGroup, metrics | NewBaseAsyncSink, Enqueue, worker, Close | several senders, full queue, close racing send, metrics in several steps |
| Sink contract | `internal/sinks/sink.go` | - | WriteMessage, Close | - |
| Relay process | `internal/relay/relay.go`, `cmd/aero-arc-relay/main.go` | connections, endpointDroneIDs, sinks, two signal channels, context | Start, processMessages, handleFrame ... handleTelemetryMessage, shutdown | two paths for a signal, fan-out in progress during shutdown, names used twice, sinks that block or fail |
| Batching sinks | `timestream.go`, `bigquery.go`, `elasticsearch.go`, `influxdb.go`, `prometheus.go` | buffer, lastFlush, mutex, context | WriteMessage, flushUnsafe, backgroundFlusher, Close | three kinds of goroutine flush one buffer, failing requests, final flush on a cancelled context, ticker drift |
| Object storage sinks | `s3.go`, `gcs.go` | inner FileSink, mutex, ticker, closeChan | handleMessage, RotateAndUpload, Close | two queues and two mutexes in a row, two rotations that do not know of each other |
| FileSink | `file.go` | file handle, lastRotation, mutex | handleMessage, rotation, Close | rotation that cannot reopen, names by second |
| NATS sink | `nats.go` | connection, KV bucket | publishMessage, updateKVState, ensureStream, ensureKVBucket | publish succeeds and state update fails; read-merge-put without revision |
| Agent gateway | `gatewayserver.go`, `streams.go`, `apiserver.go` | sessions, streams | Register, TelemetryStream, updateStream | registration racing a stream, several streams of one agent, frames acknowledged while sinks refuse or block, clients that go away at any point |
| Factory, configuration | `factory.go`, `internal/config` | - | CreateConfiguredSinks, Load, validate* | partial failure; what validation lets through |
| Envelopes | `pkg/telemetry` | - | Build*Envelope, ToJSON, ToBinary | fields are read back by name and Go type, without either being shared |
| Mock sinks | `internal/mock`, `pkg/mock` | - | - | test doubles |

What makes each part correct:

* Asynchronous sink: order, no loss between acceptance and the callback, waiting
  senders get through, Close drains and returns, counters add up.
* Configuration, factory: what is served is what the file names and could be
  created; nothing valid is silently left out.
* Relay: each message is offered to each sink whatever another sink does; every
  loss is counted; envelopes carry the drone of their endpoint; sources are
  closed before sinks, and no queue is left with messages in it; a signal at any moment
  ends the process.
* Batching sinks: a message leaves the buffer only with the one request made from it
  that returned without an error, in order; the buffer is bounded while the backend
  is healthy; a partial batch is flushed in time; Close returns.
* Object storage sinks: what is accepted is staged or counted, in order;
  no upload takes content from an object, but for a failed one to GCS; the ticker leaves
  no file behind; Close returns.
* NATS sink: the stream is in order and has nothing twice; losses are counted; every
  field of an entry has the value published last of the message it is from; the
  construction ends provisioned or disconnected.
* Gateway: an acknowledged frame has been offered to every sink; sessions and
  streams belong to the same agent; a call returns after its client.

State of the code worth knowing: the row converters of Timestream, BigQuery,
Elasticsearch and InfluxDB are marked TODO and return nil, and Prometheus
computes samples and drops them; the gateway files use fields (`grpcSessions`,
`sessionsMu`, `DroneSession`) that `relay.go` does not declare; the factory
answers a Kafka configuration with an error.

## 2. Modules

| Module | What it is |
|---|---|
| `SinkContract` | abstract: a bounded FIFO inbox that is filled, worked off, sealed once and stopped when empty |
| `AsyncSink`, `MCAsyncSink` | `base.go`; implements `SinkContract` |
| `Config` | `config.go` and `factory.go` as functions: what Load makes of a file, and the factory of a configuration |
| `Relay`, `MCRelay` | `main.go` and `relay.go`, from loading the configuration to the end of the process, over sinks reduced to what the relay sees of them |
| `Gateway`, `MCGateway` | `gatewayserver.go` and `streams.go`: registration, telemetry streams, acknowledgements |
| `BatchSink`, `MCBatchSink` | the five batching sinks |
| `FlushTimer` | the timing of their periodic flush, in units of time |
| `StagedUpload` | `s3.go`, `gcs.go` and the `FileSink` inside them |
| `Telemetry` | the fields of each type of envelope, and the lists in `nats.go` that must agree with them |
| `DeviceStates` | abstract: a bucket that is changed in one step per message, by the message published last, on the fields of its type |
| `NatsSink`, `MCNatsSink` | `nats.go`: construction, publishing, the device state in the KV bucket, crash and restart; implements `DeviceStates` |
| `QueueLemmas` | lemmas about sequences used as queues, and induction and recursion up to a number |
| `AsyncSinkProofs`, `BatchSinkProofs`, `FlushTimerProofs`, `GatewayProofs`, `RelayProofs`, `StagedUploadProofs`, `NatsSinkProofs` | invariants of the module of that name, proved (section 4) |

`Relay` extends `Config`; `NatsSink` extends `Telemetry`; `AsyncSink` is shown to implement
`SinkContract`, `NatsSink` to implement `DeviceStates`. Elsewhere a sink's queue is reduced: `Relay` and `Gateway` keep its
room, its waiters and its worker, `StagedUpload` and `NatsSink` its order and its worker.

### AsyncSink

The Go channel is modelled with its semantics: `queue` is its buffer and `sendq`
the list of parked senders. A receive that frees a slot admits the first parked
sender in the same step (`Receive`, `AdmitParked`); `CloseChannel` makes parked
senders panic; a send that starts after the close panics too (`SendOnClosed`).
`Enqueue` is `Send`, `Park`, `Drop` or `SendOnClosed`, followed by `Count` and
`Publish`, because the length is read in one step and the gauge set in another,
without a lock (base.go:110-111). The worker is `Receive`, `Handled`,
`WorkerPublish`, `WorkerExit`; Close is `Close` (close of the channel) and
`CloseReturn` (after `wg.Wait`). `accepted` and `finished` are history.

Refinement: `inbox <- hand \o queue`, bound `Capacity + 1`, and the phase read off
`crashed`, `cpc` and `closed`. Every step is a step of `SinkContract` or a stutter.

### Config and Relay

A configuration file is a record: whether it can be read and parsed, its endpoints
in order, its dialect, and the configured sink types with their policies. `LoadError`
is the first thing Load objects to, `ValidEndpoints` what it keeps, and
`CreateConfiguredSinks` the sinks in the order of the factory without those whose
constructor fails. Both are loops that append what they want of a list one element
after the other, which is `Selected`. A process starts with any file of `ConfigFiles`.

`mpc` is the main goroutine (loading, creating, created, starting, started, serving,
closing nodes, closing sinks, stopped; failed or killed before that), `gpc[i]` the
i-th `processMessages`. `LoadConfig` is Load, `initializeSinks` is relay.New with any
subset of constructors failing (`broken`), `NotifyMain` main.go's signal.Notify; a signal
before it ends the process (`SignalKills`). `InitEndpoint` is one turn
of the loop in `initializeMAVLinkNode`; both maps are keyed by name, as in the
code. `Signal` puts one signal into every channel registered at that moment
(capacity one, never waiting); `Cancel` is main.go's goroutine, `Bridge` Start's.
`processMessages` is `Receive`, then `StopOnContext`, `HandleFrame` or
`IgnoreEvent`, then one `WriteMessage` per sink. A sink is "drop" or "block" (a
BaseAsyncSink: queue, worker, parked callers) or "direct" (a batching sink: the
call succeeds or fails in the caller). `FanOutDone` ends the loop. Shutdown is
`CloseNode` for each stored node, then `CloseSink` and `SinkCloseReturns` one sink
after the other, then `Stop`.

A direct sink appends the message to its buffer before it may flush, so the message is in
the buffer whether the call returns nil or the error of the flush (`Buffers`); `buffered`
counts these. `finished` counts the messages that the worker of a queueing sink has been
through its callback with. Neither says where a message is stored: what becomes of a buffer
is the subject of `BatchSink`, of a staged file that of `StagedUpload`, and there
`BatchSinkFinal` and `StagedClose` show messages that shutdown leaves behind.

Left out: metrics of the queue (AsyncSink has them), HTTP endpoints, contents of
messages beyond source and drone. gomavlib is external: a closed node delivers
no further event.

### Gateway

A session object is a number in order of creation; `sessions` is the map by agent,
`owner` and `stream` are fields of the objects. `Register` makes a new object and replaces
the agent's last. A call of `TelemetryStream` is `Open`, then `Lookup` and `Attach`
(`updateStream`: the map under its lock, the session under its own, so the session may
have been replaced in between), then the loop: `Check` (the select), `Receive` or
`ReceiveEnds`, one `Write*` per sink, `FanOutDone`, `SendAck` or `SendFails`. A client may
close its side (`CloseSend`) or go away (`Disconnect`) at any point; frames already sent
may still arrive. gRPC itself is external.

The files do not compile against `relay.go`: they use `grpcSessions`, `sessionsMu` and
`DroneSession`, which it does not declare. `Gateway` takes their evident meaning, a map by
agent id and a struct with the fields that the code reads and writes. As `Start` starts
no gRPC server, shutdown is no part of the module.

### BatchSink and FlushTimer

`mu` is the holder of the mutex across a request, so a request in progress is a
held mutex; critical sections without a request are single steps. `batch` is what the
request was made from (`StartRequest`). It ends with `FlushOk`, which empties the whole
buffer as the code does, or with `FlushFails`, which keeps it. A request started on a
cancelled context (`doomed`) can only fail; cancelling during a request may fail it. The
five files differ in whether a request gets the sink's context and can report an error
(`RequestsUseContext`): in `influxdb.go` and `prometheus.go` it cannot.

`flushed` has the messages of the requests that returned without an error, which is what
the code itself goes by. It is not what the backend stored, about which nothing is
claimed: the converters of four of the files return nil for every message and Prometheus
drops its samples, Elasticsearch's bulk response may have rejected items that nobody looks
for, and InfluxDB's write API works in the background and reports errors on a channel that
nobody reads. The other way round, a request that failed may have taken effect.

`due` says that the flush interval has passed since lastFlush (`IntervalPasses`); a flush
that succeeds resets it, one that fails does not. A tick flushes (`TickFlush`) if there is
data and `due`, and otherwise leaves the buffer to the next tick (`TickSkip`). `FlushTimer`
is the counterpart with time and without data: ticker, channel of capacity one, `since`
lastFlush, age of the oldest message, duration of flushes. No flush has a timeout in the
code, so its duration may exceed the interval; `MaxLatency` is any positive number.

### StagedUpload

`outer` is the queue of the S3 or GCS sink, `inner` that of the FileSink in it.
`HandOver*` is `handleMessage` under the sink's mutex (`smu`); with the block policy
the worker may wait for the inner queue while holding it. `Stage` and `StageFails`
are `FileSink.handleMessage`, which rotates first if its interval has passed.
`Lock`, `LockFile`, `UploadOk`, `UploadFails` are `RotateAndUpload` and the upload in
Close. `fmu` is the FileSink's mutex, visible across uploads only. A file opened
in the second of its predecessor has its name, is opened for appending and goes
to the same object; `NextFile` allows both. `dead` is a file handle that was
closed by a rotation that could not open its successor. `policy` and `backend` are chosen
in `Init` and never change, so that one run covers both of each.

A failed upload may have stored the whole file (the answer was lost) or nothing. To GCS
it may also have stored a part (`StoredInPart`): `gcs.go` closes the object's writer after a
failed copy, which commits what was copied under the final name.

`Crash` is the end of the process at any step before Close has returned, together
with the construction of the sink by the next process: queues and hands are lost
(`crashLost` counts them), an upload under way may or may not take effect, and the new
process opens a file by the time without a look at the old ones (`abandoned`).

### NatsSink

`npc` is the progress of `NewNATSSink`: `Connect`, `LookForStream` and `LookForBucket` (any
error counts as "does not exist", as in the code), `AddStream`, `UpdateStream`,
`CreateBucket` and the last log statement, which panics when the configuration has
no stream. `publishMessage` is one step per call to NATS: publish (`PublishOk`,
`PublishFails`), then for tracked types `GetOk` or `GetFails` and `PutOk` or `PutFails`. Each
call may succeed, fail, or fail after it took effect; the process may die between
any two (`Crash`) and is started again (`Restart`, the restart policy of
docker-compose.yml), with queue and worker lost and stream and bucket kept. An
entry of the bucket may expire at any time (`Expire`).

A message is numbered when the queue accepts it, and "last" and "newest" below are by that
order, which is also the stream's. It is not the order of time stamps: an envelope is
stamped when it is built, before the fan-out, and two consumers of one drone may
enqueue in the other order.

Four lists have to agree for the state of a device to be right, and nothing in the Go
code ties them together: the fields each `Build*Envelope` makes (with their Go types),
those `UpdateFromMessage` looks for (with the types it asserts), those `mergeDeviceState`
copies, and the fields that the struct `DeviceState` groups by message. `Telemetry` has
the four; `DeviceState` and `mergeDeviceState` of `NatsSink` are defined from them, and a field
has the number of the message its value is from. `KVMirrorsStream` compares each
field with the stream (`PublishedAs`). Its exceptions are history: `missed` for messages
whose own update failed, and `started` for the message since which the entry exists,
because a read that fails starts it anew.

`DeviceStates` is the bucket as its readers may think of it: `newest` is the message that was
published last, `latest` has for each key and field the message it is from, and only `newest`
changes an entry, in one step. Refinement: the entry of the key in hand is what the worker has
read, until it is put back (`Entry`), so an expiry in between takes effect when that is dropped, or
never, if the put brings the entry back; every other entry is what the bucket has. `PutOk` is
`Merge` or `Begin`, publishing is `Publish`, and reading is a stutter.

## 3. Runs

| Run | Shows | States |
|---|---|---|
| `AsyncSinkQueue` | both policies: order and content of the queue through waiting senders, drops, Close and panics; the counters account for every call; waiting senders and Close return; the contract and its fair version are implemented | 128 000 |
| `RelayShutdown` | eight files, good and bad, two endpoints, sinks of each kind that may fail to come up, two signals: what is served is what was configured, fan-out reaches every sink, shutdown is ordered and leaves nothing in a queue | 790 000 |
| `RelayLive` | two endpoints of one name: drone attribution; one signal or two, at any moment, stop the process; a blocking sink starves no consumer | 84 100 |
| `RelayPanic` | violated: shutdown can end in a panic | |
| `BatchSinkFlush` | with failing requests, a message leaves the buffer in one request that succeeds, in order; buffer bound; Close returns, the flusher ends, a partial batch is flushed | 53 000 |
| `BatchSinkFinal` | violated: the final flush of BigQuery (Timestream, Elasticsearch alike) meets a cancelled context and does not happen | |
| `FlushTimerBound` | with flushes shorter and longer than the interval, a message waits less than two intervals and a flush; a failed flush costs an interval more, or its own duration if that is longer | 7 600 |
| `Staging` | either backend and policy, and a failure or crash anywhere: accounting, order across both queues, rotations and restarts, objects grow except by a failed upload to GCS, the ticker leaves no file behind, Close returns | 134 000 |
| `StagedClose` | violated: Close uploads before the FileSink's queue is drained | |
| `StagedRetry` | violated: a file whose upload failed is rotated away and forgotten | |
| `NatsState` | stream in order and without duplicates, losses counted, every field of the bucket of the last message, `DeviceStates` implemented, construction ends provisioned or disconnected; with failures, crashes, restarts and expiry | 873 000 |
| `GatewayStreams` | two agents, two calls, repeated registration, a dropping and a blocking sink: acknowledged frames have been offered to both, sessions and streams belong together, calls return | 264 000 |

Bounds. Two producers, endpoints, agents or calls are the smallest number that can
overtake, wait for or outlive one another, and the code treats all alike; two or three
messages each, with queues of one or two, let every queue be empty, full and full with
waiters. `RelayShutdown` has files of up to three endpoints, of which two are not valid, and
up to three sinks, one of each kind; one event per node is enough for a message in
every place that shutdown could lose it, and two signals for one to find a channel
full. `RelayLive` has two events, since the same consumer must come round again.
Batches of three, with three messages for each of two writers, let a batch be filled by
one writer or by two, be left partial and grow by failures. In `FlushTimer` an interval of
six units with flushes of up to nine lets a flush end before, at and after any tick and
the one after it; the bound is tight, with and without a failure (one unit less fails).
`Staging` has queues of two and three messages, so that one is staged, one waits between
the queues and one is behind it, two files for one rotation (more happen without a new
name), and one fault, which may be a crash. In `NatsState` two endpoints share a drone and
a third does not, and three messages with two faults let one failure hide an update
that a later message makes up for, or not. In `GatewayStreams` two frames may be of one
stream or of two, and two sessions of one agent or of two. All bounds are constants
named in the modules (`MaxOffers`, `MaxEndpoints`, `MaxSinks`, `MaxEvents`, `MaxSignals`,
`MaxFrames`, `MaxSessions`, `MaxWrites`, `MaxLatency`, `MaxMessages`, `MaxFiles`,
`MaxFaults`), and all but two act in guards of the environment only: `MaxFiles` also keeps
a rotation on its last name, and `MaxMessages` ends the restarts of `NatsSink`.

Deadlock is checked in every run: the modules have an `Ended` step for the states
in which the process or the component has rightly nothing left to do.

Fairness. A goroutine that can run runs (weak fairness of its actions): Go's
scheduler is preemptive. Where a goroutine needs a mutex that others take again
and again, or a select has two ready cases, its action is only intermittently
enabled and gets strong fairness: Go's mutex hands over to a waiter after one
millisecond, and select chooses at random. Backends answer (weak fairness of
`Handled`, `FlushOk \/ FlushFails`, `Work`; `Upload` in `StagedUpload`); `BatchSinkFlush` also
assumes a backend that does not fail for ever, without which nothing could be flushed,
and that time passes (`IntervalPasses`, `Tick`); that a tick is served is strong fairness of
`TickFlush \/ TickSkip` together, so nothing but `due` decides between the two.
That backends answer is an assumption the code does not enforce, see section 5. No
fairness is assumed of arriving frames, signals, writes, clients that go away, crashes
or of the start of Close: `CallReturns` speaks of calls whose client has ended the
stream, and `CloseReturns` of a Close that has begun, which a crash may undo. In `Gateway`
the loop of a call gets weak fairness as a whole, receiving included: when its client
is not open, what has not arrived ends with an error.

## 4. Proofs

`AsyncSinkProofs`, for every number of producers, queue size, policy and number of
messages. The inductive invariant is `IInv`: `TypeOK` and `Fifo`; a parked sender has
offered a message (else admitting it would put none into the queue); waiters imply a
full, open channel; the worker's hand is empty exactly when it is not handling; a
worker that is done means a closed and empty channel, and a returned Close a worker
that is done. `Fifo` alone is inductive only with the type invariant; `DrainedOnClose` is
not inductive and follows from the last two parts (no run names it: TLC checks it as the
contract's `Stop`, which needs an empty inbox). From `IInv` follow `TypeCorrect`,
`FifoOrder` and `CloseDrains`; `Implementation` shows, action by
action, that each step is a step of `SinkContract` or leaves its variables alone.
`ProducersInOrder` needs more, since a producer's message may wait while others pass:
`OfferInv` says that the wait list has each parked producer once (`WaitInv`), that what is
accepted of a producer is older than the message it is parked with (`EarlierInv`), and that
the accepted messages of each are ascending (`AcceptedInv`); by `Fifo` the finished ones
are a beginning of these. `MetricsAreExact` is about sums over the producers. `CallCounts`
says that one more call adds one to their sum, `CountProducers` that one producer more or
less in a set adds or takes one from its size; both need finitely many producers, which
`ProducersAssumption` states. With them each step keeps `Accounts`, the balance of the
counters with the producers that have sent and not yet counted.

`BatchSinkProofs`, for every batch size, backend, number of writers and failure
pattern. `IInv` is the conjunction of `TypeOK`, `FlushedInOrder`, `BufferBound` and
`BatchIsBuffer`: while a request runs, its batch is the buffer. The last is why emptying the
buffer after a success discards nothing, and holds because every addition needs the
mutex; it would fail if the code released the mutex during the request. The
bound is inductive because of the clause of `TypeOK` that ties a held mutex to a non-empty
batch, and `failedWrites`, which counts exactly what `BufferBound` must allow.

`FlushTimerProofs`, for every interval and every bound on the duration of a flush. `IInv` is
`Ranges` and `BudgetKept`: while no flush runs, one starts before the oldest message is two
intervals old, and after a failure by `Third`, an interval or a flush later (`StartsBefore`:
the waiting tick, the next one or the one after it starts it); while one runs, age and
remaining time together stay below the bound. `StartsNearer` is the step of time.

`GatewayProofs`, for any agents, calls, sinks and bounds. `IInv` is `TypeOK`; `SessionInv`:
sessions and streams are of one agent, and what a call has looked up is no newer than
what the map has; `OffersInv`: each sink has been offered all frames of a call up to the
one in its fan-out, in order; `ParkedInv`: a waiting call is in one wait list, once, and
at that sink (else admitting it would skip or repeat a sink). `AckedReachedSinks` is not
inductive and follows from `OffersInv`.

`RelayProofs`, for any set of configuration files, sinks, queue sizes, events and
signals. `NextCases` and the frame lemmas split the next-state relation into start-up,
signals, consumers, sinks' workers and shutdown. `IInv` is `TypeOK`; `EarlyInv`: what has not
begun before the consumers start; `StoreInv`: a consumer reads a stored node; `FanOutInv`:
a waiting consumer is in one wait list, once. On top of it, each with an invariant of
its own: `QuietInv` (a closed sink means that shutdown is past the nodes, and all stored nodes are
closed) gives `SourcesCloseFirst`; `NamesInv` (both maps agree on every stored name, and what
is in flight is right) gives `EveryDroneItsOwn`; `DrainInv` (accepted is finished plus queued
plus in hand, and a sink that shutdown is past is closed and drained, and a direct sink has buffered what it was offered) gives
`QueuesAreDrained`; `PlaceInv` and `CountInv` (where a consumer may be, and the offers of
two sinks differ by the consumers between them) give `NoOfferDisappears` and
`EverySinkGetsItsOffer`; the counting is `Counting` and `OfferMoves`.

For `ServesWhatIsConfigured` the loop of Load has to be known for files of any length.
`SelectedSolves` shows, with `Recursion` of `QueueLemmas`, that `Selected` exists and satisfies
its recursion, and `Selects`, by induction on how far the loop has got (`KeptUpTo`), what it
holds then: the wanted elements, each at the place that counts the wanted ones up to it.
`ServedInv` carries this from the file to the nodes: what Load made of the file (`LoadedInv`,
`CreatedInv`), how many endpoints `initializeMAVLinkNode` is through with and which nodes
their names lead to (`ProcessedInv`), and one consumer for each (`StartedInv`).

`StagedUploadProofs`, for every capacity, number of messages, files and faults. `TypeOK` is
inductive because of `MutexesHeld`, which ties program counters to mutexes. Every step is
a `FileStep`: it appends to the current file, moves to the next, or copies a file to the
bucket, in GCS perhaps a part of it (`StepIsFileStep`); `ObjectsFollow`, that an object is a
prefix of its file (also a partial one, `PartIsPrefix`), then gives `BucketGrows`, and `OnlySelfRotationLeavesFiles`. For `StagedOrder`, `LineInv` says that
hands and queues are sorted and ahead of one another, and `FilesInv` that the files are, and
are behind them; both are stated with `Sorted` and `Below`, about which `SortedConcat` and
`BelowConcat` say what an append needs. `NothingVanishes` compares the length of all files
together, one after the other, with what was accepted: the library's concatenation is a
recursive function, so `FlattenSolves` gives its recursion, `FlattenGrows` says that it grows by one
when a file does, `FlattenEmpty` that a new file adds nothing, and `Balance` is then kept by
every step.

`NatsSinkProofs`, for any endpoints, types, configurations, capacity and faults. `IInv` is
`TypeOK`; `IdleInv`: a sink that is not serving holds nothing; `LineInv`: stream, hand and queue
ascend; `HandInv`: what the bucket is updated with is in the stream; `BuiltInv`: how far the
construction has got, and what exists by then; and `LossesCounted`. It gives
`StreamKeepsOrder`, `NoSilentLoss` and `ConstructionIsWhole`. `BucketFollowsStream` rests on
`BucketInv`: each entry mirrors the stream, and so does the one that the worker has read and
not yet put back (`seen`), except for what is lost or still with the sink (`Lost`), as the message
in hand is until it is put. `Mirrors` needs no maximum: among the messages of the stream that
are not lost, none is newer than the field. `MirrorsMade` and `MirrorsMerged` are the two ways an
entry comes about, and rest on `ListsAgree`: the four lists of `Telemetry` have the same fields
under the same message, and no field under two. A field left out of one of the lists
breaks that lemma.

`BucketIsAtomic` shows step by step that `NatsSink` implements `DeviceStates`. It needs
`HeldInv`: the entry under the key in hand is what was read, or has expired meanwhile. A put of a
message is then `Merge` or `Begin` of the newest one (`PuttingRefines`, with `BucketInv`: that one is in
hand), and dropping what was read, by a failing put or a crash, changes nothing or is the
`Forget` of an entry that had expired (`DroppingRefines`). `MadeIsUpdated` says that the Go functions
make of an entry what `DeviceStates` does; it rests on `ListsAgree` again. What readers get from
it is `BucketNeverGoesBack`, proved of the abstract steps (`ValuesMove`) and carried over by the
refinement: a field of an entry is never replaced by the value of a message published
before the one it has.

`QueueLemmas` has the induction that these proofs share, in a form the provers can use: the
least element of a set of numbers (`LeastNatural`), a set that has 0 and the successor of
each of its members (`UpTo`), the solution of a recursion up to a bound (`Recursion`) and a
subset of least size (`SmallestSubset`). Each takes sets and functions, no operators.

Assumptions: the named ASSUMEs of the modules, which say what the constants are (sizes
are integers, defaults positive, producers are finitely many and at least one, agents are
not the absence of one). TLC evaluates each on a run.

Every invariant, every action property and the safety part of every refinement that a run
checks is a theorem, as are `DrainedOnClose` and `BucketNeverGoesBack`, which no run names. Only
model-checked are the liveness properties, because the prover handles neither fairness nor
ENABLED: `ParkedSenderReturns`, the fair contract (`ImplementsFairContract`; its safety part
is `Implementation`), `SignalStops`, `FanOutReturns`, `ShutdownCompletes`, `EventuallyFlushed`,
`CloseReturns` and `CallReturns`. The four runs with a counterexample state what does not hold.

## 5. Disagreements between code and documentation

Four are runs that end in a counterexample:

* `docs/deployment.md`: "graceful shutdown". Consumers are not awaited before the
  sinks are closed, so one may send on a closed queue (`RelayPanic`).
* "Final flush" (comments in Close): the context is cancelled first (`BatchSinkFinal`).
* "flushes remaining data" (gcs.go): the upload comes before the drain (`StagedClose`).
* `internal/sinks/README.md`: "Automatic retry on transient failures". The FileSink's
  own rotation takes the file out of reach of the next upload (`StagedRetry`).

Others show in the models, and no run states them:

* `docs/monitoring.md`: the gauge is the "current queue depth". Senders and worker
  read the length and set the gauge in separate steps, so a stale length can stay
  on an empty queue (`Count`, `Publish` and `WorkerPublish` of `AsyncSink`).
* `docs/deployment.md`: "Sinks have a 30-second timeout for cleanup". The context
  does not reach `wg.Wait`: `SinkCloseReturns` of `Relay` waits for the worker alone.
* `docs/deployment.md`: "MAVLink connections are closed cleanly". A repeated endpoint
  name hides the earlier node from shutdown (`NodeCreated`, `CloseNode`).
* `internal/sinks/README.md`: "Time-based flushing (e.g., every 30 seconds)" takes up
  to twice that and the flush itself; `FlushTimerBound` shows the bound that does hold.
* nats.go:318: "preserve fields from other message types". A read that fails for any
  reason starts the entry anew, without them (`GetFails` of `NatsSink`).
* README: the `stream` section is optional (`omitempty`, "if configured"); without it
  the construction of the NATS sink panics (`LogStarted` of `NatsSink`).
* factory.go:113: "log any errors as warnings". The errors of constructors that fail are
  dropped, so a sink can be missing without a trace (`initializeSinks` of `Relay`).
* README: `drone_id` is "Optional". Load leaves an endpoint of the mode 1:1 without one out
  with a warning, and that mode is the only one supported (`validateEndpointMode` of `Config`).
* `cmd/aero-arc-relay/main.go` sets `Debug`, `TLSCertPath`, `TLSKeyPath` and `GrpcPort`, which the
  configuration struct does not declare, and the gateway files use fields that
  `relay.go` does not declare: this commit does not compile as it stands.
* gatewayserver.go:95: a frame is acknowledged with STATUS_OK when every sink has been
  offered it, and some or all may have refused (`WriteFails` and `SendAck` of `Gateway`).

## 6. Not modelled

* HTTP endpoints, logging, TLS and the listen loop: no state that another part reads.
* The row converters of Timestream, BigQuery, Elasticsearch and InfluxDB, and the samples
  of Prometheus: unfinished. With them, what the backends make of a request: the items of
  a bulk response and the errors of InfluxDB's asynchronous writes, neither of which is read.
* The encodings of the FileSink and its csv writer, whose errors are sticky.
* The time stamps of envelopes, hence `last_seen`: it is taken over from every merged
  message without a comparison (nats.go:480), so it can go back when two consumers of one
  drone enqueue in the other order than they stamped.
* Subjects of NATS messages, values of fields, raw bytes of frames: nothing in the code
  branches on them.
* Mock sinks: test doubles.
* How long a backend call takes, outside `FlushTimer`; the 30 seconds that Close is given
  and does not look at.

What could follow, in this order:

1. Two relays that share a bucket: a put is no step of `DeviceStates`
   then, when the other relay has put in between, and the question is what still holds.
2. `SinkContract` implemented by the two queues in a row of `StagedUpload`, with a
   contract that lets the second queue drop.
3. The order of `Gateway` and of `Relay`'s shutdown, once `Start` runs the gRPC server.
