-------------------------------- MODULE Relay --------------------------------
(***************************************************************************)
(* internal/relay/relay.go and the signal handling of                      *)
(* cmd/aero-arc-relay/main.go: the life of one relay process, from loading *)
(* its configuration (module Config) over creating the sinks and           *)
(* Relay.Start to its end.                                                 *)
(*                                                                         *)
(* Processes: the main goroutine (start, serve, shut down), one            *)
(* processMessages goroutine per initialised endpoint, main.go's goroutine *)
(* that turns a signal into a context cancellation, Start's goroutine that *)
(* turns the cancellation into a signal, and the worker of every sink.     *)
(*                                                                         *)
(* Sinks are BaseAsyncSinks (module AsyncSink, whose metrics and internal  *)
(* steps are left out here), or "direct" sinks, whose WriteMessage runs in *)
(* the caller (module BatchSink).                                          *)
(***************************************************************************)
EXTENDS Integers, FiniteSetsExt, Functions, Config

CONSTANTS
    ConfigFiles,    \* the configuration files a process may be started with
    MaxEndpoints,   \* bound: endpoints in a file
    MaxSinks,       \* bound: sinks in a file
    Capacity,       \* queue size of every queueing sink
    MaxEvents,      \* bound: events each MAVLink node produces
    MaxSignals      \* bound: SIGINT/SIGTERM the operator sends

ASSUME ConfigAssumption ==
    \A f \in ConfigFiles :
        /\ {f.readable, f.parses} \subseteq BOOLEAN
        /\ f.endpoints \in Seq(MAVLinkEndpoint) /\ Len(f.endpoints) <= MaxEndpoints
        /\ f.dialect \in STRING
        /\ DOMAIN f.sinks \subseteq Range(FactoryOrder) \cup {"kafka"}
        /\ \A type \in DOMAIN f.sinks : f.sinks[type] \in {"drop", "block"}
        /\ Cardinality(DOMAIN f.sinks) <= MaxSinks
ASSUME BoundAssumption ==
    /\ MaxEndpoints \in Nat /\ MaxSinks \in Nat /\ Capacity \in Nat \ {0}
    /\ MaxEvents \in Nat /\ MaxSignals \in Nat

NodeSlots == 1..MaxEndpoints        \* the node created for the k-th endpoint
SinkSlots == 1..MaxSinks
Consumers == NodeSlots              \* the goroutine started for processed[i]
NoNode == 0

FileEndpoints == UNION {Range(f.endpoints) : f \in ConfigFiles}
Names == {e.name : e \in FileEndpoints}
Drones == {e.drone : e \in FileEndpoints}

VARIABLES
    file,           \* the file at --config-path
    endpoints,      \* r.config.MAVLink.Endpoints
    sinks,          \* r.sinks: the type of each sink
    broken,         \* history: the types whose constructor failed
    mpc,            \* where the main goroutine is
    next,           \* endpoint whose node is created next
    initErrs,       \* initializeMAVLinkNode collected an error
    connections,    \* r.connections: name -> node
    droneIDs,       \* r.endpointDroneIDs: name -> drone_id
    processed,      \* names of the endpoints with a node, in order
    nodeClosed,     \* node.Close() has been called
    events,         \* events each node has handed to a consumer
    gpc,            \* where each processMessages goroutine is
    gsink,          \* the sink its fan-out loop is at
    genv,           \* the envelope (or event) it is handling
    signals,        \* signals the operator has sent
    mainSig,        \* a signal is in main.go's sigChan
    canceller,      \* main.go's goroutine
    ctxDone,        \* the context has been cancelled
    relaySig,       \* a signal is in Start's channel
    bridge,         \* Start's goroutine waiting for ctx.Done
    sinkAt,         \* the sink shutdown is closing
    queue, hand, parked, sinkClosed,            \* of every sink
    offered,        \* calls of WriteMessage of every sink
    accepted,       \* ... that returned without an error
    sinkErrors,     \* ... that returned one
    finished,       \* messages a queueing sink's worker is done with
    buffered,       \* messages a direct sink has put into its buffer
    crashed

configVars == <<file, endpoints, sinks, broken>>
initVars   == <<next, initErrs, connections, droneIDs, processed>>
nodeVars   == <<nodeClosed, events>>
goVars     == <<gpc, gsink, genv>>
signalVars == <<signals, mainSig, canceller, ctxDone, relaySig, bridge>>
bufVars    == <<queue, hand, parked, sinkClosed>>
countVars  == <<offered, accepted, sinkErrors, finished, buffered>>
vars == <<configVars, mpc, initVars, nodeVars, goVars, signalVars, sinkAt, bufVars, countVars, crashed>>

Nodes == 1..Len(endpoints)
Sinks == 1..Len(sinks)

\* How WriteMessage of the s-th sink works: "drop", "block" or "direct".
Kind(s) == IF sinks[s] \in QueueTypes THEN file.sinks[sinks[s]] ELSE "direct"

Envelopes == [node : NodeSlots, source : Names, drone : Drones \cup Names]
NoEnvelope == <<>>

Init ==
    /\ file \in ConfigFiles
    /\ endpoints = <<>> /\ sinks = <<>> /\ broken = {}
    /\ mpc = "loading" /\ next = 1 /\ initErrs = FALSE
    /\ connections = [n \in Names |-> NoNode]
    /\ droneIDs = [n \in {} |-> ""]
    /\ processed = <<>>
    /\ nodeClosed = [k \in NodeSlots |-> FALSE]
    /\ events = [k \in NodeSlots |-> 0]
    /\ gpc = [i \in Consumers |-> "none"]
    /\ gsink = [i \in Consumers |-> 0]
    /\ genv = [i \in Consumers |-> NoEnvelope]
    /\ signals = 0 /\ mainSig = FALSE /\ canceller = "none" /\ ctxDone = FALSE
    /\ relaySig = FALSE /\ bridge = "none"
    /\ sinkAt = 0
    /\ queue = [s \in SinkSlots |-> <<>>]
    /\ hand = [s \in SinkSlots |-> <<>>]
    /\ parked = [s \in SinkSlots |-> <<>>]
    /\ sinkClosed = [s \in SinkSlots |-> FALSE]
    /\ offered = [s \in SinkSlots |-> 0] /\ accepted = [s \in SinkSlots |-> 0]
    /\ sinkErrors = [s \in SinkSlots |-> 0]
    /\ finished = [s \in SinkSlots |-> 0] /\ buffered = [s \in SinkSlots |-> 0]
    /\ crashed = FALSE

\* The process runs until Start has returned or a goroutine has panicked.
Alive == ~crashed /\ mpc \notin {"stopped", "failed", "killed"}

-----------------------------------------------------------------------------
(* RunRelay before Start: Load, New, the signal handler                    *)

\* An error exits the process.
LoadConfig ==
    /\ Alive
    /\ mpc = "loading"
    /\ IF LoadError(file) = NoError
       THEN endpoints' = ValidEndpoints(file) /\ mpc' = "creating"
       ELSE mpc' = "failed" /\ UNCHANGED endpoints
    /\ UNCHANGED <<file, sinks, broken, initVars, nodeVars, goVars, signalVars, sinkAt, bufVars,
                   countVars, crashed>>

\* relay.New: any of the configured sinks may fail to be created, and as long as
\* one can be the others' errors are dropped.
initializeSinks ==
    /\ Alive
    /\ mpc = "creating"
    /\ broken' \in SUBSET DOMAIN file.sinks
    /\ sinks' = CreateConfiguredSinks(DOMAIN file.sinks, broken')
    /\ mpc' = IF sinks' = <<>> THEN "failed" ELSE "created"
    /\ UNCHANGED <<file, endpoints, initVars, nodeVars, goVars, signalVars, sinkAt, bufVars,
                   countVars, crashed>>

\* signal.Notify on main.go's channel, and the goroutine that waits for it.
NotifyMain ==
    /\ Alive
    /\ mpc = "created"
    /\ canceller' = "waiting"
    /\ mpc' = "starting"
    /\ UNCHANGED <<configVars, initVars, nodeVars, goVars, signals, mainSig, ctxDone, relaySig,
                   bridge, sinkAt, bufVars, countVars, crashed>>
-----------------------------------------------------------------------------
(* Start: initializeMAVLinkNode, the consumers, the signal plumbing        *)

NodeSkipped == UNCHANGED <<initErrs, connections, droneIDs, processed>>

\* gomavlib.NewNode fails: the error is collected and the loop goes on.
NodeFails ==
    /\ initErrs' = TRUE
    /\ UNCHANGED <<connections, droneIDs, processed>>

\* The node is stored under its endpoint's name, whatever was there before.
NodeCreated ==
    LET e == endpoints[next]
    IN  /\ connections' = [connections EXCEPT ![e.name] = next]
        /\ droneIDs' = [n \in DOMAIN droneIDs \cup {e.name} |->
                           IF n = e.name THEN e.drone ELSE droneIDs[n]]
        /\ processed' = Append(processed, e.name)
        /\ UNCHANGED initErrs

InitEndpoint ==
    /\ Alive
    /\ mpc = "starting"
    /\ next \in Nodes
    /\ NodeFails \/ NodeCreated
    /\ next' = next + 1
    /\ UNCHANGED <<configVars, mpc, nodeVars, goVars, signalVars, sinkAt, bufVars, countVars, crashed>>

\* Any error: Start returns it and RunRelay exits.
StartFails ==
    /\ Alive
    /\ mpc = "starting"
    /\ next \notin Nodes
    /\ initErrs
    /\ mpc' = "failed"
    /\ UNCHANGED <<configVars, initVars, nodeVars, goVars, signalVars, sinkAt, bufVars, countVars, crashed>>

\* One consumer per processed name.
StartConsumers ==
    /\ Alive
    /\ mpc = "starting"
    /\ next \notin Nodes
    /\ ~initErrs
    /\ gpc' = [i \in Consumers |-> IF i <= Len(processed) THEN "receive" ELSE "none"]
    /\ mpc' = "started"
    /\ UNCHANGED <<configVars, initVars, nodeVars, gsink, genv, signalVars, sinkAt, bufVars, countVars, crashed>>

\* signal.Notify on Start's own channel, and the goroutine that waits for the
\* context.
Register ==
    /\ Alive
    /\ mpc = "started"
    /\ mpc' = "serving"
    /\ bridge' = "waiting"
    /\ UNCHANGED <<configVars, initVars, nodeVars, goVars, signals, mainSig, canceller, ctxDone, relaySig,
                   sinkAt, bufVars, countVars, crashed>>

-----------------------------------------------------------------------------
(* Signals                                                                 *)

Registered == mpc \notin {"starting", "started"}

\* Before main.go has registered its channel a signal ends the process.
SignalKills ==
    /\ Alive
    /\ signals < MaxSignals
    /\ canceller = "none"
    /\ signals' = signals + 1
    /\ mpc' = "killed"
    /\ UNCHANGED <<configVars, initVars, nodeVars, goVars, mainSig, canceller, ctxDone, relaySig,
                   bridge, sinkAt, bufVars, countVars, crashed>>

\* The runtime offers a signal to every registered channel without waiting.
Signal ==
    /\ Alive
    /\ signals < MaxSignals
    /\ canceller # "none"
    /\ signals' = signals + 1
    /\ mainSig' = TRUE
    /\ relaySig' = (relaySig \/ Registered)
    /\ UNCHANGED <<configVars, mpc, initVars, nodeVars, goVars, canceller, ctxDone, bridge, sinkAt,
                   bufVars, countVars, crashed>>

\* <-sigChan; cancel()
Cancel ==
    /\ Alive
    /\ canceller = "waiting"
    /\ mainSig
    /\ mainSig' = FALSE
    /\ canceller' = "done"
    /\ ctxDone' = TRUE
    /\ UNCHANGED <<configVars, mpc, initVars, nodeVars, goVars, signals, relaySig, bridge, sinkAt,
                   bufVars, countVars, crashed>>

BridgeIgnored == FALSE

BridgeReady == bridge = "waiting" /\ ctxDone

\* <-ctx.Done(); signals <- SIGTERM, which waits while the channel is full.
Bridge ==
    /\ Alive
    /\ BridgeReady
    /\ ~relaySig
    /\ relaySig' = TRUE
    /\ bridge' = "done"
    /\ UNCHANGED <<configVars, mpc, initVars, nodeVars, goVars, signals, mainSig, canceller, ctxDone,
                   sinkAt, bufVars, countVars, crashed>>

-----------------------------------------------------------------------------
(* processMessages and the fan-out                                         *)

Endpoint(i) == processed[i]
Node(i) == connections[Endpoint(i)]

\* for evt := range node.Events(): the next event of the node's channel.
\* Only telemetry frames lead to writes; every other event is logged.
Receive(i) ==
    /\ Alive
    /\ gpc[i] = "receive"
    /\ ~nodeClosed[Node(i)]
    /\ events[Node(i)] < MaxEvents
    /\ events' = [events EXCEPT ![Node(i)] = @ + 1]
    /\ gpc' = [gpc EXCEPT ![i] = "check"]
    /\ UNCHANGED <<configVars, mpc, initVars, nodeClosed, gsink, genv, signalVars, sinkAt, bufVars,
                   countVars, crashed>>

\* The channel is closed: the goroutine returns.
EventsEnd(i) ==
    /\ Alive
    /\ gpc[i] = "receive"
    /\ nodeClosed[Node(i)]
    /\ gpc' = [gpc EXCEPT ![i] = "exited"]
    /\ UNCHANGED <<configVars, mpc, initVars, nodeVars, gsink, genv, signalVars, sinkAt, bufVars,
                   countVars, crashed>>

\* The select finds the context done: the event in hand is discarded.
StopOnContext(i) ==
    /\ Alive
    /\ gpc[i] = "check"
    /\ ctxDone
    /\ gpc' = [gpc EXCEPT ![i] = "exited"]
    /\ UNCHANGED <<configVars, mpc, initVars, nodeVars, gsink, genv, signalVars, sinkAt, bufVars,
                   countVars, crashed>>

NameAsDroneID(name) == name

\* The name stands in for a drone_id that was never stored.
getDroneID(name) == IF name \in DOMAIN droneIDs THEN droneIDs[name] ELSE name

\* A frame of one of the five handled types becomes an envelope ...
HandleFrame(i) ==
    /\ Alive
    /\ gpc[i] = "check"
    /\ ~ctxDone
    /\ genv' = [genv EXCEPT ![i] = [node   |-> Node(i),
                                    source |-> Endpoint(i),
                                    drone  |-> getDroneID(Endpoint(i))]]
    /\ gsink' = [gsink EXCEPT ![i] = 1]
    /\ gpc' = [gpc EXCEPT ![i] = "fanout"]
    /\ UNCHANGED <<configVars, mpc, initVars, nodeVars, signalVars, sinkAt, bufVars, countVars, crashed>>

\* ... and any other event ends here.
IgnoreEvent(i) ==
    /\ Alive
    /\ gpc[i] = "check"
    /\ ~ctxDone
    /\ gpc' = [gpc EXCEPT ![i] = "receive"]
    /\ UNCHANGED <<configVars, mpc, initVars, nodeVars, gsink, genv, signalVars, sinkAt, bufVars,
                   countVars, crashed>>

\* handleTelemetryMessage after the last sink.
FanOutDone(i) ==
    /\ Alive
    /\ gpc[i] = "fanout"
    /\ gsink[i] \notin Sinks
    /\ gpc' = [gpc EXCEPT ![i] = "receive"]
    /\ gsink' = [gsink EXCEPT ![i] = 0]
    /\ genv' = [genv EXCEPT ![i] = NoEnvelope]
    /\ UNCHANGED <<configVars, mpc, initVars, nodeVars, signalVars, sinkAt, bufVars, countVars, crashed>>

AtSink(i, s) ==
    /\ Alive
    /\ gpc[i] = "fanout"
    /\ gsink[i] = s
    /\ offered' = [offered EXCEPT ![s] = @ + 1]

HasRoomOffByOne(s) == Len(queue[s]) <= Capacity

HasRoom(s) == Len(queue[s]) < Capacity

AfterErrorReturn(i) == Len(sinks) + 1

\* A sink's error does not end the loop: the next sink follows.
AfterError(i) == gsink[i] + 1

ErrorUncounted(s) == UNCHANGED sinkErrors

CountError(s) == sinkErrors' = [sinkErrors EXCEPT ![s] = @ + 1]

\* A direct sink appends the message to its buffer before anything can fail.
Buffers(s) ==
    buffered' = IF Kind(s) = "direct" THEN [buffered EXCEPT ![s] = @ + 1] ELSE buffered

\* WriteMessage returns nil: the message is in the queue of a queueing sink, or in
\* the buffer of a direct one, where only a flush can finish it (BatchSink).
WriteTaken(i, s) ==
    /\ AtSink(i, s)
    /\ ~sinkClosed[s] \/ Kind(s) = "direct"
    /\ Kind(s) = "direct" \/ HasRoom(s)
    /\ accepted' = [accepted EXCEPT ![s] = @ + 1]
    /\ Buffers(s)
    /\ queue' = IF Kind(s) = "direct" THEN queue ELSE [queue EXCEPT ![s] = Append(@, genv[i])]
    /\ gsink' = [gsink EXCEPT ![i] = @ + 1]
    /\ UNCHANGED <<configVars, mpc, initVars, nodeVars, gpc, genv, signalVars, sinkAt, hand, parked,
                   sinkClosed, sinkErrors, finished, crashed>>

\* WriteMessage returns an error: of a full queue, or of the flush of a direct
\* sink, which keeps the message in its buffer for a later one.
WriteFails(i, s) ==
    /\ AtSink(i, s)
    /\ \/ Kind(s) = "direct"
       \/ Kind(s) = "drop" /\ ~sinkClosed[s] /\ ~HasRoom(s)
    /\ CountError(s)
    /\ Buffers(s)
    /\ gsink' = [gsink EXCEPT ![i] = AfterError(i)]
    /\ UNCHANGED <<configVars, mpc, initVars, nodeVars, gpc, genv, signalVars, sinkAt, bufVars,
                   accepted, finished, crashed>>

\* A full queue with the block policy: the whole fan-out waits.
WriteWaits(i, s) ==
    /\ AtSink(i, s)
    /\ Kind(s) = "block" /\ ~sinkClosed[s] /\ ~HasRoom(s)
    /\ parked' = [parked EXCEPT ![s] = Append(@, i)]
    /\ gpc' = [gpc EXCEPT ![i] = "parked"]
    /\ UNCHANGED <<configVars, mpc, initVars, nodeVars, gsink, genv, signalVars, sinkAt, queue, hand,
                   sinkClosed, accepted, sinkErrors, finished, buffered, crashed>>

\* A send on the closed channel of a sink panics.
WritePanics(i, s) ==
    /\ AtSink(i, s)
    /\ Kind(s) # "direct" /\ sinkClosed[s]
    /\ gpc' = [gpc EXCEPT ![i] = "panicking"]
    /\ UNCHANGED <<configVars, mpc, initVars, nodeVars, gsink, genv, signalVars, sinkAt, bufVars,
                   accepted, sinkErrors, finished, buffered, crashed>>

WriteMessage(i) == \E s \in Sinks :
    WriteTaken(i, s) \/ WriteFails(i, s) \/ WriteWaits(i, s) \/ WritePanics(i, s)

Panic(i) ==
    /\ Alive
    /\ gpc[i] = "panicking"
    /\ crashed' = TRUE
    /\ UNCHANGED <<configVars, mpc, initVars, nodeVars, goVars, signalVars, sinkAt, bufVars, countVars>>

-----------------------------------------------------------------------------
(* The workers of the queueing sinks                                       *)

AdmitNone(s) ==
    /\ queue' = [queue EXCEPT ![s] = Tail(@)]
    /\ UNCHANGED <<parked, accepted, gpc, gsink>>

\* The freed slot goes to the first parked consumer, if there is one.
AdmitFirst(s) ==
    IF parked[s] = <<>> THEN AdmitNone(s)
    ELSE LET i == Head(parked[s])
         IN  /\ queue' = [queue EXCEPT ![s] = Append(Tail(@), genv[i])]
             /\ parked' = [parked EXCEPT ![s] = Tail(@)]
             /\ accepted' = [accepted EXCEPT ![s] = @ + 1]
             /\ gpc' = [gpc EXCEPT ![i] = "fanout"]
             /\ gsink' = [gsink EXCEPT ![i] = @ + 1]

Take(s) ==
    /\ Alive
    /\ hand[s] = <<>>
    /\ queue[s] # <<>>
    /\ hand' = [hand EXCEPT ![s] = <<Head(queue[s])>>]
    /\ AdmitFirst(s)
    /\ UNCHANGED <<configVars, mpc, initVars, nodeVars, genv, signalVars, sinkAt, sinkClosed, offered,
                   sinkErrors, finished, buffered, crashed>>

\* The worker's callback returns, with or without an error.
Handled(s) ==
    /\ Alive
    /\ hand[s] # <<>>
    /\ hand' = [hand EXCEPT ![s] = <<>>]
    /\ finished' = [finished EXCEPT ![s] = @ + 1]
    /\ UNCHANGED <<configVars, mpc, initVars, nodeVars, goVars, signalVars, sinkAt, queue, parked,
                   sinkClosed, offered, accepted, sinkErrors, buffered, crashed>>

-----------------------------------------------------------------------------
(* Shutdown: nodes, sinks one after the other, HTTP server                 *)

ShutdownBegins ==
    /\ Alive
    /\ mpc = "serving"
    /\ relaySig
    /\ relaySig' = FALSE
    /\ mpc' = "closing_nodes"
    /\ UNCHANGED <<configVars, initVars, nodeVars, goVars, signals, mainSig, canceller, ctxDone, bridge,
                   sinkAt, bufVars, countVars, crashed>>

\* connections.Range visits every stored node, in no particular order.
CloseNode(n) ==
    /\ Alive
    /\ mpc = "closing_nodes"
    /\ connections[n] # NoNode
    /\ ~nodeClosed[connections[n]]
    /\ nodeClosed' = [nodeClosed EXCEPT ![connections[n]] = TRUE]
    /\ UNCHANGED <<configVars, mpc, initVars, events, goVars, signalVars, sinkAt, bufVars, countVars, crashed>>

NodesNotAwaited == TRUE

NodesClosed == \A n \in Names : connections[n] # NoNode => nodeClosed[connections[n]]

RangeEnds ==
    /\ Alive
    /\ mpc = "closing_nodes"
    /\ NodesClosed
    /\ mpc' = "closing_sinks"
    /\ sinkAt' = 1
    /\ UNCHANGED <<configVars, initVars, nodeVars, goVars, signalVars, bufVars, countVars, crashed>>

\* sink.Close(ctx): parked consumers panic.  No sink looks at ctx here.
CloseSink(s) ==
    /\ Alive
    /\ mpc = "closing_sinks" /\ sinkAt = s
    /\ ~sinkClosed[s]
    /\ sinkClosed' = [sinkClosed EXCEPT ![s] = TRUE]
    /\ gpc' = [i \in Consumers |->
                  IF gpc[i] = "parked" /\ gsink[i] = s THEN "panicking" ELSE gpc[i]]
    /\ parked' = [parked EXCEPT ![s] = <<>>]
    /\ UNCHANGED <<configVars, mpc, initVars, nodeVars, gsink, genv, signalVars, sinkAt, queue, hand,
                   countVars, crashed>>

DrainNotAwaited(s) == TRUE

Drained(s) == queue[s] = <<>> /\ hand[s] = <<>>

\* Close returns when the worker has drained the queue and left.
SinkCloseReturns(s) ==
    /\ Alive
    /\ mpc = "closing_sinks" /\ sinkAt = s
    /\ sinkClosed[s]
    /\ Drained(s)
    /\ sinkAt' = s + 1
    /\ UNCHANGED <<configVars, mpc, initVars, nodeVars, goVars, signalVars, bufVars, countVars, crashed>>

\* After the last sink the HTTP server gets at most ten seconds; Start returns.
Stop ==
    /\ Alive
    /\ mpc = "closing_sinks" /\ sinkAt \notin Sinks
    /\ mpc' = "stopped"
    /\ UNCHANGED <<configVars, initVars, nodeVars, goVars, signalVars, sinkAt, bufVars, countVars, crashed>>

-----------------------------------------------------------------------------

RunRelay == LoadConfig \/ initializeSinks \/ NotifyMain

Starting == InitEndpoint \/ StartFails \/ StartConsumers \/ Register

Consumer(i) ==
    \/ EventsEnd(i) \/ StopOnContext(i) \/ HandleFrame(i) \/ IgnoreEvent(i)
    \/ WriteMessage(i) \/ FanOutDone(i) \/ Panic(i)

Shutdown ==
    \/ ShutdownBegins
    \/ \E n \in Names : CloseNode(n)
    \/ RangeEnds
    \/ \E s \in Sinks : CloseSink(s) \/ SinkCloseReturns(s)
    \/ Stop

\* The process is over.
Ended == ~Alive /\ UNCHANGED vars

Next ==
    \/ RunRelay \/ Starting \/ Shutdown
    \/ SignalKills \/ Signal \/ Cancel \/ Bridge
    \/ \E i \in Consumers : Receive(i) \/ Consumer(i)
    \/ \E s \in Sinks : Take(s) \/ Handled(s)
    \/ Ended

Spec == Init /\ [][Next]_vars

\* Goroutines that can run do run.  Events and signals arrive or do not.
Scheduling ==
    /\ WF_vars(RunRelay) /\ WF_vars(Starting) /\ WF_vars(Shutdown) /\ WF_vars(Cancel) /\ WF_vars(Bridge)
    /\ \A i \in Consumers : WF_vars(Consumer(i))
    /\ \A s \in SinkSlots : WF_vars(Take(s))

\* Backends answer every call, sooner or later.
BackendsAnswer == \A s \in SinkSlots : WF_vars(Handled(s))

FairSpec == Spec /\ Scheduling /\ BackendsAnswer

-----------------------------------------------------------------------------
(* Properties                                                              *)

StartTypes ==
    /\ file \in ConfigFiles /\ endpoints \in Seq(FileEndpoints)
    /\ sinks \in Seq(Range(FactoryOrder)) /\ broken \subseteq DOMAIN file.sinks
    /\ Len(endpoints) <= MaxEndpoints /\ Len(sinks) <= MaxSinks
    /\ mpc \in {"loading", "creating", "created", "starting", "started", "serving",
                "closing_nodes", "closing_sinks", "stopped", "failed", "killed"}
    /\ next \in 1..(Len(endpoints) + 1) /\ initErrs \in BOOLEAN
    /\ connections \in [Names -> Nodes \cup {NoNode}]
    /\ DOMAIN droneIDs \subseteq Names /\ \A n \in DOMAIN droneIDs : droneIDs[n] \in Drones
    /\ processed \in Seq(Names) /\ Len(processed) < next
    /\ nodeClosed \in [NodeSlots -> BOOLEAN] /\ events \in [NodeSlots -> 0..MaxEvents]

SignalTypes ==
    /\ signals \in 0..MaxSignals
    /\ {mainSig, ctxDone, relaySig, crashed} \subseteq BOOLEAN
    /\ canceller \in {"none", "waiting", "done"} /\ bridge \in {"none", "waiting", "done"}

ConsumerTypes ==
    /\ gpc \in [Consumers -> {"none", "receive", "check", "fanout", "parked", "panicking",
                              "exited"}]
    /\ gsink \in [Consumers -> 0..(Len(sinks) + 1)]
    /\ genv \in [Consumers -> Envelopes \cup {NoEnvelope}]

SinkTypes ==
    /\ sinkAt \in 0..(Len(sinks) + 1)
    /\ sinkClosed \in [SinkSlots -> BOOLEAN]
    /\ queue \in [SinkSlots -> Seq(Envelopes)] /\ hand \in [SinkSlots -> Seq(Envelopes)]
    /\ parked \in [SinkSlots -> Seq(Consumers)]
    /\ \A s \in SinkSlots : Len(queue[s]) <= Capacity /\ Len(hand[s]) <= 1
    /\ offered \in [SinkSlots -> Nat] /\ accepted \in [SinkSlots -> Nat]
    /\ sinkErrors \in [SinkSlots -> Nat]
    /\ finished \in [SinkSlots -> Nat] /\ buffered \in [SinkSlots -> Nat]

\* Type invariant of relay.go's state; no queue outgrows its capacity.
TypeOK == StartTypes /\ SignalTypes /\ ConsumerTypes /\ SinkTypes

\* A process gets as far as its consumers only with every valid endpoint of the
\* file: each is read by the consumer of its place, unless another endpoint has
\* its name, and no node stays open when the sinks are closed.  Its sinks are
\* those the file names and that could be created, and
\* never none (config.go:257-266, relay.go:70-78, factory.go:97-105).
ServedAsConfigured ==
    mpc \in {"started", "serving", "closing_nodes", "closing_sinks", "stopped"} =>
        LET Valid == {j \in DOMAIN file.endpoints : validateEndpoint(file.endpoints[j])}
            Place(j) == Cardinality({i \in Valid : i <= j})
            IsUnique(j) ==
                \A i \in Valid : file.endpoints[i].name = file.endpoints[j].name => i = j
        IN  /\ Valid # {}
            /\ \A j \in Valid :
                /\ gpc[Place(j)] # "none"
                /\ IsUnique(j) => Node(Place(j)) = Place(j)
                /\ IsUnique(j) /\ mpc \in {"closing_sinks", "stopped"} => nodeClosed[Place(j)]
            /\ sinks # <<>> /\ Range(sinks) = DOMAIN file.sinks \ (broken \cup {"kafka"})

\* The consumer has called WriteMessage of sink s for the message it handles.
HasOffered(i, s) ==
    s < gsink[i] \/ (s = gsink[i] /\ gpc[i] \in {"parked", "panicking"})

\* Every telemetry message is offered to every sink, in the configured order,
\* and no sink's error, full queue or waiting keeps it from the sinks after it:
\* two sinks' counts of offers differ only by the messages in between them
\* (handleTelemetryMessage, relay.go:412-417).
EverySinkOffered ==
    \A s, t \in Sinks :
        s < t => offered[s] - offered[t] =
                 Cardinality({i \in Consumers : HasOffered(i, s) /\ ~HasOffered(i, t)})

\* Every call of a sink returned nil, or its error was counted, or its caller is
\* still waiting or dying in it: no message disappears unaccounted.
OffersAccounted ==
    \A s \in Sinks :
        offered[s] = accepted[s] + sinkErrors[s]
            + Cardinality({i \in Consumers : gsink[i] = s /\ gpc[i] \in {"parked", "panicking"}})

\* Every envelope, on its way or in a sink, carries the drone_id configured for
\* the endpoint whose node received the frame, whichever consumer handled it
\* and whatever names the endpoints have (relay.go:205-207, 285-296).
DroneAttribution ==
    LET Right(e) == e.drone = endpoints[e.node].drone
                    /\ e.source = endpoints[e.node].name
    IN  /\ \A i \in Consumers : genv[i] # NoEnvelope => Right(genv[i])
        /\ \A s \in Sinks : \A j \in DOMAIN queue[s] : Right(queue[s][j])

\* When Start returns, no queue holds a message back: the worker of a queueing
\* sink is done with everything the sink accepted, and a direct sink has put every
\* message it was offered into its buffer, those of failed calls included.
\* Whether the buffer, or the file an S3 or GCS worker writes to, reaches its
\* backend is the business of BatchSink and StagedUpload, whose runs
\* BatchSinkFinal and StagedClose show that it may not.
StoppedIsDrained ==
    mpc = "stopped" =>
        \A s \in Sinks : IF Kind(s) = "direct" THEN buffered[s] = offered[s]
                         ELSE finished[s] = accepted[s]

\* Once the first sink is closed no consumer takes another event from a node:
\* shutdown closes the sources first (relay.go:107-127).
QuietAfterSinksClose ==
    [][(\E s \in Sinks : sinkClosed[s]) => UNCHANGED events]_vars

\* A signal ends the process whenever it arrives, also while Start has not yet
\* registered its own channel and only main.go hears it.
SignalStops == signals > 0 ~> ~Alive

\* A consumer gets through its fan-out although sinks block: with answering
\* backends, one full sink delays the others and does not starve them.
FanOutReturns ==
    \A i \in Consumers :
        gpc[i] \in {"fanout", "parked"} ~> (gpc[i] \in {"receive", "exited"} \/ ~Alive)

-----------------------------------------------------------------------------
(* What the documentation says of a shutdown (docs/deployment.md)          *)

\* "The relay supports graceful shutdown": no goroutine panics.
ShutdownIsGraceful == ~crashed
=============================================================================
