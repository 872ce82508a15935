------------------------------- MODULE Gateway -------------------------------
(***************************************************************************)
(* internal/relay/gatewayserver.go and streams.go: agents register, which  *)
(* makes a session, and open telemetry streams, whose frames are forwarded *)
(* to the sinks and acknowledged.                                          *)
(*                                                                         *)
(* Every call of TelemetryStream runs in a goroutine of the gRPC server, as*)
(* does every call of Register; an agent may have several streams, one     *)
(* after the other or at a time, and register again whenever it likes.  The*)
(* stream itself is gRPC's: frames arrive in order, the client closes its  *)
(* sending side or goes away, and going away cancels the context.          *)
(*                                                                         *)
(* Sinks are as in module Relay, except that taking a message and handling *)
(* it is one step of their worker, and that nobody closes them: Relay.Start*)
(* does not start a gRPC server yet, so shutdown has no order with it.     *)
(***************************************************************************)
EXTENDS Integers, Sequences, Functions

CONSTANTS
    Agents,         \* agent ids
    Calls,          \* calls of TelemetryStream
    NoAgent,        \* no agent id: of a session not made, of a call not opened
    NoStream,       \* the nil stream of a session
    SinkKinds,      \* r.sinks in order, each "drop", "block" or "direct"
    Capacity,       \* queue size of every queueing sink
    MaxFrames,      \* bound: frames all streams deliver together
    MaxSessions     \* bound: calls of Register

ASSUME NothingAssumption == NoAgent \notin Agents /\ NoStream \notin Calls
ASSUME GatewayAssumption ==
    /\ SinkKinds \in Seq({"drop", "block", "direct"})
    /\ Capacity \in Nat \ {0}
    /\ MaxFrames \in Nat /\ MaxSessions \in Nat

Sinks == 1..Len(SinkKinds)
SessionIds == 1..MaxSessions        \* session objects, in order of creation
NoSession == 0

VARIABLES
    sessions,   \* r.grpcSessions: agent -> session object
    created,    \* session objects made so far
    owner,      \* agentID of each session object
    stream,     \* stream of each session object
    hpc,        \* where each call is
    agent,      \* agentID[0] of each call
    session,    \* the session its updateStream looked up
    client,     \* what the client at the other end of each stream has done
    received,   \* frames a call has received; the last is the one it handles
    at,         \* the sink its fan-out loop is at
    acked,      \* acknowledgements it has sent
    queue, parked,  \* of every sink: queue, and calls waiting for room in it
    offered     \* history: frames of every call that WriteMessage of every
                \* sink has taken or refused, in order

sessionVars == <<sessions, created, owner, stream>>
callVars    == <<agent, session>>
frameVars   == <<received, at, acked>>
sinkVars    == <<queue, parked, offered>>
vars == <<sessionVars, hpc, callVars, client, frameVars, sinkVars>>

Frame(c) == [call |-> c, n |-> received[c]]
Frames == [call : Calls, n : Nat]

Init ==
    /\ sessions = [a \in Agents |-> NoSession] /\ created = 0
    /\ owner = [o \in SessionIds |-> NoAgent]
    /\ stream = [o \in SessionIds |-> NoStream]
    /\ hpc = [c \in Calls |-> "none"]
    /\ agent = [c \in Calls |-> NoAgent]
    /\ session = [c \in Calls |-> NoSession]
    /\ client = [c \in Calls |-> "open"]
    /\ received = [c \in Calls |-> 0]
    /\ at = [c \in Calls |-> 0]
    /\ acked = [c \in Calls |-> 0]
    /\ queue = [s \in Sinks |-> <<>>] /\ parked = [s \in Sinks |-> <<>>]
    /\ offered = [s \in Sinks |-> [c \in Calls |-> <<>>]]

Goto(c, state) == hpc' = [hpc EXCEPT ![c] = state]

-----------------------------------------------------------------------------
(* Register                                                                *)

SessionReused(a) ==
    IF sessions[a] = NoSession
    THEN /\ created' = created + 1
         /\ sessions' = [sessions EXCEPT ![a] = created + 1]
         /\ owner' = [owner EXCEPT ![created + 1] = a]
         /\ UNCHANGED stream
    ELSE /\ stream' = [stream EXCEPT ![sessions[a]] = NoStream]
         /\ UNCHANGED <<created, sessions, owner>>

\* A session object of its own replaces the agent's last one, and has no stream.
NewSession(a) ==
    /\ created' = created + 1
    /\ sessions' = [sessions EXCEPT ![a] = created + 1]
    /\ owner' = [owner EXCEPT ![created + 1] = a]
    /\ UNCHANGED stream

Register(a) ==
    /\ created < MaxSessions
    /\ NewSession(a)
    /\ UNCHANGED <<hpc, callVars, client, frameVars, sinkVars>>

-----------------------------------------------------------------------------
(* TelemetryStream: the session                                            *)

\* Without metadata, or without an agent id in it: InvalidArgument.
OpenUnnamed(c) ==
    /\ hpc[c] = "none"
    /\ Goto(c, "returned")
    /\ UNCHANGED <<sessionVars, callVars, client, frameVars, sinkVars>>

Open(c, a) ==
    /\ hpc[c] = "none"
    /\ agent' = [agent EXCEPT ![c] = a]
    /\ Goto(c, "lookup")
    /\ UNCHANGED <<sessionVars, session, client, frameVars, sinkVars>>

\* updateStream, under the read lock of the map: an unknown agent gets Internal.
Lookup(c) ==
    /\ hpc[c] = "lookup"
    /\ session' = [session EXCEPT ![c] = sessions[agent[c]]]
    /\ Goto(c, IF sessions[agent[c]] = NoSession THEN "returned" ELSE "attach")
    /\ UNCHANGED <<sessionVars, agent, client, frameVars, sinkVars>>

\* Under the mutex of the session that was found.  It may have been replaced.
Attach(c) ==
    /\ hpc[c] = "attach"
    /\ stream' = [stream EXCEPT ![session[c]] = c]
    /\ Goto(c, "check")
    /\ UNCHANGED <<sessions, created, owner, callVars, client, frameVars, sinkVars>>

-----------------------------------------------------------------------------
(* TelemetryStream: the loop                                               *)

ContextDone(c) == client[c] = "gone"

\* The select at the top of the loop.
Check(c) ==
    /\ hpc[c] = "check"
    /\ Goto(c, IF ContextDone(c) THEN "returned" ELSE "receive")
    /\ UNCHANGED <<sessionVars, callVars, client, frameVars, sinkVars>>

\* Recv returns a frame, which may have waited in the transport since before
\* the client stopped sending.
Receive(c) ==
    /\ hpc[c] = "receive"
    /\ SumFunction(received) < MaxFrames
    /\ received' = [received EXCEPT ![c] = @ + 1]
    /\ at' = [at EXCEPT ![c] = 1]
    /\ Goto(c, "fanout")
    /\ UNCHANGED <<sessionVars, callVars, client, acked, sinkVars>>

ReceiveRetries(c) ==
    /\ hpc[c] = "receive"
    /\ client[c] # "open"
    /\ Goto(c, "check")
    /\ UNCHANGED <<sessionVars, callVars, client, frameVars, sinkVars>>

\* Recv returns io.EOF, or the error of a cancelled context: the call returns.
ReceiveEnds(c) ==
    /\ hpc[c] = "receive"
    /\ client[c] # "open"
    /\ Goto(c, "returned")
    /\ UNCHANGED <<sessionVars, callVars, client, frameVars, sinkVars>>

HasRoomOffByOne(s) == Len(queue[s]) <= Capacity

HasRoom(s) == Len(queue[s]) < Capacity

AtSink(c, s) == hpc[c] = "fanout" /\ at[c] = s

Offered(s, c) == offered' = [offered EXCEPT ![s][c] = Append(@, received[c])]

\* handleTelemetryMessage at sink s: the sink takes the frame, into its queue or
\* the buffer of a direct sink, which is left to BatchSink ...
WriteTaken(c, s) ==
    /\ AtSink(c, s)
    /\ SinkKinds[s] = "direct" \/ HasRoom(s)
    /\ queue' = IF SinkKinds[s] = "direct" THEN queue
                ELSE [queue EXCEPT ![s] = Append(@, Frame(c))]
    /\ Offered(s, c)
    /\ at' = [at EXCEPT ![c] = s + 1]
    /\ UNCHANGED <<sessionVars, hpc, callVars, client, received, acked, parked>>

AfterErrorReturn(s) == Len(SinkKinds) + 1

\* An error of one sink is counted; the loop goes on with the next.
AfterError(s) == s + 1

\* ... or returns an error: of a full queue, or of the flush of a direct sink,
\* which has the frame in its buffer all the same ...
WriteFails(c, s) ==
    /\ AtSink(c, s)
    /\ SinkKinds[s] = "direct" \/ (SinkKinds[s] = "drop" /\ ~HasRoom(s))
    /\ Offered(s, c)
    /\ at' = [at EXCEPT ![c] = AfterError(s)]
    /\ UNCHANGED <<sessionVars, hpc, callVars, client, received, acked, queue, parked>>

\* ... or makes the call wait for room.
WriteWaits(c, s) ==
    /\ AtSink(c, s)
    /\ SinkKinds[s] = "block" /\ ~HasRoom(s)
    /\ parked' = [parked EXCEPT ![s] = Append(@, c)]
    /\ Goto(c, "parked")
    /\ UNCHANGED <<sessionVars, callVars, client, frameVars, queue, offered>>

FanOutDone(c) ==
    /\ hpc[c] = "fanout"
    /\ at[c] \notin Sinks
    /\ Goto(c, "ack")
    /\ UNCHANGED <<sessionVars, callVars, client, frameVars, sinkVars>>

\* Send(ack) with the frame's Seq and STATUS_OK.
SendAck(c) ==
    /\ hpc[c] = "ack"
    /\ acked' = [acked EXCEPT ![c] = received[c]]
    /\ Goto(c, "check")
    /\ UNCHANGED <<sessionVars, callVars, client, received, at, sinkVars>>

\* The client is gone: the call returns, and the frame stays unacknowledged.
SendFails(c) ==
    /\ hpc[c] = "ack"
    /\ ContextDone(c)
    /\ Goto(c, "returned")
    /\ UNCHANGED <<sessionVars, callVars, client, frameVars, sinkVars>>

-----------------------------------------------------------------------------
(* The sinks' workers and the clients                                      *)

AdmitNone(s) ==
    /\ queue' = [queue EXCEPT ![s] = Tail(@)]
    /\ UNCHANGED <<hpc, at, parked, offered>>

\* The slot a worker frees goes to the first call that waits for it.
AdmitFirst(s) ==
    IF parked[s] = <<>> THEN AdmitNone(s)
    ELSE LET c == Head(parked[s])
         IN  /\ queue' = [queue EXCEPT ![s] = Append(Tail(@), Frame(c))]
             /\ parked' = [parked EXCEPT ![s] = Tail(@)]
             /\ Offered(s, c)
             /\ at' = [at EXCEPT ![c] = s + 1]
             /\ Goto(c, "fanout")

Work(s) ==
    /\ queue[s] # <<>>
    /\ AdmitFirst(s)
    /\ UNCHANGED <<sessionVars, callVars, client, received, acked>>

Ongoing(c) == hpc[c] \notin {"none", "returned"}

\* The client of a call closes its side, or its connection ends.
CloseSend(c) ==
    /\ Ongoing(c)
    /\ client[c] = "open"
    /\ client' = [client EXCEPT ![c] = "half-closed"]
    /\ UNCHANGED <<sessionVars, hpc, callVars, frameVars, sinkVars>>

Disconnect(c) ==
    /\ Ongoing(c)
    /\ client[c] # "gone"
    /\ client' = [client EXCEPT ![c] = "gone"]
    /\ UNCHANGED <<sessionVars, hpc, callVars, frameVars, sinkVars>>

-----------------------------------------------------------------------------

updateStream(c) == Lookup(c) \/ Attach(c)

handleTelemetryFrame(c) ==
    \/ \E s \in Sinks : WriteTaken(c, s) \/ WriteFails(c, s) \/ WriteWaits(c, s)
    \/ FanOutDone(c)

\* What a call does once it has been made.
TelemetryStream(c) ==
    \/ updateStream(c) \/ Check(c) \/ Receive(c) \/ ReceiveEnds(c)
    \/ handleTelemetryFrame(c) \/ SendAck(c) \/ SendFails(c)

\* Every call has been made and has returned.
Ended == (\A c \in Calls : hpc[c] = "returned") /\ UNCHANGED vars

Next ==
    \/ \E a \in Agents : Register(a)
    \/ \E c \in Calls :
        \/ OpenUnnamed(c) \/ (\E a \in Agents : Open(c, a))
        \/ TelemetryStream(c)
        \/ CloseSend(c) \/ Disconnect(c)
    \/ \E s \in Sinks : Work(s)
    \/ Ended

Spec == Init /\ [][Next]_vars

\* Calls that can go on do, and the sinks' backends answer.
FairSpec ==
    /\ Spec
    /\ \A c \in Calls : WF_vars(TelemetryStream(c))
    /\ \A s \in Sinks : WF_vars(Work(s))

-----------------------------------------------------------------------------
(* Properties                                                              *)

\* Type invariant; no queue outgrows its capacity.
TypeOK ==
    /\ sessions \in [Agents -> 0..created] /\ created \in 0..MaxSessions
    /\ owner \in [SessionIds -> Agents \cup {NoAgent}]
    /\ stream \in [SessionIds -> Calls \cup {NoStream}]
    /\ hpc \in [Calls -> {"none", "lookup", "attach", "check", "receive", "fanout", "parked",
                          "ack", "returned"}]
    /\ agent \in [Calls -> Agents \cup {NoAgent}]
    /\ session \in [Calls -> 0..created]
    /\ client \in [Calls -> {"open", "half-closed", "gone"}]
    /\ received \in [Calls -> Nat] /\ acked \in [Calls -> Nat]
    /\ at \in [Calls -> 0..(Len(SinkKinds) + 1)]
    /\ queue \in [Sinks -> Seq(Frames)] /\ \A s \in Sinks : Len(queue[s]) <= Capacity
    /\ parked \in [Sinks -> Seq(Calls)]
    /\ offered \in [Sinks -> [Calls -> Seq(Nat)]]

\* Every sink is offered the frames of a stream once each and in order, although
\* calls wait in its queue beside each other, and an acknowledged frame has been
\* offered to all of them: no error, full queue or wait in one sink keeps it
\* from another, and nothing is acknowledged early (gatewayserver.go:91-101).
AckedReachedSinks ==
    \A c \in Calls, s \in Sinks :
        /\ \A i \in DOMAIN offered[s][c] : offered[s][c][i] = i
        /\ acked[c] <= Len(offered[s][c])

Serving(c) == hpc[c] \in {"check", "receive", "fanout", "parked", "ack"}

\* A session has streams of its own agent only.  A registered agent whose call
\* is being served has a session without a stream only if it registered again
\* after the call had looked the session up (streams.go:7-24).
StreamsBelong ==
    /\ \A o \in SessionIds : stream[o] # NoStream => agent[stream[o]] = owner[o]
    /\ \A c \in Calls : Serving(c) =>
        /\ owner[session[c]] = agent[c]
        /\ stream[sessions[agent[c]]] = NoStream => session[c] < sessions[agent[c]]

\* A call returns after its client has closed the stream or has gone, also when
\* it is waiting in a sink at that time.
CallReturns ==
    \A c \in Calls : client[c] # "open" ~> hpc[c] = "returned"
=============================================================================
