---------------------------- MODULE GatewayProofs ----------------------------
(***************************************************************************)
(* The safety of the agent gateway for any number of agents, streams,      *)
(* sinks, frames and registrations.                                        *)
(***************************************************************************)
EXTENDS Gateway, QueueLemmas

\* A call looks up, attaches to and keeps a session of its own agent, which is
\* the agent's last one or older; only calls past that have been attached.
SessionInv ==
    /\ \A a \in Agents : sessions[a] # NoSession => owner[sessions[a]] = a
    /\ \A c \in Calls : hpc[c] \in {"lookup", "attach"} \/ Serving(c) => agent[c] \in Agents
    /\ \A c \in Calls : hpc[c] = "attach" \/ Serving(c) =>
         /\ session[c] # NoSession
         /\ owner[session[c]] = agent[c]
         /\ session[c] <= sessions[agent[c]]
    /\ \A o \in SessionIds : stream[o] # NoStream =>
         /\ o <= created
         /\ agent[stream[o]] = owner[o]
         /\ hpc[stream[o]] \notin {"none", "lookup", "attach"}
    /\ \A c \in Calls : Serving(c) =>
         (stream[sessions[agent[c]]] = NoStream => session[c] < sessions[agent[c]])

FanningOut(c) == hpc[c] \in {"fanout", "parked"}

\* Every sink has been offered all the frames of a call, except that in the
\* fan-out the sinks from at[c] on wait for the last one.
OffersInv ==
    /\ \A c \in Calls : acked[c] <= received[c]
    /\ \A c \in Calls : FanningOut(c) => at[c] >= 1 /\ acked[c] < received[c]
    /\ \A c \in Calls, s \in Sinks :
         /\ Len(offered[s][c]) =
                IF FanningOut(c) /\ at[c] <= s THEN received[c] - 1 ELSE received[c]
         /\ \A i \in DOMAIN offered[s][c] : offered[s][c][i] = i

\* A call waits in one place at a time, in the sink its loop is at.
ParkedInv ==
    \A s \in Sinks :
        /\ \A i \in DOMAIN parked[s] : hpc[parked[s][i]] = "parked" /\ at[parked[s][i]] = s
        /\ \A i, j \in DOMAIN parked[s] : parked[s][i] = parked[s][j] => i = j

IInv == TypeOK /\ SessionInv /\ OffersInv /\ ParkedInv

-----------------------------------------------------------------------------
(* Types                                                                   *)

LEMMA SinksType ==
    /\ Len(SinkKinds) \in Nat /\ Sinks = 1..Len(SinkKinds)
    /\ \A s \in Sinks : s \in Nat /\ s + 1 \in 0..(Len(SinkKinds) + 1)
  BY GatewayAssumption, LenProperties DEF Sinks

LEMMA InitTypeOK == Init => TypeOK
<1> SUFFICES ASSUME Init PROVE TypeOK
  OBVIOUS
<1> USE DEF Init, TypeOK
<1>1. <<>> \in Seq(Frames) /\ <<>> \in Seq(Calls) /\ <<>> \in Seq(Nat) /\ Len(<<>>) = 0
  BY EmptySeq
<1>2. 0 \in 0..MaxSessions /\ 0 \in 0..(Len(SinkKinds) + 1) /\ 0 <= Capacity
  BY GatewayAssumption, SinksType
<1>3. /\ sessions \in [Agents -> 0..created] /\ created \in 0..MaxSessions
      /\ owner \in [SessionIds -> Agents \cup {NoAgent}]
      /\ stream \in [SessionIds -> Calls \cup {NoStream}]
  BY <1>2 DEF NoSession
<1>4. /\ hpc \in [Calls -> {"none", "lookup", "attach", "check", "receive", "fanout", "parked",
                            "ack", "returned"}]
      /\ agent \in [Calls -> Agents \cup {NoAgent}]
      /\ session \in [Calls -> 0..created]
      /\ client \in [Calls -> {"open", "half-closed", "gone"}]
      /\ received \in [Calls -> Nat] /\ acked \in [Calls -> Nat]
      /\ at \in [Calls -> 0..(Len(SinkKinds) + 1)]
  BY <1>2 DEF NoSession
<1>5. /\ queue \in [Sinks -> Seq(Frames)] /\ \A s \in Sinks : Len(queue[s]) <= Capacity
      /\ parked \in [Sinks -> Seq(Calls)]
      /\ offered \in [Sinks -> [Calls -> Seq(Nat)]]
  BY <1>1, <1>2
<1> QED
  BY <1>3, <1>4, <1>5

\* One more offer keeps the type of the history.
LEMMA OfferedType ==
  ASSUME TypeOK, NEW s \in Sinks, NEW c \in Calls, Offered(s, c)
  PROVE  offered' \in [Sinks -> [Calls -> Seq(Nat)]]
<1>1. Append(offered[s][c], received[c]) \in Seq(Nat)
  BY AppendProperties DEF TypeOK
<1>2. offered' = [offered EXCEPT ![s] = [offered[s] EXCEPT ![c] = Append(offered[s][c], received[c])]]
  BY DEF Offered, TypeOK
<1> QED
  BY <1>1, <1>2 DEF TypeOK

\* The steps that only move a call along, or change one of its variables.
LEMMA SmallStepsTypeOK ==
  ASSUME TypeOK, SessionInv, NEW c \in Calls,
         \/ OpenUnnamed(c) \/ (\E a \in Agents : Open(c, a)) \/ Lookup(c) \/ Check(c)
         \/ ReceiveEnds(c) \/ FanOutDone(c) \/ SendAck(c) \/ SendFails(c)
         \/ CloseSend(c) \/ Disconnect(c)
  PROVE  TypeOK'
<1> USE DEF TypeOK, Goto, sessionVars, callVars, frameVars, sinkVars
<1>1. CASE OpenUnnamed(c)
  BY <1>1 DEF OpenUnnamed
<1>2. CASE \E a \in Agents : Open(c, a)
  BY <1>2 DEF Open
<1>3. CASE Lookup(c)
  <2>1. agent[c] \in Agents /\ sessions[agent[c]] \in 0..created
    BY <1>3 DEF Lookup, SessionInv
  <2> QED
    BY <1>3, <2>1 DEF Lookup
<1>4. CASE Check(c)
  BY <1>4 DEF Check
<1>5. CASE ReceiveEnds(c)
  BY <1>5 DEF ReceiveEnds
<1>6. CASE FanOutDone(c)
  BY <1>6 DEF FanOutDone
<1>7. CASE SendAck(c)
  BY <1>7 DEF SendAck
<1>8. CASE SendFails(c)
  BY <1>8 DEF SendFails
<1>9. CASE CloseSend(c)
  BY <1>9 DEF CloseSend
<1>10. CASE Disconnect(c)
  BY <1>10 DEF Disconnect
<1> QED
  BY <1>1, <1>2, <1>3, <1>4, <1>5, <1>6, <1>7, <1>8, <1>9, <1>10

\* The handler's steps at a sink.
LEMMA FanOutTypeOK ==
  ASSUME TypeOK, NEW c \in Calls, NEW s \in Sinks,
         WriteTaken(c, s) \/ WriteFails(c, s) \/ WriteWaits(c, s)
  PROVE  TypeOK'
<1> USE DEF TypeOK, Goto, sessionVars, callVars, frameVars, sinkVars
<1>1. Frame(c) \in Frames /\ s + 1 \in 0..(Len(SinkKinds) + 1)
  BY SinksType DEF Frame, Frames
<1>2. CASE WriteTaken(c, s)
  <2>1. offered' \in [Sinks -> [Calls -> Seq(Nat)]]
    BY <1>2, OfferedType DEF WriteTaken
  <2>2. queue' \in [Sinks -> Seq(Frames)] /\ \A t \in Sinks : Len(queue'[t]) <= Capacity
    <3>1. CASE SinkKinds[s] = "direct"
      BY <1>2, <3>1 DEF WriteTaken
    <3>2. CASE SinkKinds[s] # "direct"
      <4>1. Append(queue[s], Frame(c)) \in Seq(Frames)
            /\ Len(Append(queue[s], Frame(c))) = Len(queue[s]) + 1
        BY <1>1, AppendProperties
      <4>2. queue' = [queue EXCEPT ![s] = Append(@, Frame(c))] /\ Len(queue[s]) < Capacity
        BY <1>2, <3>2 DEF WriteTaken, HasRoom
      <4>3. Len(queue[s]) + 1 <= Capacity
        BY <4>2, GatewayAssumption, LenProperties
      <4> QED
        BY <4>1, <4>2, <4>3
    <3> QED
      BY <3>1, <3>2
  <2> QED
    BY <1>1, <1>2, <2>1, <2>2 DEF WriteTaken
<1>3. CASE WriteFails(c, s)
  <2>1. offered' \in [Sinks -> [Calls -> Seq(Nat)]]
    BY <1>3, OfferedType DEF WriteFails
  <2> QED
    BY <1>1, <1>3, <2>1, SinksType DEF WriteFails, AfterError, AtSink
<1>4. CASE WriteWaits(c, s)
  <2>1. Append(parked[s], c) \in Seq(Calls)
    BY AppendProperties
  <2> QED
    BY <1>4, <2>1 DEF WriteWaits
<1> QED
  BY <1>2, <1>3, <1>4

LEMMA WorkTypeOK ==
  ASSUME TypeOK, NEW s \in Sinks, Work(s)
  PROVE  TypeOK'
<1> USE DEF TypeOK, Goto, sessionVars, callVars
<1>1. /\ Tail(queue[s]) \in Seq(Frames)
      /\ Len(Tail(queue[s])) = Len(queue[s]) - 1
      /\ Len(queue[s]) \in Nat /\ Len(queue[s]) - 1 <= Capacity
  BY HeadTailProperties, LenProperties, GatewayAssumption DEF Work
<1>2. CASE parked[s] = <<>>
  BY <1>1, <1>2 DEF Work, AdmitFirst, AdmitNone
<1>3. CASE parked[s] # <<>>
  <2> DEFINE c == Head(parked[s])
  <2>1. c \in Calls /\ Tail(parked[s]) \in Seq(Calls)
    BY <1>3, HeadTailProperties
  <2>2. Frame(c) \in Frames /\ s + 1 \in 0..(Len(SinkKinds) + 1)
    BY <2>1, SinksType DEF Frame, Frames
  <2>3. /\ Append(Tail(queue[s]), Frame(c)) \in Seq(Frames)
        /\ Len(Append(Tail(queue[s]), Frame(c))) = Len(Tail(queue[s])) + 1
    BY <1>1, <2>2, AppendProperties
  <2>4. /\ queue' = [queue EXCEPT ![s] = Append(Tail(@), Frame(c))]
        /\ parked' = [parked EXCEPT ![s] = Tail(@)]
        /\ Offered(s, c)
        /\ at' = [at EXCEPT ![c] = s + 1]
        /\ hpc' = [hpc EXCEPT ![c] = "fanout"]
    BY <1>3 DEF Work, AdmitFirst
  <2>5. offered' \in [Sinks -> [Calls -> Seq(Nat)]]
    BY <2>1, <2>4, OfferedType
  <2>6. queue' \in [Sinks -> Seq(Frames)] /\ \A t \in Sinks : Len(queue'[t]) <= Capacity
    BY <1>1, <2>3, <2>4
  <2>7. UNCHANGED <<sessionVars, callVars, client, received, acked>>
    BY DEF Work
  <2> QED
    BY <2>1, <2>2, <2>4, <2>5, <2>6, <2>7
<1> QED
  BY <1>2, <1>3

\* The type invariant survives every step; it needs SessionInv for the agent
\* of a call that looks its session up.
LEMMA NextTypeOK == IInv /\ [Next]_vars => TypeOK'
<1> SUFFICES ASSUME IInv, [Next]_vars PROVE TypeOK'
  OBVIOUS
<1> USE DEF IInv
<1>1. ASSUME NEW a \in Agents, Register(a) PROVE TypeOK'
  <2> USE DEF TypeOK
  <2>1. created + 1 \in SessionIds /\ created + 1 \in 0..MaxSessions
    BY <1>1, GatewayAssumption DEF Register, SessionIds
  <2>2. sessions' \in [Agents -> 0..created'] /\ session' \in [Calls -> 0..created']
    BY <1>1, <2>1 DEF Register, NewSession, callVars
  <2> QED
    BY <1>1, <2>1, <2>2 DEF Register, NewSession, callVars, frameVars, sinkVars
<1>2. ASSUME NEW c \in Calls, Attach(c) PROVE TypeOK'
  BY <1>2 DEF TypeOK, Attach, Goto, callVars, frameVars, sinkVars
<1>3. ASSUME NEW c \in Calls, Receive(c) PROVE TypeOK'
  <2>1. received[c] + 1 \in Nat /\ 1 \in 0..(Len(SinkKinds) + 1)
    BY SinksType DEF TypeOK
  <2> QED
    BY <1>3, <2>1 DEF TypeOK, Receive, Goto, sessionVars, callVars, sinkVars
<1>4. CASE UNCHANGED vars
  BY <1>4 DEF TypeOK, vars, sessionVars, callVars, frameVars, sinkVars
<1> QED
  BY <1>1, <1>2, <1>3, <1>4, SmallStepsTypeOK, FanOutTypeOK, WorkTypeOK
     DEF Next, TelemetryStream, updateStream, handleTelemetryFrame, Ended
-----------------------------------------------------------------------------
(* Sessions                                                                *)

\* The steps that neither touch a session nor the agent of a call, and leave
\* a call that is being served before "returned" or returned.
LEMMA KeepsSessions ==
  ASSUME TypeOK, SessionInv, NEW c \in Calls,
         UNCHANGED <<sessionVars, callVars>>,
         \/ hpc' = [hpc EXCEPT ![c] = "returned"]
         \/ /\ Serving(c)
            /\ \E state \in {"check", "receive", "fanout", "parked", "ack"} :
                 hpc' = [hpc EXCEPT ![c] = state]
  PROVE  SessionInv'
<1>1. \A d \in Calls :
        /\ Serving(d)' => Serving(d)
        /\ hpc'[d] \in {"lookup", "attach"} => hpc'[d] = hpc[d]
        /\ hpc[d] \notin {"none", "lookup", "attach"} => hpc'[d] \notin {"none", "lookup", "attach"}
  <2>1. CASE hpc' = [hpc EXCEPT ![c] = "returned"]
    BY <2>1 DEF TypeOK, Serving
  <2>2. ASSUME NEW state \in {"check", "receive", "fanout", "parked", "ack"}, Serving(c),
               hpc' = [hpc EXCEPT ![c] = state]
        PROVE  \A d \in Calls :
                  /\ Serving(d)' => Serving(d)
                  /\ hpc'[d] \in {"lookup", "attach"} => hpc'[d] = hpc[d]
                  /\ hpc[d] \notin {"none", "lookup", "attach"}
                        => hpc'[d] \notin {"none", "lookup", "attach"}
    BY <2>2 DEF TypeOK, Serving
  <2> QED
    BY <2>1, <2>2
<1>2. UNCHANGED <<sessions, created, owner, stream, agent, session>>
  BY DEF sessionVars, callVars
<1>3. \A o \in SessionIds : stream[o] # NoStream => stream[o] \in Calls
  BY DEF TypeOK
<1> QED
  BY <1>1, <1>2, <1>3 DEF SessionInv

LEMMA SameSessions ==
  ASSUME SessionInv, UNCHANGED <<sessionVars, callVars, hpc>>
  PROVE  SessionInv'
  BY DEF SessionInv, Serving, sessionVars, callVars

\* The call that a free slot goes to is at that sink, and in no other place.
LEMMA HeadIsParked ==
  ASSUME TypeOK, ParkedInv, NEW s \in Sinks, parked[s] # <<>>
  PROVE  LET c == Head(parked[s])
         IN  /\ c \in Calls /\ hpc[c] = "parked" /\ at[c] = s
             /\ Tail(parked[s]) \in Seq(Calls) /\ Len(Tail(parked[s])) = Len(parked[s]) - 1
             /\ \A i \in DOMAIN Tail(parked[s]) :
                    i + 1 \in DOMAIN parked[s] /\ Tail(parked[s])[i] = parked[s][i + 1]
             /\ \A i \in DOMAIN Tail(parked[s]) : Tail(parked[s])[i] # c
<1>1. parked[s] \in Seq(Calls) /\ Len(parked[s]) \in Nat /\ DOMAIN parked[s] = 1..Len(parked[s])
  BY LenProperties DEF TypeOK
<1>2. /\ Head(parked[s]) = parked[s][1] /\ Head(parked[s]) \in Calls
      /\ Tail(parked[s]) \in Seq(Calls) /\ Len(Tail(parked[s])) = Len(parked[s]) - 1
      /\ \A i \in 1..Len(Tail(parked[s])) : Tail(parked[s])[i] = parked[s][i + 1]
      /\ 1 \in DOMAIN parked[s]
  BY <1>1, HeadTailProperties, EmptySeq
<1>3. DOMAIN Tail(parked[s]) = 1..(Len(parked[s]) - 1)
  BY <1>2, LenProperties
<1>4. \A i \in DOMAIN Tail(parked[s]) : i + 1 \in DOMAIN parked[s] /\ i + 1 # 1
  BY <1>1, <1>3
<1> QED
  BY <1>2, <1>3, <1>4 DEF ParkedInv

LEMMA NextSessionInv == IInv /\ [Next]_vars => SessionInv'
<1> SUFFICES ASSUME IInv, [Next]_vars PROVE SessionInv'
  OBVIOUS
<1> USE DEF IInv
<1>1. ASSUME NEW a \in Agents, Register(a) PROVE SessionInv'
  <2>1. /\ created \in Nat /\ created + 1 \in SessionIds /\ created + 1 # NoSession
        /\ \A b \in Agents : sessions[b] \in 0..created
        /\ \A c \in Calls : session[c] \in 0..created
    BY <1>1, GatewayAssumption DEF Register, TypeOK, SessionIds, NoSession
  <2>2. /\ sessions' = [sessions EXCEPT ![a] = created + 1]
        /\ owner' = [owner EXCEPT ![created + 1] = a]
        /\ UNCHANGED <<stream, hpc, agent, session>>
    BY <1>1 DEF Register, NewSession, callVars
  <2>3. \A b \in Agents : sessions'[b] # NoSession => owner'[sessions'[b]] = b
    BY <2>1, <2>2 DEF SessionInv, TypeOK
  <2>4. \A c \in Calls : hpc'[c] = "attach" \/ Serving(c)' =>
          /\ session'[c] # NoSession
          /\ owner'[session'[c]] = agent'[c]
          /\ session'[c] <= sessions'[agent'[c]]
    BY <2>1, <2>2 DEF SessionInv, TypeOK, Serving
  <2>5. \A o \in SessionIds : stream'[o] # NoStream =>
          /\ o <= created'
          /\ agent'[stream'[o]] = owner'[o]
          /\ hpc'[stream'[o]] \notin {"none", "lookup", "attach"}
    <3>1. created' = created + 1
      BY <1>1 DEF Register, NewSession
    <3>2. \A o \in SessionIds : o <= created => o # created + 1 /\ o <= created + 1
      BY <2>1 DEF SessionIds
    <3> QED
      BY <2>2, <3>1, <3>2 DEF SessionInv, TypeOK
  <2>6. \A c \in Calls : Serving(c)' =>
          (stream'[sessions'[agent'[c]]] = NoStream => session'[c] < sessions'[agent'[c]])
    BY <2>1, <2>2 DEF SessionInv, TypeOK, Serving
  <2> QED
    BY <2>2, <2>3, <2>4, <2>5, <2>6 DEF SessionInv, Serving
<1>2. ASSUME NEW c \in Calls, OpenUnnamed(c) PROVE SessionInv'
  BY <1>2, KeepsSessions DEF OpenUnnamed, Goto
<1>3. ASSUME NEW c \in Calls, NEW a \in Agents, Open(c, a) PROVE SessionInv'
  BY <1>3 DEF Open, Goto, SessionInv, TypeOK, Serving, sessionVars
<1>4. ASSUME NEW c \in Calls, Lookup(c) PROVE SessionInv'
  <2>1. agent[c] \in Agents /\ sessions[agent[c]] \in Nat
    BY <1>4 DEF Lookup, SessionInv, TypeOK
  <2>2. /\ session' = [session EXCEPT ![c] = sessions[agent[c]]]
        /\ hpc' = [hpc EXCEPT ![c] = IF sessions[agent[c]] = NoSession
                                     THEN "returned" ELSE "attach"]
        /\ UNCHANGED <<sessionVars, agent>>
    BY <1>4 DEF Lookup, Goto
  <2>3. ~Serving(c) /\ ~Serving(c)' /\ hpc[c] = "lookup"
    BY <1>4, <2>2 DEF Lookup, Serving, TypeOK
  <2>4. \A d \in Calls \ {c} : hpc'[d] = hpc[d] /\ session'[d] = session[d]
    BY <2>2 DEF TypeOK
  <2>5. hpc'[c] = "attach" => session'[c] # NoSession /\ owner[session'[c]] = agent[c]
                              /\ session'[c] <= sessions[agent[c]]
    BY <2>1, <2>2 DEF SessionInv, TypeOK
  <2>6. hpc'[c] \in {"returned", "attach"} /\ \A o \in SessionIds : stream[o] # c \/ stream[o] = NoStream
    BY <2>2, <2>3 DEF SessionInv, TypeOK
  <2> QED
    BY <2>1, <2>2, <2>3, <2>4, <2>5, <2>6 DEF SessionInv, TypeOK, Serving, sessionVars
<1>5. ASSUME NEW c \in Calls, Attach(c) PROVE SessionInv'
  <2>1. /\ agent[c] \in Agents /\ session[c] # NoSession /\ owner[session[c]] = agent[c]
        /\ session[c] <= sessions[agent[c]] /\ session[c] \in 0..created
        /\ sessions[agent[c]] \in 0..created
    BY <1>5 DEF Attach, SessionInv, TypeOK
  <2>2. /\ stream' = [stream EXCEPT ![session[c]] = c]
        /\ hpc' = [hpc EXCEPT ![c] = "check"]
        /\ UNCHANGED <<sessions, created, owner, agent, session>>
    BY <1>5 DEF Attach, Goto, callVars
  <2>3. /\ created \in Nat /\ session[c] \in SessionIds /\ c # NoStream
        /\ \A a \in Agents : sessions[a] # NoSession => sessions[a] \in SessionIds
    BY <2>1, NothingAssumption, GatewayAssumption DEF TypeOK, SessionIds, NoSession
  <2>4. \A o \in SessionIds : stream'[o] = IF o = session[c] THEN c ELSE stream[o]
    BY <2>2, <2>3 DEF TypeOK
  <2>5. \A d \in Calls : hpc'[d] = IF d = c THEN "check" ELSE hpc[d]
    BY <2>2 DEF TypeOK
  <2>6. \A o \in SessionIds : stream'[o] # NoStream =>
          /\ o <= created'
          /\ agent'[stream'[o]] = owner'[o]
          /\ hpc'[stream'[o]] \notin {"none", "lookup", "attach"}
    BY <2>1, <2>2, <2>3, <2>4, <2>5 DEF SessionInv, TypeOK
  <2>7. ASSUME NEW d \in Calls, Serving(d)', stream'[sessions'[agent'[d]]] = NoStream
        PROVE  session'[d] < sessions'[agent'[d]]
    <3>1. /\ agent[d] \in Agents /\ session[d] # NoSession
          /\ session[d] <= sessions[agent[d]]
      BY <1>5, <2>5, <2>7 DEF Attach, Serving, SessionInv
    <3>2. session[d] \in Nat /\ sessions[agent[d]] \in SessionIds
      BY <2>3, <3>1 DEF TypeOK, NoSession
    <3>3. CASE d = c
      BY <2>2, <2>3, <2>4, <2>7, <3>1, <3>2, <3>3 DEF SessionIds
    <3>4. CASE d # c
      BY <2>2, <2>3, <2>4, <2>5, <2>7, <3>2, <3>4 DEF SessionInv, Serving
    <3> QED
      BY <3>3, <3>4
  <2>8. /\ \A d \in Calls : hpc'[d] \in {"lookup", "attach"} \/ Serving(d)' => agent'[d] \in Agents
        /\ \A d \in Calls : hpc'[d] = "attach" \/ Serving(d)' =>
             /\ session'[d] # NoSession
             /\ owner'[session'[d]] = agent'[d]
             /\ session'[d] <= sessions'[agent'[d]]
    BY <2>1, <2>2, <2>5 DEF SessionInv, Serving
  <2> QED
    BY <2>2, <2>6, <2>7, <2>8 DEF SessionInv, Serving
<1>6. ASSUME NEW c \in Calls,
             \/ Check(c) \/ Receive(c) \/ ReceiveEnds(c) \/ FanOutDone(c)
             \/ SendAck(c) \/ SendFails(c) \/ CloseSend(c) \/ Disconnect(c)
      PROVE  SessionInv'
  <2> USE DEF Goto, Serving
  <2>1. CASE Check(c)
    BY <2>1, KeepsSessions DEF Check
  <2>2. CASE Receive(c)
    BY <2>2, KeepsSessions DEF Receive
  <2>3. CASE ReceiveEnds(c)
    BY <2>3, KeepsSessions DEF ReceiveEnds
  <2>4. CASE FanOutDone(c)
    BY <2>4, KeepsSessions DEF FanOutDone
  <2>5. CASE SendAck(c)
    BY <2>5, KeepsSessions DEF SendAck
  <2>6. CASE SendFails(c)
    BY <2>6, KeepsSessions DEF SendFails
  <2>7. CASE CloseSend(c)
    BY <2>7, SameSessions DEF CloseSend
  <2>8. CASE Disconnect(c)
    BY <2>8, SameSessions DEF Disconnect
  <2> QED
    BY <1>6, <2>1, <2>2, <2>3, <2>4, <2>5, <2>6, <2>7, <2>8
<1>7. ASSUME NEW c \in Calls, NEW s \in Sinks,
             WriteTaken(c, s) \/ WriteFails(c, s) \/ WriteWaits(c, s)
      PROVE  SessionInv'
  <2>1. CASE WriteTaken(c, s) \/ WriteFails(c, s)
    BY <2>1, SameSessions DEF WriteTaken, WriteFails
  <2>2. CASE WriteWaits(c, s)
    BY <2>2, KeepsSessions DEF WriteWaits, AtSink, Goto, Serving
  <2> QED
    BY <1>7, <2>1, <2>2
<1>8. ASSUME NEW s \in Sinks, Work(s) PROVE SessionInv'
  <2>1. CASE parked[s] = <<>>
    BY <1>8, <2>1, SameSessions DEF Work, AdmitFirst, AdmitNone
  <2>2. CASE parked[s] # <<>>
    <3> DEFINE c == Head(parked[s])
    <3>1. c \in Calls /\ hpc[c] = "parked"
      BY <2>2, HeadIsParked
    <3>2. hpc' = [hpc EXCEPT ![c] = "fanout"] /\ UNCHANGED <<sessionVars, callVars>>
      BY <1>8, <2>2 DEF Work, AdmitFirst, Goto
    <3> QED
      BY <3>1, <3>2, KeepsSessions DEF Serving
  <2> QED
    BY <2>1, <2>2
<1>9. CASE UNCHANGED vars
  BY <1>9, SameSessions DEF vars
<1> QED
  BY <1>1, <1>2, <1>3, <1>4, <1>5, <1>6, <1>7, <1>8, <1>9
     DEF Next, TelemetryStream, updateStream, handleTelemetryFrame, Ended
-----------------------------------------------------------------------------
(* Offers                                                                  *)

\* Steps that offer nothing, and leave a call in the fan-out or out of it.
LEMMA KeepsOffers ==
  ASSUME OffersInv, UNCHANGED <<received, acked, at, offered>>,
         \A d \in Calls : FanningOut(d)' <=> FanningOut(d)
  PROVE  OffersInv'
  BY DEF OffersInv

\* The call at sink s offers its frame there and goes on to the next sink.
LEMMA OfferKeepsOffers ==
  ASSUME TypeOK, OffersInv, NEW s \in Sinks, NEW c \in Calls,
         FanningOut(c), at[c] = s, Offered(s, c),
         at' = [at EXCEPT ![c] = s + 1], UNCHANGED <<received, acked>>,
         \A d \in Calls : FanningOut(d)' <=> FanningOut(d)
  PROVE  OffersInv'
<1>1. /\ s \in Nat /\ Sinks \subseteq Nat
      /\ received[c] \in Nat /\ offered[s][c] \in Seq(Nat) /\ Len(offered[s][c]) \in Nat
      /\ DOMAIN offered[s][c] = 1..Len(offered[s][c])
  <2>1. s \in Nat /\ Sinks \subseteq Nat
    BY SinksType
  <2>2. received[c] \in Nat /\ offered[s][c] \in Seq(Nat)
    BY DEF TypeOK
  <2> QED
    BY <2>1, <2>2, LenProperties
<1>2. Len(offered[s][c]) = received[c] - 1
  BY <1>1 DEF OffersInv
<1>3. \A t \in Sinks, d \in Calls :
        offered'[t][d] = IF t = s /\ d = c THEN Append(offered[s][c], received[c])
                                          ELSE offered[t][d]
  BY DEF Offered, TypeOK
<1>4. \A d \in Calls : at'[d] = IF d = c THEN s + 1 ELSE at[d]
  BY DEF TypeOK
<1>5. /\ Len(Append(offered[s][c], received[c])) = received[c]
      /\ \A i \in DOMAIN Append(offered[s][c], received[c]) :
            Append(offered[s][c], received[c])[i] = i
  <2> DEFINE q == Append(offered[s][c], received[c])
  <2>1. /\ q \in Seq(Nat) /\ Len(q) = Len(offered[s][c]) + 1
        /\ \A i \in 1..Len(offered[s][c]) : q[i] = offered[s][c][i]
        /\ q[Len(offered[s][c]) + 1] = received[c]
    BY <1>1, AppendProperties
  <2>2. DOMAIN q = 1..Len(q) /\ Len(q) = received[c]
    BY <1>1, <1>2, <2>1, LenProperties
  <2>3. \A i \in 1..Len(offered[s][c]) : offered[s][c][i] = i
    BY <1>1 DEF OffersInv
  <2>4. \A i \in 1..Len(q) : i \in 1..Len(offered[s][c]) \/ i = received[c]
    BY <1>1, <1>2, <2>2
  <2> QED
    BY <1>1, <1>2, <2>1, <2>2, <2>3, <2>4
<1>6. ASSUME NEW d \in Calls, NEW t \in Sinks
      PROVE  /\ Len(offered'[t][d]) =
                   IF FanningOut(d)' /\ at'[d] <= t THEN received'[d] - 1 ELSE received'[d]
             /\ \A i \in DOMAIN offered'[t][d] : offered'[t][d][i] = i
  <2>1. CASE d = c /\ t = s
    <3>1. offered'[t][d] = Append(offered[s][c], received[c]) /\ received'[d] = received[c]
      BY <1>3, <2>1
    <3>2. ~(at'[d] <= t)
      BY <1>1, <1>4, <2>1
    <3> QED
      BY <1>5, <3>1, <3>2
  <2>2. CASE d = c /\ t # s
    <3>1. t \in Nat /\ at[c] = s /\ at'[c] = s + 1
      BY <1>1, <1>4
    <3>2. s + 1 <= t <=> s <= t
      BY <1>1, <2>2, <3>1
    <3> QED
      BY <1>3, <2>2, <3>1, <3>2 DEF OffersInv
  <2>3. CASE d # c
    BY <1>3, <1>4, <2>3 DEF OffersInv
  <2> QED
    BY <2>1, <2>2, <2>3
<1>7. \A d \in Calls : FanningOut(d)' => at'[d] >= 1 /\ acked'[d] < received'[d]
  BY <1>1, <1>4 DEF OffersInv
<1> QED
  BY <1>6, <1>7 DEF OffersInv

LEMMA NextOffersInv == IInv /\ [Next]_vars => OffersInv'
<1> SUFFICES ASSUME IInv, [Next]_vars PROVE OffersInv'
  OBVIOUS
<1> USE DEF IInv
<1>1. ASSUME NEW a \in Agents, Register(a) PROVE OffersInv'
  BY <1>1, KeepsOffers DEF Register, frameVars, sinkVars, FanningOut
<1>2. ASSUME NEW c \in Calls,
             \/ OpenUnnamed(c) \/ (\E a \in Agents : Open(c, a)) \/ Lookup(c) \/ Attach(c)
             \/ Check(c) \/ ReceiveEnds(c) \/ CloseSend(c) \/ Disconnect(c)
      PROVE  OffersInv'
  <2>1. UNCHANGED <<received, acked, at, offered>>
    BY <1>2 DEF OpenUnnamed, Open, Lookup, Attach, Check, ReceiveEnds, CloseSend, Disconnect,
                frameVars, sinkVars
  <2>2. \A d \in Calls : FanningOut(d)' <=> FanningOut(d)
    BY <1>2 DEF OpenUnnamed, Open, Lookup, Attach, Check, ReceiveEnds, CloseSend, Disconnect,
                Goto, FanningOut, TypeOK
  <2> QED
    BY <2>1, <2>2, KeepsOffers
<1>3. ASSUME NEW c \in Calls, Receive(c) PROVE OffersInv'
  <2>1. \A d \in Calls : /\ received'[d] = IF d = c THEN received[d] + 1 ELSE received[d]
                         /\ at'[d] = IF d = c THEN 1 ELSE at[d]
                         /\ hpc'[d] = IF d = c THEN "fanout" ELSE hpc[d]
                         /\ received[d] \in Nat /\ acked[d] \in Nat
    BY <1>3 DEF Receive, Goto, TypeOK
  <2>2. UNCHANGED <<acked, offered>> /\ hpc[c] = "receive"
    BY <1>3 DEF Receive, sinkVars
  <2>3. \A t \in Sinks : 1 <= t
    BY SinksType
  <2>4. \A d \in Calls : FanningOut(d)' <=> d = c \/ FanningOut(d)
    BY <2>1 DEF FanningOut
  <2>5. ~FanningOut(c)
    BY <2>2 DEF FanningOut
  <2>6. \A d \in Calls : acked'[d] <= received'[d]
    BY <2>1, <2>2 DEF OffersInv
  <2>7. \A d \in Calls : FanningOut(d)' => at'[d] >= 1 /\ acked'[d] < received'[d]
    BY <2>1, <2>2, <2>4 DEF OffersInv
  <2>8. \A d \in Calls, t \in Sinks :
           Len(offered'[t][d]) =
               IF FanningOut(d)' /\ at'[d] <= t THEN received'[d] - 1 ELSE received'[d]
    <3>1. ASSUME NEW t \in Sinks PROVE Len(offered[t][c]) = received[c]
      BY <2>5 DEF OffersInv
    <3>2. ASSUME NEW d \in Calls, NEW t \in Sinks, d # c
          PROVE  Len(offered[t][d]) =
                   IF FanningOut(d)' /\ at'[d] <= t THEN received'[d] - 1 ELSE received'[d]
      BY <2>1, <2>4, <3>2 DEF OffersInv
    <3>3. /\ FanningOut(c)' /\ at'[c] = 1
          /\ received'[c] - 1 = received[c]
      BY <2>1, <2>4
    <3> QED
      BY <2>2, <2>3, <3>1, <3>2, <3>3
  <2> QED
    BY <2>2, <2>6, <2>7, <2>8 DEF OffersInv
<1>4. ASSUME NEW c \in Calls, FanOutDone(c) PROVE OffersInv'
  <2>1. \A d \in Calls : hpc'[d] = IF d = c THEN "ack" ELSE hpc[d]
    BY <1>4 DEF FanOutDone, Goto, TypeOK
  <2>2. UNCHANGED <<received, acked, at, offered>> /\ hpc[c] = "fanout" /\ at[c] \notin Sinks
    BY <1>4 DEF FanOutDone, frameVars, sinkVars
  <2>3. \A t \in Sinks : ~(at[c] <= t)
    BY <2>2, SinksType DEF TypeOK, OffersInv, FanningOut
  <2> QED
    BY <2>1, <2>2, <2>3 DEF OffersInv, FanningOut
<1>5. ASSUME NEW c \in Calls, SendAck(c) \/ SendFails(c) PROVE OffersInv'
  <2>1. \A d \in Calls : FanningOut(d)' <=> FanningOut(d)
    BY <1>5 DEF SendAck, SendFails, Goto, FanningOut, TypeOK
  <2>2. UNCHANGED <<received, at, offered>> /\ ~FanningOut(c)
    BY <1>5 DEF SendAck, SendFails, frameVars, sinkVars, FanningOut
  <2>3. \A d \in Calls : /\ received[d] \in Nat
                         /\ acked'[d] = acked[d] \/ (d = c /\ acked'[d] = received[d])
    BY <1>5 DEF SendAck, SendFails, frameVars, TypeOK
  <2> QED
    BY <2>1, <2>2, <2>3 DEF OffersInv
<1>6. ASSUME NEW c \in Calls, NEW s \in Sinks, WriteTaken(c, s) \/ WriteFails(c, s)
      PROVE  OffersInv'
  BY <1>6, OfferKeepsOffers DEF WriteTaken, WriteFails, AtSink, AfterError, FanningOut
<1>7. ASSUME NEW c \in Calls, NEW s \in Sinks, WriteWaits(c, s) PROVE OffersInv'
  <2>1. \A d \in Calls : FanningOut(d)' <=> FanningOut(d)
    BY <1>7 DEF WriteWaits, AtSink, Goto, FanningOut, TypeOK
  <2> QED
    BY <1>7, <2>1, KeepsOffers DEF WriteWaits, frameVars
<1>8. ASSUME NEW s \in Sinks, Work(s) PROVE OffersInv'
  <2>1. CASE parked[s] = <<>>
    BY <1>8, <2>1, KeepsOffers DEF Work, AdmitFirst, AdmitNone, FanningOut
  <2>2. CASE parked[s] # <<>>
    <3> DEFINE c == Head(parked[s])
    <3>1. c \in Calls /\ hpc[c] = "parked" /\ at[c] = s
      BY <2>2, HeadIsParked
    <3>2. /\ Offered(s, c) /\ at' = [at EXCEPT ![c] = s + 1]
          /\ hpc' = [hpc EXCEPT ![c] = "fanout"] /\ UNCHANGED <<received, acked>>
      BY <1>8, <2>2 DEF Work, AdmitFirst, Goto
    <3>3. FanningOut(c) /\ \A d \in Calls : FanningOut(d)' <=> FanningOut(d)
      BY <3>1, <3>2 DEF FanningOut, TypeOK
    <3> QED
      BY <3>1, <3>2, <3>3, OfferKeepsOffers
  <2> QED
    BY <2>1, <2>2
<1>9. CASE UNCHANGED vars
  BY <1>9, KeepsOffers DEF vars, frameVars, sinkVars, FanningOut
<1> QED
  BY <1>1, <1>2, <1>3, <1>4, <1>5, <1>6, <1>7, <1>8, <1>9
     DEF Next, TelemetryStream, updateStream, handleTelemetryFrame, Ended
-----------------------------------------------------------------------------
(* Waiting calls                                                           *)

\* Steps of a call that does not wait and does not begin to.
LEMMA KeepsParked ==
  ASSUME TypeOK, ParkedInv, UNCHANGED parked,
         \A d \in Calls : hpc[d] = "parked" => hpc'[d] = "parked" /\ at'[d] = at[d]
  PROVE  ParkedInv'
<1>1. \A t \in Sinks : \A i \in DOMAIN parked[t] : parked[t][i] \in Calls
  BY LenProperties DEF TypeOK
<1> QED
  BY <1>1 DEF ParkedInv

\* The end of a queue of calls is a call that was not in it.
LEMMA WaitsOnce ==
  ASSUME IInv, NEW c \in Calls, NEW s \in Sinks, WriteWaits(c, s)
  PROVE  ParkedInv'
<1> USE DEF IInv
<1>1. /\ hpc[c] = "fanout" /\ at[c] = s /\ parked' = [parked EXCEPT ![s] = Append(@, c)]
      /\ at' = at /\ hpc' = [hpc EXCEPT ![c] = "parked"]
  BY DEF WriteWaits, AtSink, Goto, frameVars
<1>2. \A t \in Sinks : /\ parked[t] \in Seq(Calls) /\ Len(parked[t]) \in Nat
                       /\ DOMAIN parked[t] = 1..Len(parked[t])
                       /\ \A i \in 1..Len(parked[t]) : parked[t][i] \in Calls /\ parked[t][i] # c
  <2>1. \A t \in Sinks : parked[t] \in Seq(Calls)
    BY DEF TypeOK
  <2> QED
    BY <1>1, <2>1, LenProperties DEF ParkedInv
<1>3. \A d \in Calls : hpc[d] = "parked" => hpc'[d] = "parked"
  BY <1>1 DEF TypeOK
<1>4. ASSUME NEW t \in Sinks
      PROVE  /\ \A i \in DOMAIN parked'[t] :
                    hpc'[parked'[t][i]] = "parked" /\ at'[parked'[t][i]] = t
             /\ \A i, j \in DOMAIN parked'[t] : parked'[t][i] = parked'[t][j] => i = j
  <2>1. CASE t # s
    <3>1. parked'[t] = parked[t]
      BY <1>1, <2>1 DEF TypeOK
    <3>2. \A i \in DOMAIN parked[t] : parked[t][i] \in Calls
      BY <1>2
    <3>3. \A i \in DOMAIN parked[t] : hpc'[parked[t][i]] = "parked" /\ at'[parked[t][i]] = t
      BY <1>1, <1>3, <3>2 DEF ParkedInv
    <3> QED
      BY <3>1, <3>3 DEF ParkedInv
  <2>2. CASE t = s
    <3> DEFINE q == parked[s]
               n == Len(q) + 1
    <3>1. parked'[t] = Append(q, c)
      BY <1>1, <2>2 DEF TypeOK
    <3>2. /\ Len(Append(q, c)) = n /\ Append(q, c) \in Seq(Calls)
          /\ \A i \in 1..Len(q) : Append(q, c)[i] = q[i]
          /\ Append(q, c)[n] = c
      BY <1>2, AppendProperties
    <3>3. DOMAIN parked'[t] = 1..n
      BY <3>1, <3>2, LenProperties
    <3>4. \A i \in 1..n : i \in 1..Len(q) \/ i = n
      BY <1>2
    <3>5. hpc'[c] = "parked"
      BY <1>1 DEF TypeOK
    <3>6. \A i \in 1..Len(q) : hpc'[q[i]] = "parked" /\ at'[q[i]] = s
      BY <1>1, <1>2, <1>3 DEF ParkedInv
    <3>7. \A i, j \in 1..Len(q) : q[i] = q[j] => i = j
      BY <1>2 DEF ParkedInv
    <3>8. \A i \in 1..n : hpc'[parked'[t][i]] = "parked" /\ at'[parked'[t][i]] = t
      BY <1>1, <2>2, <3>1, <3>2, <3>4, <3>5, <3>6
    <3>9. \A i, j \in 1..n : parked'[t][i] = parked'[t][j] => i = j
      BY <1>2, <3>1, <3>2, <3>4, <3>7
    <3> QED
      BY <3>3, <3>8, <3>9
  <2> QED
    BY <2>1, <2>2
<1> QED
  BY <1>4 DEF ParkedInv

\* A worker lets the first call of its own sink go, and the others wait on.
LEMMA WorkKeepsParked ==
  ASSUME IInv, NEW s \in Sinks, Work(s)
  PROVE  ParkedInv'
<1> USE DEF IInv
<1>1. CASE parked[s] = <<>>
  BY <1>1, KeepsParked DEF Work, AdmitFirst, AdmitNone
<1>2. CASE parked[s] # <<>>
  <2> DEFINE c == Head(parked[s])
             rest == Tail(parked[s])
  <2>1. /\ c \in Calls /\ hpc[c] = "parked" /\ at[c] = s
        /\ rest \in Seq(Calls) /\ Len(rest) = Len(parked[s]) - 1
        /\ \A i \in DOMAIN rest : i + 1 \in DOMAIN parked[s] /\ rest[i] = parked[s][i + 1]
        /\ \A i \in DOMAIN rest : rest[i] # c
    BY <1>2, HeadIsParked
  <2>2. /\ parked' = [parked EXCEPT ![s] = rest] /\ at' = [at EXCEPT ![c] = s + 1]
        /\ hpc' = [hpc EXCEPT ![c] = "fanout"]
    BY <1>2 DEF Work, AdmitFirst, Goto
  <2>3. \A d \in Calls \ {c} : hpc'[d] = hpc[d] /\ at'[d] = at[d]
    BY <2>2 DEF TypeOK
  <2>4. DOMAIN rest \subseteq Nat
    BY <2>1, LenProperties
  <2>5. ASSUME NEW t \in Sinks
        PROVE  /\ \A i \in DOMAIN parked'[t] :
                      hpc'[parked'[t][i]] = "parked" /\ at'[parked'[t][i]] = t
               /\ \A i, j \in DOMAIN parked'[t] : parked'[t][i] = parked'[t][j] => i = j
    <3>1. CASE t # s
      <4>1. parked'[t] = parked[t] /\ \A i \in DOMAIN parked[t] : parked[t][i] \in Calls
        BY <2>2, <3>1, LenProperties DEF TypeOK
      <4>2. \A i \in DOMAIN parked[t] : parked[t][i] # c
        BY <2>1, <3>1 DEF ParkedInv
      <4> QED
        BY <2>3, <4>1, <4>2 DEF ParkedInv
    <3>2. CASE t = s
      <4>1. parked'[t] = rest
        BY <2>2, <3>2 DEF TypeOK
      <4>2. \A i \in DOMAIN rest : rest[i] \in Calls
        BY <2>1, LenProperties
      <4>3. \A i \in DOMAIN rest : hpc'[rest[i]] = "parked" /\ at'[rest[i]] = s
        BY <2>1, <2>3, <4>2 DEF ParkedInv
      <4>4. \A i, j \in DOMAIN rest : rest[i] = rest[j] => i + 1 = j + 1
        BY <2>1 DEF ParkedInv
      <4>5. \A i, j \in DOMAIN rest : rest[i] = rest[j] => i = j
        BY <2>4, <4>4
      <4> QED
        BY <3>2, <4>1, <4>3, <4>5
    <3> QED
      BY <3>1, <3>2
  <2> QED
    BY <2>5 DEF ParkedInv
<1> QED
  BY <1>1, <1>2

LEMMA NextParkedInv == IInv /\ [Next]_vars => ParkedInv'
<1> SUFFICES ASSUME IInv, [Next]_vars PROVE ParkedInv'
  OBVIOUS
<1> USE DEF IInv
<1>1. ASSUME NEW a \in Agents, Register(a) PROVE ParkedInv'
  BY <1>1, KeepsParked DEF Register, frameVars, sinkVars
<1>2. ASSUME NEW c \in Calls,
             \/ OpenUnnamed(c) \/ (\E a \in Agents : Open(c, a)) \/ Lookup(c) \/ Attach(c)
             \/ Check(c) \/ Receive(c) \/ ReceiveEnds(c) \/ FanOutDone(c) \/ SendAck(c)
             \/ SendFails(c) \/ CloseSend(c) \/ Disconnect(c)
      PROVE  ParkedInv'
  <2> USE DEF TypeOK, Goto, frameVars, sinkVars
  <2>1. CASE OpenUnnamed(c) \/ (\E a \in Agents : Open(c, a)) \/ Lookup(c) \/ Attach(c)
    BY <2>1, KeepsParked DEF OpenUnnamed, Open, Lookup, Attach
  <2>2. CASE Check(c) \/ ReceiveEnds(c) \/ CloseSend(c) \/ Disconnect(c)
    BY <2>2, KeepsParked DEF Check, ReceiveEnds, CloseSend, Disconnect
  <2>3. CASE Receive(c)
    BY <2>3, KeepsParked DEF Receive
  <2>4. CASE FanOutDone(c) \/ SendAck(c) \/ SendFails(c)
    BY <2>4, KeepsParked DEF FanOutDone, SendAck, SendFails
  <2> QED
    BY <1>2, <2>1, <2>2, <2>3, <2>4
<1>3. ASSUME NEW c \in Calls, NEW s \in Sinks, WriteTaken(c, s) \/ WriteFails(c, s)
      PROVE  ParkedInv'
  <2>1. hpc[c] = "fanout" /\ UNCHANGED <<hpc, parked>>
    BY <1>3 DEF WriteTaken, WriteFails, AtSink
  <2>2. \A d \in Calls : d # c => at'[d] = at[d]
    BY <1>3 DEF WriteTaken, WriteFails, TypeOK
  <2> QED
    BY <2>1, <2>2, KeepsParked
<1>4. CASE UNCHANGED vars
  BY <1>4, KeepsParked DEF vars, frameVars, sinkVars
<1> QED
  BY <1>1, <1>2, <1>3, <1>4, WaitsOnce, WorkKeepsParked
     DEF Next, TelemetryStream, updateStream, handleTelemetryFrame, Ended

-----------------------------------------------------------------------------
(* The theorems                                                            *)

LEMMA InitIInv == Init => IInv
<1> SUFFICES ASSUME Init PROVE IInv
  OBVIOUS
<1>1. SessionInv
  BY DEF Init, SessionInv, Serving
<1>2. OffersInv
  BY EmptySeq DEF Init, OffersInv, FanningOut
<1>3. ParkedInv
  BY EmptySeq DEF Init, ParkedInv
<1> QED
  BY <1>1, <1>2, <1>3, InitTypeOK DEF IInv

LEMMA Invariant == Spec => []IInv
<1>1. IInv /\ [Next]_vars => IInv'
  BY NextTypeOK, NextSessionInv, NextOffersInv, NextParkedInv DEF IInv
<1> QED
  BY InitIInv, <1>1, PTL DEF Spec

\* The state of the gateway keeps its types and no queue outgrows its capacity.
THEOREM TypeCorrect == Spec => []TypeOK
<1>1. IInv => TypeOK
  BY DEF IInv
<1> QED
  BY Invariant, <1>1, PTL

\* Whatever sinks refuse or wait, however many streams are served: what is
\* acknowledged has been offered to every sink, in order and once.
THEOREM AckedHasReachedSinks == Spec => []AckedReachedSinks
<1>1. IInv => AckedReachedSinks
  <2> SUFFICES ASSUME IInv PROVE AckedReachedSinks
    OBVIOUS
  <2>1. ASSUME NEW c \in Calls, NEW s \in Sinks PROVE acked[c] <= Len(offered[s][c])
    <3>1. received[c] \in Nat /\ acked[c] \in Nat
      BY DEF IInv, TypeOK
    <3> QED
      BY <3>1 DEF IInv, OffersInv
  <2> QED
    BY <2>1 DEF IInv, OffersInv, AckedReachedSinks
<1> QED
  BY Invariant, <1>1, PTL

\* Sessions have streams of their own agents only, and a served agent's session
\* is without one only if it registered again.
THEOREM StreamsBelongToAgents == Spec => []StreamsBelong
<1>1. IInv => StreamsBelong
  BY DEF IInv, SessionInv, StreamsBelong
<1> QED
  BY Invariant, <1>1, PTL
=============================================================================
