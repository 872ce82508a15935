----------------------------- MODULE RelayProofs -----------------------------
(***************************************************************************)
(* The safety of the relay process for any configuration files, number of  *)
(* endpoints, sinks, events and signals, and any queue size.               *)
(***************************************************************************)
EXTENDS Relay, QueueLemmas, FiniteSetTheorems

\* Before initializeMAVLinkNode is through there are no consumers, and before
\* the sinks exist nobody is at one.
EarlyInv ==
    /\ mpc = "loading" =>
         next = 1 /\ processed = <<>> /\ connections = [n \in Names |-> NoNode]
    /\ mpc \in {"loading", "creating"} => sinkAt = 0 /\ \A i \in Consumers : gsink[i] = 0
    /\ mpc \in {"loading", "creating", "created", "starting"} =>
         \A i \in Consumers : gpc[i] = "none"

\* Every consumer has an endpoint that was processed, and those have a node.
StoreInv ==
    /\ \A i \in Consumers : gpc[i] # "none" => i \in DOMAIN processed
    /\ \A i \in DOMAIN processed : connections[processed[i]] # NoNode

\* A consumer in the fan-out has an envelope, and one that waits is in the list
\* of the sink it is at, once.
FanOutInv ==
    /\ \A i \in Consumers : gpc[i] \in {"fanout", "parked", "panicking"} => genv[i] \in Envelopes
    /\ \A s \in SinkSlots :
         /\ \A j \in DOMAIN parked[s] :
              gpc[parked[s][j]] = "parked" /\ gsink[parked[s][j]] = s /\ s \in Sinks
         /\ \A j, l \in DOMAIN parked[s] : parked[s][j] = parked[s][l] => j = l

IInv == TypeOK /\ EarlyInv /\ StoreInv /\ FanOutInv

-----------------------------------------------------------------------------
(* Which actions change what                                               *)

Fetching == \E i \in Consumers : Receive(i)
Working == \E s \in Sinks : Take(s) \/ Handled(s)
Consuming == \E i \in Consumers : Consumer(i)
Signalling == SignalKills \/ Signal \/ Cancel \/ Bridge

LEMMA NextCases ==
    [Next]_vars <=> \/ RunRelay \/ Starting \/ Shutdown \/ Signalling
                    \/ Fetching \/ Consuming \/ Working \/ UNCHANGED vars
  BY DEF Next, Fetching, Working, Consuming, Signalling, Ended

LEMMA WorkingFrame ==
    Working => UNCHANGED <<configVars, mpc, initVars, nodeVars, genv, signalVars, sinkAt,
                           sinkClosed, offered, sinkErrors, crashed>>
  BY DEF Working, Take, Handled, goVars, countVars

LEMMA ConsumingFrame ==
    Consuming => UNCHANGED <<configVars, mpc, initVars, nodeVars, signalVars, sinkAt, hand,
                             sinkClosed>>
<1> USE DEF bufVars, countVars, goVars
<1> SUFFICES ASSUME NEW i \in Consumers, Consumer(i)
             PROVE  UNCHANGED <<configVars, mpc, initVars, nodeVars, signalVars, sinkAt, hand,
                                sinkClosed>>
  BY DEF Consuming
<1>1. CASE EventsEnd(i) \/ StopOnContext(i) \/ HandleFrame(i) \/ IgnoreEvent(i)
  BY <1>1 DEF EventsEnd, StopOnContext, HandleFrame, IgnoreEvent
<1>2. CASE FanOutDone(i) \/ Panic(i)
  BY <1>2 DEF FanOutDone, Panic
<1>3. CASE WriteMessage(i)
  BY <1>3 DEF WriteMessage, WriteTaken, WriteFails, WriteWaits, WritePanics
<1> QED
  BY <1>1, <1>2, <1>3 DEF Consumer

LEMMA ShutdownFrame ==
    Shutdown => UNCHANGED <<configVars, initVars, events, gsink, genv, signals, mainSig, canceller,
                            ctxDone, bridge, queue, hand, countVars, crashed>>
  BY DEF Shutdown, ShutdownBegins, CloseNode, RangeEnds, CloseSink, SinkCloseReturns, Stop,
     nodeVars, goVars, signalVars, bufVars

LEMMA StartupFrame ==
    RunRelay \/ Starting =>
      UNCHANGED <<file, nodeVars, gsink, genv, signals, mainSig, ctxDone, relaySig, sinkAt,
                  bufVars, countVars, crashed>>
  BY DEF RunRelay, LoadConfig, initializeSinks, NotifyMain, Starting, InitEndpoint, StartFails,
     StartConsumers, Register, configVars, goVars, signalVars

LEMMA SignallingFrame ==
    Signalling => /\ UNCHANGED <<configVars, initVars, nodeVars, goVars, sinkAt, bufVars,
                                 countVars, crashed>>
                  /\ mpc' \in {mpc, "killed"}
  BY DEF Signalling, SignalKills, Signal, Cancel, Bridge

LEMMA FetchingFrame ==
    Fetching => UNCHANGED <<configVars, mpc, initVars, nodeClosed, gsink, genv, signalVars, sinkAt,
                            bufVars, countVars, crashed>>
  BY DEF Fetching, Receive

-----------------------------------------------------------------------------
(* What Load and the factory select                                        *)

\* Where the wanted elements of a sequence are, and which place each gets.
Kept(seq, wanted) == {i \in DOMAIN seq : seq[i] \in wanted}
KeptUpTo(seq, wanted, n) == {i \in Kept(seq, wanted) : i <= n}
Place(seq, wanted, j) == Cardinality(KeptUpTo(seq, wanted, j))

LEMMA FiniteKept ==
  ASSUME NEW S, NEW seq \in Seq(S), NEW wanted, NEW n \in 0..Len(seq)
  PROVE  /\ IsFiniteSet(KeptUpTo(seq, wanted, n))
         /\ Cardinality(KeptUpTo(seq, wanted, n)) \in Nat
         /\ Cardinality(KeptUpTo(seq, wanted, n)) <= n
<1>1. Len(seq) \in Nat /\ DOMAIN seq = 1..Len(seq)
  BY LenProperties
<1>2. KeptUpTo(seq, wanted, n) \in SUBSET (1..n) /\ 1 \in Int /\ n \in Int /\ n \in Nat
  BY <1>1 DEF KeptUpTo, Kept
<1>3. IsFiniteSet(1..n) /\ Cardinality(1..n) = IF 1 > n THEN 0 ELSE n - 1 + 1
  BY <1>2, FS_Interval, Zenon
<1>4. Cardinality(1..n) = n
  BY <1>2, <1>3
<1>5. /\ IsFiniteSet(KeptUpTo(seq, wanted, n))
      /\ Cardinality(KeptUpTo(seq, wanted, n)) <= Cardinality(1..n)
  BY <1>2, <1>3, FS_Subset
<1> QED
  BY <1>4, <1>5, FS_CardinalityType

\* The sequences that the loop of Selected goes through.
Selecting(g, S, seq, wanted, n) ==
    /\ g \in [0..n -> Seq(S)] /\ g[0] = <<>>
    /\ \A i \in 1..n :
         g[i] = IF seq[i] \in wanted THEN Append(g[i - 1], seq[i]) ELSE g[i - 1]

\* What it has after n elements.
KeptAfter(g, seq, wanted, n) ==
    /\ \A i \in DOMAIN g[n] : g[n][i] \in wanted
    /\ Len(g[n]) = Cardinality(KeptUpTo(seq, wanted, n))
    /\ \A j \in KeptUpTo(seq, wanted, n) :
         Place(seq, wanted, j) \in DOMAIN g[n] /\ g[n][Place(seq, wanted, j)] = seq[j]
    /\ \A k \in DOMAIN g[n] :
         \E j \in KeptUpTo(seq, wanted, n) : Place(seq, wanted, j) = k

LEMMA SelectedSolves ==
  ASSUME NEW S, NEW seq \in Seq(S), NEW wanted, NEW n \in Nat, n = Len(seq)
  PROVE  \E g : Selecting(g, S, seq, wanted, n) /\ Selected(seq, wanted) = g[n]
<1> DEFINE F == [i \in 1..n |-> [x \in Seq(S) |->
                    IF seq[i] \in wanted THEN Append(x, seq[i]) ELSE x]]
           Equation(h) == h = [i \in 0..n |->
                    IF i = 0 THEN <<>>
                    ELSE IF seq[i] \in wanted THEN Append(h[i - 1], seq[i])
                    ELSE h[i - 1]]
           kept == CHOOSE h : Equation(h)
<1>1. \A i \in 1..n : seq[i] \in S
  BY ElementOfSeq
<1>2. PICK g \in [0..n -> Seq(S)] : g[0] = <<>> /\ \A i \in 1..n : g[i] = F[i][g[i - 1]]
  <2>1. F \in Steps(n, Seq(S))
    BY <1>1, AppendProperties DEF Steps
  <2>2. <<>> \in Seq(S)
    BY EmptySeq
  <2>3. PICK g : Solves(g, n, Seq(S), <<>>, F)
    <3> HIDE DEF F
    <3> QED
      BY <2>1, <2>2, Recursion
  <2> QED
    BY <2>3 DEF Solves
<1>3. ASSUME NEW i \in 1..n
      PROVE  g[i] = IF seq[i] \in wanted THEN Append(g[i - 1], seq[i]) ELSE g[i - 1]
  <2>1. i - 1 \in 0..n
    OBVIOUS
  <2>2. g[i - 1] \in Seq(S)
    BY <2>1
  <2> QED
    BY <1>2, <2>2
<1>4. Selected(seq, wanted) = kept[n]
  BY DEF Selected
<1>5. Equation(kept)
  <2>1. ASSUME NEW i \in 0..n
        PROVE  g[i] = IF i = 0 THEN <<>>
                      ELSE IF seq[i] \in wanted THEN Append(g[i - 1], seq[i])
                      ELSE g[i - 1]
    <3>1. CASE i = 0
      BY <1>2, <3>1
    <3>2. CASE i # 0
      <4>1. i \in 1..n
        BY <3>2
      <4> QED
        BY <1>3, <3>2, <4>1
    <3> QED
      BY <3>1, <3>2
  <2>2. g = [i \in 0..n |-> g[i]]
    OBVIOUS
  <2>3. Equation(g)
    BY <2>1, <2>2
  <2> HIDE DEF Equation
  <2> QED
    BY <2>3
<1>6. kept[n] = g[n]
  <2> DEFINE T == {i \in 0..n : kept[i] = g[i]}
  <2> HIDE DEF kept
  <2>1. 0 \in T
    BY <1>2, <1>5
  <2>2. ASSUME NEW i \in 0..n, i \in T, i < n PROVE i + 1 \in T
    <3>1. i + 1 \in 1..n /\ i + 1 \in 0..n /\ (i + 1) - 1 = i /\ i + 1 # 0
      BY <2>2
    <3>2. kept[i + 1] = IF seq[i + 1] \in wanted THEN Append(kept[i], seq[i + 1]) ELSE kept[i]
      BY <1>5, <3>1
    <3> QED
      BY <1>3, <2>2, <3>1, <3>2
  <2>3. 0..n \subseteq T
    <3> HIDE DEF T
    <3> QED
      BY <2>1, <2>2, UpTo
  <2> QED
    BY <2>3
<1> HIDE DEF kept
<1> QED
  BY <1>2, <1>3, <1>4, <1>6 DEF Selecting

\* The wanted elements, each at the place its position among them gives it, and
\* nothing else.
Selects(result, seq, wanted) ==
    /\ Len(result) = Cardinality(Kept(seq, wanted)) /\ Len(result) <= Len(seq)
    /\ \A j \in Kept(seq, wanted) : /\ Place(seq, wanted, j) \in DOMAIN result
                                     /\ result[Place(seq, wanted, j)] = seq[j]
    /\ \A k \in DOMAIN result : \E j \in Kept(seq, wanted) : Place(seq, wanted, j) = k

LEMMA SelectedSays ==
  ASSUME NEW S, NEW seq \in Seq(S), NEW wanted
  PROVE  Selected(seq, wanted) \in Seq(S) /\ Selects(Selected(seq, wanted), seq, wanted)
<1>1. PICK n \in Nat : n = Len(seq) /\ DOMAIN seq = 1..n
  BY LenProperties
<1>2. PICK g : Selecting(g, S, seq, wanted, n) /\ Selected(seq, wanted) = g[n]
  BY <1>1, SelectedSolves
<1> DEFINE T == {i \in 0..n : KeptAfter(g, seq, wanted, i)}
           Set(i) == KeptUpTo(seq, wanted, i)
<1>3. \A i \in 0..n : IsFiniteSet(Set(i)) /\ Cardinality(Set(i)) \in Nat /\ Cardinality(Set(i)) <= i
  BY <1>1, FiniteKept
<1>4. 0 \in T
  <2>1. KeptUpTo(seq, wanted, 0) = {}
    BY <1>1 DEF KeptUpTo, Kept
  <2>2. Len(g[0]) = 0 /\ DOMAIN g[0] = {}
    BY <1>2, EmptySeq DEF Selecting
  <2>3. Cardinality({}) = 0 /\ 0 \in 0..n
    BY FS_EmptySet
  <2> QED
    BY <2>1, <2>2, <2>3 DEF KeptAfter
<1>5. ASSUME NEW i \in 0..n, i \in T, i < n PROVE i + 1 \in T
  <2>0. i + 1 \in 1..n /\ i + 1 \in 0..n /\ (i + 1) - 1 = i /\ i \in Nat
    BY <1>5
  <2>1. seq[i + 1] \in S /\ g[i] \in Seq(S) /\ KeptAfter(g, seq, wanted, i)
    BY <1>1, <1>2, <1>5, <2>0, ElementOfSeq DEF Selecting
  <2>2. CASE seq[i + 1] \notin wanted
    <3>1. g[i + 1] = g[i]
      BY <1>2, <2>0, <2>2 DEF Selecting
    <3>2. Set(i + 1) = Set(i)
      BY <1>1, <2>0, <2>2 DEF KeptUpTo, Kept
    <3> QED
      BY <2>0, <2>1, <3>1, <3>2 DEF KeptAfter
  <2>3. CASE seq[i + 1] \in wanted
    <3>1. g[i + 1] = Append(g[i], seq[i + 1])
      BY <1>2, <2>0, <2>3 DEF Selecting
    <3>2. Set(i + 1) = Set(i) \cup {i + 1} /\ i + 1 \notin Set(i)
      BY <1>1, <2>0, <2>3 DEF KeptUpTo, Kept
    <3>3. PICK c \in Nat : c = Cardinality(Set(i)) /\ Cardinality(Set(i + 1)) = c + 1
      <4>1. IsFiniteSet(Set(i)) /\ Cardinality(Set(i)) \in Nat
        BY <1>3
      <4>2. Cardinality(Set(i) \cup {i + 1}) = Cardinality(Set(i)) + 1
        <5> HIDE DEF Set
        <5> QED
          BY <3>2, <4>1, FS_AddElement
      <4> QED
        BY <3>2, <4>1, <4>2
    <3>4. /\ g[i + 1] \in Seq(S) /\ Len(g[i]) = c /\ Len(g[i + 1]) = c + 1
          /\ DOMAIN g[i] = 1..c /\ DOMAIN g[i + 1] = 1..(c + 1)
          /\ g[i + 1][c + 1] = seq[i + 1] /\ \A k \in 1..c : g[i + 1][k] = g[i][k]
      <4>1. Len(g[i]) = c /\ DOMAIN g[i] = 1..c
        BY <2>1, <3>3, LenProperties DEF KeptAfter
      <4>2. /\ g[i + 1] \in Seq(S) /\ Len(g[i + 1]) = c + 1
            /\ g[i + 1][c + 1] = seq[i + 1] /\ \A k \in 1..c : g[i + 1][k] = g[i][k]
        BY <2>1, <3>1, <4>1, AppendProperties
      <4>3. DOMAIN g[i + 1] = 1..(c + 1)
        BY <4>2, LenProperties
      <4> QED
        BY <4>1, <4>2, <4>3
    <3>5. Place(seq, wanted, i + 1) = c + 1
      BY <3>3 DEF Place
    <3>6. \A k \in 1..(c + 1) : k \in 1..c \/ k = c + 1
      OBVIOUS
    <3>7. 1..c \subseteq 1..(c + 1) /\ c + 1 \in 1..(c + 1)
      OBVIOUS
    <3>8. \A k \in DOMAIN g[i + 1] : g[i + 1][k] \in wanted
      BY <2>1, <2>3, <3>4, <3>6 DEF KeptAfter
    <3>9. \A j \in Set(i + 1) :
            /\ Place(seq, wanted, j) \in DOMAIN g[i + 1]
            /\ g[i + 1][Place(seq, wanted, j)] = seq[j]
      BY <2>1, <3>2, <3>4, <3>5, <3>7 DEF KeptAfter
    <3>10. \A k \in DOMAIN g[i + 1] : \E j \in Set(i + 1) : Place(seq, wanted, j) = k
      BY <2>1, <3>2, <3>4, <3>5, <3>6 DEF KeptAfter
    <3> QED
      BY <2>0, <3>3, <3>4, <3>8, <3>9, <3>10 DEF KeptAfter
  <2> QED
    BY <2>2, <2>3
<1>6. KeptAfter(g, seq, wanted, n)
  <2>1. 0..n \subseteq T
    <3> HIDE DEF T
    <3> QED
      BY <1>4, <1>5, UpTo
  <2> QED
    BY <2>1
<1>7. Set(n) = Kept(seq, wanted) /\ g[n] \in Seq(S) /\ n \in 0..n
  BY <1>1, <1>2 DEF KeptUpTo, Kept, Selecting
<1>8. Cardinality(Set(n)) <= n
  BY <1>3, <1>7
<1> QED
  BY <1>1, <1>2, <1>6, <1>7, <1>8 DEF KeptAfter, Selects

LEMMA SelectsRange ==
  ASSUME NEW result, NEW seq, NEW wanted, Selects(result, seq, wanted)
  PROVE  Range(result) = Range(seq) \cap wanted
<1> PICK kept : kept = Kept(seq, wanted)
  OBVIOUS
<1>1. \A j \in kept : \E k \in DOMAIN result : result[k] = seq[j]
  BY DEF Selects
<1>2. \A k \in DOMAIN result : \E j \in kept : result[k] = seq[j]
  BY DEF Selects
<1>3. Range(result) = {seq[j] : j \in kept}
  <2>1. Range(result) \subseteq {seq[j] : j \in kept}
    BY <1>2 DEF Range
  <2>2. {seq[j] : j \in kept} \subseteq Range(result)
    BY <1>1 DEF Range
  <2> QED
    BY <2>1, <2>2
<1>4. {seq[j] : j \in kept} = Range(seq) \cap wanted
  BY DEF Kept, Range
<1> QED
  BY <1>3, <1>4

\* The endpoints that Load keeps are some of the file's.
LEMMA ValidEndpointsSays ==
  ASSUME NEW f \in ConfigFiles
  PROVE  /\ f.endpoints \in Seq(FileEndpoints)
         /\ ValidEndpoints(f) \in Seq(FileEndpoints)
         /\ Len(ValidEndpoints(f)) \in Nat /\ Len(ValidEndpoints(f)) <= MaxEndpoints
<1>1. /\ f.endpoints \in Seq(MAVLinkEndpoint) /\ Len(f.endpoints) <= MaxEndpoints
      /\ Len(f.endpoints) \in Nat /\ DOMAIN f.endpoints = 1..Len(f.endpoints)
  BY ConfigAssumption, LenProperties
<1>2. \A i \in 1..Len(f.endpoints) : f.endpoints[i] \in FileEndpoints
  BY <1>1 DEF FileEndpoints, Range
<1>3. f.endpoints \in Seq(FileEndpoints)
  BY <1>1, <1>2, IsASeq
<1>4. /\ ValidEndpoints(f) \in Seq(FileEndpoints)
      /\ Len(ValidEndpoints(f)) <= Len(f.endpoints)
  BY <1>3, SelectedSays DEF ValidEndpoints, Selects
<1>5. Len(ValidEndpoints(f)) \in Nat
  BY <1>4, LenProperties
<1> QED
  BY <1>1, <1>3, <1>4, <1>5, BoundAssumption

\* The factory creates the configured sinks that it can create, each once.
LEMMA CreatedSinksSays ==
  ASSUME NEW f \in ConfigFiles, NEW failing \in SUBSET DOMAIN f.sinks
  PROVE  /\ CreateConfiguredSinks(DOMAIN f.sinks, failing) \in Seq(Range(FactoryOrder))
         /\ Len(CreateConfiguredSinks(DOMAIN f.sinks, failing)) <= MaxSinks
         /\ Range(CreateConfiguredSinks(DOMAIN f.sinks, failing))
              = DOMAIN f.sinks \ (failing \cup {"kafka"})
<1> PICK types : types = Range(FactoryOrder)
  OBVIOUS
<1> PICK wanted : wanted = DOMAIN f.sinks \ failing
  OBVIOUS
<1> PICK order : order = FactoryOrder
  OBVIOUS
<1> PICK created : created = Selected(order, wanted)
  OBVIOUS
<1> PICK kept : kept = Kept(order, wanted)
  OBVIOUS
<1>1. /\ order \in Seq(types) /\ DOMAIN order = 1..9
      /\ "kafka" \notin types
      /\ \A i, j \in 1..9 : order[i] = order[j] => i = j
  BY DEF FactoryOrder, Range
<1>2. created \in Seq(types) /\ Len(created) = Cardinality(kept)
  BY <1>1, SelectedSays DEF Selects
<1>3. /\ DOMAIN f.sinks \subseteq types \cup {"kafka"}
      /\ Cardinality(DOMAIN f.sinks) <= MaxSinks
  BY ConfigAssumption
<1>4. Range(created) = DOMAIN f.sinks \ (failing \cup {"kafka"})
  <2>1. Range(created) = types \cap wanted
    BY <1>1, SelectedSays, SelectsRange
  <2> QED
    BY <1>1, <1>3, <2>1
<1>5. IsFiniteSet(DOMAIN f.sinks)
  <2>1. 1 \in Int /\ 9 \in Int
    OBVIOUS
  <2>2. IsFiniteSet(1..9)
    BY <2>1, FS_Interval
  <2>3. order \in Surjection(1..9, types)
    BY <1>1 DEF Range, Surjection
  <2>4. IsFiniteSet(types)
    BY <2>2, <2>3, FS_Surjection
  <2>5. IsFiniteSet(types \cup {"kafka"})
    BY <2>4, FS_AddElement
  <2> QED
    BY <1>3, <2>5, FS_Subset
<1>6. Cardinality(kept) <= Cardinality(DOMAIN f.sinks)
  <2> DEFINE type == [j \in kept |-> order[j]]
  <2>1. type \in Injection(kept, DOMAIN f.sinks)
    BY <1>1 DEF Kept, Injection, IsInjective
  <2> QED
    BY <1>5, <2>1, FS_Injection
<1>7. Cardinality(kept) \in Nat /\ Cardinality(DOMAIN f.sinks) \in Nat
  BY <1>2, <1>5, LenProperties, FS_CardinalityType
<1>8. Len(created) <= MaxSinks
  BY <1>2, <1>3, <1>6, <1>7, BoundAssumption
<1>9. created = CreateConfiguredSinks(DOMAIN f.sinks, failing)
  BY DEF CreateConfiguredSinks
<1> QED
  BY <1>2, <1>4, <1>8, <1>9

-----------------------------------------------------------------------------
(* Types                                                                   *)

LEMMA HeadIsFirst ==
  ASSUME NEW S, NEW q \in Seq(S), q # <<>>
  PROVE  /\ 1 \in DOMAIN q /\ Head(q) = q[1] /\ Head(q) \in S
         /\ Tail(q) \in Seq(S) /\ Len(Tail(q)) = Len(q) - 1
         /\ DOMAIN q = 1..Len(q) /\ DOMAIN Tail(q) = 1..Len(Tail(q)) /\ Len(q) \in Nat
         /\ \A i \in DOMAIN Tail(q) : i + 1 \in DOMAIN q /\ Tail(q)[i] = q[i + 1]
<1>1. /\ Head(q) \in S /\ Tail(q) \in Seq(S) /\ Len(Tail(q)) = Len(q) - 1
      /\ \A i \in 1..Len(Tail(q)) : Tail(q)[i] = q[i + 1]
  BY HeadTailProperties
<1>2. /\ Len(q) \in Nat /\ DOMAIN q = 1..Len(q)
      /\ Len(Tail(q)) \in Nat /\ DOMAIN Tail(q) = 1..Len(Tail(q))
  BY <1>1, LenProperties
<1>3. Len(q) # 0
  BY EmptySeq
<1>4. Head(q) = q[1]
  OBVIOUS
<1> QED
  BY <1>1, <1>2, <1>3, <1>4

LEMMA InitIInv == Init => IInv
<1> SUFFICES ASSUME Init PROVE IInv
  OBVIOUS
<1> USE DEF Init
<1>1. /\ <<>> \in Seq(FileEndpoints) /\ <<>> \in Seq(Range(FactoryOrder)) /\ <<>> \in Seq(Names)
      /\ <<>> \in Seq(Envelopes) /\ <<>> \in Seq(Consumers)
      /\ Len(<<>>) = 0 /\ DOMAIN <<>> = {}
  BY EmptySeq
<1>2. StartTypes
  <2>1. connections \in [Names -> Nodes \cup {NoNode}] /\ DOMAIN droneIDs = {}
    OBVIOUS
  <2>2. nodeClosed \in [NodeSlots -> BOOLEAN] /\ events \in [NodeSlots -> 0..MaxEvents]
    BY BoundAssumption
  <2>3. /\ Len(endpoints) <= MaxEndpoints /\ Len(sinks) <= MaxSinks
        /\ next \in 1..(Len(endpoints) + 1) /\ Len(processed) < next
    BY <1>1, BoundAssumption
  <2>4. file \in ConfigFiles /\ broken \subseteq DOMAIN file.sinks /\ initErrs \in BOOLEAN
    OBVIOUS
  <2> QED
    BY <1>1, <2>1, <2>2, <2>3, <2>4 DEF StartTypes
<1>3. SignalTypes
  <2>1. 0 \in 0..MaxSignals
    BY BoundAssumption
  <2> QED
    BY <2>1 DEF SignalTypes
<1>4. ConsumerTypes
  BY <1>1 DEF ConsumerTypes
<1>5. SinkTypes
  BY <1>1, BoundAssumption DEF SinkTypes
<1>6. EarlyInv /\ StoreInv
  BY <1>1 DEF EarlyInv, StoreInv
<1>7. FanOutInv
  BY <1>1 DEF FanOutInv
<1> QED
  BY <1>2, <1>3, <1>4, <1>5, <1>6, <1>7 DEF IInv, TypeOK

LEMMA StepSignalTypes == IInv /\ [Next]_vars => SignalTypes'
<1> SUFFICES ASSUME IInv, [Next]_vars PROVE SignalTypes'
  OBVIOUS
<1> USE DEF IInv, TypeOK, SignalTypes, signalVars
<1>1. CASE RunRelay \/ Starting
  BY <1>1 DEF RunRelay, LoadConfig, initializeSinks, NotifyMain, Starting, InitEndpoint,
     StartFails, StartConsumers, Register
<1>2. CASE Shutdown
  BY <1>2 DEF Shutdown, ShutdownBegins, CloseNode, RangeEnds, CloseSink, SinkCloseReturns, Stop
<1>3. CASE Signalling
  <2>1. signals' \in {signals, signals + 1} /\ (signals' # signals => signals < MaxSignals)
    BY <1>3 DEF Signalling, SignalKills, Signal, Cancel, Bridge
  <2>2. signals' \in 0..MaxSignals
    BY <2>1, BoundAssumption
  <2>3. /\ {mainSig, ctxDone, relaySig, crashed}' \subseteq BOOLEAN
        /\ canceller' \in {"none", "waiting", "done"} /\ bridge' \in {"none", "waiting", "done"}
    BY <1>3 DEF Signalling, SignalKills, Signal, Cancel, Bridge
  <2> QED
    BY <2>2, <2>3
<1>4. CASE Consuming
  <2>1. ASSUME NEW i \in Consumers, Consumer(i) PROVE crashed' \in {crashed, TRUE}
    <3>1. CASE EventsEnd(i) \/ StopOnContext(i) \/ HandleFrame(i) \/ IgnoreEvent(i)
      BY <3>1 DEF EventsEnd, StopOnContext, HandleFrame, IgnoreEvent
    <3>2. CASE FanOutDone(i) \/ Panic(i)
      BY <3>2 DEF FanOutDone, Panic
    <3>3. CASE WriteMessage(i)
      BY <3>3 DEF WriteMessage, WriteTaken, WriteFails, WriteWaits, WritePanics
    <3> QED
      BY <2>1, <3>1, <3>2, <3>3 DEF Consumer
  <2>2. crashed' \in {crashed, TRUE}
    BY <1>4, <2>1 DEF Consuming
  <2> QED
    BY <1>4, <2>2, ConsumingFrame
<1>5. CASE Fetching \/ Working
  BY <1>5, FetchingFrame, WorkingFrame
<1>6. CASE UNCHANGED vars
  BY <1>6 DEF vars
<1> QED
  BY <1>1, <1>2, <1>3, <1>4, <1>5, <1>6, NextCases

\* Lengths, and the elements of the sequences Start works on.
LEMMA Lengths ==
  ASSUME StartTypes
  PROVE  /\ Len(endpoints) \in Nat /\ Len(sinks) \in Nat /\ Len(processed) \in Nat
         /\ Nodes \subseteq NodeSlots /\ Sinks \subseteq SinkSlots
         /\ DOMAIN endpoints = Nodes /\ DOMAIN processed = 1..Len(processed)
         /\ \A k \in Nodes : endpoints[k].name \in Names /\ endpoints[k].drone \in Drones
         /\ \A i \in DOMAIN processed : processed[i] \in Names
<1>1. /\ endpoints \in Seq(FileEndpoints) /\ processed \in Seq(Names)
      /\ sinks \in Seq(Range(FactoryOrder))
      /\ Len(endpoints) <= MaxEndpoints /\ Len(sinks) <= MaxSinks
  BY DEF StartTypes
<1>2. /\ Len(endpoints) \in Nat /\ Len(sinks) \in Nat /\ Len(processed) \in Nat
      /\ DOMAIN endpoints = 1..Len(endpoints) /\ DOMAIN processed = 1..Len(processed)
  BY <1>1, LenProperties
<1>3. Nodes \subseteq NodeSlots /\ Sinks \subseteq SinkSlots
  BY <1>1, <1>2, BoundAssumption DEF Nodes, Sinks, NodeSlots, SinkSlots
<1>4. /\ \A k \in Nodes : endpoints[k] \in FileEndpoints
      /\ \A i \in DOMAIN processed : processed[i] \in Names
  BY <1>1, <1>2, ElementOfSeq DEF Nodes
<1> QED
  BY <1>2, <1>3, <1>4 DEF Names, Drones, Nodes

LEMMA StepStartTypes == IInv /\ [Next]_vars => StartTypes'
<1> SUFFICES ASSUME IInv, [Next]_vars PROVE StartTypes'
  OBVIOUS
<1> USE DEF IInv, TypeOK, configVars, initVars, nodeVars
<1>0. StartTypes
  OBVIOUS
<1>1. CASE LoadConfig
  <2>1. CASE LoadError(file) # NoError
    BY <1>1, <2>1 DEF LoadConfig, StartTypes, Nodes
  <2>2. CASE LoadError(file) = NoError
    <3>1. /\ endpoints' = ValidEndpoints(file) /\ mpc' = "creating"
          /\ UNCHANGED <<file, sinks, broken, initVars, nodeVars>>
      BY <1>1, <2>2 DEF LoadConfig
    <3>2. endpoints' \in Seq(FileEndpoints) /\ Len(endpoints') <= MaxEndpoints
      BY <1>0, <3>1, ValidEndpointsSays DEF StartTypes
    <3>3. /\ next = 1 /\ processed = <<>> /\ connections = [n \in Names |-> NoNode]
      BY <1>1 DEF LoadConfig, EarlyInv
    <3>4. Len(endpoints') \in Nat /\ Len(<<>>) = 0
      BY <3>2, LenProperties, EmptySeq
    <3>5. /\ next' \in 1..(Len(endpoints') + 1) /\ Len(processed') < next'
          /\ connections' \in [Names -> Nodes' \cup {NoNode}]
      BY <3>1, <3>3, <3>4
    <3> QED
      BY <1>0, <3>1, <3>2, <3>5 DEF StartTypes
  <2> QED
    BY <2>1, <2>2
<1>2. CASE initializeSinks
  <2>1. /\ broken' \in SUBSET DOMAIN file.sinks
        /\ sinks' = CreateConfiguredSinks(DOMAIN file.sinks, broken')
        /\ mpc' \in {"failed", "created"}
        /\ UNCHANGED <<file, endpoints, initVars, nodeVars>>
    BY <1>2 DEF initializeSinks
  <2>2. sinks' \in Seq(Range(FactoryOrder)) /\ Len(sinks') <= MaxSinks
    BY <1>0, <2>1, CreatedSinksSays DEF StartTypes
  <2> QED
    BY <1>0, <2>1, <2>2 DEF StartTypes, Nodes
<1>3. CASE NotifyMain \/ StartFails \/ StartConsumers \/ Register
  BY <1>0, <1>3 DEF NotifyMain, StartFails, StartConsumers, Register, StartTypes, Nodes
<1>4. CASE InitEndpoint
  <2> DEFINE e == endpoints[next]
  <2>1. /\ next \in Nodes /\ next' = next + 1
        /\ UNCHANGED <<configVars, mpc, nodeVars>>
    BY <1>4 DEF InitEndpoint
  <2>2. e.name \in Names /\ e.drone \in Drones
    BY <1>0, <2>1, Lengths
  <2>3. next' \in 1..(Len(endpoints) + 1) /\ next \in Nat
    BY <1>0, <2>1, Lengths DEF Nodes
  <2> HIDE DEF e
  <2>4. CASE NodeFails
    BY <1>0, <2>1, <2>3, <2>4, Lengths DEF NodeFails, StartTypes, Nodes
  <2>5. CASE NodeCreated
    <3>1. /\ connections' = [connections EXCEPT ![e.name] = next]
          /\ droneIDs' = [n \in DOMAIN droneIDs \cup {e.name} |->
                             IF n = e.name THEN e.drone ELSE droneIDs[n]]
          /\ processed' = Append(processed, e.name)
          /\ UNCHANGED initErrs
      BY <2>5 DEF NodeCreated, e
    <3>2. connections' \in [Names -> Nodes \cup {NoNode}]
      BY <1>0, <2>1, <2>2, <3>1 DEF StartTypes
    <3>3. DOMAIN droneIDs' \subseteq Names /\ \A n \in DOMAIN droneIDs' : droneIDs'[n] \in Drones
      BY <1>0, <2>2, <3>1 DEF StartTypes
    <3>4. processed' \in Seq(Names) /\ Len(processed') = Len(processed) + 1
      BY <1>0, <2>2, <3>1, AppendProperties DEF StartTypes
    <3>5. Len(processed) + 1 < next + 1
      BY <1>0, <2>3, Lengths DEF StartTypes
    <3> QED
      BY <1>0, <2>1, <2>3, <3>1, <3>2, <3>3, <3>4, <3>5 DEF StartTypes, Nodes
  <2> QED
    BY <1>4, <2>4, <2>5 DEF InitEndpoint
<1>5. CASE Shutdown
  <2>1. UNCHANGED <<configVars, initVars, events>>
    BY <1>5, ShutdownFrame
  <2>2. mpc' \in {mpc, "closing_nodes", "closing_sinks", "stopped"}
    BY <1>5 DEF Shutdown, ShutdownBegins, CloseNode, RangeEnds, CloseSink, SinkCloseReturns, Stop
  <2>3. nodeClosed' \in [NodeSlots -> BOOLEAN]
    BY <1>0, <1>5 DEF StartTypes, Shutdown, ShutdownBegins, CloseNode, RangeEnds, CloseSink,
       SinkCloseReturns, Stop
  <2> QED
    BY <1>0, <2>1, <2>2, <2>3 DEF StartTypes, Nodes
<1>6. CASE Signalling
  BY <1>0, <1>6, SignallingFrame DEF StartTypes, Nodes
<1>7. ASSUME NEW i \in Consumers, Receive(i) PROVE StartTypes'
  <2>1. UNCHANGED <<configVars, mpc, initVars, nodeClosed>>
    BY <1>7 DEF Receive
  <2>2. events' \in [NodeSlots -> 0..MaxEvents]
    <3>1. /\ events' = [events EXCEPT ![Node(i)] = events[Node(i)] + 1]
          /\ events[Node(i)] < MaxEvents
      BY <1>7 DEF Receive
    <3>2. events \in [NodeSlots -> 0..MaxEvents]
      BY <1>0 DEF StartTypes
    <3>3. \A e \in 0..MaxEvents : e < MaxEvents => e + 1 \in 0..MaxEvents
      BY BoundAssumption
    <3> QED
      BY <3>1, <3>2, <3>3
  <2> QED
    BY <1>0, <2>1, <2>2 DEF StartTypes, Nodes
<1>8. CASE Consuming \/ Working \/ UNCHANGED vars
  <2>1. UNCHANGED <<configVars, mpc, initVars, nodeVars>>
    BY <1>8, ConsumingFrame, WorkingFrame DEF vars
  <2> QED
    BY <1>0, <2>1 DEF StartTypes, Nodes
<1> QED
  BY <1>1, <1>2, <1>3, <1>4, <1>5, <1>6, <1>7, <1>8, NextCases
  DEF RunRelay, Starting, Fetching

\* The envelope HandleFrame builds.
Made(i) == [node |-> Node(i), source |-> Endpoint(i), drone |-> getDroneID(Endpoint(i))]

LEMMA EnvelopeMade ==
  ASSUME IInv, NEW i \in Consumers, HandleFrame(i)
  PROVE  /\ Made(i) \in Envelopes
         /\ genv' = [genv EXCEPT ![i] = Made(i)]
         /\ gsink' = [gsink EXCEPT ![i] = 1]
         /\ gpc' = [gpc EXCEPT ![i] = "fanout"]
         /\ gpc[i] = "check" /\ i \in DOMAIN processed /\ UNCHANGED <<bufVars, configVars>>
<1>0. StartTypes
  BY DEF IInv, TypeOK
<1>1. /\ gpc[i] = "check"
      /\ genv' = [genv EXCEPT ![i] = Made(i)]
      /\ gsink' = [gsink EXCEPT ![i] = 1]
      /\ gpc' = [gpc EXCEPT ![i] = "fanout"]
      /\ UNCHANGED <<bufVars, configVars>>
  BY DEF HandleFrame, Made
<1>2. i \in DOMAIN processed /\ Endpoint(i) \in Names /\ Node(i) # NoNode
  BY <1>0, <1>1, Lengths DEF IInv, StoreInv, Endpoint, Node
<1>3. Node(i) \in NodeSlots
  BY <1>0, <1>2, Lengths DEF StartTypes, Node
<1>4. getDroneID(Endpoint(i)) \in Drones \cup Names
  BY <1>0, <1>2 DEF StartTypes, getDroneID
<1>5. Made(i) \in Envelopes
  BY <1>2, <1>3, <1>4 DEF Envelopes, Made
<1> QED
  BY <1>1, <1>2, <1>5

LEMMA StepConsumerTypes == IInv /\ [Next]_vars => ConsumerTypes'
<1> SUFFICES ASSUME IInv, [Next]_vars PROVE ConsumerTypes'
  OBVIOUS
<1>0. /\ ConsumerTypes /\ StartTypes /\ Len(sinks) \in Nat
      /\ Sinks \subseteq SinkSlots /\ Sinks = 1..Len(sinks)
  BY Lengths DEF IInv, TypeOK, Sinks
<1> USE DEF goVars, configVars
<1>1. CASE initializeSinks
  <2>1. UNCHANGED goVars /\ \A i \in Consumers : gsink[i] = 0
    BY <1>1 DEF initializeSinks, IInv, EarlyInv
  <2>2. sinks' \in Seq(Range(FactoryOrder))
    BY <1>1, StepStartTypes DEF StartTypes
  <2>3. Len(sinks') \in Nat
    BY <2>2, LenProperties
  <2>4. gsink' \in [Consumers -> 0..(Len(sinks') + 1)]
    BY <1>0, <2>1, <2>3 DEF ConsumerTypes
  <2> QED
    BY <1>0, <2>1, <2>4 DEF ConsumerTypes
<1>2. CASE LoadConfig \/ NotifyMain \/ Starting
  BY <1>0, <1>2 DEF ConsumerTypes, LoadConfig, NotifyMain, Starting, InitEndpoint, StartFails,
     StartConsumers, Register
<1>3. CASE Shutdown
  <2>1. UNCHANGED <<configVars, gsink, genv>>
    BY <1>3, ShutdownFrame
  <2>2. gpc' = gpc \/ \E s : gpc' = [i \in Consumers |->
          IF gpc[i] = "parked" /\ gsink[i] = s THEN "panicking" ELSE gpc[i]]
    BY <1>3 DEF Shutdown, ShutdownBegins, CloseNode, RangeEnds, CloseSink, SinkCloseReturns, Stop
  <2> QED
    BY <1>0, <2>1, <2>2 DEF ConsumerTypes
<1>4. CASE Signalling \/ UNCHANGED vars
  BY <1>0, <1>4, SignallingFrame DEF ConsumerTypes, vars
<1>5. ASSUME NEW i \in Consumers, Receive(i) PROVE ConsumerTypes'
  BY <1>0, <1>5 DEF ConsumerTypes, Receive
<1>6. ASSUME NEW i \in Consumers, Consumer(i) PROVE ConsumerTypes'
  <2>0. UNCHANGED configVars
    BY <1>6, ConsumingFrame DEF Consuming
  <2>1. CASE EventsEnd(i) \/ StopOnContext(i) \/ IgnoreEvent(i) \/ Panic(i)
    BY <1>0, <2>0, <2>1 DEF ConsumerTypes, EventsEnd, StopOnContext, IgnoreEvent, Panic
  <2>2. CASE HandleFrame(i)
    <3>1. /\ Made(i) \in Envelopes
          /\ genv' = [genv EXCEPT ![i] = Made(i)]
          /\ gsink' = [gsink EXCEPT ![i] = 1]
          /\ gpc' = [gpc EXCEPT ![i] = "fanout"]
      BY <2>2, EnvelopeMade
    <3>2. 1 \in 0..(Len(sinks) + 1)
      BY <1>0
    <3> QED
      BY <1>0, <2>0, <3>1, <3>2 DEF ConsumerTypes
  <2>3. CASE FanOutDone(i)
    <3>1. 0 \in 0..(Len(sinks) + 1)
      BY <1>0
    <3> QED
      BY <1>0, <2>0, <2>3, <3>1 DEF ConsumerTypes, FanOutDone
  <2>4. ASSUME NEW s \in Sinks,
               WriteTaken(i, s) \/ WriteFails(i, s) \/ WriteWaits(i, s) \/ WritePanics(i, s)
        PROVE  ConsumerTypes'
    <3>1. gsink[i] = s /\ genv' = genv
      BY <2>4 DEF WriteTaken, WriteFails, WriteWaits, WritePanics, AtSink
    <3>2. gsink' = gsink \/ gsink' = [gsink EXCEPT ![i] = s + 1]
      BY <2>4, <3>1 DEF WriteTaken, WriteFails, WriteWaits, WritePanics, AfterError
    <3>3. gpc' \in {gpc, [gpc EXCEPT ![i] = "parked"], [gpc EXCEPT ![i] = "panicking"]}
      BY <2>4 DEF WriteTaken, WriteFails, WriteWaits, WritePanics
    <3>4. s + 1 \in 0..(Len(sinks) + 1)
      BY <1>0
    <3> QED
      BY <1>0, <2>0, <3>1, <3>2, <3>3, <3>4 DEF ConsumerTypes
  <2> QED
    BY <1>6, <2>1, <2>2, <2>3, <2>4 DEF Consumer, WriteMessage
<1>7. ASSUME NEW s \in Sinks, Take(s) PROVE ConsumerTypes'
  <2>0. UNCHANGED <<configVars, genv>>
    BY <1>7 DEF Take
  <2>1. CASE parked[s] = <<>>
    BY <1>0, <1>7, <2>0, <2>1 DEF Take, AdmitFirst, AdmitNone, ConsumerTypes
  <2>2. CASE parked[s] # <<>>
    <3> DEFINE i == Head(parked[s])
    <3>1. gpc' = [gpc EXCEPT ![i] = "fanout"] /\ gsink' = [gsink EXCEPT ![i] = gsink[i] + 1]
      BY <1>7, <2>2 DEF Take, AdmitFirst
    <3>2. gsink[i] = s
      <4>1. parked[s] \in Seq(Consumers) /\ s \in SinkSlots
        BY <1>0 DEF IInv, TypeOK, SinkTypes
      <4>2. 1 \in DOMAIN parked[s] /\ i = parked[s][1]
        BY <2>2, <4>1, HeadIsFirst
      <4> QED
        BY <4>1, <4>2 DEF IInv, FanOutInv
    <3>3. s + 1 \in 0..(Len(sinks) + 1)
      BY <1>0
    <3> HIDE DEF i
    <3> QED
      BY <1>0, <2>0, <3>1, <3>2, <3>3 DEF ConsumerTypes
  <2> QED
    BY <2>1, <2>2
<1>8. ASSUME NEW s \in Sinks, Handled(s) PROVE ConsumerTypes'
  BY <1>0, <1>8 DEF Handled, ConsumerTypes
<1> QED
  BY <1>1, <1>2, <1>3, <1>4, <1>5, <1>6, <1>7, <1>8, NextCases
  DEF RunRelay, Fetching, Consuming, Working

LEMMA BuffersType ==
  ASSUME NEW s \in SinkSlots, buffered \in [SinkSlots -> Nat], Buffers(s)
  PROVE  buffered' \in [SinkSlots -> Nat]
<1>1. [buffered EXCEPT ![s] = buffered[s] + 1] \in [SinkSlots -> Nat]
  OBVIOUS
<1> QED
  BY <1>1 DEF Buffers

LEMMA StepSinkTypes == IInv /\ [Next]_vars => SinkTypes'
<1> SUFFICES ASSUME IInv, [Next]_vars PROVE SinkTypes'
  OBVIOUS
<1>0. /\ SinkTypes /\ StartTypes /\ Len(sinks) \in Nat
      /\ Sinks \subseteq SinkSlots /\ Sinks = 1..Len(sinks)
      /\ <<>> \in Seq(Envelopes) /\ <<>> \in Seq(Consumers) /\ Len(<<>>) = 0 /\ 0 <= Capacity
      /\ \A c \in [SinkSlots -> Nat], s \in SinkSlots :
           [c EXCEPT ![s] = c[s] + 1] \in [SinkSlots -> Nat]
  BY EmptySeq, BoundAssumption, Lengths DEF IInv, TypeOK, Sinks
<1> USE DEF bufVars, countVars, configVars
<1>1. CASE initializeSinks
  <2>1. UNCHANGED <<bufVars, countVars, sinkAt>> /\ sinkAt = 0
    BY <1>1 DEF initializeSinks, IInv, EarlyInv
  <2>2. Len(sinks') \in Nat
    BY <1>1, StepStartTypes, LenProperties DEF StartTypes
  <2>3. sinkAt' \in 0..(Len(sinks') + 1)
    BY <2>1, <2>2
  <2> QED
    BY <1>0, <2>1, <2>3 DEF SinkTypes
<1>2. CASE LoadConfig \/ NotifyMain \/ Starting
  <2>1. UNCHANGED <<bufVars, countVars, sinkAt, sinks>>
    BY <1>2 DEF LoadConfig, NotifyMain, Starting, InitEndpoint, StartFails, StartConsumers, Register
  <2> QED
    BY <1>0, <2>1 DEF SinkTypes
<1>3. CASE Shutdown
  <2>1. UNCHANGED <<configVars, queue, hand, countVars>>
    BY <1>3, ShutdownFrame
  <2> DEFINE Typed == /\ sinkAt' \in 0..(Len(sinks) + 1)
                      /\ sinkClosed' \in [SinkSlots -> BOOLEAN]
                      /\ parked' \in [SinkSlots -> Seq(Consumers)]
  <2>2. Typed
    <3>1. CASE ShutdownBegins \/ (\E n \in Names : CloseNode(n)) \/ Stop
      BY <1>0, <3>1 DEF ShutdownBegins, CloseNode, Stop, SinkTypes
    <3>2. CASE RangeEnds
      BY <1>0, <3>2 DEF RangeEnds, SinkTypes
    <3>3. ASSUME NEW s \in Sinks, CloseSink(s) PROVE Typed
      BY <1>0, <3>3 DEF CloseSink, SinkTypes
    <3>4. ASSUME NEW s \in Sinks, SinkCloseReturns(s) PROVE Typed
      BY <1>0, <3>4 DEF SinkCloseReturns, SinkTypes
    <3> QED
      BY <1>3, <3>1, <3>2, <3>3, <3>4 DEF Shutdown
  <2> QED
    BY <1>0, <2>1, <2>2 DEF SinkTypes
<1>4. CASE Signalling \/ Fetching \/ UNCHANGED vars
  BY <1>0, <1>4, SignallingFrame, FetchingFrame DEF SinkTypes, vars
<1>5. ASSUME NEW i \in Consumers, Consumer(i) PROVE SinkTypes'
  <2>0. UNCHANGED <<configVars, sinkAt, hand, sinkClosed>>
    BY <1>5, ConsumingFrame DEF Consuming
  <2>1. CASE EventsEnd(i) \/ StopOnContext(i) \/ HandleFrame(i) \/ IgnoreEvent(i)
             \/ FanOutDone(i) \/ Panic(i)
    <3>1. UNCHANGED <<bufVars, countVars>>
      BY <2>1 DEF EventsEnd, StopOnContext, HandleFrame, IgnoreEvent, FanOutDone, Panic
    <3> QED
      BY <1>0, <2>0, <3>1 DEF SinkTypes
  <2>2. ASSUME NEW s \in Sinks, WriteTaken(i, s) PROVE SinkTypes'
    <3>1. /\ offered' = [offered EXCEPT ![s] = offered[s] + 1]
          /\ accepted' = [accepted EXCEPT ![s] = accepted[s] + 1]
          /\ UNCHANGED <<parked, sinkErrors, finished>>
          /\ gpc[i] = "fanout" /\ Buffers(s)
      BY <2>2 DEF WriteTaken, AtSink
    <3>b. buffered' \in [SinkSlots -> Nat]
      BY <1>0, <3>1, BuffersType DEF SinkTypes
    <3>2. CASE Kind(s) = "direct"
      <4>1. UNCHANGED queue
        BY <2>2, <3>2 DEF WriteTaken
      <4> QED
        BY <1>0, <2>0, <3>1, <3>b, <4>1 DEF SinkTypes
    <3>3. CASE Kind(s) # "direct"
      <4>1. /\ queue' = [queue EXCEPT ![s] = Append(queue[s], genv[i])]
            /\ Len(queue[s]) < Capacity
        BY <2>2, <3>3 DEF WriteTaken, HasRoom
      <4>2. genv[i] \in Envelopes /\ queue[s] \in Seq(Envelopes)
        BY <1>0, <3>1 DEF IInv, FanOutInv, SinkTypes
      <4>3. /\ Append(queue[s], genv[i]) \in Seq(Envelopes)
            /\ Len(Append(queue[s], genv[i])) = Len(queue[s]) + 1 /\ Len(queue[s]) \in Nat
        BY <4>2, AppendProperties, LenProperties
      <4>4. Len(Append(queue[s], genv[i])) <= Capacity
        BY <4>1, <4>3, BoundAssumption
      <4> QED
        BY <1>0, <2>0, <3>1, <3>b, <4>1, <4>3, <4>4 DEF SinkTypes
    <3> QED
      BY <3>2, <3>3
  <2>3. ASSUME NEW s \in Sinks, WriteFails(i, s) PROVE SinkTypes'
    <3>1. /\ offered' = [offered EXCEPT ![s] = offered[s] + 1]
          /\ sinkErrors' = [sinkErrors EXCEPT ![s] = sinkErrors[s] + 1]
          /\ UNCHANGED <<bufVars, accepted, finished>> /\ Buffers(s)
      BY <2>3 DEF WriteFails, AtSink, CountError
    <3>2. /\ offered' \in [SinkSlots -> Nat] /\ sinkErrors' \in [SinkSlots -> Nat]
          /\ buffered' \in [SinkSlots -> Nat]
      BY <1>0, <3>1, BuffersType DEF SinkTypes
    <3> QED
      BY <1>0, <2>0, <3>1, <3>2 DEF SinkTypes
  <2>4. ASSUME NEW s \in Sinks, WriteWaits(i, s) PROVE SinkTypes'
    <3>1. /\ offered' = [offered EXCEPT ![s] = offered[s] + 1]
          /\ parked' = [parked EXCEPT ![s] = Append(parked[s], i)]
          /\ UNCHANGED <<queue, accepted, sinkErrors, finished, buffered>>
      BY <2>4 DEF WriteWaits, AtSink
    <3>2. Append(parked[s], i) \in Seq(Consumers)
      BY <1>0, AppendProperties DEF SinkTypes
    <3> QED
      BY <1>0, <2>0, <3>1, <3>2 DEF SinkTypes
  <2>5. ASSUME NEW s \in Sinks, WritePanics(i, s) PROVE SinkTypes'
    <3>1. /\ offered' = [offered EXCEPT ![s] = offered[s] + 1]
          /\ UNCHANGED <<bufVars, accepted, sinkErrors, finished, buffered>>
      BY <2>5 DEF WritePanics, AtSink
    <3> QED
      BY <1>0, <2>0, <3>1 DEF SinkTypes
  <2> QED
    BY <1>5, <2>1, <2>2, <2>3, <2>4, <2>5 DEF Consumer, WriteMessage
<1>6. ASSUME NEW s \in Sinks, Take(s) PROVE SinkTypes'
  <2>0. /\ queue[s] # <<>> /\ hand' = [hand EXCEPT ![s] = <<Head(queue[s])>>]
        /\ UNCHANGED <<configVars, sinkAt, sinkClosed, offered, sinkErrors, finished, buffered>>
    BY <1>6 DEF Take
  <2>1. /\ Head(queue[s]) \in Envelopes /\ Tail(queue[s]) \in Seq(Envelopes)
        /\ Len(Tail(queue[s])) = Len(queue[s]) - 1 /\ Len(queue[s]) \in Nat
        /\ Len(queue[s]) <= Capacity
    BY <1>0, <2>0, HeadIsFirst DEF SinkTypes
  <2>2. <<Head(queue[s])>> \in Seq(Envelopes) /\ Len(<<Head(queue[s])>>) = 1
    BY <2>1, Singleton
  <2>3. hand' \in [SinkSlots -> Seq(Envelopes)] /\ \A t \in SinkSlots : Len(hand'[t]) <= 1
    <3>1. hand \in [SinkSlots -> Seq(Envelopes)] /\ s \in SinkSlots
      BY <1>0 DEF SinkTypes
    <3>2. \A t \in SinkSlots : hand'[t] = IF t = s THEN <<Head(queue[s])>> ELSE hand[t]
      BY <2>0, <3>1
    <3>3. \A t \in SinkSlots : Len(hand'[t]) <= 1
      <4>1. Len(<<Head(queue[s])>>) <= 1
        BY <2>2
      <4>2. \A t \in SinkSlots : Len(hand[t]) <= 1
        BY <1>0 DEF SinkTypes
      <4> QED
        BY ONLY <3>2, <4>1, <4>2
    <3>4. hand' \in [SinkSlots -> Seq(Envelopes)]
      BY <2>0, <2>2, <3>1
    <3> QED
      BY <3>3, <3>4
  <2>4. CASE parked[s] = <<>>
    <3>1. queue' = [queue EXCEPT ![s] = Tail(queue[s])] /\ UNCHANGED <<parked, accepted>>
      BY <1>6, <2>4 DEF Take, AdmitFirst, AdmitNone
    <3>2. Len(Tail(queue[s])) <= Capacity
      BY <2>1, BoundAssumption
    <3> QED
      BY <1>0, <2>0, <2>1, <2>3, <3>1, <3>2 DEF SinkTypes
  <2>5. CASE parked[s] # <<>>
    <3> DEFINE i == Head(parked[s])
    <3>1. /\ queue' = [queue EXCEPT ![s] = Append(Tail(queue[s]), genv[i])]
          /\ parked' = [parked EXCEPT ![s] = Tail(parked[s])]
          /\ accepted' = [accepted EXCEPT ![s] = accepted[s] + 1]
      BY <1>6, <2>5 DEF Take, AdmitFirst
    <3>2. i \in Consumers /\ Tail(parked[s]) \in Seq(Consumers) /\ gpc[i] = "parked"
      BY <1>0, <2>5, HeadIsFirst DEF IInv, FanOutInv, SinkTypes
    <3>3. genv[i] \in Envelopes
      BY <3>2 DEF IInv, FanOutInv
    <3>4. /\ Append(Tail(queue[s]), genv[i]) \in Seq(Envelopes)
          /\ Len(Append(Tail(queue[s]), genv[i])) = Len(Tail(queue[s])) + 1
      BY <2>1, <3>3, AppendProperties
    <3>5. Len(Append(Tail(queue[s]), genv[i])) <= Capacity
      BY <2>1, <3>4, BoundAssumption
    <3> HIDE DEF i
    <3>6. /\ queue' \in [SinkSlots -> Seq(Envelopes)]
          /\ \A t \in SinkSlots : Len(queue'[t]) <= Capacity
      BY <1>0, <3>1, <3>4, <3>5 DEF SinkTypes
    <3>7. parked' \in [SinkSlots -> Seq(Consumers)] /\ accepted' \in [SinkSlots -> Nat]
      BY <1>0, <3>1, <3>2 DEF SinkTypes
    <3> QED
      BY <1>0, <2>0, <2>3, <3>6, <3>7 DEF SinkTypes
  <2> QED
    BY <2>4, <2>5
<1>7. ASSUME NEW s \in Sinks, Handled(s) PROVE SinkTypes'
  <2>1. /\ hand' = [hand EXCEPT ![s] = <<>>]
        /\ finished' = [finished EXCEPT ![s] = finished[s] + 1]
        /\ UNCHANGED <<configVars, sinkAt, queue, parked, sinkClosed, offered, accepted, sinkErrors,
                       buffered>>
    BY <1>7 DEF Handled
  <2>2. /\ hand' \in [SinkSlots -> Seq(Envelopes)] /\ finished' \in [SinkSlots -> Nat]
        /\ \A t \in SinkSlots : Len(hand'[t]) <= 1
    <3>1. hand \in [SinkSlots -> Seq(Envelopes)] /\ finished \in [SinkSlots -> Nat]
      BY <1>0 DEF SinkTypes
    <3>2. \A t \in SinkSlots : hand'[t] = IF t = s THEN <<>> ELSE hand[t]
      BY <2>1, <3>1
    <3>3. \A t \in SinkSlots : Len(hand'[t]) <= 1
      BY <1>0, <3>2 DEF SinkTypes
    <3> QED
      BY <1>0, <2>1, <3>1, <3>3
  <2> QED
    BY <1>0, <2>1, <2>2 DEF SinkTypes
<1> QED
  BY <1>1, <1>2, <1>3, <1>4, <1>5, <1>6, <1>7, NextCases DEF RunRelay, Consuming, Working

\* Nobody but StartConsumers starts a consumer.
LEMMA NoneStays ==
  ASSUME IInv, Shutdown \/ Signalling \/ Fetching \/ Consuming \/ Working \/ UNCHANGED vars
  PROVE  \A i \in Consumers : gpc'[i] # "none" => gpc[i] # "none"
<1>0. gpc \in [Consumers -> {"none", "receive", "check", "fanout", "parked", "panicking", "exited"}]
  BY DEF IInv, TypeOK, ConsumerTypes
<1>1. CASE Shutdown
  <2>1. gpc' = gpc \/ \E s : gpc' = [i \in Consumers |->
          IF gpc[i] = "parked" /\ gsink[i] = s THEN "panicking" ELSE gpc[i]]
    <3>1. ASSUME NEW s \in Sinks, CloseSink(s)
          PROVE  gpc' = [i \in Consumers |->
                   IF gpc[i] = "parked" /\ gsink[i] = s THEN "panicking" ELSE gpc[i]]
      BY <3>1 DEF CloseSink
    <3>2. CASE ShutdownBegins \/ (\E n \in Names : CloseNode(n)) \/ RangeEnds
                 \/ (\E s \in Sinks : SinkCloseReturns(s)) \/ Stop
      BY <3>2 DEF ShutdownBegins, CloseNode, RangeEnds, SinkCloseReturns, Stop, goVars
    <3> QED
      BY <1>1, <3>1, <3>2 DEF Shutdown
  <2> QED
    BY <1>0, <2>1
<1>2. CASE Signalling \/ UNCHANGED vars
  BY <1>2, SignallingFrame DEF vars, goVars
<1>3. ASSUME NEW i \in Consumers, Receive(i) \/ Consumer(i)
      PROVE  gpc[i] # "none" /\ \A j \in Consumers \ {i} : gpc'[j] = gpc[j]
  <2> USE DEF goVars
  <2>1. CASE Receive(i) \/ EventsEnd(i) \/ StopOnContext(i) \/ IgnoreEvent(i) \/ HandleFrame(i)
             \/ FanOutDone(i)
    BY <1>0, <2>1 DEF Receive, EventsEnd, StopOnContext, IgnoreEvent, HandleFrame, FanOutDone
  <2>2. CASE Panic(i)
    BY <1>0, <2>2 DEF Panic
  <2>3. CASE WriteMessage(i)
    BY <1>0, <2>3 DEF WriteMessage, WriteTaken, WriteFails, WriteWaits, WritePanics, AtSink
  <2> QED
    BY <1>3, <2>1, <2>2, <2>3 DEF Consumer
<1>4. ASSUME NEW s \in Sinks, Take(s) PROVE \A i \in Consumers : gpc'[i] # "none" => gpc[i] # "none"
  <2>1. CASE parked[s] = <<>>
    BY <1>4, <2>1 DEF Take, AdmitFirst, AdmitNone
  <2>2. CASE parked[s] # <<>>
    <3> DEFINE i == Head(parked[s])
    <3>1. gpc' = [gpc EXCEPT ![i] = "fanout"]
      BY <1>4, <2>2 DEF Take, AdmitFirst
    <3>2. s \in SinkSlots /\ parked[s] \in Seq(Consumers)
      BY Lengths DEF IInv, TypeOK, SinkTypes
    <3>3. gpc[i] = "parked"
      BY <2>2, <3>2, HeadIsFirst DEF IInv, FanOutInv
    <3> HIDE DEF i
    <3> QED
      BY <1>0, <3>1, <3>3
  <2> QED
    BY <2>1, <2>2
<1>5. ASSUME NEW s \in Sinks, Handled(s) PROVE gpc' = gpc
  BY <1>5 DEF Handled, goVars
<1> QED
  BY <1>1, <1>2, <1>3, <1>4, <1>5 DEF Fetching, Consuming, Working

LEMMA StepEarlyInv == IInv /\ [Next]_vars => EarlyInv'
<1> SUFFICES ASSUME IInv, [Next]_vars PROVE EarlyInv'
  OBVIOUS
<1> USE DEF IInv, configVars, initVars, goVars, nodeVars
<1>1. CASE LoadConfig \/ initializeSinks \/ NotifyMain
  BY <1>1 DEF EarlyInv, LoadConfig, initializeSinks, NotifyMain
<1>2. CASE Starting
  BY <1>2 DEF EarlyInv, Starting, InitEndpoint, StartFails, StartConsumers, Register
<1>3. CASE Shutdown
  BY <1>3 DEF EarlyInv, Shutdown, ShutdownBegins, CloseNode, RangeEnds, CloseSink,
     SinkCloseReturns, Stop
<1>4. CASE Signalling
  BY <1>4, SignallingFrame DEF EarlyInv
<1>5. CASE Fetching \/ Consuming
  <2>1. UNCHANGED <<mpc, initVars, sinkAt>>
    BY <1>5, FetchingFrame, ConsumingFrame
  <2>2. \E i \in Consumers : gpc[i] # "none"
    BY <1>5 DEF Fetching, Consuming, Consumer, Receive, EventsEnd, StopOnContext, IgnoreEvent,
       HandleFrame, FanOutDone, Panic, WriteMessage, WriteTaken, WriteFails, WriteWaits,
       WritePanics, AtSink
  <2> QED
    BY <2>1, <2>2 DEF EarlyInv
<1>6. ASSUME NEW s \in Sinks, Take(s) \/ Handled(s) PROVE EarlyInv'
  <2>1. UNCHANGED <<mpc, initVars, sinkAt>>
    BY <1>6, WorkingFrame DEF Working
  <2>2. CASE UNCHANGED <<gpc, gsink>>
    BY <2>1, <2>2 DEF EarlyInv
  <2>3. CASE Take(s) /\ parked[s] # <<>>
    <3>1. s \in SinkSlots /\ parked[s] \in Seq(Consumers)
      BY Lengths DEF TypeOK, SinkTypes
    <3>2. Head(parked[s]) \in Consumers /\ gpc[Head(parked[s])] = "parked"
      BY <2>3, <3>1, HeadIsFirst DEF FanOutInv
    <3> QED
      BY <2>1, <3>2 DEF EarlyInv
  <2> QED
    BY <1>6, <2>2, <2>3 DEF Take, Handled, AdmitFirst, AdmitNone
<1>7. CASE UNCHANGED vars
  BY <1>7 DEF EarlyInv, vars
<1> QED
  BY <1>1, <1>2, <1>3, <1>4, <1>5, <1>6, <1>7, NextCases DEF RunRelay, Working

LEMMA StepStoreInv == IInv /\ [Next]_vars => StoreInv'
<1> SUFFICES ASSUME IInv, [Next]_vars PROVE StoreInv'
  OBVIOUS
<1>0. /\ StoreInv /\ EarlyInv /\ StartTypes
      /\ Len(processed) \in Nat /\ DOMAIN processed = 1..Len(processed)
  BY Lengths DEF IInv, TypeOK
<1> USE DEF initVars, goVars
<1>1. CASE InitEndpoint
  <2> DEFINE name == endpoints[next].name
  <2>1. next \in Nodes /\ next # NoNode /\ name \in Names /\ UNCHANGED goVars
    BY <1>0, <1>1, Lengths DEF InitEndpoint, Nodes, NoNode
  <2>2. CASE NodeFails
    BY <1>0, <2>1, <2>2 DEF NodeFails, StoreInv
  <2>3. CASE NodeCreated
    <3>1. /\ connections' = [connections EXCEPT ![name] = next]
          /\ processed' = Append(processed, name)
      BY <2>3 DEF NodeCreated
    <3>2. /\ DOMAIN processed' = 1..(Len(processed) + 1)
          /\ \A i \in 1..Len(processed) : processed'[i] = processed[i]
          /\ processed'[Len(processed) + 1] = name
      <4>1. /\ processed' \in Seq(Names) /\ Len(processed') = Len(processed) + 1
            /\ \A i \in 1..Len(processed) : processed'[i] = processed[i]
            /\ processed'[Len(processed) + 1] = name
        BY <1>0, <2>1, <3>1, AppendProperties DEF StartTypes
      <4> QED
        BY <4>1, LenProperties
    <3>3. connections \in [Names -> Nodes \cup {NoNode}]
      BY <1>0 DEF StartTypes
    <3> HIDE DEF name
    <3>4. \A n \in Names : connections[n] # NoNode => connections'[n] # NoNode
      BY <2>1, <3>1, <3>3
    <3>5. \A i \in DOMAIN processed : processed[i] \in Names
      BY <1>0, Lengths
    <3>6. connections'[name] # NoNode
      BY <2>1, <3>1, <3>3
    <3>7. \A i \in DOMAIN processed' : i \in DOMAIN processed \/ i = Len(processed) + 1
      BY <1>0, <3>2
    <3> QED
      BY <1>0, <2>1, <3>2, <3>4, <3>5, <3>6, <3>7 DEF StoreInv
  <2> QED
    BY <1>1, <2>2, <2>3 DEF InitEndpoint
<1>2. CASE StartConsumers
  BY <1>0, <1>2 DEF StartConsumers, StoreInv, Consumers, NodeSlots
<1>3. CASE RunRelay \/ StartFails \/ Register
  BY <1>0, <1>3 DEF RunRelay, LoadConfig, initializeSinks, NotifyMain, StartFails, Register, StoreInv
<1>4. CASE Shutdown \/ Signalling \/ Fetching \/ Consuming \/ Working \/ UNCHANGED vars
  <2>1. UNCHANGED <<connections, processed>>
    BY <1>4, ShutdownFrame, SignallingFrame, FetchingFrame, ConsumingFrame, WorkingFrame DEF vars
  <2>2. \A i \in Consumers : gpc'[i] # "none" => gpc[i] # "none"
    BY <1>4, NoneStays
  <2> QED
    BY <1>0, <2>1, <2>2 DEF StoreInv
<1> QED
  BY <1>1, <1>2, <1>3, <1>4, NextCases DEF Starting

\* FanOutInv depends on a consumer only through these three.
LEMMA FanOutKept ==
  ASSUME FanOutInv, UNCHANGED <<parked, sinks>>,
         \A i \in Consumers : gpc'[i] \in {"fanout", "parked", "panicking"} =>
                                gpc[i] \in {"fanout", "parked", "panicking"} /\ genv'[i] = genv[i],
         \A i \in Consumers : gpc[i] = "parked" => gpc'[i] = "parked" /\ gsink'[i] = gsink[i],
         SinkTypes
  PROVE  FanOutInv'
<1>1. \A i \in Consumers : gpc'[i] \in {"fanout", "parked", "panicking"} => genv'[i] \in Envelopes
  BY DEF FanOutInv
<1>2. ASSUME NEW s \in SinkSlots, NEW j \in DOMAIN parked[s]
      PROVE  gpc'[parked[s][j]] = "parked" /\ gsink'[parked[s][j]] = s /\ s \in Sinks
  <2>1. parked[s][j] \in Consumers
    BY <1>2, ElementOfSeq, LenProperties DEF SinkTypes
  <2> QED
    BY <1>2, <2>1 DEF FanOutInv
<1> QED
  BY <1>1, <1>2 DEF FanOutInv, Sinks

LEMMA StepFanOutInv == IInv /\ [Next]_vars => FanOutInv'
<1> SUFFICES ASSUME IInv, [Next]_vars PROVE FanOutInv'
  OBVIOUS
<1>0. /\ FanOutInv /\ EarlyInv /\ StartTypes /\ SinkTypes /\ ConsumerTypes
      /\ Sinks \subseteq SinkSlots
      /\ \A s \in SinkSlots : parked[s] \in Seq(Consumers)
      /\ \A s \in SinkSlots : \A j \in DOMAIN parked[s] : parked[s][j] \in Consumers
  BY Lengths, ElementOfSeq, LenProperties DEF IInv, TypeOK, SinkTypes
<1> USE DEF goVars, bufVars, configVars
<1>1. CASE RunRelay \/ Starting
  <2>1. UNCHANGED <<gsink, genv, parked>>
    BY <1>1, StartupFrame
  <2>2. CASE mpc \in {"loading", "creating", "created", "starting"}
    <3>1. \A i \in Consumers : gpc[i] = "none"
      BY <1>0, <2>2 DEF EarlyInv
    <3>2. \A s \in SinkSlots : DOMAIN parked[s] = {}
      BY <1>0, <3>1 DEF FanOutInv
    <3>3. \A i \in Consumers : gpc'[i] \in {"none", "receive"}
      BY <1>0, <1>1, <3>1 DEF RunRelay, LoadConfig, initializeSinks, NotifyMain, Starting,
         InitEndpoint, StartFails, StartConsumers, Register, ConsumerTypes
    <3> QED
      BY <2>1, <3>2, <3>3 DEF FanOutInv
  <2>3. CASE Register
    BY <1>0, <2>3, FanOutKept DEF Register
  <2> QED
    BY <1>1, <2>2, <2>3 DEF RunRelay, LoadConfig, initializeSinks, NotifyMain, Starting,
       InitEndpoint, StartFails, StartConsumers
<1>2. CASE Signalling \/ UNCHANGED vars
  <2>1. UNCHANGED <<goVars, parked, sinks>>
    BY <1>2, SignallingFrame DEF vars
  <2> QED
    BY <1>0, <2>1, FanOutKept
<1>3. ASSUME NEW s \in Sinks, CloseSink(s) PROVE FanOutInv'
  <2>1. /\ gpc' = [i \in Consumers |->
                      IF gpc[i] = "parked" /\ gsink[i] = s THEN "panicking" ELSE gpc[i]]
        /\ parked' = [parked EXCEPT ![s] = <<>>]
        /\ UNCHANGED <<gsink, genv, sinks>>
    BY <1>3 DEF CloseSink
  <2>2. parked'[s] = <<>> /\ \A t \in SinkSlots \ {s} : parked'[t] = parked[t]
    BY <1>0, <2>1 DEF SinkTypes
  <2>3. DOMAIN <<>> = {}
    BY EmptySeq
  <2>4. \A i \in Consumers : gpc'[i] \in {"fanout", "parked", "panicking"} => genv'[i] \in Envelopes
    BY <1>0, <2>1 DEF FanOutInv
  <2>5. ASSUME NEW t \in SinkSlots \ {s}, NEW j \in DOMAIN parked[t]
        PROVE  gpc'[parked[t][j]] = "parked" /\ gsink'[parked[t][j]] = t /\ t \in Sinks
    <3>1. gpc[parked[t][j]] = "parked" /\ gsink[parked[t][j]] = t /\ t \in Sinks
      BY <1>0, <2>5 DEF FanOutInv
    <3>2. parked[t][j] \in Consumers
      BY <1>0, <2>5
    <3> QED
      BY <2>1, <3>1, <3>2
  <2> QED
    BY <1>0, <2>1, <2>2, <2>3, <2>4, <2>5 DEF FanOutInv, Sinks
<1>4. CASE Shutdown /\ UNCHANGED <<gpc, parked>>
  <2>1. UNCHANGED <<gsink, genv, sinks>>
    BY <1>4, ShutdownFrame
  <2> QED
    BY <1>0, <1>4, <2>1, FanOutKept
<1>5. CASE Shutdown
  BY <1>3, <1>4, <1>5 DEF Shutdown, ShutdownBegins, CloseNode, RangeEnds, SinkCloseReturns, Stop
<1>6. ASSUME NEW i \in Consumers, Receive(i) PROVE FanOutInv'
  BY <1>0, <1>6, FanOutKept DEF Receive, ConsumerTypes
<1>7. ASSUME NEW i \in Consumers, Consumer(i) PROVE FanOutInv'
  <2>0. UNCHANGED sinks
    BY <1>7, ConsumingFrame DEF Consuming
  <2>1. CASE EventsEnd(i) \/ StopOnContext(i) \/ IgnoreEvent(i) \/ FanOutDone(i) \/ Panic(i)
    BY <1>0, <2>0, <2>1, FanOutKept DEF EventsEnd, StopOnContext, IgnoreEvent, FanOutDone, Panic,
       ConsumerTypes
  <2>2. CASE HandleFrame(i)
    <3>1. /\ gpc[i] = "check" /\ gpc' = [gpc EXCEPT ![i] = "fanout"] /\ UNCHANGED parked
          /\ genv' = [genv EXCEPT ![i] = Made(i)]
          /\ gsink' = [gsink EXCEPT ![i] = 1]
      BY <2>2, EnvelopeMade
    <3>2. genv'[i] \in Envelopes
      BY <1>0, <2>2, <3>1, EnvelopeMade DEF ConsumerTypes
    <3>3. \A j \in Consumers : gpc'[j] \in {"fanout", "parked", "panicking"} => genv'[j] \in Envelopes
      BY <1>0, <3>1, <3>2 DEF ConsumerTypes, FanOutInv
    <3>4. ASSUME NEW s \in SinkSlots, NEW j \in DOMAIN parked[s]
          PROVE  gpc'[parked[s][j]] = "parked" /\ gsink'[parked[s][j]] = s /\ s \in Sinks
      <4>1. parked[s][j] # i /\ parked[s][j] \in Consumers
        BY <1>0, <3>1, <3>4 DEF FanOutInv
      <4> QED
        BY <1>0, <3>1, <3>4, <4>1 DEF FanOutInv, ConsumerTypes
    <3> QED
      BY <1>0, <2>0, <3>1, <3>3, <3>4 DEF FanOutInv, Sinks
  <2>3. ASSUME NEW s \in Sinks, WriteTaken(i, s) \/ WriteFails(i, s) \/ WritePanics(i, s)
        PROVE  FanOutInv'
    <3>1. /\ gpc[i] = "fanout" /\ gpc' \in {gpc, [gpc EXCEPT ![i] = "panicking"]}
          /\ UNCHANGED <<parked, genv>>
          /\ gsink' = gsink \/ \E n : gsink' = [gsink EXCEPT ![i] = n]
      BY <2>3 DEF WriteTaken, WriteFails, WritePanics, AtSink
    <3> QED
      BY <1>0, <2>0, <3>1, FanOutKept DEF ConsumerTypes
  <2>4. ASSUME NEW s \in Sinks, WriteWaits(i, s) PROVE FanOutInv'
    <3>1. /\ gpc[i] = "fanout" /\ gsink[i] = s /\ gpc' = [gpc EXCEPT ![i] = "parked"]
          /\ parked' = [parked EXCEPT ![s] = Append(parked[s], i)]
          /\ UNCHANGED <<gsink, genv>>
      BY <2>4 DEF WriteWaits, AtSink
    <3> DEFINE q == parked[s]
    <3>2. /\ q \in Seq(Consumers) /\ Len(q) \in Nat /\ DOMAIN q = 1..Len(q)
          /\ DOMAIN Append(q, i) = 1..(Len(q) + 1)
          /\ \A j \in 1..Len(q) : Append(q, i)[j] = q[j]
          /\ Append(q, i)[Len(q) + 1] = i
      <4>1. q \in Seq(Consumers)
        BY <1>0
      <4>2. /\ Append(q, i) \in Seq(Consumers) /\ Len(Append(q, i)) = Len(q) + 1
            /\ \A j \in 1..Len(q) : Append(q, i)[j] = q[j]
            /\ Append(q, i)[Len(q) + 1] = i
        BY <4>1, AppendProperties
      <4> HIDE DEF q
      <4> QED
        BY <4>1, <4>2, LenProperties
    <3>3. parked'[s] = Append(q, i) /\ \A t \in SinkSlots \ {s} : parked'[t] = parked[t]
      BY <1>0, <3>1 DEF SinkTypes
    <3>4. \A t \in SinkSlots : \A j \in DOMAIN parked[t] :
            /\ parked[t][j] # i /\ parked[t][j] \in Consumers
            /\ gpc'[parked[t][j]] = "parked" /\ gsink'[parked[t][j]] = t /\ t \in Sinks
      BY <1>0, <3>1 DEF FanOutInv, ConsumerTypes
    <3>5. gpc'[i] = "parked" /\ gsink'[i] = s /\ s \in Sinks
      BY <1>0, <3>1 DEF ConsumerTypes
    <3>6. \A j \in DOMAIN parked'[s] : j \in DOMAIN q \/ j = Len(q) + 1
      BY <3>2, <3>3
    <3>7. \A j \in Consumers : gpc'[j] \in {"fanout", "parked", "panicking"} => genv'[j] \in Envelopes
      BY <1>0, <3>1 DEF FanOutInv, ConsumerTypes
    <3>8. ASSUME NEW t \in SinkSlots
          PROVE  /\ \A j \in DOMAIN parked'[t] :
                      gpc'[parked'[t][j]] = "parked" /\ gsink'[parked'[t][j]] = t /\ t \in Sinks
                 /\ \A j, l \in DOMAIN parked'[t] : parked'[t][j] = parked'[t][l] => j = l
      <4>1. CASE t # s
        BY <1>0, <3>3, <3>4, <4>1 DEF FanOutInv
      <4>2. CASE t = s
        <5>1. \A j \in DOMAIN parked'[s] :
                \/ j \in DOMAIN q /\ parked'[s][j] = q[j]
                \/ j = Len(q) + 1 /\ parked'[s][j] = i
          BY <3>2, <3>3, <3>6
        <5> QED
          BY <1>0, <3>4, <3>5, <4>2, <5>1 DEF FanOutInv
      <4> QED
        BY <4>1, <4>2
    <3> QED
      BY <2>0, <3>7, <3>8 DEF FanOutInv, Sinks
  <2> QED
    BY <1>7, <2>1, <2>2, <2>3, <2>4 DEF Consumer, WriteMessage
<1>8. ASSUME NEW s \in Sinks, Take(s) PROVE FanOutInv'
  <2>0. UNCHANGED <<genv, sinks>>
    BY <1>8 DEF Take
  <2>1. CASE parked[s] = <<>>
    BY <1>0, <1>8, <2>0, <2>1, FanOutKept DEF Take, AdmitFirst, AdmitNone
  <2>2. CASE parked[s] # <<>>
    <3> DEFINE q == parked[s]
               i == Head(q)
    <3>1. /\ gpc' = [gpc EXCEPT ![i] = "fanout"] /\ gsink' = [gsink EXCEPT ![i] = gsink[i] + 1]
          /\ parked' = [parked EXCEPT ![s] = Tail(q)]
      BY <1>8, <2>2 DEF Take, AdmitFirst
    <3>2. /\ 1 \in DOMAIN q /\ i = q[1] /\ i \in Consumers
          /\ DOMAIN q = 1..Len(q) /\ DOMAIN Tail(q) = 1..Len(Tail(q)) /\ Len(q) \in Nat
          /\ Len(Tail(q)) = Len(q) - 1
          /\ \A j \in DOMAIN Tail(q) : j + 1 \in DOMAIN q /\ Tail(q)[j] = q[j + 1]
      BY <1>0, <2>2, HeadIsFirst
    <3>3. parked'[s] = Tail(q) /\ \A t \in SinkSlots \ {s} : parked'[t] = parked[t]
      BY <1>0, <3>1 DEF SinkTypes
    <3> HIDE DEF i
    <3>4. /\ gpc[i] = "parked" /\ gsink[i] = s /\ genv[i] \in Envelopes
      BY <1>0, <3>2 DEF FanOutInv
    <3>5. \A j \in Consumers : gpc'[j] \in {"fanout", "parked", "panicking"} => genv'[j] \in Envelopes
      BY <1>0, <2>0, <3>1, <3>4 DEF FanOutInv, ConsumerTypes
    <3>6. \A j \in Consumers \ {i} : gpc'[j] = gpc[j] /\ gsink'[j] = gsink[j]
      BY <1>0, <3>1 DEF ConsumerTypes
    <3>7. ASSUME NEW t \in SinkSlots
          PROVE  /\ \A j \in DOMAIN parked'[t] :
                      gpc'[parked'[t][j]] = "parked" /\ gsink'[parked'[t][j]] = t /\ t \in Sinks
                 /\ \A j, l \in DOMAIN parked'[t] : parked'[t][j] = parked'[t][l] => j = l
      <4>1. CASE t # s
        <5>1. \A j \in DOMAIN parked[t] : parked[t][j] # i
          BY <1>0, <3>4, <4>1 DEF FanOutInv
        <5> QED
          BY <1>0, <3>3, <3>6, <4>1, <5>1 DEF FanOutInv
      <4>2. CASE t = s
        <5>1. \A j \in DOMAIN parked'[s] : j + 1 \in DOMAIN q /\ parked'[s][j] = q[j + 1] /\ j \in Nat
          BY <3>2, <3>3
        <5>2. \A j \in DOMAIN parked'[s] : parked'[s][j] # i
          <6> SUFFICES ASSUME NEW j \in DOMAIN parked'[s], parked'[s][j] = i PROVE FALSE
            OBVIOUS
          <6>1. q[j + 1] = q[1] /\ j + 1 \in DOMAIN q
            BY <3>2, <5>1
          <6>2. j + 1 = 1
            BY <1>0, <3>2, <6>1 DEF FanOutInv
          <6>3. j \in 1..Len(Tail(q))
            BY <3>2, <3>3
          <6> QED
            BY <6>2, <6>3
        <5>3. \A j, l \in DOMAIN parked'[s] : parked'[s][j] = parked'[s][l] => j + 1 = l + 1
          BY <1>0, <5>1 DEF FanOutInv
        <5>4. \A j, l \in DOMAIN parked'[s] : parked'[s][j] = parked'[s][l] => j = l
          BY <5>1, <5>3
        <5> QED
          BY <1>0, <3>6, <4>2, <5>1, <5>2, <5>4 DEF FanOutInv
      <4> QED
        BY <4>1, <4>2
    <3> QED
      BY <2>0, <3>5, <3>7 DEF FanOutInv, Sinks
  <2> QED
    BY <2>1, <2>2
<1>9. ASSUME NEW s \in Sinks, Handled(s) PROVE FanOutInv'
  BY <1>0, <1>9, FanOutKept DEF Handled
<1> QED
  BY <1>1, <1>2, <1>5, <1>6, <1>7, <1>8, <1>9, NextCases DEF Fetching, Consuming, Working

LEMMA StepIInv == IInv /\ [Next]_vars => IInv'
  BY StepStartTypes, StepSignalTypes, StepConsumerTypes, StepSinkTypes, StepEarlyInv,
     StepStoreInv, StepFanOutInv DEF IInv, TypeOK

\* The relay's state is well typed and no sink's queue outgrows its capacity,
\* whatever the configuration.
THEOREM TypeCorrect == Spec => []TypeOK
<1>1. IInv => TypeOK
  BY DEF IInv
<1> QED
  BY <1>1, InitIInv, StepIInv, PTL DEF Spec
-----------------------------------------------------------------------------
(* Sources are closed before sinks                                         *)

\* A sink is closed only once every stored node is.
QuietInv ==
    /\ \A s \in SinkSlots : sinkClosed[s] => mpc \in {"closing_sinks", "stopped", "killed"}
    /\ mpc \in {"closing_sinks", "stopped"} => NodesClosed

LEMMA StepQuietInv == IInv /\ QuietInv /\ [Next]_vars => QuietInv'
<1> SUFFICES ASSUME IInv, QuietInv, [Next]_vars PROVE QuietInv'
  OBVIOUS
<1>0. StartTypes /\ SinkTypes /\ Sinks \subseteq SinkSlots
  BY Lengths DEF IInv, TypeOK
<1> USE DEF QuietInv, initVars, nodeVars, bufVars, configVars
<1>1. CASE RunRelay \/ Starting
  BY <1>1 DEF RunRelay, LoadConfig, initializeSinks, NotifyMain, Starting, InitEndpoint,
     StartFails, StartConsumers, Register
<1>2. CASE ShutdownBegins \/ (\E n \in Names : CloseNode(n))
  BY <1>2 DEF ShutdownBegins, CloseNode
<1>3. CASE RangeEnds \/ Stop
  BY <1>3 DEF RangeEnds, Stop, NodesClosed
<1>4. ASSUME NEW s \in Sinks, CloseSink(s) \/ SinkCloseReturns(s) PROVE QuietInv'
  BY <1>0, <1>4 DEF CloseSink, SinkCloseReturns, SinkTypes, NodesClosed
<1>5. CASE Signalling
  BY <1>5, SignallingFrame DEF NodesClosed
<1>6. CASE Fetching \/ Consuming \/ Working \/ UNCHANGED vars
  <2>1. UNCHANGED <<mpc, connections, nodeClosed, sinkClosed>>
    BY <1>6, FetchingFrame, ConsumingFrame, WorkingFrame DEF vars
  <2> QED
    BY <2>1 DEF NodesClosed
<1> QED
  BY <1>1, <1>2, <1>3, <1>4, <1>5, <1>6, NextCases DEF Shutdown

\* The consumer of a closed node gets no further event.
LEMMA StepQuiet ==
    IInv /\ QuietInv /\ [Next]_vars => [(\E s \in Sinks : sinkClosed[s]) => UNCHANGED events]_vars
<1> SUFFICES ASSUME IInv, QuietInv, [Next]_vars, NEW s \in Sinks, sinkClosed[s]
             PROVE  UNCHANGED events
  OBVIOUS
<1> USE DEF nodeVars
<1>0. StartTypes /\ Sinks \subseteq SinkSlots /\ mpc \in {"closing_sinks", "stopped", "killed"}
  BY Lengths DEF IInv, TypeOK, QuietInv
<1>1. CASE RunRelay \/ Starting \/ Shutdown \/ Signalling \/ Consuming \/ Working \/ UNCHANGED vars
  BY <1>1, StartupFrame, ShutdownFrame, SignallingFrame, ConsumingFrame, WorkingFrame DEF vars
<1>2. ASSUME NEW i \in Consumers, Receive(i) PROVE FALSE
  <2>1. mpc = "closing_sinks" /\ gpc[i] = "receive" /\ ~nodeClosed[Node(i)]
    BY <1>0, <1>2 DEF Receive, Alive
  <2>2. i \in DOMAIN processed /\ Node(i) # NoNode /\ Endpoint(i) \in Names
    BY <1>0, <2>1, Lengths DEF IInv, StoreInv, Node, Endpoint
  <2> QED
    BY <2>1, <2>2 DEF QuietInv, NodesClosed, Node, Endpoint
<1> QED
  BY <1>1, <1>2, NextCases DEF Fetching

\* Once a sink is closed, every node is and stays closed: nothing is read that no
\* sink could take (Start's shutdown, relay.go:107-127).
THEOREM SourcesCloseFirst == Spec => QuietAfterSinksClose
<1>1. Init => QuietInv
  BY DEF Init, QuietInv
<1> QED
  BY <1>1, InitIInv, StepIInv, StepQuietInv, StepQuiet, PTL DEF Spec, QuietAfterSinksClose

-----------------------------------------------------------------------------
(* Every envelope has its own drone's name                                 *)

Right(e) == e.drone = endpoints[e.node].drone /\ e.source = endpoints[e.node].name

InFanOut == {"fanout", "parked", "panicking"}

\* The node and the drone_id stored under a name are of one endpoint, the last of
\* that name, and what was made from them stays true.
NamesInv ==
    /\ mpc = "loading" => /\ \A i \in Consumers : genv[i] = NoEnvelope
                          /\ \A s \in SinkSlots : queue[s] = <<>>
    /\ \A n \in Names : connections[n] # NoNode =>
         /\ n \in DOMAIN droneIDs
         /\ endpoints[connections[n]].name = n
         /\ endpoints[connections[n]].drone = droneIDs[n]
    /\ \A i \in Consumers : genv[i] # NoEnvelope \/ gpc[i] \in InFanOut => Right(genv[i])
    /\ \A s \in SinkSlots : \A j \in DOMAIN queue[s] : Right(queue[s][j])

LEMMA NamesGiveAttribution == IInv /\ NamesInv => DroneAttribution
  BY Lengths DEF IInv, TypeOK, NamesInv, DroneAttribution, Right

\* Queues gain a right envelope and lose their head.
LEMMA RightQueues ==
  ASSUME NEW q \in Seq(Envelopes), \A j \in DOMAIN q : Right(q[j])
  PROVE  /\ \A e \in Envelopes :
              Right(e) => \A j \in DOMAIN Append(q, e) : Right(Append(q, e)[j])
         /\ q # <<>> => \A j \in DOMAIN Tail(q) : Right(Tail(q)[j])
<1>1. ASSUME NEW e \in Envelopes, Right(e), NEW j \in DOMAIN Append(q, e)
      PROVE  Right(Append(q, e)[j])
  <2>1. /\ Append(q, e) \in Seq(Envelopes) /\ Len(Append(q, e)) = Len(q) + 1
        /\ \A l \in 1..Len(q) : Append(q, e)[l] = q[l]
        /\ Append(q, e)[Len(q) + 1] = e
    BY AppendProperties
  <2>2. Len(q) \in Nat /\ DOMAIN q = 1..Len(q) /\ j \in 1..(Len(q) + 1)
    BY <1>1, <2>1, LenProperties
  <2>3. j \in DOMAIN q \/ j = Len(q) + 1
    BY <2>2
  <2> QED
    BY <1>1, <2>1, <2>2, <2>3
<1>2. ASSUME q # <<>>, NEW j \in DOMAIN Tail(q) PROVE Right(Tail(q)[j])
  BY <1>2, HeadIsFirst
<1> QED
  BY <1>1, <1>2

LEMMA StepNamesInv == IInv /\ NamesInv /\ [Next]_vars => NamesInv'
<1> SUFFICES ASSUME IInv, NamesInv, [Next]_vars PROVE NamesInv'
  OBVIOUS
<1>0. /\ StartTypes /\ SinkTypes /\ ConsumerTypes /\ Sinks \subseteq SinkSlots
      /\ \A s \in SinkSlots : queue[s] \in Seq(Envelopes)
  BY Lengths DEF IInv, TypeOK, SinkTypes
<1> USE DEF initVars, configVars, goVars, bufVars
<1>1. CASE LoadConfig
  <2>1. /\ mpc = "loading" /\ UNCHANGED <<initVars, goVars, bufVars>>
        /\ connections = [n \in Names |-> NoNode] /\ \A i \in Consumers : gpc[i] = "none"
    BY <1>1 DEF LoadConfig, IInv, EarlyInv
  <2>2. \A s \in SinkSlots : queue[s] = <<>> /\ DOMAIN queue[s] = {}
    BY <2>1, EmptySeq DEF NamesInv
  <2> QED
    BY <2>1, <2>2 DEF NamesInv, InFanOut
<1>2. CASE initializeSinks \/ NotifyMain \/ StartFails \/ Register
  BY <1>2 DEF initializeSinks, NotifyMain, StartFails, Register, NamesInv, Right
<1>3. CASE StartConsumers
  <2>1. /\ UNCHANGED <<initVars, configVars, genv, queue>> /\ mpc' = "started"
        /\ \A i \in Consumers : gpc'[i] \notin InFanOut
    BY <1>3 DEF StartConsumers, InFanOut
  <2> QED
    BY <2>1 DEF NamesInv, Right
<1>4. CASE InitEndpoint
  <2> DEFINE e == endpoints[next]
  <2>1. /\ next \in Nodes /\ e.name \in Names /\ UNCHANGED <<configVars, goVars, bufVars>>
        /\ mpc = "starting" /\ mpc' = "starting"
    BY <1>0, <1>4, Lengths DEF InitEndpoint
  <2>2. CASE NodeFails
    BY <2>1, <2>2 DEF NodeFails, NamesInv, Right
  <2>3. CASE NodeCreated
    <3>1. /\ connections' = [connections EXCEPT ![e.name] = next]
          /\ droneIDs' = [n \in DOMAIN droneIDs \cup {e.name} |->
                             IF n = e.name THEN e.drone ELSE droneIDs[n]]
      BY <2>3 DEF NodeCreated
    <3>2. connections \in [Names -> Nodes \cup {NoNode}]
      BY <1>0 DEF StartTypes
    <3>3. ASSUME NEW n \in Names, connections'[n] # NoNode
          PROVE  /\ n \in DOMAIN droneIDs'
                 /\ endpoints[connections'[n]].name = n
                 /\ endpoints[connections'[n]].drone = droneIDs'[n]
      <4>1. CASE n = e.name
        BY <3>1, <3>2, <4>1
      <4>2. CASE n # e.name
        BY <3>1, <3>2, <3>3, <4>2 DEF NamesInv
      <4> QED
        BY <4>1, <4>2
    <3> HIDE DEF e
    <3> QED
      BY <2>1, <3>3 DEF NamesInv, Right
  <2> QED
    BY <1>4, <2>2, <2>3 DEF InitEndpoint
<1>5. CASE Shutdown
  <2>1. /\ UNCHANGED <<configVars, initVars, genv, queue>> /\ mpc' # "loading"
    BY <1>5, ShutdownFrame DEF Shutdown, ShutdownBegins, CloseNode, RangeEnds, CloseSink,
       SinkCloseReturns, Stop
  <2>2. \A i \in Consumers : gpc'[i] \in InFanOut => gpc[i] \in InFanOut
    BY <1>5 DEF InFanOut, Shutdown, ShutdownBegins, CloseNode, RangeEnds, CloseSink,
       SinkCloseReturns, Stop
  <2> QED
    BY <2>1, <2>2 DEF NamesInv, Right
<1>6. CASE Signalling \/ Fetching \/ UNCHANGED vars
  <2>1. UNCHANGED <<configVars, initVars, genv, queue>> /\ mpc' \in {mpc, "killed"}
    BY <1>6, SignallingFrame, FetchingFrame DEF vars
  <2>2. \A i \in Consumers : gpc'[i] \in InFanOut => gpc[i] \in InFanOut
    BY <1>0, <1>6, SignallingFrame DEF vars, Fetching, Receive, InFanOut, ConsumerTypes
  <2> QED
    BY <2>1, <2>2 DEF NamesInv, Right
<1>7. ASSUME NEW i \in Consumers, Consumer(i) PROVE NamesInv'
  <2>0. UNCHANGED <<configVars, initVars, mpc>> /\ mpc # "loading"
    BY <1>7, ConsumingFrame DEF Consuming, IInv, EarlyInv, Consumer, EventsEnd, StopOnContext,
       IgnoreEvent, HandleFrame, FanOutDone, Panic, WriteMessage, WriteTaken, WriteFails,
       WriteWaits, WritePanics, AtSink
  <2>1. CASE EventsEnd(i) \/ StopOnContext(i) \/ IgnoreEvent(i) \/ FanOutDone(i) \/ Panic(i)
    <3>1. /\ UNCHANGED queue /\ genv' \in {genv, [genv EXCEPT ![i] = NoEnvelope]}
          /\ \A j \in Consumers : gpc'[j] \in InFanOut => gpc[j] \in InFanOut /\ genv'[j] = genv[j]
      BY <1>0, <2>1 DEF EventsEnd, StopOnContext, IgnoreEvent, FanOutDone, Panic, InFanOut,
         ConsumerTypes
    <3>2. \A j \in Consumers : genv'[j] \in {genv[j], NoEnvelope}
      BY <1>0, <3>1 DEF ConsumerTypes
    <3> QED
      BY <2>0, <3>1, <3>2 DEF NamesInv, Right
  <2>2. CASE HandleFrame(i)
    <3>1. /\ genv' = [genv EXCEPT ![i] = Made(i)] /\ gpc' = [gpc EXCEPT ![i] = "fanout"]
          /\ i \in DOMAIN processed /\ UNCHANGED queue
      BY <2>2, EnvelopeMade
    <3>2. Endpoint(i) \in Names /\ Node(i) # NoNode
      BY <1>0, <3>1, Lengths DEF IInv, StoreInv, Endpoint, Node
    <3>3. Right(Made(i))
      BY <3>2 DEF NamesInv, Right, Made, Node, getDroneID
    <3>4. genv'[i] = Made(i) /\ \A j \in Consumers \ {i} : genv'[j] = genv[j] /\ gpc'[j] = gpc[j]
      BY <1>0, <3>1 DEF ConsumerTypes
    <3>5. \A j \in Consumers : genv'[j] # NoEnvelope \/ gpc'[j] \in InFanOut => Right(genv'[j])
      BY <3>3, <3>4 DEF NamesInv
    <3> QED
      BY <2>0, <3>1, <3>5 DEF NamesInv, Right
  <2>3. CASE WriteMessage(i)
    <3> PICK s \in Sinks : WriteTaken(i, s) \/ WriteFails(i, s) \/ WriteWaits(i, s)
                           \/ WritePanics(i, s)
      BY <2>3 DEF WriteMessage
    <3>1. gpc[i] = "fanout" /\ UNCHANGED genv
          /\ gpc' \in {gpc, [gpc EXCEPT ![i] = "parked"], [gpc EXCEPT ![i] = "panicking"]}
      BY DEF WriteTaken, WriteFails, WriteWaits, WritePanics, AtSink
    <3>2. \A j \in Consumers : genv'[j] # NoEnvelope \/ gpc'[j] \in InFanOut => Right(genv'[j])
      BY <1>0, <3>1 DEF NamesInv, InFanOut, ConsumerTypes
    <3>3. queue' \in {queue, [queue EXCEPT ![s] = Append(queue[s], genv[i])]}
      BY DEF WriteTaken, WriteFails, WriteWaits, WritePanics
    <3>4. genv[i] \in Envelopes /\ Right(genv[i]) /\ s \in SinkSlots
      BY <1>0, <3>1 DEF IInv, FanOutInv, NamesInv, InFanOut
    <3>5. \A j \in DOMAIN Append(queue[s], genv[i]) : Right(Append(queue[s], genv[i])[j])
      BY <1>0, <3>4, RightQueues DEF NamesInv
    <3>6. \A t \in SinkSlots : \A j \in DOMAIN queue'[t] : Right(queue'[t][j])
      BY <1>0, <3>3, <3>4, <3>5 DEF SinkTypes, NamesInv
    <3> QED
      BY <2>0, <3>2, <3>6 DEF NamesInv, Right
  <2> QED
    BY <1>7, <2>1, <2>2, <2>3 DEF Consumer
<1>8. ASSUME NEW s \in Sinks, Take(s) PROVE NamesInv'
  <2>0. /\ UNCHANGED <<configVars, initVars, mpc, genv>> /\ s \in SinkSlots /\ queue[s] # <<>>
        /\ mpc # "loading" /\ queue[s] \in Seq(Envelopes) /\ Tail(queue[s]) \in Seq(Envelopes)
    BY <1>0, <1>8, HeadIsFirst DEF Take, NamesInv
  <2>1. \A j \in DOMAIN Tail(queue[s]) : Right(Tail(queue[s])[j])
    BY <2>0, RightQueues DEF NamesInv
  <2>2. CASE parked[s] = <<>>
    <3>1. queue' = [queue EXCEPT ![s] = Tail(queue[s])] /\ UNCHANGED gpc
      BY <1>8, <2>2 DEF Take, AdmitFirst, AdmitNone
    <3>2. \A t \in SinkSlots : \A j \in DOMAIN queue'[t] : Right(queue'[t][j])
      BY <1>0, <2>0, <2>1, <3>1 DEF SinkTypes, NamesInv
    <3> QED
      BY <2>0, <3>1, <3>2 DEF NamesInv, Right
  <2>3. CASE parked[s] # <<>>
    <3> DEFINE i == Head(parked[s])
    <3>1. /\ queue' = [queue EXCEPT ![s] = Append(Tail(queue[s]), genv[i])]
          /\ gpc' = [gpc EXCEPT ![i] = "fanout"]
      BY <1>8, <2>3 DEF Take, AdmitFirst
    <3>2. i \in Consumers /\ gpc[i] = "parked"
      BY <1>0, <2>0, <2>3, HeadIsFirst DEF IInv, FanOutInv, SinkTypes
    <3> HIDE DEF i
    <3>3. genv[i] \in Envelopes /\ Right(genv[i])
      BY <3>2 DEF IInv, FanOutInv, NamesInv, InFanOut
    <3>4. \A j \in DOMAIN Append(Tail(queue[s]), genv[i]) :
            Right(Append(Tail(queue[s]), genv[i])[j])
      BY <2>0, <2>1, <3>3, RightQueues
    <3>5. \A t \in SinkSlots : \A j \in DOMAIN queue'[t] : Right(queue'[t][j])
      BY <1>0, <2>0, <3>1, <3>4 DEF SinkTypes, NamesInv
    <3>6. \A j \in Consumers : genv'[j] # NoEnvelope \/ gpc'[j] \in InFanOut => Right(genv'[j])
      BY <1>0, <2>0, <3>1, <3>3 DEF NamesInv, ConsumerTypes
    <3> QED
      BY <2>0, <3>5, <3>6 DEF NamesInv, Right
  <2> QED
    BY <2>2, <2>3
<1>9. ASSUME NEW s \in Sinks, Handled(s) PROVE NamesInv'
  BY <1>9 DEF Handled, NamesInv, Right
<1> QED
  BY <1>1, <1>2, <1>3, <1>4, <1>5, <1>6, <1>7, <1>8, <1>9, NextCases
  DEF RunRelay, Starting, Consuming, Working

\* Every envelope a consumer handles or a sink queues carries the drone_id and the
\* name of the endpoint its frame came from, whatever names the endpoints have.
THEOREM EveryDroneItsOwn == Spec => []DroneAttribution
<1>1. Init => NamesInv
  BY EmptySeq DEF Init, NamesInv, InFanOut
<1> QED
  BY <1>1, InitIInv, StepIInv, StepNamesInv, NamesGiveAttribution, PTL DEF Spec
-----------------------------------------------------------------------------
(* Start returns with the queues drained                                   *)

\* Nothing has reached a sink before the factory has made it.
Untouched(s) ==
    /\ queue[s] = <<>> /\ hand[s] = <<>>
    /\ offered[s] = 0 /\ accepted[s] = 0 /\ finished[s] = 0 /\ buffered[s] = 0

\* What a queueing sink accepted and has not finished is in its queue or its
\* worker's hand; a direct sink has buffered what it was offered.
Balanced(s) == accepted[s] = finished[s] + Len(queue[s]) + Len(hand[s])
InSink(s) == IF Kind(s) = "direct" THEN buffered[s] = offered[s] ELSE Balanced(s)

\* A closed sink has nobody waiting; the sinks before sinkAt are drained.
DrainInv ==
    /\ mpc \in {"loading", "creating"} => sinks = <<>> /\ \A s \in SinkSlots : Untouched(s)
    /\ \A s \in Sinks : InSink(s)
    /\ \A s \in SinkSlots : sinkClosed[s] => parked[s] = <<>>
    /\ mpc \in {"closing_sinks", "stopped"} =>
         \A s \in Sinks : s < sinkAt => sinkClosed[s] /\ Drained(s)
    /\ mpc = "stopped" => sinkAt \notin Sinks /\ sinkAt >= 1
    /\ mpc = "closing_sinks" => sinkAt >= 1

LEMMA DrainInvEnds == IInv /\ DrainInv => StoppedIsDrained
<1> SUFFICES ASSUME IInv, DrainInv, mpc = "stopped", NEW s \in Sinks, Kind(s) # "direct"
             PROVE  finished[s] = accepted[s]
  BY DEF StoppedIsDrained, DrainInv, InSink
<1>1. /\ SinkTypes /\ Len(sinks) \in Nat /\ Sinks \subseteq SinkSlots /\ Sinks = 1..Len(sinks)
      /\ sinkAt \in 0..(Len(sinks) + 1)
  BY Lengths DEF IInv, TypeOK, Sinks, SinkTypes
<1>2. sinkAt \notin Sinks /\ sinkAt >= 1
  BY DEF DrainInv
<1>3. s < sinkAt
  BY <1>1, <1>2
<1>4. queue[s] = <<>> /\ hand[s] = <<>>
  BY <1>3 DEF DrainInv, Drained
<1>5. accepted[s] = finished[s] + Len(<<>>) + Len(<<>>)
  BY <1>1, <1>4 DEF DrainInv, InSink, Balanced
<1>6. finished[s] \in Nat /\ Len(<<>>) = 0
  BY <1>1, EmptySeq DEF SinkTypes
<1>7. \A n \in Nat : n + 0 + 0 = n
  OBVIOUS
<1> QED
  BY <1>5, <1>6, <1>7

\* A step that takes nothing from the sinks and does not move the shutdown.
LEMMA DrainKept ==
  ASSUME DrainInv, UNCHANGED <<file, sinks, sinkAt, bufVars, countVars>>,
         mpc' \in {"closing_sinks", "stopped"} => mpc' = mpc,
         mpc' \in {"loading", "creating"} => mpc \in {"loading", "creating"}
  PROVE  DrainInv'
  BY DEF DrainInv, InSink, Balanced, Untouched, Kind, Drained, bufVars, countVars, Sinks

\* A sink that a step leaves alone.
Alone(t) ==
    /\ queue'[t] = queue[t] /\ hand'[t] = hand[t]
    /\ offered'[t] = offered[t] /\ accepted'[t] = accepted[t]
    /\ finished'[t] = finished[t] /\ buffered'[t] = buffered[t]

\* A step at one sink, which stays closed and drained if it was.
LEMMA DrainNext ==
  ASSUME DrainInv, NEW s \in Sinks, UNCHANGED <<file, sinks, mpc, sinkAt>>,
         \A t \in Sinks \ {s} : Alone(t), InSink(s)',
         \A t \in SinkSlots : sinkClosed'[t] => parked'[t] = <<>>,
         \A t \in Sinks : sinkClosed[t] => sinkClosed'[t],
         sinkClosed[s] /\ Drained(s) => Drained(s)'
  PROVE  DrainInv'
<1>1. sinks # <<>>
  <2>1. Len(<<>>) = 0 /\ 1..0 = {}
    BY EmptySeq
  <2> QED
    BY <2>1 DEF Sinks
<1>2. mpc \notin {"loading", "creating"}
  BY <1>1 DEF DrainInv
<1>3. Sinks' = Sinks /\ \A t \in Sinks : Kind(t)' = Kind(t)
  BY DEF Sinks, Kind
<1>4. \A t \in Sinks : InSink(t)'
  BY <1>3 DEF DrainInv, InSink, Balanced, Alone
<1>5. \A t \in Sinks : sinkClosed[t] /\ Drained(t) => sinkClosed'[t] /\ Drained(t)'
  BY DEF Drained, Alone
<1> QED
  BY <1>2, <1>3, <1>4, <1>5 DEF DrainInv

LEMMA StepDrainInv == IInv /\ DrainInv /\ [Next]_vars => DrainInv'
<1> SUFFICES ASSUME IInv, DrainInv, [Next]_vars PROVE DrainInv'
  OBVIOUS
<1>0. /\ SinkTypes /\ Sinks \subseteq SinkSlots /\ Sinks = 1..Len(sinks) /\ Len(sinks) \in Nat
      /\ \A s \in SinkSlots : /\ queue[s] \in Seq(Envelopes) /\ hand[s] \in Seq(Envelopes)
                              /\ Len(queue[s]) \in Nat /\ Len(hand[s]) \in Nat
                              /\ accepted[s] \in Nat /\ finished[s] \in Nat
                              /\ offered[s] \in Nat /\ buffered[s] \in Nat
  BY Lengths, LenProperties DEF IInv, TypeOK, SinkTypes, Sinks
<1>k. UNCHANGED <<file, sinks>> => Sinks' = Sinks /\ \A s : Kind(s)' = Kind(s)
  BY DEF Sinks, Kind
<1> USE DEF configVars, bufVars, countVars, goVars
<1>1. CASE initializeSinks
  <2>1. /\ \A s \in SinkSlots : Untouched(s)
        /\ UNCHANGED <<bufVars, countVars>> /\ mpc' \in {"failed", "created"}
    BY <1>1 DEF initializeSinks, DrainInv
  <2>2. Sinks' \subseteq SinkSlots
    <3>1. Len(sinks') \in Nat /\ Len(sinks') <= MaxSinks
      BY <1>1, StepStartTypes, LenProperties DEF StartTypes
    <3> QED
      BY <3>1, BoundAssumption DEF Sinks, SinkSlots
  <2>3. \A s \in SinkSlots : InSink(s)'
    <3>1. Len(<<>>) = 0 /\ 0 = 0 + 0 + 0
      BY EmptySeq
    <3> QED
      BY <2>1, <3>1 DEF Untouched, InSink, Balanced
  <2>4. \A s \in SinkSlots : sinkClosed'[s] => parked'[s] = <<>>
    BY <2>1 DEF DrainInv
  <2> QED
    BY <2>1, <2>2, <2>3, <2>4 DEF DrainInv
<1>2. CASE LoadConfig \/ NotifyMain \/ Starting
  <2>1. /\ UNCHANGED <<file, sinks, sinkAt, bufVars, countVars>>
        /\ mpc' \notin {"closing_sinks", "stopped"}
        /\ mpc' \in {"loading", "creating"} => mpc \in {"loading", "creating"}
    BY <1>2 DEF LoadConfig, NotifyMain, Starting, InitEndpoint, StartFails, StartConsumers, Register
  <2> QED
    BY <2>1, DrainKept
<1>3. CASE Signalling \/ Fetching \/ UNCHANGED vars
  <2>1. UNCHANGED <<file, sinks, sinkAt, bufVars, countVars>> /\ mpc' \in {mpc, "killed"}
    BY <1>3, SignallingFrame, FetchingFrame DEF vars
  <2> QED
    BY <2>1, DrainKept
<1>4. CASE ShutdownBegins \/ (\E n \in Names : CloseNode(n))
  <2>1. UNCHANGED <<file, sinks, sinkAt, bufVars, countVars>> /\ mpc' = "closing_nodes"
    BY <1>4 DEF ShutdownBegins, CloseNode
  <2> QED
    BY <2>1, DrainKept
<1>5. CASE RangeEnds
  <2>1. UNCHANGED <<file, sinks, bufVars, countVars>> /\ sinkAt' = 1 /\ mpc' = "closing_sinks"
    BY <1>5 DEF RangeEnds
  <2>2. \A s \in Sinks : ~(s < 1)
    BY <1>0
  <2>3. \A s \in Sinks : InSink(s)'
    BY <1>k, <2>1 DEF DrainInv, InSink, Balanced
  <2> QED
    BY <1>k, <2>1, <2>2, <2>3 DEF DrainInv
<1>6. ASSUME NEW s \in Sinks, CloseSink(s) PROVE DrainInv'
  <2>1. /\ sinkClosed' = [sinkClosed EXCEPT ![s] = TRUE]
        /\ parked' = [parked EXCEPT ![s] = <<>>]
        /\ UNCHANGED <<file, sinks, mpc, sinkAt, queue, hand, countVars>>
    BY <1>6 DEF CloseSink
  <2>2. \A t \in SinkSlots : /\ sinkClosed[t] => sinkClosed'[t]
                             /\ sinkClosed'[t] => parked'[t] = <<>>
    BY <1>0, <2>1 DEF SinkTypes, DrainInv
  <2>3. InSink(s)'
    BY <1>k, <2>1 DEF DrainInv, InSink, Balanced
  <2>4. \A t \in Sinks \ {s} : Alone(t)
    BY <2>1 DEF Alone
  <2>5. Drained(s) => Drained(s)'
    BY <2>1 DEF Drained
  <2> QED
    BY <1>0, <2>1, <2>2, <2>3, <2>4, <2>5, DrainNext
<1>7. ASSUME NEW s \in Sinks, SinkCloseReturns(s) PROVE DrainInv'
  <2>1. /\ mpc = "closing_sinks" /\ sinkAt = s /\ sinkClosed[s] /\ Drained(s) /\ sinkAt' = s + 1
        /\ UNCHANGED <<file, sinks, mpc, bufVars, countVars>>
    BY <1>7 DEF SinkCloseReturns
  <2>2. s \in Nat /\ \A t \in Sinks : t < s + 1 => t < s \/ t = s
    BY <1>0
  <2>3. \A t \in Sinks : t < s + 1 => sinkClosed[t] /\ Drained(t)
    BY <2>1, <2>2 DEF DrainInv
  <2>4. s + 1 >= 1
    BY <2>2
  <2>5. \A t \in Sinks : InSink(t)' /\ (Drained(t) => Drained(t)')
    BY <1>k, <2>1 DEF DrainInv, InSink, Balanced, Drained
  <2> QED
    BY <1>k, <2>1, <2>3, <2>4, <2>5 DEF DrainInv
<1>8. CASE Stop
  <2>1. /\ UNCHANGED <<file, sinks, sinkAt, bufVars, countVars>>
        /\ mpc = "closing_sinks" /\ sinkAt \notin Sinks /\ mpc' = "stopped"
    BY <1>8 DEF Stop
  <2>2. \A t \in Sinks : InSink(t)' /\ (Drained(t) => Drained(t)')
    BY <1>k, <2>1 DEF DrainInv, InSink, Balanced, Drained
  <2> QED
    BY <1>k, <2>1, <2>2 DEF DrainInv
<1>9. ASSUME NEW i \in Consumers, Consumer(i) PROVE DrainInv'
  <2>0. UNCHANGED <<mpc, configVars, sinkAt, hand, sinkClosed>>
    BY <1>9, ConsumingFrame DEF Consuming
  <2>1. CASE EventsEnd(i) \/ StopOnContext(i) \/ HandleFrame(i) \/ IgnoreEvent(i)
             \/ FanOutDone(i) \/ Panic(i)
    <3>1. UNCHANGED <<bufVars, countVars>>
      BY <2>1 DEF EventsEnd, StopOnContext, HandleFrame, IgnoreEvent, FanOutDone, Panic
    <3> QED
      BY <2>0, <3>1, DrainKept
  <2>2. ASSUME NEW s \in Sinks, WriteTaken(i, s) PROVE DrainInv'
    <3>1. /\ offered' = [offered EXCEPT ![s] = offered[s] + 1]
          /\ accepted' = [accepted EXCEPT ![s] = accepted[s] + 1]
          /\ UNCHANGED <<parked, finished>> /\ Buffers(s)
          /\ queue' = IF Kind(s) = "direct" THEN queue
                      ELSE [queue EXCEPT ![s] = Append(queue[s], genv[i])]
          /\ gpc[i] = "fanout" /\ s \in SinkSlots
      BY <1>0, <2>2 DEF WriteTaken, AtSink
    <3>2. \A t \in Sinks \ {s} : Alone(t)
      BY <1>0, <2>0, <3>1 DEF SinkTypes, Alone, Buffers
    <3>3. InSink(s)'
      <4>1. CASE Kind(s) = "direct"
        <5>1. buffered'[s] = buffered[s] + 1 /\ offered'[s] = offered[s] + 1
          BY <1>0, <3>1, <4>1 DEF SinkTypes, Buffers
        <5>2. buffered[s] = offered[s]
          BY <4>1 DEF DrainInv, InSink
        <5> QED
          BY <1>k, <2>0, <4>1, <5>1, <5>2 DEF InSink
      <4>2. CASE Kind(s) # "direct"
        <5>1. Len(Append(queue[s], genv[i])) = Len(queue[s]) + 1
          BY <1>0, <3>1, AppendProperties DEF IInv, FanOutInv
        <5>2. /\ accepted'[s] = accepted[s] + 1 /\ finished'[s] = finished[s]
              /\ Len(queue'[s]) = Len(queue[s]) + 1 /\ hand'[s] = hand[s]
          BY <1>0, <2>0, <3>1, <4>2, <5>1 DEF SinkTypes
        <5>3. accepted[s] = finished[s] + Len(queue[s]) + Len(hand[s])
          BY <4>2 DEF DrainInv, InSink, Balanced
        <5>4. \A f, q, h \in Nat : (f + q + h) + 1 = f + (q + 1) + h
          OBVIOUS
        <5>5. accepted'[s] = finished[s] + (Len(queue[s]) + 1) + Len(hand[s])
          <6>1. /\ finished[s] \in Nat /\ Len(queue[s]) \in Nat /\ Len(hand[s]) \in Nat
                /\ accepted'[s] = (finished[s] + Len(queue[s]) + Len(hand[s])) + 1
            BY <1>0, <3>1, <5>2, <5>3
          <6> QED
            BY ONLY <5>4, <6>1
        <5>6. Balanced(s)'
          BY <5>2, <5>5 DEF Balanced
        <5> QED
          BY <1>k, <2>0, <4>2, <5>6 DEF InSink
      <4> QED
        BY <4>1, <4>2
    <3>4. sinkClosed[s] /\ Drained(s) => Drained(s)'
      BY <2>0, <2>2, <3>1 DEF WriteTaken, Drained
    <3>5. \A t \in SinkSlots : sinkClosed'[t] => parked'[t] = <<>>
      BY <2>0, <3>1 DEF DrainInv
    <3> QED
      BY <2>0, <3>2, <3>3, <3>4, <3>5, DrainNext
  <2>3. ASSUME NEW s \in Sinks, WriteFails(i, s) PROVE DrainInv'
    <3>1. /\ offered' = [offered EXCEPT ![s] = offered[s] + 1]
          /\ UNCHANGED <<bufVars, accepted, finished>> /\ Buffers(s) /\ s \in SinkSlots
      BY <1>0, <2>3 DEF WriteFails, AtSink
    <3>2. \A t \in Sinks \ {s} : Alone(t)
      BY <1>0, <3>1 DEF SinkTypes, Alone, Buffers
    <3>3. InSink(s)'
      <4>1. CASE Kind(s) = "direct"
        <5>1. buffered'[s] = buffered[s] + 1 /\ offered'[s] = offered[s] + 1
          BY <1>0, <3>1, <4>1 DEF SinkTypes, Buffers
        <5>2. buffered[s] = offered[s]
          BY <4>1 DEF DrainInv, InSink
        <5> QED
          BY <1>k, <2>0, <4>1, <5>1, <5>2 DEF InSink
      <4>2. CASE Kind(s) # "direct"
        BY <1>k, <2>0, <3>1, <4>2 DEF DrainInv, InSink, Balanced
      <4> QED
        BY <4>1, <4>2
    <3>4. Drained(s) => Drained(s)'
      BY <3>1 DEF Drained
    <3>5. \A t \in SinkSlots : sinkClosed'[t] => parked'[t] = <<>>
      BY <3>1 DEF DrainInv
    <3> QED
      BY <2>0, <3>2, <3>3, <3>4, <3>5, DrainNext
  <2>4. ASSUME NEW s \in Sinks, WriteWaits(i, s) \/ WritePanics(i, s) PROVE DrainInv'
    <3>1. /\ offered' = [offered EXCEPT ![s] = offered[s] + 1] /\ s \in SinkSlots
          /\ UNCHANGED <<queue, hand, accepted, finished, buffered>>
          /\ Kind(s) # "direct"
      BY <1>0, <2>0, <2>4 DEF WriteWaits, WritePanics, AtSink
    <3>2. \A t \in Sinks \ {s} : Alone(t)
      BY <1>0, <3>1 DEF SinkTypes, Alone
    <3>3. InSink(s)'
      BY <1>k, <2>0, <3>1 DEF DrainInv, InSink, Balanced
    <3>4. Drained(s) => Drained(s)'
      BY <3>1 DEF Drained
    <3>5. \A t \in SinkSlots : sinkClosed'[t] => parked'[t] = <<>>
      <4>1. CASE WriteWaits(i, s)
        <5>1. parked' = [parked EXCEPT ![s] = Append(parked[s], i)] /\ ~sinkClosed[s]
          BY <4>1 DEF WriteWaits
        <5> QED
          BY <1>0, <2>0, <5>1 DEF SinkTypes, DrainInv
      <4>2. CASE WritePanics(i, s)
        BY <2>0, <4>2 DEF WritePanics, DrainInv
      <4> QED
        BY <2>4, <4>1, <4>2
    <3> QED
      BY <2>0, <3>2, <3>3, <3>4, <3>5, DrainNext
  <2> QED
    BY <1>9, <2>1, <2>2, <2>3, <2>4 DEF Consumer, WriteMessage
<1>10. ASSUME NEW s \in Sinks, Take(s) PROVE DrainInv'
  <2>0. /\ UNCHANGED <<configVars, mpc, sinkAt, sinkClosed, offered, finished, buffered>>
        /\ s \in SinkSlots
        /\ queue[s] # <<>> /\ hand[s] = <<>> /\ hand' = [hand EXCEPT ![s] = <<Head(queue[s])>>]
    BY <1>0, <1>10 DEF Take
  <2>1. /\ Tail(queue[s]) \in Seq(Envelopes) /\ Len(Tail(queue[s])) = Len(queue[s]) - 1
        /\ Head(queue[s]) \in Envelopes
    BY <1>0, <2>0, HeadIsFirst
  <2>2. Len(hand'[s]) = 1 /\ Len(hand[s]) = 0
    <3>1. Len(<<Head(queue[s])>>) = 1 /\ Len(hand[s]) = 0
      BY <2>0, <2>1, Singleton, EmptySeq
    <3> QED
      BY <1>0, <2>0, <3>1 DEF SinkTypes
  <2>3. ~Drained(s)
    BY <2>0 DEF Drained
  <2>4. ASSUME /\ \A t \in Sinks \ {s} : Alone(t)
               /\ \/ accepted'[s] = accepted[s] /\ Len(queue'[s]) = Len(queue[s]) - 1
                  \/ accepted'[s] = accepted[s] + 1 /\ Len(queue'[s]) = Len(queue[s])
               /\ \A t \in SinkSlots : sinkClosed'[t] => parked'[t] = <<>>
        PROVE  DrainInv'
    <3>1. CASE Kind(s) = "direct"
      <4>1. InSink(s)'
        BY <1>k, <2>0, <3>1 DEF DrainInv, InSink
      <4> QED
        BY <2>0, <2>3, <2>4, <4>1, DrainNext
    <3>2. CASE Kind(s) # "direct"
      <4>1. accepted[s] = finished[s] + Len(queue[s]) + 0
        BY <2>2, <3>2 DEF DrainInv, InSink, Balanced
      <4>2. \A f, q \in Nat : f + q + 0 = f + (q - 1) + 1 /\ (f + q + 0) + 1 = f + q + 1
        OBVIOUS
      <4>3. accepted'[s] = finished[s] + Len(queue'[s]) + 1
        BY <1>0, <2>0, <2>4, <4>1, <4>2
      <4>4. Balanced(s)'
        BY <2>0, <2>2, <4>3 DEF Balanced
      <4>5. InSink(s)'
        BY <1>k, <2>0, <3>2, <4>4 DEF InSink
      <4> QED
        BY <2>0, <2>3, <2>4, <4>5, DrainNext
    <3> QED
      BY <3>1, <3>2
  <2>5. CASE parked[s] = <<>>
    <3>1. queue' = [queue EXCEPT ![s] = Tail(queue[s])] /\ UNCHANGED <<parked, accepted>>
      BY <1>10, <2>5 DEF Take, AdmitFirst, AdmitNone
    <3>2. \A t \in Sinks \ {s} : Alone(t)
      BY <1>0, <2>0, <3>1 DEF SinkTypes, Alone
    <3>3. accepted'[s] = accepted[s] /\ Len(queue'[s]) = Len(queue[s]) - 1
      BY <1>0, <2>0, <2>1, <3>1 DEF SinkTypes
    <3>4. \A t \in SinkSlots : sinkClosed'[t] => parked'[t] = <<>>
      BY <2>0, <3>1 DEF DrainInv
    <3> QED
      BY <2>4, <3>2, <3>3, <3>4
  <2>6. CASE parked[s] # <<>>
    <3> DEFINE i == Head(parked[s])
    <3>1. /\ queue' = [queue EXCEPT ![s] = Append(Tail(queue[s]), genv[i])]
          /\ parked' = [parked EXCEPT ![s] = Tail(parked[s])]
          /\ accepted' = [accepted EXCEPT ![s] = accepted[s] + 1]
      BY <1>10, <2>6 DEF Take, AdmitFirst
    <3>2. i \in Consumers /\ gpc[i] = "parked" /\ ~sinkClosed[s]
      <4>1. i \in Consumers /\ 1 \in DOMAIN parked[s] /\ i = parked[s][1] /\ s \in SinkSlots
        BY <1>0, <2>0, <2>6, HeadIsFirst DEF SinkTypes
      <4>2. gpc[i] = "parked"
        BY <4>1 DEF IInv, FanOutInv
      <4>3. ~sinkClosed[s]
        BY <2>6, <4>1 DEF DrainInv
      <4> QED
        BY <4>1, <4>2, <4>3
    <3>3. genv[i] \in Envelopes
      BY <3>2 DEF IInv, FanOutInv
    <3> HIDE DEF i
    <3>4. Len(Append(Tail(queue[s]), genv[i])) = Len(queue[s])
      <4>1. Len(Append(Tail(queue[s]), genv[i])) = Len(Tail(queue[s])) + 1
        BY <2>1, <3>3, AppendProperties
      <4> QED
        BY <1>0, <2>0, <2>1, <4>1
    <3>5. \A t \in Sinks \ {s} : Alone(t)
      BY <1>0, <2>0, <3>1 DEF SinkTypes, Alone
    <3>6. accepted'[s] = accepted[s] + 1 /\ Len(queue'[s]) = Len(queue[s])
      BY <1>0, <2>0, <3>1, <3>4 DEF SinkTypes
    <3>7. \A t \in SinkSlots : sinkClosed'[t] => parked'[t] = <<>>
      BY <1>0, <2>0, <3>1, <3>2 DEF SinkTypes, DrainInv
    <3> QED
      BY <2>4, <3>5, <3>6, <3>7
  <2> QED
    BY <2>5, <2>6
<1>11. ASSUME NEW s \in Sinks, Handled(s) PROVE DrainInv'
  <2>1. /\ hand[s] # <<>> /\ hand' = [hand EXCEPT ![s] = <<>>] /\ s \in SinkSlots
        /\ finished' = [finished EXCEPT ![s] = finished[s] + 1]
        /\ UNCHANGED <<configVars, mpc, sinkAt, queue, parked, sinkClosed, offered, accepted, buffered>>
    BY <1>0, <1>11 DEF Handled
  <2>2. Len(hand[s]) = 1 /\ Len(hand'[s]) = 0
    <3>1. Len(hand[s]) \in Nat \ {0} /\ Len(hand[s]) <= 1 /\ Len(<<>>) = 0
      BY <1>0, <2>1, EmptySeq DEF SinkTypes
    <3>2. \A k \in Nat \ {0} : k <= 1 => k = 1
      OBVIOUS
    <3>3. hand'[s] = <<>>
      BY <1>0, <2>1 DEF SinkTypes
    <3> QED
      BY <3>1, <3>2, <3>3
  <2>3. \A t \in Sinks \ {s} : Alone(t)
    BY <1>0, <2>1 DEF SinkTypes, Alone
  <2>4. InSink(s)'
    <3>1. CASE Kind(s) = "direct"
      BY <1>k, <2>1, <3>1 DEF DrainInv, InSink
    <3>2. CASE Kind(s) # "direct"
      <4>1. accepted[s] = finished[s] + Len(queue[s]) + 1
        BY <2>2, <3>2 DEF DrainInv, InSink, Balanced
      <4>2. \A f, q \in Nat : f + q + 1 = (f + 1) + q + 0
        OBVIOUS
      <4>3. finished'[s] = finished[s] + 1
        BY <1>0, <2>1 DEF SinkTypes
      <4>4. accepted[s] = (finished[s] + 1) + Len(queue[s]) + 0
        <5>1. finished[s] \in Nat /\ Len(queue[s]) \in Nat
          BY <1>0, <2>1
        <5> QED
          BY ONLY <4>1, <4>2, <5>1
      <4>5. Balanced(s)'
        BY <2>1, <2>2, <4>3, <4>4 DEF Balanced
      <4> QED
        BY <1>k, <2>1, <3>2, <4>5 DEF InSink
    <3> QED
      BY <3>1, <3>2
  <2>5. ~Drained(s) /\ \A t \in SinkSlots : sinkClosed'[t] => parked'[t] = <<>>
    BY <2>1 DEF Drained, DrainInv
  <2> QED
    BY <2>1, <2>3, <2>4, <2>5, DrainNext
<1> QED
  BY <1>1, <1>2, <1>3, <1>4, <1>5, <1>6, <1>7, <1>8, <1>9, <1>10, <1>11, NextCases
  DEF RunRelay, Shutdown, Consuming, Working

\* When Start returns, the worker of every queueing sink is done with all the sink
\* accepted, and every direct sink has what it was offered in its buffer, however
\* many sinks there are, whatever they returned and whoever waited for them.
THEOREM QueuesAreDrained == Spec => []StoppedIsDrained
<1>1. Init => DrainInv
  BY EmptySeq DEF Init, DrainInv, Untouched, Sinks
<1> QED
  BY <1>1, InitIInv, StepIInv, StepDrainInv, DrainInvEnds, PTL DEF Spec
-----------------------------------------------------------------------------
(* Offers, counted by the places of the consumers                          *)

\* A consumer is at a sink, or past the last one, exactly while it is fanning out.
PlaceInv ==
    /\ \A i \in Consumers :
         /\ gpc[i] \in InFanOut => gsink[i] \in 1..(Len(sinks) + 1)
         /\ gpc[i] \notin InFanOut => gsink[i] = 0
         /\ gpc[i] \in {"parked", "panicking"} => gsink[i] \in Sinks
    /\ mpc \in {"loading", "creating"} => \A s \in SinkSlots : offered[s] = 0

Waiting(s) == {i \in Consumers : gsink[i] = s /\ gpc[i] \in {"parked", "panicking"}}
Between(s, t) == {i \in Consumers : HasOffered(i, s) /\ ~HasOffered(i, t)}

CountInv ==
    /\ \A s \in SinkSlots :
         offered[s] = accepted[s] + sinkErrors[s] + Cardinality(Waiting(s))
    /\ \A s, t \in Sinks : s < t => offered[s] - offered[t] = Cardinality(Between(s, t))

LEMMA CountInvSays == IInv /\ CountInv => OffersAccounted /\ EverySinkOffered
  BY Lengths DEF IInv, TypeOK, CountInv, OffersAccounted, EverySinkOffered, Waiting, Between

LEMMA Counting ==
  \A T \in SUBSET Consumers :
    /\ Cardinality(T) \in Nat
    /\ \A i \in Consumers : /\ i \notin T => Cardinality(T \cup {i}) = Cardinality(T) + 1
                            /\ i \in T => Cardinality(T \ {i}) = Cardinality(T) - 1
<1>1. IsFiniteSet(Consumers)
  BY FS_Interval, BoundAssumption DEF Consumers, NodeSlots
<1>2. \A T \in SUBSET Consumers : IsFiniteSet(T)
  BY <1>1, FS_Subset
<1> QED
  BY <1>2, FS_CardinalityType, FS_AddElement, FS_RemoveElement

\* A consumer's fan-out starts at the first sink and ends after the last.
LEMMA StepPlaceInv == IInv /\ PlaceInv /\ [Next]_vars => PlaceInv'
<1> SUFFICES ASSUME IInv, PlaceInv, [Next]_vars PROVE PlaceInv'
  OBVIOUS
<1>0. /\ StartTypes /\ SinkTypes /\ ConsumerTypes /\ EarlyInv
      /\ Sinks = 1..Len(sinks) /\ Len(sinks) \in Nat /\ Sinks \subseteq SinkSlots
      /\ 1 \in 1..(Len(sinks) + 1) /\ \A s \in Sinks : s + 1 \in 1..(Len(sinks) + 1)
  BY Lengths DEF IInv, TypeOK, Sinks
<1> USE DEF configVars, goVars, countVars
<1>1. CASE RunRelay \/ InitEndpoint \/ StartFails \/ StartConsumers
  <2>1. /\ UNCHANGED <<gsink, offered>> /\ \A i \in Consumers : gpc'[i] \in {"none", "receive"}
        /\ \A i \in Consumers : gpc[i] = "none"
    BY <1>0, <1>1 DEF RunRelay, LoadConfig, initializeSinks, NotifyMain, InitEndpoint, StartFails,
       StartConsumers, EarlyInv
  <2>2. mpc' \in {"loading", "creating"} => mpc \in {"loading", "creating"}
    BY <1>1 DEF RunRelay, LoadConfig, initializeSinks, NotifyMain, InitEndpoint, StartFails,
       StartConsumers
  <2> QED
    BY <2>1, <2>2 DEF PlaceInv, InFanOut
<1>2. CASE Register \/ Signalling \/ UNCHANGED vars
  <2>1. UNCHANGED <<configVars, goVars, countVars>>
        /\ (mpc' \in {"loading", "creating"} => mpc' = mpc)
    BY <1>2, SignallingFrame DEF Register, vars
  <2> QED
    BY <2>1 DEF PlaceInv, Sinks
<1>3. CASE Shutdown
  <2>1. UNCHANGED <<configVars, gsink, offered>> /\ mpc' \notin {"loading", "creating"}
    BY <1>3, ShutdownFrame DEF Shutdown, ShutdownBegins, CloseNode, RangeEnds, CloseSink,
       SinkCloseReturns, Stop
  <2>2. \A i \in Consumers : gpc'[i] = gpc[i] \/ (gpc[i] = "parked" /\ gpc'[i] = "panicking")
    BY <1>3 DEF Shutdown, ShutdownBegins, CloseNode, RangeEnds, CloseSink, SinkCloseReturns, Stop
  <2> QED
    BY <2>1, <2>2 DEF PlaceInv, InFanOut, Sinks
<1>4. ASSUME NEW i \in Consumers, Receive(i) \/ Consumer(i) PROVE PlaceInv'
  <2>0. UNCHANGED <<configVars, mpc>> /\ mpc \notin {"loading", "creating"}
    <3>1. UNCHANGED <<configVars, mpc>>
      BY <1>4, FetchingFrame, ConsumingFrame DEF Fetching, Consuming
    <3>2. gpc[i] # "none"
      BY <1>4 DEF Consumer, Receive, EventsEnd, StopOnContext, IgnoreEvent, HandleFrame,
         FanOutDone, Panic, WriteMessage, WriteTaken, WriteFails, WriteWaits, WritePanics, AtSink
    <3> QED
      BY <1>0, <3>1, <3>2 DEF EarlyInv
  <2>1. CASE Receive(i) \/ EventsEnd(i) \/ StopOnContext(i) \/ IgnoreEvent(i) \/ Panic(i)
    BY <1>0, <2>0, <2>1 DEF Receive, EventsEnd, StopOnContext, IgnoreEvent, Panic, PlaceInv,
       InFanOut, ConsumerTypes, Sinks
  <2>2. CASE HandleFrame(i) \/ FanOutDone(i)
    BY <1>0, <2>0, <2>2 DEF HandleFrame, FanOutDone, PlaceInv, InFanOut, ConsumerTypes, Sinks
  <2>3. CASE WriteMessage(i)
    <3> PICK s \in Sinks : WriteTaken(i, s) \/ WriteFails(i, s) \/ WriteWaits(i, s)
                           \/ WritePanics(i, s)
      BY <2>3 DEF WriteMessage
    <3>1. gpc[i] = "fanout" /\ gsink[i] = s
      BY DEF WriteTaken, WriteFails, WriteWaits, WritePanics, AtSink
    <3>2. \/ gpc' = gpc /\ gsink' = [gsink EXCEPT ![i] = s + 1]
          \/ gsink' = gsink /\ gpc' \in {[gpc EXCEPT ![i] = "parked"],
                                         [gpc EXCEPT ![i] = "panicking"]}
      BY <3>1 DEF WriteTaken, WriteFails, WriteWaits, WritePanics, AfterError
    <3> QED
      BY <1>0, <2>0, <3>1, <3>2 DEF PlaceInv, InFanOut, ConsumerTypes, Sinks
  <2> QED
    BY <1>4, <2>1, <2>2, <2>3 DEF Consumer
<1>5. ASSUME NEW s \in Sinks, Take(s) PROVE PlaceInv'
  <2>0. UNCHANGED <<configVars, mpc, offered>> /\ s \in SinkSlots
    BY <1>0, <1>5 DEF Take
  <2>1. CASE parked[s] = <<>>
    BY <1>0, <1>5, <2>0, <2>1 DEF Take, AdmitFirst, AdmitNone, PlaceInv, Sinks
  <2>2. CASE parked[s] # <<>>
    <3> DEFINE i == Head(parked[s])
    <3>1. gpc' = [gpc EXCEPT ![i] = "fanout"] /\ gsink' = [gsink EXCEPT ![i] = gsink[i] + 1]
      BY <1>5, <2>2 DEF Take, AdmitFirst
    <3>2. i \in Consumers /\ gsink[i] = s
      BY <1>0, <2>0, <2>2, HeadIsFirst DEF IInv, FanOutInv, SinkTypes
    <3> HIDE DEF i
    <3> QED
      BY <1>0, <2>0, <3>1, <3>2 DEF PlaceInv, InFanOut, ConsumerTypes, Sinks
  <2> QED
    BY <2>1, <2>2
<1>6. ASSUME NEW s \in Sinks, Handled(s) PROVE PlaceInv'
  BY <1>6 DEF Handled, PlaceInv, Sinks
<1> QED
  BY <1>1, <1>2, <1>3, <1>4, <1>5, <1>6, NextCases DEF Starting, Fetching, Consuming, Working

Counted(s) == offered[s] = accepted[s] + sinkErrors[s] + Cardinality(Waiting(s))
Ordered == \A s, t \in Sinks : s < t => offered[s] - offered[t] = Cardinality(Between(s, t))

LEMMA SameApartFrom ==
  ASSUME NEW S, NEW T, NEW i, S \ {i} = T \ {i}, i \in S <=> i \in T
  PROVE  S = T
<1>1. \A j : j # i => (j \in S <=> j \in T)
  OBVIOUS
<1> QED
  BY <1>1

\* Where only consumer i moves, it alone can join or leave the sets.
LEMMA OthersStay ==
  ASSUME NEW i \in Consumers,
         \A j \in Consumers \ {i} : gpc'[j] = gpc[j] /\ gsink'[j] = gsink[j]
  PROVE  \A s, t \in SinkSlots : /\ Waiting(s)' \ {i} = Waiting(s) \ {i}
                                 /\ Between(s, t)' \ {i} = Between(s, t) \ {i}
  BY DEF Waiting, Between, HasOffered

\* A consumer's call of one sink adds its offer there, and moves it past the sink.
LEMMA OfferMoves ==
  ASSUME IInv, Ordered, NEW i \in Consumers, NEW s \in Sinks,
         UNCHANGED sinks, offered' = [offered EXCEPT ![s] = offered[s] + 1],
         \A j \in Consumers \ {i} : gpc'[j] = gpc[j] /\ gsink'[j] = gsink[j],
         \A u \in Sinks : (HasOffered(i, u) <=> u < s) /\ (HasOffered(i, u)' <=> u <= s)
  PROVE  Ordered'
<1>1. /\ Sinks \subseteq SinkSlots /\ Sinks \subseteq Nat /\ Sinks' = Sinks
      /\ offered \in [SinkSlots -> Nat]
  BY Lengths DEF IInv, TypeOK, SinkTypes, Sinks
<1> SUFFICES ASSUME NEW u \in Sinks, NEW t \in Sinks, u < t
             PROVE  offered'[u] - offered'[t] = Cardinality(Between(u, t)')
  BY <1>1 DEF Ordered
<1> DEFINE B == Between(u, t)
           C == Between(u, t)'
<1>2. /\ B \in SUBSET Consumers /\ C \in SUBSET Consumers /\ C \ {i} = B \ {i}
      /\ offered[u] - offered[t] = Cardinality(B)
      /\ offered[u] \in Nat /\ offered[t] \in Nat
  BY <1>1, OthersStay DEF Between, Ordered
<1>3. (i \in B <=> u < s /\ ~(t < s)) /\ (i \in C <=> u <= s /\ ~(t <= s))
  BY DEF Between
<1> HIDE DEF B, C
<1>4. CASE u = s
  <2>1. i \notin B /\ i \in C
    BY <1>1, <1>3, <1>4
  <2>2. C = B \cup {i}
    <3>1. \A j : j # i => (j \in C <=> j \in B)
      BY <1>2
    <3> QED
      BY <2>1, <3>1
  <2>3. Cardinality(C) = Cardinality(B) + 1 /\ Cardinality(B) \in Nat
    BY <1>2, <2>1, <2>2, Counting
  <2>4. offered'[u] = offered[u] + 1 /\ offered'[t] = offered[t]
    BY <1>1, <1>4
  <2> QED
    BY <1>2, <2>3, <2>4 DEF C
<1>5. CASE t = s
  <2>1. i \in B /\ i \notin C
    BY <1>1, <1>3, <1>5
  <2>2. C = B \ {i}
    BY <1>2, <2>1
  <2>3. Cardinality(C) = Cardinality(B) - 1 /\ Cardinality(B) \in Nat
    BY <1>2, <2>1, <2>2, Counting
  <2>4. offered'[t] = offered[t] + 1 /\ offered'[u] = offered[u]
    BY <1>1, <1>5
  <2> QED
    BY <1>2, <2>3, <2>4 DEF C
<1>6. CASE u # s /\ t # s
  <2>1. i \in B <=> i \in C
    BY <1>1, <1>3, <1>6
  <2>2. C = B
    BY <1>2, <2>1, SameApartFrom
  <2>3. offered'[t] = offered[t] /\ offered'[u] = offered[u]
    BY <1>1, <1>6
  <2> QED
    BY <1>2, <2>2, <2>3 DEF C
<1> QED
  BY <1>4, <1>5, <1>6

\* A step without an offer that keeps every consumer on its side of every sink.
LEMMA CountKept ==
  ASSUME IInv, CountInv, UNCHANGED <<sinks, offered, accepted, sinkErrors>>,
         \A s \in SinkSlots : Waiting(s)' = Waiting(s),
         \A s, t \in Sinks : s < t => Between(s, t)' = Between(s, t)
  PROVE  CountInv'
<1>1. Sinks \subseteq SinkSlots /\ Sinks' = Sinks
  BY Lengths DEF IInv, TypeOK, Sinks
<1> QED
  BY <1>1 DEF CountInv

LEMMA StepCountInv == IInv /\ PlaceInv /\ CountInv /\ [Next]_vars => CountInv'
<1> SUFFICES ASSUME IInv, PlaceInv, CountInv, [Next]_vars PROVE CountInv'
  OBVIOUS
<1>0. /\ StartTypes /\ SinkTypes /\ ConsumerTypes /\ EarlyInv
      /\ Sinks = 1..Len(sinks) /\ Len(sinks) \in Nat /\ Sinks \subseteq SinkSlots
      /\ Sinks \subseteq Nat
      /\ \A s \in SinkSlots : /\ offered[s] \in Nat /\ accepted[s] \in Nat
                              /\ sinkErrors[s] \in Nat /\ Waiting(s) \in SUBSET Consumers
                              /\ Cardinality(Waiting(s)) \in Nat
  BY Lengths, Counting DEF IInv, TypeOK, SinkTypes, Sinks, Waiting
<1>c. \A s \in SinkSlots : Counted(s)
  BY DEF CountInv, Counted
<1>o. Ordered
  BY DEF CountInv, Ordered
<1> USE DEF configVars, goVars, countVars
<1>1. CASE initializeSinks
  <2>1. /\ UNCHANGED <<goVars, countVars>> /\ mpc = "creating"
        /\ \A i \in Consumers : gsink[i] = 0 /\ gpc[i] = "none"
    BY <1>0, <1>1 DEF initializeSinks, EarlyInv
  <2>2. \A s \in SinkSlots : Waiting(s)' = Waiting(s)
    BY <2>1 DEF Waiting
  <2>3. Sinks' \subseteq SinkSlots /\ Sinks' \subseteq Nat
    <3>1. StartTypes'
      BY <1>1, StepStartTypes
    <3>2. Len(sinks') \in Nat /\ Len(sinks') <= MaxSinks
      BY <3>1, LenProperties DEF StartTypes
    <3> QED
      BY <3>2, BoundAssumption DEF Sinks, SinkSlots
  <2>4. \A s, t \in Sinks' : offered'[s] - offered'[t] = 0
    <3>1. \A s \in SinkSlots : offered'[s] = 0
      BY <2>1 DEF PlaceInv
    <3>2. \A s \in Sinks' : offered'[s] = 0
      BY <2>3, <3>1
    <3>3. 0 - 0 = 0
      OBVIOUS
    <3> QED
      BY <3>2, <3>3
  <2>5. \A s, t \in Sinks' : Between(s, t)' = {}
    BY <2>1, <2>3 DEF Between, HasOffered
  <2> QED
    BY <2>1, <2>2, <2>4, <2>5, FS_EmptySet DEF CountInv
<1>2. CASE LoadConfig \/ NotifyMain \/ Starting \/ Shutdown \/ Signalling \/ Fetching \/ UNCHANGED vars
  <2>1. UNCHANGED <<sinks, offered, accepted, sinkErrors, gsink>>
    BY <1>2, StartupFrame, ShutdownFrame, SignallingFrame, FetchingFrame
    DEF LoadConfig, NotifyMain, Starting, InitEndpoint, StartFails, StartConsumers, Register, vars
  <2>2. \A i \in Consumers : gpc'[i] \in {"parked", "panicking"} <=> gpc[i] \in {"parked", "panicking"}
    <3>1. CASE StartConsumers
      BY <1>0, <3>1 DEF StartConsumers, EarlyInv
    <3>2. CASE LoadConfig \/ NotifyMain \/ InitEndpoint \/ StartFails \/ Register \/ Signalling
               \/ UNCHANGED vars
      BY <3>2, SignallingFrame DEF LoadConfig, NotifyMain, InitEndpoint, StartFails, Register, vars
    <3>3. CASE Shutdown
      BY <3>3 DEF Shutdown, ShutdownBegins, CloseNode, RangeEnds, CloseSink, SinkCloseReturns, Stop
    <3>4. CASE Fetching
      BY <1>0, <3>4 DEF Fetching, Receive, ConsumerTypes
    <3> QED
      BY <1>2, <3>1, <3>2, <3>3, <3>4 DEF Starting
  <2>3. /\ \A s \in SinkSlots : Waiting(s)' = Waiting(s)
        /\ \A s, t \in Sinks : Between(s, t)' = Between(s, t)
    BY <2>1, <2>2 DEF Waiting, Between, HasOffered
  <2> QED
    BY <2>1, <2>3, CountKept
<1>3. ASSUME NEW i \in Consumers,
             EventsEnd(i) \/ StopOnContext(i) \/ IgnoreEvent(i) \/ HandleFrame(i) \/ FanOutDone(i)
             \/ Panic(i)
      PROVE  CountInv'
  <2>1. /\ UNCHANGED <<sinks, offered, accepted, sinkErrors>>
        /\ \A j \in Consumers \ {i} : gpc'[j] = gpc[j] /\ gsink'[j] = gsink[j]
    BY <1>0, <1>3 DEF EventsEnd, StopOnContext, IgnoreEvent, HandleFrame, FanOutDone, Panic,
       ConsumerTypes
  <2>2. \A s, t \in Sinks : s < t => (i \in Between(s, t) <=> i \in Between(s, t)')
    <3>1. CASE EventsEnd(i) \/ StopOnContext(i) \/ IgnoreEvent(i) \/ Panic(i)
      BY <1>0, <3>1 DEF EventsEnd, StopOnContext, IgnoreEvent, Panic, Between, HasOffered,
         ConsumerTypes
    <3>2. CASE HandleFrame(i)
      <4>1. gsink[i] = 0 /\ gpc[i] = "check" /\ gsink'[i] = 1 /\ gpc'[i] = "fanout"
        BY <1>0, <3>2 DEF HandleFrame, PlaceInv, InFanOut, ConsumerTypes
      <4>2. \A s \in Sinks : ~(s < 0) /\ ~(s < 1)
        BY <1>0
      <4> QED
        BY <4>1, <4>2 DEF Between, HasOffered
    <3>3. CASE FanOutDone(i)
      <4>1. /\ gsink[i] \notin Sinks /\ gsink[i] \in 1..(Len(sinks) + 1)
            /\ gsink'[i] = 0 /\ gpc'[i] = "receive"
        BY <1>0, <3>3 DEF FanOutDone, PlaceInv, InFanOut, ConsumerTypes
      <4>2. \A s \in Sinks : ~(s < 0) /\ s < gsink[i]
        BY <1>0, <4>1
      <4> QED
        BY <4>1, <4>2 DEF Between, HasOffered
    <3> QED
      BY <1>3, <3>1, <3>2, <3>3
  <2>3. \A s \in SinkSlots : i \in Waiting(s) <=> i \in Waiting(s)'
    BY <1>0, <1>3 DEF EventsEnd, StopOnContext, IgnoreEvent, HandleFrame, FanOutDone, Panic,
       Waiting, ConsumerTypes
  <2>4. /\ \A s \in SinkSlots : Waiting(s)' = Waiting(s)
        /\ \A s, t \in Sinks : s < t => Between(s, t)' = Between(s, t)
    <3>1. \A s, t \in SinkSlots : /\ Waiting(s)' \ {i} = Waiting(s) \ {i}
                                  /\ Between(s, t)' \ {i} = Between(s, t) \ {i}
      BY <2>1, OthersStay
    <3>2. \A s \in SinkSlots : Waiting(s)' = Waiting(s)
      BY <2>3, <3>1
    <3>3. ASSUME NEW s \in Sinks, NEW t \in Sinks, s < t PROVE Between(s, t)' = Between(s, t)
      <4>1. Between(s, t)' \ {i} = Between(s, t) \ {i}
        BY <1>0, <3>1
      <4>2. i \in Between(s, t)' <=> i \in Between(s, t)
        BY <2>2, <3>3
      <4> QED
        BY <4>1, <4>2, SameApartFrom
    <3> QED
      BY <3>2, <3>3
  <2> QED
    BY <2>1, <2>4, CountKept
<1>4. ASSUME NEW i \in Consumers, NEW s \in Sinks,
             WriteTaken(i, s) \/ WriteFails(i, s) \/ WriteWaits(i, s) \/ WritePanics(i, s)
      PROVE  CountInv'
  <2>1. /\ gpc[i] = "fanout" /\ gsink[i] = s /\ offered' = [offered EXCEPT ![s] = offered[s] + 1]
        /\ UNCHANGED sinks
    BY <1>4 DEF WriteTaken, WriteFails, WriteWaits, WritePanics, AtSink
  <2>2. \/ gpc' = gpc /\ gsink' = [gsink EXCEPT ![i] = s + 1]
        \/ gsink' = gsink /\ gpc' \in {[gpc EXCEPT ![i] = "parked"], [gpc EXCEPT ![i] = "panicking"]}
    BY <1>4, <2>1 DEF WriteTaken, WriteFails, WriteWaits, WritePanics, AfterError
  <2>3. /\ \A j \in Consumers \ {i} : gpc'[j] = gpc[j] /\ gsink'[j] = gsink[j]
        /\ \A u \in Sinks : HasOffered(i, u) <=> u < s
        /\ \A u \in Sinks : HasOffered(i, u)' <=> u < s + 1
    <3>1. \A u \in Sinks : u < s + 1 <=> u < s \/ u = s
      BY <1>0
    <3> QED
      BY <1>0, <2>1, <2>2, <3>1 DEF HasOffered, ConsumerTypes
  <2>4. \A u \in Sinks : HasOffered(i, u)' <=> u <= s
    BY <1>0, <2>3
  <2>5. Ordered'
    BY <1>o, <2>1, <2>3, <2>4, OfferMoves
  <2>6. \A t \in SinkSlots : Waiting(t)' \ {i} = Waiting(t) \ {i} /\ i \notin Waiting(t)
    BY <1>0, <2>1, <2>3, OthersStay DEF Waiting
  <2>7. \A t \in SinkSlots : Counted(t)'
    <3>1. CASE gpc' = gpc
      <4>1. \A t \in SinkSlots : Waiting(t)' = Waiting(t)
        BY <2>1, <2>6, <3>1 DEF Waiting
      <4>2. \/ accepted' = [accepted EXCEPT ![s] = accepted[s] + 1] /\ UNCHANGED sinkErrors
            \/ sinkErrors' = [sinkErrors EXCEPT ![s] = sinkErrors[s] + 1] /\ UNCHANGED accepted
        <5>1. gpc'[i] # "parked" /\ gpc'[i] # "panicking"
          BY <2>1, <3>1
        <5> QED
          BY <1>0, <1>4, <5>1 DEF WriteTaken, WriteFails, WriteWaits, WritePanics, CountError,
             ConsumerTypes
      <4>3. \A t \in SinkSlots : offered'[t] = accepted'[t] + sinkErrors'[t] + Cardinality(Waiting(t))
        <5>1. ASSUME NEW t \in SinkSlots, t # s
              PROVE  offered'[t] = accepted'[t] + sinkErrors'[t] + Cardinality(Waiting(t))
          BY <1>0, <1>c, <2>1, <4>2, <5>1 DEF Counted, SinkTypes
        <5>2. /\ offered[s] = accepted[s] + sinkErrors[s] + Cardinality(Waiting(s))
              /\ offered'[s] = offered[s] + 1
              /\ \/ accepted'[s] = accepted[s] + 1 /\ sinkErrors'[s] = sinkErrors[s]
                 \/ sinkErrors'[s] = sinkErrors[s] + 1 /\ accepted'[s] = accepted[s]
          BY <1>0, <1>c, <2>1, <4>2 DEF Counted, SinkTypes
        <5>3. offered'[s] = accepted'[s] + sinkErrors'[s] + Cardinality(Waiting(s))
          <6>1. \A a, e, c \in Nat : /\ (a + e + c) + 1 = (a + 1) + e + c
                                     /\ (a + e + c) + 1 = a + (e + 1) + c
            OBVIOUS
          <6>2. /\ accepted[s] \in Nat /\ sinkErrors[s] \in Nat
                /\ Cardinality(Waiting(s)) \in Nat
            BY <1>0
          <6>3. offered'[s] = (accepted[s] + sinkErrors[s] + Cardinality(Waiting(s))) + 1
            BY <5>2
          <6>4. \/ offered'[s] = (accepted[s] + 1) + sinkErrors[s] + Cardinality(Waiting(s))
                   /\ accepted'[s] = accepted[s] + 1 /\ sinkErrors'[s] = sinkErrors[s]
                \/ offered'[s] = accepted[s] + (sinkErrors[s] + 1) + Cardinality(Waiting(s))
                   /\ sinkErrors'[s] = sinkErrors[s] + 1 /\ accepted'[s] = accepted[s]
            BY <5>2, <6>1, <6>2, <6>3
          <6> QED
            BY <6>4
        <5> QED
          BY <5>1, <5>3
      <4> QED
        BY <4>1, <4>3 DEF Counted
    <3>2. CASE gpc'[i] \in {"parked", "panicking"}
      <4>1. gsink'[i] = s /\ UNCHANGED <<accepted, sinkErrors>>
        BY <1>4, <2>1, <3>2 DEF WriteTaken, WriteFails, WriteWaits, WritePanics
      <4>2. \A t \in SinkSlots : Waiting(t)' = IF t = s THEN Waiting(t) \cup {i} ELSE Waiting(t)
        <5>1. \A t \in SinkSlots : i \in Waiting(t)' <=> t = s
          BY <3>2, <4>1 DEF Waiting
        <5> QED
          BY <2>6, <5>1
      <4>3. Cardinality(Waiting(s) \cup {i}) = Cardinality(Waiting(s)) + 1
        BY <1>0, <2>6, Counting
      <4>4. \A t \in SinkSlots : offered'[t] = accepted[t] + sinkErrors[t]
                + (IF t = s THEN Cardinality(Waiting(t)) + 1 ELSE Cardinality(Waiting(t)))
        <5>1. ASSUME NEW t \in SinkSlots
              PROVE  /\ offered[t] = accepted[t] + sinkErrors[t] + Cardinality(Waiting(t))
                     /\ accepted[t] \in Nat /\ sinkErrors[t] \in Nat
                     /\ Cardinality(Waiting(t)) \in Nat
          BY <1>0, <1>c DEF Counted, SinkTypes
        <5>2. ASSUME NEW t \in SinkSlots
              PROVE  offered'[t] = IF t = s THEN offered[t] + 1 ELSE offered[t]
          BY <1>0, <2>1 DEF SinkTypes
        <5>3. \A a, e, c \in Nat : (a + e + c) + 1 = a + e + (c + 1)
          OBVIOUS
        <5> QED
          BY <5>1, <5>2, <5>3
      <4> QED
        BY <4>1, <4>2, <4>3, <4>4 DEF Counted
    <3> QED
      BY <1>0, <2>2, <3>1, <3>2 DEF ConsumerTypes
  <2> QED
    BY <2>5, <2>7 DEF Ordered, Counted, CountInv
<1>5. ASSUME NEW s \in Sinks, Take(s) PROVE CountInv'
  <2>0. UNCHANGED <<sinks, offered, sinkErrors>> /\ s \in SinkSlots
    BY <1>0, <1>5 DEF Take
  <2>1. CASE parked[s] = <<>>
    <3>1. UNCHANGED <<accepted, gpc, gsink>>
      BY <1>5, <2>1 DEF Take, AdmitFirst, AdmitNone
    <3>2. /\ \A t \in SinkSlots : Waiting(t)' = Waiting(t)
          /\ \A u, t \in Sinks : Between(u, t)' = Between(u, t)
      BY <3>1 DEF Waiting, Between, HasOffered
    <3> QED
      BY <2>0, <3>1, <3>2, CountKept
  <2>2. CASE parked[s] # <<>>
    <3> PICK i \in Consumers : i = Head(parked[s])
      BY <1>0, <2>0, <2>2, HeadIsFirst DEF SinkTypes
    <3>1. /\ gpc' = [gpc EXCEPT ![i] = "fanout"] /\ gsink' = [gsink EXCEPT ![i] = gsink[i] + 1]
          /\ accepted' = [accepted EXCEPT ![s] = accepted[s] + 1]
      BY <1>5, <2>2 DEF Take, AdmitFirst
    <3>2. gsink[i] = s /\ gpc[i] = "parked"
      BY <1>0, <2>0, <2>2, HeadIsFirst DEF IInv, FanOutInv, SinkTypes
    <3>3. /\ \A j \in Consumers \ {i} : gpc'[j] = gpc[j] /\ gsink'[j] = gsink[j]
          /\ gpc'[i] = "fanout" /\ gsink'[i] = s + 1
      BY <1>0, <3>1, <3>2 DEF ConsumerTypes
    <3>4. \A u \in Sinks : u < s + 1 <=> u < s \/ u = s
      BY <1>0
    <3>5. \A u \in Sinks : HasOffered(i, u) <=> HasOffered(i, u)'
      <4>1. \A u \in Sinks : HasOffered(i, u) <=> u < s \/ u = s
        BY <3>2 DEF HasOffered
      <4>2. \A u \in Sinks : HasOffered(i, u)' <=> u < s + 1
        BY <3>3 DEF HasOffered
      <4> QED
        BY <3>4, <4>1, <4>2
    <3>6. ASSUME NEW u \in Sinks, NEW t \in Sinks PROVE Between(u, t)' = Between(u, t)
      <4>0. u \in SinkSlots /\ t \in SinkSlots
        BY <1>0
      <4>1. Between(u, t)' \ {i} = Between(u, t) \ {i}
        BY <3>3, <4>0, OthersStay
      <4>2. i \in Between(u, t)' <=> i \in Between(u, t)
        BY <3>5 DEF Between
      <4> QED
        BY <4>1, <4>2, SameApartFrom
    <3>7. \A t \in SinkSlots : Waiting(t)' = IF t = s THEN Waiting(t) \ {i} ELSE Waiting(t)
      BY <3>2, <3>3 DEF Waiting
    <3>8. Cardinality(Waiting(s) \ {i}) = Cardinality(Waiting(s)) - 1
      BY <1>0, <2>0, <3>2, Counting DEF Waiting
    <3>9. \A t \in SinkSlots : offered[t] = accepted'[t] + sinkErrors[t]
              + (IF t = s THEN Cardinality(Waiting(t)) - 1 ELSE Cardinality(Waiting(t)))
      <4>1. ASSUME NEW t \in SinkSlots
            PROVE  /\ offered[t] = accepted[t] + sinkErrors[t] + Cardinality(Waiting(t))
                   /\ accepted[t] \in Nat /\ sinkErrors[t] \in Nat
                   /\ Cardinality(Waiting(t)) \in Nat
        BY <1>0, <1>c DEF Counted, SinkTypes
      <4>2. ASSUME NEW t \in SinkSlots
            PROVE  accepted'[t] = IF t = s THEN accepted[t] + 1 ELSE accepted[t]
        BY <1>0, <3>1 DEF SinkTypes
      <4>3. \A a, e, c \in Nat : a + e + c = (a + 1) + e + (c - 1)
        OBVIOUS
      <4>4. sinkErrors' = sinkErrors
        BY <2>0
      <4> QED
        BY <4>1, <4>2, <4>3
    <3>10. \A t \in SinkSlots : Counted(t)'
      BY <2>0, <3>7, <3>8, <3>9 DEF Counted
    <3> QED
      BY <1>0, <1>o, <2>0, <3>6, <3>10 DEF CountInv, Counted, Ordered, Sinks
  <2> QED
    BY <2>1, <2>2
<1>6. ASSUME NEW s \in Sinks, Handled(s) PROVE CountInv'
  <2>1. UNCHANGED <<sinks, offered, accepted, sinkErrors, gpc, gsink>>
    BY <1>6 DEF Handled
  <2>2. /\ \A t \in SinkSlots : Waiting(t)' = Waiting(t)
        /\ \A u, t \in Sinks : Between(u, t)' = Between(u, t)
    BY <2>1 DEF Waiting, Between, HasOffered
  <2> QED
    BY <2>1, <2>2, CountKept
<1> QED
  BY <1>1, <1>2, <1>3, <1>4, <1>5, <1>6, NextCases
  DEF RunRelay, Consuming, Consumer, WriteMessage, Working

LEMMA InitCounts == Init => PlaceInv /\ CountInv
<1> SUFFICES ASSUME Init PROVE PlaceInv /\ CountInv
  OBVIOUS
<1>1. PlaceInv
  BY DEF Init, PlaceInv, InFanOut
<1>2. Sinks = {}
  BY EmptySeq DEF Init, Sinks
<1>4. \A s \in SinkSlots : offered[s] = 0 /\ accepted[s] = 0 /\ sinkErrors[s] = 0
  BY DEF Init
<1>3. \A s \in SinkSlots : Waiting(s) = {}
  BY DEF Init, Waiting
<1> QED
  BY <1>1, <1>2, <1>3, <1>4, FS_EmptySet DEF CountInv

\* No message disappears between a consumer and a sink: what was offered was
\* accepted, or its error was counted, or its caller is still in the call.
THEOREM NoOfferDisappears == Spec => []OffersAccounted
<1> QED
  BY InitIInv, InitCounts, StepIInv, StepPlaceInv, StepCountInv, CountInvSays, PTL DEF Spec

\* Every message is offered to every sink in the configured order, whatever the
\* sinks before it returned and however long they waited.
THEOREM EverySinkGetsItsOffer == Spec => []EverySinkOffered
<1> QED
  BY InitIInv, InitCounts, StepIInv, StepPlaceInv, StepCountInv, CountInvSays, PTL DEF Spec

-----------------------------------------------------------------------------
(* A process that serves has what its file asks for                        *)

Served == {"started", "serving", "closing_nodes", "closing_sinks", "stopped"}

\* What main has loaded, created and started by the time it is at mpc.
LoadedInv ==
    mpc \notin {"loading", "failed", "killed"} =>
        ValidEndpoints(file) # <<>> /\ endpoints = ValidEndpoints(file)
CreatedInv ==
    mpc \notin {"loading", "creating", "failed", "killed"} =>
        sinks # <<>> /\ sinks = CreateConfiguredSinks(DOMAIN file.sinks, broken)
ProcessedInv ==
    ~initErrs => /\ Len(processed) = next - 1
                 /\ \A k \in 1..Len(processed) : processed[k] = endpoints[k].name
StartedInv ==
    mpc \in Served => /\ ~initErrs /\ next = Len(endpoints) + 1
                      /\ \A k \in Nodes : gpc[k] # "none"
ServedInv == LoadedInv /\ CreatedInv /\ ProcessedInv /\ StartedInv

LEMMA InitServed == Init => ServedInv
<1> SUFFICES ASSUME Init PROVE ServedInv
  OBVIOUS
<1>1. Len(<<>>) = 0 /\ 1 - 1 = 0
  BY EmptySeq
<1>2. ProcessedInv
  <2>1. processed = <<>> /\ next = 1
    BY DEF Init
  <2> QED
    BY <1>1, <2>1 DEF ProcessedInv
<1> QED
  BY <1>2 DEF Init, ServedInv, LoadedInv, CreatedInv, StartedInv, Served

LEMMA StepProcessed == IInv /\ ProcessedInv /\ [Next]_vars => ProcessedInv'
<1> SUFFICES ASSUME IInv, ProcessedInv, [Next]_vars PROVE ProcessedInv'
  OBVIOUS
<1>0. StartTypes
  BY DEF IInv, TypeOK
<1> USE DEF initVars, configVars
<1>1. CASE LoadConfig
  <2>1. next = 1 /\ processed = <<>> /\ UNCHANGED initVars
    BY <1>1 DEF LoadConfig, IInv, EarlyInv
  <2>2. Len(processed) = 0 /\ next - 1 = 0 /\ 1..Len(processed) = {}
    BY <2>1, EmptySeq
  <2> QED
    BY <2>1, <2>2 DEF ProcessedInv
<1>2. CASE InitEndpoint
  <2> PICK e : e = endpoints[next]
    OBVIOUS
  <2>1. /\ next \in Nodes /\ next' = next + 1 /\ UNCHANGED endpoints
        /\ NodeFails \/ NodeCreated
    BY <1>2 DEF InitEndpoint
  <2>2. CASE NodeFails
    BY <2>2 DEF NodeFails, ProcessedInv
  <2>3. CASE NodeCreated /\ ~initErrs
    <3>1. PICK n \in Nat : n = Len(processed) /\ next = n + 1 /\ next' = n + 2
      <4>1. Len(processed) \in Nat /\ Len(processed) = next - 1 /\ next \in Nat
        BY <1>0, <2>1, <2>3, Lengths DEF ProcessedInv, Nodes
      <4> QED
        BY <2>1, <4>1
    <3>2. /\ e.name \in Names /\ processed' = Append(processed, e.name)
          /\ processed \in Seq(Names) /\ UNCHANGED initErrs
      BY <1>0, <2>1, <2>3, Lengths DEF NodeCreated, StartTypes
    <3>3. /\ Len(processed') = n + 1 /\ processed'[n + 1] = e.name
          /\ \A k \in 1..n : processed'[k] = processed[k]
      BY <3>1, <3>2, AppendProperties
    <3>4. \A k \in 1..(n + 1) : k \in 1..n \/ k = n + 1
      OBVIOUS
    <3>5. \A k \in 1..(n + 1) : processed'[k] = endpoints[k].name
      BY <2>3, <3>1, <3>3, <3>4 DEF ProcessedInv
    <3>6. n + 1 = (n + 2) - 1
      OBVIOUS
    <3> QED
      BY <2>1, <3>1, <3>3, <3>5, <3>6 DEF ProcessedInv
  <2>4. CASE NodeCreated /\ initErrs
    BY <2>4 DEF NodeCreated, ProcessedInv
  <2> QED
    BY <2>1, <2>2, <2>3, <2>4
<1>3. CASE initializeSinks \/ NotifyMain \/ StartFails \/ StartConsumers \/ Register \/ Shutdown
            \/ Signalling \/ Fetching \/ Consuming \/ Working \/ UNCHANGED vars
  <2>1. UNCHANGED <<initVars, endpoints>>
    BY <1>3, ShutdownFrame, SignallingFrame, FetchingFrame, ConsumingFrame, WorkingFrame
    DEF initializeSinks, NotifyMain, StartFails, StartConsumers, Register, vars
  <2> QED
    BY <2>1 DEF ProcessedInv
<1> QED
  BY <1>1, <1>2, <1>3, NextCases DEF RunRelay, Starting

\* Nothing makes a consumer that was started one that was not.
LEMMA StartedStays ==
  ASSUME IInv, Shutdown \/ Signalling \/ Fetching \/ Consuming \/ Working \/ UNCHANGED vars
  PROVE  \A k \in Consumers : gpc[k] # "none" => gpc'[k] # "none"
<1>0. gpc \in [Consumers -> {"none", "receive", "check", "fanout", "parked", "panicking", "exited"}]
  BY DEF IInv, TypeOK, ConsumerTypes
<1> USE DEF goVars
<1>1. CASE Shutdown
  BY <1>0, <1>1 DEF Shutdown, ShutdownBegins, CloseNode, RangeEnds, CloseSink, SinkCloseReturns, Stop
<1>2. CASE Signalling \/ UNCHANGED vars
  BY <1>2, SignallingFrame DEF vars
<1>3. ASSUME NEW i \in Consumers, Receive(i) \/ Consumer(i)
      PROVE  \A k \in Consumers : gpc[k] # "none" => gpc'[k] # "none"
  <2>1. CASE Receive(i) \/ EventsEnd(i) \/ StopOnContext(i) \/ IgnoreEvent(i) \/ HandleFrame(i)
             \/ FanOutDone(i)
    BY <1>0, <2>1 DEF Receive, EventsEnd, StopOnContext, IgnoreEvent, HandleFrame, FanOutDone
  <2>2. CASE Panic(i)
    BY <1>0, <2>2 DEF Panic
  <2>3. CASE WriteMessage(i)
    BY <1>0, <2>3 DEF WriteMessage, WriteTaken, WriteFails, WriteWaits, WritePanics
  <2> QED
    BY <1>3, <2>1, <2>2, <2>3 DEF Consumer
<1>4. ASSUME NEW s \in Sinks, Take(s) \/ Handled(s)
      PROVE  \A k \in Consumers : gpc[k] # "none" => gpc'[k] # "none"
  BY <1>0, <1>4 DEF Take, AdmitFirst, AdmitNone, Handled
<1> QED
  BY <1>1, <1>2, <1>3, <1>4 DEF Fetching, Consuming, Working

LEMMA StepServed == IInv /\ ServedInv /\ [Next]_vars => ServedInv'
<1> SUFFICES ASSUME IInv, ServedInv, [Next]_vars PROVE ServedInv'
  OBVIOUS
<1>0. StartTypes /\ ProcessedInv'
  BY StepProcessed DEF IInv, TypeOK, ServedInv
<1> USE DEF ServedInv, LoadedInv, CreatedInv, StartedInv, Served, configVars, initVars
<1>1. CASE LoadConfig
  BY <1>0, <1>1 DEF LoadConfig, LoadError, NoError
<1>2. CASE initializeSinks
  BY <1>0, <1>2 DEF initializeSinks
<1>3. CASE NotifyMain \/ InitEndpoint \/ StartFails
  BY <1>0, <1>3 DEF NotifyMain, InitEndpoint, StartFails
<1>4. CASE StartConsumers
  <2>1. /\ next \notin Nodes /\ ~initErrs /\ mpc = "starting" /\ mpc' = "started"
        /\ gpc' = [i \in Consumers |-> IF i <= Len(processed) THEN "receive" ELSE "none"]
        /\ UNCHANGED <<configVars, initVars>>
    BY <1>4 DEF StartConsumers
  <2>2. next = Len(endpoints) + 1 /\ Len(processed) = Len(endpoints)
    <3>1. /\ Len(endpoints) \in Nat /\ next \in 1..(Len(endpoints) + 1)
          /\ next \notin 1..Len(endpoints) /\ Len(processed) = next - 1
      BY <1>0, <2>1, Lengths DEF StartTypes, ProcessedInv, Nodes
    <3> QED
      BY <3>1
  <2>3. \A k \in Nodes : k \in Consumers /\ k <= Len(processed)
    BY <1>0, <2>2, Lengths DEF Nodes, Consumers
  <2> QED
    BY <1>0, <2>1, <2>2, <2>3 DEF Nodes
<1>5. CASE Register
  BY <1>0, <1>5 DEF Register, goVars, Nodes
<1>6. CASE Shutdown \/ Signalling \/ Fetching \/ Consuming \/ Working \/ UNCHANGED vars
  <2>1. UNCHANGED <<configVars, initVars>>
    BY <1>6, ShutdownFrame, SignallingFrame, FetchingFrame, ConsumingFrame, WorkingFrame DEF vars
  <2>2. mpc' \in {mpc, "killed"} \/ (mpc \in Served /\ mpc' \in Served)
    BY <1>6, SignallingFrame, FetchingFrame, ConsumingFrame, WorkingFrame
    DEF Shutdown, ShutdownBegins, CloseNode, RangeEnds, CloseSink, SinkCloseReturns, Stop, vars
  <2>3. \A k \in Nodes : gpc[k] # "none" => gpc'[k] # "none"
    <3>1. Nodes \subseteq Consumers
      BY <1>0, Lengths DEF Consumers
    <3> QED
      BY <1>6, <3>1, StartedStays
  <2> QED
    BY <1>0, <2>1, <2>2, <2>3 DEF Nodes
<1> QED
  BY <1>1, <1>2, <1>3, <1>4, <1>5, <1>6, NextCases DEF RunRelay, Starting

\* A unique valid endpoint is found again under its name.
LEMMA ServedSays == IInv /\ NamesInv /\ QuietInv /\ ServedInv => ServedAsConfigured
<1> SUFFICES ASSUME IInv, NamesInv, QuietInv, ServedInv, mpc \in Served
             PROVE  ServedAsConfigured
  BY DEF ServedAsConfigured, Served
<1> PICK all : all = file.endpoints
  OBVIOUS
<1> PICK wanted : wanted = {endpoint \in MAVLinkEndpoint : validateEndpoint(endpoint)}
  OBVIOUS
<1> DEFINE Valid == {j \in DOMAIN file.endpoints : validateEndpoint(file.endpoints[j])}
           At(j) == Cardinality({i \in Valid : i <= j})
           IsUnique(j) ==
                \A i \in Valid : file.endpoints[i].name = file.endpoints[j].name => i = j
<1>0. StartTypes /\ file \in ConfigFiles
  BY DEF IInv, TypeOK, StartTypes
<1>1. /\ all \in Seq(MAVLinkEndpoint) /\ endpoints = Selected(all, wanted) /\ endpoints # <<>>
      /\ sinks # <<>> /\ sinks = CreateConfiguredSinks(DOMAIN file.sinks, broken)
      /\ Len(processed) = Len(endpoints)
      /\ \A k \in Nodes : processed[k] = endpoints[k].name /\ gpc[k] # "none"
  <2>1. all \in Seq(MAVLinkEndpoint)
    BY <1>0, ConfigAssumption
  <2>2. endpoints = Selected(all, wanted) /\ endpoints # <<>>
    BY DEF ServedInv, LoadedInv, Served, ValidEndpoints
  <2>3. sinks # <<>> /\ sinks = CreateConfiguredSinks(DOMAIN file.sinks, broken)
    BY DEF ServedInv, CreatedInv, Served
  <2>4. ~initErrs /\ next = Len(endpoints) + 1 /\ \A k \in Nodes : gpc[k] # "none"
    BY DEF ServedInv, StartedInv
  <2>5. Len(processed) = next - 1 /\ \A k \in 1..Len(processed) : processed[k] = endpoints[k].name
    BY <2>4 DEF ServedInv, ProcessedInv
  <2>6. Len(processed) = Len(endpoints)
    BY <1>0, <2>4, <2>5, Lengths
  <2> QED
    BY <2>1, <2>2, <2>3, <2>4, <2>5, <2>6 DEF Nodes
<1>2. Selects(endpoints, all, wanted) /\ DOMAIN endpoints = Nodes
  BY <1>0, <1>1, SelectedSays, Lengths
<1>3. Valid = Kept(all, wanted) /\ \A j : At(j) = Place(all, wanted, j)
  <2>1. \A j \in DOMAIN all : all[j] \in MAVLinkEndpoint
    BY <1>1, ElementOfSeq, LenProperties
  <2>2. Valid = Kept(all, wanted)
    BY <2>1 DEF Kept
  <2> QED
    BY <2>2 DEF Place, KeptUpTo
<1>4. /\ \A j \in Valid : At(j) \in Nodes /\ endpoints[At(j)] = all[j]
      /\ \A k \in Nodes : \E j \in Valid : At(j) = k
  <2> HIDE DEF Valid, At
  <2> QED
    BY <1>2, <1>3 DEF Selects
<1>5. Valid # {}
  <2>1. Len(endpoints) # 0 /\ Len(endpoints) \in Nat
    BY <1>0, <1>1, Lengths, EmptySeq DEF StartTypes
  <2>2. 1 \in Nodes
    BY <2>1 DEF Nodes
  <2> HIDE DEF Valid, At
  <2> QED
    BY <1>4, <2>2
<1>6. ASSUME NEW j \in Valid
      PROVE  /\ gpc[At(j)] # "none"
             /\ IsUnique(j) => Node(At(j)) = At(j)
             /\ IsUnique(j) /\ mpc \in {"closing_sinks", "stopped"} => nodeClosed[At(j)]
  <2> PICK k : k = At(j)
    OBVIOUS
  <2> PICK name : name = all[j].name
    OBVIOUS
  <2>1. k \in Nodes /\ endpoints[k] = all[j] /\ processed[k] = name /\ gpc[k] # "none"
    <3>1. k \in Nodes /\ endpoints[k] = all[j]
      <4> HIDE DEF Valid, At
      <4> QED
        BY <1>4
    <3> QED
      BY <1>1, <3>1
  <2>2. name \in Names /\ connections[name] \in Nodes /\ endpoints[connections[name]].name = name
    <3>1. name \in Names /\ k \in DOMAIN processed
      BY <1>0, <1>1, <2>1, Lengths DEF Nodes
    <3>2. connections[name] # NoNode
      BY <2>1, <3>1 DEF IInv, StoreInv
    <3>3. connections \in [Names -> Nodes \cup {NoNode}]
      BY <1>0 DEF StartTypes
    <3> QED
      BY <3>1, <3>2, <3>3 DEF NamesInv
  <2>3. ASSUME IsUnique(j) PROVE connections[name] = k
    <3>1. PICK i \in Valid : At(i) = connections[name]
      BY <1>4, <2>2
    <3>2. all[i].name = name
      BY <1>4, <2>2, <3>1
    <3>3. i = j
      BY <2>3, <3>2
    <3> QED
      BY <3>1, <3>3
  <2>4. Node(k) = connections[name]
    BY <2>1 DEF Node, Endpoint
  <2>5. mpc \in {"closing_sinks", "stopped"} => nodeClosed[connections[name]]
    <3>1. NoNode \notin Nodes
      BY <1>0, Lengths DEF NoNode, Nodes
    <3> QED
      BY <2>2, <3>1 DEF QuietInv, NodesClosed
  <2> QED
    BY <2>1, <2>3, <2>4, <2>5
<1>7. sinks # <<>> /\ Range(sinks) = DOMAIN file.sinks \ (broken \cup {"kafka"})
  BY <1>0, <1>1, CreatedSinksSays DEF StartTypes
<1> QED
  BY <1>5, <1>6, <1>7 DEF ServedAsConfigured

\* A process that serves does so with every valid endpoint of its file, each with
\* a consumer and its own node unless it shares its name, and with just the sinks
\* that the file names and that could be created (config.go:257-266,
\* relay.go:70-78, factory.go:97-105).
THEOREM ServesWhatIsConfigured == Spec => []ServedAsConfigured
<1>1. Init => QuietInv
  BY DEF Init, QuietInv
<1>2. Init => NamesInv
  BY EmptySeq DEF Init, NamesInv, InFanOut
<1> QED
  BY <1>1, <1>2, InitIInv, InitServed, StepIInv, StepQuietInv, StepNamesInv, StepServed,
     ServedSays, PTL DEF Spec
=============================================================================
