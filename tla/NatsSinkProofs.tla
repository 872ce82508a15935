--------------------------- MODULE NatsSinkProofs ---------------------------
(***************************************************************************)
(* The order of the stream, the account of the losses, the construction    *)
(* and the bucket of the NATS sink, which implements DeviceStates, for any *)
(* number of endpoints, messages and faults, any queue size and any set of *)
(* configurations.                                                         *)
(***************************************************************************)
EXTENDS NatsSink, QueueLemmas

\* Only a constructed sink has messages; a worker that has left has none behind.
IdleInv ==
    /\ npc \notin {"ready", "closing"} => queue = <<>> /\ hand = <<>>
    /\ wpc = "done" => queue = <<>> /\ npc \in {"closing", "over"}

\* The messages' way is one line in the order of their numbers: the stream, the
\* message the worker is about to publish, the queue.
LineInv ==
    /\ \A i \in DOMAIN queue : queue[i].n <= accepted
    /\ \A i, j \in DOMAIN queue : i < j => queue[i].n < queue[j].n
    /\ hand # <<>> => /\ hand[1].n <= accepted
                      /\ \A i \in DOMAIN queue : hand[1].n < queue[i].n
    /\ \A i \in DOMAIN stream :
         /\ stream[i].n <= accepted
         /\ \A j \in DOMAIN queue : stream[i].n < queue[j].n
         /\ wpc = "publish" => stream[i].n < hand[1].n
    /\ StreamInOrder

\* The bucket is updated with messages that are in the stream.
HandInv == wpc \in {"get", "put"} => Msg.n \in Published

\* How far the construction has got.
BuiltInv ==
    /\ npc = "connect" => conn = "none"
    /\ npc \in {"stream", "add", "update"} => cfg.stream
    /\ npc \in {"bucket", "create"} => cfg.kv
    /\ npc = "update" => hasStream
    /\ npc \in {"bucket", "create", "log"} /\ cfg.stream => hasStream
    /\ npc = "log" /\ cfg.kv => hasBucket
    /\ ReadyOrGone

IInv == TypeOK /\ IdleInv /\ LineInv /\ HandInv /\ BuiltInv /\ LossesCounted

-----------------------------------------------------------------------------
(* Which actions change what                                               *)

Queueing == WriteMessage \/ Receive
Ending == Close \/ WorkerExit \/ CloseReturn \/ Crash \/ Restart
Reading == GetOk \/ GetFails
Putting == PutOk \/ PutFails
Publishing == PublishOk \/ PublishFails
Expiring == \E k \in Keys : Expire(k)

LEMMA NextCases ==
    [Next]_vars <=> \/ NewNATSSink \/ WriteMessage \/ Receive \/ Publishing \/ Reading \/ Putting
                    \/ Expiring \/ Ending \/ UNCHANGED vars
  BY DEF Next, publishMessage, Publishing, Reading, Putting, Expiring, Ending, Ended

LEMMA BuildFrame ==
    NewNATSSink => /\ UNCHANGED <<cfg, sinkVars, stream, kv, histVars>>
                   /\ npc \in {"connect", "stream", "add", "update", "bucket", "create", "log"}
                   /\ npc' \in {"connect", "stream", "add", "update", "bucket", "create", "log",
                                "ready", "failed", "over"}
                   /\ hasStream' \in {hasStream, TRUE} /\ hasBucket' \in {hasBucket, TRUE}
                   /\ conn' \in {conn, "none", "open", "closed"}
                   /\ (NoFault \/ Fault)
  BY DEF NewNATSSink, Connect, LookForStream, UpdateStream, AddStream, LookForBucket,
     CreateBucket, LogStarted, Look, KeepSink, CloseAndFail, CreateFails, BucketNext, NoFault

-----------------------------------------------------------------------------
(* Types                                                                   *)

LEMMA FaultRange ==
  ASSUME TypeOK, Fault \/ NoFault
  PROVE  faults' \in 0..MaxFaults
<1>1. faults \in 0..MaxFaults
  BY DEF TypeOK
<1> QED
  BY <1>1, NatsAssumption DEF Fault, NoFault

\* The message in the worker's hand.
LEMMA InHand ==
  ASSUME TypeOK, wpc \in {"publish", "get", "put"}
  PROVE  /\ hand # <<>> /\ DOMAIN hand = {1} /\ Msg \in Messages /\ Msg = hand[1]
         /\ resolveKVKey(Msg) \in Keys
<1>1. hand \in Seq(Messages) /\ Len(hand) = 1
  BY DEF TypeOK
<1>2. DOMAIN hand = 1..1
  BY <1>1, LenProperties
<1>3. hand[1] \in Messages
  BY <1>1, <1>2, ElementOfSeq
<1>4. hand # <<>>
  <2>1. Len(<<>>) = 0
    BY EmptySeq
  <2> QED
    BY <1>1, <2>1
<1> QED
  BY <1>2, <1>3, <1>4, NatsAssumption DEF Msg, Messages, resolveKVKey, Keys, Drones

\* An entry is made of one message, and stays an entry when another is merged in.
LEMMA EntriesMerge ==
  ASSUME NEW m \in Messages
  PROVE  /\ DeviceState(m) \in Entries
         /\ \A e \in Entries : mergeDeviceState(e, DeviceState(m), m.type) \in Entries
<1>1. m.n \in 1..MaxMessages /\ m.source \in Sources /\ m.type \in MsgNames
  BY DEF Messages
<1>2. 0 \in 0..MaxMessages /\ m.n \in 0..MaxMessages
  BY <1>1, NatsAssumption
<1>3. DeviceState(m) \in Entries
  BY <1>1, <1>2 DEF DeviceState, Entries, Drones
<1>4. ASSUME NEW e \in Entries PROVE mergeDeviceState(e, DeviceState(m), m.type) \in Entries
  <2> DEFINE d == DeviceState(m)
             F == [f \in StateFields |->
                      IF f \in MergedFields[m.type] THEN d.fields[f] ELSE e.fields[f]]
  <2>1. F \in [StateFields -> 0..MaxMessages]
    BY <1>3 DEF Entries
  <2>2. d.lastSeen \in 1..MaxMessages /\ d.lastType \in MsgNames
    BY <1>3 DEF Entries
  <2>3. mergeDeviceState(e, d, m.type) =
          [e EXCEPT !.lastSeen = d.lastSeen, !.lastType = d.lastType, !.fields = F]
    BY DEF mergeDeviceState
  <2> HIDE DEF d, F
  <2>4. mergeDeviceState(e, d, m.type) \in Entries
    BY <2>1, <2>2, <2>3 DEF Entries
  <2> QED
    BY <2>4 DEF d
<1> QED
  BY <1>3, <1>4

LEMMA InSinkAccepted == IInv => InSink \subseteq 1..accepted
<1> SUFFICES ASSUME IInv PROVE InSink \subseteq 1..accepted
  OBVIOUS
<1>1. /\ queue \in Seq(Messages) /\ hand \in Seq(Messages) /\ accepted \in Nat
      /\ Len(hand) \in 0..1
  BY NatsAssumption DEF IInv, TypeOK
<1>2. \A i \in DOMAIN queue : queue[i] \in Messages /\ queue[i].n <= accepted
  BY <1>1, ElementOfSeq, LenProperties DEF IInv, LineInv
<1>3. \A i \in DOMAIN hand : hand[i] \in Messages /\ hand[i].n <= accepted
  <2>1. CASE hand = <<>>
    BY <2>1, EmptySeq
  <2>2. CASE hand # <<>>
    <3>1. DOMAIN hand = 1..1
      BY <1>1, <2>2, EmptySeq, LenProperties
    <3> QED
      BY <1>1, <2>2, <3>1, ElementOfSeq, LenProperties DEF IInv, LineInv
  <2> QED
    BY <2>1, <2>2
<1>4. \A m \in Messages : m.n \in Nat /\ m.n >= 1
  BY NatsAssumption DEF Messages
<1>5. \A m \in Messages : m.n <= accepted => m.n \in 1..accepted
  BY <1>1, <1>4
<1> QED
  BY <1>2, <1>3, <1>5 DEF InSink

LEMMA InitIInv == Init => IInv
<1> SUFFICES ASSUME Init PROVE IInv
  OBVIOUS
<1> USE DEF Init
<1>1. /\ <<>> \in Seq(Messages) /\ <<>> \in Seq(Entries) /\ Len(<<>>) = 0 /\ DOMAIN <<>> = {}
  BY EmptySeq
<1>2. 0 \in 0..MaxMessages /\ 0 \in 0..MaxFaults /\ 0 <= Capacity /\ 1..0 = {}
  BY NatsAssumption
<1>3. kv \in [Keys -> Entries \cup {Absent}]
  OBVIOUS
<1>4. TypeOK
  <2>1. /\ queue \in Seq(Messages) /\ Len(queue) <= Capacity
        /\ hand \in Seq(Messages) /\ Len(hand) = IF wpc \in {"publish", "get", "put"} THEN 1 ELSE 0
        /\ seen \in Seq(Entries) /\ Len(seen) <= 1 /\ stream \in Seq(Messages)
    BY <1>1, <1>2
  <2>2. /\ {hasStream, hasBucket} \subseteq BOOLEAN /\ counted \cup died \cup missed \subseteq 1..accepted
        /\ accepted \in 0..MaxMessages /\ faults \in 0..MaxFaults
    BY <1>2
  <2> QED
    BY <1>3, <2>1, <2>2 DEF TypeOK
<1>5. IdleInv /\ LineInv
  BY <1>1 DEF IdleInv, LineInv, StreamInOrder
<1>6. BuiltInv /\ HandInv
  BY DEF BuiltInv, ReadyOrGone, HandInv
<1>7. LossesCounted
  BY <1>1, <1>2 DEF LossesCounted
<1> QED
  BY <1>4, <1>5, <1>6, <1>7 DEF IInv

LEMMA StepTypeOK == IInv /\ [Next]_vars => TypeOK'
<1> SUFFICES ASSUME IInv, [Next]_vars PROVE TypeOK'
  OBVIOUS
<1>0. /\ TypeOK /\ accepted \in Nat /\ Len(queue) \in Nat
      /\ queue \in Seq(Messages) /\ hand \in Seq(Messages)
      /\ counted \cup died \cup missed \subseteq 1..accepted
  BY LenProperties, NatsAssumption DEF IInv, TypeOK
<1>e. /\ <<>> \in Seq(Messages) /\ <<>> \in Seq(Entries) /\ Len(<<>>) = 0
  BY EmptySeq
<1>m. wpc \in {"publish", "get", "put"} => Msg.n \in 1..accepted
  <2> SUFFICES ASSUME wpc \in {"publish", "get", "put"} PROVE Msg.n \in 1..accepted
    OBVIOUS
  <2>1. 1 \in DOMAIN hand /\ Msg = hand[1]
    BY <1>0, InHand
  <2> QED
    BY <2>1, InSinkAccepted DEF InSink
<1> USE DEF sinkVars, natsVars, histVars
<1>1. CASE NewNATSSink
  <2>1. faults' \in 0..MaxFaults
    BY <1>0, <1>1, BuildFrame, FaultRange
  <2>2. conn' \in {"none", "open", "closed"} /\ {hasStream', hasBucket'} \subseteq BOOLEAN
    BY <1>0, <1>1, BuildFrame DEF TypeOK
  <2> QED
    BY <1>0, <1>1, <2>1, <2>2, BuildFrame DEF TypeOK
<1>2. CASE WriteMessage
  <2>1. /\ accepted < MaxMessages /\ Len(queue) < Capacity /\ accepted' = accepted + 1
        /\ UNCHANGED <<cfg, npc, conn, wpc, hand, seen, natsVars, counted, died, missed, started,
                       faults>>
    BY <1>2 DEF WriteMessage, HasRoom
  <2>2. accepted + 1 \in 1..MaxMessages /\ accepted + 1 \in 0..MaxMessages
    BY <1>0, <2>1, NatsAssumption
  <2>3. PICK s \in Sources, t \in MsgNames :
          queue' = Append(queue, [n |-> accepted + 1, source |-> s, type |-> t])
    BY <1>2 DEF WriteMessage
  <2>4. [n |-> accepted + 1, source |-> s, type |-> t] \in Messages
    BY <2>2 DEF Messages
  <2>5. queue' \in Seq(Messages) /\ Len(queue') = Len(queue) + 1
    BY <1>0, <2>3, <2>4, AppendProperties
  <2>6. Len(queue) + 1 <= Capacity
    BY <1>0, <2>1, NatsAssumption
  <2>7. counted \cup died \cup missed \subseteq 1..(accepted + 1)
    BY <1>0
  <2> QED
    BY <1>0, <2>1, <2>2, <2>5, <2>6, <2>7 DEF TypeOK
<1>3. CASE Receive
  <2>1. /\ queue # <<>> /\ queue' = Tail(queue) /\ hand' = <<Head(queue)>> /\ wpc' = "publish"
        /\ UNCHANGED <<cfg, npc, conn, seen, natsVars, histVars, faults>>
    BY <1>3 DEF Receive, OldestFirst
  <2>2. /\ Head(queue) \in Messages /\ Tail(queue) \in Seq(Messages)
        /\ Len(Tail(queue)) = Len(queue) - 1 /\ Len(queue) \in Nat /\ Len(queue) <= Capacity
    BY <1>0, <2>1, HeadTailProperties DEF TypeOK
  <2>3. <<Head(queue)>> \in Seq(Messages) /\ Len(<<Head(queue)>>) = 1
    BY <2>2, Singleton
  <2>4. Len(Tail(queue)) <= Capacity
    BY <2>2, NatsAssumption
  <2> QED
    BY <1>0, <2>1, <2>2, <2>3, <2>4 DEF TypeOK
<1>4. CASE Publishing
  <2>1. /\ wpc = "publish" /\ wpc' \in {"get", "receive"}
        /\ hand' = IF wpc' = "receive" THEN <<>> ELSE hand
        /\ stream' \in {stream, Append(stream, Msg)}
        /\ UNCHANGED <<cfg, npc, conn, queue, seen, hasStream, hasBucket, kv, accepted, died>>
        /\ counted' \in {counted, counted \cup {Msg.n}} /\ missed' \in {missed, missed \cup {Msg.n}}
    BY <1>4 DEF Publishing, PublishOk, PublishFails, HandledAs, GiveUp, CountError
  <2>2. Msg \in Messages /\ Len(hand) = 1
    BY <1>0, <2>1, InHand DEF TypeOK
  <2>3. Append(stream, Msg) \in Seq(Messages)
    BY <1>0, <2>2, AppendProperties DEF TypeOK
  <2>4. Len(hand') = IF wpc' \in {"publish", "get", "put"} THEN 1 ELSE 0
    <3>1. CASE wpc' = "receive"
      BY <1>e, <2>1, <3>1
    <3>2. CASE wpc' = "get"
      BY <2>1, <2>2, <3>2
    <3> QED
      BY <2>1, <3>1, <3>2
  <2>5. hand' \in Seq(Messages) /\ counted' \cup died' \cup missed' \subseteq 1..accepted
    BY <1>0, <1>e, <1>m, <2>1
  <2>6. faults' \in 0..MaxFaults
    BY <1>0, <1>4, FaultRange DEF Publishing, PublishOk, PublishFails, NoFault
  <2> QED
    BY <1>0, <2>1, <2>3, <2>4, <2>5, <2>6 DEF TypeOK
<1>5. CASE Reading
  <2>1. /\ wpc = "get" /\ wpc' = "put" /\ hand' = hand
        /\ seen' = <<>> \/ (Exists(resolveKVKey(Msg)) /\ seen' = <<kv[resolveKVKey(Msg)]>>)
        /\ UNCHANGED <<cfg, npc, conn, queue, hasStream, hasBucket, stream, kv, histVars>>
    BY <1>5 DEF Reading, GetOk, GetFails, HandledAs, KeepNats
  <2>2. resolveKVKey(Msg) \in Keys
    BY <1>0, <2>1, InHand
  <2>3. seen' \in Seq(Entries) /\ Len(seen') <= 1
    <3>1. CASE seen' = <<>>
      BY <1>e, <3>1
    <3>2. CASE Exists(resolveKVKey(Msg)) /\ seen' = <<kv[resolveKVKey(Msg)]>>
      <4>1. kv[resolveKVKey(Msg)] \in Entries
        BY <1>0, <2>2, <3>2 DEF Exists, TypeOK
      <4> QED
        BY <3>2, <4>1, Singleton
    <3> QED
      BY <2>1, <3>1, <3>2
  <2>4. faults' \in 0..MaxFaults
    BY <1>0, <1>5, FaultRange DEF Reading, GetOk, GetFails, NoFault
  <2> QED
    BY <1>0, <2>1, <2>3, <2>4 DEF TypeOK
<1>6. CASE Putting
  <2>1. /\ wpc = "put" /\ wpc' = "receive" /\ hand' = <<>> /\ seen' = <<>>
        /\ Stored \/ UNCHANGED kv
        /\ missed' \in {missed, missed \cup {Msg.n}}
        /\ UNCHANGED <<cfg, npc, conn, queue, hasStream, hasBucket, stream, accepted, counted, died>>
    BY <1>6 DEF Putting, PutOk, PutFails, HandledAs, KeepNats
  <2>2. Msg \in Messages /\ resolveKVKey(Msg) \in Keys
    BY <1>0, <2>1, InHand
  <2>3. Merged \in Entries
    <3>1. CASE seen = <<>>
      BY <2>2, <3>1, EntriesMerge DEF Merged
    <3>2. CASE seen # <<>>
      <4>1. seen[1] \in Entries
        <5>1. seen \in Seq(Entries) /\ Len(seen) \in Nat /\ Len(seen) # 0
          BY <1>0, <3>2, EmptySeq DEF TypeOK
        <5>2. 1 \in 1..Len(seen)
          BY <5>1
        <5> QED
          BY <5>1, <5>2, ElementOfSeq
      <4> QED
        BY <2>2, <3>2, <4>1, EntriesMerge DEF Merged
    <3> QED
      BY <3>1, <3>2
  <2>4. kv' \in [Keys -> Entries \cup {Absent}]
    <3>1. kv \in [Keys -> Entries \cup {Absent}]
      BY <1>0 DEF TypeOK
    <3>2. Stored => kv' = [kv EXCEPT ![resolveKVKey(Msg)] = Merged]
      BY DEF Stored
    <3> QED
      BY <2>1, <2>3, <3>1, <3>2
  <2>5. counted' \cup died' \cup missed' \subseteq 1..accepted
    BY <1>0, <1>m, <2>1
  <2>6. faults' \in 0..MaxFaults
    BY <1>0, <1>6, FaultRange DEF Putting, PutOk, PutFails, NoFault
  <2> QED
    BY <1>0, <1>e, <2>1, <2>4, <2>5, <2>6 DEF TypeOK
<1>7. CASE Expiring
  BY <1>0, <1>7 DEF Expiring, Expire, TypeOK
<1>8. CASE Close \/ WorkerExit \/ CloseReturn \/ Restart
  BY <1>0, <1>8 DEF Close, WorkerExit, CloseReturn, Restart, TypeOK, IInv, IdleInv
<1>9. CASE Crash
  <2>1. InSink \subseteq 1..accepted
    BY InSinkAccepted
  <2>2. faults' \in 0..MaxFaults
    BY <1>0, <1>9, FaultRange DEF Crash
  <2>3. /\ npc' = "over" /\ conn' = "none" /\ wpc' = "done" /\ died' = died \cup InSink
        /\ missed' = missed \cup InSink /\ queue' = <<>> /\ hand' = <<>> /\ seen' = <<>>
        /\ UNCHANGED <<cfg, natsVars, accepted, counted, started>>
    BY <1>9 DEF Crash
  <2>4. counted' \cup died' \cup missed' \subseteq 1..accepted
    BY <1>0, <2>1, <2>3
  <2>5. /\ queue' \in Seq(Messages) /\ Len(queue') <= Capacity
        /\ hand' \in Seq(Messages) /\ Len(hand') = 0
        /\ seen' \in Seq(Entries) /\ Len(seen') <= 1
    BY <1>e, <2>3, NatsAssumption
  <2> QED
    BY <1>0, <2>2, <2>3, <2>4, <2>5 DEF TypeOK
<1>10. CASE UNCHANGED vars
  BY <1>0, <1>10 DEF vars, TypeOK
<1> QED
  BY <1>1, <1>2, <1>3, <1>4, <1>5, <1>6, <1>7, <1>8, <1>9, <1>10, NextCases DEF Ending

-----------------------------------------------------------------------------
(* The phases, the construction                                            *)

LEMMA StepIdleInv == IInv /\ [Next]_vars => IdleInv'
<1> SUFFICES ASSUME IInv, [Next]_vars PROVE IdleInv'
  OBVIOUS
<1> USE DEF sinkVars, natsVars, histVars, IdleInv
<1>0. IdleInv /\ (wpc \in {"publish", "get", "put"} => hand # <<>>)
  BY InHand DEF IInv
<1>1. CASE NewNATSSink
  BY <1>0, <1>1, BuildFrame
<1>2. CASE WriteMessage \/ Receive
  BY <1>0, <1>2 DEF WriteMessage, Receive
<1>3. CASE Publishing \/ Reading \/ Putting
  <2>1. /\ wpc \in {"publish", "get", "put"} /\ wpc' # "done" /\ UNCHANGED <<npc, queue>>
    BY <1>3 DEF Publishing, PublishOk, PublishFails, GiveUp, Reading, GetOk, GetFails, Putting,
       PutOk, PutFails, HandledAs, KeepNats
  <2> QED
    BY <1>0, <2>1
<1>4. CASE Expiring \/ UNCHANGED vars
  BY <1>0, <1>4 DEF Expiring, Expire, vars
<1>5. CASE Ending
  <2>1. hand = <<>> \/ wpc \in {"publish", "get", "put"}
    <3>1. hand \in Seq(Messages) /\ (wpc \notin {"publish", "get", "put"} => Len(hand) = 0)
      BY DEF IInv, TypeOK
    <3> QED
      BY <3>1, EmptySeq
  <2> QED
    BY <1>0, <1>5, <2>1 DEF Ending, Close, WorkerExit, CloseReturn, Crash, Restart
<1> QED
  BY <1>1, <1>2, <1>3, <1>4, <1>5, NextCases

LEMMA StepBuiltInv == IInv /\ [Next]_vars => BuiltInv'
<1> SUFFICES ASSUME IInv, [Next]_vars PROVE BuiltInv'
  OBVIOUS
<1> USE DEF sinkVars, natsVars, histVars
<1>0. BuiltInv /\ hasStream \in BOOLEAN /\ hasBucket \in BOOLEAN
  BY DEF IInv, TypeOK
<1>1. CASE Connect \/ LogStarted
  BY <1>0, <1>1 DEF BuiltInv, ReadyOrGone, Connect, LogStarted, BucketNext, KeepSink
<1>2. CASE LookForStream \/ LookForBucket
  BY <1>0, <1>2 DEF BuiltInv, ReadyOrGone, LookForStream, LookForBucket, Look, CloseAndFail, KeepSink
<1>3. CASE UpdateStream \/ AddStream \/ CreateBucket
  BY <1>0, <1>3 DEF BuiltInv, ReadyOrGone, UpdateStream, AddStream, CreateBucket, CreateFails,
     CloseAndFail, BucketNext, KeepSink
<1>4. CASE WriteMessage \/ Receive \/ Publishing \/ Reading \/ Putting \/ Expiring \/ UNCHANGED vars
  <2>1. UNCHANGED <<cfg, npc, conn, hasStream, hasBucket>>
    BY <1>4 DEF WriteMessage, Receive, Publishing, PublishOk, PublishFails, Reading, GetOk,
       GetFails, Putting, PutOk, PutFails, KeepNats, Expiring, Expire, vars
  <2> QED
    BY <1>0, <2>1 DEF BuiltInv, ReadyOrGone
<1>5. CASE Ending
  BY <1>0, <1>5 DEF BuiltInv, ReadyOrGone, Ending, Close, WorkerExit, CloseReturn, Crash, Restart
<1> QED
  BY <1>1, <1>2, <1>3, <1>4, <1>5, NextCases DEF NewNATSSink

-----------------------------------------------------------------------------
(* The line                                                                *)

LEMMA StepLineInv == IInv /\ [Next]_vars => LineInv'
<1> SUFFICES ASSUME IInv, [Next]_vars PROVE LineInv'
  OBVIOUS
<1>0. /\ LineInv /\ TypeOK /\ accepted \in Nat
      /\ queue \in Seq(Messages) /\ Len(queue) \in Nat /\ DOMAIN queue = 1..Len(queue)
      /\ stream \in Seq(Messages) /\ Len(stream) \in Nat /\ DOMAIN stream = 1..Len(stream)
      /\ \A i \in DOMAIN queue : queue[i].n \in Nat
      /\ \A i \in DOMAIN stream : stream[i].n \in Nat
  <2>1. /\ TypeOK /\ accepted \in Nat /\ queue \in Seq(Messages) /\ stream \in Seq(Messages)
    BY NatsAssumption DEF IInv, TypeOK
  <2>2. \A m \in Messages : m.n \in Nat
    BY NatsAssumption DEF Messages
  <2>3. /\ \A i \in DOMAIN queue : queue[i] \in Messages
        /\ \A i \in DOMAIN stream : stream[i] \in Messages
    BY <2>1, ElementOfSeq, LenProperties
  <2> QED
    BY <2>1, <2>2, <2>3, LenProperties DEF IInv
<1>e. DOMAIN <<>> = {}
  BY EmptySeq
<1> USE DEF sinkVars, natsVars, histVars
<1>1. CASE NewNATSSink \/ Reading \/ Expiring \/ UNCHANGED vars
  <2>1. UNCHANGED <<queue, hand, stream, accepted>> /\ (wpc' = "publish" => wpc = "publish")
    BY <1>1, BuildFrame DEF Reading, GetOk, GetFails, KeepNats, HandledAs, Expiring, Expire, vars
  <2> QED
    BY <1>0, <2>1 DEF LineInv, StreamInOrder
<1>2. CASE WriteMessage
  <2>1. accepted' = accepted + 1 /\ UNCHANGED <<wpc, hand, stream>>
    BY <1>2 DEF WriteMessage
  <2>2. PICK s \in Sources, t \in MsgNames :
          queue' = Append(queue, [n |-> accepted + 1, source |-> s, type |-> t])
    BY <1>2 DEF WriteMessage
  <2> DEFINE m == [n |-> accepted + 1, source |-> s, type |-> t]
             q == Append(queue, m)
  <2>3. m \in Messages /\ m.n = accepted + 1
    <3>1. accepted + 1 \in 1..MaxMessages
      BY <1>0, <1>2, NatsAssumption DEF WriteMessage
    <3> QED
      BY <3>1 DEF Messages
  <2> HIDE DEF m
  <2>4. /\ DOMAIN q = 1..(Len(queue) + 1) /\ q[Len(queue) + 1] = m
        /\ \A i \in 1..Len(queue) : q[i] = queue[i]
    <3>1. /\ q \in Seq(Messages) /\ Len(q) = Len(queue) + 1 /\ q[Len(queue) + 1] = m
          /\ \A i \in 1..Len(queue) : q[i] = queue[i]
      BY <1>0, <2>3, AppendProperties
    <3> QED
      BY <3>1, LenProperties
  <2> HIDE DEF q
  <2>5. \A i \in DOMAIN q : \/ i \in DOMAIN queue /\ q[i] = queue[i] /\ i # Len(queue) + 1
                            \/ i = Len(queue) + 1 /\ q[i].n = accepted + 1
    BY <1>0, <2>3, <2>4
  <2>6. \A k \in Nat : k <= accepted => k <= accepted + 1 /\ k < accepted + 1
    BY <1>0
  <2>7. \A i \in DOMAIN q : q[i].n <= accepted + 1
    BY <1>0, <2>5, <2>6 DEF LineInv
  <2>8. ASSUME NEW i \in DOMAIN q, NEW j \in DOMAIN q, i < j PROVE q[i].n < q[j].n
    <3>1. i \in DOMAIN queue
      BY <1>0, <2>4, <2>5, <2>8
    <3> QED
      BY <1>0, <2>5, <2>6, <2>8, <3>1 DEF LineInv
  <2>9. hand # <<>> => hand[1].n <= accepted + 1 /\ \A i \in DOMAIN q : hand[1].n < q[i].n
    <3> SUFFICES ASSUME hand # <<>>
                 PROVE  hand[1].n <= accepted + 1 /\ \A i \in DOMAIN q : hand[1].n < q[i].n
      OBVIOUS
    <3>1. hand[1].n \in Nat /\ hand[1].n <= accepted
      <4>1. hand \in Seq(Messages) /\ Len(hand) \in Nat \ {0}
        BY <1>0, EmptySeq DEF TypeOK
      <4>2. hand[1] \in Messages
        BY <4>1, ElementOfSeq
      <4> QED
        BY <1>0, <4>2, NatsAssumption DEF LineInv, Messages
    <3> QED
      BY <1>0, <2>5, <2>6, <3>1 DEF LineInv
  <2>10. \A i \in DOMAIN stream : /\ stream[i].n <= accepted + 1
                                  /\ \A j \in DOMAIN q : stream[i].n < q[j].n
    BY <1>0, <2>5, <2>6 DEF LineInv
  <2>11. queue' = q
    BY <2>2 DEF q, m
  <2> QED
    BY <1>0, <2>1, <2>7, <2>8, <2>9, <2>10, <2>11 DEF LineInv, StreamInOrder
<1>3. CASE Receive
  <2> DEFINE t == Tail(queue)
  <2>1. /\ queue # <<>> /\ queue' = t /\ hand' = <<Head(queue)>> /\ wpc' = "publish"
        /\ UNCHANGED <<stream, accepted>>
    BY <1>3 DEF Receive, OldestFirst
  <2>2. /\ 1 \in DOMAIN queue /\ Head(queue) = queue[1]
        /\ \A i \in DOMAIN t : i \in Nat /\ i + 1 \in DOMAIN queue /\ t[i] = queue[i + 1] /\ 1 < i + 1
    <3>1. /\ t \in Seq(Messages) /\ Len(t) = Len(queue) - 1
          /\ \A i \in 1..Len(t) : t[i] = queue[i + 1]
      BY <1>0, <2>1, HeadTailProperties
    <3>2. Len(queue) # 0 /\ Head(queue) = queue[1]
      BY <1>0, <2>1, EmptySeq
    <3>3. DOMAIN t = 1..Len(t) /\ Len(t) \in Nat
      BY <3>1, LenProperties
    <3> HIDE DEF t
    <3> QED
      BY <1>0, <3>1, <3>2, <3>3
  <2> HIDE DEF t
  <2>3. hand'[1] = queue[1] /\ hand' # <<>>
    BY <2>1, <2>2
  <2>4. \A i, j \in DOMAIN t : i < j => i + 1 < j + 1
    BY <2>2
  <2>5. /\ \A i \in DOMAIN t : t[i].n <= accepted /\ queue[1].n < t[i].n
        /\ \A i, j \in DOMAIN t : i < j => t[i].n < t[j].n
        /\ \A i \in DOMAIN stream : \A j \in DOMAIN t : stream[i].n < t[j].n
    BY <1>0, <2>2, <2>4 DEF LineInv
  <2>6. queue[1].n <= accepted /\ \A i \in DOMAIN stream : stream[i].n < queue[1].n
    BY <1>0, <2>2 DEF LineInv
  <2> QED
    BY <1>0, <2>1, <2>3, <2>5, <2>6 DEF LineInv, StreamInOrder
<1>4. CASE Publishing
  <2>1. /\ wpc = "publish" /\ wpc' # "publish" /\ hand' \in {<<>>, hand}
        /\ stream' \in {stream, Append(stream, Msg)} /\ UNCHANGED <<queue, accepted>>
    BY <1>4 DEF Publishing, PublishOk, PublishFails, HandledAs, GiveUp
  <2>2. hand # <<>> /\ Msg \in Messages /\ Msg = hand[1]
    BY <1>0, <2>1, InHand
  <2> DEFINE q == Append(stream, Msg)
  <2>3. /\ DOMAIN q = 1..(Len(stream) + 1) /\ q[Len(stream) + 1] = Msg
        /\ \A i \in 1..Len(stream) : q[i] = stream[i]
    <3>1. /\ q \in Seq(Messages) /\ Len(q) = Len(stream) + 1 /\ q[Len(stream) + 1] = Msg
          /\ \A i \in 1..Len(stream) : q[i] = stream[i]
      BY <1>0, <2>2, AppendProperties
    <3> QED
      BY <3>1, LenProperties
  <2> HIDE DEF q
  <2>4. \A i \in DOMAIN q : \/ i \in DOMAIN stream /\ q[i] = stream[i] /\ i # Len(stream) + 1
                            \/ i = Len(stream) + 1 /\ q[i] = Msg
    BY <1>0, <2>3
  <2>5. \A i \in DOMAIN q : q[i].n <= accepted /\ \A j \in DOMAIN queue : q[i].n < queue[j].n
    BY <1>0, <2>2, <2>4 DEF LineInv
  <2>6. ASSUME NEW i \in DOMAIN q, NEW j \in DOMAIN q, i < j PROVE q[i].n < q[j].n
    <3>1. i \in DOMAIN stream
      BY <1>0, <2>3, <2>4, <2>6
    <3> QED
      BY <1>0, <2>1, <2>2, <2>4, <2>6, <3>1 DEF LineInv, StreamInOrder
  <2>7. /\ \A i \in DOMAIN stream' : /\ stream'[i].n <= accepted
                                     /\ \A j \in DOMAIN queue : stream'[i].n < queue[j].n
        /\ \A i, j \in DOMAIN stream' : i < j => stream'[i].n < stream'[j].n
    BY <1>0, <2>1, <2>5, <2>6 DEF LineInv, StreamInOrder, q
  <2> QED
    BY <1>0, <2>1, <2>7 DEF LineInv, StreamInOrder
<1>5. CASE Putting
  <2>1. hand' = <<>> /\ wpc' = "receive" /\ UNCHANGED <<queue, stream, accepted>>
    BY <1>5 DEF Putting, PutOk, PutFails, HandledAs, KeepNats
  <2> QED
    BY <1>0, <2>1 DEF LineInv, StreamInOrder
<1>6. CASE Close \/ WorkerExit \/ CloseReturn \/ Restart
  <2>1. UNCHANGED <<queue, hand, stream, accepted>> /\ (wpc' = "publish" => wpc = "publish")
    BY <1>6 DEF Close, WorkerExit, CloseReturn, Restart
  <2> QED
    BY <1>0, <2>1 DEF LineInv, StreamInOrder
<1>7. CASE Crash
  BY <1>0, <1>e, <1>7 DEF Crash, LineInv, StreamInOrder
<1> QED
  BY <1>1, <1>2, <1>3, <1>4, <1>5, <1>6, <1>7, NextCases DEF Ending

-----------------------------------------------------------------------------
(* The losses                                                              *)

LEMMA PublishedGrows ==
  ASSUME IInv, Publishing
  PROVE  /\ Published \subseteq Published'
         /\ stream' = Append(stream, Msg) => Msg.n \in Published'
<1>1. wpc = "publish" /\ stream' \in {stream, Append(stream, Msg)}
  BY DEF Publishing, PublishOk, PublishFails
<1>2. stream \in Seq(Messages) /\ Msg \in Messages
  BY <1>1, InHand DEF IInv, TypeOK
<1> DEFINE q == Append(stream, Msg)
<1>3. /\ q \in Seq(Messages) /\ Len(q) = Len(stream) + 1 /\ q[Len(stream) + 1] = Msg
      /\ \A i \in 1..Len(stream) : q[i] = stream[i]
  BY <1>2, AppendProperties
<1>4. /\ DOMAIN q = 1..Len(q) /\ DOMAIN stream = 1..Len(stream) /\ Len(stream) \in Nat
  BY <1>2, <1>3, LenProperties
<1> HIDE DEF q
<1>5. /\ \A i \in DOMAIN stream : i \in DOMAIN q /\ q[i] = stream[i]
      /\ Len(stream) + 1 \in DOMAIN q /\ q[Len(stream) + 1] = Msg
  BY <1>3, <1>4
<1>6. CASE stream' = stream
  <2>1. stream # q
    BY <1>3, <1>4
  <2> QED
    BY <1>6, <2>1 DEF Published, q
<1>7. CASE stream' = q
  <2>1. Published \subseteq Published'
    BY <1>5, <1>7 DEF Published
  <2>2. Msg.n \in Published'
    <3>1. stream'[Len(stream) + 1] = Msg /\ Len(stream) + 1 \in DOMAIN stream'
      BY <1>5, <1>7
    <3> QED
      BY <3>1 DEF Published
  <2> QED
    BY <2>1, <2>2
<1> QED
  BY <1>1, <1>6, <1>7 DEF q

LEMMA StepHandInv == IInv /\ [Next]_vars => HandInv'
<1> SUFFICES ASSUME IInv, [Next]_vars PROVE HandInv'
  OBVIOUS
<1>0. HandInv
  BY DEF IInv
<1> USE DEF HandInv, sinkVars, natsVars, histVars, Msg
<1>1. CASE NewNATSSink \/ WriteMessage \/ Expiring \/ UNCHANGED vars
  <2>1. UNCHANGED <<wpc, hand, stream>>
    BY <1>1, BuildFrame DEF WriteMessage, Expiring, Expire, vars
  <2> QED
    BY <1>0, <2>1 DEF Published
<1>2. CASE Receive \/ Putting
  BY <1>2 DEF Receive, Putting, PutOk, PutFails, HandledAs
<1>3. CASE Publishing
  <2>1. wpc' = "receive" \/ (wpc' = "get" /\ hand' = hand /\ stream' = Append(stream, Msg))
    BY <1>3 DEF Publishing, PublishOk, PublishFails, HandledAs, GiveUp
  <2> QED
    BY <1>3, <2>1, PublishedGrows
<1>4. CASE Reading
  <2>1. wpc = "get" /\ UNCHANGED <<hand, stream>>
    BY <1>4 DEF Reading, GetOk, GetFails, HandledAs, KeepNats
  <2> QED
    BY <1>0, <2>1 DEF Published
<1>5. CASE Ending
  <2>1. wpc' \notin {"get", "put"} \/ UNCHANGED <<wpc, hand, stream>>
    BY <1>5 DEF Ending, Close, WorkerExit, CloseReturn, Crash, Restart
  <2> QED
    BY <1>0, <2>1 DEF Published
<1> QED
  BY <1>1, <1>2, <1>3, <1>4, <1>5, NextCases

\* Messages enter the sink with the queue and leave it with the worker.
LEMMA InSinkMoves ==
  ASSUME IInv
  PROVE  /\ WriteMessage => InSink \cup {accepted + 1} \subseteq InSink'
         /\ Receive => InSink \subseteq InSink'
         /\ Publishing \/ Putting => InSink \subseteq InSink' \cup {Msg.n}
<1>0. /\ TypeOK /\ accepted \in Nat
      /\ queue \in Seq(Messages) /\ Len(queue) \in Nat /\ DOMAIN queue = 1..Len(queue)
      /\ DOMAIN <<>> = {}
  BY LenProperties, EmptySeq, NatsAssumption DEF IInv, TypeOK
<1>1. ASSUME WriteMessage PROVE InSink \cup {accepted + 1} \subseteq InSink'
  <2>1. accepted' = accepted + 1 /\ UNCHANGED hand
    BY <1>1 DEF WriteMessage
  <2>2. PICK s \in Sources, t \in MsgNames :
          queue' = Append(queue, [n |-> accepted + 1, source |-> s, type |-> t])
    BY <1>1 DEF WriteMessage
  <2> DEFINE m == [n |-> accepted + 1, source |-> s, type |-> t]
  <2>3. m \in Messages /\ m.n = accepted + 1
    <3>1. accepted + 1 \in 1..MaxMessages
      BY <1>0, <1>1, NatsAssumption DEF WriteMessage
    <3> QED
      BY <3>1 DEF Messages
  <2> HIDE DEF m
  <2>4. queue' = Append(queue, m)
    BY <2>2 DEF m
  <2>5. /\ DOMAIN queue' = 1..(Len(queue) + 1) /\ queue'[Len(queue) + 1] = m
        /\ \A i \in 1..Len(queue) : queue'[i] = queue[i]
    <3> DEFINE q == Append(queue, m)
    <3>1. /\ q \in Seq(Messages) /\ Len(q) = Len(queue) + 1 /\ q[Len(queue) + 1] = m
          /\ \A i \in 1..Len(queue) : q[i] = queue[i]
      BY <1>0, <2>3, AppendProperties
    <3>2. DOMAIN q = 1..Len(q)
      BY <3>1, LenProperties
    <3> HIDE DEF q
    <3>3. queue' = q
      BY <2>4 DEF q
    <3> QED
      BY <3>1, <3>2, <3>3
  <2>6. DOMAIN queue \subseteq DOMAIN queue' /\ Len(queue) + 1 \in DOMAIN queue'
    BY <1>0, <2>5
  <2>7. \A i \in DOMAIN queue : queue'[i].n = queue[i].n
    BY <1>0, <2>5
  <2>8. InSink \cup {accepted + 1} \subseteq InSink'
    BY <2>1, <2>3, <2>5, <2>6, <2>7 DEF InSink
  <2> QED
    BY <2>8
<1>2. ASSUME Receive PROVE InSink \subseteq InSink'
  <2>1. /\ queue # <<>> /\ queue' = Tail(queue) /\ hand' = <<Head(queue)>>
        /\ wpc = "receive"
    BY <1>2 DEF Receive, OldestFirst
  <2>2. hand = <<>>
    <3>1. hand \in Seq(Messages) /\ Len(hand) = 0
      BY <1>0, <2>1 DEF TypeOK
    <3> QED
      BY <3>1, EmptySeq
  <2> DEFINE t == Tail(queue)
  <2>3. \A i \in DOMAIN queue : i = 1 \/ (i - 1 \in DOMAIN t /\ t[i - 1] = queue[i])
    <3>1. /\ t \in Seq(Messages) /\ Len(t) = Len(queue) - 1
          /\ \A i \in 1..Len(t) : t[i] = queue[i + 1]
      BY <1>0, <2>1, HeadTailProperties
    <3>2. DOMAIN t = 1..Len(t) /\ Len(t) \in Nat
      BY <3>1, LenProperties
    <3> HIDE DEF t
    <3> QED
      BY <1>0, <3>1, <3>2
  <2>4. 1 \in DOMAIN hand' /\ hand'[1] = queue[1]
    <3>1. Head(queue) = queue[1]
      BY <1>0, <2>1
    <3> QED
      BY <2>1, <3>1
  <2>5. InSink \subseteq InSink'
    <3> SUFFICES ASSUME NEW i \in DOMAIN queue PROVE queue[i].n \in InSink'
      BY <1>0, <2>2 DEF InSink
    <3>1. CASE i = 1
      BY <2>4, <3>1 DEF InSink
    <3>2. CASE i # 1
      <4>1. i - 1 \in DOMAIN queue' /\ queue'[i - 1] = queue[i]
        BY <2>1, <2>3, <3>2
      <4> QED
        BY <4>1 DEF InSink
    <3> QED
      BY <3>1, <3>2
  <2> QED
    BY <2>5
<1>3. ASSUME Publishing \/ Putting PROVE InSink \subseteq InSink' \cup {Msg.n}
  <2>1. /\ wpc \in {"publish", "put"} /\ hand' \in {<<>>, hand} /\ UNCHANGED queue
    BY <1>3 DEF Publishing, PublishOk, PublishFails, Putting, PutOk, PutFails, HandledAs, GiveUp,
       KeepNats
  <2>2. DOMAIN hand = {1} /\ Msg = hand[1]
    BY <1>0, <2>1, InHand
  <2> QED
    BY <2>1, <2>2 DEF InSink
<1> QED
  BY <1>1, <1>2, <1>3

LEMMA StepLossesCounted == IInv /\ [Next]_vars => LossesCounted'
<1> SUFFICES ASSUME IInv, [Next]_vars PROVE LossesCounted'
  OBVIOUS
<1>0. /\ 1..accepted \subseteq Published \cup InSink \cup counted \cup died
      /\ TypeOK /\ IdleInv /\ accepted \in Nat /\ DOMAIN <<>> = {}
  BY EmptySeq, NatsAssumption DEF IInv, TypeOK, LossesCounted
<1> DEFINE Kept == 1..accepted \subseteq Published \cup InSink \cup counted \cup died
<1>i. IdleInv'
  BY StepIdleInv
<1>z. npc' = "over" => InSink' = {}
  BY <1>0, <1>i DEF IdleInv, InSink
<1> SUFFICES Kept'
  BY <1>z DEF LossesCounted
<1> USE DEF sinkVars, natsVars, histVars
<1>1. CASE NewNATSSink \/ Reading \/ Expiring \/ Close \/ WorkerExit \/ CloseReturn \/ Restart
           \/ UNCHANGED vars
  <2>1. UNCHANGED <<queue, hand, stream, accepted, counted, died>>
    BY <1>1, BuildFrame DEF Reading, GetOk, GetFails, KeepNats, HandledAs, Expiring, Expire, vars,
       Close, WorkerExit, CloseReturn, Restart
  <2> QED
    BY <1>0, <2>1 DEF Published, InSink
<1>2. CASE WriteMessage
  <2>1. accepted' = accepted + 1 /\ UNCHANGED <<stream, counted, died>>
    BY <1>2 DEF WriteMessage
  <2>2. 1..(accepted + 1) = 1..accepted \cup {accepted + 1}
    BY <1>0
  <2>3. InSink \cup {accepted + 1} \subseteq InSink'
    BY <1>2, InSinkMoves
  <2> QED
    BY <1>0, <2>1, <2>2, <2>3 DEF Published
<1>3. CASE Receive
  <2>1. UNCHANGED <<stream, accepted, counted, died>>
    BY <1>3 DEF Receive
  <2>2. InSink \subseteq InSink'
    BY <1>3, InSinkMoves
  <2> QED
    BY <1>0, <2>1, <2>2 DEF Published
<1>4. CASE Publishing
  <2>1. /\ UNCHANGED <<accepted, died>>
        /\ counted \subseteq counted' /\ (Msg.n \in counted' \/ stream' = Append(stream, Msg))
    BY <1>4 DEF Publishing, PublishOk, PublishFails, HandledAs, GiveUp, CountError
  <2>2. /\ Published \subseteq Published'
        /\ stream' = Append(stream, Msg) => Msg.n \in Published'
    BY <1>4, PublishedGrows
  <2>3. InSink \subseteq InSink' \cup {Msg.n}
    BY <1>4, InSinkMoves
  <2> QED
    BY <1>0, <2>1, <2>2, <2>3
<1>5. CASE Putting
  <2>1. wpc = "put" /\ UNCHANGED <<accepted, died, stream, counted>>
    BY <1>5 DEF Putting, PutOk, PutFails, HandledAs, KeepNats
  <2>2. Msg.n \in Published
    BY <2>1 DEF IInv, HandInv
  <2>3. InSink \subseteq InSink' \cup {Msg.n}
    BY <1>5, InSinkMoves
  <2> QED
    BY <1>0, <2>1, <2>2, <2>3 DEF Published
<1>6. CASE Crash
  <2>1. /\ died' = died \cup InSink /\ UNCHANGED <<stream, accepted, counted>>
    BY <1>6 DEF Crash
  <2> QED
    BY <1>0, <2>1 DEF Published
<1> QED
  BY <1>1, <1>2, <1>3, <1>4, <1>5, <1>6, NextCases DEF Ending

LEMMA StepIInv == IInv /\ [Next]_vars => IInv'
  BY StepTypeOK, StepIdleInv, StepLineInv, StepHandInv, StepBuiltInv, StepLossesCounted DEF IInv

LEMMA Invariant == Spec => []IInv
<1> QED
  BY InitIInv, StepIInv, PTL DEF Spec

\* The sink's state is well typed and its queue never outgrows queue_size: in
\* particular what is read, merged and put is always a whole entry.
THEOREM TypeCorrect == Spec => []TypeOK
<1>1. IInv => TypeOK
  BY DEF IInv
<1> QED
  BY <1>1, Invariant, PTL

\* The stream has each message at most once and in order, whatever calls fail,
\* before or after they took effect, and however often the relay restarts.
THEOREM StreamKeepsOrder == Spec => []StreamInOrder
<1>1. IInv => StreamInOrder
  BY DEF IInv, LineInv
<1> QED
  BY <1>1, Invariant, PTL

\* An accepted message is in the stream or in the sink, or its loss was counted,
\* or it died with the process.
THEOREM NoSilentLoss == Spec => []LossesCounted
<1>1. IInv => LossesCounted
  BY DEF IInv
<1> QED
  BY <1>1, Invariant, PTL

\* Whatever lookup fails, a constructed sink has its stream and its bucket, and a
\* failed construction leaves no connection open.
THEOREM ConstructionIsWhole == Spec => []ReadyOrGone
<1>1. IInv => ReadyOrGone
  BY DEF IInv, BuiltInv
<1> QED
  BY <1>1, Invariant, PTL
-----------------------------------------------------------------------------
(* The bucket                                                              *)

\* The numbers of the messages in s, and of those of type t that belong to key k.
Numbers(s) == {s[i].n : i \in DOMAIN s}
NumbersAs(s, k, t) == {s[i].n : i \in {j \in DOMAIN s : s[j].type = t /\ resolveKVKey(s[j]) = k}}

\* Entry e of key k, which exists since a message, against stream s: every field
\* has a message of its type and key, and none newer is there that is not lost.
Mirrors(e, k, s, lost, since) ==
    /\ \A t \in MsgNames : \A f \in DeviceFields[t] :
         /\ e.fields[f] \in {0} \cup NumbersAs(s, k, t)
         /\ t \in kvMessageTypes =>
              \A n \in NumbersAs(s, k, t) : n >= since /\ n \notin lost => n <= e.fields[f]
    /\ \E f \in StateFields : e.fields[f] = e.lastSeen
    /\ \A f \in StateFields : e.fields[f] <= e.lastSeen
    /\ e.lastSeen \in Numbers(s)

Lost == missed \cup InSink

\* The entry that was read stays what it was read as until it is put back: nothing
\* is published, and nothing becomes less lost, in between.
BucketInv ==
    /\ \A k \in Keys : Exists(k) => Mirrors(kv[k], k, stream, Lost, started[k])
    /\ seen # <<>> =>
         /\ wpc = "put"
         /\ Mirrors(seen[1], resolveKVKey(Msg), stream, Lost, started[resolveKVKey(Msg)])
    /\ wpc \in {"get", "put"} => Len(stream) \in DOMAIN stream /\ stream[Len(stream)] = Msg
    /\ ~cfg.kv => wpc \notin {"get", "put"} /\ \A k \in Keys : ~Exists(k)
    /\ DOMAIN started = Keys

\* The four lists of module Telemetry agree: a message fills the fields of its
\* type and no others, and no field is of two types.
LEMMA ListsAgree ==
  /\ \A t \in MsgTypes :
       /\ DeviceFields[t] = MergedFields[t] /\ DeviceFields[t] \subseteq StateFields
       /\ DeviceFields[t] # {}
       /\ \A f \in StateFields : Reads(t, f) <=> f \in DeviceFields[t]
  /\ \A t, u \in MsgTypes : \A f \in DeviceFields[t] \cap DeviceFields[u] : t = u
<1>1. ASSUME NEW t \in MsgTypes
      PROVE  DeviceFields[t] = MergedFields[t] /\ DeviceFields[t] # {}
  BY DEF MsgTypes, DeviceFields, MergedFields
<1>2. ASSUME NEW t \in MsgTypes PROVE DeviceFields[t] \subseteq StateFields
  BY DEF StateFields
<1>3. ASSUME NEW t \in MsgTypes, NEW f \in DeviceFields[t] PROVE Reads(t, f)
  <2>1. CASE t = "Heartbeat"
    BY <1>3, <2>1 DEF DeviceFields, Reads, UpdateFromMessage, BuildEnvelope
  <2>2. CASE t = "GlobalPositionInt"
    BY <1>3, <2>2 DEF DeviceFields, Reads, UpdateFromMessage, BuildEnvelope
  <2>3. CASE t = "Attitude"
    BY <1>3, <2>3 DEF DeviceFields, Reads, UpdateFromMessage, BuildEnvelope
  <2>4. CASE t = "VFR_HUD"
    BY <1>3, <2>4 DEF DeviceFields, Reads, UpdateFromMessage, BuildEnvelope
  <2>5. CASE t = "SystemStatus"
    BY <1>3, <2>5 DEF DeviceFields, Reads, UpdateFromMessage, BuildEnvelope
  <2> QED
    BY <2>1, <2>2, <2>3, <2>4, <2>5 DEF MsgTypes
<1>4. ASSUME NEW t \in MsgTypes, NEW u \in MsgTypes, NEW f \in DeviceFields[t] \cap DeviceFields[u]
      PROVE  t = u
  BY <1>4 DEF MsgTypes, DeviceFields
<1>5. ASSUME NEW t \in MsgTypes, NEW f, Reads(t, f) PROVE f \in DeviceFields[t]
  <2>1. f \in DOMAIN UpdateFromMessage[t]
    BY <1>5 DEF Reads
  <2>2. DOMAIN UpdateFromMessage[t] = DeviceFields[t]
    <3>1. t \in {"Heartbeat", "GlobalPositionInt"} => DOMAIN UpdateFromMessage[t] = DeviceFields[t]
      BY DEF DeviceFields, UpdateFromMessage
    <3>2. t \in {"Attitude", "VFR_HUD", "SystemStatus"} =>
            DOMAIN UpdateFromMessage[t] = DeviceFields[t]
      BY DEF DeviceFields, UpdateFromMessage
    <3> QED
      BY <3>1, <3>2 DEF MsgTypes
  <2> QED
    BY <2>1, <2>2
<1> QED
  BY <1>1, <1>2, <1>3, <1>4, <1>5

\* The greatest of some numbers up to a bound.
LEMMA GreatestUpTo ==
  ASSUME NEW N \in Nat, NEW T \in SUBSET (0..N), T # {}
  PROVE  Max(T) \in T /\ \A x \in T : x <= Max(T)
<1> DEFINE D == {N - x : x \in T}
<1>1. D \in SUBSET Nat /\ D # {}
  <2>1. \A x \in 0..N : N - x \in Nat
    OBVIOUS
  <2> QED
    BY <2>1
<1>2. PICK d \in D : \A y \in D : d <= y
  <2> HIDE DEF D
  <2> QED
    BY <1>1, LeastNatural
<1>3. PICK x \in T : d = N - x
  BY <1>2
<1>4. \A y \in T : x >= y
  <2> SUFFICES ASSUME NEW y \in T PROVE x >= y
    OBVIOUS
  <2>1. N - x <= N - y
    BY <1>2, <1>3
  <2> QED
    BY <2>1
<1>5. /\ Max(T) \in T /\ \A y \in T : Max(T) >= y
  BY <1>4 DEF Max
<1> QED
  BY <1>5

\* Message m is the last in the ordered stream s: it is the newest of all, and
\* only it has its number.
IsNewest(m, s) ==
    /\ s \in Seq(Messages) /\ m \in Messages
    /\ Len(s) \in DOMAIN s /\ s[Len(s)] = m
    /\ \A i, j \in DOMAIN s : i < j => s[i].n < s[j].n

LEMMA NewestSays ==
  ASSUME NEW s, NEW m, IsNewest(m, s)
  PROVE  /\ m.n \in Nat /\ m.n >= 1 /\ m.n \in Numbers(s)
         /\ \A n \in Numbers(s) : n \in Nat /\ n <= m.n
         /\ m.n \in NumbersAs(s, resolveKVKey(m), m.type)
         /\ \A k, t : /\ NumbersAs(s, k, t) \subseteq Numbers(s)
                      /\ m.n \in NumbersAs(s, k, t) => t = m.type /\ k = resolveKVKey(m)
<1>1. /\ s \in Seq(Messages) /\ m \in Messages /\ DOMAIN s = 1..Len(s) /\ Len(s) \in Nat
      /\ Len(s) \in DOMAIN s /\ s[Len(s)] = m
      /\ \A i, j \in DOMAIN s : i < j => s[i].n < s[j].n
  BY LenProperties DEF IsNewest
<1>2. \A i \in DOMAIN s : s[i] \in Messages /\ s[i].n \in Nat /\ s[i].n >= 1
  <2>1. \A x \in Messages : x.n \in Nat /\ x.n >= 1
    BY NatsAssumption DEF Messages
  <2> QED
    BY <1>1, <2>1, ElementOfSeq
<1>3. \A i \in DOMAIN s : i = Len(s) \/ s[i].n < m.n
  BY <1>1
<1>4. /\ m.n \in Nat /\ m.n >= 1 /\ m.n \in Numbers(s)
      /\ \A n \in Numbers(s) : n \in Nat /\ n <= m.n
  BY <1>1, <1>2, <1>3 DEF Numbers
<1>5. m.n \in NumbersAs(s, resolveKVKey(m), m.type)
  BY <1>1 DEF NumbersAs
<1>6. ASSUME NEW k, NEW t
      PROVE  /\ NumbersAs(s, k, t) \subseteq Numbers(s)
             /\ m.n \in NumbersAs(s, k, t) => t = m.type /\ k = resolveKVKey(m)
  <2>1. NumbersAs(s, k, t) \subseteq Numbers(s)
    BY DEF NumbersAs, Numbers
  <2>2. ASSUME m.n \in NumbersAs(s, k, t) PROVE t = m.type /\ k = resolveKVKey(m)
    <3>1. PICK i \in DOMAIN s : s[i].type = t /\ resolveKVKey(s[i]) = k /\ s[i].n = m.n
      BY <2>2 DEF NumbersAs
    <3>2. i = Len(s)
      BY <1>2, <1>3, <1>4, <3>1
    <3> QED
      BY <1>1, <3>1, <3>2
  <2> QED
    BY <2>1, <2>2
<1> QED
  BY <1>4, <1>5, <1>6

LEMMA EntryFields ==
  ASSUME NEW e \in Entries
  PROVE  e.lastSeen \in Nat /\ e.lastSeen >= 1 /\ \A f \in StateFields : e.fields[f] \in Nat
  BY NatsAssumption DEF Entries

\* What the stream gains is lost for now, and what was lost and is not any more
\* was not for this entry.
LEMMA MirrorsGrow ==
  ASSUME NEW e, NEW k, NEW s, NEW lost, NEW since, NEW r, NEW gone,
         Mirrors(e, k, s, lost, since),
         Numbers(s) \subseteq Numbers(r), \A t : NumbersAs(s, k, t) \subseteq NumbersAs(r, k, t),
         \A t \in kvMessageTypes : \A n \in NumbersAs(r, k, t) :
            n \notin gone => n \in NumbersAs(s, k, t) /\ n \notin lost
  PROVE  Mirrors(e, k, r, gone, since)
  BY DEF Mirrors

\* A message makes an entry of its own ...
LEMMA MirrorsMade ==
  ASSUME NEW s, NEW m, IsNewest(m, s), NEW lost
  PROVE  Mirrors(DeviceState(m), resolveKVKey(m), s, lost, m.n)
<1> PICK k : k = resolveKVKey(m)
  OBVIOUS
<1> PICK e : e = DeviceState(m)
  OBVIOUS
<1>1. /\ m.n \in Nat /\ m.n >= 1 /\ m.n \in Numbers(s) /\ m.n \in NumbersAs(s, k, m.type)
      /\ \A n \in Numbers(s) : n \in Nat /\ n <= m.n
      /\ \A t : /\ NumbersAs(s, k, t) \subseteq Numbers(s)
                /\ m.n \in NumbersAs(s, k, t) => t = m.type
  BY NewestSays
<1>2. /\ e.lastSeen = m.n
      /\ \A f \in StateFields : e.fields[f] = IF Reads(m.type, f) THEN m.n ELSE 0
  BY DEF DeviceState
<1>3. m.type \in MsgTypes /\ MsgNames \subseteq MsgTypes
  BY NatsAssumption DEF IsNewest, Messages
<1>4. \A f \in DeviceFields[m.type] : f \in StateFields /\ e.fields[f] = m.n
  BY <1>2, <1>3, ListsAgree
<1>5. \A f \in StateFields : e.fields[f] \in {0, m.n}
  BY <1>2
<1>6. ASSUME NEW t \in MsgNames, NEW f \in DeviceFields[t]
      PROVE  /\ e.fields[f] \in {0} \cup NumbersAs(s, k, t)
             /\ \A n \in NumbersAs(s, k, t) : n >= m.n => n <= e.fields[f]
  <2>1. CASE t = m.type
    BY <1>1, <1>4, <1>6, <2>1
  <2>2. CASE t # m.type
    <3>1. f \in StateFields /\ f \notin DeviceFields[m.type]
      BY <1>3, <1>6, <2>2, ListsAgree
    <3>2. ~Reads(m.type, f)
      BY <1>3, <3>1, ListsAgree
    <3>3. \A n \in NumbersAs(s, k, t) : ~(n >= m.n)
      BY <1>1, <2>2
    <3> QED
      BY <1>2, <3>1, <3>2, <3>3
  <2> QED
    BY <2>1, <2>2
<1>7. \E f \in StateFields : e.fields[f] = e.lastSeen
  BY <1>2, <1>3, <1>4, ListsAgree
<1>8. \A f \in StateFields : e.fields[f] <= e.lastSeen
  BY <1>1, <1>2, <1>5
<1> QED
  BY <1>1, <1>2, <1>6, <1>7, <1>8 DEF Mirrors

\* ... or is merged into the one there is, and is not lost for it any more.
LEMMA MirrorsMerged ==
  ASSUME NEW s, NEW m, IsNewest(m, s), NEW e \in Entries, NEW lost, NEW gone, NEW since,
         Mirrors(e, resolveKVKey(m), s, lost, since), lost \subseteq gone \cup {m.n}
  PROVE  Mirrors(mergeDeviceState(e, DeviceState(m), m.type), resolveKVKey(m), s, gone, since)
<1> PICK k : k = resolveKVKey(m)
  OBVIOUS
<1> PICK d : d = mergeDeviceState(e, DeviceState(m), m.type)
  OBVIOUS
<1>1. /\ m.n \in Nat /\ m.n >= 1 /\ m.n \in Numbers(s) /\ m.n \in NumbersAs(s, k, m.type)
      /\ \A n \in Numbers(s) : n \in Nat /\ n <= m.n
      /\ \A t : /\ NumbersAs(s, k, t) \subseteq Numbers(s)
                /\ m.n \in NumbersAs(s, k, t) => t = m.type
  BY NewestSays
<1>2. m.type \in MsgTypes /\ MsgNames \subseteq MsgTypes
  BY NatsAssumption DEF IsNewest, Messages
<1>3. /\ d.lastSeen = m.n
      /\ \A f \in StateFields : d.fields[f] = IF f \in DeviceFields[m.type] THEN m.n ELSE e.fields[f]
  <2>1. /\ d.lastSeen = DeviceState(m).lastSeen
        /\ \A f \in StateFields : d.fields[f] =
             IF f \in MergedFields[m.type] THEN DeviceState(m).fields[f] ELSE e.fields[f]
    BY DEF mergeDeviceState, Entries
  <2>2. /\ DeviceState(m).lastSeen = m.n
        /\ \A f \in DeviceFields[m.type] : DeviceState(m).fields[f] = m.n
    BY <1>2, ListsAgree DEF DeviceState
  <2>3. MergedFields[m.type] = DeviceFields[m.type]
    BY <1>2, ListsAgree
  <2> QED
    BY <2>1, <2>2, <2>3
<1>4. ASSUME NEW t \in MsgNames, NEW f \in DeviceFields[t]
      PROVE  /\ d.fields[f] \in {0} \cup NumbersAs(s, k, t)
             /\ t \in kvMessageTypes =>
                  \A n \in NumbersAs(s, k, t) : n >= since /\ n \notin gone => n <= d.fields[f]
  <2>1. f \in StateFields
    BY <1>2, <1>4, ListsAgree
  <2>2. CASE t = m.type
    BY <1>1, <1>3, <1>4, <2>1, <2>2
  <2>3. CASE t # m.type
    <3>1. d.fields[f] = e.fields[f]
      BY <1>2, <1>3, <1>4, <2>1, <2>3, ListsAgree
    <3>2. \A n \in NumbersAs(s, k, t) : n # m.n
      BY <1>1, <2>3
    <3> QED
      BY <1>4, <3>1, <3>2 DEF Mirrors
  <2> QED
    BY <2>2, <2>3
<1>5. \E f \in StateFields : d.fields[f] = d.lastSeen
  BY <1>2, <1>3, ListsAgree
<1>6. \A f \in StateFields : d.fields[f] <= d.lastSeen
  <2> SUFFICES ASSUME NEW f \in StateFields PROVE d.fields[f] <= m.n
    BY <1>3
  <2>1. e.fields[f] \in Nat /\ e.lastSeen \in Nat /\ e.fields[f] <= e.lastSeen /\ e.lastSeen <= m.n
    BY <1>1, EntryFields DEF Mirrors
  <2> QED
    BY <1>1, <1>3, <2>1
<1> QED
  BY <1>1, <1>3, <1>4, <1>5, <1>6 DEF Mirrors

LEMMA NewestIsLast ==
  ASSUME IInv, BucketInv, wpc \in {"get", "put"}
  PROVE  IsNewest(Msg, stream)
<1>1. stream \in Seq(Messages) /\ Msg \in Messages
  BY InHand DEF IInv, TypeOK
<1> QED
  BY <1>1 DEF IInv, LineInv, StreamInOrder, IsNewest, BucketInv

\* Publishing adds the worker's message, whose number is new, and nothing else.
LEMMA StreamAppended ==
  ASSUME IInv, wpc = "publish", NEW r, r = Append(stream, Msg)
  PROVE  /\ Len(r) \in DOMAIN r /\ r[Len(r)] = Msg
         /\ Numbers(stream) \subseteq Numbers(r)
         /\ \A k, t :
              /\ NumbersAs(stream, k, t) \subseteq NumbersAs(r, k, t) /\ Msg.n \notin NumbersAs(stream, k, t)
              /\ \A n \in NumbersAs(r, k, t) :
                   n \in NumbersAs(stream, k, t) \/ (n = Msg.n /\ t = Msg.type)
<1>1. /\ stream \in Seq(Messages) /\ Msg \in Messages /\ Msg = hand[1] /\ Msg.n \in Nat
      /\ DOMAIN stream = 1..Len(stream) /\ Len(stream) \in Nat
      /\ \A i \in DOMAIN stream : stream[i].n < Msg.n /\ stream[i].n \in Nat
  <2>1. \A m \in Messages : m.n \in Nat
    BY NatsAssumption DEF Messages
  <2>2. stream \in Seq(Messages) /\ Msg \in Messages /\ Msg = hand[1]
    BY InHand DEF IInv, TypeOK
  <2>3. DOMAIN stream = 1..Len(stream) /\ Len(stream) \in Nat
    BY <2>2, LenProperties
  <2>4. \A i \in DOMAIN stream : stream[i] \in Messages
    BY <2>2, <2>3, ElementOfSeq
  <2> QED
    BY <2>1, <2>2, <2>3, <2>4 DEF IInv, LineInv
<1>2. /\ r \in Seq(Messages) /\ Len(r) = Len(stream) + 1 /\ r[Len(stream) + 1] = Msg
      /\ \A i \in 1..Len(stream) : r[i] = stream[i]
  BY <1>1, AppendProperties
<1>3. /\ DOMAIN r = 1..Len(r) /\ Len(r) \in DOMAIN r /\ r[Len(r)] = Msg
      /\ \A i \in DOMAIN stream : i \in DOMAIN r /\ r[i] = stream[i]
      /\ \A i \in DOMAIN r : (i \in DOMAIN stream /\ r[i] = stream[i]) \/ r[i] = Msg
  BY <1>1, <1>2, LenProperties
<1>4. Numbers(stream) \subseteq Numbers(r)
  BY <1>3 DEF Numbers
<1>5. ASSUME NEW k, NEW t
      PROVE  /\ NumbersAs(stream, k, t) \subseteq NumbersAs(r, k, t)
             /\ Msg.n \notin NumbersAs(stream, k, t)
             /\ \A n \in NumbersAs(r, k, t) :
                  n \in NumbersAs(stream, k, t) \/ (n = Msg.n /\ t = Msg.type)
  <2>1. NumbersAs(stream, k, t) \subseteq NumbersAs(r, k, t)
    BY <1>3 DEF NumbersAs
  <2>2. Msg.n \notin NumbersAs(stream, k, t)
    BY <1>1 DEF NumbersAs
  <2>3. \A n \in NumbersAs(r, k, t) :
          n \in NumbersAs(stream, k, t) \/ (n = Msg.n /\ t = Msg.type)
    BY <1>3 DEF NumbersAs
  <2> QED
    BY <2>1, <2>2, <2>3
<1> QED
  BY <1>3, <1>4, <1>5

\* The entries, and the one that was read: what BucketInv says of them.
Entered == \A k \in Keys : Exists(k) => Mirrors(kv[k], k, stream, Lost, started[k])
Read ==
    seen # <<>> =>
      /\ wpc = "put"
      /\ Mirrors(seen[1], resolveKVKey(Msg), stream, Lost, started[resolveKVKey(Msg)])

\* An entry that nothing touches stays right while no message is published and
\* no lost one is found again.
LEMMA EntriesStay ==
  ASSUME Entered, UNCHANGED <<stream, kv, started>>, Lost \subseteq Lost'
  PROVE  Entered'
<1> SUFFICES ASSUME NEW k \in Keys, Exists(k)
             PROVE  Mirrors(kv[k], k, stream, Lost', started[k])
  BY DEF Entered, Exists
<1> QED
  BY MirrorsGrow DEF Entered

LEMMA PublishingKeepsEntries ==
  ASSUME IInv, BucketInv, Publishing
  PROVE  Entered'
<1>1. /\ wpc = "publish" /\ stream' \in {stream, Append(stream, Msg)}
      /\ UNCHANGED <<cfg, kv, started>> /\ missed \subseteq missed'
  BY DEF Publishing, PublishOk, PublishFails, HandledAs, GiveUp, histVars
<1>2. Lost \subseteq Lost' \cup {Msg.n}
  BY <1>1, InSinkMoves DEF Lost
<1>3. stream' = stream \/ (cfg.kv /\ shouldUpdateKV(Msg.type)) => Msg.n \in Lost'
  <2>1. CASE PublishOk
    <3>1. /\ stream' = Append(stream, Msg)
          /\ cfg.kv /\ shouldUpdateKV(Msg.type) => hand' = hand
      BY <2>1 DEF PublishOk, HandledAs
    <3>2. DOMAIN hand = {1} /\ Msg = hand[1]
      BY <1>1, InHand DEF IInv
    <3>3. stream' # stream
      <4>1. stream \in Seq(Messages) /\ Msg \in Messages
        BY <1>1, InHand DEF IInv, TypeOK
      <4>2. Len(Append(stream, Msg)) = Len(stream) + 1 /\ Len(stream) \in Nat
        BY <4>1, AppendProperties, LenProperties
      <4> QED
        BY <3>1, <4>2
    <3> QED
      BY <3>1, <3>2, <3>3 DEF Lost, InSink
  <2>2. CASE PublishFails
    BY <2>2 DEF PublishFails, GiveUp, Lost
  <2> QED
    BY <2>1, <2>2 DEF Publishing
<1> SUFFICES ASSUME NEW k \in Keys, Exists(k)
             PROVE  Mirrors(kv[k], k, stream', Lost', started[k])
  BY <1>1 DEF Entered, Exists
<1>4. Mirrors(kv[k], k, stream, Lost, started[k]) /\ cfg.kv
  BY DEF BucketInv
<1>5. CASE stream' = stream
  <2>1. Lost \subseteq Lost'
    BY <1>2, <1>3, <1>5
  <2> QED
    BY <1>4, <1>5, <2>1, MirrorsGrow
<1>6. CASE stream' = Append(stream, Msg)
  <2> PICK r : r = stream'
    OBVIOUS
  <2>1. /\ Numbers(stream) \subseteq Numbers(r)
        /\ \A t :
             /\ NumbersAs(stream, k, t) \subseteq NumbersAs(r, k, t) /\ Msg.n \notin NumbersAs(stream, k, t)
             /\ \A n \in NumbersAs(r, k, t) :
                   n \in NumbersAs(stream, k, t) \/ (n = Msg.n /\ t = Msg.type)
    BY <1>1, <1>6, StreamAppended
  <2>2. \A t \in kvMessageTypes : \A n \in NumbersAs(r, k, t) :
           n \notin Lost' => n \in NumbersAs(stream, k, t) /\ n \notin Lost
    BY <1>2, <1>3, <1>4, <2>1 DEF shouldUpdateKV
  <2> QED
    BY <1>4, <2>1, <2>2, MirrorsGrow
<1> QED
  BY <1>1, <1>5, <1>6

LEMMA PuttingKeepsEntries ==
  ASSUME IInv, BucketInv, Putting
  PROVE  Entered'
<1> PICK key : key = resolveKVKey(Msg)
  OBVIOUS
<1>1. /\ wpc = "put" /\ UNCHANGED stream /\ missed \subseteq missed'
      /\ Stored \/ (UNCHANGED <<kv, started>> /\ Msg.n \in missed')
  BY DEF Putting, PutOk, PutFails, KeepNats
<1>2. Lost \subseteq Lost' \cup {Msg.n}
  BY <1>1, InSinkMoves DEF Lost
<1>3. /\ IsNewest(Msg, stream) /\ key \in Keys
      /\ \A k, t : Msg.n \in NumbersAs(stream, k, t) => k = key
  BY <1>1, NewestIsLast, NewestSays, InHand DEF IInv
<1>4. ASSUME NEW k \in Keys, Exists(k), k # key \/ Msg.n \in missed'
      PROVE  Mirrors(kv[k], k, stream, Lost', started[k])
  <2>1. Mirrors(kv[k], k, stream, Lost, started[k])
    BY <1>4 DEF BucketInv
  <2>2. \A t \in kvMessageTypes : \A n \in NumbersAs(stream, k, t) :
           n \notin Lost' => n \in NumbersAs(stream, k, t) /\ n \notin Lost
    BY <1>2, <1>3, <1>4 DEF Lost
  <2> QED
    BY <2>1, <2>2, MirrorsGrow
<1>5. CASE UNCHANGED <<kv, started>> /\ Msg.n \in missed'
  BY <1>1, <1>4, <1>5 DEF Entered, Exists
<1>6. CASE Stored
  <2>1. /\ kv' = [kv EXCEPT ![key] = Merged]
        /\ started' = [started EXCEPT ![key] = IF seen = <<>> THEN Msg.n ELSE started[key]]
        /\ kv \in [Keys -> Entries \cup {Absent}] /\ DOMAIN started = Keys
    BY <1>6 DEF Stored, IInv, TypeOK, BucketInv
  <2>2. Mirrors(Merged, key, stream, Lost', started'[key])
    <3>1. CASE seen = <<>>
      BY <1>3, <2>1, <3>1, MirrorsMade DEF Merged
    <3>2. CASE seen # <<>>
      <4>1. seen[1] \in Entries
        <5>1. seen \in Seq(Entries) /\ Len(seen) \in Nat /\ Len(seen) # 0
          BY <3>2, EmptySeq DEF IInv, TypeOK
        <5>2. 1 \in 1..Len(seen)
          BY <5>1
        <5> QED
          BY <5>1, <5>2, ElementOfSeq
      <4>2. Mirrors(seen[1], key, stream, Lost, started[key]) /\ started'[key] = started[key]
        BY <1>3, <2>1, <3>2 DEF BucketInv
      <4> QED
        BY <1>2, <1>3, <3>2, <4>1, <4>2, MirrorsMerged DEF Merged
    <3> QED
      BY <3>1, <3>2
  <2>3. ASSUME NEW k \in Keys, k # key, Exists(k)'
        PROVE  Mirrors(kv'[k], k, stream, Lost', started'[k])
    <3>1. kv'[k] = kv[k] /\ started'[k] = started[k]
      BY <2>1, <2>3
    <3> QED
      BY <1>4, <2>3, <3>1 DEF Exists
  <2>4. kv'[key] = Merged
    BY <1>3, <2>1
  <2> QED
    BY <1>1, <2>2, <2>3, <2>4 DEF Entered
<1> QED
  BY <1>1, <1>5, <1>6

LEMMA StepBucketInv == IInv /\ BucketInv /\ [Next]_vars => BucketInv'
<1> SUFFICES ASSUME IInv, BucketInv, [Next]_vars PROVE BucketInv'
  OBVIOUS
<1> DEFINE Top == wpc \in {"get", "put"} => Len(stream) \in DOMAIN stream /\ stream[Len(stream)] = Msg
           Unused == ~cfg.kv => wpc \notin {"get", "put"} /\ \A k \in Keys : ~Exists(k)
           Started == DOMAIN started = Keys
<1>0. Entered /\ Read /\ Top /\ Unused /\ Started
  BY DEF BucketInv, Entered, Read
<1>s. seen # <<>> => wpc = "put"
  BY <1>0 DEF Read
<1> SUFFICES Entered' /\ Read' /\ Top' /\ Unused' /\ Started'
  BY DEF BucketInv, Entered, Read
<1> USE DEF sinkVars, natsVars, histVars
<1>1. CASE NewNATSSink \/ Close \/ UNCHANGED vars
  <2>1. UNCHANGED <<cfg, sinkVars, stream, kv, missed, started>>
    BY <1>1, BuildFrame DEF Close, vars
  <2>2. Lost' = Lost
    BY <2>1 DEF Lost, InSink
  <2> QED
    BY <1>0, <2>1, <2>2 DEF Entered, Read, Exists, Msg
<1>2. CASE WriteMessage \/ Receive
  <2>1. /\ UNCHANGED <<cfg, seen, stream, kv, missed, started>>
        /\ \/ wpc' \notin {"get", "put"} /\ wpc = "receive"
           \/ UNCHANGED <<wpc, hand>>
    BY <1>2 DEF WriteMessage, Receive
  <2>2. Lost \subseteq Lost'
    BY <1>2, <2>1, InSinkMoves DEF Lost
  <2>3. Entered'
    BY <1>0, <2>1, <2>2, EntriesStay
  <2>4. Read'
    <3> SUFFICES ASSUME seen # <<>>
                 PROVE  Mirrors(seen[1], resolveKVKey(Msg), stream, Lost', started[resolveKVKey(Msg)])
      BY <1>s, <2>1 DEF Read, Msg
    <3> QED
      BY <1>0, <2>2, MirrorsGrow DEF Read
  <2> QED
    BY <1>0, <2>1, <2>3, <2>4 DEF Exists, Msg
<1>3. CASE Publishing
  <2>1. /\ wpc = "publish" /\ UNCHANGED <<cfg, seen, kv, started>>
        /\ wpc' = "receive" \/ (wpc' = "get" /\ cfg.kv /\ hand' = hand /\ stream' = Append(stream, Msg))
    BY <1>3 DEF Publishing, PublishOk, PublishFails, HandledAs, GiveUp
  <2>2. Entered'
    BY <1>3, PublishingKeepsEntries
  <2>3. Read'
    BY <1>s, <2>1 DEF Read
  <2>4. Top'
    <3> SUFFICES ASSUME wpc' = "get" PROVE Top'
      BY <2>1
    <3> PICK r : r = stream'
      OBVIOUS
    <3>1. Len(r) \in DOMAIN r /\ r[Len(r)] = Msg
      BY <2>1, StreamAppended
    <3> QED
      BY <2>1, <3>1 DEF Msg
  <2>5. Unused'
    BY <1>0, <2>1 DEF Exists
  <2> QED
    BY <1>0, <2>1, <2>2, <2>3, <2>4, <2>5
<1>4. CASE Reading
  <2>1. /\ wpc = "get" /\ wpc' = "put" /\ UNCHANGED <<cfg, queue, hand, stream, kv, missed, started>>
        /\ seen' = <<>> \/ (Exists(resolveKVKey(Msg)) /\ seen' = <<kv[resolveKVKey(Msg)]>>)
    BY <1>4 DEF Reading, GetOk, GetFails, HandledAs, KeepNats
  <2>2. Lost' = Lost /\ Msg' = Msg
    BY <2>1 DEF Lost, InSink, Msg
  <2>3. Read'
    <3> SUFFICES ASSUME Exists(resolveKVKey(Msg)), seen' = <<kv[resolveKVKey(Msg)]>> PROVE Read'
      BY <2>1 DEF Read
    <3>1. resolveKVKey(Msg) \in Keys
      BY <2>1, InHand DEF IInv
    <3>2. Mirrors(kv[resolveKVKey(Msg)], resolveKVKey(Msg), stream, Lost, started[resolveKVKey(Msg)])
      BY <1>0, <3>1 DEF Entered
    <3>3. seen'[1] = kv[resolveKVKey(Msg)]
      OBVIOUS
    <3> QED
      BY <2>1, <2>2, <3>2, <3>3 DEF Read
  <2> QED
    BY <1>0, <2>1, <2>2, <2>3 DEF Entered, Exists
<1>5. CASE Putting
  <2>1. /\ wpc = "put" /\ wpc' = "receive" /\ seen' = <<>> /\ UNCHANGED cfg
        /\ Stored \/ UNCHANGED <<kv, started>>
    BY <1>5 DEF Putting, PutOk, PutFails, HandledAs, KeepNats
  <2>2. Entered'
    BY <1>5, PuttingKeepsEntries
  <2>3. Started'
    BY <1>0, <2>1 DEF Stored
  <2> QED
    BY <1>0, <2>1, <2>2, <2>3 DEF Read
<1>6. ASSUME NEW k \in Keys, Expire(k) PROVE Entered' /\ Read' /\ Top' /\ Unused' /\ Started'
  <2>1. /\ kv' = [kv EXCEPT ![k] = Absent] /\ UNCHANGED <<cfg, sinkVars, stream, missed, started>>
        /\ Exists(k)
    BY <1>6 DEF Expire
  <2>2. Lost' = Lost /\ Msg' = Msg
    BY <2>1 DEF Lost, InSink, Msg
  <2>3. kv \in [Keys -> Entries \cup {Absent}]
    BY DEF IInv, TypeOK
  <2>4. \A j \in Keys : Exists(j)' => Exists(j) /\ kv'[j] = kv[j]
    BY <2>1, <2>3 DEF Exists
  <2> QED
    BY <1>0, <2>1, <2>2, <2>4 DEF Entered, Read
<1>7. CASE WorkerExit \/ CloseReturn \/ Restart \/ Crash
  <2>1. /\ UNCHANGED <<cfg, stream, kv, started>> /\ wpc' \notin {"get", "put"} /\ missed \subseteq missed'
        /\ seen' = <<>> /\ Lost \subseteq Lost'
    <3>1. CASE Crash
      BY <3>1 DEF Crash, Lost
    <3>2. CASE WorkerExit \/ CloseReturn \/ Restart
      <4>1. /\ UNCHANGED <<cfg, queue, hand, seen, stream, kv, missed, started>>
            /\ wpc' \notin {"get", "put"}
        BY <3>2 DEF WorkerExit, CloseReturn, Restart
      <4>2. wpc # "put"
        BY <3>2, InHand DEF WorkerExit, CloseReturn, Restart, IInv, IdleInv
      <4> QED
        BY <1>s, <4>1, <4>2 DEF Lost, InSink
    <3> QED
      BY <1>7, <3>1, <3>2
  <2>2. Entered'
    BY <1>0, <2>1, EntriesStay
  <2> QED
    BY <1>0, <2>1, <2>2 DEF Read, Exists
<1> QED
  BY <1>1, <1>2, <1>3, <1>4, <1>5, <1>6, <1>7, NextCases DEF Ending, Expiring

LEMMA InitBucketInv == Init => BucketInv
  BY EmptySeq DEF Init, BucketInv, Exists

\* What BucketInv says of every message of a type it says of the newest.
LEMMA BucketMirrors == IInv /\ BucketInv => KVMirrorsStream
<1> SUFFICES ASSUME IInv, BucketInv, NEW k \in Keys, Exists(k)
             PROVE  /\ \A t \in MsgNames, f \in StateFields : f \in DeviceFields[t] =>
                        LET value == kv[k].fields[f]
                            n == Max({0} \cup PublishedAs(k, t))
                        IN  /\ value \in {0} \cup PublishedAs(k, t)
                            /\ t \in kvMessageTypes /\ n >= started[k] /\ n \notin {0} \cup missed \cup InSink
                                => value = n
                    /\ kv[k].lastSeen = Max({kv[k].fields[f] : f \in StateFields})
  BY DEF KVMirrorsStream
<1>1. Mirrors(kv[k], k, stream, Lost, started[k]) /\ kv[k] \in Entries
  BY DEF BucketInv, IInv, TypeOK, Exists
<1>2. MaxMessages \in Nat
  BY NatsAssumption
<1>3. ASSUME NEW t \in MsgNames, NEW f \in DeviceFields[t], NEW n, n = Max({0} \cup PublishedAs(k, t))
      PROVE  /\ kv[k].fields[f] \in {0} \cup PublishedAs(k, t)
             /\ t \in kvMessageTypes /\ n >= started[k] /\ n \notin {0} \cup missed \cup InSink
                  => kv[k].fields[f] = n
  <2>1. PublishedAs(k, t) = NumbersAs(stream, k, t)
    BY DEF PublishedAs, NumbersAs
  <2>2. PublishedAs(k, t) \subseteq 0..MaxMessages
    <3>1. stream \in Seq(Messages) /\ \A m \in Messages : m.n \in 0..MaxMessages
      BY <1>2 DEF IInv, TypeOK, Messages
    <3>2. \A i \in DOMAIN stream : stream[i] \in Messages
      BY <3>1, ElementOfSeq, LenProperties
    <3> QED
      BY <3>1, <3>2 DEF PublishedAs
  <2>3. 0 \in 0..MaxMessages
    BY <1>2
  <2> DEFINE T == {0} \cup PublishedAs(k, t)
  <2>4. n \in T /\ \A x \in T : x <= n
    <3>1. T \in SUBSET (0..MaxMessages) /\ T # {}
      BY <2>2, <2>3
    <3> HIDE DEF T
    <3> QED
      BY <1>2, <1>3, <3>1, GreatestUpTo DEF T
  <2>5. kv[k].fields[f] \in T /\ kv[k].fields[f] <= n /\ n \in Nat /\ kv[k].fields[f] \in Nat
    <3>1. kv[k].fields[f] \in {0} \cup NumbersAs(stream, k, t)
      BY <1>1 DEF Mirrors
    <3>2. kv[k].fields[f] \in T
      BY <2>1, <3>1
    <3>3. \A x \in T : x \in Nat
      BY <1>2, <2>2, <2>3
    <3> HIDE DEF T
    <3> QED
      BY <2>4, <3>2, <3>3
  <2>6. ASSUME t \in kvMessageTypes, n >= started[k], n \notin {0} \cup missed \cup InSink
        PROVE  n <= kv[k].fields[f]
    BY <1>1, <2>1, <2>4, <2>6 DEF Mirrors, Lost
  <2> QED
    BY <2>5, <2>6
<1>4. kv[k].lastSeen = Max({kv[k].fields[f] : f \in StateFields})
  <2> DEFINE T == {kv[k].fields[f] : f \in StateFields}
  <2>1. kv[k].lastSeen \in T /\ \A x \in T : x <= kv[k].lastSeen
    BY <1>1 DEF Mirrors
  <2>2. T \in SUBSET (0..MaxMessages) /\ T # {}
    BY <1>1, <2>1 DEF Entries
  <2> HIDE DEF T
  <2>3. Max(T) \in T /\ \A x \in T : x <= Max(T)
    BY <1>2, <2>2, GreatestUpTo
  <2>4. \A x, y \in 0..MaxMessages : x <= y /\ y <= x => x = y
    BY <1>2
  <2>5. kv[k].lastSeen = Max(T)
    BY <2>1, <2>2, <2>3, <2>4
  <2> QED
    BY <2>5 DEF T
<1> QED
  BY <1>3, <1>4

\* The bucket has what consumers of the stream know: every field of every entry
\* the last published value of its type and key not lost to the entry, whatever
\* reads and writes fail, entries expire, or processes die in between.
THEOREM BucketFollowsStream == Spec => []KVMirrorsStream
<1> QED
  BY InitIInv, StepIInv, InitBucketInv, StepBucketInv, BucketMirrors, PTL DEF Spec

-----------------------------------------------------------------------------
(* The bucket implements DeviceStates                                      *)

\* While the worker holds what it has read, the entry is that or has expired.
HeldInv == seen # <<>> => wpc = "put" /\ kv[resolveKVKey(Msg)] \in {seen[1], Absent}

LEMMA InitHeldInv == Init => HeldInv
  BY DEF Init, HeldInv

LEMMA StepHeldInv == IInv /\ HeldInv /\ [Next]_vars => HeldInv'
<1> SUFFICES ASSUME IInv, HeldInv, [Next]_vars PROVE HeldInv'
  OBVIOUS
<1> USE DEF sinkVars, natsVars, histVars
<1>1. CASE NewNATSSink \/ Close \/ UNCHANGED vars
  <2>1. UNCHANGED <<sinkVars, kv>>
    BY <1>1, BuildFrame DEF Close, vars
  <2> QED
    BY <2>1 DEF HeldInv, Msg
<1>2. CASE WriteMessage \/ Receive
  <2>1. UNCHANGED <<seen, kv>> /\ (wpc = "receive" \/ UNCHANGED <<wpc, hand>>)
    BY <1>2 DEF WriteMessage, Receive
  <2> QED
    BY <2>1 DEF HeldInv, Msg
<1>3. CASE Publishing
  BY <1>3 DEF Publishing, PublishOk, PublishFails, HeldInv
<1>4. CASE Reading
  <2>1. /\ wpc' = "put" /\ Msg' = Msg /\ UNCHANGED kv
        /\ seen' # <<>> => seen' = <<kv[resolveKVKey(Msg)]>>
    BY <1>4 DEF Reading, GetOk, GetFails, HandledAs, Msg
  <2>2. resolveKVKey(Msg)' = resolveKVKey(Msg)
    BY <2>1 DEF resolveKVKey
  <2> QED
    BY <2>1, <2>2 DEF HeldInv
<1>5. CASE Putting
  BY <1>5 DEF Putting, PutOk, PutFails, HeldInv
<1>6. CASE Expiring
  <2>1. PICK k \in Keys : Expire(k)
    BY <1>6 DEF Expiring
  <2>2. /\ UNCHANGED <<seen, wpc, hand>> /\ kv' = [kv EXCEPT ![k] = Absent]
        /\ kv \in [Keys -> Entries \cup {Absent}]
    BY <2>1 DEF Expire, IInv, TypeOK
  <2>3. ASSUME seen # <<>> PROVE resolveKVKey(Msg) \in Keys /\ wpc = "put"
    BY <2>3, InHand DEF HeldInv, IInv
  <2>4. \A j \in Keys : kv'[j] \in {kv[j], Absent}
    BY <2>2
  <2>5. resolveKVKey(Msg)' = resolveKVKey(Msg)
    BY <2>2 DEF resolveKVKey, Msg
  <2> QED
    BY <2>2, <2>3, <2>4, <2>5 DEF HeldInv
<1>7. CASE WorkerExit \/ CloseReturn \/ Restart \/ Crash
  <2>1. CASE Crash
    BY <2>1 DEF Crash, HeldInv
  <2>2. CASE WorkerExit \/ CloseReturn \/ Restart
    <3>1. wpc # "put" /\ UNCHANGED seen
      BY <2>2, InHand DEF WorkerExit, CloseReturn, Restart, IInv, IdleInv
    <3> QED
      BY <3>1 DEF HeldInv
  <2> QED
    BY <1>7, <2>1, <2>2
<1> QED
  BY <1>1, <1>2, <1>3, <1>4, <1>5, <1>6, <1>7, NextCases DEF Ending

\* What the worker does not hold, and does not touch, readers see as before.
LEMMA ViewStays ==
  ASSUME UNCHANGED <<stream, kv, seen>>, seen # <<>> => UNCHANGED hand
  PROVE  UNCHANGED Bucket!vars
<1>1. ASSUME NEW k \in Keys PROVE Entry(k)' = Entry(k)
  BY DEF Entry, Msg, resolveKVKey
<1>2. LatestValues' = LatestValues
  BY <1>1 DEF LatestValues, FieldsIn
<1>3. NewestInStream' = NewestInStream
  BY DEF NewestInStream, Record, resolveKVKey
<1> QED
  BY <1>2, <1>3 DEF Bucket!vars

\* When the worker holds nothing, readers see the bucket.
LEMMA ViewIsBucket ==
  ASSUME seen = <<>>, NEW k \in Keys
  PROVE  LatestValues[k] = FieldsIn(kv[k])
  BY DEF LatestValues, Entry

\* An entry as DeviceStates updates it: the two ways of updateKVState.
LEMMA MadeIsUpdated ==
  ASSUME NEW m \in Messages, NewestInStream = Record(m)
  PROVE  /\ FieldsIn(DeviceState(m)) = Bucket!Updated(Bucket!Nothing)
         /\ \A e \in Entries :
              FieldsIn(mergeDeviceState(e, DeviceState(m), m.type)) = Bucket!Updated(FieldsIn(e))
<1>1. m.n \in 1..MaxMessages /\ m.type \in MsgTypes /\ m.source \in Sources
  BY NatsAssumption DEF Messages
<1>2. /\ DeviceState(m) \in Entries
      /\ \A e \in Entries : mergeDeviceState(e, DeviceState(m), m.type) \in Entries
  BY EntriesMerge
<1>3. \A e \in Entries : e # Absent
  BY DEF Entries, Absent
<1>4. Record(m).n = m.n /\ Record(m).type = m.type
  BY DEF Record
<1>5. /\ DeviceFields[m.type] = MergedFields[m.type]
      /\ \A f \in StateFields : Reads(m.type, f) <=> f \in DeviceFields[m.type]
  BY <1>1, ListsAgree
<1>6. FieldsIn(DeviceState(m)) = Bucket!Updated(Bucket!Nothing)
  <2>1. FieldsIn(DeviceState(m)) = [f \in StateFields |-> IF Reads(m.type, f) THEN m.n ELSE 0]
    BY <1>2, <1>3 DEF FieldsIn, DeviceState
  <2>2. Bucket!Updated(Bucket!Nothing) =
          [f \in StateFields |-> IF f \in DeviceFields[m.type] THEN m.n ELSE 0]
    BY <1>4 DEF Bucket!Updated, Bucket!Nothing
  <2> QED
    BY <1>5, <2>1, <2>2
<1>7. ASSUME NEW e \in Entries
      PROVE  FieldsIn(mergeDeviceState(e, DeviceState(m), m.type)) = Bucket!Updated(FieldsIn(e))
  <2>1. FieldsIn(e) = e.fields
    BY <1>3 DEF FieldsIn
  <2>2. Bucket!Updated(FieldsIn(e)) =
          [f \in StateFields |-> IF f \in DeviceFields[m.type] THEN m.n ELSE e.fields[f]]
    BY <1>4, <2>1 DEF Bucket!Updated
  <2>3. FieldsIn(mergeDeviceState(e, DeviceState(m), m.type)) =
          mergeDeviceState(e, DeviceState(m), m.type).fields
    BY <1>2, <1>3 DEF FieldsIn
  <2>4. /\ e = [entity |-> e.entity, source |-> e.source, lastSeen |-> e.lastSeen,
                lastType |-> e.lastType, fields |-> e.fields]
        /\ DeviceState(m).fields = [f \in StateFields |-> IF Reads(m.type, f) THEN m.n ELSE 0]
    BY DEF Entries, DeviceState
  <2>5. mergeDeviceState(e, DeviceState(m), m.type).fields =
          [f \in StateFields |->
             IF f \in MergedFields[m.type] THEN DeviceState(m).fields[f] ELSE e.fields[f]]
    BY <2>4 DEF mergeDeviceState
  <2> QED
    BY <1>5, <2>2, <2>3, <2>4, <2>5
<1> QED
  BY <1>6, <1>7

\* One entry of the bucket changes, and with it what readers see of its key.
LEMMA ViewChanges ==
  ASSUME kv \in [Keys -> Entries \cup {Absent}], NEW k \in Keys, NEW e,
         kv' = [kv EXCEPT ![k] = e], seen' = <<>>,
         seen # <<>> => k = resolveKVKey(Msg)
  PROVE  LatestValues' = [LatestValues EXCEPT ![k] = FieldsIn(e)]
<1>1. ASSUME NEW j \in Keys, j # k PROVE LatestValues'[j] = LatestValues[j]
  <2>1. kv'[j] = kv[j]
    BY <1>1
  <2>2. Entry(j) = kv[j] /\ Entry(j)' = kv[j]
    BY <1>1, <2>1 DEF Entry
  <2> QED
    BY <2>2 DEF LatestValues, FieldsIn
<1>2. LatestValues'[k] = FieldsIn(e)
  <2>1. Entry(k)' = e
    BY DEF Entry
  <2> QED
    BY <2>1 DEF LatestValues, FieldsIn
<1>3. /\ LatestValues = [j \in Keys |-> LatestValues[j]]
      /\ LatestValues' = [j \in Keys |-> LatestValues'[j]]
  BY DEF LatestValues
<1> QED
  BY <1>1, <1>2, <1>3

\* A message that the stream takes is newer than those it has.
LEMMA PublishingRefines ==
  ASSUME IInv, IInv', HeldInv, Publishing
  PROVE  [Bucket!Next]_(Bucket!vars)
<1>1. /\ wpc = "publish" /\ stream' \in {stream, Append(stream, Msg)}
      /\ UNCHANGED <<kv, seen>> /\ seen = <<>>
  BY DEF Publishing, PublishOk, PublishFails, HeldInv
<1>2. CASE stream' = stream
  BY <1>1, <1>2, ViewStays
<1>3. CASE stream' = Append(stream, Msg)
  <2>1. Msg \in Messages /\ stream \in Seq(Messages) /\ resolveKVKey(Msg) \in Keys
    BY <1>1, InHand DEF IInv, TypeOK
  <2>2. LatestValues' = LatestValues
    BY <1>1 DEF LatestValues, Entry, FieldsIn
  <2>3. /\ stream' # <<>> /\ Len(stream') = Len(stream) + 1 /\ stream'[Len(stream')] = Msg
        /\ \A i \in 1..Len(stream) : stream'[i] = stream[i]
        /\ Len(stream) \in Nat /\ DOMAIN stream' = 1..(Len(stream) + 1)
    <3>1. /\ Append(stream, Msg) \in Seq(Messages) /\ Len(Append(stream, Msg)) = Len(stream) + 1
          /\ Append(stream, Msg)[Len(stream) + 1] = Msg
          /\ \A i \in 1..Len(stream) : Append(stream, Msg)[i] = stream[i]
      BY <2>1, AppendProperties
    <3>2. Len(<<>>) = 0
      BY EmptySeq
    <3> QED
      BY <1>3, <2>1, <3>1, <3>2, LenProperties
  <2>4. NewestInStream' = Record(Msg)
    BY <2>3 DEF NewestInStream, Record, resolveKVKey
  <2>5. Record(Msg) \in [n : 1..MaxMessages, key : Keys, type : MsgNames]
    BY <2>1 DEF Record, Messages
  <2>6. Record(Msg).n > NewestInStream.n
    <3>1. CASE stream = <<>>
      BY <2>1, <3>1, NatsAssumption DEF NewestInStream, Record, Messages
    <3>2. CASE stream # <<>>
      <4>1. Len(stream) \in 1..Len(stream) /\ Len(stream) \in DOMAIN stream'
        BY <2>1, <2>3, <3>2, EmptySeq
      <4>2. stream'[Len(stream)].n < stream'[Len(stream) + 1].n
        BY <2>3, <4>1 DEF IInv, LineInv, StreamInOrder
      <4>3. stream[Len(stream)] \in Messages
        BY <2>1, <4>1, ElementOfSeq
      <4>4. NewestInStream.n = stream[Len(stream)].n
        BY <3>2 DEF NewestInStream, Record
      <4> QED
        BY <2>1, <2>3, <4>1, <4>2, <4>3, <4>4 DEF Record, Messages
    <3> QED
      BY <3>1, <3>2
  <2>7. Bucket!Publish
    BY <2>2, <2>4, <2>5, <2>6 DEF Bucket!Publish
  <2> QED
    BY <2>7 DEF Bucket!Next
<1> QED
  BY <1>1, <1>2, <1>3

\* What the worker has read and not put back is dropped: the entry is still
\* that, or it is gone.
LEMMA DroppingRefines ==
  ASSUME IInv, HeldInv, UNCHANGED <<stream, kv>>, seen' = <<>>
  PROVE  [Bucket!Next]_(Bucket!vars)
<1>1. CASE seen = <<>>
  BY <1>1, ViewStays
<1>2. CASE seen # <<>>
  <2> DEFINE k == resolveKVKey(Msg)
  <2>1. k \in Keys /\ kv[k] \in {seen[1], Absent} /\ kv \in [Keys -> Entries \cup {Absent}]
    BY <1>2, InHand DEF HeldInv, IInv, TypeOK
  <2>2. kv' = [kv EXCEPT ![k] = kv[k]]
    BY <2>1
  <2>3. LatestValues' = [LatestValues EXCEPT ![k] = FieldsIn(kv[k])]
    BY <2>1, <2>2, ViewChanges
  <2>4. NewestInStream' = NewestInStream
    BY DEF NewestInStream, Record, resolveKVKey
  <2>5. CASE kv[k] = seen[1]
    <3>1. LatestValues[k] = FieldsIn(kv[k]) /\ LatestValues = [j \in Keys |-> LatestValues[j]]
      BY <1>2, <2>1, <2>5 DEF LatestValues, Entry
    <3>2. LatestValues' = LatestValues
      BY <2>1, <2>3, <3>1
    <3> QED
      BY <2>4, <3>2 DEF Bucket!vars
  <2>6. CASE kv[k] = Absent
    <3>1. FieldsIn(kv[k]) = Bucket!Nothing
      BY <2>6 DEF FieldsIn, Bucket!Nothing
    <3>2. Bucket!Forget
      BY <2>1, <2>3, <2>4, <3>1 DEF Bucket!Forget
    <3> QED
      BY <3>2 DEF Bucket!Next
  <2> QED
    BY <2>1, <2>5, <2>6
<1> QED
  BY <1>1, <1>2

\* A put is a step of its own: reading and merging have not been seen before it.
LEMMA PuttingRefines ==
  ASSUME IInv, BucketInv, HeldInv, Putting
  PROVE  [Bucket!Next]_(Bucket!vars)
<1> DEFINE k == resolveKVKey(Msg)
<1>1. /\ wpc = "put" /\ UNCHANGED stream /\ seen' = <<>>
      /\ Stored \/ UNCHANGED kv
  BY DEF Putting, PutOk, PutFails, KeepNats
<1>2. CASE UNCHANGED kv
  BY <1>1, <1>2, DroppingRefines
<1>3. CASE Stored
  <2>1. /\ kv' = [kv EXCEPT ![k] = Merged] /\ kv \in [Keys -> Entries \cup {Absent}]
        /\ k \in Keys /\ Msg \in Messages
    BY <1>1, <1>3, InHand DEF Stored, IInv, TypeOK
  <2>2. LatestValues' = [LatestValues EXCEPT ![k] = FieldsIn(Merged)]
    BY <1>1, <2>1, ViewChanges
  <2>3. NewestInStream = Record(Msg) /\ NewestInStream' = NewestInStream
    <3>1. stream # <<>> /\ stream[Len(stream)] = Msg
      BY <1>1, EmptySeq DEF BucketInv
    <3> QED
      BY <1>1, <3>1 DEF NewestInStream, Record, resolveKVKey
  <2>4. NewestInStream # Bucket!NoMessage /\ NewestInStream.key = k
    BY <2>3 DEF Record, Bucket!NoMessage
  <2>5. CASE seen = <<>>
    <3>1. FieldsIn(Merged) = Bucket!Updated(Bucket!Nothing)
      BY <2>1, <2>3, <2>5, MadeIsUpdated DEF Merged
    <3>2. Bucket!Begin
      BY <2>2, <2>3, <2>4, <3>1 DEF Bucket!Begin
    <3> QED
      BY <3>2 DEF Bucket!Next
  <2>6. CASE seen # <<>>
    <3>1. seen[1] \in Entries
      <4>1. seen \in Seq(Entries) /\ Len(seen) \in Nat /\ Len(seen) # 0
        BY <2>6, EmptySeq DEF IInv, TypeOK
      <4>2. 1 \in 1..Len(seen)
        BY <4>1
      <4> QED
        BY <4>1, <4>2, ElementOfSeq
    <3>2. FieldsIn(Merged) = Bucket!Updated(FieldsIn(seen[1]))
      BY <2>1, <2>3, <2>6, <3>1, MadeIsUpdated DEF Merged
    <3>3. LatestValues[k] = FieldsIn(seen[1])
      BY <2>1, <2>6 DEF LatestValues, Entry
    <3>4. Bucket!Merge
      BY <2>2, <2>3, <2>4, <3>2, <3>3 DEF Bucket!Merge
    <3> QED
      BY <3>4 DEF Bucket!Next
  <2> QED
    BY <2>5, <2>6
<1> QED
  BY <1>1, <1>2, <1>3

\* An entry that expires is forgotten, at once or when the worker drops what it
\* has read of it.
LEMMA ExpiringRefines ==
  ASSUME IInv, HeldInv, Expiring
  PROVE  [Bucket!Next]_(Bucket!vars)
<1>1. PICK k \in Keys : Expire(k)
  BY DEF Expiring
<1>2. /\ UNCHANGED <<stream, seen, hand>> /\ kv' = [kv EXCEPT ![k] = Absent]
      /\ kv \in [Keys -> Entries \cup {Absent}]
  BY <1>1 DEF Expire, sinkVars, IInv, TypeOK
<1>3. NewestInStream' = NewestInStream
  BY <1>2 DEF NewestInStream, Record, resolveKVKey
<1>4. ASSUME NEW j \in Keys
      PROVE  Entry(j)' = IF j = k /\ ~(seen # <<>> /\ j = resolveKVKey(Msg)) THEN Absent ELSE Entry(j)
  <2>1. kv'[j] = IF j = k THEN Absent ELSE kv[j]
    BY <1>2
  <2> QED
    BY <1>2, <2>1 DEF Entry, Msg, resolveKVKey
<1>5. CASE seen # <<>> /\ k = resolveKVKey(Msg)
  <2>1. LatestValues' = LatestValues
    BY <1>4, <1>5 DEF LatestValues, FieldsIn
  <2> QED
    BY <1>3, <2>1 DEF Bucket!vars
<1>6. CASE ~(seen # <<>> /\ k = resolveKVKey(Msg))
  <2>1. ASSUME NEW j \in Keys
        PROVE  LatestValues'[j] = IF j = k THEN Bucket!Nothing ELSE LatestValues[j]
    BY <1>4, <1>6, <2>1 DEF LatestValues, FieldsIn, Bucket!Nothing
  <2>2. /\ LatestValues = [j \in Keys |-> LatestValues[j]]
        /\ LatestValues' = [j \in Keys |-> LatestValues'[j]]
    BY DEF LatestValues
  <2>3. LatestValues' = [LatestValues EXCEPT ![k] = Bucket!Nothing]
    BY <2>1, <2>2
  <2> QED
    BY <1>3, <2>3 DEF Bucket!Forget, Bucket!Next
<1> QED
  BY <1>5, <1>6

LEMMA StepRefines ==
  ASSUME IInv, IInv', BucketInv, HeldInv, [Next]_vars
  PROVE  [Bucket!Next]_(Bucket!vars)
<1> USE DEF sinkVars, natsVars, histVars
<1>1. CASE NewNATSSink \/ Close \/ UNCHANGED vars
  <2>1. UNCHANGED <<stream, kv, seen, hand>>
    BY <1>1, BuildFrame DEF Close, vars
  <2> QED
    BY <2>1, ViewStays
<1>2. CASE WriteMessage \/ Receive
  <2>1. UNCHANGED <<stream, kv, seen>> /\ (wpc = "receive" \/ UNCHANGED hand)
    BY <1>2 DEF WriteMessage, Receive
  <2> QED
    BY <2>1, ViewStays DEF HeldInv
<1>3. CASE Publishing
  BY <1>3, PublishingRefines
<1>4. CASE Reading
  <2>1. /\ wpc = "get" /\ UNCHANGED <<stream, kv, hand>>
        /\ seen' # <<>> => seen' = <<kv[resolveKVKey(Msg)]>>
    BY <1>4 DEF Reading, GetOk, GetFails, HandledAs, KeepNats
  <2>2. seen = <<>> /\ Msg' = Msg /\ resolveKVKey(Msg)' = resolveKVKey(Msg)
    BY <2>1 DEF HeldInv, Msg, resolveKVKey
  <2>3. ASSUME NEW k \in Keys PROVE Entry(k)' = Entry(k)
    BY <2>1, <2>2 DEF Entry
  <2>4. LatestValues' = LatestValues
    BY <2>3 DEF LatestValues, FieldsIn
  <2>5. NewestInStream' = NewestInStream
    BY <2>1 DEF NewestInStream, Record, resolveKVKey
  <2> QED
    BY <2>4, <2>5 DEF Bucket!vars
<1>5. CASE Putting
  BY <1>5, PuttingRefines
<1>6. CASE Expiring
  BY <1>6, ExpiringRefines
<1>7. CASE WorkerExit \/ CloseReturn \/ Restart
  <2>1. UNCHANGED <<stream, kv, seen, hand>>
    BY <1>7 DEF WorkerExit, CloseReturn, Restart
  <2> QED
    BY <2>1, ViewStays
<1>8. CASE Crash
  <2>1. UNCHANGED <<stream, kv>> /\ seen' = <<>>
    BY <1>8 DEF Crash
  <2> QED
    BY <2>1, DroppingRefines
<1> QED
  BY <1>1, <1>2, <1>3, <1>4, <1>5, <1>6, <1>7, <1>8, NextCases DEF Ending

LEMMA InitRefines == Init => Bucket!Init
<1> SUFFICES ASSUME Init PROVE Bucket!Init
  OBVIOUS
<1>1. LatestValues = [k \in Keys |-> Bucket!Nothing]
  BY DEF Init, LatestValues, Entry, FieldsIn, Bucket!Nothing
<1>2. NewestInStream = Bucket!NoMessage
  BY DEF Init, NewestInStream, Bucket!NoMessage
<1> QED
  BY <1>1, <1>2 DEF Bucket!Init

\* Reading an entry, merging and putting it back, with a queue before and a crash
\* possible between any two calls, implements the bucket of DeviceStates: one
\* step per message, of the newest message, on the fields of its type.
THEOREM BucketIsAtomic == Spec => ImplementsDeviceStates
<1> QED
  BY InitIInv, StepIInv, InitBucketInv, StepBucketInv, InitHeldInv, StepHeldInv, InitRefines,
     StepRefines, PTL DEF Spec, ImplementsDeviceStates, Bucket!Spec

-----------------------------------------------------------------------------
(* What readers of the bucket can rely on                                  *)

\* No field is from a message that was not published yet.
ValuesPublished ==
    /\ NewestInStream.n \in Nat
    /\ \A k \in Keys, f \in StateFields :
         LatestValues[k][f] \in Nat /\ LatestValues[k][f] <= NewestInStream.n

\* The two ways of DeviceStates to update an entry, field by field.
LEMMA UpdatesSay ==
  ASSUME NEW k \in Keys, NEW f \in StateFields, NEW key, NEW old,
         LatestValues' = [LatestValues EXCEPT ![key] = Bucket!Updated(old)],
         key = k => old \in {LatestValues[k], Bucket!Nothing}
  PROVE  LatestValues'[k][f] \in {LatestValues[k][f], NewestInStream.n, 0}
<1>1. DOMAIN LatestValues = Keys
  BY DEF LatestValues
<1>2. CASE key # k
  BY <1>1, <1>2
<1>3. CASE key = k
  <2>1. LatestValues'[k] = Bucket!Updated(old)
    BY <1>1, <1>3
  <2>2. Bucket!Updated(old)[f] \in {NewestInStream.n, old[f]}
    BY DEF Bucket!Updated
  <2>3. Bucket!Nothing[f] = 0
    BY DEF Bucket!Nothing
  <2> QED
    BY <1>3, <2>1, <2>2, <2>3
<1> QED
  BY <1>2, <1>3

\* What a step makes of a field.
LEMMA ValuesMove ==
  ASSUME [Bucket!Next]_(Bucket!vars), NEW k \in Keys, NEW f \in StateFields
  PROVE  \/ LatestValues'[k][f] = LatestValues[k][f]
         \/ LatestValues'[k][f] \in {NewestInStream.n, 0} /\ NewestInStream' = NewestInStream
<1>1. CASE Bucket!Publish \/ UNCHANGED Bucket!vars
  BY <1>1 DEF Bucket!Publish, Bucket!vars
<1>2. CASE Bucket!Merge
  <2>1. /\ NewestInStream' = NewestInStream
        /\ LatestValues' = [LatestValues EXCEPT ![NewestInStream.key] =
                              Bucket!Updated(LatestValues[NewestInStream.key])]
    BY <1>2 DEF Bucket!Merge
  <2>2. LatestValues'[k][f] \in {LatestValues[k][f], NewestInStream.n, 0}
    BY <2>1, UpdatesSay
  <2> QED
    BY <2>1, <2>2
<1>3. CASE Bucket!Begin
  <2>1. /\ NewestInStream' = NewestInStream
        /\ LatestValues' = [LatestValues EXCEPT ![NewestInStream.key] =
                              Bucket!Updated(Bucket!Nothing)]
    BY <1>3 DEF Bucket!Begin
  <2>2. LatestValues'[k][f] \in {LatestValues[k][f], NewestInStream.n, 0}
    BY <2>1, UpdatesSay
  <2> QED
    BY <2>1, <2>2
<1>4. CASE Bucket!Forget
  <2>1. PICK j \in Keys : LatestValues' = [LatestValues EXCEPT ![j] = Bucket!Nothing]
    BY <1>4 DEF Bucket!Forget
  <2>2. DOMAIN LatestValues = Keys /\ NewestInStream' = NewestInStream
    BY <1>4 DEF LatestValues, Bucket!Forget
  <2>3. Bucket!Nothing[f] = 0
    BY DEF Bucket!Nothing
  <2> QED
    BY <2>1, <2>2, <2>3
<1> QED
  BY <1>1, <1>2, <1>3, <1>4 DEF Bucket!Next

LEMMA InitValuesPublished == Bucket!Init => ValuesPublished
  BY DEF Bucket!Init, Bucket!Nothing, Bucket!NoMessage, ValuesPublished

LEMMA StepValuesPublished ==
  ASSUME ValuesPublished, [Bucket!Next]_(Bucket!vars)
  PROVE  ValuesPublished'
<1>1. NewestInStream'.n \in Nat /\ NewestInStream'.n >= NewestInStream.n
  <2>1. CASE Bucket!Publish
    <3>1. NewestInStream' \in [n : 1..MaxMessages, key : Keys, type : MsgNames]
          /\ NewestInStream'.n > NewestInStream.n
      BY <2>1 DEF Bucket!Publish
    <3>2. NewestInStream'.n \in 1..MaxMessages
      BY <3>1
    <3> QED
      BY <3>1, <3>2, NatsAssumption DEF ValuesPublished
  <2>2. CASE ~Bucket!Publish
    <3>1. NewestInStream' = NewestInStream
      BY <2>2 DEF Bucket!Next, Bucket!Merge, Bucket!Begin, Bucket!Forget, Bucket!vars
    <3> QED
      BY <3>1 DEF ValuesPublished
  <2> QED
    BY <2>1, <2>2
<1>2. ASSUME NEW k \in Keys, NEW f \in StateFields
      PROVE  LatestValues'[k][f] \in Nat /\ LatestValues'[k][f] <= NewestInStream'.n
  <2>1. /\ NewestInStream.n \in Nat
        /\ LatestValues[k][f] \in Nat /\ LatestValues[k][f] <= NewestInStream.n
    BY DEF ValuesPublished
  <2>2. LatestValues'[k][f] \in {LatestValues[k][f], NewestInStream.n, 0}
    BY ValuesMove
  <2> QED
    BY <1>1, <2>1, <2>2
<1> QED
  BY <1>1, <1>2 DEF ValuesPublished

\* No reader of the bucket sees a field go back to a message that the sink had
\* published before the one the field was from.  Since the reads and puts of
\* updateKVState are not one call to NATS (nats.go:319-333), this rests on the
\* refinement.  It is about the order of the stream, not of the time stamps: two
\* consumers of one drone build their envelopes (envelope.go:74, 93) before the
\* fan-out and may hand them to the sink the other way round (relay.go:412-417),
\* and mergeDeviceState compares no times (nats.go:480).
THEOREM BucketNeverGoesBack == Spec => Bucket!NeverGoesBack
<1> DEFINE Forward == \A k \in Keys, f \in StateFields :
                        LatestValues'[k][f] = 0 \/ LatestValues'[k][f] >= LatestValues[k][f]
<1>1. ASSUME ValuesPublished, [Bucket!Next]_(Bucket!vars)
      PROVE  Forward
  <2> SUFFICES ASSUME NEW k \in Keys, NEW f \in StateFields
               PROVE  LatestValues'[k][f] = 0 \/ LatestValues'[k][f] >= LatestValues[k][f]
    OBVIOUS
  <2>1. /\ NewestInStream.n \in Nat
        /\ LatestValues[k][f] \in Nat /\ LatestValues[k][f] <= NewestInStream.n
    BY <1>1 DEF ValuesPublished
  <2>2. LatestValues'[k][f] \in {LatestValues[k][f], NewestInStream.n, 0}
    BY <1>1, ValuesMove
  <2> QED
    BY <2>1, <2>2
<1>2. ValuesPublished /\ [Bucket!Next]_(Bucket!vars) => [Forward]_(Bucket!vars)
  BY <1>1
<1>3. ValuesPublished /\ [Bucket!Next]_(Bucket!vars) => ValuesPublished'
  BY StepValuesPublished
<1>4. Bucket!Spec => [][Forward]_(Bucket!vars)
  BY InitValuesPublished, <1>2, <1>3, PTL DEF Bucket!Spec
<1>5. Bucket!NeverGoesBack <=> [][Forward]_(Bucket!vars)
  BY DEF Bucket!NeverGoesBack
<1> QED
  BY <1>4, <1>5, BucketIsAtomic, PTL DEF ImplementsDeviceStates
=============================================================================
