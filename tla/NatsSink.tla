------------------------------ MODULE NatsSink ------------------------------
(***************************************************************************)
(* internal/sinks/nats.go: telemetry is published to a JetStream stream,   *)
(* and the latest values of a device are kept under one key of a bucket by *)
(* reading the entry, merging the message's fields into it and putting it  *)
(* back.                                                                   *)
(*                                                                         *)
(* The queue in front is a BaseAsyncSink (module AsyncSink), reduced to its*)
(* order and its worker.  NATS is external: a call succeeds, fails, or     *)
(* fails after it took effect.  The relay may die between two calls and is *)
(* started again (docker-compose.yml), with stream and bucket as they are. *)
(*                                                                         *)
(* A message is [n, source, type]: n numbers the messages in the order in  *)
(* which the sink accepts them and identifies a message's time stamp and   *)
(* values.  It is not the order of the time stamps: those are taken where  *)
(* envelopes are built, before the fan-out, so two endpoints of one drone  *)
(* may be accepted the other way round.  The fields of a device state      *)
(* (module Telemetry) have the number of the message they were read from,  *)
(* and 0 for nil.                                                          *)
(***************************************************************************)
EXTENDS Integers, SequencesExt, Telemetry

CONSTANTS
    Sources,        \* endpoints that deliver messages
    DroneOf,        \* the drone id configured for each
    MsgNames,       \* types of message that arrive
    MessageTypes,   \* kv.message_types
    KeyPattern,     \* placeholder in kv.key_pattern
    Configs,        \* what a configuration has: [stream, kv, durationsParse]
    Capacity,       \* queue_size
    MaxMessages,    \* bound: messages accepted
    MaxFaults       \* bound: failing calls and crashes

ASSUME NatsAssumption ==
    /\ KeyPattern \in {"drone_id", "source"}
    /\ MsgNames \subseteq MsgTypes
    /\ Configs \subseteq [stream : BOOLEAN, kv : BOOLEAN, durationsParse : BOOLEAN]
    /\ Capacity \in Nat \ {0}
    /\ MaxMessages \in Nat /\ MaxFaults \in Nat

VARIABLES
    cfg,        \* the configuration the relay is started with
    npc,        \* progress of NewNATSSink, then "ready", "closing", "over"
    conn,       \* the connection
    queue, wpc, hand,   \* the queue, its worker, and the message it has
    seen,       \* what updateKVState has read: <<>> or <<entry>>
    hasStream, hasBucket, stream, kv,   \* NATS: what exists, and what it holds
    accepted,   \* history: number of messages accepted so far
    counted,    \* history: messages whose loss the error metric counts
    died,       \* history: messages that died with the process
    missed,     \* history: messages that did not reach the bucket
    started,    \* history: the message since which an entry exists
    faults

sinkVars  == <<queue, wpc, hand, seen>>
natsVars  == <<hasStream, hasBucket, stream, kv>>
histVars  == <<accepted, counted, died, missed, started>>
vars == <<cfg, npc, conn, sinkVars, natsVars, histVars, faults>>

Messages == [n : 1..MaxMessages, source : Sources, type : MsgNames]
Drones == {DroneOf[s] : s \in Sources}
Keys == Drones \cup Sources

Absent == [lastSeen |-> 0]      \* no entry under a key
Exists(k) == kv[k] # Absent

Fault == faults < MaxFaults /\ faults' = faults + 1
NoFault == UNCHANGED faults

Init ==
    /\ cfg \in Configs
    /\ npc = "connect" /\ conn = "none"
    /\ queue = <<>> /\ wpc = "receive" /\ hand = <<>> /\ seen = <<>>
    /\ hasStream \in BOOLEAN /\ hasBucket = FALSE
    /\ stream = <<>> /\ kv = [k \in Keys |-> Absent]
    /\ accepted = 0 /\ counted = {} /\ died = {} /\ missed = {}
    /\ started = [k \in Keys |-> 0]
    /\ faults = 0

-----------------------------------------------------------------------------
(* NewNATSSink                                                             *)

KeepSink == UNCHANGED <<cfg, sinkVars, stream, kv, histVars>>

BucketNext == IF cfg.kv THEN "bucket" ELSE "log"

Connect ==
    /\ npc = "connect"
    /\ \/ NoFault /\ conn' = "open" /\ npc' = IF cfg.stream THEN "stream" ELSE BucketNext
       \/ Fault /\ npc' = "failed" /\ UNCHANGED conn
    /\ KeepSink /\ UNCHANGED <<hasStream, hasBucket>>

\* Every error after Connect closes the connection and is returned.
CloseAndFail == npc' = "failed" /\ conn' = "closed"

\* ensureStream and ensureKVBucket parse a duration before they call NATS, and
\* take any error of the lookup for "does not exist".
Look(from, exists, found, absent) ==
    /\ npc = from
    /\ \/ ~cfg.durationsParse /\ NoFault /\ CloseAndFail
       \/ /\ cfg.durationsParse
          /\ \/ exists /\ NoFault /\ npc' = found
             \/ ~exists /\ NoFault /\ npc' = absent
             \/ Fault /\ npc' = absent
          /\ UNCHANGED conn
    /\ KeepSink /\ UNCHANGED <<hasStream, hasBucket>>

\* StreamInfo, KeyValue
LookForStream == Look("stream", hasStream, "update", "add")
LookForBucket == Look("bucket", hasBucket, "log", "create")

UpdateStream ==
    /\ npc = "update"
    /\ \/ NoFault /\ npc' = BucketNext /\ UNCHANGED conn
       \/ Fault /\ CloseAndFail
    /\ KeepSink /\ UNCHANGED <<hasStream, hasBucket>>

AddStream ==
    /\ npc = "add"
    /\ \/ NoFault /\ hasStream' = TRUE /\ npc' = BucketNext /\ UNCHANGED conn
       \/ Fault /\ hasStream' \in {hasStream, TRUE} /\ CloseAndFail
    /\ KeepSink /\ UNCHANGED hasBucket

CreateErrorIgnored == npc' = "log" /\ UNCHANGED conn

CreateFails == CloseAndFail

CreateBucket ==
    /\ npc = "create"
    /\ \/ NoFault /\ hasBucket' = TRUE /\ npc' = "log" /\ UNCHANGED conn
       \/ Fault /\ hasBucket' \in {hasBucket, TRUE} /\ CreateFails
    /\ KeepSink /\ UNCHANGED hasStream

\* The last statement logs cfg.Stream.Name, which is a nil dereference in a
\* configuration without a stream: the process panics.
LogStarted ==
    /\ npc = "log"
    /\ \/ cfg.stream /\ npc' = "ready" /\ UNCHANGED conn
       \/ ~cfg.stream /\ npc' = "over" /\ conn' = "none"
    /\ KeepSink /\ UNCHANGED <<hasStream, hasBucket, faults>>

NewNATSSink ==
    Connect \/ LookForStream \/ UpdateStream \/ AddStream \/ LookForBucket \/ CreateBucket
    \/ LogStarted

-----------------------------------------------------------------------------
(* The queue, and publishMessage                                           *)

HasRoomOffByOne == Len(queue) <= Capacity

HasRoom == Len(queue) < Capacity

WriteMessage ==
    /\ npc = "ready"
    /\ accepted < MaxMessages
    /\ HasRoom
    /\ accepted' = accepted + 1
    /\ \E s \in Sources, t \in MsgNames :
        queue' = Append(queue, [n |-> accepted', source |-> s, type |-> t])
    /\ UNCHANGED <<cfg, npc, conn, wpc, hand, seen, natsVars, counted, died, missed, started,
                   faults>>

NewestFirst == /\ hand' = <<Last(queue)>>
               /\ queue' = Front(queue)

OldestFirst == /\ hand' = <<Head(queue)>>
               /\ queue' = Tail(queue)

Receive ==
    /\ npc \in {"ready", "closing"}
    /\ wpc = "receive"
    /\ queue # <<>>
    /\ OldestFirst
    /\ wpc' = "publish"
    /\ UNCHANGED <<cfg, npc, conn, seen, natsVars, histVars, faults>>

Msg == hand[1]

HandledAs(state) == wpc' = state /\ hand' = IF state = "receive" THEN <<>> ELSE hand

\* The default is used when the configuration names no types.
kvMessageTypes ==
    IF MessageTypes # {} THEN MessageTypes
    ELSE {"Heartbeat", "GlobalPositionInt", "Attitude", "SystemStatus", "VFR_HUD"}

shouldUpdateKV(t) == t \in kvMessageTypes

PublishOk ==
    /\ wpc = "publish"
    /\ stream' = Append(stream, Msg)
    /\ HandledAs(IF cfg.kv /\ shouldUpdateKV(Msg.type) THEN "get" ELSE "receive")
    /\ UNCHANGED <<cfg, npc, conn, queue, seen, hasStream, hasBucket, kv, histVars, faults>>

ErrorUncounted == UNCHANGED counted

CountError == counted' = counted \cup {Msg.n}

UpdateAnyway == HandledAs("get") /\ UNCHANGED missed

\* The error is returned, and the bucket not updated.
GiveUp == HandledAs("receive") /\ missed' = missed \cup {Msg.n}

\* Values that JSON cannot express (NaN), or an error of PublishMsg, which may
\* come after the stream has taken the message.
PublishFails ==
    /\ wpc = "publish"
    /\ Fault
    /\ stream' \in {stream, Append(stream, Msg)}
    /\ GiveUp
    /\ CountError
    /\ UNCHANGED <<cfg, npc, conn, queue, seen, hasStream, hasBucket, kv, accepted, died,
                   started>>

-----------------------------------------------------------------------------
(* updateKVState                                                           *)

FirstKey(m) == CHOOSE k \in Keys : TRUE

resolveKVKey(m) == IF KeyPattern = "drone_id" THEN DroneOf[m.source] ELSE m.source

\* What the message alone says: a DeviceState after UpdateFromMessage.
DeviceState(m) ==
    [entity |-> DroneOf[m.source], source |-> m.source, lastSeen |-> m.n, lastType |-> m.type,
     fields |-> [f \in StateFields |-> IF Reads(m.type, f) THEN m.n ELSE 0]]

MergeForgetsHeading(existing, new, t) ==
    [existing EXCEPT
        !.lastSeen = new.lastSeen, !.lastType = new.lastType,
        !.fields = [f \in StateFields |->
            IF f \in MergedFields[t] \ {"heading"} THEN new.fields[f] ELSE @[f]]]

\* Entity and source stay those of the entry.
mergeDeviceState(existing, new, t) ==
    [existing EXCEPT
        !.lastSeen = new.lastSeen, !.lastType = new.lastType,
        !.fields = [f \in StateFields |->
            IF f \in MergedFields[t] THEN new.fields[f] ELSE @[f]]]

KeepNats == UNCHANGED <<cfg, npc, conn, queue, hasStream, hasBucket, stream>>

GetOk ==
    /\ wpc = "get"
    /\ LET k == resolveKVKey(Msg)
       IN seen' = IF Exists(k) THEN <<kv[k]>> ELSE <<>>
    /\ HandledAs("put")
    /\ KeepNats /\ UNCHANGED <<kv, histVars, faults>>

\* Any error of the read is taken for an absent key.
GetFails ==
    /\ wpc = "get"
    /\ Fault
    /\ seen' = <<>>
    /\ HandledAs("put")
    /\ KeepNats /\ UNCHANGED <<kv, histVars>>

Merged == IF seen = <<>> THEN DeviceState(Msg)
          ELSE mergeDeviceState(seen[1], DeviceState(Msg), Msg.type)

Stored ==
    LET k == resolveKVKey(Msg)
    IN  /\ kv' = [kv EXCEPT ![k] = Merged]
        /\ started' = [started EXCEPT ![k] = IF seen = <<>> THEN Msg.n ELSE @]

PutOk ==
    /\ wpc = "put"
    /\ Stored
    /\ seen' = <<>>
    /\ HandledAs("receive")
    /\ KeepNats /\ UNCHANGED <<accepted, counted, died, missed, faults>>

\* A warning only: the message is in the stream.
PutFails ==
    /\ wpc = "put"
    /\ Fault
    /\ Stored \/ UNCHANGED <<kv, started>>
    /\ missed' = missed \cup {Msg.n}
    /\ seen' = <<>>
    /\ HandledAs("receive")
    /\ KeepNats /\ UNCHANGED <<accepted, counted, died>>

\* kv.ttl: NATS removes an entry.
Expire(k) ==
    /\ Exists(k)
    /\ kv' = [kv EXCEPT ![k] = Absent]
    /\ UNCHANGED <<cfg, npc, conn, sinkVars, hasStream, hasBucket, stream, histVars, faults>>

publishMessage == PublishOk \/ PublishFails \/ GetOk \/ GetFails \/ PutOk \/ PutFails

-----------------------------------------------------------------------------
(* Close, the end of the process, and the next one                         *)

\* base.Close: close of the queue
Close ==
    /\ npc = "ready"
    /\ npc' = "closing"
    /\ UNCHANGED <<cfg, conn, sinkVars, natsVars, histVars, faults>>

WorkerExit ==
    /\ npc = "closing"
    /\ wpc = "receive" /\ queue = <<>>
    /\ wpc' = "done"
    /\ UNCHANGED <<cfg, npc, conn, queue, hand, seen, natsVars, histVars, faults>>

\* wg.Wait in base.Close, then nc.Drain
CloseReturn ==
    /\ npc = "closing"
    /\ wpc = "done"
    /\ npc' = "over" /\ conn' = "closed"
    /\ UNCHANGED <<cfg, sinkVars, natsVars, histVars, faults>>

InSink == {hand[i].n : i \in DOMAIN hand} \cup {queue[i].n : i \in DOMAIN queue}

\* The process dies, at whatever point.
Crash ==
    /\ npc \in {"ready", "closing"}
    /\ Fault
    /\ npc' = "over" /\ conn' = "none"
    /\ queue' = <<>> /\ hand' = <<>> /\ seen' = <<>> /\ wpc' = "done"
    /\ died' = died \cup InSink
    /\ missed' = missed \cup InSink
    /\ UNCHANGED <<cfg, natsVars, accepted, counted, started>>

\* Another process with the same configuration, while there is more to do.
Restart ==
    /\ npc \in {"over", "failed"}
    /\ accepted < MaxMessages
    /\ npc' = "connect" /\ conn' = "none"
    /\ wpc' = "receive"
    /\ UNCHANGED <<cfg, queue, hand, seen, natsVars, histVars, faults>>

Ended == npc = "over" /\ UNCHANGED vars

Next ==
    \/ NewNATSSink \/ WriteMessage \/ Receive \/ publishMessage
    \/ \E k \in Keys : Expire(k)
    \/ Close \/ WorkerExit \/ CloseReturn \/ Crash \/ Restart
    \/ Ended

Spec == Init /\ [][Next]_vars

-----------------------------------------------------------------------------
(* Properties                                                              *)

Entries == [entity : Drones, source : Sources, lastSeen : 1..MaxMessages, lastType : MsgNames,
            fields : [StateFields -> 0..MaxMessages]]

\* Type invariant; the worker has a message exactly while it handles one.
TypeOK ==
    /\ cfg \in Configs
    /\ npc \in {"connect", "stream", "add", "update", "bucket", "create", "log", "ready",
                "failed", "closing", "over"}
    /\ conn \in {"none", "open", "closed"}
    /\ queue \in Seq(Messages) /\ Len(queue) <= Capacity
    /\ wpc \in {"receive", "publish", "get", "put", "done"}
    /\ hand \in Seq(Messages) /\ Len(hand) = IF wpc \in {"publish", "get", "put"} THEN 1 ELSE 0
    /\ seen \in Seq(Entries) /\ Len(seen) <= 1
    /\ {hasStream, hasBucket} \subseteq BOOLEAN
    /\ stream \in Seq(Messages)
    /\ kv \in [Keys -> Entries \cup {Absent}]
    /\ accepted \in 0..MaxMessages /\ faults \in 0..MaxFaults
    /\ counted \cup died \cup missed \subseteq 1..accepted

Published == {stream[i].n : i \in DOMAIN stream}

\* The stream has each message once at most and in order, across failures that
\* came after the stream took the message, and across restarts.
StreamInOrder == \A i, j \in DOMAIN stream : i < j => stream[i].n < stream[j].n

\* An accepted message is in the stream or still in the sink, or its loss was
\* counted, or it died with the process: in particular Close leaves none behind.
LossesCounted ==
    /\ 1..accepted \subseteq Published \cup InSink \cup counted \cup died
    /\ npc = "over" => InSink = {}

\* The messages of a type that are in the stream and belong to a key.
PublishedAs(k, t) ==
    {stream[i].n : i \in {j \in DOMAIN stream :
                              stream[j].type = t /\ resolveKVKey(stream[j]) = k}}

\* "Track the latest aggregated state of each device" (README).  Every field of
\* an entry has a value that consumers of the stream know as well, from a message
\* of the type and the key the field is for; the one published last of these,
\* except for messages from before the entry began (again), messages whose own
\* update failed, and the one in progress.  One failed update leaves the other
\* types' fields alone, the next message of the type makes up for it, and the
\* entry's last_seen is of the last message it has.
KVMirrorsStream ==
    \A k \in Keys : Exists(k) =>
        /\ \A t \in MsgNames, f \in StateFields : f \in DeviceFields[t] =>
            LET value == kv[k].fields[f]
                n == Max({0} \cup PublishedAs(k, t))
            IN  /\ value \in {0} \cup PublishedAs(k, t)
                /\ t \in kvMessageTypes /\ n >= started[k] /\ n \notin {0} \cup missed \cup InSink
                    => value = n
        /\ kv[k].lastSeen = Max({kv[k].fields[f] : f \in StateFields})

\* A sink that was constructed has its stream and its bucket, whatever lookup
\* failed on the way; one that was not has left no connection open.
ReadyOrGone ==
    /\ npc = "ready" => cfg.stream /\ hasStream /\ (cfg.kv => hasBucket)
    /\ npc = "failed" => conn # "open"

-----------------------------------------------------------------------------
(* The bucket implements DeviceStates.  What the worker has read is the     *)
(* entry until it is put back: an expiry in between takes effect later, or  *)
(* is undone by the put.                                                    *)

Entry(k) == IF seen # <<>> /\ k = resolveKVKey(Msg) THEN seen[1] ELSE kv[k]

FieldsIn(e) == IF e = Absent THEN [f \in StateFields |-> 0] ELSE e.fields

LatestValues == [k \in Keys |-> FieldsIn(Entry(k))]

Record(m) == [n |-> m.n, key |-> resolveKVKey(m), type |-> m.type]

NewestInStream == IF stream = <<>> THEN [n |-> 0] ELSE Record(stream[Len(stream)])

Bucket == INSTANCE DeviceStates WITH
    Messages <- [n : 1..MaxMessages, key : Keys, type : MsgNames],
    Keys     <- Keys,
    Fields   <- StateFields,
    FieldsOf <- DeviceFields,
    newest   <- NewestInStream,
    latest   <- LatestValues

\* Reading, merging and putting are one step to everybody who reads the bucket,
\* of the message that was published last, whatever fails, expires or dies in
\* between (nats.go:301-344).
ImplementsDeviceStates == Bucket!Spec
=============================================================================
