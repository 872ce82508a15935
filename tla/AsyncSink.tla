------------------------------ MODULE AsyncSink ------------------------------
(***************************************************************************)
(* internal/sinks/base.go: BaseAsyncSink, the bounded queue and the single *)
(* worker goroutine in front of every sink.                                *)
(*                                                                         *)
(* The queue is a Go channel.  Its semantics is part of the model: a send  *)
(* to a full channel parks the sender in a FIFO wait list, a receive from a*)
(* full channel with parked senders admits the first of them in the same   *)
(* step, closing the channel makes every parked sender panic, and so does a*)
(* send that starts after the close.                                       *)
(*                                                                         *)
(* Producers are the goroutines that call Enqueue (one per MAVLink         *)
(* endpoint); the closer is the goroutine that shuts the relay down.       *)
(***************************************************************************)
EXTENDS Integers, Sequences, FiniteSetsExt

CONSTANTS
    Producers,          \* goroutines that call Enqueue
    ConfiguredBuffer,   \* queue_size of the sink's configuration, any integer
    ConfiguredPolicies, \* texts the configuration may have as backpressure_policy
    DefaultQueueSize,   \* 1000 in the code
    MaxOffers           \* bound: calls of Enqueue each producer makes

ASSUME ProducersAssumption == Producers # {} /\ IsFiniteSet(Producers)
ASSUME BufferAssumption ==
    /\ ConfiguredBuffer \in Int
    /\ DefaultQueueSize \in Nat \ {0}
ASSUME PolicyAssumption == ConfiguredPolicies \subseteq STRING
ASSUME MaxOffersAssumption == MaxOffers \in Nat

VARIABLES
    policy,     \* b.policy, fixed at construction
    queue,      \* buffer of the channel b.queue
    sendq,      \* senders parked on the channel, in arrival order
    closed,     \* close(b.queue) has happened
    ppc,        \* where each producer is inside Enqueue
    plen,       \* len(b.queue) a producer read and has not published yet
    offered,    \* how many messages each producer has passed to Enqueue
    wpc,        \* where the worker goroutine is
    hand,       \* the message the worker's callback is working on
    wlen,       \* len(b.queue) the worker read and has not published yet
    cpc,        \* where the goroutine calling Close is
    enqueued,   \* aero_sink_enqueued_total
    dropped,    \* aero_sink_dropped_total
    errors,     \* aero_sink_worker_errors_total
    gauge,      \* aero_sink_queue_length
    accepted,   \* history: messages the channel took, in order
    finished,   \* history: messages the callback returned for, in order
    crashed     \* an unrecovered panic ended the process

chanVars  == <<policy, queue, sendq, closed>>
prodVars  == <<ppc, plen, offered>>
workVars  == <<wpc, hand, wlen>>
countVars == <<enqueued, dropped, errors>>
histVars  == <<accepted, finished>>
vars == <<chanVars, prodVars, workVars, cpc, countVars, gauge, histVars, crashed>>

-----------------------------------------------------------------------------
(* Construction                                                            *)

\* normalizeBackpressurePolicy lower-cases the text and falls back to "drop";
\* these are the texts that lower-case to "block" among those considered.
BlockSpellings == {"block", "Block", "BLOCK"}

normalizeBackpressurePolicy(text) == IF text \in BlockSpellings THEN "block" ELSE "drop"

\* A queue size of zero (the key is absent) or less means the default.
Capacity == IF ConfiguredBuffer <= 0 THEN DefaultQueueSize ELSE ConfiguredBuffer

Message(p, n) == [from |-> p, seq |-> n]
Messages == [from : Producers, seq : 1..MaxOffers]

ProducerStates == {"idle", "parked", "sent", "measured", "panicking"}
WorkerStates   == {"receive", "handle", "measured", "done"}
CloserStates   == {"open", "waiting", "returned"}

Init ==
    /\ policy \in {normalizeBackpressurePolicy(text) : text \in ConfiguredPolicies}
    /\ queue = <<>> /\ sendq = <<>> /\ closed = FALSE
    /\ ppc = [p \in Producers |-> "idle"]
    /\ plen = [p \in Producers |-> 0]
    /\ offered = [p \in Producers |-> 0]
    /\ wpc = "receive" /\ hand = <<>> /\ wlen = 0
    /\ cpc = "open"
    /\ enqueued = 0 /\ dropped = 0 /\ errors = 0 /\ gauge = 0
    /\ accepted = <<>> /\ finished = <<>>
    /\ crashed = FALSE

-----------------------------------------------------------------------------
(* Enqueue: the send on b.queue, then two metric updates                   *)

HasRoomOffByOne == Len(queue) <= Capacity

HasRoom == Len(queue) < Capacity

Calls(p) ==
    /\ ~crashed
    /\ ppc[p] = "idle"
    /\ offered[p] < MaxOffers
    /\ offered' = [offered EXCEPT ![p] = @ + 1]

\* The channel has room: both policies send without waiting.
Send(p) ==
    /\ Calls(p)
    /\ ~closed
    /\ HasRoom
    /\ queue' = Append(queue, Message(p, offered[p] + 1))
    /\ accepted' = Append(accepted, Message(p, offered[p] + 1))
    /\ ppc' = [ppc EXCEPT ![p] = "sent"]
    /\ UNCHANGED <<policy, sendq, closed, plen, workVars, cpc, countVars, gauge, finished, crashed>>

\* The channel is full and the policy is to wait for room.
Park(p) ==
    /\ Calls(p)
    /\ ~closed
    /\ ~HasRoom
    /\ policy = "block"
    /\ sendq' = Append(sendq, p)
    /\ ppc' = [ppc EXCEPT ![p] = "parked"]
    /\ UNCHANGED <<policy, queue, closed, plen, workVars, cpc, countVars, gauge, histVars, crashed>>

CountDropTwice == dropped' = dropped + 2

CountDrop == dropped' = dropped + 1

\* The channel is full and the policy is to drop: ErrQueueFull.
Drop(p) ==
    /\ Calls(p)
    /\ ~closed
    /\ ~HasRoom
    /\ policy = "drop"
    /\ CountDrop
    /\ UNCHANGED <<chanVars, ppc, plen, workVars, cpc, enqueued, errors, gauge, histVars, crashed>>

\* The channel is closed: the send panics, whatever the policy.
SendOnClosed(p) ==
    /\ Calls(p)
    /\ closed
    /\ ppc' = [ppc EXCEPT ![p] = "panicking"]
    /\ UNCHANGED <<chanVars, plen, workVars, cpc, countVars, gauge, histVars, crashed>>

Enqueue(p) == Send(p) \/ Park(p) \/ Drop(p) \/ SendOnClosed(p)

\* After the send: count it and read the queue length ...
Count(p) ==
    /\ ~crashed
    /\ ppc[p] = "sent"
    /\ enqueued' = enqueued + 1
    /\ plen' = [plen EXCEPT ![p] = Len(queue)]
    /\ ppc' = [ppc EXCEPT ![p] = "measured"]
    /\ UNCHANGED <<chanVars, offered, workVars, cpc, dropped, errors, gauge, histVars, crashed>>

\* ... then publish what was read, and return nil.
Publish(p) ==
    /\ ~crashed
    /\ ppc[p] = "measured"
    /\ gauge' = plen[p]
    /\ plen' = [plen EXCEPT ![p] = 0]
    /\ ppc' = [ppc EXCEPT ![p] = "idle"]
    /\ UNCHANGED <<chanVars, offered, workVars, cpc, countVars, histVars, crashed>>

\* Nothing recovers the panic of a send on a closed channel.
Panic(p) ==
    /\ ~crashed
    /\ ppc[p] = "panicking"
    /\ crashed' = TRUE
    /\ UNCHANGED <<chanVars, prodVars, workVars, cpc, countVars, gauge, histVars>>

-----------------------------------------------------------------------------
(* The worker goroutine: for msg := range b.queue { worker(msg); ... }     *)

AdmitNone ==
    /\ queue' = Tail(queue)
    /\ UNCHANGED <<accepted, sendq, ppc>>

AdmitParkedAtFront ==
    LET p == Head(sendq)
        m == Message(p, offered[p])
    IN  /\ queue' = <<m>> \o Tail(queue)
        /\ accepted' = Append(accepted, m)
        /\ sendq' = Tail(sendq)
        /\ ppc' = [ppc EXCEPT ![p] = "sent"]

\* The sender at the head of the wait list puts its message in the slot that
\* the receive has just freed.
AdmitParked ==
    LET p == Head(sendq)
        m == Message(p, offered[p])
    IN  /\ queue' = Append(Tail(queue), m)
        /\ accepted' = Append(accepted, m)
        /\ sendq' = Tail(sendq)
        /\ ppc' = [ppc EXCEPT ![p] = "sent"]

Receive ==
    /\ ~crashed
    /\ wpc = "receive"
    /\ queue # <<>>
    /\ hand' = <<Head(queue)>>
    /\ wpc' = "handle"
    /\ \/ sendq = <<>> /\ AdmitNone
       \/ sendq # <<>> /\ AdmitParked
    /\ UNCHANGED <<policy, closed, plen, offered, wlen, cpc, countVars, gauge, finished, crashed>>

\* worker(msg) returns; an error is counted and the message is not retried.
Handled ==
    /\ ~crashed
    /\ wpc = "handle"
    /\ finished' = finished \o hand
    /\ hand' = <<>>
    /\ errors' \in {errors, errors + 1}
    /\ wlen' = Len(queue)
    /\ wpc' = "measured"
    /\ UNCHANGED <<chanVars, prodVars, cpc, enqueued, dropped, gauge, accepted, crashed>>

WorkerPublish ==
    /\ ~crashed
    /\ wpc = "measured"
    /\ gauge' = wlen
    /\ wlen' = 0
    /\ wpc' = "receive"
    /\ UNCHANGED <<chanVars, prodVars, hand, cpc, countVars, histVars, crashed>>

RangeEndsOnClose == closed

RangeEndsOnEmpty == queue = <<>>

\* range ends when the channel is closed and its buffer is empty.
RangeEnds == closed /\ queue = <<>>

WorkerExit ==
    /\ ~crashed
    /\ wpc = "receive"
    /\ RangeEnds
    /\ gauge' = 0
    /\ wpc' = "done"
    /\ UNCHANGED <<chanVars, prodVars, hand, wlen, cpc, countVars, histVars, crashed>>

-----------------------------------------------------------------------------
(* Close: close(b.queue), wg.Wait(), gauge to zero                         *)

\* Closing the channel releases every parked sender into a panic.
CloseChannel ==
    /\ closed' = TRUE
    /\ sendq' = <<>>
    /\ ppc' = [p \in Producers |-> IF ppc[p] = "parked" THEN "panicking" ELSE ppc[p]]

Close ==
    /\ ~crashed
    /\ cpc = "open"
    /\ CloseChannel
    /\ cpc' = "waiting"
    /\ UNCHANGED <<policy, queue, plen, offered, workVars, countVars, gauge, histVars, crashed>>

\* wg.Wait returns when the worker goroutine has run its deferred wg.Done.
WorkerGone == wpc = "done"

CloseReturn ==
    /\ ~crashed
    /\ cpc = "waiting"
    /\ WorkerGone
    /\ gauge' = 0
    /\ cpc' = "returned"
    /\ UNCHANGED <<chanVars, prodVars, workVars, countVars, histVars, crashed>>

-----------------------------------------------------------------------------

Worker == Receive \/ Handled \/ WorkerPublish \/ WorkerExit

Producer(p) == Enqueue(p) \/ Count(p) \/ Publish(p) \/ Panic(p)

\* The behaviours end in a crash, or after Close with every call made.
Ended ==
    /\ \/ crashed
       \/ /\ cpc = "returned"
          /\ \A p \in Producers : ppc[p] = "idle" /\ offered[p] = MaxOffers
    /\ UNCHANGED vars

Next == (\E p \in Producers : Producer(p)) \/ Worker \/ Close \/ CloseReturn \/ Ended

Spec == Init /\ [][Next]_vars

\* Goroutines that can run do run, and the worker callback returns.  Nobody
\* is obliged to call Enqueue or Close.
Fairness ==
    /\ WF_vars(Worker)
    /\ WF_vars(CloseReturn)
    /\ \A p \in Producers : WF_vars(Count(p) \/ Publish(p) \/ Panic(p))

FairSpec == Spec /\ Fairness

-----------------------------------------------------------------------------
(* Properties                                                              *)

\* Type invariant of base.go's state: the channel never holds more than its
\* capacity, and counters are naturals.
TypeOK ==
    /\ policy \in {"drop", "block"}
    /\ queue \in Seq(Messages) /\ Len(queue) <= Capacity
    /\ sendq \in Seq(Producers)
    /\ closed \in BOOLEAN
    /\ ppc \in [Producers -> ProducerStates]
    /\ plen \in [Producers -> Nat]
    /\ offered \in [Producers -> 0..MaxOffers]
    /\ wpc \in WorkerStates
    /\ hand \in Seq(Messages) /\ Len(hand) <= 1
    /\ wlen \in Nat
    /\ cpc \in CloserStates
    /\ enqueued \in Nat /\ dropped \in Nat /\ errors \in Nat /\ gauge \in Nat
    /\ accepted \in Seq(Messages) /\ finished \in Seq(Messages)
    /\ crashed \in BOOLEAN

\* base.go neither loses, duplicates nor reorders a message it has accepted:
\* what the callback returned for, the message in its hands and the channel
\* together are exactly the accepted messages in order of acceptance.
Fifo == accepted = finished \o hand \o queue

\* When Close returns (base.go:128-133) every accepted message has been through
\* the callback, although Close races Enqueue and the worker.  That is Fifo and
\* the contract's Stop, proved as CloseDrains.
DrainedOnClose ==
    cpc = "returned" => finished = accepted /\ hand = <<>> /\ queue = <<>>

\* The messages of one producer get through the callback in the order it
\* offered them, though some of them waited in the wait list.
OfferOrder ==
    \A i, j \in 1..Len(finished) :
        i < j /\ finished[i].from = finished[j].from => finished[i].seq < finished[j].seq

\* The counters account for every call of Enqueue exactly once: a message is
\* counted as enqueued, counted as dropped, or still on its way in its producer.
MetricsAccount ==
    LET At(states) == Cardinality({p \in Producers : ppc[p] \in states})
    IN  /\ enqueued + At({"sent"}) = Len(accepted)
        /\ MapThenSumSet(LAMBDA p : offered[p], Producers)
             = enqueued + dropped + At({"sent", "parked", "panicking"})

\* A producer parked by the block policy gets out of Enqueue: the worker makes
\* room for it, or the panic of a closed channel ends the process.
ParkedSenderReturns ==
    \A p \in Producers : ppc[p] = "parked" ~> (ppc[p] = "idle" \/ crashed)

-----------------------------------------------------------------------------
(* The sink implements its contract.  One message more than the channel's  *)
(* capacity can be unfinished: the one in the worker's hands.              *)

Contract == INSTANCE SinkContract WITH
    Messages <- Messages,
    Bound    <- Capacity + 1,
    inbox    <- hand \o queue,
    finished <- finished,
    phase    <- IF crashed THEN "aborted"
                ELSE IF cpc = "returned" THEN "stopped"
                ELSE IF closed THEN "sealed" ELSE "open"

\* Every step of BaseAsyncSink is a step of the contract or invisible to it.
ImplementsContract == Contract!Spec

\* Under the scheduling assumptions the sink also works off its inbox and stops.
ImplementsFairContract == Contract!FairSpec
=============================================================================
