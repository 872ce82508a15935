--------------------------- MODULE AsyncSinkProofs ---------------------------
(***************************************************************************)
(* The safety of BaseAsyncSink for every number of producers, every queue  *)
(* size, either policy and any number of calls.                            *)
(***************************************************************************)
EXTENDS AsyncSink, QueueLemmas

\* What Go's channels grant: a sender waits only while the channel is full and
\* open, because a receive admits the first waiter to the slot it frees.
ParkedOnlyWhenFull == sendq # <<>> => Len(queue) = Capacity /\ ~closed

\* A parked producer has made the call whose message it holds.
ParkedHaveOffered == \A i \in DOMAIN sendq : offered[sendq[i]] \in 1..MaxOffers

\* How the three program counters and the channel depend on each other.
ControlInv ==
    /\ closed <=> cpc # "open"
    /\ hand # <<>> <=> wpc = "handle"
    /\ wpc = "done" => closed /\ queue = <<>>
    /\ cpc = "returned" => wpc = "done"

IInv == TypeOK /\ Fifo /\ ParkedOnlyWhenFull /\ ParkedHaveOffered /\ ControlInv

-----------------------------------------------------------------------------

\* Whatever the configuration says, the channel has at least one slot.
LEMMA CapacityPositive == Capacity \in Nat \ {0}
  BY BufferAssumption DEF Capacity

\* The message of a counted call is one of the instance's messages.
LEMMA MessageType ==
  ASSUME NEW p \in Producers, NEW n \in 1..MaxOffers
  PROVE  Message(p, n) \in Messages
  BY DEF Message, Messages

\* The initial state satisfies the inductive invariant.
LEMMA InitInv == Init => IInv
<1> SUFFICES ASSUME Init PROVE IInv
  OBVIOUS
<1> USE DEF Init
<1>1. TypeOK
  <2>1. /\ queue \in Seq(Messages) /\ hand \in Seq(Messages)
        /\ accepted \in Seq(Messages) /\ finished \in Seq(Messages)
        /\ sendq \in Seq(Producers)
        /\ Len(queue) = 0 /\ Len(hand) = 0
    BY EmptySeq
  <2>2. 0 \in 0..MaxOffers /\ 0 <= Capacity
    BY CapacityPositive, MaxOffersAssumption
  <2>3. /\ ppc \in [Producers -> ProducerStates]
        /\ plen \in [Producers -> Nat]
        /\ offered \in [Producers -> 0..MaxOffers]
    BY <2>2 DEF ProducerStates
  <2>4. /\ wpc \in WorkerStates /\ cpc \in CloserStates
        /\ closed \in BOOLEAN /\ crashed \in BOOLEAN
        /\ wlen \in Nat /\ enqueued \in Nat /\ dropped \in Nat
        /\ errors \in Nat /\ gauge \in Nat
    BY DEF WorkerStates, CloserStates
  <2>5. Len(queue) <= Capacity /\ Len(hand) <= 1
    BY <2>1, <2>2
  <2>6. policy \in {"drop", "block"}
    BY DEF normalizeBackpressurePolicy
  <2> HIDE DEF Init
  <2> QED
    BY <2>1, <2>3, <2>4, <2>5, <2>6 DEF TypeOK
<1>2. Fifo
  BY EmptySeq, ConcatEmptySeq DEF Fifo
<1>3. ParkedOnlyWhenFull /\ ParkedHaveOffered /\ ControlInv
  BY DEF ParkedOnlyWhenFull, ParkedHaveOffered, ControlInv
<1> QED
  BY <1>1, <1>2, <1>3 DEF IInv

\* The type invariant survives every step.
LEMMA NextTypeOK == IInv /\ [Next]_vars => TypeOK'
<1> SUFFICES ASSUME IInv, [Next]_vars PROVE TypeOK'
  OBVIOUS
<1> USE DEF IInv, TypeOK, ProducerStates, WorkerStates, CloserStates
<1>1. ASSUME NEW p \in Producers, Send(p) PROVE TypeOK'
  <2>1. offered[p] + 1 \in 1..MaxOffers /\ offered' \in [Producers -> 0..MaxOffers]
    BY <1>1, MaxOffersAssumption DEF Send, Calls
  <2>2. Message(p, offered[p] + 1) \in Messages
    BY <2>1, MessageType
  <2>3. /\ queue' \in Seq(Messages) /\ Len(queue') = Len(queue) + 1
        /\ accepted' \in Seq(Messages)
    BY <1>1, <2>2, AppendProperties DEF Send
  <2>4. Len(queue') <= Capacity
    BY <1>1, <2>3, CapacityPositive, LenProperties DEF Send, HasRoom
  <2> QED
    BY <1>1, <2>1, <2>3, <2>4 DEF Send, workVars, countVars
<1>2. ASSUME NEW p \in Producers, Park(p) PROVE TypeOK'
  <2>1. offered' \in [Producers -> 0..MaxOffers]
    BY <1>2, MaxOffersAssumption DEF Park, Calls
  <2>2. sendq' \in Seq(Producers)
    BY <1>2, AppendProperties DEF Park
  <2> QED
    BY <1>2, <2>1, <2>2 DEF Park, workVars, countVars, histVars
<1>3. ASSUME NEW p \in Producers, Drop(p) PROVE TypeOK'
  <2>1. offered' \in [Producers -> 0..MaxOffers]
    BY <1>3, MaxOffersAssumption DEF Drop, Calls
  <2> QED
    BY <1>3, <2>1 DEF Drop, CountDrop, chanVars, workVars, histVars
<1>4. ASSUME NEW p \in Producers, SendOnClosed(p) PROVE TypeOK'
  <2>1. offered' \in [Producers -> 0..MaxOffers]
    BY <1>4, MaxOffersAssumption DEF SendOnClosed, Calls
  <2> QED
    BY <1>4, <2>1 DEF SendOnClosed, chanVars, workVars, countVars, histVars
<1>5. ASSUME NEW p \in Producers, Count(p) PROVE TypeOK'
  <2>1. Len(queue) \in Nat
    BY LenProperties
  <2> QED
    BY <1>5, <2>1 DEF Count, chanVars, workVars, histVars
<1>6. ASSUME NEW p \in Producers, Publish(p) PROVE TypeOK'
  BY <1>6 DEF Publish, chanVars, workVars, countVars, histVars
<1>7. ASSUME NEW p \in Producers, Panic(p) PROVE TypeOK'
  BY <1>7 DEF Panic, chanVars, prodVars, workVars, countVars, histVars
<1>8. CASE Receive
  <2>1. /\ Head(queue) \in Messages
        /\ Tail(queue) \in Seq(Messages)
        /\ Len(Tail(queue)) = Len(queue) - 1
    BY <1>8, HeadTailProperties DEF Receive
  <2>2. hand' \in Seq(Messages) /\ Len(hand') <= 1
    BY <1>8, <2>1, Singleton DEF Receive
  <2>3. Len(queue) \in Nat /\ Capacity \in Nat
    BY LenProperties, CapacityPositive
  <2>4. CASE sendq = <<>>
    <3>1. queue' = Tail(queue) /\ UNCHANGED <<accepted, sendq, ppc>>
      BY <1>8, <2>4 DEF Receive, AdmitNone, AdmitParked
    <3>2. queue' \in Seq(Messages) /\ Len(queue') <= Capacity
      BY <2>1, <2>3, <3>1
    <3> QED
      BY <1>8, <2>2, <3>1, <3>2 DEF Receive, countVars
  <2>5. CASE sendq # <<>>
    <3> DEFINE p == Head(sendq)
               m == Message(p, offered[p])
    <3>1. p \in Producers /\ Tail(sendq) \in Seq(Producers)
      BY <2>5, HeadTailProperties
    <3>2. m \in Messages
      <4>1. 1 \in DOMAIN sendq /\ p = sendq[1]
        BY <2>5, EmptySeq, LenProperties
      <4> QED
        BY <3>1, <4>1, MessageType DEF ParkedHaveOffered
    <3>3. /\ queue' = Append(Tail(queue), m) /\ accepted' = Append(accepted, m)
          /\ sendq' = Tail(sendq) /\ ppc' = [ppc EXCEPT ![p] = "sent"]
      BY <1>8, <2>5 DEF Receive, AdmitParked
    <3>4. /\ queue' \in Seq(Messages) /\ Len(queue') = Len(queue)
          /\ accepted' \in Seq(Messages)
      BY <2>1, <2>3, <3>2, <3>3, AppendProperties
    <3> QED
      BY <1>8, <2>2, <3>1, <3>3, <3>4 DEF Receive, countVars
  <2> QED
    BY <2>4, <2>5
<1>9. CASE Handled
  <2>1. finished' \in Seq(Messages)
    BY <1>9, ConcatProperties DEF Handled
  <2>2. hand' \in Seq(Messages) /\ Len(hand') <= 1 /\ wlen' \in Nat
    BY <1>9, EmptySeq, LenProperties DEF Handled
  <2> QED
    BY <1>9, <2>1, <2>2 DEF Handled, chanVars, prodVars
<1>10. CASE WorkerPublish
  BY <1>10 DEF WorkerPublish, chanVars, prodVars, countVars, histVars
<1>11. CASE WorkerExit
  BY <1>11 DEF WorkerExit, chanVars, prodVars, countVars, histVars
<1>12. CASE Close
  <2>1. sendq' \in Seq(Producers)
    BY <1>12, EmptySeq DEF Close, CloseChannel
  <2> QED
    BY <1>12, <2>1 DEF Close, CloseChannel, workVars, countVars, histVars
<1>13. CASE CloseReturn
  BY <1>13 DEF CloseReturn, chanVars, prodVars, workVars, countVars, histVars
<1>14. CASE UNCHANGED vars
  BY <1>14 DEF vars, chanVars, prodVars, workVars, countVars, histVars
<1> QED
  BY <1>1, <1>2, <1>3, <1>4, <1>5, <1>6, <1>7, <1>8, <1>9, <1>10, <1>11, <1>12,
     <1>13, <1>14 DEF Next, Producer, Enqueue, Worker, Ended

\* Steps that touch neither the channel's contents nor the histories.
LEMMA QuietFifo ==
  ASSUME Fifo, UNCHANGED <<queue, hand, accepted, finished>>
  PROVE  Fifo'
  BY DEF Fifo

\* Fifo survives every step: a message enters at the end, moves from the queue
\* to the hand and from the hand to the finished ones, and never leaves.
LEMMA NextFifo == IInv /\ [Next]_vars => Fifo'
<1> SUFFICES ASSUME IInv, [Next]_vars PROVE Fifo'
  OBVIOUS
<1>t. /\ queue \in Seq(Messages) /\ hand \in Seq(Messages)
      /\ finished \in Seq(Messages) /\ accepted \in Seq(Messages)
  BY DEF IInv, TypeOK
<1>f. accepted = (finished \o hand) \o queue
  BY DEF IInv, Fifo
<1>1. ASSUME NEW p \in Producers, Send(p) PROVE Fifo'
  <2> DEFINE m == Message(p, offered[p] + 1)
  <2>1. offered[p] + 1 \in 1..MaxOffers
    BY <1>1, MaxOffersAssumption DEF Send, Calls, IInv, TypeOK
  <2>2. m \in Messages
    BY <2>1, MessageType
  <2>3. finished \o hand \in Seq(Messages)
    BY <1>t, ConcatProperties
  <2>4. (finished \o hand) \o Append(queue, m) = Append((finished \o hand) \o queue, m)
    BY <1>t, <2>2, <2>3, AppendToLast
  <2>5. /\ queue' = Append(queue, m) /\ accepted' = Append(accepted, m)
        /\ hand' = hand /\ finished' = finished
    BY <1>1 DEF Send, workVars
  <2> QED
    BY <1>f, <2>4, <2>5 DEF Fifo
<1>2. CASE Receive
  <2>1. hand = <<>> /\ queue # <<>> /\ hand' = <<Head(queue)>> /\ finished' = finished
    BY <1>2 DEF Receive, IInv, ControlInv
  <2>2. accepted = finished \o queue
    BY <1>t, <1>f, <2>1, ConcatEmptySeq
  <2>3. (finished \o hand') \o Tail(queue) = accepted
    BY <1>t, <2>1, <2>2, MoveHead
  <2>4. CASE sendq = <<>>
    BY <1>2, <2>1, <2>3, <2>4 DEF Receive, AdmitNone, AdmitParked, Fifo
  <2>5. CASE sendq # <<>>
    <3> DEFINE p == Head(sendq)
               m == Message(p, offered[p])
    <3>1. queue' = Append(Tail(queue), m) /\ accepted' = Append(accepted, m)
      BY <1>2, <2>5 DEF Receive, AdmitParked
    <3>2. m \in Messages
      <4>1. p \in Producers /\ 1 \in DOMAIN sendq /\ p = sendq[1]
        BY <2>5, HeadTailProperties, EmptySeq, LenProperties DEF IInv, TypeOK
      <4> QED
        BY <4>1, MessageType DEF IInv, ParkedHaveOffered
    <3>3. Tail(queue) \in Seq(Messages) /\ hand' \in Seq(Messages)
      BY <1>t, <2>1, HeadTailProperties, Singleton
    <3>4. finished \o hand' \in Seq(Messages)
      BY <1>t, <3>3, ConcatProperties
    <3>5. (finished \o hand') \o Append(Tail(queue), m)
            = Append((finished \o hand') \o Tail(queue), m)
      BY <3>2, <3>3, <3>4, AppendToLast
    <3> QED
      BY <2>1, <2>3, <3>1, <3>5 DEF Fifo
  <2> QED
    BY <2>4, <2>5
<1>3. CASE Handled
  <2>1. /\ finished' = finished \o hand /\ hand' = <<>>
        /\ queue' = queue /\ accepted' = accepted
    BY <1>3 DEF Handled, chanVars
  <2>2. finished' \o hand' = finished \o hand
    BY <1>t, <2>1, ConcatProperties, ConcatEmptySeq
  <2> QED
    BY <1>f, <2>1, <2>2 DEF Fifo
<1>4. ASSUME UNCHANGED <<queue, hand, accepted, finished>> PROVE Fifo'
  BY <1>4, QuietFifo DEF IInv
<1>5. ASSUME NEW p \in Producers, Producer(p), ~Send(p) PROVE Fifo'
  BY <1>4, <1>5 DEF Producer, Enqueue, Park, Drop, SendOnClosed, Count, Publish,
     Panic, chanVars, prodVars, workVars, histVars
<1>6. CASE WorkerPublish \/ WorkerExit \/ Close \/ CloseReturn \/ UNCHANGED vars
  BY <1>4, <1>6 DEF WorkerPublish, WorkerExit, Close, CloseReturn, vars, chanVars,
     workVars, histVars
<1> QED
  BY <1>1, <1>2, <1>3, <1>5, <1>6 DEF Next, Worker, Ended

\* Sends come from an open channel with room, receives hand their slot to the
\* first waiter, and closing empties the wait list.
LEMMA NextParked == IInv /\ [Next]_vars => ParkedOnlyWhenFull'
<1> SUFFICES ASSUME IInv, [Next]_vars PROVE ParkedOnlyWhenFull'
  OBVIOUS
<1>t. /\ queue \in Seq(Messages) /\ Len(queue) \in Nat /\ Len(queue) <= Capacity
      /\ Capacity \in Nat
  BY CapacityPositive, LenProperties DEF IInv, TypeOK
<1>p. sendq # <<>> => Len(queue) = Capacity /\ ~closed
  BY DEF IInv, ParkedOnlyWhenFull
<1>1. ASSUME NEW p \in Producers, Send(p) PROVE ParkedOnlyWhenFull'
  BY <1>1, <1>t, <1>p DEF Send, HasRoom, ParkedOnlyWhenFull
<1>2. ASSUME NEW p \in Producers, Park(p) PROVE ParkedOnlyWhenFull'
  BY <1>2, <1>t DEF Park, HasRoom, ParkedOnlyWhenFull
<1>3. CASE Receive
  <2>1. CASE sendq = <<>>
    BY <1>3, <2>1 DEF Receive, AdmitNone, AdmitParked, ParkedOnlyWhenFull
  <2>2. CASE sendq # <<>>
    <3> DEFINE p == Head(sendq)
               m == Message(p, offered[p])
    <3>1. queue' = Append(Tail(queue), m) /\ closed' = closed
      BY <1>3, <2>2 DEF Receive, AdmitParked
    <3>2. m \in Messages
      <4>1. p \in Producers /\ 1 \in DOMAIN sendq /\ p = sendq[1]
        BY <2>2, HeadTailProperties, EmptySeq, LenProperties DEF IInv, TypeOK
      <4> QED
        BY <4>1, MessageType DEF IInv, ParkedHaveOffered
    <3>3. Tail(queue) \in Seq(Messages) /\ Len(Tail(queue)) = Len(queue) - 1
      BY <1>3, <1>t, HeadTailProperties DEF Receive
    <3>4. Len(queue') = Len(queue)
      BY <1>t, <3>1, <3>2, <3>3, AppendProperties
    <3> QED
      BY <1>p, <2>2, <3>1, <3>4 DEF ParkedOnlyWhenFull
  <2> QED
    BY <2>1, <2>2
<1>4. CASE Close
  BY <1>4 DEF Close, CloseChannel, ParkedOnlyWhenFull
<1>5. ASSUME UNCHANGED chanVars PROVE ParkedOnlyWhenFull'
  BY <1>5, <1>p DEF chanVars, ParkedOnlyWhenFull
<1>6. ASSUME NEW p \in Producers, Producer(p), ~Send(p), ~Park(p)
      PROVE  ParkedOnlyWhenFull'
  BY <1>5, <1>6 DEF Producer, Enqueue, Drop, SendOnClosed, Count, Publish, Panic
<1>7. CASE Handled \/ WorkerPublish \/ WorkerExit \/ CloseReturn \/ UNCHANGED vars
  BY <1>5, <1>7 DEF Handled, WorkerPublish, WorkerExit, CloseReturn, vars
<1> QED
  BY <1>1, <1>2, <1>3, <1>4, <1>6, <1>7 DEF Next, Worker, Ended

\* Only producers that have made a call enter the wait list.
LEMMA NextParkedHaveOffered == IInv /\ [Next]_vars => ParkedHaveOffered'
<1> SUFFICES ASSUME IInv, [Next]_vars PROVE ParkedHaveOffered'
  OBVIOUS
<1>t. /\ sendq \in Seq(Producers) /\ offered \in [Producers -> 0..MaxOffers]
      /\ MaxOffers \in Nat
  BY MaxOffersAssumption DEF IInv, TypeOK
<1>p. \A i \in DOMAIN sendq : sendq[i] \in Producers /\ offered[sendq[i]] \in 1..MaxOffers
  BY <1>t, ElementOfSeq, LenProperties DEF IInv, ParkedHaveOffered
<1>1. ASSUME NEW p \in Producers, Calls(p)
      PROVE  /\ offered'[p] \in 1..MaxOffers
             /\ \A q \in Producers : offered[q] \in 1..MaxOffers => offered'[q] \in 1..MaxOffers
  BY <1>1, <1>t DEF Calls
<1>2. ASSUME NEW p \in Producers, Calls(p), sendq' = sendq PROVE ParkedHaveOffered'
  BY <1>1, <1>2, <1>p DEF ParkedHaveOffered
<1>3. ASSUME NEW p \in Producers, Park(p) PROVE ParkedHaveOffered'
  <2>1. /\ DOMAIN sendq' = 1..(Len(sendq) + 1) /\ Len(sendq) \in Nat
        /\ DOMAIN sendq = 1..Len(sendq)
        /\ \A i \in 1..Len(sendq) : sendq'[i] = sendq[i]
        /\ sendq'[Len(sendq) + 1] = p
    BY <1>3, <1>t, AppendProperties, LenProperties DEF Park
  <2>2. ASSUME NEW i \in DOMAIN sendq' PROVE offered'[sendq'[i]] \in 1..MaxOffers
    <3>1. CASE i = Len(sendq) + 1
      BY <1>1, <1>3, <2>1, <3>1 DEF Park
    <3>2. CASE i \in 1..Len(sendq)
      BY <1>1, <1>3, <1>p, <2>1, <3>2 DEF Park
    <3> QED
      BY <2>1, <2>2, <3>1, <3>2
  <2> QED
    BY <2>2 DEF ParkedHaveOffered
<1>4. CASE Receive
  <2>1. offered' = offered
    BY <1>4 DEF Receive
  <2>2. CASE sendq = <<>>
    BY <1>4, <1>p, <2>1, <2>2 DEF Receive, AdmitNone, AdmitParked, ParkedHaveOffered
  <2>3. CASE sendq # <<>>
    <3>1. sendq' = Tail(sendq)
      BY <1>4, <2>3 DEF Receive, AdmitParked
    <3>2. /\ Tail(sendq) \in Seq(Producers) /\ Len(Tail(sendq)) = Len(sendq) - 1
          /\ \A i \in 1..Len(Tail(sendq)) : Tail(sendq)[i] = sendq[i + 1]
      BY <1>t, <2>3, HeadTailProperties
    <3>3. /\ DOMAIN sendq = 1..Len(sendq) /\ Len(sendq) \in Nat
          /\ DOMAIN Tail(sendq) = 1..Len(Tail(sendq))
      BY <1>t, <3>2, LenProperties
    <3>4. ASSUME NEW i \in DOMAIN Tail(sendq)
          PROVE  offered[Tail(sendq)[i]] \in 1..MaxOffers
      BY <1>p, <3>2, <3>3
    <3> QED
      BY <2>1, <3>1, <3>4 DEF ParkedHaveOffered
  <2> QED
    BY <2>2, <2>3
<1>5. CASE Close
  BY <1>5 DEF Close, CloseChannel, ParkedHaveOffered
<1>6. ASSUME UNCHANGED <<sendq, offered>> PROVE ParkedHaveOffered'
  BY <1>6, <1>p DEF ParkedHaveOffered
<1>7. ASSUME NEW p \in Producers, Enqueue(p) PROVE ParkedHaveOffered'
  BY <1>2, <1>3, <1>7 DEF Enqueue, Send, Drop, SendOnClosed, chanVars
<1>8. ASSUME NEW p \in Producers, Count(p) \/ Publish(p) \/ Panic(p)
      PROVE  ParkedHaveOffered'
  BY <1>6, <1>8 DEF Count, Publish, Panic, chanVars, prodVars
<1>9. CASE Handled \/ WorkerPublish \/ WorkerExit \/ CloseReturn \/ UNCHANGED vars
  BY <1>6, <1>9 DEF Handled, WorkerPublish, WorkerExit, CloseReturn, vars, chanVars,
     prodVars
<1> QED
  BY <1>4, <1>5, <1>7, <1>8, <1>9 DEF Next, Producer, Worker, Ended

\* The worker leaves only when the closed channel is empty, and nothing enters
\* a closed channel afterwards.
LEMMA NextControl == IInv /\ [Next]_vars => ControlInv'
<1> SUFFICES ASSUME IInv, [Next]_vars PROVE ControlInv'
  OBVIOUS
<1> USE DEF ControlInv
<1>c. ControlInv /\ cpc \in CloserStates
  BY DEF IInv, TypeOK
<1>1. ASSUME NEW p \in Producers, Enqueue(p) PROVE ControlInv'
  BY <1>1, <1>c DEF Enqueue, Send, Park, Drop, SendOnClosed, chanVars, workVars
<1>2. ASSUME NEW p \in Producers, Count(p) \/ Publish(p) \/ Panic(p) PROVE ControlInv'
  BY <1>2, <1>c DEF Count, Publish, Panic, chanVars, prodVars, workVars
<1>3. CASE Receive
  BY <1>3, <1>c DEF Receive
<1>4. CASE Handled
  BY <1>4, <1>c DEF Handled, chanVars
<1>5. CASE WorkerPublish \/ WorkerExit
  BY <1>5, <1>c DEF WorkerPublish, WorkerExit, RangeEnds, chanVars
<1>6. CASE Close \/ CloseReturn
  BY <1>6, <1>c DEF Close, CloseChannel, CloseReturn, WorkerGone, CloserStates, chanVars,
     workVars
<1>7. CASE UNCHANGED vars
  BY <1>7, <1>c DEF vars, chanVars, workVars
<1> QED
  BY <1>1, <1>2, <1>3, <1>4, <1>5, <1>6, <1>7 DEF Next, Producer, Worker, Ended

\* The inductive invariant holds in every reachable state.
THEOREM Invariance == Spec => []IInv
<1>1. Init => IInv
  BY InitInv
<1>2. IInv /\ [Next]_vars => IInv'
  BY NextTypeOK, NextFifo, NextParked, NextParkedHaveOffered, NextControl DEF IInv
<1> QED
  BY <1>1, <1>2, PTL DEF Spec

-----------------------------------------------------------------------------
(* The properties the runs check, for every value of the constants         *)

\* BaseAsyncSink keeps its variables in their types; the channel's buffer
\* (base.go:79) never outgrows its capacity.
THEOREM TypeCorrect == Spec => []TypeOK
<1>1. IInv => TypeOK
  BY DEF IInv
<1> QED
  BY <1>1, Invariance, PTL

\* No accepted message is lost, duplicated or reordered between Enqueue and
\* the worker's callback (base.go:92-98, 106-126).
THEOREM FifoOrder == Spec => []Fifo
<1>1. IInv => Fifo
  BY DEF IInv
<1> QED
  BY <1>1, Invariance, PTL

\* Close returns only when every accepted message went through the callback
\* (base.go:128-133).
THEOREM CloseDrains == Spec => []DrainedOnClose
<1>1. IInv => DrainedOnClose
  <2> SUFFICES ASSUME IInv, cpc = "returned"
               PROVE  finished = accepted /\ hand = <<>> /\ queue = <<>>
    BY DEF DrainedOnClose
  <2>1. hand = <<>> /\ queue = <<>>
    BY DEF IInv, ControlInv
  <2>2. finished \in Seq(Messages) /\ accepted = (finished \o hand) \o queue
    BY DEF IInv, TypeOK, Fifo
  <2>3. (finished \o <<>>) \o <<>> = finished
    BY <2>2, ConcatEmptySeq
  <2> QED
    BY <2>1, <2>2, <2>3
<1> QED
  BY <1>1, Invariance, PTL

-----------------------------------------------------------------------------
(* The order of each producer's messages                                   *)

\* The wait list holds each parked producer once.
WaitInv ==
    /\ \A i \in DOMAIN sendq : ppc[sendq[i]] = "parked"
    /\ \A i, j \in DOMAIN sendq : sendq[i] = sendq[j] => i = j

\* An accepted message is one its producer has offered, and an earlier one than
\* the message a parked producer holds.
EarlierInv ==
    \A k \in DOMAIN accepted :
        LET m == accepted[k]
        IN  /\ m.seq <= offered[m.from]
            /\ ppc[m.from] = "parked" => m.seq < offered[m.from]

\* The channel takes each producer's messages in the order it offered them.
AcceptedInv ==
    \A i, j \in DOMAIN accepted :
        i < j /\ accepted[i].from = accepted[j].from => accepted[i].seq < accepted[j].seq

OfferInv == WaitInv /\ EarlierInv /\ AcceptedInv

\* What the finished messages are is a beginning of what was accepted.
LEMMA AcceptedInOrder == IInv /\ OfferInv => OfferOrder
<1> SUFFICES ASSUME IInv, OfferInv, NEW i \in 1..Len(finished), NEW j \in 1..Len(finished),
                    i < j, finished[i].from = finished[j].from
             PROVE  finished[i].seq < finished[j].seq
  BY DEF OfferOrder
<1>1. /\ queue \in Seq(Messages) /\ hand \in Seq(Messages) /\ finished \in Seq(Messages)
      /\ accepted = (finished \o hand) \o queue
  BY DEF IInv, TypeOK, Fifo
<1> DEFINE r == finished \o hand
<1>2. /\ r \in Seq(Messages) /\ Len(r) = Len(finished) + Len(hand)
      /\ \A k \in 1..(Len(finished) + Len(hand)) :
           r[k] = IF k <= Len(finished) THEN finished[k] ELSE hand[k - Len(finished)]
  BY <1>1, ConcatProperties
<1>3. /\ accepted \in Seq(Messages) /\ Len(accepted) = Len(r) + Len(queue)
      /\ \A k \in 1..(Len(r) + Len(queue)) :
           accepted[k] = IF k <= Len(r) THEN r[k] ELSE queue[k - Len(r)]
  BY <1>1, <1>2, ConcatProperties
<1>4. /\ Len(finished) \in Nat /\ Len(hand) \in Nat /\ Len(queue) \in Nat /\ Len(r) \in Nat
      /\ DOMAIN accepted = 1..Len(accepted)
  BY <1>1, <1>2, <1>3, LenProperties
<1> HIDE DEF r
<1>5. ASSUME NEW k \in 1..Len(finished)
      PROVE  k \in DOMAIN accepted /\ accepted[k] = finished[k]
  <2>1. k \in 1..Len(r) /\ r[k] = finished[k]
    BY <1>2, <1>4
  <2> QED
    BY <1>3, <1>4, <2>1
<1>6. /\ i \in DOMAIN accepted /\ accepted[i] = finished[i]
      /\ j \in DOMAIN accepted /\ accepted[j] = finished[j]
  BY <1>5
<1> QED
  BY <1>6 DEF OfferInv, AcceptedInv

\* The fields of what is in the channel's history.
LEMMA AcceptedFields ==
  ASSUME IInv, NEW k \in DOMAIN accepted
  PROVE  accepted[k].from \in Producers /\ accepted[k].seq \in Nat
<1>1. accepted[k] \in Messages
  BY ElementOfSeq, LenProperties DEF IInv, TypeOK
<1> QED
  BY <1>1, MaxOffersAssumption DEF Messages

\* Without a new message, producers offer more and nobody starts to wait with
\* what it has offered before.
LEMMA EarlierKept ==
  ASSUME IInv, IInv', OfferInv, UNCHANGED accepted,
         \A q \in Producers :
            /\ offered[q] <= offered'[q]
            /\ ppc'[q] = "parked" => ppc[q] = "parked" \/ offered[q] < offered'[q]
  PROVE  EarlierInv' /\ AcceptedInv'
<1>1. AcceptedInv'
  BY DEF OfferInv, AcceptedInv
<1> SUFFICES ASSUME NEW k \in DOMAIN accepted
             PROVE  /\ accepted[k].seq <= offered'[accepted[k].from]
                    /\ ppc'[accepted[k].from] = "parked" =>
                         accepted[k].seq < offered'[accepted[k].from]
  BY <1>1 DEF EarlierInv
<1> DEFINE q == accepted[k].from
           n == accepted[k].seq
<1>2. q \in Producers /\ n \in Nat
  BY AcceptedFields
<1>3. n <= offered[q] /\ (ppc[q] = "parked" => n < offered[q])
  BY DEF OfferInv, EarlierInv
<1>t. offered \in [Producers -> 0..MaxOffers] /\ offered' \in [Producers -> 0..MaxOffers]
  BY DEF IInv, TypeOK
<1>4. offered[q] \in Nat /\ offered'[q] \in Nat
  <2>1. \A f \in [Producers -> 0..MaxOffers] : f[q] \in Nat
    BY <1>2, MaxOffersAssumption
  <2> QED
    BY <1>t, <2>1
<1>5. /\ offered[q] <= offered'[q]
      /\ ppc'[q] = "parked" => ppc[q] = "parked" \/ offered[q] < offered'[q]
  BY <1>2
<1> HIDE DEF q, n
<1>6. n <= offered'[q] /\ (ppc'[q] = "parked" => n < offered'[q])
  BY <1>2, <1>3, <1>4, <1>5
<1> QED
  BY <1>6 DEF q, n

\* A message enters the channel with a number above all its producer's earlier ones.
LEMMA EarlierExtended ==
  ASSUME IInv, IInv', OfferInv, NEW p \in Producers, NEW n \in 1..MaxOffers,
         accepted' = Append(accepted, Message(p, n)),
         n = offered'[p],
         \A k \in DOMAIN accepted : accepted[k].from = p => accepted[k].seq < n,
         ppc'[p] # "parked",
         \A q \in Producers : q # p => offered'[q] = offered[q] /\ ppc'[q] = ppc[q]
  PROVE  EarlierInv' /\ AcceptedInv'
<1> DEFINE m == Message(p, n)
           l == Len(accepted)
<1>1. m \in Messages /\ m.from = p /\ m.seq = n /\ n \in Nat
  BY MessageType, MaxOffersAssumption DEF Message
<1>2. /\ l \in Nat /\ DOMAIN accepted = 1..l /\ DOMAIN accepted' = 1..(l + 1)
      /\ \A k \in 1..l : accepted'[k] = accepted[k]
      /\ accepted'[l + 1] = m
  <2>1. accepted \in Seq(Messages)
    BY DEF IInv, TypeOK
  <2>2. accepted' = Append(accepted, m)
    OBVIOUS
  <2> HIDE DEF m
  <2> QED
    BY <1>1, <2>1, <2>2, AppendProperties, LenProperties
<1>3. ASSUME NEW k \in 1..l
      PROVE  /\ accepted[k].from \in Producers /\ accepted[k].seq \in Nat
             /\ accepted[k].seq <= offered[accepted[k].from]
             /\ ppc[accepted[k].from] = "parked" =>
                  accepted[k].seq < offered[accepted[k].from]
             /\ accepted[k].from = p => accepted[k].seq < n
  BY <1>2, AcceptedFields DEF OfferInv, EarlierInv
<1> HIDE DEF m, l
<1>4. ASSUME NEW k \in 1..(l + 1)
      PROVE  /\ accepted'[k].seq <= offered'[accepted'[k].from]
             /\ ppc'[accepted'[k].from] = "parked" =>
                  accepted'[k].seq < offered'[accepted'[k].from]
  <2>1. CASE k = l + 1
    BY <1>1, <1>2, <2>1
  <2>2. CASE k \in 1..l /\ accepted[k].from = p
    BY <1>1, <1>2, <1>3, <2>2
  <2>3. CASE k \in 1..l /\ accepted[k].from # p
    BY <1>2, <1>3, <2>3
  <2>4. k = l + 1 \/ k \in 1..l
    BY <1>2
  <2> QED
    BY <2>1, <2>2, <2>3, <2>4
<1>5. ASSUME NEW i \in 1..(l + 1), NEW j \in 1..(l + 1), i < j,
             accepted'[i].from = accepted'[j].from
      PROVE  accepted'[i].seq < accepted'[j].seq
  <2>1. i \in 1..l /\ (j = l + 1 \/ j \in 1..l)
    BY <1>2, <1>5
  <2>2. CASE j = l + 1
    BY <1>1, <1>2, <1>3, <1>5, <2>1, <2>2
  <2>3. CASE j \in 1..l
    BY <1>2, <1>5, <2>1, <2>3 DEF OfferInv, AcceptedInv
  <2> QED
    BY <2>1, <2>2, <2>3
<1> QED
  BY <1>2, <1>4, <1>5 DEF EarlierInv, AcceptedInv

\* A receive that admits nobody, and every other step that leaves the wait list
\* alone, keeps its members parked.
LEMMA WaitKept ==
  ASSUME IInv, OfferInv, UNCHANGED sendq,
         \A q \in Producers : ppc[q] = "parked" => ppc'[q] = "parked"
  PROVE  WaitInv'
<1>1. \A i \in DOMAIN sendq : sendq[i] \in Producers
  BY ElementOfSeq, LenProperties DEF IInv, TypeOK
<1> QED
  BY <1>1 DEF OfferInv, WaitInv

\* The send of a producer that need not wait.
LEMMA SendOffers ==
  ASSUME IInv, IInv', OfferInv, NEW p \in Producers, Send(p)
  PROVE  OfferInv'
<1> DEFINE n == offered[p] + 1
<1>t. /\ offered \in [Producers -> 0..MaxOffers] /\ ppc \in [Producers -> ProducerStates]
      /\ MaxOffers \in Nat
  BY MaxOffersAssumption DEF IInv, TypeOK
<1>1. /\ ppc[p] = "idle" /\ offered[p] < MaxOffers
      /\ offered' = [offered EXCEPT ![p] = @ + 1]
      /\ accepted' = Append(accepted, Message(p, n))
      /\ ppc' = [ppc EXCEPT ![p] = "sent"] /\ UNCHANGED sendq
  BY DEF Send, Calls
<1>2. n \in 1..MaxOffers /\ n = offered'[p]
  BY <1>1, <1>t
<1>3. ASSUME NEW k \in DOMAIN accepted, accepted[k].from = p
      PROVE  accepted[k].seq < n
  <2>1. accepted[k].seq \in Nat /\ accepted[k].seq <= offered[p] /\ offered[p] \in Nat
    BY <1>3, <1>t, AcceptedFields DEF OfferInv, EarlierInv
  <2> QED
    BY <2>1
<1>4. \A q \in Producers : ppc[q] = "parked" => ppc'[q] = "parked"
  BY <1>1, <1>t
<1>5. ppc'[p] # "parked"
  BY <1>1, <1>t
<1>6. \A q \in Producers : q # p => offered'[q] = offered[q] /\ ppc'[q] = ppc[q]
  BY <1>1, <1>t
<1>7. accepted' = Append(accepted, Message(p, n))
  BY <1>1
<1> HIDE DEF n
<1>8. EarlierInv' /\ AcceptedInv'
  BY <1>2, <1>3, <1>5, <1>6, <1>7, EarlierExtended
<1>9. WaitInv'
  BY <1>1, <1>4, WaitKept
<1> QED
  BY <1>8, <1>9 DEF OfferInv

\* A producer parks with a message it has not offered before.
LEMMA ParkOffers ==
  ASSUME IInv, IInv', OfferInv, NEW p \in Producers, Park(p)
  PROVE  OfferInv'
<1>t. /\ offered \in [Producers -> 0..MaxOffers] /\ ppc \in [Producers -> ProducerStates]
      /\ MaxOffers \in Nat /\ sendq \in Seq(Producers)
  BY MaxOffersAssumption DEF IInv, TypeOK
<1>1. /\ ppc[p] = "idle" /\ offered' = [offered EXCEPT ![p] = @ + 1]
      /\ sendq' = Append(sendq, p) /\ ppc' = [ppc EXCEPT ![p] = "parked"]
      /\ UNCHANGED accepted
  BY DEF Park, Calls, histVars
<1>2. \A q \in Producers :
         /\ offered[q] <= offered'[q]
         /\ ppc'[q] = "parked" => ppc[q] = "parked" \/ offered[q] < offered'[q]
  BY <1>1, <1>t
<1>3. EarlierInv' /\ AcceptedInv'
  BY <1>1, <1>2, EarlierKept
<1>4. /\ DOMAIN sendq' = 1..(Len(sendq) + 1) /\ Len(sendq) \in Nat
      /\ DOMAIN sendq = 1..Len(sendq)
      /\ \A i \in 1..Len(sendq) : sendq'[i] = sendq[i]
      /\ sendq'[Len(sendq) + 1] = p
  BY <1>1, <1>t, AppendProperties, LenProperties
<1>5. ASSUME NEW i \in 1..Len(sendq)
      PROVE  sendq[i] \in Producers /\ ppc[sendq[i]] = "parked" /\ sendq[i] # p
  BY <1>1, <1>4, <1>t, ElementOfSeq DEF OfferInv, WaitInv
<1>6. \A i \in DOMAIN sendq' : ppc'[sendq'[i]] = "parked"
  BY <1>1, <1>4, <1>5, <1>t
<1>7. ASSUME NEW i \in DOMAIN sendq', NEW j \in DOMAIN sendq', sendq'[i] = sendq'[j]
      PROVE  i = j
  BY <1>4, <1>5, <1>7 DEF OfferInv, WaitInv
<1> QED
  BY <1>3, <1>6, <1>7 DEF OfferInv, WaitInv

\* The waiter a receive admits is the first, and it waited with its latest message.
LEMMA AdmitOffers ==
  ASSUME IInv, IInv', OfferInv, Receive, sendq # <<>>
  PROVE  OfferInv'
<1> DEFINE p == Head(sendq)
           n == offered[p]
<1>t. /\ offered \in [Producers -> 0..MaxOffers] /\ ppc \in [Producers -> ProducerStates]
      /\ MaxOffers \in Nat /\ sendq \in Seq(Producers)
  BY MaxOffersAssumption DEF IInv, TypeOK
<1>1. /\ accepted' = Append(accepted, Message(p, n)) /\ sendq' = Tail(sendq)
      /\ ppc' = [ppc EXCEPT ![p] = "sent"] /\ UNCHANGED offered
  BY DEF Receive, AdmitParked
<1>2. /\ Len(sendq) \in Nat /\ DOMAIN sendq = 1..Len(sendq)
      /\ 1 \in DOMAIN sendq /\ p = sendq[1] /\ p \in Producers
      /\ DOMAIN sendq' = 1..(Len(sendq) - 1)
      /\ \A i \in 1..(Len(sendq) - 1) : sendq'[i] = sendq[i + 1]
  BY <1>1, <1>t, HeadTailProperties, EmptySeq, LenProperties
<1>3. ppc[p] = "parked" /\ n \in 1..MaxOffers
  BY <1>2 DEF OfferInv, WaitInv, IInv, ParkedHaveOffered
<1>4. ASSUME NEW k \in DOMAIN accepted, accepted[k].from = p
      PROVE  accepted[k].seq < n
  BY <1>3, <1>4 DEF OfferInv, EarlierInv
<1>5. ppc'[p] # "parked" /\ n = offered'[p]
  BY <1>1, <1>2, <1>t
<1>6. \A q \in Producers : q # p => offered'[q] = offered[q] /\ ppc'[q] = ppc[q]
  BY <1>1, <1>t
<1> HIDE DEF p, n
<1>7. EarlierInv' /\ AcceptedInv'
  BY <1>1, <1>2, <1>3, <1>4, <1>5, <1>6, EarlierExtended
<1>8. ASSUME NEW i \in 1..(Len(sendq) - 1)
      PROVE  /\ i + 1 \in DOMAIN sendq /\ sendq'[i] = sendq[i + 1]
             /\ sendq[i + 1] \in Producers /\ sendq[i + 1] # p
             /\ ppc[sendq[i + 1]] = "parked"
  <2>1. i + 1 \in DOMAIN sendq /\ i + 1 # 1
    BY <1>2
  <2> QED
    BY <1>2, <1>t, <2>1, ElementOfSeq DEF OfferInv, WaitInv
<1>9. \A i \in DOMAIN sendq' : ppc'[sendq'[i]] = "parked"
  BY <1>1, <1>2, <1>8, <1>t
<1>10. ASSUME NEW i \in DOMAIN sendq', NEW j \in DOMAIN sendq', sendq'[i] = sendq'[j]
       PROVE  i = j
  <2>1. i \in 1..(Len(sendq) - 1) /\ j \in 1..(Len(sendq) - 1)
    BY <1>2, <1>10
  <2>2. /\ i + 1 \in DOMAIN sendq /\ j + 1 \in DOMAIN sendq
        /\ sendq[i + 1] = sendq[j + 1]
    BY <1>8, <1>10, <2>1
  <2>3. i + 1 = j + 1
    BY <2>2 DEF OfferInv, WaitInv
  <2> QED
    BY <2>1, <2>3
<1> QED
  BY <1>7, <1>9, <1>10 DEF OfferInv, WaitInv

\* Every step keeps the order.
LEMMA NextOffers == IInv /\ IInv' /\ OfferInv /\ [Next]_vars => OfferInv'
<1> SUFFICES ASSUME IInv, IInv', OfferInv, [Next]_vars PROVE OfferInv'
  OBVIOUS
<1>t. /\ offered \in [Producers -> 0..MaxOffers] /\ ppc \in [Producers -> ProducerStates]
      /\ MaxOffers \in Nat
  BY MaxOffersAssumption DEF IInv, TypeOK
<1>1. ASSUME UNCHANGED <<sendq, accepted>>,
             \A q \in Producers : /\ offered[q] <= offered'[q]
                                  /\ ppc'[q] = "parked" <=> ppc[q] = "parked"
      PROVE  OfferInv'
  BY <1>1, WaitKept, EarlierKept DEF OfferInv
<1>2. ASSUME UNCHANGED <<sendq, accepted, offered, ppc>> PROVE OfferInv'
  BY <1>2, <1>t, <1>1
<1>3. ASSUME NEW p \in Producers, Drop(p) \/ SendOnClosed(p) PROVE OfferInv'
  <2>1. /\ ppc[p] = "idle" /\ offered' = [offered EXCEPT ![p] = @ + 1]
        /\ ppc' = ppc \/ ppc' = [ppc EXCEPT ![p] = "panicking"]
        /\ UNCHANGED <<sendq, accepted>>
    BY <1>3 DEF Drop, SendOnClosed, Calls, chanVars, histVars
  <2> QED
    BY <1>1, <1>t, <2>1
<1>4. ASSUME NEW p \in Producers, Count(p) \/ Publish(p) PROVE OfferInv'
  <2>1. /\ ppc[p] \in {"sent", "measured"} /\ UNCHANGED <<offered, sendq, accepted>>
        /\ ppc' = [ppc EXCEPT ![p] = "measured"] \/ ppc' = [ppc EXCEPT ![p] = "idle"]
    BY <1>4 DEF Count, Publish, chanVars, histVars
  <2> QED
    BY <1>1, <1>t, <2>1
<1>5. ASSUME NEW p \in Producers, Panic(p) PROVE OfferInv'
  BY <1>2, <1>5 DEF Panic, chanVars, prodVars, histVars
<1>6. CASE Receive /\ sendq = <<>>
  BY <1>2, <1>6 DEF Receive, AdmitNone, AdmitParked
<1>7. CASE Handled \/ WorkerPublish \/ WorkerExit \/ CloseReturn \/ UNCHANGED vars
  BY <1>2, <1>7 DEF Handled, WorkerPublish, WorkerExit, CloseReturn, vars, chanVars,
     prodVars, histVars
<1>8. CASE Close
  <2>1. /\ sendq' = <<>> /\ UNCHANGED <<accepted, offered>>
        /\ ppc' = [p \in Producers |-> IF ppc[p] = "parked" THEN "panicking" ELSE ppc[p]]
    BY <1>8 DEF Close, CloseChannel, histVars
  <2>2. \A q \in Producers : offered[q] <= offered'[q] /\ ppc'[q] # "parked"
    BY <1>t, <2>1
  <2>3. EarlierInv' /\ AcceptedInv'
    BY <2>1, <2>2, EarlierKept
  <2>4. WaitInv'
    BY <2>1 DEF WaitInv
  <2> QED
    BY <2>3, <2>4 DEF OfferInv
<1>9. ASSUME NEW p \in Producers, Producer(p) PROVE OfferInv'
  BY <1>3, <1>4, <1>5, <1>9, SendOffers, ParkOffers DEF Producer, Enqueue
<1> QED
  BY <1>6, <1>7, <1>8, <1>9, AdmitOffers DEF Next, Worker, Ended

\* Nothing is offered yet.
LEMMA InitOffers == Init => OfferInv
<1> SUFFICES ASSUME Init PROVE OfferInv
  OBVIOUS
<1>1. DOMAIN sendq = {} /\ DOMAIN accepted = {}
  BY DEF Init
<1> QED
  BY <1>1 DEF OfferInv, WaitInv, EarlierInv, AcceptedInv

\* A producer's messages go through the callback in the order it offered them,
\* those that waited for room included (base.go:106-126).
THEOREM ProducersInOrder == Spec => []OfferOrder
<1>1. Init => OfferInv
  BY InitOffers
<1>2. IInv /\ IInv' /\ OfferInv /\ [Next]_vars => OfferInv'
  BY NextOffers
<1>3. IInv /\ OfferInv => OfferOrder
  BY AcceptedInOrder
<1> QED
  BY <1>1, <1>2, <1>3, Invariance, PTL DEF Spec

-----------------------------------------------------------------------------
(* The counters: sums over the producers                                       *)

\* What f counts for the members of s, one by one.
Units(f, s) == {u \in s \X Nat : u[2] \in 1..f[u[1]]}

\* There are finitely many units.
LEMMA UnitsFinite ==
  ASSUME NEW S, IsFiniteSet(S), NEW m \in Nat, NEW f \in [S -> 0..m], NEW s \in SUBSET S
  PROVE  IsFiniteSet(Units(f, s))
<1>1. IsFiniteSet(S \X (1..m))
  <2>1. IsFiniteSet(1..m)
    BY FS_Interval
  <2> QED
    BY <2>1, FS_Product
<1>2. Units(f, s) \in SUBSET (S \X (1..m))
  BY DEF Units
<1> QED
  BY <1>1, <1>2, FS_Subset

\* A member c brings f[c] units.
LEMMA UnitsOfOne ==
  ASSUME NEW S, IsFiniteSet(S), NEW m \in Nat, NEW f \in [S -> 0..m], NEW s \in SUBSET S,
         NEW c \in s
  PROVE  /\ Cardinality(Units(f, s)) = f[c] + Cardinality(Units(f, s \ {c}))
         /\ Cardinality(Units(f, s \ {c})) \in Nat
<1>1. /\ IsFiniteSet({c} \X (1..f[c])) /\ f[c] \in Nat
      /\ Cardinality({c} \X (1..f[c])) = f[c]
  <2>1. f[c] \in Nat
    OBVIOUS
  <2>2. ASSUME NEW n \in Nat PROVE IsFiniteSet(1..n) /\ Cardinality(1..n) = n
    <3>1. 1 \in Int /\ n \in Int
      OBVIOUS
    <3>2. /\ IsFiniteSet(1..n)
          /\ Cardinality(1..n) = IF 1 > n THEN 0 ELSE n - 1 + 1
      BY <3>1, FS_Interval, Zenon
    <3> QED
      BY <3>2
  <2>3. IsFiniteSet({c}) /\ Cardinality({c}) = 1
    BY FS_Singleton
  <2>4. /\ IsFiniteSet({c} \X (1..f[c]))
        /\ Cardinality({c} \X (1..f[c])) = Cardinality({c}) * Cardinality(1..f[c])
    BY <2>1, <2>2, <2>3, FS_Product
  <2> QED
    BY <2>1, <2>2, <2>3, <2>4
<1>2. IsFiniteSet(Units(f, s \ {c})) /\ Cardinality(Units(f, s \ {c})) \in Nat
  BY UnitsFinite, FS_CardinalityType
<1>3. Units(f, s) = ({c} \X (1..f[c])) \cup Units(f, s \ {c})
  BY <1>1 DEF Units
<1>4. ({c} \X (1..f[c])) \cap Units(f, s \ {c}) = {}
  BY DEF Units
<1>5. Cardinality({}) = 0
  BY FS_EmptySet
<1> DEFINE A == {c} \X (1..f[c])
           B == Units(f, s \ {c})
<1>6. Cardinality(A \cup B) = Cardinality(A) + Cardinality(B) - Cardinality(A \cap B)
  BY <1>1, <1>2, FS_Union
<1>7. Cardinality(A \cap B) = 0
  BY <1>4, <1>5
<1> QED
  BY <1>1, <1>2, <1>3, <1>6, <1>7

\* A sum is the number of its units.  The fold that defines it is a recursive
\* function on the subsets of S; the numbers of units solve its equation, and a
\* least subset on which another solution differs would be a contradiction.
LEMMA SumCountsUnits ==
  ASSUME NEW S, IsFiniteSet(S), NEW m \in Nat, NEW f \in [S -> 0..m]
  PROVE  MapThenSumSet(LAMBDA p : f[p], S) = Cardinality(Units(f, S))
<1> DEFINE Chosen(s) == CHOOSE x \in s : TRUE
           Card == [s \in SUBSET S |-> Cardinality(Units(f, s))]
           Sums(g) == g = [s \in SUBSET S |->
                             IF s = {} THEN 0
                             ELSE f[CHOOSE x \in s : TRUE] + g[s \ {CHOOSE x \in s : TRUE}]]
           iter == CHOOSE g : Sums(g)
<1>1. MapThenSumSet(LAMBDA p : f[p], S) = iter[S]
  BY DEF MapThenSumSet, MapThenFoldSet
<1>2. ASSUME NEW s \in SUBSET S, s # {}
      PROVE  /\ Chosen(s) \in s
             /\ Card[s] = f[Chosen(s)] + Card[s \ {Chosen(s)}]
  <2>1. Chosen(s) \in s
    BY <1>2
  <2> HIDE DEF Chosen
  <2> QED
    BY <2>1, UnitsOfOne
<1>3. Card[{}] = 0
  <2>1. Units(f, {}) = {}
    BY DEF Units
  <2> QED
    BY <2>1, FS_EmptySet
<1>4. Sums(Card)
  <2>1. \A s \in SUBSET S : Card[s] = IF s = {} THEN 0
                               ELSE f[Chosen(s)] + Card[s \ {Chosen(s)}]
    BY <1>2, <1>3
  <2> HIDE DEF Card, Chosen
  <2>2. Card = [s \in SUBSET S |-> Card[s]]
    BY DEF Card
  <2> QED
    BY <2>1, <2>2 DEF Chosen
<1>5. Sums(iter)
  <2> HIDE DEF Card, Sums
  <2> QED
    BY <1>4
<1>6. iter[S] = Card[S]
  <2> DEFINE Wrong == {s \in SUBSET S : iter[s] # Card[s]}
  <2> SUFFICES ASSUME Wrong # {} PROVE FALSE
    OBVIOUS
  <2>1. PICK s \in Wrong : \A r \in Wrong : r \subseteq s => r = s
    <3>1. Wrong \in SUBSET SUBSET S
      OBVIOUS
    <3> HIDE DEF Wrong
    <3> QED
      BY <3>1, SmallestSubset
  <2> HIDE DEF Card, iter
  <2>2. s # {}
    BY <1>3, <1>5, <2>1
  <2>3. Chosen(s) \in s /\ s \ {Chosen(s)} \notin Wrong
    BY <1>2, <2>1, <2>2
  <2>4. iter[s] = f[Chosen(s)] + iter[s \ {Chosen(s)}]
    BY <1>5, <2>1, <2>2
  <2> HIDE DEF Chosen
  <2> QED
    BY <1>2, <2>1, <2>2, <2>3, <2>4
<1> QED
  BY <1>1, <1>6

\* One more of one member is one more in the sum.
LEMMA AddUnit ==
  ASSUME NEW S, IsFiniteSet(S), NEW m \in Nat, NEW f \in [S -> 0..m], NEW p \in S, f[p] < m
  PROVE  LET h == [f EXCEPT ![p] = @ + 1]
         IN  MapThenSumSet(LAMBDA q : h[q], S) = MapThenSumSet(LAMBDA q : f[q], S) + 1
<1> DEFINE h == [f EXCEPT ![p] = @ + 1]
<1>1. h \in [S -> 0..m]
  OBVIOUS
<1>2. Units(h, S) = Units(f, S) \cup {<<p, f[p] + 1>>} /\ <<p, f[p] + 1>> \notin Units(f, S)
  BY DEF Units
<1>3. IsFiniteSet(Units(f, S))
  BY UnitsFinite
<1>4. Cardinality(Units(h, S)) = Cardinality(Units(f, S)) + 1
  BY <1>2, <1>3, FS_AddElement
<1> HIDE DEF h
<1>5. MapThenSumSet(LAMBDA q : h[q], S) = Cardinality(Units(h, S))
  BY <1>1, SumCountsUnits
<1>6. MapThenSumSet(LAMBDA q : f[q], S) = Cardinality(Units(f, S))
  BY SumCountsUnits
<1> QED
  BY <1>4, <1>5, <1>6 DEF h

\* A sum of zeros has no units.
LEMMA SumOfZeros ==
  ASSUME NEW S, IsFiniteSet(S), NEW f \in [S -> 0..0]
  PROVE  MapThenSumSet(LAMBDA q : f[q], S) = 0
<1>1. Units(f, S) = {}
  BY DEF Units
<1>2. MapThenSumSet(LAMBDA q : f[q], S) = Cardinality(Units(f, S))
  <2>1. 0 \in Nat
    OBVIOUS
  <2> QED
    BY <2>1, SumCountsUnits
<1> QED
  BY <1>1, <1>2, FS_EmptySet

\* The parts of MetricsAccount: calls made, and the producers between the
\* channel and the counter and between the call and a counter.
CallsMade(f) == MapThenSumSet(LAMBDA p : f[p], Producers)
Uncounted == {p \in Producers : ppc[p] \in {"sent"}}
Within == {p \in Producers : ppc[p] \in {"sent", "parked", "panicking"}}
Accounts ==
    /\ enqueued + Cardinality(Uncounted) = Len(accepted)
    /\ CallsMade(offered) = enqueued + dropped + Cardinality(Within)

LEMMA AccountsNow == MetricsAccount <=> Accounts
  BY DEF MetricsAccount, Accounts, CallsMade, Uncounted, Within

LEMMA CallsNext == CallsMade(offered)' = CallsMade(offered')
  BY DEF CallsMade, MapThenSumSet, MapThenFoldSet

\* Counting one producer more or less.
LEMMA CountProducers ==
  ASSUME NEW T \in SUBSET Producers
  PROVE  /\ Cardinality(T) \in Nat
         /\ \A p \in Producers : /\ p \notin T => Cardinality(T \cup {p}) = Cardinality(T) + 1
                                 /\ p \in T => Cardinality(T \ {p}) = Cardinality(T) - 1
<1>1. IsFiniteSet(T)
  BY ProducersAssumption, FS_Subset
<1> QED
  BY <1>1, FS_CardinalityType, FS_AddElement, FS_RemoveElement

\* A call makes one call more.
LEMMA CallCounts ==
  ASSUME IInv, NEW p \in Producers, Calls(p)
  PROVE  CallsMade(offered)' = CallsMade(offered) + 1
<1>1. /\ offered \in [Producers -> 0..MaxOffers] /\ offered[p] < MaxOffers
      /\ offered' = [offered EXCEPT ![p] = @ + 1] /\ MaxOffers \in Nat
      /\ IsFiniteSet(Producers)
  BY MaxOffersAssumption, ProducersAssumption DEF IInv, TypeOK, Calls
<1>2. CallsMade([offered EXCEPT ![p] = @ + 1]) = CallsMade(offered) + 1
  BY <1>1, AddUnit DEF CallsMade
<1> QED
  BY <1>1, <1>2, CallsNext

LEMMA InitAccounts == Init => Accounts
<1> SUFFICES ASSUME Init PROVE Accounts
  OBVIOUS
<1>1. offered \in [Producers -> 0..0] /\ IsFiniteSet(Producers)
  BY ProducersAssumption DEF Init
<1>2. CallsMade(offered) = 0
  BY <1>1, SumOfZeros DEF CallsMade
<1>3. Uncounted = {} /\ Within = {}
  BY DEF Init, Uncounted, Within
<1>4. Cardinality({}) = 0 /\ Len(accepted) = 0
  BY FS_EmptySet DEF Init
<1> QED
  BY <1>2, <1>3, <1>4 DEF Accounts, Init

\* Every step keeps the accounts.
LEMMA NextAccounts == IInv /\ OfferInv /\ Accounts /\ [Next]_vars => Accounts'
<1> SUFFICES ASSUME IInv, OfferInv, Accounts, [Next]_vars PROVE Accounts'
  OBVIOUS
<1>t. /\ ppc \in [Producers -> ProducerStates] /\ accepted \in Seq(Messages)
      /\ sendq \in Seq(Producers) /\ enqueued \in Nat /\ dropped \in Nat
  BY DEF IInv, TypeOK
<1>a. /\ enqueued + Cardinality(Uncounted) = Len(accepted)
      /\ CallsMade(offered) = enqueued + dropped + Cardinality(Within)
  BY DEF Accounts
<1>c. Uncounted \in SUBSET Producers /\ Within \in SUBSET Producers
  BY DEF Uncounted, Within
<1>n. Cardinality(Uncounted) \in Nat /\ Cardinality(Within) \in Nat
  BY <1>c, CountProducers
<1>1. ASSUME NEW p \in Producers, Send(p) PROVE Accounts'
  <2>1. /\ Calls(p) /\ ppc[p] = "idle" /\ ppc' = [ppc EXCEPT ![p] = "sent"]
        /\ accepted' = Append(accepted, Message(p, offered[p] + 1))
        /\ UNCHANGED <<enqueued, dropped>>
    BY <1>1 DEF Send, Calls, countVars
  <2>2. /\ p \notin Uncounted /\ Uncounted' = Uncounted \cup {p}
        /\ p \notin Within /\ Within' = Within \cup {p}
    BY <1>t, <2>1 DEF Uncounted, Within
  <2>3. /\ Cardinality(Uncounted') = Cardinality(Uncounted) + 1
        /\ Cardinality(Within') = Cardinality(Within) + 1
    BY <1>c, <2>2, CountProducers
  <2>4. offered[p] + 1 \in 1..MaxOffers
    BY <2>1, MaxOffersAssumption DEF IInv, TypeOK, Calls
  <2>5. Len(accepted') = Len(accepted) + 1
    BY <1>t, <2>1, <2>4, MessageType, AppendProperties
  <2>6. CallsMade(offered)' = CallsMade(offered) + 1
    BY <2>1, CallCounts
  <2>7. enqueued' + Cardinality(Uncounted') = Len(accepted')
    BY <1>a, <1>n, <1>t, <2>1, <2>3, <2>5
  <2>8. CallsMade(offered)' = enqueued' + dropped' + Cardinality(Within')
    BY <1>a, <1>n, <1>t, <2>1, <2>3, <2>6
  <2> QED
    BY <2>7, <2>8 DEF Accounts
<1>2. ASSUME NEW p \in Producers, Park(p) \/ SendOnClosed(p) PROVE Accounts'
  <2>1. /\ Calls(p) /\ ppc[p] = "idle" /\ UNCHANGED <<accepted, enqueued, dropped>>
        /\ \/ ppc' = [ppc EXCEPT ![p] = "parked"]
           \/ ppc' = [ppc EXCEPT ![p] = "panicking"]
    BY <1>2 DEF Park, SendOnClosed, Calls, countVars, histVars
  <2>2. /\ Uncounted' = Uncounted
        /\ p \notin Within /\ Within' = Within \cup {p}
    BY <1>t, <2>1 DEF Uncounted, Within
  <2>3. Cardinality(Within') = Cardinality(Within) + 1
    BY <1>c, <2>2, CountProducers
  <2>4. CallsMade(offered)' = CallsMade(offered) + 1
    BY <2>1, CallCounts
  <2> QED
    BY <1>a, <1>n, <1>t, <2>1, <2>2, <2>3, <2>4 DEF Accounts
<1>3. ASSUME NEW p \in Producers, Drop(p) PROVE Accounts'
  <2>1. /\ Calls(p) /\ UNCHANGED <<ppc, accepted, enqueued>> /\ dropped' = dropped + 1
    BY <1>3 DEF Drop, CountDrop, Calls, histVars
  <2>2. Uncounted' = Uncounted /\ Within' = Within
    BY <2>1 DEF Uncounted, Within
  <2>3. CallsMade(offered)' = CallsMade(offered) + 1
    BY <2>1, CallCounts
  <2> QED
    BY <1>a, <1>n, <1>t, <2>1, <2>2, <2>3 DEF Accounts
<1>4. ASSUME NEW p \in Producers, Count(p) PROVE Accounts'
  <2>1. /\ ppc[p] = "sent" /\ ppc' = [ppc EXCEPT ![p] = "measured"]
        /\ enqueued' = enqueued + 1 /\ UNCHANGED <<accepted, offered, dropped>>
    BY <1>4 DEF Count, histVars
  <2>2. /\ p \in Uncounted /\ Uncounted' = Uncounted \ {p}
        /\ p \in Within /\ Within' = Within \ {p}
    BY <1>t, <2>1 DEF Uncounted, Within
  <2>3. /\ Cardinality(Uncounted') = Cardinality(Uncounted) - 1
        /\ Cardinality(Within') = Cardinality(Within) - 1
    BY <1>c, <2>2, CountProducers
  <2>4. CallsMade(offered)' = CallsMade(offered)
    BY <2>1, CallsNext
  <2>5. enqueued' + Cardinality(Uncounted') = Len(accepted')
    BY <1>a, <1>n, <1>t, <2>1, <2>3
  <2>6. CallsMade(offered)' = enqueued' + dropped' + Cardinality(Within')
    BY <1>a, <1>n, <1>t, <2>1, <2>3, <2>4
  <2> QED
    BY <2>5, <2>6 DEF Accounts
<1>5. ASSUME UNCHANGED <<accepted, offered, enqueued, dropped>>,
             Uncounted' = Uncounted, Within' = Within
      PROVE  Accounts'
  <2>1. CallsMade(offered)' = CallsMade(offered)
    BY <1>5, CallsNext
  <2> QED
    BY <1>5, <1>a, <2>1 DEF Accounts
<1>6. ASSUME UNCHANGED <<accepted, offered, enqueued, dropped, ppc>> PROVE Accounts'
  <2>1. Uncounted' = Uncounted /\ Within' = Within
    BY <1>6 DEF Uncounted, Within
  <2> QED
    BY <1>5, <1>6, <2>1
<1>7. ASSUME NEW p \in Producers, Publish(p) \/ Panic(p) PROVE Accounts'
  <2>1. /\ UNCHANGED <<accepted, offered, enqueued, dropped>>
        /\ \/ ppc' = ppc
           \/ ppc[p] = "measured" /\ ppc' = [ppc EXCEPT ![p] = "idle"]
    BY <1>7 DEF Publish, Panic, countVars, histVars, prodVars
  <2>2. Uncounted' = Uncounted /\ Within' = Within
    BY <1>t, <2>1 DEF Uncounted, Within
  <2> QED
    BY <1>5, <2>1, <2>2
<1>8. CASE Receive /\ sendq # <<>>
  <2> DEFINE p == Head(sendq)
             m == Message(p, offered[p])
  <2>1. /\ accepted' = Append(accepted, m) /\ ppc' = [ppc EXCEPT ![p] = "sent"]
        /\ UNCHANGED <<offered, enqueued, dropped>>
    BY <1>8 DEF Receive, AdmitParked, countVars
  <2>2. p \in Producers /\ 1 \in DOMAIN sendq /\ p = sendq[1]
    BY <1>8, <1>t, HeadTailProperties, EmptySeq, LenProperties
  <2>3. ppc[p] = "parked" /\ offered[p] \in 1..MaxOffers
    BY <2>2 DEF OfferInv, WaitInv, IInv, ParkedHaveOffered
  <2>4. m \in Messages
    BY <2>2, <2>3, MessageType
  <2> HIDE DEF p, m
  <2>5. Len(accepted') = Len(accepted) + 1
    BY <1>t, <2>1, <2>4, AppendProperties
  <2>6. p \notin Uncounted /\ Uncounted' = Uncounted \cup {p} /\ Within' = Within
    BY <1>t, <2>1, <2>2, <2>3 DEF Uncounted, Within
  <2>7. Cardinality(Uncounted') = Cardinality(Uncounted) + 1
    BY <1>c, <2>2, <2>6, CountProducers
  <2>8. CallsMade(offered)' = CallsMade(offered)
    BY <2>1, CallsNext
  <2> QED
    BY <1>a, <1>n, <1>t, <2>1, <2>5, <2>6, <2>7, <2>8 DEF Accounts
<1>9. CASE Receive /\ sendq = <<>>
  BY <1>6, <1>9 DEF Receive, AdmitNone, AdmitParked, countVars
<1>10. CASE Handled \/ WorkerPublish \/ WorkerExit \/ CloseReturn \/ UNCHANGED vars
  BY <1>6, <1>10 DEF Handled, WorkerPublish, WorkerExit, CloseReturn, vars, chanVars,
     prodVars, histVars, countVars
<1>11. CASE Close
  <2>1. /\ UNCHANGED <<accepted, offered, enqueued, dropped>>
        /\ ppc' = [p \in Producers |-> IF ppc[p] = "parked" THEN "panicking" ELSE ppc[p]]
    BY <1>11 DEF Close, CloseChannel, histVars, countVars
  <2>2. Uncounted' = Uncounted /\ Within' = Within
    BY <1>t, <2>1 DEF Uncounted, Within
  <2> QED
    BY <1>5, <2>1, <2>2
<1>12. ASSUME NEW p \in Producers, Producer(p) PROVE Accounts'
  BY <1>1, <1>2, <1>3, <1>4, <1>7, <1>12 DEF Producer, Enqueue
<1> QED
  BY <1>8, <1>9, <1>10, <1>11, <1>12 DEF Next, Worker, Ended

\* The metrics of base.go account for every call of Enqueue exactly once, at
\* every moment between the send, the counters and a panic (base.go:92-126).
THEOREM MetricsAreExact == Spec => []MetricsAccount
<1>1. Init => OfferInv
  BY InitOffers
<1>2. IInv /\ IInv' /\ OfferInv /\ [Next]_vars => OfferInv'
  BY NextOffers
<1>3. Init => Accounts
  BY InitAccounts
<1>4. IInv /\ OfferInv /\ Accounts /\ [Next]_vars => Accounts'
  BY NextAccounts
<1>5. Accounts => MetricsAccount
  BY AccountsNow
<1> QED
  BY <1>1, <1>2, <1>3, <1>4, <1>5, Invariance, PTL DEF Spec

-----------------------------------------------------------------------------
(* Refinement of the contract                                              *)

\* What the contract sees of the sink.
Inbox == hand \o queue
Phase == IF crashed THEN "aborted"
         ELSE IF cpc = "returned" THEN "stopped"
         ELSE IF closed THEN "sealed" ELSE "open"

\* A message enters the inbox of an open sink only below the contract's bound.
LEMMA EnterIsAccept ==
  ASSUME IInv, ~crashed, ~closed, Len(Inbox) <= Capacity,
         NEW m \in Messages, Inbox' = Append(Inbox, m),
         UNCHANGED <<finished, crashed, cpc, closed>>
  PROVE  Contract!Accept
<1>1. cpc = "open"
  BY DEF IInv, ControlInv
<1>2. Phase = "open" /\ Phase' = Phase
  BY <1>1 DEF Phase
<1>3. Inbox \in Seq(Messages)
  BY ConcatProperties DEF IInv, TypeOK, Inbox
<1>4. Len(Inbox) < Capacity + 1
  BY <1>3, CapacityPositive, LenProperties
<1> QED
  BY <1>2, <1>4 DEF Contract!Accept, Inbox, Phase

\* A send below the capacity adds at most to one message in the worker's hands.
LEMMA SendRefines ==
  ASSUME IInv, NEW p \in Producers, Send(p)
  PROVE  Contract!Accept
<1> DEFINE m == Message(p, offered[p] + 1)
<1>t. queue \in Seq(Messages) /\ hand \in Seq(Messages) /\ Len(hand) <= 1
  BY DEF IInv, TypeOK
<1>1. offered[p] + 1 \in 1..MaxOffers
  BY MaxOffersAssumption DEF Send, Calls, IInv, TypeOK
<1>2. m \in Messages
  BY <1>1, MessageType
<1>3. Inbox' = Append(Inbox, m)
  BY <1>t, <1>2, AppendToLast DEF Send, workVars, Inbox
<1>4. Len(Inbox) = Len(hand) + Len(queue) /\ Len(hand) \in Nat /\ Len(queue) \in Nat
  BY <1>t, ConcatProperties, LenProperties DEF Inbox
<1>5. Len(Inbox) <= Capacity
  BY <1>t, <1>4, CapacityPositive DEF Send, HasRoom
<1>6. ~crashed /\ ~closed /\ UNCHANGED <<finished, crashed, cpc, closed>>
  BY DEF Send, Calls
<1> QED
  BY <1>2, <1>3, <1>5, <1>6, EnterIsAccept

\* Taking a message in hand is invisible, unless it lets a waiter in.
LEMMA ReceiveRefines ==
  ASSUME IInv, Receive
  PROVE  [Contract!Next]_(Contract!vars)
<1>t. /\ queue \in Seq(Messages) /\ queue # <<>> /\ hand = <<>>
      /\ hand' = <<Head(queue)>>
      /\ ~crashed /\ UNCHANGED <<finished, crashed, cpc, closed>>
  BY DEF Receive, IInv, TypeOK, ControlInv
<1>1. Inbox = queue
  BY <1>t, ConcatEmptySeq DEF Inbox
<1>2. <<Head(queue)>> \o Tail(queue) = queue
  BY <1>t, HeadThenTail
<1>3. CASE sendq = <<>>
  <2>1. Inbox' = Inbox
    BY <1>3, <1>t, <1>1, <1>2 DEF Receive, AdmitNone, AdmitParked, Inbox
  <2> QED
    BY <1>t, <2>1 DEF Contract!vars, Inbox
<1>4. CASE sendq # <<>>
  <2> DEFINE p == Head(sendq)
             m == Message(p, offered[p])
  <2>1. queue' = Append(Tail(queue), m)
    BY <1>4 DEF Receive, AdmitParked
  <2>2. m \in Messages
    <3>1. p \in Producers /\ 1 \in DOMAIN sendq /\ p = sendq[1]
      BY <1>4, HeadTailProperties, EmptySeq, LenProperties DEF IInv, TypeOK
    <3> QED
      BY <3>1, MessageType DEF IInv, ParkedHaveOffered
  <2>3. Tail(queue) \in Seq(Messages) /\ <<Head(queue)>> \in Seq(Messages)
    BY <1>t, HeadTailProperties, Singleton
  <2>4. Inbox' = Append(Inbox, m)
    BY <1>t, <1>1, <1>2, <2>1, <2>2, <2>3, AppendToLast DEF Inbox
  <2>5. ~closed /\ Len(Inbox) <= Capacity
    BY <1>1, <1>4, CapacityPositive DEF IInv, ParkedOnlyWhenFull
  <2> QED
    BY <1>t, <2>2, <2>4, <2>5, EnterIsAccept DEF Contract!Next
<1> QED
  BY <1>3, <1>4

\* The callback's return finishes the oldest message of the inbox.
LEMMA HandledRefines ==
  ASSUME IInv, Handled
  PROVE  Contract!Finish
<1>t. /\ queue \in Seq(Messages) /\ hand \in Seq(Messages) /\ hand # <<>>
      /\ Len(hand) <= 1 /\ finished \in Seq(Messages)
  BY DEF Handled, IInv, TypeOK, ControlInv
<1> DEFINE h == Head(hand)
<1>1. Len(hand) = 1
  <2>1. Len(hand) \in Nat \ {0}
    BY <1>t, EmptySeq
  <2>2. Len(hand) <= 1
    BY <1>t
  <2>3. \A n \in Nat \ {0} : n <= 1 => n = 1
    OBVIOUS
  <2> QED
    BY <2>1, <2>2, <2>3
<1>2. h \in Messages /\ <<h>> \in Seq(Messages) /\ Len(<<h>>) = 1
  BY <1>t, HeadTailProperties, Singleton
<1>3. hand = <<h>>
  <2>1. \A i \in 1..Len(hand) : hand[i] = <<h>>[i]
    BY <1>1
  <2> QED
    BY <1>t, <1>1, <1>2, <2>1, SeqEqual
<1>4. Inbox # <<>> /\ Head(Inbox) = h /\ Tail(Inbox) = queue
  BY <1>t, <1>2, <1>3, ConsHeadTail DEF Inbox
<1>5. Inbox' = queue
  BY <1>t, ConcatEmptySeq DEF Handled, chanVars, Inbox
<1>6. finished' = Append(finished, h)
  BY <1>t, <1>2, <1>3, AppendIsConcat DEF Handled
<1>7. Phase \in {"open", "sealed"} /\ Phase' = Phase
  BY DEF Handled, chanVars, IInv, ControlInv, Phase
<1> QED
  BY <1>4, <1>5, <1>6, <1>7 DEF Contract!Finish, Inbox, Phase

\* Every step of the sink is a step of the contract or leaves it unchanged.
LEMMA StepRefines == IInv /\ [Next]_vars => [Contract!Next]_(Contract!vars)
<1> SUFFICES ASSUME IInv, [Next]_vars PROVE [Contract!Next]_(Contract!vars)
  OBVIOUS
<1>1. ASSUME NEW p \in Producers, Send(p) PROVE Contract!Next
  BY <1>1, SendRefines DEF Contract!Next
<1>2. ASSUME UNCHANGED <<hand, queue, finished, crashed, cpc, closed>>
      PROVE  UNCHANGED Contract!vars
  BY <1>2 DEF Contract!vars
<1>3. ASSUME NEW p \in Producers, Park(p) \/ Drop(p) \/ SendOnClosed(p) \/ Count(p) \/ Publish(p)
      PROVE  UNCHANGED Contract!vars
  BY <1>2, <1>3 DEF Park, Drop, SendOnClosed, Count, Publish, chanVars, workVars, histVars
<1>4. ASSUME NEW p \in Producers, Panic(p) PROVE Contract!Next
  BY <1>4 DEF Panic, chanVars, workVars, histVars, Contract!Next, Contract!Abort
<1>5. CASE Receive
  BY <1>5, ReceiveRefines
<1>6. CASE Handled
  BY <1>6, HandledRefines DEF Contract!Next
<1>7. CASE WorkerPublish \/ WorkerExit
  BY <1>2, <1>7 DEF WorkerPublish, WorkerExit, chanVars, histVars
<1>8. CASE Close
  BY <1>8 DEF Close, CloseChannel, workVars, histVars, IInv, ControlInv,
     Contract!Next, Contract!Seal
<1>9. CASE CloseReturn
  <2>1. hand = <<>> /\ queue = <<>> /\ closed
    BY <1>9 DEF CloseReturn, WorkerGone, IInv, ControlInv
  <2>2. Inbox = <<>>
    BY <2>1, ConcatEmptySeq DEF IInv, TypeOK, Inbox
  <2> QED
    BY <1>9, <2>1, <2>2 DEF CloseReturn, chanVars, workVars, histVars, Inbox,
       Contract!Next, Contract!Stop
<1>10. CASE UNCHANGED vars
  BY <1>2, <1>10 DEF vars, chanVars, workVars, histVars
<1> QED
  BY <1>1, <1>3, <1>4, <1>5, <1>6, <1>7, <1>8, <1>9, <1>10
     DEF Next, Producer, Enqueue, Worker, Ended

\* BaseAsyncSink implements the contract of a sink: a bounded FIFO inbox that
\* is sealed once and stops only when empty (base.go:71-133).
THEOREM Implementation == Spec => ImplementsContract
<1>1. Init => Contract!Init
  BY EmptySeq, ConcatEmptySeq DEF Init, Contract!Init
<1>2. IInv /\ [Next]_vars => [Contract!Next]_(Contract!vars)
  BY StepRefines
<1> QED
  BY <1>1, <1>2, Invariance, PTL DEF Spec, ImplementsContract, Contract!Spec
=============================================================================
