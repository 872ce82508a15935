--------------------------- MODULE BatchSinkProofs ---------------------------
(***************************************************************************)
(* The safety of the batching sinks for every batch size, number of        *)
(* writers, backend and pattern of failures.                               *)
(****************************************************************************)
EXTENDS BatchSink, QueueLemmas

\* A request was made from what the buffer holds, until its end.
BatchIsBuffer == mu # Nobody => batch = buffer

IInv == TypeOK /\ BatchIsBuffer /\ FlushedInOrder /\ BufferBound

-----------------------------------------------------------------------------

\* Whatever the configuration says, a batch has at least one message.
LEMMA BatchSizePositive == BatchSize \in Nat \ {0}
  BY BatchAssumption DEF BatchSize

\* The initial state satisfies the inductive invariant.
LEMMA InitInv == Init => IInv
<1> SUFFICES ASSUME Init PROVE IInv
  OBVIOUS
<1>1. /\ buffer = <<>> /\ accepted = <<>> /\ flushed = <<>> /\ batch = <<>>
      /\ mu = Nobody /\ failedWrites = 0
  BY DEF Init
<1>2. <<>> \in Seq(Messages)
  BY EmptySeq
<1>3. TypeOK
  <2>1. 0 \in 0..MaxWrites
    BY BatchAssumption
  <2>2. written \in [Writers -> 0..MaxWrites]
    BY <2>1 DEF Init
  <2>3. /\ doomed = FALSE /\ due = FALSE /\ cancelled = FALSE
        /\ fpc = "select" /\ cpc = "open" /\ closeMark = 0
    BY DEF Init
  <2> QED
    BY <1>1, <1>2, <2>2, <2>3 DEF TypeOK
<1>4. BatchIsBuffer /\ FlushedInOrder
  BY <1>1, <1>2, ConcatEmptySeq DEF BatchIsBuffer, FlushedInOrder
<1>5. BufferBound
  <2>1. Len(buffer) = 0 /\ mu \notin Writers
    BY <1>1, EmptySeq, BatchAssumption
  <2> QED
    BY <1>1, <2>1, BatchSizePositive DEF BufferBound
<1> QED
  BY <1>3, <1>4, <1>5 DEF IInv

\* The type invariant survives every step.
LEMMA NextTypeOK == IInv /\ [Next]_vars => TypeOK'
<1> SUFFICES ASSUME IInv, [Next]_vars PROVE TypeOK'
  OBVIOUS
<1> USE DEF TypeOK, requestVars, historyVars
<1>t. TypeOK /\ RequestsUseContext \in BOOLEAN
  BY DEF IInv, RequestsUseContext
<1>1. ASSUME NEW w \in Writers, WriteMessage(w) PROVE TypeOK'
  <2> DEFINE m == [from |-> w, seq |-> written[w] + 1]
  <2>1. m \in Messages /\ written' \in [Writers -> 0..MaxWrites]
    <3>1. /\ written[w] \in 0..MaxWrites /\ written[w] < MaxWrites /\ MaxWrites \in Nat
          /\ written' = [written EXCEPT ![w] = @ + 1]
      BY <1>1, <1>t, BatchAssumption DEF WriteMessage
    <3>2. written[w] + 1 \in 1..MaxWrites /\ written[w] + 1 \in 0..MaxWrites
      BY <3>1
    <3> QED
      BY <1>t, <3>1, <3>2 DEF Messages
  <2>2. /\ buffer' = Append(buffer, m) /\ accepted' = Append(accepted, m)
        /\ UNCHANGED <<due, cancelled, fpc, cpc, flushed, failedWrites, closeMark>>
    BY <1>1 DEF WriteMessage
  <2>3. buffer' \in Seq(Messages) /\ buffer' # <<>> /\ accepted' \in Seq(Messages)
    BY <1>t, <2>1, <2>2, AppendProperties
  <2>4. \/ mu' = w /\ batch' = buffer' /\ doomed' \in BOOLEAN
        \/ UNCHANGED requestVars
    BY <1>1, <1>t DEF WriteMessage, StartRequest
  <2> QED
    BY <1>t, <2>1, <2>2, <2>3, <2>4
<1>2. ASSUME NEW x \in {Flusher, Closer}, StartRequest(x, buffer), buffer # <<>>,
             UNCHANGED <<buffer, due, cancelled, fpc, cpc, written, historyVars>>
      PROVE  TypeOK'
  BY <1>2, <1>t DEF StartRequest
<1>3. ASSUME fpc' \in {"select", "ticked", "final", "done"},
             cpc' \in {"open", "cancelled", "returned"}, due' \in BOOLEAN,
             UNCHANGED <<buffer, requestVars, cancelled, written, historyVars>>
      PROVE  TypeOK'
  BY <1>3, <1>t
<1>4. CASE IntervalPasses \/ Tick \/ TickSkip \/ SeeDone
  BY <1>3, <1>4, <1>t DEF IntervalPasses, Tick, TickSkip, SeeDone
<1>5. CASE TickFlush
  BY <1>2, <1>5 DEF TickFlush, HasData
<1>6. CASE FinalFlush
  BY <1>2, <1>3, <1>6, <1>t DEF FinalFlush, HasData
<1>7. CASE Cancel
  BY <1>7, <1>t, LenProperties DEF Cancel
<1>8. CASE CloseFlush
  BY <1>2, <1>3, <1>8, <1>t DEF CloseFlush, CloserHasData
<1>9. ASSUME Unlock
      PROVE  /\ mu' = Nobody /\ batch' = <<>> /\ doomed' = FALSE
             /\ fpc' \in {"select", "ticked", "final", "done"}
             /\ cpc' \in {"open", "cancelled", "returned"}
  BY <1>9, <1>t DEF Unlock, AfterFlush
<1>10. CASE FlushOk
  <2>1. flushed' \in Seq(Messages) /\ <<>> \in Seq(Messages)
    BY <1>10, <1>t, ConcatProperties, EmptySeq DEF FlushOk
  <2> QED
    BY <1>9, <1>10, <1>t, <2>1 DEF FlushOk
<1>11. CASE FlushFails
  <2>1. failedWrites' \in Nat /\ <<>> \in Seq(Messages)
    BY <1>11, <1>t, EmptySeq DEF FlushFails
  <2>2. Unlock /\ UNCHANGED <<buffer, due, cancelled, written, accepted, flushed, closeMark>>
    BY <1>11 DEF FlushFails, UnlockOnError, KeepOnFailure
  <2> QED
    BY <1>9, <1>t, <2>1, <2>2
<1>12. CASE UNCHANGED vars
  BY <1>12, <1>t DEF vars
<1> QED
  BY <1>1, <1>4, <1>5, <1>6, <1>7, <1>8, <1>10, <1>11, <1>12 DEF Next, Ended

\* Nobody touches the buffer during a request: writers and flushers wait for
\* the mutex, and a request starts from the whole buffer.
LEMMA NextBatchIsBuffer == IInv /\ [Next]_vars => BatchIsBuffer'
<1> SUFFICES ASSUME IInv, [Next]_vars PROVE BatchIsBuffer'
  OBVIOUS
<1> USE DEF BatchIsBuffer, requestVars
<1>o. BatchIsBuffer
  BY DEF IInv
<1>1. ASSUME NEW w \in Writers, WriteMessage(w) PROVE BatchIsBuffer'
  BY <1>1 DEF WriteMessage, StartRequest, MutexFree
<1>2. CASE TickFlush \/ FinalFlush \/ CloseFlush
  BY <1>2, <1>o DEF TickFlush, FinalFlush, CloseFlush, StartRequest
<1>3. CASE IntervalPasses \/ Tick \/ TickSkip \/ SeeDone \/ Cancel \/ UNCHANGED vars
  BY <1>3, <1>o DEF IntervalPasses, Tick, TickSkip, SeeDone, Cancel, vars
<1>4. CASE FlushOk \/ FlushFails
  BY <1>4 DEF FlushOk, FlushFails, UnlockOnError, Unlock
<1> QED
  BY <1>1, <1>2, <1>3, <1>4 DEF Next, Ended

\* What is flushed and what is buffered are the accepted messages in order,
\* before and after every step.
LEMMA NextFlushedInOrder == IInv /\ [Next]_vars => FlushedInOrder'
<1> SUFFICES ASSUME IInv, [Next]_vars PROVE FlushedInOrder'
  OBVIOUS
<1> USE DEF FlushedInOrder
<1>t. /\ flushed \in Seq(Messages) /\ buffer \in Seq(Messages)
      /\ flushed \o buffer \in Seq(Messages)
  BY ConcatProperties DEF IInv, TypeOK
<1>o. accepted = flushed \o buffer
  BY DEF IInv
<1>1. ASSUME NEW w \in Writers, WriteMessage(w) PROVE FlushedInOrder'
  <2> DEFINE m == [from |-> w, seq |-> written[w] + 1]
  <2>1. m \in Messages
    BY <1>1, BatchAssumption DEF WriteMessage, Messages, IInv, TypeOK
  <2>2. /\ buffer' = Append(buffer, m) /\ accepted' = Append(accepted, m)
        /\ flushed' = flushed
    BY <1>1 DEF WriteMessage
  <2>3. flushed \o Append(buffer, m) = Append(flushed \o buffer, m)
    BY <1>t, <2>1, AppendToLast
  <2> QED
    BY <1>o, <2>2, <2>3
<1>2. CASE FlushOk
  <2>1. flushed' = flushed \o buffer /\ buffer' = <<>> /\ accepted' = accepted
    BY <1>2 DEF FlushOk, IInv, BatchIsBuffer
  <2> QED
    BY <1>t, <1>o, <2>1, ConcatEmptySeq
<1>3. CASE FlushFails
  BY <1>3, <1>o DEF FlushFails, KeepOnFailure
<1>4. CASE IntervalPasses \/ Tick \/ TickFlush \/ TickSkip \/ SeeDone \/ FinalFlush
           \/ Cancel \/ CloseFlush \/ UNCHANGED vars
  BY <1>4, <1>o DEF IntervalPasses, Tick, TickFlush, TickSkip, SeeDone, FinalFlush, Cancel,
                    CloseFlush, historyVars, vars
<1> QED
  BY <1>1, <1>2, <1>3, <1>4 DEF Next, Ended

\* Only a write grows the buffer: below a batch freely, beyond it by the one
\* message whose writer is in its flush, or one for each failed such flush.
LEMMA NextBufferBound == IInv /\ [Next]_vars => BufferBound'
<1> SUFFICES ASSUME IInv, [Next]_vars PROVE BufferBound'
  OBVIOUS
<1> DEFINE n == Len(buffer)
<1>t. /\ buffer \in Seq(Messages) /\ n \in Nat
      /\ failedWrites \in Nat /\ BatchSize \in Nat \ {0}
      /\ Writers \cap {Flusher, Closer, Nobody} = {}
  BY BatchSizePositive, LenProperties, BatchAssumption DEF IInv, TypeOK
<1>o. n <= BatchSize - 1 + failedWrites + (IF mu \in Writers THEN 1 ELSE 0)
  BY DEF IInv, BufferBound
<1>1. ASSUME NEW w \in Writers, WriteMessage(w) PROVE BufferBound'
  <2> DEFINE m == [from |-> w, seq |-> written[w] + 1]
  <2>1. m \in Messages
    BY <1>1, BatchAssumption DEF WriteMessage, Messages, IInv, TypeOK
  <2>2. buffer' = Append(buffer, m) /\ failedWrites' = failedWrites /\ mu = Nobody
    BY <1>1 DEF WriteMessage, MutexFree
  <2>3. Len(buffer') = n + 1
    BY <1>t, <2>1, <2>2, AppendProperties
  <2>4. CASE Len(buffer') >= BatchSize
    <3>1. mu' = w
      BY <1>1, <2>4 DEF WriteMessage, BatchFull, StartRequest
    <3>2. n <= BatchSize - 1 + failedWrites
      BY <1>t, <1>o, <2>2
    <3> QED
      BY <1>t, <2>2, <2>3, <3>1, <3>2 DEF BufferBound
  <2>5. CASE ~(Len(buffer') >= BatchSize)
    <3>1. n + 1 <= BatchSize - 1
      BY <1>t, <2>3, <2>5
    <3> QED
      BY <1>t, <2>2, <2>3, <3>1 DEF BufferBound
  <2> QED
    BY <2>4, <2>5
<1>2. ASSUME mu = Nobody \/ mu' = mu, UNCHANGED <<buffer, failedWrites>> PROVE BufferBound'
  BY <1>2, <1>t, <1>o DEF BufferBound
<1>3. CASE IntervalPasses \/ Tick \/ TickFlush \/ TickSkip \/ SeeDone \/ FinalFlush
           \/ Cancel \/ CloseFlush \/ UNCHANGED vars
  BY <1>2, <1>3 DEF IntervalPasses, Tick, TickFlush, TickSkip, SeeDone, FinalFlush, Cancel,
                    CloseFlush, MutexFree, requestVars, historyVars, vars
<1>4. CASE FlushOk
  <2>1. Len(buffer') = 0 /\ failedWrites' = 0
    BY <1>4, EmptySeq DEF FlushOk
  <2> QED
    BY <1>t, <2>1 DEF BufferBound
<1>5. CASE FlushFails
  <2>1. buffer' = buffer /\ mu' = Nobody
    BY <1>5 DEF FlushFails, KeepOnFailure, UnlockOnError, Unlock
  <2>2. failedWrites' = failedWrites + (IF mu \in Writers THEN 1 ELSE 0)
    BY <1>5, <1>t DEF FlushFails
  <2> QED
    BY <1>t, <1>o, <2>1, <2>2 DEF BufferBound
<1> QED
  BY <1>1, <1>3, <1>4, <1>5 DEF Next, Ended

\* The inductive invariant holds in every reachable state.
THEOREM Invariance == Spec => []IInv
<1>1. Init => IInv
  BY InitInv
<1>2. IInv /\ [Next]_vars => IInv'
  BY NextTypeOK, NextBatchIsBuffer, NextFlushedInOrder, NextBufferBound DEF IInv
<1> QED
  BY <1>1, <1>2, PTL DEF Spec

-----------------------------------------------------------------------------
(* The properties the runs check, for every value of the constants         *)

\* The buffer, the requests and the goroutines of a batching sink keep their
\* types: what a failed flush leaves behind is still a batch (timestream.go:106-170).
THEOREM TypeCorrect == Spec => []TypeOK
<1>1. IInv => TypeOK
  BY DEF IInv
<1> QED
  BY <1>1, Invariance, PTL

\* A message leaves the buffer only in a request that returned without an error,
\* once and in order, although writers, the ticker and Close flush the same
\* buffer: FlushOk empties it unseen, and it is the mutex held from the making of
\* the batch to the end of the request (timestream.go:106-170) that makes what is
\* dropped what was flushed.
THEOREM FlushedOnceInOrder == Spec => []FlushedInOrder
<1>1. IInv => FlushedInOrder
  BY DEF IInv
<1> QED
  BY <1>1, Invariance, PTL

\* The buffer outgrows a batch only through writers' failed flushes.
THEOREM BufferIsBounded == Spec => []BufferBound
<1>1. IInv => BufferBound
  BY DEF IInv
<1> QED
  BY <1>1, Invariance, PTL
=============================================================================
