------------------------------ MODULE BatchSink ------------------------------
(***************************************************************************)
(* The batching sinks of internal/sinks: timestream.go, bigquery.go,       *)
(* elasticsearch.go, influxdb.go and prometheus.go.  They share one design:*)
(* a buffer under a mutex, flushed by the writer that fills a batch, by a  *)
(* background goroutine on a ticker, and once more by Close.  The mutex is *)
(* held across the request, so a request in progress is a held mutex.      *)
(*                                                                         *)
(* The backend is external: a request returns without an error or with one.*)
(* What it has taken by then is not claimed.  All converters but Prometheus'*)
(* are unfinished in the code and return nil for every message, the bulk   *)
(* response of Elasticsearch is not searched for the items it rejected, the*)
(* write API of InfluxDB is asynchronous and nobody reads its errors, and  *)
(* Prometheus' samples are computed and discarded: in all of them the sink *)
(* empties its buffer and counts the batch as done.  "flushed" is what the *)
(* sink counts as done: the messages that the requests which returned      *)
(* without an error were made from.                                        *)
(****************************************************************************)
EXTENDS Integers, SequencesExt

CONSTANTS
    Writers,            \* goroutines that call WriteMessage
    Backend,            \* which of the five files
    ConfiguredBatch,    \* batch_size of the configuration, any integer
    DefaultBatch,       \* 100 or 1000 in the code
    OutagePossible,     \* the backend may fail on its own account
    MaxWrites           \* bound: messages per writer

\* What distinguishes the five files: three give the request the sink's context
\* and return its error; influxdb.go and prometheus.go return nil in any case.
RequestsUseContext == Backend \in {"timestream", "bigquery", "elasticsearch"}

\* A batch size of zero (the key is absent) or less means the default.
BatchSize == IF ConfiguredBatch > 0 THEN ConfiguredBatch ELSE DefaultBatch

Flusher == "flusher"
Closer == "closer"
Nobody == "nobody"

ASSUME BatchAssumption ==
    /\ Writers # {}
    /\ Writers \cap {Flusher, Closer, Nobody} = {}
    /\ Backend \in {"timestream", "bigquery", "elasticsearch", "influxdb", "prometheus"}
    /\ ConfiguredBatch \in Int
    /\ DefaultBatch \in Nat \ {0}
    /\ OutagePossible \in BOOLEAN
    /\ MaxWrites \in Nat

VARIABLES
    buffer,         \* messages not flushed yet
    mu,             \* who holds the mutex across a request
    batch,          \* the messages the request in progress was made from
    doomed,         \* the request in progress was started on a cancelled context
    due,            \* time.Since(lastFlush) >= flushInterval
    cancelled,      \* Close has called cancel()
    fpc,            \* backgroundFlusher
    cpc,            \* the caller of Close
    written,        \* messages each writer has written
    accepted,       \* history: messages in the order they entered the buffer
    flushed,        \* history: messages of the requests that returned without an error
    failedWrites,   \* history: writers' flushes that failed since a success
    closeMark       \* history: how many messages were accepted before Close

requestVars == <<mu, batch, doomed>>
historyVars == <<accepted, flushed, failedWrites, closeMark>>
vars == <<buffer, requestVars, due, cancelled, fpc, cpc, written, historyVars>>

Messages == [from : Writers, seq : 1..MaxWrites]

Init ==
    /\ buffer = <<>> /\ mu = Nobody /\ batch = <<>> /\ doomed = FALSE
    /\ due = FALSE /\ cancelled = FALSE
    /\ fpc = "select" /\ cpc = "open"
    /\ written = [w \in Writers |-> 0]
    /\ accepted = <<>> /\ flushed = <<>>
    /\ failedWrites = 0 /\ closeMark = 0

MutexIgnored == TRUE

\* Writers and flushers wait for the mutex, also while a request is in progress.
MutexFree == mu = Nobody

\* x makes a request from the messages b and keeps the mutex until it returns.
StartRequest(x, b) ==
    /\ mu' = x
    /\ batch' = b
    /\ doomed' = (RequestsUseContext /\ cancelled)

-----------------------------------------------------------------------------
(* WriteMessage                                                            *)

BatchOverfull(b) == Len(b) > BatchSize

BatchFull(b) == Len(b) >= BatchSize

\* The message is appended; the writer that completes a batch flushes it.
WriteMessage(w) ==
    LET m == [from |-> w, seq |-> written[w] + 1]
    IN  /\ MutexFree
        /\ written[w] < MaxWrites
        /\ written' = [written EXCEPT ![w] = @ + 1]
        /\ buffer' = Append(buffer, m)
        /\ accepted' = Append(accepted, m)
        /\ IF BatchFull(buffer') THEN StartRequest(w, buffer') ELSE UNCHANGED requestVars
        /\ UNCHANGED <<due, cancelled, fpc, cpc, flushed, failedWrites, closeMark>>

-----------------------------------------------------------------------------
(* backgroundFlusher                                                       *)

\* The flush interval has passed since the last flush that succeeded.
IntervalPasses ==
    /\ ~due
    /\ due' = TRUE
    /\ UNCHANGED <<buffer, requestVars, cancelled, fpc, cpc, written, historyVars>>

\* The ticker fires; the flusher now waits for the mutex.
Tick ==
    /\ fpc = "select"
    /\ fpc' = "ticked"
    /\ UNCHANGED <<buffer, requestVars, due, cancelled, cpc, written, historyVars>>

AlwaysHasData == TRUE

HasData == buffer # <<>>

\* With the mutex: data, and the flush interval has passed since the last flush.
TickFlush ==
    /\ fpc = "ticked"
    /\ MutexFree
    /\ HasData /\ due
    /\ StartRequest(Flusher, buffer)
    /\ UNCHANGED <<buffer, due, cancelled, fpc, cpc, written, historyVars>>

\* No data, or the last flush is too recent: the buffer waits for the next tick.
TickSkip ==
    /\ fpc = "ticked"
    /\ MutexFree
    /\ ~(HasData /\ due)
    /\ fpc' = "select"
    /\ UNCHANGED <<buffer, requestVars, due, cancelled, cpc, written, historyVars>>

ContextDone == cancelled

\* <-ctx.Done(): select may still prefer a tick that is ready as well.
SeeDone ==
    /\ fpc = "select"
    /\ ContextDone
    /\ fpc' = "final"
    /\ UNCHANGED <<buffer, requestVars, due, cancelled, cpc, written, historyVars>>

\* "Final flush on shutdown" of whatever is buffered when the mutex is free.
FinalFlush ==
    /\ fpc = "final"
    /\ MutexFree
    /\ IF HasData THEN StartRequest(Flusher, buffer) /\ UNCHANGED fpc
       ELSE fpc' = "done" /\ UNCHANGED requestVars
    /\ UNCHANGED <<buffer, due, cancelled, cpc, written, historyVars>>

-----------------------------------------------------------------------------
(* Close                                                                   *)

Cancel ==
    /\ cpc = "open"
    /\ cpc' = "cancelled"
    /\ cancelled' = TRUE
    /\ closeMark' = Len(accepted)
    /\ UNCHANGED <<buffer, requestVars, due, fpc, written, accepted, flushed, failedWrites>>

\* flushUnsafe has something to send.
CloserHasData == buffer # <<>>

CloseFlush ==
    /\ cpc = "cancelled"
    /\ MutexFree
    /\ IF CloserHasData THEN StartRequest(Closer, buffer) /\ UNCHANGED cpc
       ELSE cpc' = "returned" /\ UNCHANGED requestVars
    /\ UNCHANGED <<buffer, due, cancelled, fpc, written, historyVars>>

-----------------------------------------------------------------------------
(* The end of a request: flushUnsafe returns and its caller unlocks        *)

FlusherGivesUp == "done"

\* The flusher goes back to its loop, unless this was the final flush; it
\* ignores the result.
AfterFlush == IF fpc = "final" THEN "done" ELSE "select"

Unlock ==
    /\ mu' = Nobody
    /\ batch' = <<>>
    /\ doomed' = FALSE
    /\ fpc' = IF mu = Flusher THEN AfterFlush ELSE fpc
    /\ cpc' = IF mu = Closer THEN "returned" ELSE cpc

MutexLeaked == UNCHANGED <<requestVars, fpc, cpc>>

UnlockOnError == Unlock

\* The request returned nil: the buffer is emptied, whatever it holds by now,
\* and lastFlush is set.
FlushOk ==
    /\ mu # Nobody
    /\ ~doomed
    /\ flushed' = flushed \o batch
    /\ buffer' = <<>>
    /\ due' = FALSE
    /\ failedWrites' = 0
    /\ Unlock
    /\ UNCHANGED <<cancelled, written, accepted, closeMark>>

DiscardOnFailure == buffer' = <<>>

\* A failed batch stays in the buffer for the next flush.
KeepOnFailure == UNCHANGED buffer

\* An error of the backend, or of the context that Close has cancelled before
\* or during the request.  The request may have taken effect all the same.
MayFail == RequestsUseContext /\ (OutagePossible \/ cancelled)

FlushFails ==
    /\ mu # Nobody
    /\ MayFail
    /\ KeepOnFailure
    /\ failedWrites' = IF mu \in Writers THEN failedWrites + 1 ELSE failedWrites
    /\ UnlockOnError
    /\ UNCHANGED <<due, cancelled, written, accepted, flushed, closeMark>>

-----------------------------------------------------------------------------

\* Closed, and nobody has anything left to do.
Ended ==
    /\ mu = Nobody /\ fpc = "done" /\ cpc = "returned"
    /\ \A w \in Writers : written[w] = MaxWrites
    /\ UNCHANGED vars

Next ==
    \/ \E w \in Writers : WriteMessage(w)
    \/ IntervalPasses \/ Tick \/ TickFlush \/ TickSkip \/ SeeDone \/ FinalFlush
    \/ Cancel \/ CloseFlush
    \/ FlushOk \/ FlushFails
    \/ Ended

Spec == Init /\ [][Next]_vars

\* Every request is answered; time passes and the ticker keeps firing; Go's
\* mutex starves nobody, and select does not ignore a ready case for ever.
Fairness ==
    /\ WF_vars(FlushOk \/ FlushFails)
    /\ WF_vars(IntervalPasses) /\ WF_vars(Tick)
    /\ SF_vars(TickFlush \/ TickSkip)
    /\ SF_vars(SeeDone) /\ SF_vars(FinalFlush) /\ SF_vars(CloseFlush)

\* The backend does not fail for ever.
BackendRecovers == SF_vars(FlushOk)

FairSpec == Spec /\ Fairness /\ BackendRecovers

-----------------------------------------------------------------------------
(* Properties                                                              *)

\* Type invariant; the mutex is never held across an empty request.
TypeOK ==
    /\ buffer \in Seq(Messages) /\ batch \in Seq(Messages)
    /\ mu \in Writers \cup {Flusher, Closer, Nobody}
    /\ mu # Nobody => batch # <<>>
    /\ doomed \in BOOLEAN /\ due \in BOOLEAN /\ cancelled \in BOOLEAN
    /\ fpc \in {"select", "ticked", "final", "done"}
    /\ cpc \in {"open", "cancelled", "returned"}
    /\ written \in [Writers -> 0..MaxWrites]
    /\ accepted \in Seq(Messages) /\ flushed \in Seq(Messages)
    /\ failedWrites \in Nat /\ closeMark \in Nat

\* A message leaves the buffer only as part of a request that returned without
\* an error, each message in one such request and all of them in the order they
\* were accepted: although writers, the ticker and Close flush the same buffer
\* and a success empties it without looking, nobody adds to it during a request,
\* and no failure discards it.
FlushedInOrder == accepted = flushed \o buffer

\* The buffer outgrows a batch only by messages whose writer saw its flush fail
\* (or is waiting for it): a healthy backend bounds the buffer by the batch size.
BufferBound ==
    Len(buffer) <= BatchSize - 1 + failedWrites + (IF mu \in Writers THEN 1 ELSE 0)

\* Close returns although the background flusher and writers use the mutex too,
\* and it ends the flusher.
ShutdownCompletes == cancelled ~> cpc = "returned" /\ fpc = "done"

\* A message below the batch size does not wait for later messages: however the
\* ticks fall against lastFlush, a request made from it returns without an error
\* once the backend lets one, unless the sink is closed first.
EventuallyFlushed ==
    \A m \in Messages : Contains(buffer, m) ~> (Contains(flushed, m) \/ cancelled)

\* "Final flush" (the comments in Close and backgroundFlusher): when Close
\* returns, every message accepted before Close has been in a request that
\* a healthy backend did not refuse.
FinalFlushSends ==
    cpc = "returned" /\ ~OutagePossible =>
        \A j \in 1..closeMark : Contains(flushed, accepted[j])
=============================================================================
