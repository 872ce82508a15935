----------------------------- MODULE FlushTimer -----------------------------
(***************************************************************************)
(* How long a message waits in a batching sink that is not filling batches:*)
(* the ticker of backgroundFlusher against the test "enough time has passed*)
(* since lastFlush" (internal/sinks/timestream.go:320-341, repeated in     *)
(* bigquery.go, elasticsearch.go, influxdb.go and prometheus.go).          *)
(*                                                                         *)
(* Time is counted in units; a flush takes at least one, because lastFlush *)
(* is read from the clock after the request.  Nothing in the code ends a   *)
(* request that hangs, so MaxLatency is what the client library or the     *)
(* network grants, and it may be longer than the interval.  Goroutines     *)
(* react at once: the delays found here are the algorithm's own.           *)
(***************************************************************************)
EXTENDS Integers

CONSTANTS
    Interval,       \* flush_interval, of the ticker and of the test
    MaxLatency,     \* bound: the longest a flush takes
    Failures        \* whether a flush may fail

ASSUME TimerAssumption ==
    /\ Interval \in Nat \ {0}
    /\ MaxLatency \in Nat \ {0}
    /\ Failures \in BOOLEAN

VARIABLES
    toTick,     \* time until the ticker fires
    tick,       \* a tick waits in the ticker's channel (of capacity one)
    since,      \* time since lastFlush, up to Interval
    oldest,     \* age of the oldest buffered message, None without one
    left,       \* time until the flush in progress ends, None without one
    failed      \* history: a flush has failed while this message waited

vars == <<toTick, tick, since, oldest, left, failed>>

None == -1

Init ==
    /\ toTick = Interval /\ tick = FALSE /\ since = 0
    /\ oldest = None /\ left = None /\ failed = FALSE

\* A tick is taken at once when the mutex is free.
Urgent == (tick /\ left = None) \/ left = 0

Advance ==
    /\ ~Urgent
    /\ toTick' = IF toTick = 1 THEN Interval ELSE toTick - 1
    /\ tick' = (tick \/ toTick = 1)
    /\ since' = IF since = Interval THEN Interval ELSE since + 1
    /\ oldest' = IF oldest = None THEN None ELSE oldest + 1
    /\ left' = IF left = None THEN None ELSE left - 1
    /\ UNCHANGED failed

\* A message that does not complete a batch, the first one in the buffer.
Arrive ==
    /\ left = None
    /\ oldest = None
    /\ oldest' = 0
    /\ UNCHANGED <<toTick, tick, since, left, failed>>

StartFlush == left' \in 1..MaxLatency

\* A message that completes a batch: its writer flushes.
FillBatch ==
    /\ left = None
    /\ oldest' = IF oldest = None THEN 0 ELSE oldest
    /\ StartFlush
    /\ UNCHANGED <<toTick, tick, since, failed>>

EnoughTime == since >= Interval

TakeTick ==
    /\ tick
    /\ left = None
    /\ tick' = FALSE
    /\ IF oldest # None /\ EnoughTime THEN StartFlush ELSE UNCHANGED left
    /\ UNCHANGED <<toTick, since, oldest, failed>>

\* The buffer is empty again, and lastFlush is now.
FlushOk ==
    /\ left = 0
    /\ left' = None /\ since' = 0 /\ oldest' = None /\ failed' = FALSE
    /\ UNCHANGED <<toTick, tick>>

FailureIsFlush == since' = 0

\* A failed flush leaves lastFlush alone.
FailureIsNone == UNCHANGED since

FlushFails ==
    /\ left = 0
    /\ Failures
    /\ ~failed
    /\ left' = None /\ failed' = TRUE
    /\ FailureIsNone
    /\ UNCHANGED <<toTick, tick, oldest>>

Next == Advance \/ Arrive \/ FillBatch \/ TakeTick \/ FlushOk \/ FlushFails

Spec == Init /\ [][Next]_vars

-----------------------------------------------------------------------------

Longer == IF MaxLatency > Interval THEN MaxLatency ELSE Interval

\* A message whose flushes succeed leaves the buffer within two intervals and a
\* flush: at most one tick finds too little time passed since lastFlush.  A
\* failed flush leaves lastFlush alone, so the next tick tries again, or the one
\* that waits already when the failed flush outlasted the interval: one failure
\* costs at most one more interval, or the failed flush if that is longer, before
\* the flush that succeeds.
WaitBounded ==
    oldest < 2 * Interval + MaxLatency + (IF failed THEN Longer ELSE 0)
=============================================================================
