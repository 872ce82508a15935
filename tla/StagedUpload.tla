---------------------------- MODULE StagedUpload ----------------------------
(***************************************************************************)
(* internal/sinks/s3.go and gcs.go with the FileSink (file.go) inside them:*)
(* telemetry is staged in a local file that a ticker, and Close, upload to *)
(* an object named after the file.                                         *)
(*                                                                         *)
(* A message crosses two queues, each with a worker: the object sink's and *)
(* that of its FileSink (both BaseAsyncSinks, module AsyncSink).  The mutex*)
(* of the object sink is taken around the hand-over between the queues and *)
(* around an upload, the FileSink's around a write, a rotation and an      *)
(* upload.  The two files differ in the client library: S3 stores an object*)
(* in one request, whole or not at all, GCS stores what has been written to*)
(* a stream when the stream is closed, which gcs.go also does to a stream  *)
(* that it could not fill.                                                 *)
(*                                                                         *)
(* File names carry the time in seconds: a file opened in the second of its*)
(* predecessor IS its predecessor, opened for appending, and is uploaded to*)
(* the same object.  A file is its number here.                            *)
(***************************************************************************)
EXTENDS Integers, SequencesExt

CONSTANTS
    Capacity,       \* queue_size, of both queues
    Policies,       \* the policies a configuration may name
    Backends,       \* the kinds of bucket: "s3", "gcs"
    MaxMessages,    \* bound: messages written to the sink
    MaxFiles,       \* bound: file names that differ
    MaxFaults       \* bound: failures of uploads, writes and opens, and crashes

ASSUME StagedAssumption ==
    /\ Capacity \in Nat \ {0}
    /\ Policies \subseteq {"drop", "block"}
    /\ Backends \subseteq {"s3", "gcs"}
    /\ MaxMessages \in Nat
    /\ MaxFiles \in Nat \ {0}
    /\ MaxFaults \in Nat

VARIABLES
    policy,     \* backpressure_policy of both queues, fixed at construction
    backend,    \* which of the two sinks this is
    outer,      \* queue of the object sink
    outerClosed,
    opc, ohand, \* its worker: handleMessage, and the message it has
    inner,      \* queue of the FileSink
    innerClosed,
    ipc, ihand, \* its worker: FileSink.handleMessage, and the message it has
    pc,         \* the ticker goroutine and the caller of Close
    smu,        \* holder of the object sink's mutex
    fmu,        \* holder of the FileSink's mutex across an upload
    files,      \* content of every file
    cur,        \* the file f.file refers to
    dead,       \* f.file has been closed and its successor could not be opened
    overdue,    \* RotationInterval has passed since lastRotation
    objects,    \* the bucket: content of the object named after each file
    errors,     \* aero_sink_worker_errors_total of both workers, of all processes
    accepted,   \* history: messages the object sink's queue took
    faults,     \* history: failures so far
    crashLost,      \* history: messages that crashes found in queues and hands
    abandoned,      \* history: files that were current in a crash
    selfRotated,    \* history: files the FileSink's worker rotated away
    failedUploads   \* history: files whose upload has failed

kindVars  == <<policy, backend>>
outerVars == <<kindVars, outer, outerClosed, opc, ohand, accepted>>
innerVars == <<inner, innerClosed, ipc, ihand>>
fileVars  == <<files, cur, dead, overdue>>
crashVars == <<crashLost, abandoned>>
histVars  == <<faults, crashVars, selfRotated, failedUploads>>
vars == <<outerVars, innerVars, pc, smu, fmu, fileVars, objects, errors, histVars>>

Messages == 1..MaxMessages
Files == 1..MaxFiles

Ticker == "ticker"
Closer == "closer"
Worker == "worker"
Nobody == "nobody"
Rotators == {Ticker, Closer}    \* the goroutines that upload

Init ==
    /\ policy \in Policies /\ backend \in Backends
    /\ outer = <<>> /\ outerClosed = FALSE /\ opc = "receive" /\ ohand = <<>>
    /\ inner = <<>> /\ innerClosed = FALSE /\ ipc = "receive" /\ ihand = <<>>
    /\ pc = [x \in Rotators |-> IF x = Ticker THEN "select" ELSE "open"]
    /\ smu = Nobody /\ fmu = Nobody
    /\ files = [k \in Files |-> <<>>] /\ cur = 1 /\ dead = FALSE /\ overdue = FALSE
    /\ objects = [k \in Files |-> <<>>]
    /\ errors = 0 /\ accepted = <<>>
    /\ faults = 0 /\ crashLost = 0 /\ abandoned = {} /\ selfRotated = {} /\ failedUploads = {}

Fault == faults < MaxFaults /\ faults' = faults + 1
NoFault == UNCHANGED faults

-----------------------------------------------------------------------------
(* The object sink's queue and worker                                      *)

\* WriteMessage, with room in the queue.  A full queue (module AsyncSink) turns
\* the message away or makes the caller wait; nobody writes after Close.
WriteMessage ==
    LET m == Len(accepted) + 1
    IN  /\ ~outerClosed
        /\ m \in Messages
        /\ Len(outer) < Capacity
        /\ outer' = Append(outer, m)
        /\ accepted' = Append(accepted, m)
        /\ UNCHANGED <<kindVars, outerClosed, opc, ohand, innerVars, pc, smu, fmu,
                       fileVars, objects, errors, histVars>>

OuterReceive ==
    /\ opc = "receive"
    /\ outer # <<>>
    /\ ohand' = <<Head(outer)>>
    /\ outer' = Tail(outer)
    /\ opc' = "lock"
    /\ UNCHANGED <<kindVars, outerClosed, accepted, innerVars, pc, smu, fmu, fileVars,
                   objects, errors, histVars>>

OuterExit ==
    /\ opc = "receive"
    /\ outerClosed /\ outer = <<>>
    /\ opc' = "done"
    /\ UNCHANGED <<kindVars, outer, outerClosed, ohand, accepted, innerVars, pc, smu, fmu,
                   fileVars, objects, errors, histVars>>

InnerRoomOffByOne == Len(inner) <= Capacity

InnerRoom == Len(inner) < Capacity

\* handleMessage: under the mutex the message goes on to the FileSink's queue.
HandOver ==
    /\ opc = "lock"
    /\ smu = Nobody
    /\ InnerRoom
    /\ inner' = inner \o ohand
    /\ ohand' = <<>>
    /\ opc' = "receive"
    /\ UNCHANGED <<kindVars, outer, outerClosed, accepted, innerClosed, ipc, ihand, pc,
                   smu, fmu, fileVars, objects, errors, histVars>>

MutexKept == smu' = Worker

\* The deferred Unlock also runs when the hand-over fails.
MutexReleased == UNCHANGED smu

ErrorSwallowed == UNCHANGED errors

CountError == errors' = errors + 1

\* The FileSink's queue is full and drops: ErrQueueFull, and the message that
\* the object sink had accepted is gone.
HandOverDropped ==
    /\ opc = "lock"
    /\ smu = Nobody
    /\ ~InnerRoom
    /\ policy = "drop"
    /\ ohand' = <<>>
    /\ opc' = "receive"
    /\ CountError
    /\ MutexReleased
    /\ UNCHANGED <<kindVars, outer, outerClosed, accepted, innerVars, pc, fmu, fileVars,
                   objects, histVars>>

\* The FileSink's queue is full and blocks: the worker waits with the mutex.
HandOverWaits ==
    /\ opc = "lock"
    /\ smu = Nobody
    /\ ~InnerRoom
    /\ policy = "block"
    /\ smu' = Worker
    /\ opc' = "parked"
    /\ UNCHANGED <<kindVars, outer, outerClosed, ohand, accepted, innerVars, pc, fmu,
                   fileVars, objects, errors, histVars>>

-----------------------------------------------------------------------------
(* The FileSink's queue and worker                                         *)

AdmitAtFront == inner' = ohand \o Tail(inner)

\* The slot that a receive frees goes to the waiting worker.
AdmitParked == inner' = Tail(inner) \o ohand

InnerReceive ==
    /\ ipc = "receive"
    /\ inner # <<>>
    /\ ihand' = <<Head(inner)>>
    /\ ipc' = "handle"
    /\ \/ /\ opc = "parked"
          /\ AdmitParked
          /\ opc' = "receive" /\ ohand' = <<>> /\ smu' = Nobody
       \/ /\ opc # "parked"
          /\ inner' = Tail(inner)
          /\ UNCHANGED <<opc, ohand, smu>>
    /\ UNCHANGED <<kindVars, outer, outerClosed, accepted, innerClosed, pc, fmu, fileVars,
                   objects, errors, histVars>>

InnerExit ==
    /\ ipc = "receive"
    /\ innerClosed /\ inner = <<>>
    /\ ipc' = "done"
    /\ UNCHANGED <<outerVars, inner, innerClosed, ihand, pc, smu, fmu, fileVars,
                   objects, errors, histVars>>

OpenTruncating(k) == <<>>

\* O_CREATE|O_APPEND: what a file of that name holds stays.
OpenAppending(k) == files[k]

\* The name for a file opened now: that of the current file within the second.
NextFile(k) == k \in {cur, cur + 1} \cap Files

\* handleMessage first rotates if the interval has passed, without an upload;
\* then the file holds "added" as well.
RotateAndAppend(added) ==
    /\ \E k \in Files :
        /\ IF overdue THEN NextFile(k) ELSE k = cur
        /\ cur' = k
        /\ files' = [files EXCEPT ![k] = (IF overdue THEN OpenAppending(k) ELSE @) \o added]
        /\ selfRotated' = IF k # cur THEN selfRotated \cup {cur} ELSE selfRotated
    /\ overdue' = FALSE

\* FileSink.handleMessage when no upload is in progress.
Stage ==
    /\ ipc = "handle"
    /\ fmu = Nobody
    /\ ~dead
    /\ RotateAndAppend(ihand)
    /\ ihand' = <<>>
    /\ ipc' = "receive"
    /\ UNCHANGED <<outerVars, inner, innerClosed, pc, smu, fmu, dead, objects, errors,
                   faults, crashVars, failedUploads>>

\* The message is lost with an error: the write fails, or the rotation before
\* it closes the file and cannot open another, or that has happened before:
\* then neither a write nor a rotation succeeds again.
StageFails ==
    /\ ipc = "handle"
    /\ fmu = Nobody
    /\ \/ ~dead /\ Fault /\ RotateAndAppend(<<>>) /\ UNCHANGED dead
       \/ ~dead /\ Fault /\ overdue /\ dead' = TRUE
                /\ UNCHANGED <<files, cur, overdue, selfRotated>>
       \/ dead /\ NoFault /\ UNCHANGED <<fileVars, selfRotated>>
    /\ CountError
    /\ ihand' = <<>>
    /\ ipc' = "receive"
    /\ UNCHANGED <<outerVars, inner, innerClosed, pc, smu, fmu, objects, crashVars,
                   failedUploads>>

IntervalPasses ==
    /\ ~overdue
    /\ overdue' = TRUE
    /\ UNCHANGED <<outerVars, innerVars, pc, smu, fmu, files, cur, dead, objects,
                   errors, histVars>>

-----------------------------------------------------------------------------
(* RotateAndUpload (the ticker) and Close                                  *)

Goto(x, state) == pc' = [pc EXCEPT ![x] = state]

Tick ==
    /\ pc[Ticker] = "select"
    /\ Goto(Ticker, "lock")
    /\ UNCHANGED <<outerVars, innerVars, smu, fmu, fileVars, objects, errors, histVars>>

\* <-closeCh
TickerStops ==
    /\ pc[Ticker] = "select"
    /\ pc[Closer] # "open"
    /\ Goto(Ticker, "done")
    /\ UNCHANGED <<outerVars, innerVars, smu, fmu, fileVars, objects, errors, histVars>>

\* close(closeChan), and wg.Wait for the ticker goroutine
Close ==
    /\ pc[Closer] = "open"
    /\ Goto(Closer, "stopping")
    /\ UNCHANGED <<outerVars, innerVars, smu, fmu, fileVars, objects, errors, histVars>>

\* BaseAsyncSink.Close: the queue is closed, and its worker awaited
CloseOuter ==
    /\ pc[Closer] = "stopping"
    /\ pc[Ticker] = "done"
    /\ Goto(Closer, "draining")
    /\ outerClosed' = TRUE
    /\ UNCHANGED <<kindVars, outer, opc, ohand, accepted, innerVars, smu, fmu, fileVars,
                   objects, errors, histVars>>

OuterDrained ==
    /\ pc[Closer] = "draining"
    /\ opc = "done"
    /\ Goto(Closer, "lock")
    /\ UNCHANGED <<outerVars, innerVars, smu, fmu, fileVars, objects, errors, histVars>>

Lock(x) ==
    /\ pc[x] = "lock"
    /\ smu = Nobody
    /\ smu' = x
    /\ Goto(x, "flock")
    /\ UNCHANGED <<outerVars, innerVars, fmu, fileVars, objects, errors, histVars>>

\* uploadAndMaybeRotateLocked returns: the ticker releases the sink's mutex and
\* logs an error; Close goes on to the FileSink, or returns the error.
UploadReturns(x, ok) ==
    /\ fmu' = Nobody
    /\ smu' = IF x = Closer /\ ok THEN smu ELSE Nobody
    /\ Goto(x, CASE x = Ticker -> "select"
                 [] x = Closer /\ ok -> "inner"
                 [] x = Closer /\ ~ok -> "failed")

\* With both mutexes: Stat fails on a dead file, an empty file needs no upload
\* (and no rotation), any other is sent to the bucket.
LockFile(x) ==
    /\ pc[x] = "flock"
    /\ fmu = Nobody
    /\ \/ dead /\ UploadReturns(x, FALSE)
       \/ ~dead /\ files[cur] = <<>> /\ UploadReturns(x, TRUE)
       \/ ~dead /\ files[cur] # <<>> /\ fmu' = x /\ Goto(x, "upload") /\ UNCHANGED smu
    /\ UNCHANGED <<outerVars, innerVars, fileVars, objects, errors, histVars>>

\* rotateFileLocked: the file is closed, and another opened, or not.
Rotate ==
    \/ /\ \E k \in Files :
            /\ NextFile(k)
            /\ cur' = k
            /\ files' = [files EXCEPT ![k] = OpenAppending(k)]
       /\ overdue' = FALSE
       /\ NoFault /\ UNCHANGED dead
    \/ /\ Fault
       /\ dead' = TRUE
       /\ UNCHANGED <<files, cur, overdue>>

Stored == objects' = [objects EXCEPT ![cur] = files[cur]]

\* The bucket has the file; the ticker rotates it.
UploadOk(x) ==
    /\ pc[x] = "upload"
    /\ Stored
    /\ \/ x = Ticker /\ Rotate
       \/ x = Closer /\ UNCHANGED <<fileVars, faults>>
    /\ UploadReturns(x, TRUE)
    /\ UNCHANGED <<outerVars, innerVars, errors, crashVars, selfRotated, failedUploads>>

RotateAnyway == cur' \in {cur, cur + 1} \cap Files

\* After a failed upload the file stays current, and lastRotation unchanged.
FileStays == UNCHANGED cur

\* The file cannot be read to its end, and closing the stream stores what has
\* been read of it under the name of the whole.
StoredInPart ==
    /\ backend = "gcs"
    /\ \E n \in 0..(Len(files[cur]) - 1) :
          objects' = [objects EXCEPT ![cur] = SubSeq(files[cur], 1, n)]

\* The upload fails, without effect, after the bucket has stored the object, or
\* with a part of it stored.
UploadFails(x) ==
    /\ pc[x] = "upload"
    /\ Fault
    /\ Stored \/ StoredInPart \/ UNCHANGED objects
    /\ failedUploads' = failedUploads \cup {cur}
    /\ FileStays
    /\ UploadReturns(x, FALSE)
    /\ UNCHANGED <<outerVars, innerVars, files, dead, overdue, errors, crashVars,
                   selfRotated>>

\* FileSink.Close: its queue is closed only now, and its worker awaited.
CloseInner ==
    /\ pc[Closer] = "inner"
    /\ ~innerClosed
    /\ innerClosed' = TRUE
    /\ UNCHANGED <<outerVars, inner, ipc, ihand, pc, smu, fmu, fileVars, objects,
                   errors, histVars>>

CloseReturn ==
    /\ pc[Closer] = "inner"
    /\ innerClosed /\ ipc = "done"
    /\ Goto(Closer, "closed")
    /\ smu' = Nobody
    /\ UNCHANGED <<outerVars, innerVars, fmu, fileVars, objects, errors, histVars>>

-----------------------------------------------------------------------------
(* Crash and restart                                                       *)

CloseReturned == pc[Closer] \in {"closed", "failed"}

\* The process dies and another one makes the sink anew: queues and hands are
\* gone, an upload under way may still take effect, and the new process opens a
\* file by the time, without a look at those that lie there.
Crash ==
    /\ ~CloseReturned
    /\ Fault
    /\ crashLost' = crashLost + Len(ihand) + Len(inner) + Len(ohand) + Len(outer)
    /\ abandoned' = abandoned \cup {cur}
    /\ UNCHANGED objects \/ (fmu # Nobody /\ Stored)
    /\ outer' = <<>> /\ outerClosed' = FALSE /\ opc' = "receive" /\ ohand' = <<>>
    /\ inner' = <<>> /\ innerClosed' = FALSE /\ ipc' = "receive" /\ ihand' = <<>>
    /\ pc' = [x \in Rotators |-> IF x = Ticker THEN "select" ELSE "open"]
    /\ smu' = Nobody /\ fmu' = Nobody
    /\ \E k \in Files : NextFile(k) /\ cur' = k /\ files' = [files EXCEPT ![k] = OpenAppending(k)]
    /\ dead' = FALSE /\ overdue' = FALSE
    /\ UNCHANGED <<kindVars, accepted, errors, selfRotated, failedUploads>>

-----------------------------------------------------------------------------

OuterWorker == OuterReceive \/ OuterExit \/ HandOver \/ HandOverDropped \/ HandOverWaits
InnerWorker == InnerReceive \/ InnerExit \/ Stage \/ StageFails
Closing == Close \/ CloseOuter \/ OuterDrained \/ CloseInner \/ CloseReturn
Upload(x) == UploadOk(x) \/ UploadFails(x)
Rotating(x) == Lock(x) \/ LockFile(x) \/ Upload(x)

\* Close has returned, and the FileSink's worker has nothing left.
Ended == CloseReturned /\ ipc \in {"receive", "done"} /\ inner = <<>> /\ UNCHANGED vars

Next ==
    \/ WriteMessage \/ OuterWorker \/ InnerWorker \/ IntervalPasses
    \/ Tick \/ TickerStops \/ Closing
    \/ \E x \in Rotators : Rotating(x)
    \/ Crash
    \/ Ended

Spec == Init /\ [][Next]_vars

\* Goroutines run, the ticker fires, uploads are answered, and neither Go's
\* mutexes nor a select with a ready case put anybody off for ever.  Nobody has
\* to write or to start Close.
FairSpec ==
    /\ Spec
    /\ SF_vars(OuterWorker) /\ SF_vars(InnerWorker)
    /\ SF_vars(Tick \/ Rotating(Ticker)) /\ SF_vars(TickerStops)
    /\ SF_vars(CloseOuter \/ OuterDrained \/ Rotating(Closer) \/ CloseInner \/ CloseReturn)

-----------------------------------------------------------------------------
(* Properties                                                              *)

\* The goroutines that are past Lock and LockFile are the mutexes' holders.
MutexesHeld ==
    /\ pc \in [Rotators -> {"select", "open", "stopping", "draining", "lock", "flock", "upload",
                            "inner", "closed", "failed", "done"}]
    /\ smu \in {Nobody, Worker} \cup Rotators /\ fmu \in {Nobody} \cup Rotators
    /\ opc = "parked" => smu = Worker
    /\ \A x \in Rotators :
         /\ pc[x] \in {"flock", "upload", "inner"} => smu = x
         /\ pc[x] = "upload" <=> fmu = x

\* Type invariant.
TypeOK ==
    /\ policy \in Policies /\ backend \in Backends
    /\ {outer, inner, ohand, ihand, accepted} \subseteq Seq(Messages)
    /\ Len(outer) <= Capacity /\ Len(inner) <= Capacity /\ Len(accepted) <= MaxMessages
    /\ Len(ohand) = IF opc \in {"lock", "parked"} THEN 1 ELSE 0
    /\ Len(ihand) = IF ipc = "handle" THEN 1 ELSE 0
    /\ opc \in {"receive", "lock", "parked", "done"} /\ ipc \in {"receive", "handle", "done"}
    /\ MutexesHeld
    /\ files \in [Files -> Seq(Messages)] /\ objects \in [Files -> Seq(Messages)]
    /\ cur \in Files
    /\ {outerClosed, innerClosed, dead, overdue} \subseteq BOOLEAN
    /\ errors \in Nat /\ crashLost \in Nat /\ faults \in 0..MaxFaults
    /\ abandoned \cup selfRotated \cup failedUploads \subseteq Files

\* Where the sink has messages, the oldest first: in files, hands and queues.
Places == files \o <<ihand, inner, ohand, outer>>

\* A message the object sink has accepted is in a file or on its way there, or
\* one error was counted for it, or a crash took it out of a queue or a hand:
\* the second queue, a lost file handle, the rotations between writes and a
\* restart make no staged message vanish, and none silently.
StagingAccounts == Len(accepted) = Len(FlattenSeq(Places)) + errors + crashLost

\* Whatever is lost, the files hold the rest in the order of acceptance, each
\* message once, across the two queues, the wait for the second, rotations and
\* restarts.  (Messages are numbered in that order.)
StagedInOrder ==
    \A p, q \in DOMAIN Places : \A i \in DOMAIN Places[p], j \in DOMAIN Places[q] :
        p < q \/ (p = q /\ i < j) => Places[p][i] < Places[q][j]

\* The bucket does not lose what it has: an object that is written again, because
\* a file was uploaded twice or two files share their second and so their name,
\* extends what was there, on S3 whatever fails.  On GCS a failed upload may cut
\* the object, but only that of the file that stays current: the next upload
\* sends it again, whole.
ObjectsOnlyGrow ==
    [][\A k \in Files :
          \/ IsPrefix(objects[k], objects'[k])
          \/ backend = "gcs" /\ k = cur' /\ \E x \in Rotators : UploadFails(x)]_vars

\* A file that is not current any more is in the bucket, whole, unless the
\* FileSink's own worker rotated it away or a crash left it: RotateAndUpload
\* leaves no file behind, and none of which the bucket has a part only.
OnlySelfRotationStrands ==
    \A k \in 1..(cur - 1) : k \in selfRotated \cup abandoned \/ objects[k] = files[k]

\* Close returns although it waits for the ticker, for two workers and for two
\* mutexes that they use, and whatever fails on the way, unless the process dies
\* (and is open again).
CloseReturns == pc[Closer] # "open" ~> pc[Closer] \in {"open", "closed", "failed"}

-----------------------------------------------------------------------------
(* What comments and documentation say                                     *)

\* "Close stops background workers and flushes remaining data" (gcs.go): when
\* it reports success the current file is in the bucket, whole.
CloseFlushes == pc[Closer] = "closed" /\ ~dead => objects[cur] = files[cur]

\* "Automatic retry on transient failures" (internal/sinks/README.md): a file
\* whose upload failed gets to the bucket as long as the sink is open and its
\* file usable.
FailedUploadRetried ==
    \A k \in Files :
        k \in failedUploads ~> (objects[k] = files[k] \/ pc[Closer] # "open" \/ dead)
=============================================================================
