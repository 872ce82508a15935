------------------------- MODULE StagedUploadProofs -------------------------
(***************************************************************************)
(* The safety of the object storage sinks for any queue size and number of *)
(* messages, files and faults.                                             *)
(***************************************************************************)
EXTENDS StagedUpload, QueueLemmas

-----------------------------------------------------------------------------
(* Prefixes                                                                *)

\* IsPrefix, element by element.
LEMMA PrefixByElement ==
  ASSUME NEW S, NEW s \in Seq(S), NEW t \in Seq(S)
  PROVE  IsPrefix(s, t) <=> Len(s) <= Len(t) /\ \A i \in 1..Len(s) : s[i] = t[i]
<1>1. Len(s) \in Nat /\ Len(t) \in Nat
  BY LenProperties
<1>2. SubSeq(s, 1, Len(s)) = s
  BY SubSeqFull
<1>3. CASE Len(s) <= Len(t)
  <2> DEFINE p == SubSeq(t, 1, Len(s))
  <2>1. \A i \in 1..Len(s) : t[i] \in S
    BY <1>1, <1>3, ElementOfSeq
  <2>2. /\ p \in Seq(S)
        /\ Len(p) = IF 1 <= Len(s) THEN Len(s) - 1 + 1 ELSE 0
        /\ \A i \in 1..(Len(s) - 1 + 1) : p[i] = t[1 + i - 1]
    BY <1>1, <2>1, SubSeqProperties
  <2>3. Len(p) = Len(s) /\ \A i \in 1..Len(s) : p[i] = t[i]
    BY <1>1, <2>2
  <2>4. s = p <=> \A i \in 1..Len(s) : s[i] = t[i]
    <3> HIDE DEF p
    <3> QED
      BY <2>2, <2>3, SeqEqual
  <2> QED
    BY <1>2, <1>3, <2>4 DEF IsPrefix
<1>4. CASE ~(Len(s) <= Len(t))
  BY <1>4 DEF IsPrefix
<1> QED
  BY <1>3, <1>4

\* A sequence is a prefix of itself, and prefixes of prefixes are prefixes.
LEMMA PrefixReflexive ==
  ASSUME NEW S, NEW s \in Seq(S)
  PROVE  IsPrefix(s, s)
<1>1. Len(s) \in Nat
  BY LenProperties
<1> QED
  BY <1>1 DEF IsPrefix

LEMMA PrefixTransitive ==
  ASSUME NEW S, NEW s \in Seq(S), NEW t \in Seq(S), NEW u \in Seq(S),
         IsPrefix(s, t), IsPrefix(t, u)
  PROVE  IsPrefix(s, u)
<1>1. Len(s) \in Nat /\ Len(t) \in Nat /\ Len(u) \in Nat
  BY LenProperties
<1>2. /\ Len(s) <= Len(t) /\ \A i \in 1..Len(s) : s[i] = t[i]
      /\ Len(t) <= Len(u) /\ \A i \in 1..Len(t) : t[i] = u[i]
  BY PrefixByElement
<1>3. Len(s) <= Len(u) /\ \A i \in 1..Len(s) : s[i] = u[i]
  BY <1>1, <1>2
<1> QED
  BY <1>3, PrefixByElement

\* What is appended to a sequence has it as a prefix.
LEMMA PrefixOfConcat ==
  ASSUME NEW S, NEW s \in Seq(S), NEW t \in Seq(S)
  PROVE  IsPrefix(s, s \o t)
<1>1. /\ s \o t \in Seq(S)
      /\ Len(s \o t) = Len(s) + Len(t)
      /\ \A i \in 1..(Len(s) + Len(t)) :
           (s \o t)[i] = IF i <= Len(s) THEN s[i] ELSE t[i - Len(s)]
  BY ConcatProperties
<1>2. Len(s) \in Nat /\ Len(t) \in Nat
  BY LenProperties
<1>3. Len(s) <= Len(s \o t) /\ \A i \in 1..Len(s) : s[i] = (s \o t)[i]
  BY <1>1, <1>2
<1> QED
  BY <1>1, <1>3, PrefixByElement

\* A part of a sequence from its beginning is a prefix of it.
LEMMA PartIsPrefix ==
  ASSUME NEW S, NEW t \in Seq(S), NEW n \in 0..(Len(t) - 1)
  PROVE  SubSeq(t, 1, n) \in Seq(S) /\ IsPrefix(SubSeq(t, 1, n), t)
<1> DEFINE p == SubSeq(t, 1, n)
<1>1. n \in Nat /\ n <= Len(t) /\ Len(t) \in Nat
  BY LenProperties
<1>2. \A i \in 1..n : t[i] \in S
  BY <1>1, ElementOfSeq
<1>3. /\ p \in Seq(S)
      /\ Len(p) = IF 1 <= n THEN n - 1 + 1 ELSE 0
      /\ \A i \in 1..(n - 1 + 1) : p[i] = t[1 + i - 1]
  BY <1>1, <1>2, SubSeqProperties
<1>4. Len(p) = n /\ \A i \in 1..n : p[i] = t[i]
  BY <1>1, <1>3
<1>5. IsPrefix(p, t)
  <2> HIDE DEF p
  <2> QED
    BY <1>1, <1>3, <1>4, PrefixByElement
<1> QED
  BY <1>3, <1>5

-----------------------------------------------------------------------------
(* Types                                                                   *)

LEMMA InitTypeOK == Init => TypeOK
<1> SUFFICES ASSUME Init PROVE TypeOK
  OBVIOUS
<1>1. <<>> \in Seq(Messages) /\ Len(<<>>) = 0
  BY EmptySeq
<1>2. 0 <= Capacity /\ 0 <= MaxMessages /\ 1 \in Files /\ 0 \in 0..MaxFaults
  BY StagedAssumption DEF Files
<1>3. files \in [Files -> Seq(Messages)] /\ objects \in [Files -> Seq(Messages)]
  BY <1>1 DEF Init
<1>4. /\ pc[Ticker] = "select" /\ pc[Closer] = "open"
      /\ pc \in [Rotators -> {"select", "open"}]
  BY DEF Init, Rotators, Ticker, Closer
<1>5. {outer, inner, ohand, ihand, accepted} \subseteq Seq(Messages)
  BY <1>1 DEF Init
<1>6. {outerClosed, innerClosed, dead, overdue} \subseteq BOOLEAN
  BY DEF Init
<1>7. abandoned \cup selfRotated \cup failedUploads \subseteq Files
  BY DEF Init
<1>8. \A x \in Rotators :
        /\ pc[x] \in {"flock", "upload", "inner"} => smu = x
        /\ pc[x] = "upload" <=> fmu = x
  BY <1>4 DEF Init, Rotators, Ticker, Closer, Nobody
<1> QED
  BY <1>1, <1>2, <1>3, <1>4, <1>5, <1>6, <1>7, <1>8 DEF Init, TypeOK, MutexesHeld, Rotators, Nobody

\* The parts of TypeOK, for the provers' sake one by one.
LEMMA Parts ==
  ASSUME TypeOK
  PROVE  /\ outer \in Seq(Messages) /\ inner \in Seq(Messages) /\ accepted \in Seq(Messages)
         /\ ohand \in Seq(Messages) /\ ihand \in Seq(Messages)
         /\ outerClosed \in BOOLEAN /\ innerClosed \in BOOLEAN
         /\ dead \in BOOLEAN /\ overdue \in BOOLEAN
         /\ files[cur] \in Seq(Messages)
         /\ Len(outer) \in Nat /\ Len(inner) \in Nat /\ Len(accepted) \in Nat
         /\ Len(ohand) \in Nat /\ Len(ihand) \in Nat
  BY LenProperties DEF TypeOK

\* The rotation of FileSink.handleMessage and its write put "added" behind the
\* content of the current file or of its successor.
LEMMA Appends ==
  ASSUME TypeOK, NEW added \in Seq(Messages), RotateAndAppend(added)
  PROVE  \E k \in Files :
           /\ k \in {cur, cur + 1} /\ cur' = k /\ overdue' = FALSE
           /\ files' = [files EXCEPT ![k] = files[k] \o added]
           /\ files' \in [Files -> Seq(Messages)]
           /\ selfRotated' = IF k # cur THEN selfRotated \cup {cur} ELSE selfRotated
<1>1. PICK k \in Files :
        /\ IF overdue THEN NextFile(k) ELSE k = cur
        /\ cur' = k
        /\ files' = [files EXCEPT ![k] = (IF overdue THEN OpenAppending(k) ELSE @) \o added]
        /\ selfRotated' = IF k # cur THEN selfRotated \cup {cur} ELSE selfRotated
  BY DEF RotateAndAppend
<1>2. files[k] \in Seq(Messages) /\ files \in [Files -> Seq(Messages)]
  BY DEF TypeOK
<1>3. files[k] \o added \in Seq(Messages)
  BY <1>2, ConcatProperties
<1>4. files' = [files EXCEPT ![k] = files[k] \o added]
  BY <1>1 DEF OpenAppending
<1>5. k \in {cur, cur + 1}
  BY <1>1 DEF NextFile
<1>6. overdue' = FALSE
  BY DEF RotateAndAppend
<1> QED
  BY <1>1, <1>2, <1>3, <1>4, <1>5, <1>6

\* A rotation moves to a name of now and leaves every file as it is.
LEMMA RotateKeeps ==
  ASSUME TypeOK, Rotate
  PROVE  /\ cur' \in Files /\ cur' \in {cur, cur + 1} /\ files' = files
         /\ dead' \in BOOLEAN /\ overdue' \in BOOLEAN /\ faults' \in 0..MaxFaults
<1>1. files \in [Files -> Seq(Messages)] /\ cur \in Files /\ faults \in 0..MaxFaults
  BY DEF TypeOK
<1>2. CASE \E k \in Files : NextFile(k) /\ cur' = k /\ files' = [files EXCEPT ![k] = OpenAppending(k)]
  <2>1. cur' \in Files /\ cur' \in {cur, cur + 1} /\ files' = files
    BY <1>1, <1>2 DEF NextFile, OpenAppending
  <2>2. CASE overdue' = FALSE /\ NoFault /\ UNCHANGED dead
    BY <1>1, <2>1, <2>2, Parts DEF NoFault
  <2>3. CASE Fault /\ dead' = TRUE /\ UNCHANGED <<files, cur, overdue>>
    BY <1>1, <2>3, Parts, StagedAssumption DEF Fault
  <2> QED
    BY <2>2, <2>3 DEF Rotate
<1>3. CASE Fault /\ dead' = TRUE /\ UNCHANGED <<files, cur, overdue>>
  BY <1>1, <1>3, Parts, StagedAssumption DEF Fault
<1> QED
  BY <1>2, <1>3 DEF Rotate

\* An upload that returns gives back the mutexes, but for Close, which keeps the
\* sink's to close the FileSink.
LEMMA ReturnsKeepMutexes ==
  ASSUME MutexesHeld, NEW x \in Rotators, NEW ok \in BOOLEAN,
         pc[x] = "upload" \/ (pc[x] = "flock" /\ fmu = Nobody),
         UploadReturns(x, ok), opc' = opc
  PROVE  MutexesHeld'
  BY DEF MutexesHeld, UploadReturns, Goto, Rotators, Ticker, Closer, Worker, Nobody

LEMMA StepTypeOK == TypeOK /\ [Next]_vars => TypeOK'
<1> SUFFICES ASSUME TypeOK, [Next]_vars PROVE TypeOK'
  OBVIOUS
<1> USE StagedAssumption, Parts DEF vars, outerVars, kindVars, innerVars, fileVars, crashVars, histVars
<1>1. CASE WriteMessage
  <2>1. /\ Append(outer, Len(accepted) + 1) \in Seq(Messages)
        /\ Append(accepted, Len(accepted) + 1) \in Seq(Messages)
        /\ Len(Append(outer, Len(accepted) + 1)) = Len(outer) + 1
        /\ Len(Append(accepted, Len(accepted) + 1)) = Len(accepted) + 1
    BY <1>1, AppendProperties DEF WriteMessage
  <2> QED
    BY <1>1, <2>1 DEF WriteMessage, TypeOK, MutexesHeld, Messages
<1>2. CASE OuterReceive
  <2>1. /\ Head(outer) \in Messages /\ Tail(outer) \in Seq(Messages)
        /\ Len(Tail(outer)) = Len(outer) - 1
    BY <1>2, HeadTailProperties DEF OuterReceive
  <2>2. <<Head(outer)>> \in Seq(Messages) /\ Len(<<Head(outer)>>) = 1
    BY <2>1, Singleton
  <2> QED
    BY <1>2, <2>1, <2>2 DEF OuterReceive, TypeOK, MutexesHeld
<1>3. CASE OuterExit
  BY <1>3 DEF OuterExit, TypeOK, MutexesHeld
<1>4. CASE HandOver
  <2>1. inner \o ohand \in Seq(Messages) /\ Len(inner \o ohand) = Len(inner) + Len(ohand)
    BY ConcatProperties
  <2>2. <<>> \in Seq(Messages) /\ Len(<<>>) = 0
    BY EmptySeq
  <2> QED
    BY <1>4, <2>1, <2>2 DEF HandOver, InnerRoom, TypeOK, MutexesHeld
<1>5. CASE HandOverDropped
  <2>2. <<>> \in Seq(Messages) /\ Len(<<>>) = 0
    BY EmptySeq
  <2> QED
    BY <1>5, <2>2 DEF HandOverDropped, CountError, MutexReleased, TypeOK, MutexesHeld
<1>6. CASE HandOverWaits
  BY <1>6 DEF HandOverWaits, TypeOK, MutexesHeld, Rotators, Ticker, Closer, Worker, Nobody
<1>7. CASE InnerReceive
  <2>1. /\ Head(inner) \in Messages /\ Tail(inner) \in Seq(Messages)
        /\ Len(Tail(inner)) = Len(inner) - 1
    BY <1>7, HeadTailProperties DEF InnerReceive
  <2>2. <<Head(inner)>> \in Seq(Messages) /\ Len(<<Head(inner)>>) = 1
    BY <2>1, Singleton
  <2>3. /\ Tail(inner) \o ohand \in Seq(Messages)
        /\ Len(Tail(inner) \o ohand) = Len(inner) - 1 + Len(ohand)
    BY <2>1, ConcatProperties
  <2>4. <<>> \in Seq(Messages) /\ Len(<<>>) = 0
    BY EmptySeq
  <2>5. /\ ihand' = <<Head(inner)>> /\ ipc' = "handle"
        /\ UNCHANGED <<kindVars, outer, outerClosed, accepted, innerClosed, pc, fmu, fileVars,
                       objects, errors, histVars>>
    BY <1>7 DEF InnerReceive
  <2>6. CASE opc = "parked"
    <3>1. inner' = Tail(inner) \o ohand /\ opc' = "receive" /\ ohand' = <<>> /\ smu' = Nobody
      BY <1>7, <2>6 DEF InnerReceive, AdmitParked
    <3>2. inner' \in Seq(Messages) /\ Len(inner') <= Capacity
      BY <2>3, <2>6, <3>1 DEF TypeOK
    <3>3. smu = Worker
      BY <2>6 DEF TypeOK, MutexesHeld
    <3>4. \A x \in Rotators : pc[x] \notin {"flock", "upload", "inner"}
      BY <3>3 DEF TypeOK, MutexesHeld, Rotators, Ticker, Closer, Worker
    <3>5. {outer, inner, ohand, ihand, accepted}' \subseteq Seq(Messages)
      BY <2>2, <2>4, <2>5, <3>1, <3>2 DEF TypeOK
    <3> QED
      <4>1. MutexesHeld'
        BY <2>5, <3>1, <3>4 DEF TypeOK, MutexesHeld
      <4>2. UNCHANGED <<policy, backend, outer, outerClosed, accepted, innerClosed, files, cur,
                        dead, overdue, objects, errors, faults, crashLost, abandoned,
                        selfRotated, failedUploads>>
        BY <2>5
      <4> QED
        BY <2>2, <2>4, <2>5, <3>1, <3>2, <3>5, <4>1, <4>2 DEF TypeOK
  <2>7. CASE opc # "parked"
    <3>1. inner' = Tail(inner) /\ UNCHANGED <<opc, ohand, smu>>
      BY <1>7, <2>7 DEF InnerReceive
    <3>2. inner' \in Seq(Messages) /\ Len(inner') <= Capacity
      <4>1. Len(Tail(inner)) <= Capacity
        BY <2>1 DEF TypeOK
      <4> QED
        BY <2>1, <3>1, <4>1
    <3>3. {outer, inner, ohand, ihand, accepted}' \subseteq Seq(Messages)
      BY <2>2, <2>5, <3>1, <3>2 DEF TypeOK
    <3> QED
      BY <2>2, <2>5, <3>1, <3>2, <3>3 DEF TypeOK, MutexesHeld
  <2> QED
    BY <2>6, <2>7
<1>8. CASE InnerExit
  BY <1>8 DEF InnerExit, TypeOK, MutexesHeld
<1>9. CASE Stage
  <2>1. <<>> \in Seq(Messages) /\ Len(<<>>) = 0
    BY EmptySeq
  <2>2. RotateAndAppend(ihand)
    BY <1>9 DEF Stage
  <2>3. /\ cur' \in Files /\ files' \in [Files -> Seq(Messages)]
        /\ overdue' \in BOOLEAN /\ selfRotated' \subseteq Files
    BY <2>2, Appends DEF TypeOK
  <2> QED
    BY <1>9, <2>1, <2>3 DEF Stage, TypeOK, MutexesHeld
<1>10. CASE StageFails
  <2>1. <<>> \in Seq(Messages) /\ Len(<<>>) = 0
    BY EmptySeq
  <2>2. /\ cur' \in Files /\ files' \in [Files -> Seq(Messages)]
        /\ overdue' \in BOOLEAN /\ selfRotated' \subseteq Files
        /\ dead' \in BOOLEAN /\ faults' \in 0..MaxFaults
    <3>1. CASE RotateAndAppend(<<>>) /\ Fault /\ UNCHANGED dead
      <4>1. \E k \in Files :
              /\ k \in {cur, cur + 1} /\ cur' = k /\ overdue' = FALSE
              /\ files' \in [Files -> Seq(Messages)]
              /\ selfRotated' = IF k # cur THEN selfRotated \cup {cur} ELSE selfRotated
        <5>1. RotateAndAppend(<<>>)
          BY <3>1
        <5> HIDE <3>1
        <5> QED
          BY <2>1, <5>1, Appends
      <4> QED
        <5>1. faults' \in 0..MaxFaults /\ dead' \in BOOLEAN
          BY <3>1 DEF Fault, TypeOK
        <5>2. selfRotated \subseteq Files /\ cur \in Files
          BY DEF TypeOK
        <5> HIDE <3>1
        <5> QED
          BY <4>1, <5>1, <5>2
    <3>2. CASE Fault /\ dead' = TRUE /\ UNCHANGED <<files, cur, overdue, selfRotated>>
      BY <3>2 DEF Fault, TypeOK
    <3>3. CASE NoFault /\ UNCHANGED <<fileVars, selfRotated>>
      BY <3>3 DEF NoFault, TypeOK
    <3> QED
      BY <1>10, <3>1, <3>2, <3>3 DEF StageFails
  <2> QED
    BY <1>10, <2>1, <2>2 DEF StageFails, CountError, TypeOK, MutexesHeld
<1>11. CASE IntervalPasses
  BY <1>11 DEF IntervalPasses, TypeOK, MutexesHeld
<1>12. CASE Tick
  BY <1>12 DEF Tick, Goto, TypeOK, MutexesHeld, Rotators, Ticker, Closer
<1>13. CASE TickerStops
  BY <1>13 DEF TickerStops, Goto, TypeOK, MutexesHeld, Rotators, Ticker, Closer
<1>14. CASE Close
  BY <1>14 DEF Close, Goto, TypeOK, MutexesHeld, Rotators, Ticker, Closer
<1>15. CASE CloseOuter
  BY <1>15 DEF CloseOuter, Goto, TypeOK, MutexesHeld, Rotators, Ticker, Closer
<1>16. CASE OuterDrained
  BY <1>16 DEF OuterDrained, Goto, TypeOK, MutexesHeld, Rotators, Ticker, Closer
<1>17. ASSUME NEW x \in Rotators, Lock(x) PROVE TypeOK'
  BY <1>17 DEF Lock, Goto, TypeOK, MutexesHeld, Rotators, Ticker, Closer, Worker, Nobody
<1>18. ASSUME NEW x \in Rotators, LockFile(x) PROVE TypeOK'
  <2>1. MutexesHeld'
    BY <1>18 DEF LockFile, UploadReturns, Goto, TypeOK, MutexesHeld, Rotators, Ticker,
       Closer, Worker, Nobody
  <2>2. UNCHANGED <<outerVars, innerVars, fileVars, objects, errors, histVars>>
    BY <1>18 DEF LockFile
  <2> QED
    BY <2>1, <2>2 DEF TypeOK
<1>19. ASSUME NEW x \in Rotators, UploadOk(x) PROVE TypeOK'
  <2>1. objects' \in [Files -> Seq(Messages)]
    BY <1>19 DEF UploadOk, Stored, TypeOK
  <2>2. /\ files' \in [Files -> Seq(Messages)] /\ cur' \in Files
        /\ dead' \in BOOLEAN /\ overdue' \in BOOLEAN /\ faults' \in 0..MaxFaults
    <3>1. CASE UNCHANGED <<fileVars, faults>>
      BY <3>1 DEF TypeOK
    <3>2. CASE Rotate
      BY <3>2, RotateKeeps DEF NextFile, TypeOK
    <3> QED
      BY <1>19, <3>1, <3>2 DEF UploadOk
  <2>3. UploadReturns(x, TRUE) /\ pc[x] = "upload"
    BY <1>19 DEF UploadOk
  <2>4. MutexesHeld'
    BY <1>19, <2>3, ReturnsKeepMutexes DEF UploadOk, TypeOK
  <2> QED
    BY <1>19, <2>1, <2>2, <2>4 DEF UploadOk, TypeOK
<1>20. ASSUME NEW x \in Rotators, UploadFails(x) PROVE TypeOK'
  <2>1. objects' \in [Files -> Seq(Messages)]
    <3>1. CASE StoredInPart
      <4>1. PICK n \in 0..(Len(files[cur]) - 1) :
               objects' = [objects EXCEPT ![cur] = SubSeq(files[cur], 1, n)]
        BY <3>1 DEF StoredInPart
      <4>2. SubSeq(files[cur], 1, n) \in Seq(Messages)
        BY PartIsPrefix
      <4> QED
        BY <4>1, <4>2 DEF TypeOK
    <3>2. CASE Stored \/ UNCHANGED objects
      BY <3>2 DEF Stored, TypeOK
    <3> QED
      BY <1>20, <3>1, <3>2 DEF UploadFails
  <2>2. failedUploads' \subseteq Files /\ cur' \in Files /\ faults' \in 0..MaxFaults
    BY <1>20 DEF UploadFails, FileStays, Fault, TypeOK
  <2>3. UploadReturns(x, FALSE) /\ pc[x] = "upload"
    BY <1>20 DEF UploadFails
  <2>4. MutexesHeld'
    BY <1>20, <2>3, ReturnsKeepMutexes DEF UploadFails, TypeOK
  <2> QED
    BY <1>20, <2>1, <2>2, <2>4 DEF UploadFails, TypeOK
<1>21. CASE CloseInner
  BY <1>21 DEF CloseInner, TypeOK, MutexesHeld
<1>22. CASE CloseReturn
  BY <1>22 DEF CloseReturn, Goto, TypeOK, MutexesHeld, Rotators, Ticker, Closer, Worker, Nobody
<1>23. CASE Crash
  <2>1. {outer, inner, ohand, ihand, accepted}' \subseteq Seq(Messages)
    BY <1>23, EmptySeq DEF Crash, TypeOK
  <2>2. objects' \in [Files -> Seq(Messages)]
    BY <1>23 DEF Crash, Stored, TypeOK
  <2>3. /\ files' \in [Files -> Seq(Messages)] /\ cur' \in Files
        /\ abandoned' \subseteq Files /\ faults' \in 0..MaxFaults
    BY <1>23 DEF Crash, NextFile, OpenAppending, Fault, TypeOK
  <2>4. crashLost' \in Nat
    <3>1. /\ crashLost \in Nat /\ Len(ihand) \in Nat /\ Len(inner) \in Nat
          /\ Len(ohand) \in Nat /\ Len(outer) \in Nat
      BY Parts DEF TypeOK
    <3>2. \A a, b, c, d, e \in Nat : a + b + c + d + e \in Nat
      OBVIOUS
    <3> HIDE DEF TypeOK
    <3> QED
      BY <1>23, <3>1, <3>2 DEF Crash
  <2>5. Len(<<>>) = 0
    BY EmptySeq
  <2>6. /\ pc' \in [Rotators -> {"select", "open"}]
        /\ smu' = Nobody /\ fmu' = Nobody /\ opc' = "receive" /\ ipc' = "receive"
    BY <1>23 DEF Crash
  <2>7. MutexesHeld'
    BY <2>6 DEF MutexesHeld, Rotators, Nobody, Ticker, Closer
  <2>8. /\ UNCHANGED <<kindVars, accepted, errors, selfRotated, failedUploads>>
        /\ outer' = <<>> /\ inner' = <<>> /\ ohand' = <<>> /\ ihand' = <<>>
        /\ outerClosed' = FALSE /\ innerClosed' = FALSE /\ dead' = FALSE /\ overdue' = FALSE
    BY <1>23 DEF Crash
  <2>9. /\ Len(outer') <= Capacity /\ Len(inner') <= Capacity
        /\ Len(ohand') = 0 /\ Len(ihand') = 0 /\ Len(accepted') <= MaxMessages
    BY <2>5, <2>8 DEF TypeOK
  <2>10. /\ policy' \in Policies /\ backend' \in Backends /\ errors' \in Nat
         /\ {outerClosed, innerClosed, dead, overdue}' \subseteq BOOLEAN
         /\ (abandoned \cup selfRotated \cup failedUploads)' \subseteq Files
    BY <2>3, <2>8 DEF TypeOK
  <2> HIDE <1>23
  <2> QED
    BY <2>1, <2>2, <2>3, <2>4, <2>6, <2>7, <2>9, <2>10 DEF TypeOK
<1>24. CASE UNCHANGED vars
  BY <1>24 DEF TypeOK, MutexesHeld
<1> QED
  BY <1>1, <1>2, <1>3, <1>4, <1>5, <1>6, <1>7, <1>8, <1>9, <1>10, <1>11, <1>12, <1>13,
     <1>14, <1>15, <1>16, <1>17, <1>18, <1>19, <1>20, <1>21, <1>22, <1>23, <1>24
  DEF Next, OuterWorker, InnerWorker, Closing, Upload, Rotating, Ended

\* The sinks' state is well typed and neither queue outgrows its capacity; a
\* mutex is held by the goroutine that is in its critical section.
THEOREM TypeCorrect == Spec => []TypeOK
<1>1. Init => TypeOK
  BY InitTypeOK
<1>2. TypeOK /\ [Next]_vars => TypeOK'
  BY StepTypeOK
<1> QED
  BY <1>1, <1>2, PTL DEF Spec

-----------------------------------------------------------------------------
(* Files and objects                                                       *)

\* What a step does to files and objects: it appends to the current file or to
\* its successor, or copies the current file or, failing, a part of it to the
\* bucket, or none of these; and it leaves the current file for another only when
\* the bucket has it, when the FileSink rotates, or in a crash.
Cuts ==
    /\ StoredInPart
    /\ cur' = cur /\ files' = files
    /\ \E x \in Rotators : UploadFails(x)

FileStep ==
    /\ cur' \in {cur, cur + 1} /\ cur' \in Files
    /\ \/ files' = files
       \/ files' = [files EXCEPT ![cur'] = files[cur'] \o ihand]
    /\ \/ objects' = objects
       \/ Stored /\ files' = files
       \/ Cuts
    /\ selfRotated \subseteq selfRotated' /\ abandoned \subseteq abandoned'
    /\ cur' # cur =>
         cur \in selfRotated' \cup abandoned' \/ (Stored /\ files' = files)

LEMMA StepIsFileStep == TypeOK /\ [Next]_vars => FileStep
<1> SUFFICES ASSUME TypeOK, [Next]_vars PROVE FileStep
  OBVIOUS
<1> USE DEF vars, outerVars, kindVars, innerVars, fileVars, crashVars, histVars
<1>0. cur \in Files /\ files \in [Files -> Seq(Messages)] /\ ihand \in Seq(Messages)
  BY Parts DEF TypeOK
<1>1. CASE UNCHANGED <<files, cur, objects, crashVars, selfRotated>>
  BY <1>0, <1>1 DEF FileStep
<1>2. CASE Stage
  <2>1. RotateAndAppend(ihand)
    BY <1>2 DEF Stage
  <2>2. UNCHANGED <<objects, crashVars>>
    BY <1>2 DEF Stage
  <2> QED
    <3>1. PICK k \in Files :
            /\ k \in {cur, cur + 1} /\ cur' = k
            /\ files' = [files EXCEPT ![k] = files[k] \o ihand]
            /\ selfRotated' = IF k # cur THEN selfRotated \cup {cur} ELSE selfRotated
      BY <1>0, <2>1, Appends
    <3> QED
      BY <2>2, <3>1 DEF FileStep
<1>3. CASE StageFails
  <2>1. UNCHANGED <<objects, crashVars>>
    BY <1>3 DEF StageFails
  <2>2. CASE RotateAndAppend(<<>>)
    <3>1. <<>> \in Seq(Messages) /\ \A k \in Files : files[k] \o <<>> = files[k]
      BY <1>0, EmptySeq, ConcatEmptySeq
    <3>2. PICK k \in Files :
            /\ k \in {cur, cur + 1} /\ cur' = k
            /\ files' = [files EXCEPT ![k] = files[k] \o <<>>]
            /\ selfRotated' = IF k # cur THEN selfRotated \cup {cur} ELSE selfRotated
      BY <2>2, <3>1, Appends
    <3>3. files' = files
      BY <1>0, <3>1, <3>2
    <3> QED
      BY <2>1, <3>2, <3>3 DEF FileStep
  <2>3. CASE UNCHANGED <<files, cur, selfRotated>>
    BY <1>0, <2>1, <2>3 DEF FileStep
  <2> QED
    BY <1>3, <2>2, <2>3 DEF StageFails
<1>4. ASSUME NEW x \in Rotators, UploadOk(x) PROVE FileStep
  <2>1. Stored /\ UNCHANGED <<crashVars, selfRotated>>
    BY <1>4 DEF UploadOk
  <2>2. CASE Rotate
    BY <2>1, <2>2, RotateKeeps DEF FileStep
  <2>3. CASE UNCHANGED fileVars
    BY <1>0, <2>1, <2>3 DEF FileStep
  <2> QED
    BY <1>4, <2>2, <2>3 DEF UploadOk
<1>5. ASSUME NEW x \in Rotators, UploadFails(x) PROVE FileStep
  <2>1. cur' = cur /\ files' = files /\ UNCHANGED <<crashVars, selfRotated>>
    BY <1>5 DEF UploadFails, FileStays
  <2>2. CASE StoredInPart
    <3>1. Cuts
      BY <1>5, <2>1, <2>2 DEF Cuts
    <3> QED
      BY <1>0, <2>1, <3>1 DEF FileStep
  <2>3. CASE Stored \/ UNCHANGED objects
    BY <1>0, <2>1, <2>3 DEF FileStep
  <2> QED
    BY <1>5, <2>2, <2>3 DEF UploadFails
<1>6. CASE Crash
  <2>1. PICK k \in Files : NextFile(k) /\ cur' = k /\ files' = [files EXCEPT ![k] = OpenAppending(k)]
    BY <1>6 DEF Crash
  <2>2. cur' \in Files /\ cur' \in {cur, cur + 1} /\ files' = files
    BY <1>0, <2>1 DEF NextFile, OpenAppending
  <2>3. /\ abandoned' = abandoned \cup {cur} /\ selfRotated' = selfRotated
        /\ objects' = objects \/ Stored
    BY <1>6 DEF Crash
  <2> QED
    BY <2>2, <2>3 DEF FileStep
<1>7. ASSUME NEW x \in Rotators, Lock(x) \/ LockFile(x) PROVE FileStep
  BY <1>1, <1>7 DEF Lock, LockFile
<1>8. CASE \/ WriteMessage \/ OuterWorker \/ InnerReceive \/ InnerExit \/ IntervalPasses
           \/ Tick \/ TickerStops \/ Closing \/ UNCHANGED vars
  <2>1. UNCHANGED <<files, cur, objects, crashVars, selfRotated>>
    BY <1>8 DEF OuterWorker, Closing, WriteMessage, OuterReceive, OuterExit, HandOver,
       HandOverDropped, HandOverWaits, InnerReceive, InnerExit, IntervalPasses, Tick,
       TickerStops, Close, CloseOuter, OuterDrained, CloseInner, CloseReturn
  <2> QED
    BY <1>1, <2>1
<1> QED
  BY <1>2, <1>3, <1>4, <1>5, <1>6, <1>7, <1>8
  DEF Next, InnerWorker, Upload, Rotating, Ended

\* Every object is the beginning of its file.
ObjectsFollow == \A k \in Files : IsPrefix(objects[k], files[k])

LEMMA InitObjectsFollow == Init => ObjectsFollow
<1> SUFFICES ASSUME Init, NEW k \in Files PROVE IsPrefix(objects[k], files[k])
  BY DEF ObjectsFollow
<1>1. objects[k] = <<>> /\ files[k] = <<>> /\ <<>> \in Seq(Messages)
  BY EmptySeq DEF Init
<1> QED
  BY <1>1, PrefixReflexive

\* What ObjectsOnlyGrow says of the object k.
Grows(k) ==
    \/ IsPrefix(objects[k], objects'[k])
    \/ backend = "gcs" /\ k = cur' /\ \E x \in Rotators : UploadFails(x)

LEMMA StepObjectsFollow ==
  ASSUME TypeOK, TypeOK', ObjectsFollow, FileStep
  PROVE  ObjectsFollow' /\ \A k \in Files : Grows(k)
<1> SUFFICES ASSUME NEW k \in Files
             PROVE  IsPrefix(objects'[k], files'[k]) /\ Grows(k)
  BY DEF ObjectsFollow
<1>1. /\ objects[k] \in Seq(Messages) /\ files[k] \in Seq(Messages)
      /\ objects'[k] \in Seq(Messages) /\ files'[k] \in Seq(Messages)
      /\ ihand \in Seq(Messages)
  BY Parts DEF TypeOK
<1>2. IsPrefix(objects[k], files[k])
  BY DEF ObjectsFollow
<1>3. IsPrefix(files[k], files'[k])
  <2>1. files'[k] = files[k] \/ files'[k] = files[k] \o ihand
    BY DEF FileStep, TypeOK, Cuts
  <2> QED
    BY <1>1, <2>1, PrefixReflexive, PrefixOfConcat
<1>4. \/ objects'[k] = objects[k]
      \/ objects'[k] = files[k]
      \/ Cuts /\ k = cur
  <2>1. CASE Cuts
    BY <2>1 DEF Cuts, StoredInPart, TypeOK
  <2>2. CASE objects' = objects \/ Stored
    BY <2>2 DEF Stored, TypeOK
  <2> QED
    BY <2>1, <2>2 DEF FileStep
<1>5. CASE objects'[k] = objects[k]
  BY <1>1, <1>2, <1>3, <1>5, PrefixReflexive, PrefixTransitive DEF Grows
<1>6. CASE objects'[k] = files[k]
  BY <1>1, <1>2, <1>3, <1>6 DEF Grows
<1>7. CASE Cuts /\ k = cur
  <2>1. PICK n \in 0..(Len(files[cur]) - 1) :
           objects' = [objects EXCEPT ![cur] = SubSeq(files[cur], 1, n)]
    BY <1>7 DEF Cuts, StoredInPart
  <2>2. objects'[k] = SubSeq(files[k], 1, n)
    BY <1>7, <2>1 DEF TypeOK
  <2>3. IsPrefix(objects'[k], files[k])
    BY <1>1, <1>7, <2>2, PartIsPrefix
  <2>4. Grows(k)
    BY <1>7 DEF Grows, Cuts, StoredInPart
  <2> QED
    BY <1>1, <1>3, <2>3, <2>4, PrefixTransitive
<1> QED
  BY <1>4, <1>5, <1>6, <1>7

\* An object that is written again extends what the bucket had, but for a failed
\* upload to GCS, which may cut the object of the file that stays current
\* (gcs.go:184-187).
THEOREM BucketGrows == Spec => ObjectsOnlyGrow
<1>1. Init => TypeOK /\ ObjectsFollow
  BY InitTypeOK, InitObjectsFollow
<1>2. TypeOK /\ ObjectsFollow /\ [Next]_vars
        => /\ (TypeOK /\ ObjectsFollow)'
           /\ \A k \in Files : Grows(k)
  BY StepTypeOK, StepIsFileStep, StepObjectsFollow
<1>3. (\A k \in Files : Grows(k))
        => \A k \in Files :
             \/ IsPrefix(objects[k], objects'[k])
             \/ backend = "gcs" /\ k = cur' /\ \E x \in Rotators : UploadFails(x)
  BY DEF Grows
<1> QED
  BY <1>1, <1>2, <1>3, PTL DEF Spec, ObjectsOnlyGrow

LEMMA StepStrands ==
  ASSUME TypeOK, OnlySelfRotationStrands, FileStep
  PROVE  OnlySelfRotationStrands'
<1> SUFFICES ASSUME NEW k \in 1..(cur' - 1)
             PROVE  k \in selfRotated' \cup abandoned' \/ objects'[k] = files'[k]
  BY DEF OnlySelfRotationStrands
<1>1. /\ cur \in Nat /\ cur' \in {cur, cur + 1} /\ cur' \in Files /\ k \in Files
      /\ files \in [Files -> Seq(Messages)] /\ objects \in [Files -> Seq(Messages)]
  <2>1. cur \in Files /\ cur' \in Files /\ cur' \in {cur, cur + 1}
    BY DEF FileStep, TypeOK
  <2>2. \A c \in Files : \A l \in 1..(c - 1) : l \in Files
    BY StagedAssumption DEF Files
  <2> QED
    <3>1. k \in Files
      BY <2>1, <2>2
    <3>2. cur \in Nat
      BY <2>1, StagedAssumption DEF Files
    <3> QED
      BY <2>1, <3>1, <3>2 DEF TypeOK
<1>2. CASE k \in 1..(cur - 1)
  <2>1. k # cur /\ k # cur'
    BY <1>1, <1>2
  <2>2. files'[k] = files[k]
    BY <1>1, <2>1 DEF FileStep, Cuts
  <2>3. objects'[k] = objects[k]
    <3>1. CASE Cuts
      BY <1>1, <2>1, <3>1 DEF Cuts, StoredInPart
    <3>2. CASE objects' = objects \/ Stored
      BY <1>1, <2>1, <3>2 DEF Stored
    <3> QED
      BY <3>1, <3>2 DEF FileStep
  <2> QED
    BY <1>2, <2>2, <2>3 DEF OnlySelfRotationStrands, FileStep
<1>3. CASE k = cur /\ cur' # cur
  BY <1>1, <1>3 DEF FileStep, Stored
<1>4. k \in 1..(cur - 1) \/ (k = cur /\ cur' # cur)
  <2>1. cur \in Nat /\ cur' \in {cur, cur + 1}
    BY <1>1
  <2>2. \A c \in Nat : /\ k \in 1..((c + 1) - 1) => k \in 1..(c - 1) \/ k = c
                      /\ c + 1 # c
    OBVIOUS
  <2>3. CASE cur' = cur
    BY <2>3
  <2>4. CASE cur' = cur + 1
    BY <2>1, <2>2, <2>4
  <2> QED
    BY <2>1, <2>3, <2>4
<1> QED
  BY <1>2, <1>3, <1>4

\* RotateAndUpload leaves no file behind: the FileSink's own rotation and a
\* crash alone do.
THEOREM OnlySelfRotationLeavesFiles == Spec => []OnlySelfRotationStrands
<1>1. Init => TypeOK /\ OnlySelfRotationStrands
  BY InitTypeOK DEF Init, OnlySelfRotationStrands
<1>2. TypeOK /\ OnlySelfRotationStrands /\ [Next]_vars => (TypeOK /\ OnlySelfRotationStrands)'
  BY StepTypeOK, StepIsFileStep, StepStrands
<1> QED
  BY <1>1, <1>2, PTL DEF Spec

-----------------------------------------------------------------------------
(* Order                                                                   *)

Sorted(s) == \A i, j \in DOMAIN s : i < j => s[i] < s[j]
Below(s, t) == \A i \in DOMAIN s, j \in DOMAIN t : s[i] < t[j]

LEMMA EmptyOrder == Sorted(<<>>) /\ \A s : Below(<<>>, s) /\ Below(s, <<>>)
  BY DEF Sorted, Below

LEMMA SingletonOrder ==
  ASSUME NEW e, NEW f
  PROVE  Sorted(<<e>>) /\ (Below(<<e>>, <<f>>) <=> e < f)
  BY DEF Sorted, Below

\* Where the elements of a concatenation come from.
LEMMA ElementsOfConcat ==
  ASSUME NEW S, NEW s \in Seq(S), NEW t \in Seq(S)
  PROVE  /\ s \o t \in Seq(S)
         /\ \A i \in DOMAIN s : i \in DOMAIN (s \o t) /\ (s \o t)[i] = s[i]
         /\ \A j \in DOMAIN t : j + Len(s) \in DOMAIN (s \o t) /\ (s \o t)[j + Len(s)] = t[j]
         /\ \A i \in DOMAIN (s \o t) :
              \/ i \in DOMAIN s
              \/ i - Len(s) \in DOMAIN t /\ i = (i - Len(s)) + Len(s)
         /\ DOMAIN s = 1..Len(s) /\ DOMAIN t = 1..Len(t)
         /\ Len(s) \in Nat /\ Len(t) \in Nat
<1>1. /\ s \o t \in Seq(S)
      /\ Len(s \o t) = Len(s) + Len(t)
      /\ \A i \in 1..(Len(s) + Len(t)) :
           (s \o t)[i] = IF i <= Len(s) THEN s[i] ELSE t[i - Len(s)]
  BY ConcatProperties
<1>2. /\ Len(s) \in Nat /\ Len(t) \in Nat
      /\ DOMAIN s = 1..Len(s) /\ DOMAIN t = 1..Len(t)
  BY LenProperties
<1>3. DOMAIN (s \o t) = 1..(Len(s) + Len(t))
  BY <1>1, LenProperties
<1>4. \A j \in 1..Len(t) : j + Len(s) \in 1..(Len(s) + Len(t)) /\ ~(j + Len(s) <= Len(s))
                           /\ (j + Len(s)) - Len(s) = j
  BY <1>2
<1>5. \A i \in DOMAIN s : i \in DOMAIN (s \o t) /\ (s \o t)[i] = s[i]
  BY <1>1, <1>2, <1>3
<1>6. \A j \in DOMAIN t : j + Len(s) \in DOMAIN (s \o t) /\ (s \o t)[j + Len(s)] = t[j]
  BY <1>1, <1>2, <1>3, <1>4
<1>7. \A i \in DOMAIN (s \o t) :
        \/ i \in DOMAIN s
        \/ i - Len(s) \in DOMAIN t /\ i = (i - Len(s)) + Len(s)
  BY <1>2, <1>3
<1> QED
  BY <1>1, <1>2, <1>5, <1>6, <1>7

LEMMA BelowConcat ==
  ASSUME NEW S, NEW s \in Seq(S), NEW t \in Seq(S), NEW u
  PROVE  /\ Below(s \o t, u) <=> Below(s, u) /\ Below(t, u)
         /\ Below(u, s \o t) <=> Below(u, s) /\ Below(u, t)
<1> DEFINE c == s \o t
<1>1. /\ \A i \in DOMAIN s : i \in DOMAIN c /\ c[i] = s[i]
      /\ \A j \in DOMAIN t : j + Len(s) \in DOMAIN c /\ c[j + Len(s)] = t[j]
      /\ \A i \in DOMAIN c :
           \/ i \in DOMAIN s
           \/ i - Len(s) \in DOMAIN t /\ i = (i - Len(s)) + Len(s)
  BY ElementsOfConcat
<1>2. \A i \in DOMAIN c : (\E k \in DOMAIN s : c[i] = s[k]) \/ (\E k \in DOMAIN t : c[i] = t[k])
  BY <1>1
<1>3. /\ \A k \in DOMAIN s : \E i \in DOMAIN c : c[i] = s[k]
      /\ \A k \in DOMAIN t : \E i \in DOMAIN c : c[i] = t[k]
  BY <1>1
<1> HIDE DEF c
<1>4. Below(c, u) <=> Below(s, u) /\ Below(t, u)
  BY <1>2, <1>3 DEF Below
<1>5. Below(u, c) <=> Below(u, s) /\ Below(u, t)
  BY <1>2, <1>3 DEF Below
<1> QED
  BY <1>4, <1>5 DEF c

LEMMA SortedConcat ==
  ASSUME NEW S, NEW s \in Seq(S), NEW t \in Seq(S)
  PROVE  Sorted(s \o t) <=> Sorted(s) /\ Sorted(t) /\ Below(s, t)
<1> DEFINE c == s \o t
           n == Len(s)
<1>1. /\ \A i \in DOMAIN s : i \in DOMAIN c /\ c[i] = s[i]
      /\ \A j \in DOMAIN t : j + n \in DOMAIN c /\ c[j + n] = t[j]
      /\ \A i \in DOMAIN c :
           \/ i \in DOMAIN s
           \/ i - n \in DOMAIN t /\ i = (i - n) + n
      /\ DOMAIN s = 1..n /\ DOMAIN t = 1..Len(t)
      /\ n \in Nat /\ Len(t) \in Nat
  BY ElementsOfConcat
<1> HIDE DEF c, n
<1>2. ASSUME Sorted(c) PROVE Sorted(s) /\ Sorted(t) /\ Below(s, t)
  <2>1. Sorted(s)
    BY <1>1, <1>2 DEF Sorted
  <2>2. \A i, j \in DOMAIN t : i < j => i + n < j + n
    BY <1>1
  <2>3. Sorted(t)
    BY <1>1, <1>2, <2>2 DEF Sorted
  <2>4. \A i \in DOMAIN s, j \in DOMAIN t : i < j + n
    BY <1>1
  <2>5. Below(s, t)
    BY <1>1, <1>2, <2>4 DEF Sorted, Below
  <2> QED
    BY <2>1, <2>3, <2>5
<1>3. ASSUME Sorted(s), Sorted(t), Below(s, t) PROVE Sorted(c)
  <2> SUFFICES ASSUME NEW i \in DOMAIN c, NEW j \in DOMAIN c, i < j PROVE c[i] < c[j]
    BY DEF Sorted
  <2>1. CASE i \in DOMAIN s /\ j \in DOMAIN s
    BY <1>1, <1>3, <2>1 DEF Sorted
  <2>2. CASE i \in DOMAIN s /\ j - n \in DOMAIN t /\ j = (j - n) + n
    BY <1>1, <1>3, <2>2 DEF Below
  <2>3. CASE i - n \in DOMAIN t /\ i = (i - n) + n /\ j - n \in DOMAIN t /\ j = (j - n) + n
    <3>1. i - n < j - n
      BY <1>1, <2>3
    <3> QED
      BY <1>1, <1>3, <2>3, <3>1 DEF Sorted
  <2>4. ~(i - n \in DOMAIN t /\ i = (i - n) + n /\ j \in DOMAIN s)
    BY <1>1
  <2> QED
    BY <1>1, <2>1, <2>2, <2>3, <2>4
<1> QED
  BY <1>2, <1>3 DEF c

\* The number of the next message, which is above all that the sink has.
Fresh == <<Len(accepted) + 1>>

\* What is on its way to the files is in order, from place to place.
LineInv ==
    /\ Sorted(ihand) /\ Sorted(inner) /\ Sorted(ohand) /\ Sorted(outer)
    /\ Below(ihand, inner) /\ Below(ihand, ohand) /\ Below(ihand, outer) /\ Below(ihand, Fresh)
    /\ Below(inner, ohand) /\ Below(inner, outer) /\ Below(inner, Fresh)
    /\ Below(ohand, outer) /\ Below(ohand, Fresh) /\ Below(outer, Fresh)

Ahead(s) ==
    /\ Below(s, ihand) /\ Below(s, inner) /\ Below(s, ohand) /\ Below(s, outer)
    /\ Below(s, Fresh)

\* The files are in order, each and from one to the next, and ahead of what is
\* on its way; those after the current one are empty.
FilesInv ==
    \A k \in Files :
        /\ Sorted(files[k]) /\ Ahead(files[k])
        /\ k > cur => files[k] = <<>>
        /\ \A l \in Files : k < l => Below(files[k], files[l])

LEMMA InitOrder == Init => LineInv /\ FilesInv
  BY EmptyOrder DEF Init, LineInv, FilesInv, Ahead

LEMMA FreshGrows ==
  ASSUME NEW s \in Seq(Messages), NEW n \in Nat, Below(s, <<n>>)
  PROVE  Below(s, <<n + 1>>)
<1>1. \A i \in DOMAIN s : s[i] \in Int
  BY ElementOfSeq, LenProperties, StagedAssumption DEF Messages
<1>2. \A i \in DOMAIN s : s[i] < n
  BY DEF Below
<1>3. \A i \in DOMAIN s : s[i] < n + 1
  BY <1>1, <1>2
<1> QED
  BY <1>3 DEF Below

\* Taking the first message from a queue into an empty hand.
LEMMA TakeHead ==
  ASSUME NEW q \in Seq(Messages), q # <<>>, Sorted(q)
  PROVE  /\ <<Head(q)>> \in Seq(Messages) /\ Tail(q) \in Seq(Messages)
         /\ Sorted(<<Head(q)>>) /\ Sorted(Tail(q)) /\ Below(<<Head(q)>>, Tail(q))
         /\ \A u : Below(q, u) <=> Below(<<Head(q)>>, u) /\ Below(Tail(q), u)
         /\ \A u : Below(u, q) <=> Below(u, <<Head(q)>>) /\ Below(u, Tail(q))
<1>1. Head(q) \in Messages /\ Tail(q) \in Seq(Messages)
  BY HeadTailProperties
<1>2. <<Head(q)>> \in Seq(Messages)
  BY <1>1, Singleton
<1>3. <<Head(q)>> \o Tail(q) = q
  BY HeadThenTail
<1>4. Sorted(<<Head(q)>>) /\ Sorted(Tail(q)) /\ Below(<<Head(q)>>, Tail(q))
  BY <1>1, <1>2, <1>3, SortedConcat
<1>5. \A u : /\ Below(q, u) <=> Below(<<Head(q)>>, u) /\ Below(Tail(q), u)
             /\ Below(u, q) <=> Below(u, <<Head(q)>>) /\ Below(u, Tail(q))
  <2> TAKE u
  <2>1. /\ Below(<<Head(q)>> \o Tail(q), u) <=> Below(<<Head(q)>>, u) /\ Below(Tail(q), u)
        /\ Below(u, <<Head(q)>> \o Tail(q)) <=> Below(u, <<Head(q)>>) /\ Below(u, Tail(q))
    BY <1>1, <1>2, BelowConcat
  <2> QED
    BY <1>3, <2>1
<1> QED
  BY <1>1, <1>2, <1>4, <1>5

\* A step keeps the order of what is on its way and puts nothing in front of it;
\* when it changes the files, the message in the FileSink's hand leaves it.
LEMMA StepLine ==
  ASSUME TypeOK, LineInv, [Next]_vars
  PROVE  /\ LineInv'
         /\ \A s \in Seq(Messages) : Ahead(s) => Ahead(s)'
         /\ files' = files \/ \A s : s = ihand => Ahead(s)'
<1> DEFINE Kept == \A s \in Seq(Messages) : Ahead(s) => Ahead(s)'
<1> USE Parts DEF vars, outerVars, kindVars, innerVars, fileVars, crashVars, histVars
<1>0. files \in [Files -> Seq(Messages)] /\ <<>> \in Seq(Messages)
  BY EmptySeq DEF TypeOK
<1>1. CASE WriteMessage
  <2> DEFINE n == Len(accepted)
  <2>1. /\ outer' = Append(outer, n + 1) /\ accepted' = Append(accepted, n + 1)
        /\ n + 1 \in Messages
        /\ UNCHANGED <<ihand, inner, ohand, files>>
    BY <1>1 DEF WriteMessage
  <2>2. outer' = outer \o <<n + 1>> /\ <<n + 1>> \in Seq(Messages) /\ Len(accepted') = n + 1
    BY <2>1, AppendProperties, AppendIsConcat, Singleton
  <2>3. Fresh = <<n + 1>> /\ Fresh' = <<(n + 1) + 1>> /\ n + 1 \in Nat
    BY <2>2 DEF Fresh
  <2> HIDE DEF n
  <2>4. \A s \in Seq(Messages) : Below(s, Fresh) => Below(s, Fresh')
    BY <2>3, FreshGrows
  <2>5. Sorted(<<n + 1>>) /\ Below(<<n + 1>>, Fresh')
    BY <2>3, SingletonOrder
  <2>6. \A u : /\ Below(outer', u) <=> Below(outer, u) /\ Below(<<n + 1>>, u)
               /\ Below(u, outer') <=> Below(u, outer) /\ Below(u, <<n + 1>>)
    <3>1. outer \in Seq(Messages)
      OBVIOUS
    <3>2. \A t \in Seq(Messages) : \A u :
            /\ Below(outer \o t, u) <=> Below(outer, u) /\ Below(t, u)
            /\ Below(u, outer \o t) <=> Below(u, outer) /\ Below(u, t)
      BY <3>1, BelowConcat
    <3> QED
      BY <2>2, <3>2
  <2>7. Sorted(outer') /\ Below(outer', Fresh')
    <3>1. Sorted(outer') <=> Sorted(outer) /\ Sorted(<<n + 1>>) /\ Below(outer, <<n + 1>>)
      BY <2>2, SortedConcat
    <3> QED
      BY <2>3, <2>4, <2>5, <2>6, <3>1 DEF LineInv
  <2>8. LineInv'
    BY <2>1, <2>3, <2>4, <2>6, <2>7 DEF LineInv
  <2>9. Kept
    BY <2>1, <2>3, <2>4, <2>6 DEF Ahead
  <2> QED
    BY <2>1, <2>8, <2>9
<1>2. CASE OuterReceive
  <2>1. /\ outer # <<>> /\ outer' = Tail(outer) /\ ohand' = <<Head(outer)>>
        /\ UNCHANGED <<ihand, inner, accepted, files>>
    BY <1>2 DEF OuterReceive
  <2>2. Fresh' = Fresh
    BY <2>1 DEF Fresh
  <2>3. /\ Sorted(ohand') /\ Sorted(outer') /\ Below(ohand', outer')
        /\ \A u : Below(outer, u) <=> Below(ohand', u) /\ Below(outer', u)
        /\ \A u : Below(u, outer) <=> Below(u, ohand') /\ Below(u, outer')
    BY <2>1, TakeHead DEF LineInv
  <2>4. LineInv'
    BY <2>1, <2>2, <2>3 DEF LineInv
  <2>5. Kept
    BY <2>1, <2>2, <2>3 DEF Ahead
  <2> QED
    BY <2>1, <2>4, <2>5
<1>3. CASE HandOver
  <2>1. /\ inner' = inner \o ohand /\ ohand' = <<>>
        /\ UNCHANGED <<ihand, outer, accepted, files>>
    BY <1>3 DEF HandOver
  <2>2. Fresh' = Fresh
    BY <2>1 DEF Fresh
  <2>3. Sorted(inner')
    BY <2>1, SortedConcat DEF LineInv
  <2>4. \A u : /\ Below(inner', u) <=> Below(inner, u) /\ Below(ohand, u)
               /\ Below(u, inner') <=> Below(u, inner) /\ Below(u, ohand)
    BY <2>1, BelowConcat
  <2>5. LineInv'
    BY <2>1, <2>2, <2>3, <2>4, EmptyOrder DEF LineInv
  <2>6. Kept
    BY <2>1, <2>2, <2>4, EmptyOrder DEF Ahead
  <2> QED
    BY <2>1, <2>5, <2>6
<1>4. CASE HandOverDropped
  <2>1. ohand' = <<>> /\ UNCHANGED <<ihand, inner, outer, accepted, files>>
    BY <1>4 DEF HandOverDropped
  <2>2. Fresh' = Fresh
    BY <2>1 DEF Fresh
  <2>3. LineInv'
    BY <2>1, <2>2, EmptyOrder DEF LineInv
  <2>4. Kept
    BY <2>1, <2>2, EmptyOrder DEF Ahead
  <2> QED
    BY <2>1, <2>3, <2>4
<1>5. CASE InnerReceive
  <2>1. /\ inner # <<>> /\ ihand' = <<Head(inner)>>
        /\ UNCHANGED <<outer, accepted, files>>
    BY <1>5 DEF InnerReceive
  <2>2. Fresh' = Fresh
    BY <2>1 DEF Fresh
  <2>3. /\ Tail(inner) \in Seq(Messages)
        /\ Sorted(ihand') /\ Sorted(Tail(inner)) /\ Below(ihand', Tail(inner))
        /\ \A u : Below(inner, u) <=> Below(ihand', u) /\ Below(Tail(inner), u)
        /\ \A u : Below(u, inner) <=> Below(u, ihand') /\ Below(u, Tail(inner))
    BY <2>1, TakeHead DEF LineInv
  <2>4. CASE opc = "parked"
    <3>1. inner' = Tail(inner) \o ohand /\ ohand' = <<>>
      BY <1>5, <2>4 DEF InnerReceive, AdmitParked
    <3>2. Sorted(inner') <=> Sorted(Tail(inner)) /\ Sorted(ohand) /\ Below(Tail(inner), ohand)
      BY <2>3, <3>1, SortedConcat
    <3>3. \A u : /\ Below(inner', u) <=> Below(Tail(inner), u) /\ Below(ohand, u)
                 /\ Below(u, inner') <=> Below(u, Tail(inner)) /\ Below(u, ohand)
      <4> DEFINE t == Tail(inner)
      <4>1. t \in Seq(Messages) /\ ohand \in Seq(Messages)
        BY <2>3, Parts
      <4> HIDE DEF t
      <4>2. \A u : /\ Below(t \o ohand, u) <=> Below(t, u) /\ Below(ohand, u)
                   /\ Below(u, t \o ohand) <=> Below(u, t) /\ Below(u, ohand)
        BY <4>1, BelowConcat
      <4> QED
        BY <3>1, <4>2 DEF t
    <3>4. LineInv'
      BY <2>1, <2>2, <2>3, <3>1, <3>2, <3>3, EmptyOrder DEF LineInv
    <3>5. Kept
      BY <2>1, <2>2, <2>3, <3>1, <3>3, EmptyOrder DEF Ahead
    <3> QED
      BY <2>1, <3>4, <3>5
  <2>5. CASE opc # "parked"
    <3>1. inner' = Tail(inner) /\ UNCHANGED ohand
      BY <1>5, <2>5 DEF InnerReceive
    <3>2. LineInv'
      BY <2>1, <2>2, <2>3, <3>1 DEF LineInv
    <3>3. Kept
      BY <2>1, <2>2, <2>3, <3>1 DEF Ahead
    <3> QED
      BY <2>1, <3>2, <3>3
  <2> QED
    BY <2>4, <2>5
<1>6. CASE Stage \/ StageFails
  <2>1. ihand' = <<>> /\ UNCHANGED <<inner, ohand, outer, accepted>>
    BY <1>6 DEF Stage, StageFails
  <2>2. Fresh' = Fresh
    BY <2>1 DEF Fresh
  <2>3. LineInv'
    BY <2>1, <2>2, EmptyOrder DEF LineInv
  <2>4. Kept
    BY <2>1, <2>2, EmptyOrder DEF Ahead
  <2>5. \A s : s = ihand => Ahead(s)'
    BY <2>1, <2>2, EmptyOrder DEF LineInv, Ahead
  <2> QED
    BY <2>3, <2>4, <2>5
<1>7. CASE Crash
  <2>1. /\ ihand' = <<>> /\ inner' = <<>> /\ ohand' = <<>> /\ outer' = <<>>
        /\ UNCHANGED accepted
    BY <1>7 DEF Crash
  <2>2. files' = files
    BY <1>0, <1>7 DEF Crash, OpenAppending
  <2>3. Fresh' = Fresh
    BY <2>1 DEF Fresh
  <2>4. LineInv'
    BY <2>1, <2>3, EmptyOrder DEF LineInv
  <2>5. Kept
    BY <2>1, <2>3, EmptyOrder DEF Ahead
  <2> QED
    BY <2>2, <2>4, <2>5
<1>8. ASSUME UNCHANGED <<ihand, inner, ohand, outer, accepted, files>>
      PROVE  LineInv' /\ Kept /\ files' = files
  <2>1. Fresh' = Fresh
    BY <1>8 DEF Fresh
  <2> QED
    BY <1>8, <2>1 DEF LineInv, Ahead
<1>9. CASE \/ OuterExit \/ HandOverWaits \/ InnerExit \/ IntervalPasses
           \/ Tick \/ TickerStops \/ Closing \/ UNCHANGED vars
  <2>1. UNCHANGED <<ihand, inner, ohand, outer, accepted, files>>
    BY <1>9 DEF Closing, OuterExit, HandOverWaits, InnerExit, IntervalPasses, Tick,
       TickerStops, Close, CloseOuter, OuterDrained, CloseInner, CloseReturn
  <2> QED
    BY <1>8, <2>1
<1>10. ASSUME NEW x \in Rotators, Rotating(x)
       PROVE  UNCHANGED <<ihand, inner, ohand, outer, accepted, files>>
  <2>1. CASE Lock(x) \/ LockFile(x) \/ UploadFails(x)
    BY <2>1 DEF Lock, LockFile, UploadFails
  <2>2. CASE UploadOk(x)
    BY <2>2, RotateKeeps DEF UploadOk
  <2> QED
    BY <1>10, <2>1, <2>2 DEF Rotating, Upload
<1> QED
  BY <1>1, <1>2, <1>3, <1>4, <1>5, <1>6, <1>7, <1>8, <1>9, <1>10
  DEF Next, OuterWorker, InnerWorker, Ended

LEMMA StepFiles ==
  ASSUME TypeOK, LineInv, FilesInv, FileStep,
         \A s \in Seq(Messages) : Ahead(s) => Ahead(s)',
         files' = files \/ \A s : s = ihand => Ahead(s)'
  PROVE  FilesInv'
<1>1. /\ files \in [Files -> Seq(Messages)] /\ ihand \in Seq(Messages)
      /\ cur \in Files /\ cur' \in Files /\ cur' \in {cur, cur + 1}
      /\ \A k \in Files : k \in Nat
  <2>1. \A k \in Files : k \in Nat
    BY StagedAssumption DEF Files
  <2> QED
    BY <2>1, Parts DEF TypeOK, FileStep
<1>2. \A k \in Files : k > cur' => k > cur
  BY <1>1
<1>3. CASE files' = files
  <2>1. \A k \in Files : Ahead(files[k])'
    BY <1>1, <1>3 DEF FilesInv
  <2> QED
    BY <1>2, <1>3, <2>1 DEF FilesInv
<1>4. CASE files' # files
  <2> DEFINE n == cur'
             f == files[n] \o ihand
  <2>1. files' = [files EXCEPT ![n] = f]
    BY <1>4 DEF FileStep
  <2>2. n \in Files /\ files[n] \in Seq(Messages) /\ f \in Seq(Messages)
    BY <1>1, ConcatProperties
  <2>3. \A s : s = ihand => Ahead(s)'
    BY <1>4
  <2>4. Sorted(f) <=> Sorted(files[n]) /\ Sorted(ihand) /\ Below(files[n], ihand)
    BY <1>1, <2>2, SortedConcat
  <2>5. \A u : /\ Below(f, u) <=> Below(files[n], u) /\ Below(ihand, u)
               /\ Below(u, f) <=> Below(u, files[n]) /\ Below(u, ihand)
    BY <1>1, <2>2, BelowConcat
  <2>6. Sorted(f)
    BY <2>2, <2>4 DEF FilesInv, LineInv, Ahead
  <2> HIDE DEF n, f
  <2>7. \A s : s = f => Ahead(s)'
    BY <1>1, <2>2, <2>3, <2>5 DEF FilesInv, Ahead
  <2>8. \A k \in Files : k > n => files[k] = <<>>
    BY <1>2 DEF FilesInv, n
  <2>9. /\ \A k \in Files : k # n => files'[k] = files[k]
        /\ files'[n] = f
    BY <1>1, <2>1, <2>2
  <2>10. ASSUME NEW k \in Files PROVE Sorted(files'[k]) /\ Ahead(files[k])'
    BY <1>1, <2>6, <2>7, <2>9 DEF FilesInv
  <2>11. ASSUME NEW k \in Files, k > cur' PROVE files'[k] = <<>>
    BY <1>1, <2>2, <2>8, <2>9, <2>11 DEF n
  <2>12. ASSUME NEW k \in Files, NEW l \in Files, k < l PROVE Below(files'[k], files'[l])
    <3>1. CASE k # n /\ l # n
      BY <2>9, <2>12, <3>1 DEF FilesInv
    <3>2. CASE l = n
      <4>1. k # n
        BY <1>1, <2>12, <3>2
      <4>2. Below(files[k], files[n]) /\ Below(files[k], ihand)
        BY <2>12, <3>2 DEF FilesInv, Ahead
      <4> QED
        BY <2>5, <2>9, <3>2, <4>1, <4>2
    <3>3. CASE k = n
      <4>1. l # n /\ l > n
        BY <1>1, <2>12, <3>3
      <4> QED
        BY <2>8, <2>9, <4>1, EmptyOrder
    <3> QED
      BY <3>1, <3>2, <3>3
  <2> QED
    BY <2>10, <2>11, <2>12 DEF FilesInv
<1> QED
  BY <1>3, <1>4

\* The places of the sink: first its files, then hands and queues.
LEMMA PlaceOf ==
  ASSUME TypeOK, NEW p \in DOMAIN Places
  PROVE  /\ p \in Nat
         /\ \/ p \in Files /\ Places[p] = files[p]
            \/ p = MaxFiles + 1 /\ Places[p] = ihand
            \/ p = MaxFiles + 2 /\ Places[p] = inner
            \/ p = MaxFiles + 3 /\ Places[p] = ohand
            \/ p = MaxFiles + 4 /\ Places[p] = outer
<1> DEFINE S == Seq(Messages)
           way == <<ihand, inner, ohand, outer>>
<1>1. /\ files \in Seq(S) /\ Len(files) = MaxFiles /\ MaxFiles \in Nat
      /\ Files = 1..MaxFiles
  BY StagedAssumption, IsASeq, LenProperties DEF TypeOK, Files
<1>2. way \in Seq(S) /\ Len(way) = 4
  BY Parts
<1>3. /\ Places \in Seq(S) /\ Len(Places) = MaxFiles + 4
      /\ \A i \in 1..(MaxFiles + 4) :
           Places[i] = IF i <= MaxFiles THEN files[i] ELSE way[i - MaxFiles]
  BY <1>1, <1>2, ConcatProperties DEF Places
<1>4. p \in 1..(MaxFiles + 4)
  BY <1>3, LenProperties
<1> HIDE DEF S
<1>5. CASE p <= MaxFiles
  <2>1. p \in Files /\ p \in Nat
    BY <1>1, <1>4, <1>5
  <2>2. Places[p] = files[p]
    BY <1>3, <1>4, <1>5
  <2> QED
    BY <2>1, <2>2
<1>6. ASSUME NEW j \in 1..4, p = MaxFiles + j
      PROVE  Places[p] = way[j]
  <2>1. ~(p <= MaxFiles) /\ p - MaxFiles = j
    BY <1>1, <1>6
  <2> HIDE DEF way
  <2> QED
    BY <1>3, <1>4, <2>1
<1>7. p \in Nat /\ (p <= MaxFiles \/ \E j \in 1..4 : p = MaxFiles + j)
  <2>1. p > MaxFiles => p - MaxFiles \in 1..4 /\ p = MaxFiles + (p - MaxFiles)
    BY <1>1, <1>4
  <2> QED
    BY <1>1, <1>4, <2>1
<1>8. CASE \E j \in 1..4 : p = MaxFiles + j
  <2>1. PICK j \in 1..4 : p = MaxFiles + j
    BY <1>8
  <2>2. Places[p] = way[j]
    BY <1>6, <2>1
  <2> QED
    BY <1>7, <2>1, <2>2
<1> QED
  BY <1>5, <1>7, <1>8

LEMMA OrderImpliesStagedInOrder ==
  ASSUME TypeOK, LineInv, FilesInv
  PROVE  StagedInOrder
<1> SUFFICES ASSUME NEW p \in DOMAIN Places, NEW q \in DOMAIN Places
             PROVE  /\ p < q => Below(Places[p], Places[q])
                    /\ Sorted(Places[p])
  BY DEF StagedInOrder, Sorted, Below
<1>1. MaxFiles \in Nat /\ \A k \in Files : k \in Nat /\ k <= MaxFiles
  BY StagedAssumption DEF Files
<1>2. Sorted(Places[p])
  BY PlaceOf DEF LineInv, FilesInv
<1>3. CASE p \in Files /\ Places[p] = files[p]
  BY <1>1, <1>3, PlaceOf DEF FilesInv, Ahead
<1>4. CASE p = MaxFiles + 1 /\ Places[p] = ihand
  BY <1>1, <1>4, PlaceOf DEF LineInv
<1>5. CASE p = MaxFiles + 2 /\ Places[p] = inner
  BY <1>1, <1>5, PlaceOf DEF LineInv
<1>6. CASE p = MaxFiles + 3 /\ Places[p] = ohand
  BY <1>1, <1>6, PlaceOf DEF LineInv
<1>7. CASE p = MaxFiles + 4
  <2>1. q <= MaxFiles + 4 /\ q \in Nat
    BY <1>1, PlaceOf
  <2> QED
    BY <1>1, <1>2, <1>7, <2>1
<1> QED
  BY <1>2, <1>3, <1>4, <1>5, <1>6, <1>7, PlaceOf

\* Across both queues, the rotations and crashes, files and queues hold what is
\* left in the order of acceptance, each message once.
THEOREM StagedOrder == Spec => []StagedInOrder
<1>1. Init => TypeOK /\ LineInv /\ FilesInv
  BY InitTypeOK, InitOrder
<1>2. TypeOK /\ LineInv /\ FilesInv /\ [Next]_vars => (TypeOK /\ LineInv /\ FilesInv)'
  BY StepTypeOK, StepIsFileStep, StepLine, StepFiles
<1>3. TypeOK /\ LineInv /\ FilesInv => StagedInOrder
  BY OrderImpliesStagedInOrder
<1> QED
  BY <1>1, <1>2, <1>3, PTL DEF Spec

-----------------------------------------------------------------------------
(* The accounts: the length of a concatenation of many sequences               *)

\* FlattenSeq is the last of the concatenations of the first i sequences.
LEMMA FlattenSolves ==
  ASSUME NEW S, NEW q \in Seq(Seq(S)), Len(q) # 0
  PROVE  \E g \in [0..Len(q) -> Seq(S)] :
           /\ g[0] = <<>>
           /\ \A i \in 1..Len(q) : g[i] = g[i - 1] \o q[i]
           /\ FlattenSeq(q) = g[Len(q)]
<1>1. PICK n \in Nat : n = Len(q)
  BY LenProperties
<1> DEFINE F == [i \in 1..n |-> [x \in Seq(S) |-> x \o q[i]]]
           Equation(h) == h = [i \in 1..n |-> IF i = 1 THEN q[i] ELSE h[i - 1] \o q[i]]
           flatten == CHOOSE h : Equation(h)
<1>2. \A i \in 1..n : q[i] \in Seq(S)
  BY <1>1, ElementOfSeq
<1>3. <<>> \in Seq(S) /\ \A x \in Seq(S) : <<>> \o x = x
  BY EmptySeq, ConcatEmptySeq
<1>4. PICK g \in [0..n -> Seq(S)] : g[0] = <<>> /\ \A i \in 1..n : g[i] = F[i][g[i - 1]]
  <2>1. F \in Steps(n, Seq(S))
    BY <1>2, ConcatProperties DEF Steps
  <2>2. <<>> \in Seq(S)
    BY EmptySeq
  <2>3. PICK g : Solves(g, n, Seq(S), <<>>, F)
    <3> HIDE DEF F
    <3> QED
      BY <2>1, <2>2, Recursion
  <2> QED
    BY <2>3 DEF Solves
<1>5. ASSUME NEW i \in 1..n
      PROVE  g[i - 1] \in Seq(S) /\ g[i] = g[i - 1] \o q[i]
  <2>1. i - 1 \in 0..n
    OBVIOUS
  <2>2. g[i - 1] \in Seq(S)
    BY <2>1
  <2> QED
    BY <1>4, <2>2
<1>6. FlattenSeq(q) = flatten[n]
  BY <1>1 DEF FlattenSeq
<1>7. g[1] = q[1]
  <2>1. 1 \in 1..n /\ 1 - 1 = 0
    BY <1>1
  <2>2. g[1] = g[0] \o q[1]
    BY <1>5, <2>1
  <2> QED
    BY <1>2, <1>3, <1>4, <2>1, <2>2
<1>8. Equation(flatten)
  <2> DEFINE h == [i \in 1..n |-> g[i]]
  <2>1. ASSUME NEW i \in 1..n PROVE h[i] = IF i = 1 THEN q[i] ELSE h[i - 1] \o q[i]
    <3>1. i # 1 => i - 1 \in 1..n
      OBVIOUS
    <3> QED
      BY <1>5, <1>7, <3>1
  <2>2. h = [i \in 1..n |-> h[i]]
    OBVIOUS
  <2> HIDE DEF h
  <2>3. h = [i \in 1..n |-> IF i = 1 THEN q[i] ELSE h[i - 1] \o q[i]]
    BY <2>1, <2>2
  <2>4. Equation(h)
    BY <2>3
  <2> HIDE DEF Equation
  <2> QED
    BY <2>4
<1>9. flatten[n] = g[n]
  <2> DEFINE T == {i \in 0..n : i = 0 \/ flatten[i] = g[i]}
  <2> HIDE DEF flatten
  <2>1. ASSUME NEW i \in 0..n, i \in T, i < n PROVE i + 1 \in T
    <3>1. i + 1 \in 1..n /\ i + 1 \in 0..n /\ (i + 1) - 1 = i
      BY <2>1
    <3>2. flatten[i + 1] = IF i + 1 = 1 THEN q[i + 1] ELSE flatten[i] \o q[i + 1]
      BY <1>8, <3>1
    <3>3. g[i + 1] = g[i] \o q[i + 1]
      BY <1>5, <3>1
    <3>4. flatten[i + 1] = g[i + 1]
      <4>1. CASE i = 0
        BY <1>7, <3>2, <4>1
      <4>2. CASE i # 0
        <5>1. flatten[i] = g[i] /\ i + 1 # 1
          BY <2>1, <4>2
        <5> QED
          BY <3>2, <3>3, <5>1
      <4> QED
        BY <4>1, <4>2
    <3> QED
      BY <3>1, <3>4
  <2>2. 0 \in T /\ n \in 0..n /\ n # 0
    BY <1>1
  <2>3. 0..n \subseteq T
    <3> HIDE DEF T
    <3> QED
      BY <2>1, <2>2, UpTo
  <2> QED
    BY <2>2, <2>3
<1> QED
  BY <1>1, <1>4, <1>5, <1>6, <1>9

\* Its length is the sum of the lengths, summed up from the first.
LEMMA FlattenLength ==
  ASSUME NEW S, NEW q \in Seq(Seq(S)), Len(q) # 0
  PROVE  \E t \in [0..Len(q) -> Nat] :
           /\ t[0] = 0
           /\ \A i \in 1..Len(q) : t[i] = t[i - 1] + Len(q[i])
           /\ Len(FlattenSeq(q)) = t[Len(q)]
<1>1. PICK g \in [0..Len(q) -> Seq(S)] :
        /\ g[0] = <<>>
        /\ \A i \in 1..Len(q) : g[i] = g[i - 1] \o q[i]
        /\ FlattenSeq(q) = g[Len(q)]
  BY FlattenSolves
<1> DEFINE t == [i \in 0..Len(q) |-> Len(g[i])]
<1>2. t \in [0..Len(q) -> Nat] /\ Len(q) \in Nat
  BY LenProperties
<1>3. t[0] = 0
  BY <1>1, <1>2
<1>4. ASSUME NEW i \in 1..Len(q) PROVE t[i] = t[i - 1] + Len(q[i])
  <2>1. i - 1 \in 0..Len(q) /\ i \in 0..Len(q)
    BY <1>2
  <2>2. g[i - 1] \in Seq(S) /\ q[i] \in Seq(S)
    BY <1>2, <2>1, ElementOfSeq
  <2>3. Len(g[i - 1] \o q[i]) = Len(g[i - 1]) + Len(q[i])
    BY <2>2, ConcatProperties
  <2> QED
    BY <1>1, <2>1, <2>3
<1>5. Len(FlattenSeq(q)) = t[Len(q)]
  BY <1>1, <1>2
<1> QED
  BY <1>2, <1>3, <1>4, <1>5

\* One sequence longer by d, and so is the whole.
LEMMA FlattenGrows ==
  ASSUME NEW S, NEW q \in Seq(Seq(S)), NEW r \in Seq(Seq(S)), Len(r) = Len(q), NEW k \in 1..Len(q),
         NEW d \in Nat, Len(r[k]) = Len(q[k]) + d, \A i \in 1..Len(q) : i # k => r[i] = q[i]
  PROVE  Len(FlattenSeq(r)) = Len(FlattenSeq(q)) + d
<1>1. PICK n \in Nat : n = Len(q)
  BY LenProperties
<1>2. n # 0 /\ k \in 1..n
  BY <1>1
<1>3. PICK t \in [0..n -> Nat] :
        t[0] = 0 /\ (\A i \in 1..n : t[i] = t[i - 1] + Len(q[i])) /\ Len(FlattenSeq(q)) = t[n]
  BY <1>1, <1>2, FlattenLength
<1>4. PICK u \in [0..n -> Nat] :
        u[0] = 0 /\ (\A i \in 1..n : u[i] = u[i - 1] + Len(r[i])) /\ Len(FlattenSeq(r)) = u[n]
  <2>1. Len(r) = n /\ Len(r) # 0
    BY <1>1, <1>2
  <2>2. \E u \in [0..Len(r) -> Nat] :
          /\ u[0] = 0
          /\ \A i \in 1..Len(r) : u[i] = u[i - 1] + Len(r[i])
          /\ Len(FlattenSeq(r)) = u[Len(r)]
    BY <2>1, FlattenLength
  <2> QED
    BY <2>1, <2>2
<1>5. ASSUME NEW i \in 1..n
      PROVE  Len(q[i]) \in Nat /\ (i # k => Len(r[i]) = Len(q[i]))
  <2>1. q[i] \in Seq(S)
    BY <1>1, ElementOfSeq
  <2> QED
    BY <1>1, <2>1, LenProperties
<1> DEFINE T == {i \in 0..n : IF i < k THEN u[i] = t[i] ELSE u[i] = t[i] + d}
<1>6. ASSUME NEW i \in 0..n, i \in T, i < n PROVE i + 1 \in T
  <2>1. i + 1 \in 1..n /\ i + 1 \in 0..n /\ (i + 1) - 1 = i
    BY <1>6
  <2>2. /\ t[i + 1] = t[i] + Len(q[i + 1]) /\ u[i + 1] = u[i] + Len(r[i + 1])
        /\ t[i] \in Nat /\ Len(q[i + 1]) \in Nat
    BY <1>3, <1>4, <1>5, <2>1
  <2>a. \A x, l \in Nat : (x + d) + l = (x + l) + d /\ x + (l + d) = (x + l) + d
    OBVIOUS
  <2>3. CASE i + 1 < k
    <3>1. u[i] = t[i]
      BY <1>6, <2>3
    <3>2. Len(r[i + 1]) = Len(q[i + 1])
      BY <1>5, <2>1, <2>3
    <3>3. u[i + 1] = t[i + 1]
      BY <2>2, <3>1, <3>2
    <3> QED
      BY <2>1, <2>3, <3>3
  <2>4. CASE i + 1 = k
    <3>1. u[i] = t[i]
      BY <1>6, <2>4
    <3>2. Len(r[i + 1]) = Len(q[i + 1]) + d
      BY <2>4
    <3>3. u[i + 1] = t[i + 1] + d
      BY <2>a, <2>2, <3>1, <3>2, Zenon
    <3> QED
      BY <2>1, <2>4, <3>3
  <2>5. CASE k < i + 1
    <3>1. u[i] = t[i] + d
      BY <1>2, <1>6, <2>5
    <3>2. Len(r[i + 1]) = Len(q[i + 1])
      BY <1>5, <2>1, <2>5
    <3>3. u[i + 1] = t[i + 1] + d
      BY <2>a, <2>2, <3>1, <3>2, Zenon
    <3> QED
      BY <1>2, <2>1, <2>5, <3>3
  <2> QED
    BY <1>2, <2>3, <2>4, <2>5
<1>7. 0 \in T /\ n \in 0..n
  BY <1>2, <1>3, <1>4
<1>8. 0..n \subseteq T
  <2> HIDE DEF T
  <2> QED
    BY <1>6, <1>7, UpTo
<1>9. u[n] = t[n] + d
  BY <1>2, <1>7, <1>8
<1> QED
  BY <1>3, <1>4, <1>9

\* Nothing in any of them, nothing in all.
LEMMA FlattenEmpty ==
  ASSUME NEW S, NEW q \in Seq(Seq(S)), Len(q) # 0, \A i \in 1..Len(q) : q[i] = <<>>
  PROVE  Len(FlattenSeq(q)) = 0
<1> DEFINE n == Len(q)
<1>1. n \in Nat
  BY LenProperties
<1>2. PICK t \in [0..n -> Nat] :
        t[0] = 0 /\ (\A i \in 1..n : t[i] = t[i - 1] + Len(q[i])) /\ Len(FlattenSeq(q)) = t[n]
  BY FlattenLength
<1> DEFINE T == {i \in 0..n : t[i] = 0}
<1>3. ASSUME NEW i \in 0..n, i \in T, i < n PROVE i + 1 \in T
  <2>1. i + 1 \in 1..n /\ i + 1 \in 0..n /\ (i + 1) - 1 = i
    BY <1>1, <1>3
  <2>2. Len(q[i + 1]) = 0
    BY <2>1, EmptySeq
  <2> QED
    BY <1>2, <1>3, <2>1, <2>2
<1>4. 0 \in T /\ n \in 0..n
  BY <1>1, <1>2
<1>5. 0..n \subseteq T
  <2> HIDE DEF T, n
  <2> QED
    BY <1>1, <1>3, <1>4, UpTo
<1> QED
  BY <1>2, <1>4, <1>5

\* Four more sequences behind them.
LEMMA FlattenFour ==
  ASSUME NEW S, NEW q \in Seq(Seq(S)), Len(q) # 0,
         NEW a \in Seq(S), NEW b \in Seq(S), NEW c \in Seq(S), NEW e \in Seq(S)
  PROVE  Len(FlattenSeq(q \o <<a, b, c, e>>)) = Len(FlattenSeq(q)) + Len(a) + Len(b) + Len(c) + Len(e)
<1> DEFINE n == Len(q)
           four == <<a, b, c, e>>
           r == q \o four
<1>1. n \in Nat /\ n # 0
  BY LenProperties
<1>2. four \in Seq(Seq(S)) /\ Len(four) = 4
  OBVIOUS
<1>3. /\ r \in Seq(Seq(S)) /\ Len(r) = n + 4
      /\ \A i \in 1..(n + 4) : r[i] = IF i <= n THEN q[i] ELSE four[i - n]
  <2> HIDE DEF four
  <2>1. /\ q \o four \in Seq(Seq(S)) /\ Len(q \o four) = Len(q) + Len(four)
        /\ \A i \in 1..(Len(q) + Len(four)) :
             (q \o four)[i] = IF i <= Len(q) THEN q[i] ELSE four[i - Len(q)]
    BY <1>2, ConcatProperties
  <2> QED
    BY <1>2, <2>1
<1>4. r[n + 1] = a /\ r[n + 2] = b /\ r[n + 3] = c /\ r[n + 4] = e
  BY <1>1, <1>3
<1> HIDE DEF four, r
<1>5. PICK t \in [0..n -> Nat] :
        t[0] = 0 /\ (\A i \in 1..n : t[i] = t[i - 1] + Len(q[i])) /\ Len(FlattenSeq(q)) = t[n]
  BY <1>1, FlattenLength
<1>6. PICK u \in [0..(n + 4) -> Nat] :
        u[0] = 0 /\ (\A i \in 1..(n + 4) : u[i] = u[i - 1] + Len(r[i])) /\ Len(FlattenSeq(r)) = u[n + 4]
  <2>1. Len(r) # 0
    BY <1>1, <1>3
  <2> QED
    BY <1>3, <2>1, FlattenLength
<1> DEFINE T == {i \in 0..n : u[i] = t[i]}
<1>7. ASSUME NEW i \in 0..n, i \in T, i < n PROVE i + 1 \in T
  <2>1. i + 1 \in 1..n /\ i + 1 \in 0..n /\ i + 1 \in 1..(n + 4) /\ (i + 1) - 1 = i
    BY <1>1, <1>7
  <2>2. r[i + 1] = q[i + 1]
    <3>1. i + 1 <= n
      BY <1>1, <1>7
    <3> HIDE DEF n
    <3> QED
      BY <1>3, <2>1, <3>1
  <2> QED
    BY <1>5, <1>6, <1>7, <2>1, <2>2
<1>8. 0 \in T /\ n \in 0..n
  BY <1>1, <1>5, <1>6
<1>9. 0..n \subseteq T
  <2> HIDE DEF T, n
  <2> QED
    BY <1>1, <1>7, <1>8, UpTo
<1>10. u[n] = t[n] /\ t[n] \in Nat
  BY <1>5, <1>8, <1>9
<1>11. /\ u[n + 1] = u[n] + Len(a) /\ u[n + 2] = u[n + 1] + Len(b)
       /\ u[n + 3] = u[n + 2] + Len(c) /\ u[n + 4] = u[n + 3] + Len(e)
  <2>1. /\ n + 1 \in 1..(n + 4) /\ n + 2 \in 1..(n + 4) /\ n + 3 \in 1..(n + 4) /\ n + 4 \in 1..(n + 4)
        /\ (n + 1) - 1 = n /\ (n + 2) - 1 = n + 1 /\ (n + 3) - 1 = n + 2 /\ (n + 4) - 1 = n + 3
    BY <1>1
  <2> HIDE DEF n
  <2> QED
    BY <1>4, <1>6, <2>1
<1>12. Len(a) \in Nat /\ Len(b) \in Nat /\ Len(c) \in Nat /\ Len(e) \in Nat
  BY LenProperties
<1>13. Len(FlattenSeq(r)) = t[n] + Len(a) + Len(b) + Len(c) + Len(e)
  BY <1>6, <1>10, <1>11, <1>12
<1> QED
  BY <1>5, <1>13 DEF r, four

\* How many messages the files hold.
Staged(f) == Len(FlattenSeq(f))

\* How many messages are on their way there, and how many will not arrive.
Underway == Len(ihand) + Len(inner) + Len(ohand) + Len(outer)
Missing == errors + crashLost

Balance == Len(accepted) = Staged(files) + Underway + Missing

LEMMA FilesAreSequence ==
  ASSUME NEW f \in [Files -> Seq(Messages)]
  PROVE  f \in Seq(Seq(Messages)) /\ Len(f) = MaxFiles /\ MaxFiles # 0
  BY StagedAssumption DEF Files

LEMMA BalanceIsAccounts == TypeOK => (StagingAccounts <=> Balance)
<1> SUFFICES ASSUME TypeOK PROVE StagingAccounts <=> Balance
  OBVIOUS
<1>1. files \in Seq(Seq(Messages)) /\ Len(files) # 0
  BY FilesAreSequence DEF TypeOK
<1>2. Len(FlattenSeq(Places)) = Staged(files) + Len(ihand) + Len(inner) + Len(ohand) + Len(outer)
  BY <1>1, Parts, FlattenFour DEF Places, Staged
<1>3. Staged(files) \in Nat
  BY <1>1, FlattenLength DEF Staged
<1>4. Len(FlattenSeq(Places)) = Staged(files) + Underway
  BY <1>2, <1>3, Parts DEF Underway
<1>5. Underway \in Nat /\ errors \in Nat /\ crashLost \in Nat
  <2>1. Len(ihand) \in Nat /\ Len(inner) \in Nat /\ Len(ohand) \in Nat /\ Len(outer) \in Nat
    BY Parts
  <2>2. errors \in Nat /\ crashLost \in Nat
    BY DEF TypeOK
  <2>3. Underway \in Nat
    BY <2>1 DEF Underway
  <2> QED
    BY <2>2, <2>3
<1>6. Len(FlattenSeq(Places)) + errors + crashLost = Staged(files) + Underway + Missing
  BY <1>3, <1>4, <1>5 DEF Missing
<1> QED
  BY <1>6 DEF StagingAccounts, Balance

\* The files of a step hold what was added to one of them.
LEMMA StagedGrows ==
  ASSUME TypeOK, NEW added \in Seq(Messages), NEW k \in Files
  PROVE  /\ Staged([files EXCEPT ![k] = files[k] \o added]) = Staged(files) + Len(added)
         /\ Staged(files) \in Nat
<1> DEFINE f == [files EXCEPT ![k] = files[k] \o added]
<1>1. files \in [Files -> Seq(Messages)] /\ files[k] \in Seq(Messages)
  BY DEF TypeOK
<1>2. files[k] \o added \in Seq(Messages) /\ Len(files[k] \o added) = Len(files[k]) + Len(added)
  BY <1>1, ConcatProperties
<1>3. f \in [Files -> Seq(Messages)]
  BY <1>1, <1>2
<1>4. /\ files \in Seq(Seq(Messages)) /\ Len(files) = MaxFiles /\ Len(files) # 0
      /\ f \in Seq(Seq(Messages)) /\ Len(f) = Len(files)
  <2> HIDE DEF f
  <2> QED
    BY <1>1, <1>3, FilesAreSequence
<1>5. k \in 1..Len(files) /\ Len(added) \in Nat
  BY <1>4, LenProperties DEF Files
<1>6. Len(f[k]) = Len(files[k]) + Len(added)
  BY <1>1, <1>2
<1>7. \A i \in 1..Len(files) : i # k => f[i] = files[i]
  BY <1>1, <1>4 DEF Files
<1>8. Len(FlattenSeq(f)) = Len(FlattenSeq(files)) + Len(added)
  <2> HIDE DEF f
  <2> QED
    BY <1>4, <1>5, <1>6, <1>7, FlattenGrows
<1>9. Len(FlattenSeq(files)) \in Nat
  BY <1>4, FlattenLength, LenProperties
<1> QED
  BY <1>8, <1>9 DEF Staged

LEMMA InitBalance == Init => Balance
<1> SUFFICES ASSUME Init PROVE Balance
  OBVIOUS
<1>1. Len(<<>>) = 0 /\ <<>> \in Seq(Messages)
  BY EmptySeq
<1>2. files \in [Files -> Seq(Messages)]
  BY <1>1 DEF Init
<1>3. files \in Seq(Seq(Messages)) /\ Len(files) = MaxFiles /\ Len(files) # 0
  BY <1>2, FilesAreSequence
<1>4. \A i \in 1..Len(files) : files[i] = <<>>
  BY <1>3 DEF Init, Files
<1>5. Staged(files) = 0
  BY <1>3, <1>4, FlattenEmpty DEF Staged
<1> QED
  BY <1>1, <1>5 DEF Init, Balance, Underway, Missing

\* Every step moves messages, or counts what it takes away.
LEMMA StepBalance == TypeOK /\ Balance /\ [Next]_vars => Balance'
<1> SUFFICES ASSUME TypeOK, Balance, [Next]_vars PROVE Balance'
  OBVIOUS
<1>n. /\ Staged(files) \in Nat /\ errors \in Nat /\ crashLost \in Nat
      /\ outer \in Seq(Messages) /\ inner \in Seq(Messages) /\ accepted \in Seq(Messages)
      /\ ohand \in Seq(Messages) /\ ihand \in Seq(Messages)
      /\ Len(outer) \in Nat /\ Len(inner) \in Nat /\ Len(accepted) \in Nat
      /\ Len(ohand) \in Nat /\ Len(ihand) \in Nat
  <2>1. \E k \in Files : TRUE
    BY StagedAssumption DEF Files
  <2>2. Staged(files) \in Nat
    BY <2>1, StagedGrows, EmptySeq
  <2> QED
    BY <2>2, Parts DEF TypeOK
<1>e. Len(<<>>) = 0
  BY EmptySeq
<1>b. Len(accepted) = Staged(files) + Underway + Missing
  BY DEF Balance
<1>u. Underway \in Nat /\ Missing \in Nat
  BY <1>n DEF Underway, Missing
<1>h. /\ opc \in {"lock", "parked"} => Len(ohand) = 1
      /\ opc \notin {"lock", "parked"} => Len(ohand) = 0
      /\ ipc = "handle" => Len(ihand) = 1
      /\ ipc # "handle" => Len(ihand) = 0
  BY DEF TypeOK
<1>0. ASSUME UNCHANGED <<accepted, files, ihand, inner, ohand, outer, errors, crashLost>>
      PROVE  Balance'
  BY <1>0 DEF Balance, Underway, Missing
<1>m. ASSUME UNCHANGED <<accepted, files, errors, crashLost>>, Underway' = Underway
      PROVE  Balance'
  BY <1>m DEF Balance, Missing
<1> USE DEF outerVars, kindVars, innerVars, fileVars, crashVars, histVars
<1>1. CASE WriteMessage
  <2>1. /\ Len(outer') = Len(outer) + 1 /\ Len(accepted') = Len(accepted) + 1
        /\ UNCHANGED <<files, ihand, inner, ohand, errors, crashLost>>
    BY <1>1, <1>n, AppendProperties DEF WriteMessage
  <2>2. Underway' = Underway + 1 /\ Missing' = Missing
    BY <1>n, <2>1 DEF Underway, Missing
  <2> QED
    BY <1>b, <1>n, <1>u, <2>1, <2>2 DEF Balance
<1>2. CASE OuterReceive
  <2>1. /\ Len(outer') = Len(outer) - 1 /\ Len(ohand') = 1 /\ Len(ohand) = 0
        /\ UNCHANGED <<accepted, files, ihand, inner, errors, crashLost>>
    BY <1>2, <1>h, <1>n, HeadTailProperties DEF OuterReceive
  <2>2. Underway' = Underway
    BY <1>n, <2>1 DEF Underway
  <2> QED
    BY <1>m, <2>1, <2>2
<1>3. CASE HandOver
  <2>1. /\ Len(inner') = Len(inner) + Len(ohand) /\ Len(ohand') = 0
        /\ UNCHANGED <<accepted, files, ihand, outer, errors, crashLost>>
    BY <1>3, <1>e, <1>n, ConcatProperties DEF HandOver
  <2>2. Underway' = Underway
    BY <1>n, <2>1 DEF Underway
  <2> QED
    BY <1>m, <2>1, <2>2
<1>4. CASE HandOverDropped
  <2>1. /\ Len(ohand) = 1 /\ Len(ohand') = 0 /\ errors' = errors + 1
        /\ UNCHANGED <<accepted, files, ihand, inner, outer, crashLost>>
    BY <1>4, <1>e, <1>h DEF HandOverDropped, CountError
  <2>2. Underway = Underway' + 1 /\ Underway' \in Nat
    BY <1>n, <2>1 DEF Underway
  <2>3. Missing' = Missing + 1
    BY <1>n, <2>1 DEF Missing
  <2> QED
    BY <1>b, <1>n, <1>u, <2>1, <2>2, <2>3 DEF Balance
<1>5. CASE InnerReceive
  <2>1. /\ Len(Tail(inner)) = Len(inner) - 1 /\ Tail(inner) \in Seq(Messages)
        /\ Len(ihand) = 0 /\ Len(ihand') = 1
        /\ UNCHANGED <<accepted, files, outer, errors, crashLost>>
    BY <1>5, <1>h, <1>n, HeadTailProperties DEF InnerReceive
  <2>2. CASE inner' = Tail(inner) \o ohand /\ ohand' = <<>>
    <3>1. Len(inner') = Len(inner) - 1 + Len(ohand) /\ Len(ohand') = 0
      BY <1>e, <1>n, <2>1, <2>2, ConcatProperties
    <3>2. Underway' = Underway
      BY <1>n, <2>1, <3>1 DEF Underway
    <3> QED
      BY <1>m, <2>1, <3>2
  <2>3. CASE inner' = Tail(inner) /\ UNCHANGED ohand
    <3>1. Underway' = Underway
      BY <1>n, <2>1, <2>3 DEF Underway
    <3> QED
      BY <1>m, <2>1, <3>1
  <2> QED
    BY <1>5, <2>2, <2>3 DEF InnerReceive, AdmitParked
<1>6. CASE Stage
  <2>1. /\ Len(ihand') = 0 /\ UNCHANGED <<accepted, inner, ohand, outer, errors, crashLost>>
    BY <1>6, <1>e DEF Stage
  <2>2. RotateAndAppend(ihand)
    BY <1>6 DEF Stage
  <2>3. Staged(files') = Staged(files) + Len(ihand)
    BY <1>n, <2>2, Appends, StagedGrows
  <2>4. Underway = Underway' + Len(ihand) /\ Underway' \in Nat /\ Missing' = Missing
    BY <1>n, <2>1 DEF Underway, Missing
  <2>5. Staged(files) + Underway = Staged(files') + Underway'
    BY <1>n, <2>3, <2>4
  <2> QED
    BY <1>b, <2>1, <2>4, <2>5 DEF Balance
<1>7. CASE StageFails
  <2>1. /\ Len(ihand) = 1 /\ Len(ihand') = 0 /\ errors' = errors + 1
        /\ UNCHANGED <<accepted, inner, ohand, outer, crashLost>>
    BY <1>7, <1>e, <1>h DEF StageFails, CountError
  <2>2. Staged(files') = Staged(files)
    <3>1. CASE RotateAndAppend(<<>>)
      <4>1. <<>> \in Seq(Messages)
        BY EmptySeq
      <4>2. Staged(files') = Staged(files) + Len(<<>>)
        BY <3>1, <4>1, Appends, StagedGrows
      <4> QED
        BY <1>e, <1>n, <4>2
    <3> QED
      BY <1>7, <3>1 DEF StageFails
  <2>3. Underway = Underway' + 1 /\ Underway' \in Nat
    BY <1>n, <2>1 DEF Underway
  <2>4. Missing' = Missing + 1
    BY <1>n, <2>1 DEF Missing
  <2> QED
    BY <1>b, <1>n, <1>u, <2>1, <2>2, <2>3, <2>4 DEF Balance
<1>8. ASSUME NEW x \in Rotators, Rotating(x) PROVE Balance'
  <2>1. files' = files
    <3>1. CASE UploadOk(x) /\ Rotate
      BY <3>1, RotateKeeps
    <3> QED
      BY <1>8, <3>1 DEF Rotating, Upload, UploadOk, UploadFails, Lock, LockFile
  <2> QED
    BY <1>0, <1>8, <2>1 DEF Rotating, Upload, UploadOk, UploadFails, Lock, LockFile
<1>9. CASE Crash
  <2>1. files' = files
    BY <1>9 DEF Crash, OpenAppending, TypeOK
  <2>2. /\ crashLost' = crashLost + Len(ihand) + Len(inner) + Len(ohand) + Len(outer)
        /\ Len(outer') = 0 /\ Len(ohand') = 0 /\ Len(inner') = 0 /\ Len(ihand') = 0
        /\ UNCHANGED <<accepted, errors>>
    BY <1>9, <1>e DEF Crash
  <2>3. Underway' = 0 /\ Missing' = Missing + Underway
    BY <1>n, <2>2 DEF Underway, Missing
  <2>4. Staged(files') = Staged(files)
    BY <2>1
  <2> QED
    BY <1>b, <1>n, <1>u, <2>2, <2>3, <2>4 DEF Balance
<1>10. CASE OuterExit \/ HandOverWaits \/ InnerExit \/ IntervalPasses \/ Tick \/ TickerStops
              \/ Closing \/ UNCHANGED vars
  BY <1>0, <1>10 DEF OuterExit, HandOverWaits, InnerExit, IntervalPasses, Tick, TickerStops,
     Closing, Close, CloseOuter, OuterDrained, CloseInner, CloseReturn, vars
<1> QED
  BY <1>1, <1>2, <1>3, <1>4, <1>5, <1>6, <1>7, <1>8, <1>9, <1>10
  DEF Next, OuterWorker, InnerWorker, Ended

\* No message that the object sink has accepted vanishes unaccounted on its way
\* through two queues, two workers, rotations, failures and restarts to a file
\* (s3.go:101-115, gcs.go:101-116, file.go:117-144).
THEOREM NothingVanishes == Spec => []StagingAccounts
<1>1. Init => Balance
  BY InitBalance
<1>2. TypeOK /\ Balance /\ [Next]_vars => Balance'
  BY StepBalance
<1>3. TypeOK /\ Balance => StagingAccounts
  BY BalanceIsAccounts
<1> QED
  BY <1>1, <1>2, <1>3, TypeCorrect, PTL DEF Spec
=============================================================================
