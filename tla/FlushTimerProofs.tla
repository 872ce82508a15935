-------------------------- MODULE FlushTimerProofs --------------------------
(***************************************************************************)
(* The bound on the wait of a message, for every interval and every bound  *)
(* on the duration of a flush, also one that outlasts the interval.        *)
(***************************************************************************)
EXTENDS FlushTimer, TLAPS

Ranges ==
    /\ toTick \in Int /\ 1 <= toTick /\ toTick <= Interval
    /\ since \in Int /\ 0 <= since /\ since <= Interval
    /\ oldest \in Int /\ -1 <= oldest
    /\ left \in Int /\ -1 <= left /\ left <= MaxLatency

\* Unless a batch fills before, the ticker makes a flush start before the oldest
\* message has the age n: the tick that waits does, or the next one, or the one
\* after that.
Starts(next, waits, passed, age, n) ==
    \/ waits /\ passed >= Interval /\ age < n
    \/ passed + next >= Interval /\ age + next < n
    \/ age + next + Interval < n

StartsBefore(n) == Starts(toTick, tick, since, oldest, n)

Two == Interval + Interval
Third == Two + Longer

\* Age and remaining wait of the oldest message together.  A flush that is the
\* message's first may fail, and the tick after it must come in time.
BudgetKept ==
    /\ left = None => StartsBefore(Third) /\ (failed \/ StartsBefore(Two))
    /\ left # None => oldest + left < Third + MaxLatency
    /\ left # None /\ ~failed =>
         /\ oldest + left < Two + MaxLatency
         /\ StartsBefore(Third)

IInv == Ranges /\ BudgetKept

LEMMA Sizes ==
    /\ Interval \in Int /\ 1 <= Interval /\ MaxLatency \in Int /\ 1 <= MaxLatency
    /\ Longer \in Int /\ Interval <= Longer /\ MaxLatency <= Longer
    /\ None = -1
  BY TimerAssumption DEF None, Longer

\* A unit of time brings the flush a unit nearer as the message ages by it: t,
\* s and o stand for toTick, since and oldest, t1, s1 and o1 for what they become.
LEMMA StartsNearer ==
  ASSUME NEW t \in Int, NEW t1 \in Int, NEW s \in Int, NEW s1 \in Int,
         NEW o \in Int, NEW o1 \in Int, NEW n \in Int, NEW k, NEW k1,
         1 <= t, 0 <= s, s <= Interval,
         t = 1 => k1 /\ t1 = Interval, t # 1 => t1 + 1 = t,
         s = Interval \/ s1 = s + 1, s1 >= s, o1 <= o + 1,
         ~(k /\ s >= Interval), Starts(t, k, s, o, n)
  PROVE  Starts(t1, k1, s1, o1, n)
<1>1. CASE s + t >= Interval /\ o + t < n /\ t = 1
  <2>1. s1 >= Interval /\ o1 < n
    BY <1>1, Sizes
  <2> QED
    BY <1>1, <2>1 DEF Starts
<1>2. CASE s + t >= Interval /\ o + t < n /\ t # 1
  <2>1. s1 + t1 >= Interval /\ o1 + t1 < n
    BY <1>2, Sizes
  <2> QED
    BY <2>1 DEF Starts
<1>3. CASE o + t + Interval < n /\ t = 1
  <2>1. s1 + t1 >= Interval /\ o1 + t1 < n
    BY <1>3, Sizes
  <2> QED
    BY <2>1 DEF Starts
<1>4. CASE o + t + Interval < n /\ t # 1
  <2>1. o1 + t1 + Interval < n
    BY <1>4, Sizes
  <2> QED
    BY <2>1 DEF Starts
<1> QED
  BY <1>1, <1>2, <1>3, <1>4 DEF Starts

\* Two sums, of which the second is less than a bound.
LEMMA SumLess ==
  ASSUME NEW o \in Int, NEW l \in Int, NEW o1 \in Int, NEW l1 \in Int, NEW n \in Int,
         o1 + l1 <= o + l, o + l < n
  PROVE  o1 + l1 < n
  OBVIOUS

LEMMA SumBelow ==
  ASSUME NEW o \in Int, NEW l \in Int, NEW n \in Int, NEW m \in Int, o < n, l <= m
  PROVE  o + l < n + m
  OBVIOUS

\* Before a message arrives, and when it does, its flush is near enough.
LEMMA Fresh ==
  ASSUME NEW t \in Int, NEW s \in Int, NEW o \in Int, 1 <= t, t <= Interval, 0 <= s, o <= 0
  PROVE  /\ (s + t >= Interval /\ o + t < Two) \/ o + t + Interval < Two
         /\ (s + t >= Interval /\ o + t < Third) \/ o + t + Interval < Third
  BY Sizes DEF Two, Third

LEMMA InitIInv == Init => IInv
<1> SUFFICES ASSUME Init PROVE IInv
  OBVIOUS
<1>1. Ranges /\ oldest <= 0
  BY Sizes DEF Init, Ranges
<1>2. StartsBefore(Two) /\ StartsBefore(Third)
  BY <1>1, Fresh DEF Ranges, StartsBefore, Starts
<1> QED
  BY <1>1, <1>2 DEF Init, BudgetKept, IInv

-----------------------------------------------------------------------------
(* Time                                                                    *)

LEMMA AdvanceRanges == ASSUME Ranges, Advance PROVE Ranges'
<1> USE Sizes DEF Ranges
<1>1. toTick' \in Int /\ 1 <= toTick' /\ toTick' <= Interval
  BY DEF Advance
<1>2. since' \in Int /\ 0 <= since' /\ since' <= Interval
  BY DEF Advance
<1>3. oldest' \in Int /\ -1 <= oldest'
  BY DEF Advance
<1>4. left' \in Int /\ -1 <= left' /\ left' <= MaxLatency
  BY DEF Advance, Urgent
<1> QED
  BY <1>1, <1>2, <1>3, <1>4

\* A unit of time brings the flush a unit nearer as the message ages by it,
\* unless the tick of the flush is waiting already.
LEMMA AdvanceStarts ==
  ASSUME Ranges, Advance, NEW n \in Int, StartsBefore(n), ~(tick /\ since >= Interval)
  PROVE  StartsBefore(n)'
<1> USE Sizes DEF Ranges
<1>1. toTick = 1 => tick' /\ toTick' = Interval
  BY DEF Advance
<1>2. toTick # 1 => toTick' + 1 = toTick
  BY DEF Advance
<1>3. since = Interval \/ since' = since + 1
  BY DEF Advance
<1>4. since' >= since
  BY DEF Advance
<1>5. oldest' <= oldest + 1
  BY DEF Advance
<1>6. /\ toTick \in Int /\ toTick' \in Int /\ since \in Int /\ since' \in Int
      /\ oldest \in Int /\ oldest' \in Int
      /\ 1 <= toTick /\ 0 <= since /\ since <= Interval
  BY AdvanceRanges
<1>7. Starts(toTick, tick, since, oldest, n)
  BY DEF StartsBefore
<1>8. Starts(toTick', tick', since', oldest', n)
  BY ONLY <1>1, <1>2, <1>3, <1>4, <1>5, <1>6, <1>7, ~(tick /\ since >= Interval), n \in Int,
          StartsNearer
<1> QED
  BY <1>8 DEF StartsBefore

LEMMA AdvanceIInv == ASSUME IInv, Advance PROVE IInv'
<1> USE Sizes
<1>1. Ranges /\ BudgetKept /\ Ranges'
  BY AdvanceRanges DEF IInv
<1>2. Two \in Int /\ Third \in Int
  BY DEF Two, Third
<1>3. failed' = failed
  BY DEF Advance
<1>4. CASE left = None
  <2>1. left' = None /\ ~tick
    BY <1>4 DEF Advance, Urgent
  <2>2. StartsBefore(Third)' /\ (failed \/ StartsBefore(Two)')
    BY <1>1, <1>2, <1>4, <2>1, AdvanceStarts DEF BudgetKept
  <2> QED
    BY <1>1, <1>3, <2>1, <2>2 DEF IInv, BudgetKept, Two, Third
<1>5. CASE left # None
  <2>1. left' # None /\ oldest' + left' <= oldest + left /\ oldest' < oldest + left + 1
    BY <1>1, <1>5 DEF Advance, Urgent, Ranges
  <2>2. /\ oldest' + left' < Third + MaxLatency
        /\ ~failed => oldest' + left' < Two + MaxLatency
    <3>1. Third + MaxLatency \in Int /\ Two + MaxLatency \in Int
      BY <1>2
    <3> QED
      BY <1>1, <1>2, <1>5, <2>1, <3>1, SumLess DEF BudgetKept, Ranges
  <2>3. ASSUME ~failed PROVE StartsBefore(Third)'
    <3>1. CASE tick /\ since >= Interval
      <4>1. tick' /\ since' = Interval
        <5>1. tick'
          BY <3>1 DEF Advance
        <5>2. since = Interval
          BY <1>1, <3>1 DEF Ranges
        <5> QED
          BY <5>1, <5>2 DEF Advance
      <4>2. oldest' < Third
        <5>1. oldest' \in Int /\ left' \in Int /\ left' >= 0
          BY <1>1, <2>1 DEF Ranges
        <5>2. Two + MaxLatency \in Int /\ Two + MaxLatency <= Third
          BY <1>2 DEF Third
        <5>3. oldest' + left' < Two + MaxLatency
          BY <2>2, <2>3
        <5>4. oldest' < Two + MaxLatency
          BY <5>1, <5>2, <5>3
        <5> QED
          BY <1>2, <5>1, <5>2, <5>4
      <4> QED
        BY <1>1, <4>1, <4>2 DEF StartsBefore, Starts, Third, Ranges
    <3>2. CASE ~(tick /\ since >= Interval)
      BY <1>1, <1>2, <1>5, <2>3, <3>2, AdvanceStarts DEF BudgetKept
    <3> QED
      BY <3>1, <3>2
  <2> QED
    BY <1>1, <1>3, <2>1, <2>2, <2>3 DEF IInv, BudgetKept, Two, Third
<1> QED
  BY <1>4, <1>5

-----------------------------------------------------------------------------
(* Messages, ticks and flushes                                             *)

\* A flush that starts in time, by the tick or because a batch is full, ends in
\* time; if it is the message's first it may even fail.
LEMMA StartIInv ==
  ASSUME IInv, left = None, left' \in 1..MaxLatency,
         oldest' = oldest \/ (oldest = None /\ oldest' = 0),
         UNCHANGED <<toTick, since, failed>>, tick' = tick \/ since >= Interval
  PROVE  IInv'
<1> USE Sizes
<1>1. Ranges /\ BudgetKept /\ Two \in Int /\ Third \in Int /\ Two + Interval <= Third
  BY DEF IInv, Two, Third
<1>2. Ranges' /\ left' # None
  BY <1>1 DEF Ranges
<1>3. oldest < Third /\ (failed \/ oldest < Two)
  BY <1>1 DEF BudgetKept, StartsBefore, Starts, Ranges
<1>4. oldest' < Third /\ (failed \/ oldest' < Two)
  BY <1>1, <1>3 DEF Two, Third
<1>5. /\ oldest' + left' < Third + MaxLatency
      /\ failed \/ oldest' + left' < Two + MaxLatency
  BY <1>1, <1>2, <1>4, SumBelow DEF Ranges
<1>6. ASSUME ~failed PROVE StartsBefore(Third)'
  <2>1. CASE oldest' = 0
    <3>1. oldest' + toTick' + Interval < Third \/ (since' + toTick' >= Interval /\ oldest' + toTick' < Third)
      BY <1>1, <1>2, <2>1 DEF Ranges, Two
    <3> QED
      BY <3>1 DEF StartsBefore, Starts, Third
  <2>2. CASE oldest' = oldest /\ since >= Interval
    <3>1. oldest' + toTick' < Third /\ since' + toTick' >= Interval
      BY <1>1, <1>2, <1>4, <1>6, <2>2 DEF Ranges
    <3> QED
      BY <3>1 DEF StartsBefore, Starts, Third
  <2>3. CASE oldest' = oldest /\ tick' = tick
    <3>1. StartsBefore(Third)
      BY <1>1 DEF BudgetKept
    <3> QED
      BY <2>3, <3>1 DEF StartsBefore, Starts, Third
  <2> QED
    BY <2>1, <2>2, <2>3
<1> QED
  BY <1>2, <1>5, <1>6 DEF IInv, BudgetKept, Two, Third

\* A flush that ends with nothing in the buffer, or a message that arrives.
LEMMA FreshIInv == ASSUME Ranges', oldest' <= 0, left' = None PROVE IInv'
<1>1. StartsBefore(Two)' /\ StartsBefore(Third)'
  BY Fresh DEF Ranges, StartsBefore, Starts, Two, Third
<1> QED
  BY <1>1 DEF IInv, BudgetKept, Two, Third

LEMMA StepIInv == IInv /\ [Next]_vars => IInv'
<1> SUFFICES ASSUME IInv, [Next]_vars PROVE IInv'
  OBVIOUS
<1> USE Sizes
<1>1. CASE Advance
  BY <1>1, AdvanceIInv
<1>2. CASE Arrive
  <2>1. Ranges' /\ oldest' <= 0 /\ left' = None
    BY <1>2 DEF Arrive, IInv, Ranges
  <2> QED
    BY <2>1, FreshIInv
<1>3. CASE FillBatch
  BY <1>3, StartIInv DEF FillBatch, StartFlush
<1>4. CASE TakeTick
  <2>1. CASE oldest # None /\ EnoughTime
    BY <1>4, <2>1, StartIInv DEF TakeTick, StartFlush, EnoughTime
  <2>2. CASE oldest = None
    <3>1. Ranges' /\ oldest' <= 0 /\ left' = None
      BY <1>4, <2>2 DEF TakeTick, IInv, Ranges
    <3> QED
      BY <3>1, FreshIInv
  <2>3. CASE ~EnoughTime
    <3>1. UNCHANGED <<toTick, since, oldest, left, failed>> /\ ~(since >= Interval)
      BY <1>4, <2>3 DEF TakeTick, EnoughTime
    <3> QED
      BY <1>4, <3>1 DEF TakeTick, IInv, Ranges, BudgetKept, StartsBefore, Starts, Two, Third
  <2> QED
    BY <2>1, <2>2, <2>3
<1>5. CASE FlushOk
  <2>1. Ranges' /\ oldest' <= 0 /\ left' = None
    BY <1>5 DEF FlushOk, IInv, Ranges
  <2> QED
    BY <2>1, FreshIInv
<1>6. CASE FlushFails
  <2>1. /\ UNCHANGED <<toTick, tick, since, oldest>>
        /\ left = 0 /\ ~failed /\ left' = None /\ failed'
    BY <1>6 DEF FlushFails, FailureIsNone
  <2>2. Ranges'
    BY <2>1 DEF IInv, Ranges
  <2>3. StartsBefore(Third)'
    BY <2>1 DEF IInv, BudgetKept, StartsBefore, Starts, Third
  <2> QED
    BY <2>1, <2>2, <2>3 DEF IInv, BudgetKept
<1>7. CASE UNCHANGED vars
  BY <1>7 DEF vars, IInv, BudgetKept, Ranges, StartsBefore, Starts, Two, Third
<1> QED
  BY <1>1, <1>2, <1>3, <1>4, <1>5, <1>6, <1>7 DEF Next

\* The age of a message never reaches the bound.
LEMMA IInvBounds == IInv => WaitBounded
<1> SUFFICES ASSUME IInv PROVE WaitBounded
  OBVIOUS
<1>1. Two = 2 * Interval /\ Third = 2 * Interval + Longer
  BY Sizes DEF Two, Third
<1>2. oldest < Third + MaxLatency
  BY Sizes DEF IInv, Ranges, BudgetKept, StartsBefore, Starts, Two, Third
<1>3. failed \/ oldest < Two + MaxLatency
  BY Sizes DEF IInv, Ranges, BudgetKept, StartsBefore, Starts, Two, Third
<1>4. Longer \in Int /\ MaxLatency \in Int /\ oldest \in Int
      /\ oldest < 2 * Interval + Longer + MaxLatency
  BY <1>1, <1>2, Sizes DEF IInv, Ranges
<1>5. CASE failed
  BY <1>4, <1>5, Sizes DEF WaitBounded
<1>6. CASE ~failed
  BY <1>1, <1>3, <1>4, <1>6, Sizes DEF WaitBounded
<1> QED
  BY <1>5, <1>6

\* A message whose flushes succeed waits less than two intervals and a flush, and
\* one failure costs an interval more, or as long as the failed flush took if that
\* is longer (backgroundFlusher and its lastFlush), whatever the longest flush is.
THEOREM WaitIsBounded == Spec => []WaitBounded
<1>1. IInv /\ [Next]_vars => IInv'
  BY StepIInv
<1> QED
  BY InitIInv, <1>1, IInvBounds, PTL DEF Spec
=============================================================================
