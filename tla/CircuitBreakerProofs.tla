------------------------ MODULE CircuitBreakerProofs -------------------------
(***************************************************************************)
(* The breaker's state stays within its bounds and its failure count stays   *)
(* true to its window, for any number of threads, probes and samples.        *)
(***************************************************************************)
EXTENDS CircuitBreaker, FiniteSetTheorems, SequenceTheorems, TLAPS

(* The assumptions on the constants, in the form the proofs use.             *)
LEMMA Constants ==
    /\ OpenDuration \in Nat /\ MaxProbes \in Nat /\ MinSamples \in Nat
    /\ MaxEntries \in Nat /\ MaxEntries > 0 /\ WordMax \in Nat
    /\ MaxPause \in Nat /\ MaxLost \in Nat
    /\ MaxAge \in Nat /\ MaxPause <= MaxAge
  BY BreakerAssumption DEF MaxAge

-----------------------------------------------------------------------------
(***************************************************************************)
(* Counting failures.                                                      *)
(***************************************************************************)
(* The failures among a number of samples are at most that many.             *)
LEMMA FailuresBound ==
    ASSUME NEW s \in Seq(BOOLEAN)
    PROVE  Failures(s) \in 0..Len(s)
<1>. DEFINE K == {i \in 1..Len(s) : s[i]}
<1>1. Len(s) \in Nat
  BY LenProperties
<1>2. IsFiniteSet(1..Len(s)) /\ Cardinality(1..Len(s)) = Len(s)
  BY <1>1, FS_Interval
<1>3. K \in SUBSET (1..Len(s))
  OBVIOUS
<1>. HIDE DEF K
<1>4. IsFiniteSet(K) /\ Cardinality(K) <= Len(s) /\ Cardinality(K) \in Nat
  BY <1>2, <1>3, FS_Subset, FS_CardinalityType
<1>5. Cardinality(K) \in 0..Len(s)
  BY <1>1, <1>4
<1>. QED
  BY <1>5 DEF K, Failures

(* An empty window has no failures.                                          *)
LEMMA FailuresEmpty == Failures(<<>>) = 0
<1>1. {i \in 1..Len(<<>>) : <<>>[i]} = {}
  OBVIOUS
<1>. QED
  BY <1>1, FS_EmptySet DEF Failures

(* One more sample counts when it is a failure.                              *)
LEMMA FailuresAppend ==
    ASSUME NEW s \in Seq(BOOLEAN), NEW failure \in BOOLEAN
    PROVE  Failures(Append(s, failure)) = Failures(s) + (IF failure THEN 1 ELSE 0)
<1>. DEFINE K == {i \in 1..Len(s) : s[i]}
            L == {i \in 1..Len(Append(s, failure)) : Append(s, failure)[i]}
            n == Len(s) + 1
<1>1. Len(s) \in Nat /\ Len(Append(s, failure)) = n
  BY LenProperties, AppendProperties
<1>2. \A i \in 1..n : Append(s, failure)[i] = IF i = n THEN failure ELSE s[i]
  BY AppendProperties
<1>3. 1..n = (1..Len(s)) \cup {n} /\ n \notin 1..Len(s)
  BY <1>1
<1>4. L = IF failure THEN K \cup {n} ELSE K
  <2>1. CASE failure
    BY <1>1, <1>2, <1>3, <2>1
  <2>2. CASE ~failure
    BY <1>1, <1>2, <1>3, <2>2
  <2>. QED
    BY <2>1, <2>2
<1>5. IsFiniteSet(1..Len(s)) /\ K \in SUBSET (1..Len(s)) /\ n \notin K
  BY <1>1, <1>3, FS_Interval
<1>. HIDE DEF K, L, n
<1>6. IsFiniteSet(K) /\ Cardinality(K) \in Nat
  BY <1>5, FS_Subset, FS_CardinalityType
<1>7. Cardinality(K \cup {n}) = Cardinality(K) + 1
  BY <1>5, <1>6, FS_AddElement
<1>8. Cardinality(L) = Cardinality(K) + (IF failure THEN 1 ELSE 0)
  BY <1>4, <1>6, <1>7
<1>. QED
  BY <1>8 DEF K, L, Failures

(* What leaves at the front and what stays add up to what was there.         *)
LEMMA FailuresSplit ==
    ASSUME NEW s \in Seq(BOOLEAN), NEW n \in 0..Len(s)
    PROVE  /\ SubSeq(s, n + 1, Len(s)) \in Seq(BOOLEAN)
           /\ Len(SubSeq(s, n + 1, Len(s))) = Len(s) - n
           /\ Failures(s) - Failures(SubSeq(s, 1, n)) = Failures(SubSeq(s, n + 1, Len(s)))
<1>. DEFINE front == SubSeq(s, 1, n)
            back == SubSeq(s, n + 1, Len(s))
            A == {i \in 1..n : s[i]}
            B == {i \in (n + 1)..Len(s) : s[i]}
            C == {i \in 1..Len(back) : back[i]}
            shift == [i \in C |-> i + n]
<1>1. Len(s) \in Nat /\ n \in Nat /\ n <= Len(s)
  BY LenProperties
<1>2. /\ front \in Seq(BOOLEAN) /\ Len(front) = n
      /\ \A i \in 1..n : front[i] = s[i]
  BY <1>1, SubSeqProperties
<1>3. /\ back \in Seq(BOOLEAN) /\ Len(back) = Len(s) - n
      /\ \A i \in 1..(Len(s) - n) : back[i] = s[i + n]
  BY <1>1, SubSeqProperties
<1>4. Failures(front) = Cardinality(A)
  <2>1. {i \in 1..Len(front) : front[i]} = A
    BY <1>2
  <2>. QED
    BY <2>1 DEF Failures
<1>5. {i \in 1..Len(s) : s[i]} = A \cup B /\ A \cap B = {}
  BY <1>1
<1>6. A \in SUBSET (1..n) /\ B \in SUBSET ((n + 1)..Len(s)) /\ C \in SUBSET (1..Len(back))
  OBVIOUS
<1>7. shift \in Bijection(C, B)
  <2>1. shift \in [C -> B]
    BY <1>1, <1>3
  <2>2. \A i, j \in C : shift[i] = shift[j] => i = j
    BY <1>1, <1>3
  <2>3. \A k \in B : \E i \in C : shift[i] = k
    <3>. SUFFICES ASSUME NEW k \in B PROVE \E i \in C : shift[i] = k
      OBVIOUS
    <3>1. k - n \in 1..(Len(s) - n) /\ (k - n) + n = k /\ s[k]
      BY <1>1
    <3>2. k - n \in C
      BY <1>3, <3>1
    <3>. QED
      BY <3>1, <3>2
  <2>. QED
    BY <2>1, <2>2, <2>3 DEF Bijection, Injection, Surjection, IsInjective
<1>. HIDE DEF A, B, C, front, back, shift
<1>8. IsFiniteSet(A) /\ IsFiniteSet(B) /\ IsFiniteSet(C)
  <2>1. IsFiniteSet(1..n) /\ IsFiniteSet((n + 1)..Len(s)) /\ IsFiniteSet(1..Len(back))
    BY <1>1, <1>3, FS_Interval
  <2>. QED
    BY <1>6, <2>1, FS_Subset
<1>9. Cardinality(C) = Cardinality(B)
  BY <1>7, <1>8, FS_Bijection DEF ExistsBijection
<1>10. /\ Cardinality(A) \in Nat /\ Cardinality(B) \in Nat
       /\ Cardinality(A \cup B) = Cardinality(A) + Cardinality(B)
  <2>1. Cardinality(A) \in Nat /\ Cardinality(B) \in Nat
    BY <1>8, FS_CardinalityType
  <2>2. Cardinality(A \cup B) = Cardinality(A) + Cardinality(B) - Cardinality(A \cap B)
    BY <1>8, FS_Union
  <2>3. Cardinality(A \cap B) = 0
    BY <1>5, FS_EmptySet
  <2>. QED
    BY <2>1, <2>2, <2>3
<1>11. Failures(s) = Cardinality(A \cup B) /\ Failures(back) = Cardinality(C)
  BY <1>5 DEF Failures, C
<1>12. Failures(s) - Failures(front) = Failures(back)
  BY <1>4, <1>9, <1>10, <1>11
<1>. QED
  BY <1>3, <1>12 DEF front, back

-----------------------------------------------------------------------------
(***************************************************************************)
(* The window.                                                             *)
(***************************************************************************)
WindowType == entries \in Seq(BOOLEAN) /\ Len(entries) <= MaxEntries
WindowInv == WindowType /\ WindowCount

(* Samples that leave the window at its front take their failures along.     *)
LEMMA DropKeeps ==
    ASSUME WindowInv, NEW n \in 0..Len(entries)
    PROVE  /\ Drop(n) \in Seq(BOOLEAN) /\ Len(Drop(n)) = Len(entries) - n
           /\ failures - Dropped(n) = Failures(Drop(n))
  BY FailuresSplit DEF WindowInv, WindowType, WindowCount, Drop, Dropped

(* A push keeps the window within its cap and its count true to it.          *)
LEMMA PushKeeps ==
    ASSUME WindowInv, NEW failure \in BOOLEAN, NEW n \in 0..Len(entries), Push(failure, n)
    PROVE  WindowInv'
<1>1. entries \in Seq(BOOLEAN) /\ Len(entries) \in Nat /\ Len(entries) <= MaxEntries
  BY LenProperties DEF WindowInv, WindowType
<1>2. Drop(n) \in Seq(BOOLEAN) /\ Len(Drop(n)) = Len(entries) - n
      /\ failures - Dropped(n) = Failures(Drop(n))
  BY DropKeeps
<1>3. entries' = Append(Drop(n), failure)
  BY DEF Push
<1>4. entries' \in Seq(BOOLEAN) /\ Len(entries') = Len(entries) - n + 1
  BY <1>2, <1>3, AppendProperties
<1>5. Len(entries') <= MaxEntries
  BY <1>1, <1>4, Constants DEF Push
<1>6. Failures(entries') = Failures(Drop(n)) + (IF failure THEN 1 ELSE 0)
  BY <1>2, <1>3, FailuresAppend
<1>7. failures' = Failures(entries')
  BY <1>2, <1>6 DEF Push
<1>. QED
  BY <1>4, <1>5, <1>7 DEF WindowInv, WindowType, WindowCount

(* No step of a thread, no eviction and no tick breaks the window.           *)
LEMMA NextKeepsWindow ==
    ASSUME TypeOK, WindowInv, [Next]_vars
    PROVE  WindowInv'
<1>1. CASE UNCHANGED window
  BY <1>1 DEF window, WindowInv, WindowType, WindowCount
<1>2. ASSUME NEW t \in Threads, PushSample(t)
      PROVE  WindowInv'
  <2>1. PICK n \in 0..Len(entries) : Push(failed[t], n)
    BY <1>2 DEF PushSample
  <2>2. failed[t] \in BOOLEAN
    BY DEF TypeOK
  <2>. QED
    BY <2>1, <2>2, PushKeeps
<1>3. ASSUME NEW t \in Threads, CloseWindow(t)
      PROVE  WindowInv'
  <2>1. entries' = <<>> /\ failures' = 0
    BY <1>3 DEF CloseWindow
  <2>2. entries' \in Seq(BOOLEAN) /\ Len(entries') <= MaxEntries
    BY <2>1, Constants
  <2>. QED
    BY <2>1, <2>2, FailuresEmpty DEF WindowInv, WindowType, WindowCount
<1>4. CASE ErrorRate
  <2>1. PICK n \in 1..Len(entries) : entries' = Drop(n) /\ failures' = failures - Dropped(n)
    BY <1>4 DEF ErrorRate
  <2>2. entries \in Seq(BOOLEAN) /\ Len(entries) \in Nat /\ Len(entries) <= MaxEntries
    BY LenProperties DEF WindowInv, WindowType
  <2>3. n \in 0..Len(entries)
    BY <2>2
  <2>4. /\ entries' \in Seq(BOOLEAN) /\ Len(entries') = Len(entries) - n
        /\ failures' = Failures(entries')
    BY <2>1, <2>3, DropKeeps
  <2>5. Len(entries') <= MaxEntries
    BY <2>2, <2>3, <2>4, Constants
  <2>. QED
    BY <2>4, <2>5 DEF WindowInv, WindowType, WindowCount
<1>5. ASSUME NEW t \in Threads, InCheck(t) \/ Abandon(t)
      PROVE  UNCHANGED window
  BY <1>5 DEF InCheck, Check, ReadOpenedAt, Elapsed, CasState, LowerMirror, Reevaluate,
       ProbeClock, FetchAdd, Claim, FetchSub, Lease, Reclaim, Abandon, window
<1>6. ASSUME NEW t \in Threads, InRecord(t)
      PROVE  UNCHANGED window \/ PushSample(t) \/ CloseWindow(t)
  BY <1>6 DEF InRecord, Record, TripState, TripClock, TripOpenedAt, TripProbes, TripMirror,
       CloseState, CloseProbes, CloseMirror, window
<1>7. CASE Tick
  BY <1>1, <1>7 DEF Tick, window
<1>8. CASE UNCHANGED vars
  BY <1>1, <1>8 DEF vars, window
<1>. QED
  BY <1>1, <1>2, <1>3, <1>4, <1>5, <1>6, <1>7, <1>8 DEF Next

-----------------------------------------------------------------------------
(***************************************************************************)
(* The rest of the state.                                                  *)
(***************************************************************************)
SharedType ==
    /\ state \in {"Closed", "Open", "HalfOpen"} /\ fast \in BOOLEAN
    /\ openedAt \in Ages /\ claimedAt \in Ages /\ probes \in 0..WordMax
ThreadType ==
    /\ now \in [Threads -> 0..MaxPause] /\ seen \in [Threads -> Ages]
    /\ failed \in [Threads -> BOOLEAN] /\ lost \in 0..MaxLost /\ pc \in [Threads -> Labels]

(* The type is that of the shared atomics, of the threads and of the window,  *)
(* whose count is bounded because it counts.                                 *)
LEMMA TypeParts ==
    /\ TypeOK => SharedType /\ ThreadType /\ WindowType
    /\ SharedType /\ ThreadType /\ WindowInv => TypeOK
<1>1. TypeOK => SharedType /\ ThreadType /\ WindowType
  BY DEF TypeOK, SharedType, ThreadType, WindowType
<1>2. ASSUME SharedType, ThreadType, WindowInv
      PROVE  TypeOK
  <2>1. entries \in Seq(BOOLEAN) /\ Len(entries) <= MaxEntries /\ failures \in 0..Len(entries)
    BY <1>2, FailuresBound DEF WindowInv, WindowType, WindowCount
  <2>2. Len(entries) \in Nat
    BY <2>1, LenProperties
  <2>3. failures \in 0..MaxEntries
    BY <2>1, <2>2, Constants
  <2>. QED
    BY <1>2, <2>1, <2>3 DEF TypeOK, SharedType, ThreadType
<1>. QED
  BY <1>1, <1>2

(* Counting up to a bound, and one slot more or less of a machine word.       *)
LEMMA Words ==
    /\ \A a \in Ages : Older(a) \in Ages
    /\ \A n \in 0..MaxPause : n \in Ages
    /\ 0 \in Ages /\ 0 \in 0..MaxPause /\ 0 \in 0..WordMax /\ 0 \in 0..MaxLost
    /\ \A n \in 0..MaxLost : n < MaxLost => n + 1 \in 0..MaxLost
    /\ \A n \in 0..WordMax : (n + 1) % (WordMax + 1) \in 0..WordMax
    /\ \A n \in 0..WordMax : (n + WordMax) % (WordMax + 1) \in 0..WordMax
  BY Constants DEF Ages, Older

(* A thread that leaves check() or record() keeps the types of its own.      *)
LEMMA ReturnType ==
    ASSUME ThreadType, NEW t \in Threads, NEW where \in Labels, Return(t, where),
           UNCHANGED <<failed, lost>>
    PROVE  ThreadType'
<1>1. 0 \in Ages /\ 0 \in 0..MaxPause
  BY Words
<1>. QED
  BY <1>1 DEF ThreadType, Return, Goto

(* The threads in check() keep the types.                                    *)
LEMMA CheckTypes ==
    ASSUME SharedType, ThreadType, NEW t \in Threads, InCheck(t)
    PROVE  SharedType' /\ ThreadType'
<1>. USE Words DEF SharedType, ThreadType, shared, Goto, Labels
<1>1. CASE Check(t)
  BY <1>1 DEF Check
<1>2. CASE ReadOpenedAt(t)
  BY <1>2 DEF ReadOpenedAt
<1>3. CASE Elapsed(t)
  BY <1>3 DEF Elapsed, Return, Shed
<1>4. CASE CasState(t)
  BY <1>4 DEF CasState
<1>5. CASE LowerMirror(t)
  BY <1>5 DEF LowerMirror
<1>6. CASE Reevaluate(t)
  BY <1>6 DEF Reevaluate
<1>7. CASE ProbeClock(t)
  BY <1>7 DEF ProbeClock
<1>8. CASE FetchAdd(t)
  BY <1>8 DEF FetchAdd
<1>9. CASE Claim(t)
  BY <1>9 DEF Claim, Admit, Return
<1>10. CASE FetchSub(t)
  BY <1>10 DEF FetchSub
<1>11. CASE Lease(t)
  BY <1>11 DEF Lease, Shed, Return
<1>12. CASE Reclaim(t)
  <2>1. claimedAt' \in Ages
    BY <1>12 DEF Reclaim, Ages
  <2>2. \E where \in {"admitted", "idle"} : Return(t, where)
    BY <1>12 DEF Reclaim, Admit, Shed
  <2>3. UNCHANGED <<failed, lost>>
    BY <1>12 DEF Reclaim
  <2>4. ThreadType'
    BY <2>2, <2>3, ReturnType
  <2>. QED
    BY <1>12, <2>1, <2>4 DEF Reclaim
<1>. QED
  BY <1>1, <1>2, <1>3, <1>4, <1>5, <1>6, <1>7, <1>8, <1>9, <1>10, <1>11, <1>12 DEF InCheck

(* The threads in record() do too, and so does a request that is dropped.     *)
LEMMA RecordTypes ==
    ASSUME SharedType, ThreadType, NEW t \in Threads, InRecord(t) \/ Abandon(t)
    PROVE  SharedType' /\ ThreadType'
<1>. USE Words DEF SharedType, ThreadType, shared, Goto, Labels
<1>1. ASSUME NEW failure \in BOOLEAN, Record(t, failure)
      PROVE  SharedType' /\ ThreadType'
  BY <1>1 DEF Record
<1>2. CASE PushSample(t)
  BY <1>2 DEF PushSample
<1>3. CASE TripState(t)
  BY <1>3 DEF TripState
<1>4. CASE TripClock(t)
  BY <1>4 DEF TripClock
<1>5. CASE TripOpenedAt(t)
  BY <1>5 DEF TripOpenedAt, Return
<1>6. CASE TripProbes(t)
  BY <1>6 DEF TripProbes
<1>7. CASE TripMirror(t)
  BY <1>7 DEF TripMirror
<1>8. CASE CloseState(t)
  BY <1>8 DEF CloseState
<1>9. CASE CloseWindow(t)
  BY <1>9 DEF CloseWindow
<1>10. CASE CloseProbes(t)
  BY <1>10 DEF CloseProbes
<1>11. CASE CloseMirror(t)
  BY <1>11 DEF CloseMirror
<1>12. CASE Abandon(t)
  BY <1>12 DEF Abandon
<1>. QED
  BY <1>1, <1>2, <1>3, <1>4, <1>5, <1>6, <1>7, <1>8, <1>9, <1>10, <1>11, <1>12 DEF InRecord

(* Time passes for every reading that is still in use.                       *)
LEMMA TickTypes ==
    ASSUME SharedType, ThreadType, Tick
    PROVE  SharedType' /\ ThreadType'
<1>1. SharedType'
  BY Words DEF Tick, SharedType
<1>2. now' \in [Threads -> 0..MaxPause]
  BY Constants DEF Tick, ThreadType
<1>3. seen' \in [Threads -> Ages]
  BY Words DEF Tick, ThreadType
<1>. QED
  BY <1>1, <1>2, <1>3 DEF Tick, ThreadType

-----------------------------------------------------------------------------
IndInv == TypeOK /\ WindowCount

(* Whatever the threads do, in whichever order.                              *)
LEMMA InvariantHolds == Spec => []IndInv
<1>1. Init => IndInv
  <2>. SUFFICES ASSUME Init PROVE IndInv
    OBVIOUS
  <2>1. SharedType /\ ThreadType
    BY Words DEF Init, SharedType, ThreadType, Labels
  <2>2. WindowInv
    BY Constants, FailuresEmpty DEF Init, WindowInv, WindowType, WindowCount
  <2>. QED
    BY <2>1, <2>2, TypeParts DEF IndInv, WindowInv
<1>2. IndInv /\ [Next]_vars => IndInv'
  <2>. SUFFICES ASSUME IndInv, [Next]_vars PROVE IndInv'
    OBVIOUS
  <2>1. TypeOK /\ SharedType /\ ThreadType /\ WindowInv
    BY TypeParts DEF IndInv, WindowInv
  <2>2. WindowInv'
    BY <2>1, NextKeepsWindow
  <2>3. SharedType' /\ ThreadType'
    <3>1. CASE UNCHANGED vars
      BY <2>1, <3>1 DEF vars, shared, SharedType, ThreadType
    <3>2. CASE ErrorRate
      BY <2>1, <3>2 DEF ErrorRate, shared, SharedType, ThreadType
    <3>. QED
      BY <2>1, <3>1, <3>2, CheckTypes, RecordTypes, TickTypes DEF Next
  <2>4. TypeOK'
    <3>1. (SharedType /\ ThreadType /\ WindowInv => TypeOK)'
      BY TypeParts, PTL
    <3>. QED
      BY <2>2, <2>3, <3>1
  <2>. QED
    BY <2>2, <2>4 DEF IndInv, WindowInv
<1>. QED
  BY <1>1, <1>2, PTL DEF Spec

(* The breaker's state stays within its types: the probe count stays a        *)
(* machine word however the fetch_add and fetch_sub of a full half-open state *)
(* and the resets of trip and close interleave, and the window stays within   *)
(* MAX_WINDOW_ENTRIES.                                                       *)
THEOREM TypeCorrect == Spec => []TypeOK
  BY InvariantHolds, PTL DEF IndInv

(* The count that SlidingWindow keeps by adding and subtracting is the number *)
(* of failures among the samples it holds, for any cap and any number of      *)
(* threads that push, evict and clear.                                       *)
THEOREM CountIsTrue == Spec => []WindowCount
  BY InvariantHolds, PTL DEF IndInv
=============================================================================
