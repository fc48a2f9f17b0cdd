--------------------------- MODULE CircuitBreaker ----------------------------
(***************************************************************************)
(* The shared circuit breaker.  Its state, its clock readings, the probe     *)
(* count and the mirror for is_open() are atomics of their own, written one   *)
(* by one by any thread that is in check() or record(); only the sliding      *)
(* window has a mutex.  Every action below is one atomic operation.          *)
(*                                                                         *)
(* A point in time is its age, counted up to a bound after which nothing      *)
(* tells two of them apart.  The duration of the window is left to chance:    *)
(* its oldest samples may leave it at any time.                             *)
(***************************************************************************)
EXTENDS Naturals, Sequences, FiniteSets

CONSTANTS
    Threads,       \* requests that go through the breaker
    OpenDuration,  \* ticks of the cool-down, and of the lease of a probe
    MaxProbes,     \* half_open_max_probes
    MinSamples,    \* samples in the window before it may trip
    MaxEntries,    \* MAX_WINDOW_ENTRIES
    WordMax,       \* bound: usize::MAX
    MaxPause,      \* bound: ticks between a clock reading and its last use
    MaxLost        \* bound: requests dropped before they record

ASSUME BreakerAssumption ==
    /\ Threads # {} /\ OpenDuration \in Nat \ {0} /\ MaxProbes \in Nat \ {0}
    /\ MinSamples \in Nat \ {0} /\ MaxEntries \in Nat \ {0}
    /\ WordMax \in Nat /\ WordMax > MaxProbes + Cardinality(Threads)
    /\ MaxPause \in Nat \ {0} /\ MaxLost \in Nat

MaxAge == OpenDuration + MaxPause
Ages == 0..MaxAge

VARIABLES
    state,      \* Closed, Open or HalfOpen
    openedAt,   \* opened_at_millis
    probes,     \* half_open_probes
    claimedAt,  \* probe_claimed_at_millis
    fast,       \* is_open_fast
    entries,    \* the window: which of its samples are failures
    failures,   \* SlidingWindow::failures
    pc,         \* thread -> where it is in check() or record()
    now,        \* thread -> the clock reading of its call
    failed,     \* thread -> the outcome it is recording is a failure
    seen,       \* thread -> opened_at or probe_claimed_at as it has read it
    lost        \* requests dropped so far

shared == <<state, openedAt, probes, claimedAt, fast>>
window == <<entries, failures>>
vars == <<shared, window, pc, now, seen, failed, lost>>

(* with_clock *)
Init ==
    /\ state = "Closed" /\ openedAt = 0 /\ probes = 0 /\ claimedAt = 0 /\ fast = FALSE
    /\ entries = <<>> /\ failures = 0
    /\ pc = [t \in Threads |-> "idle"]
    /\ now = [t \in Threads |-> 0] /\ seen = [t \in Threads |-> 0]
    /\ failed = [t \in Threads |-> FALSE]
    /\ lost = 0

Goto(t, label) == pc' = [pc EXCEPT ![t] = label]
(* What the call has read is not used any more. *)
Return(t, label) ==
    /\ Goto(t, label)
    /\ now' = [now EXCEPT ![t] = 0] /\ seen' = [seen EXCEPT ![t] = 0]
Admit(t) == Return(t, "admitted")
Shed(t) == Return(t, "idle")
(* saturating_sub of two points in time *)
Since(earlier, later) == IF earlier > later THEN earlier - later ELSE 0

(***************************************************************************)
(* check                                                                   *)
(***************************************************************************)
Check(t) ==
    /\ pc[t] = "idle"
    /\ \/ state = "Closed" /\ Goto(t, "admitted")
       \/ state = "Open" /\ Goto(t, "open")
       \/ state = "HalfOpen" /\ Goto(t, "probe")
    /\ UNCHANGED <<shared, window, now, seen, failed, lost>>

(* check_open: opened_at is read first, the clock after it. *)
ReadOpenedAt(t) ==
    /\ pc[t] = "open"
    /\ seen' = [seen EXCEPT ![t] = openedAt] /\ Goto(t, "elapsed")
    /\ UNCHANGED <<shared, window, now, failed, lost>>
Elapsed(t) ==
    /\ pc[t] = "elapsed"
    /\ IF seen[t] >= OpenDuration THEN Return(t, "cas") ELSE Shed(t)
    /\ UNCHANGED <<shared, window, failed, lost>>
(* cas_state(Open, HalfOpen); the loser looks at the state again. *)
CasState(t) ==
    /\ pc[t] = "cas"
    /\ \/ state = "Open" /\ state' = "HalfOpen" /\ Goto(t, "half-open")
       \/ state # "Open" /\ Goto(t, "lost race") /\ UNCHANGED state
    /\ UNCHANGED <<openedAt, probes, claimedAt, fast, window, now, seen, failed, lost>>
LowerMirror(t) ==
    /\ pc[t] = "half-open" /\ fast' = FALSE /\ Goto(t, "probe")
    /\ UNCHANGED <<state, openedAt, probes, claimedAt, window, now, seen, failed, lost>>
Reevaluate(t) ==
    /\ pc[t] = "lost race"
    /\ \/ state = "Closed" /\ Goto(t, "admitted")
       \/ state = "HalfOpen" /\ Goto(t, "probe")
       \/ state = "Open" /\ Goto(t, "idle")
    /\ UNCHANGED <<shared, window, now, seen, failed, lost>>

(* try_half_open_probe: read the clock, take a slot, ... *)
ProbeClock(t) ==
    /\ pc[t] = "probe" /\ Goto(t, "add")
    /\ UNCHANGED <<shared, window, now, seen, failed, lost>>
FetchAdd(t) ==
    /\ pc[t] = "add"
    /\ probes' = (probes + 1) % (WordMax + 1)
    /\ Goto(t, IF probes < MaxProbes THEN "claim" ELSE "full")
    /\ UNCHANGED <<state, openedAt, claimedAt, fast, window, now, seen, failed, lost>>
Claim(t) ==
    /\ pc[t] = "claim" /\ claimedAt' = now[t] /\ Admit(t)
    /\ UNCHANGED <<state, openedAt, probes, fast, window, failed, lost>>
(* Mutant: the count goes below zero. *)
FetchSubSigned(t) ==
    /\ pc[t] = "full" /\ probes' = IF probes = 0 THEN WordMax + 1 ELSE probes - 1
    /\ Goto(t, "lease")
    /\ UNCHANGED <<state, openedAt, claimedAt, fast, window, now, seen, failed, lost>>
(* ... or put it back when there was none left, ... *)
FetchSub(t) ==
    /\ pc[t] = "full" /\ probes' = (probes + WordMax) % (WordMax + 1) /\ Goto(t, "lease")
    /\ UNCHANGED <<state, openedAt, claimedAt, fast, window, now, seen, failed, lost>>
(* Mutant: a claim is never taken for abandoned. *)
NoLease(t) ==
    /\ pc[t] = "lease" /\ Shed(t)
    /\ UNCHANGED <<shared, window, failed, lost>>
(* ... and take over a claim that is older than the lease. *)
Lease(t) ==
    /\ pc[t] = "lease"
    /\ IF Since(claimedAt, now[t]) >= OpenDuration
       THEN /\ Goto(t, "reclaim") /\ seen' = [seen EXCEPT ![t] = claimedAt]
            /\ UNCHANGED now
       ELSE Shed(t)
    /\ UNCHANGED <<shared, window, failed, lost>>
Reclaim(t) ==
    /\ pc[t] = "reclaim"
    /\ \/ claimedAt = seen[t] /\ claimedAt' = now[t] /\ Admit(t)
       \/ claimedAt # seen[t] /\ Shed(t) /\ UNCHANGED claimedAt
    /\ UNCHANGED <<state, openedAt, probes, fast, window, failed, lost>>

(***************************************************************************)
(* record                                                                  *)
(***************************************************************************)
(* Mutant: the success of a probe is one more sample. *)
RecordSample(t, failure) ==
    /\ pc[t] = "admitted"
    /\ \/ state = "HalfOpen" /\ failure /\ Goto(t, "trip") /\ UNCHANGED failed
       \/ /\ state = "HalfOpen" => ~failure
          /\ Goto(t, "push") /\ failed' = [failed EXCEPT ![t] = failure]
    /\ UNCHANGED <<shared, window, now, seen, lost>>
(* The outcome of a request is recorded by the state found then. *)
Record(t, failure) ==
    /\ pc[t] = "admitted"
    /\ \/ state = "Closed" /\ Goto(t, "push") /\ failed' = [failed EXCEPT ![t] = failure]
       \/ state = "Open" /\ Goto(t, "push only") /\ failed' = [failed EXCEPT ![t] = failure]
       \/ state = "HalfOpen" /\ Goto(t, IF failure THEN "trip" ELSE "close") /\ UNCHANGED failed
    /\ UNCHANGED <<shared, window, now, seen, lost>>

(* The caller is cancelled: nothing is recorded. *)
Abandon(t) ==
    /\ pc[t] = "admitted" /\ lost < MaxLost
    /\ lost' = lost + 1 /\ Goto(t, "idle")
    /\ UNCHANGED <<shared, window, now, seen, failed>>

(* How many of the samples s are failures. *)
Failures(s) == Cardinality({i \in 1..Len(s) : s[i]})
(* SlidingWindow::evict when n entries at the front are outdated. *)
Drop(n) == SubSeq(entries, n + 1, Len(entries))
Dropped(n) == Failures(SubSeq(entries, 1, n))
(* Mutant: what is pushed out of a full window still counts. *)
PushLeaky(failure, n) ==
    /\ entries' = Append(Drop(IF n = 0 /\ Len(entries) >= MaxEntries THEN 1 ELSE n), failure)
    /\ failures' = failures - Dropped(n) + (IF failure THEN 1 ELSE 0)
(* SlidingWindow::push, which makes room in a full window, then evict. *)
Push(failure, n) ==
    /\ Len(entries) >= MaxEntries => n > 0
    /\ entries' = Append(Drop(n), failure)
    /\ failures' = failures - Dropped(n) + (IF failure THEN 1 ELSE 0)
(* min_samples, and an error_rate_threshold of one half *)
ShouldTrip == Len(entries') >= MinSamples /\ 2 * failures' >= Len(entries')

PushSample(t) ==
    /\ pc[t] \in {"push", "push only"}
    /\ \E n \in 0..Len(entries) : Push(failed[t], n)
    /\ Goto(t, IF pc[t] = "push" /\ ShouldTrip THEN "trip" ELSE "idle")
    /\ failed' = [failed EXCEPT ![t] = FALSE]
    /\ UNCHANGED <<shared, now, seen, lost>>

(* trip: the state, then the clock, opened_at, the probe count, the mirror *)
TripState(t) ==
    /\ pc[t] = "trip" /\ state' = "Open" /\ Goto(t, "trip clock")
    /\ UNCHANGED <<openedAt, probes, claimedAt, fast, window, now, seen, failed, lost>>
TripClock(t) ==
    /\ pc[t] = "trip clock" /\ Goto(t, "trip opened")
    /\ UNCHANGED <<shared, window, now, seen, failed, lost>>
TripOpenedAt(t) ==
    /\ pc[t] = "trip opened" /\ openedAt' = now[t] /\ Return(t, "trip probes")
    /\ UNCHANGED <<state, probes, claimedAt, fast, window, failed, lost>>
TripProbes(t) ==
    /\ pc[t] = "trip probes" /\ probes' = 0 /\ Goto(t, "trip mirror")
    /\ UNCHANGED <<state, openedAt, claimedAt, fast, window, now, seen, failed, lost>>
TripMirror(t) ==
    /\ pc[t] = "trip mirror" /\ fast' = TRUE /\ Goto(t, "idle")
    /\ UNCHANGED <<state, openedAt, probes, claimedAt, window, now, seen, failed, lost>>

(* close: the state, the window, the probe count, the mirror *)
CloseState(t) ==
    /\ pc[t] = "close" /\ state' = "Closed" /\ Goto(t, "close window")
    /\ UNCHANGED <<openedAt, probes, claimedAt, fast, window, now, seen, failed, lost>>
CloseWindow(t) ==
    /\ pc[t] = "close window" /\ entries' = <<>> /\ failures' = 0
    /\ Goto(t, "close probes")
    /\ UNCHANGED <<shared, now, seen, failed, lost>>
CloseProbes(t) ==
    /\ pc[t] = "close probes" /\ probes' = 0 /\ Goto(t, "close mirror")
    /\ UNCHANGED <<state, openedAt, claimedAt, fast, window, now, seen, failed, lost>>
CloseMirror(t) ==
    /\ pc[t] = "close mirror" /\ fast' = FALSE /\ Goto(t, "idle")
    /\ UNCHANGED <<state, openedAt, probes, claimedAt, window, now, seen, failed, lost>>

(* error_rate() drops what is outdated before it looks. *)
ErrorRate ==
    /\ \E n \in 1..Len(entries) : entries' = Drop(n) /\ failures' = failures - Dropped(n)
    /\ UNCHANGED <<shared, pc, now, seen, failed, lost>>

(***************************************************************************)
(* Time and the environment                                                *)
(***************************************************************************)
Older(age) == IF age < MaxAge THEN age + 1 ELSE age
(* A call is not held up for longer than MaxPause once it has read the clock. *)
InCall(t) == pc[t] \in {"add", "claim", "full", "lease", "reclaim", "trip opened"}
Tick ==
    /\ \A t \in Threads : InCall(t) => now[t] < MaxPause
    /\ openedAt' = Older(openedAt) /\ claimedAt' = Older(claimedAt)
    /\ now' = [t \in Threads |-> IF InCall(t) THEN now[t] + 1 ELSE 0]
    /\ seen' = [t \in Threads |-> IF pc[t] \in {"elapsed", "reclaim"} THEN Older(seen[t]) ELSE 0]
    /\ UNCHANGED <<state, probes, fast, window, pc, failed, lost>>
InCheck(t) ==
    \/ Check(t) \/ ReadOpenedAt(t) \/ Elapsed(t) \/ CasState(t) \/ LowerMirror(t)
    \/ Reevaluate(t) \/ ProbeClock(t) \/ FetchAdd(t) \/ Claim(t) \/ FetchSub(t)
    \/ Lease(t) \/ Reclaim(t)
InRecord(t) ==
    \/ \E failure \in BOOLEAN : Record(t, failure)
    \/ PushSample(t)
    \/ TripState(t) \/ TripClock(t) \/ TripOpenedAt(t) \/ TripProbes(t) \/ TripMirror(t)
    \/ CloseState(t) \/ CloseWindow(t) \/ CloseProbes(t) \/ CloseMirror(t)

Next ==
    \/ \E t \in Threads : InCheck(t) \/ InRecord(t) \/ Abandon(t)
    \/ ErrorRate \/ Tick

Spec == Init /\ [][Next]_vars

(* Requests keep coming and end, time passes.  Nothing makes a sample outdated, *)
(* nothing drops a request, nothing heals what is down.                       *)
FairSpec ==
    /\ Spec /\ WF_vars(Tick)
    /\ \A t \in Threads : WF_vars(InCheck(t) \/ InRecord(t))

(***************************************************************************)
(* Properties                                                              *)
(***************************************************************************)
Labels == {"idle", "open", "elapsed", "cas", "half-open", "lost race", "probe", "add",
           "claim", "full", "lease", "reclaim", "admitted", "push", "push only",
           "trip", "trip clock", "trip opened", "trip probes", "trip mirror",
           "close", "close window", "close probes", "close mirror"}

(* The type of the breaker's state: the probe count stays a machine word, the  *)
(* window stays within MAX_WINDOW_ENTRIES.                                   *)
TypeOK ==
    /\ state \in {"Closed", "Open", "HalfOpen"} /\ fast \in BOOLEAN
    /\ openedAt \in Ages /\ claimedAt \in Ages /\ probes \in 0..WordMax
    /\ entries \in Seq(BOOLEAN) /\ Len(entries) <= MaxEntries /\ failures \in 0..MaxEntries
    /\ now \in [Threads -> 0..MaxPause] /\ seen \in [Threads -> Ages]
    /\ failed \in [Threads -> BOOLEAN] /\ lost \in 0..MaxLost /\ pc \in [Threads -> Labels]

(* The failure count that the breaker trips on is the number of failures in   *)
(* the window, however samples get in and out: pushed at the cap, outdated,   *)
(* cleared by a close that another thread's push overtakes.                  *)
WindowCount == failures = Failures(entries)

(* The breaker never sheds all traffic for good, whichever requests are       *)
(* dropped while they hold a probe slot and however trips and probe claims    *)
(* interleave ("a lost probe delays recovery by at most one cool-down").      *)
AdmitsAgain == []<>(\E t \in Threads : pc[t] = "admitted")

(* When no request fails any more, the breaker closes.                       *)
ClosesWhenHealthy ==
    <>[][\A t \in Threads : ~Record(t, TRUE)]_vars => []<>(state = "Closed")

=============================================================================
