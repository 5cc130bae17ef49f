----------------------------- MODULE RateLimiter -----------------------------
(***************************************************************************)
(* src/shared/utils/rateLimiter.tsx: a sliding window over call starts, a  *)
(* cap on calls in flight, and a queue with a length and an age limit,     *)
(* woken by one timer and by every call that ends.                         *)
(*                                                                         *)
(* Instead of timestamps the model keeps the age of each one, which is all *)
(* the code compares.  A call's age counts from its enqueueing while it is *)
(* queued and from its start afterwards.                                   *)
(***************************************************************************)
EXTENDS Integers, Sequences, FiniteSets

CONSTANTS
    Jobs,             \* the calls of execute; each is made once
    MaxCalls,         \* maxCalls
    Interval,         \* intervalMs
    MaxConcurrent,    \* maxConcurrent
    MaxQueueLength,   \* maxQueueLength
    MaxQueueWait,     \* maxQueueWaitMs
    NoTimer

ASSUME LimitsOK ==
    /\ IsFiniteSet(Jobs)
    /\ {MaxCalls, Interval, MaxConcurrent, MaxQueueLength, MaxQueueWait} \subseteq Nat
    /\ NoTimer \notin Nat

VARIABLES
    queue,         \* queued calls, oldest first
    activeCalls,   \* started calls whose `.finally` has not run
    callTimes,     \* calls whose start time is still in the list
    nextTick,      \* time left on the wake-up timer
    outcome,       \* what the caller's promise has come to
    age

vars == <<queue, activeCalls, callTimes, nextTick, outcome, age>>

Outcomes == {"unmade", "pending", "resolved", "rejected",
             "overflow", "expired", "cleared"}

\* Ages saturate one past the larger limit they are compared with.
MaxAge == 1 + IF Interval > MaxQueueWait THEN Interval ELSE MaxQueueWait

TypeOK ==
    /\ queue \in Seq(Jobs)
    /\ activeCalls \in SUBSET Jobs
    /\ callTimes \in SUBSET Jobs
    /\ nextTick \in (0 .. Interval) \cup {NoTimer}
    /\ outcome \in [Jobs -> Outcomes]
    /\ age \in [Jobs -> 0 .. MaxAge]

Init ==
    /\ queue = <<>>
    /\ activeCalls = {}
    /\ callTimes = {}
    /\ nextTick = NoTimer
    /\ outcome = [j \in Jobs |-> "unmade"]
    /\ age = [j \in Jobs |-> 0]

-----------------------------------------------------------------------------

\* Mutant of Pruned: a start exactly one interval ago is dropped.
PrunedEarly(times) == {j \in times : age[j] < Interval}

\* pruneWindow
Pruned(times) == {j \in times : age[j] <= Interval}

\* Mutant of HasCapacity: calls in flight are not counted.
HasCapacityByRate(starts, inFlight) == starts < MaxCalls

\* hasCapacity
HasCapacity(starts, inFlight) == starts < MaxCalls /\ inFlight < MaxConcurrent

\* Mutant of UntilOldestLeaves: one unit more, to be past the strict comparison.
UntilOldestHasLeft(times, ages) ==
    CHOOSE d \in 1 .. Interval + 1 :
        /\ \E j \in times : d = Interval + 1 - ages[j]
        /\ \A j \in times : d <= Interval + 1 - ages[j]

\* How long until the oldest of a pruned window leaves it.
UntilOldestLeaves(times, ages) ==
    CHOOSE d \in 0 .. Interval :
        /\ \E j \in times : d = Interval - ages[j]
        /\ \A j \in times : d <= Interval - ages[j]

\* Mutant of Scheduled: no wake-up while only the cap on calls in flight binds.
ScheduledForWindow(tick, q, times, ages) ==
    IF tick # NoTimer \/ q = <<>> THEN tick
    ELSE IF Cardinality(times) >= MaxCalls /\ times # {}
         THEN UntilOldestLeaves(times, ages)
         ELSE NoTimer

\* ensureScheduled: the timer it leaves.
Scheduled(tick, q, times, ages) ==
    IF tick # NoTimer \/ q = <<>> THEN tick
    ELSE IF Cardinality(times) >= MaxCalls /\ times # {}
         THEN UntilOldestLeaves(times, ages)
         ELSE 0

\* Mutant of ClearedIfIdle: the queue is not looked at.
ClearedWhenInactive(tick, q, active) == IF active = {} THEN NoTimer ELSE tick

\* clearScheduledIfIdle
ClearedIfIdle(tick, q, active) ==
    IF q = <<>> /\ active = {} THEN NoTimer ELSE tick

\* Ages restart for the calls that are enqueued or started now.
Restarted(js) == [j \in Jobs |-> IF j \in js THEN 0 ELSE age[j]]

\* Mutant of TooOld: a call expires only when its age passes the saturated one.
TooOldNever(j) == age[j] > MaxAge

TooOld(j) == age[j] > MaxQueueWait

\* The queue is in the order of enqueueing, so the expired calls come first.
ExpiredCount == Cardinality({i \in 1 .. Len(queue) : TooOld(queue[i])})

\* processQueue, after a call has ended or the timer has fired.  m is how many
\* turns its loop takes.
ProcessQueue(active, tick) ==
    LET expired == {queue[i] : i \in 1 .. ExpiredCount}
        live == SubSeq(queue, ExpiredCount + 1, Len(queue))
        times == Pruned(callTimes)
        Capacity(k) == HasCapacity(Cardinality(times) + k, Cardinality(active) + k)
    IN  \E m \in 0 .. Len(live) :
            /\ \A k \in 0 .. m - 1 : Capacity(k)
            /\ m = Len(live) \/ ~Capacity(m)
            /\ LET begun == {live[i] : i \in 1 .. m}
               IN  /\ queue' = SubSeq(live, m + 1, Len(live))
                   /\ activeCalls' = active \cup begun
                   /\ callTimes' = times \cup begun
                   /\ age' = Restarted(begun)
            /\ nextTick' = ClearedIfIdle(
                   Scheduled(tick, queue', callTimes', age'), queue', activeCalls')
            /\ outcome' = [j \in Jobs |->
                              IF j \in expired THEN "expired" ELSE outcome[j]]

-----------------------------------------------------------------------------

\* execute(fn) with capacity: the call starts, ahead of any that are queued.
ExecuteNow(j) ==
    LET times == Pruned(callTimes)
    IN  /\ outcome[j] = "unmade"
        /\ HasCapacity(Cardinality(times), Cardinality(activeCalls))
        /\ activeCalls' = activeCalls \cup {j}
        /\ callTimes' = times \cup {j}
        /\ outcome' = [outcome EXCEPT ![j] = "pending"]
        /\ age' = Restarted({j})
        /\ nextTick' = Scheduled(nextTick, queue, callTimes', age')
        /\ UNCHANGED queue

\* execute(fn) without capacity: the call waits its turn.
ExecuteQueued(j) ==
    LET times == Pruned(callTimes)
    IN  /\ outcome[j] = "unmade"
        /\ ~HasCapacity(Cardinality(times), Cardinality(activeCalls))
        /\ Len(queue) < MaxQueueLength
        /\ queue' = Append(queue, j)
        /\ callTimes' = times
        /\ outcome' = [outcome EXCEPT ![j] = "pending"]
        /\ age' = Restarted({j})
        /\ nextTick' = Scheduled(nextTick, queue', times, age')
        /\ UNCHANGED activeCalls

\* A full queue rejects the call and returns before ensureScheduled.
ExecuteOverflow(j) ==
    LET times == Pruned(callTimes)
    IN  /\ outcome[j] = "unmade"
        /\ ~HasCapacity(Cardinality(times), Cardinality(activeCalls))
        /\ Len(queue) >= MaxQueueLength
        /\ callTimes' = times
        /\ outcome' = [outcome EXCEPT ![j] = "overflow"]
        /\ UNCHANGED <<queue, activeCalls, nextTick, age>>

\* The wrapped function ends and the caller has its answer; the `.finally` of
\* startCall runs in a later microtask, and the caller may run in between.
Settle(j, result) ==
    /\ j \in activeCalls /\ outcome[j] = "pending"
    /\ outcome' = [outcome EXCEPT ![j] = result]
    /\ UNCHANGED <<queue, activeCalls, callTimes, nextTick, age>>

Settling == {j \in activeCalls : outcome[j] # "pending"}

Finally(j) ==
    /\ j \in Settling
    /\ ProcessQueue(activeCalls \ {j}, nextTick)

\* Timers and the clock wait for pending microtasks.
TimerFires ==
    /\ Settling = {}
    /\ nextTick = 0
    /\ ProcessQueue(activeCalls, NoTimer)

\* A timer may fire late: time goes on while it is due.
Tick ==
    /\ Settling = {}
    /\ age' = [j \in Jobs |->
           IF outcome[j] \in {"pending", "resolved", "rejected"} /\ age[j] < MaxAge
           THEN age[j] + 1 ELSE age[j]]
    /\ nextTick' = IF nextTick \in {0, NoTimer} THEN nextTick ELSE nextTick - 1
    /\ UNCHANGED <<queue, activeCalls, callTimes, outcome>>

\* clearQueue
ClearQueue ==
    /\ queue # <<>>
    /\ queue' = <<>>
    /\ outcome' = [j \in Jobs |-> IF \E i \in 1 .. Len(queue) : queue[i] = j
                                  THEN "cleared" ELSE outcome[j]]
    /\ nextTick' = ClearedIfIdle(nextTick, queue', activeCalls)
    /\ UNCHANGED <<activeCalls, callTimes, age>>

Next ==
    \/ \E j \in Jobs : ExecuteNow(j) \/ ExecuteQueued(j) \/ ExecuteOverflow(j)
    \/ \E j \in Jobs, result \in {"resolved", "rejected"} : Settle(j, result)
    \/ \E j \in Jobs : Finally(j)
    \/ TimerFires
    \/ Tick
    \/ ClearQueue

Spec == Init /\ [][Next]_vars

\* The event loop runs microtasks, fires due timers, and time passes.  Nothing
\* is assumed of the functions the calls run: they may never end.
FairSpec ==
    /\ Spec
    /\ \A j \in Jobs : WF_vars(Finally(j))
    /\ WF_vars(TimerFires)
    /\ WF_vars(Tick)

-----------------------------------------------------------------------------
(* Properties *)

Started == activeCalls \cup {j \in Jobs : outcome[j] \in {"resolved", "rejected"}}

\* "Enforces at most maxCalls call starts per intervalMs (sliding window)"
\* (rateLimiter.tsx:44): whatever the list of timestamps says, no more than
\* MaxCalls calls have really started in the interval that ends now, both its
\* ends included.
RateBound ==
    Cardinality({j \in Started : age[j] <= Interval}) <= MaxCalls

\* The cap on calls in flight holds however calls that end, timers and new
\* calls, which may start ahead of the queue, interleave.
InFlightBound == Cardinality(activeCalls) <= MaxConcurrent

\* No lost wake-up: while a call is queued a timer is set, also when the calls
\* in flight never end.
TimerWhenQueued == queue # <<>> => nextTick # NoTimer

\* A queued call that has waited longer than MaxQueueWait is never started.
StartsAreFresh ==
    [][\A i \in 1 .. Len(queue) :
        queue[i] \in activeCalls' => age[queue[i]] <= MaxQueueWait]_vars

InQueue(j) == \E i \in 1 .. Len(queue) : queue[i] = j

\* Every queued call starts or is dropped after a while, even when the calls in
\* flight never end.
QueuedLeaves == \A j \in Jobs : InQueue(j) ~> ~InQueue(j)
=============================================================================
