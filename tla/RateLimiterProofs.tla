-------------------------- MODULE RateLimiterProofs --------------------------
(***************************************************************************)
(* Theorems about RateLimiter, for every finite set of calls and all       *)
(* limits: the rate and in-flight bounds, that no wake-up is lost and that *)
(* no call starts that has waited too long.                                *)
(***************************************************************************)
EXTENDS RateLimiter, FiniteSetTheorems, SequenceTheorems, WellFoundedInduction, TLAPS

Ticks == (0 .. Interval) \cup {NoTimer}

-----------------------------------------------------------------------------
(* The timer *)

\* The least wait of a window is one of those the timer can hold.
LEMMA UntilOldestLeavesType ==
    ASSUME NEW times, times # {}, NEW ages,
           \A j \in times : ages[j] \in 0 .. Interval
    PROVE  UntilOldestLeaves(times, ages) \in 0 .. Interval
<1> DEFINE waits == {d \in 0 .. Interval : \E j \in times : d = Interval - ages[j]}
<1>0. Interval \in Nat
  BY LimitsOK
<1>1. \A j \in times : Interval - ages[j] \in waits
  BY <1>0
<1>2. waits \in SUBSET Nat /\ waits # {}
  BY <1>0, <1>1
<1>3. PICK d \in waits : \A w \in waits : ~(w < d)
  <2>1. PICK d \in waits : \A w \in waits : ~(<<w, d>> \in OpToRel(<, Nat))
    BY <1>2, NatLessThanWellFounded, WFMin
  <2> QED BY <1>2, <2>1 DEF OpToRel
<1>4. /\ \E j \in times : d = Interval - ages[j]
      /\ \A j \in times : d <= Interval - ages[j]
  BY <1>0, <1>1, <1>3
<1> QED
  BY <1>3, <1>4 DEF UntilOldestLeaves

\* What ensureScheduled leaves: a timer, when a call is queued.
LEMMA ScheduledType ==
    ASSUME NEW tick \in Ticks, NEW q, NEW times, NEW ages,
           \A j \in times : ages[j] \in 0 .. Interval
    PROVE  /\ Scheduled(tick, q, times, ages) \in Ticks
           /\ q # <<>> => Scheduled(tick, q, times, ages) # NoTimer
<1>0. Interval \in Nat /\ NoTimer \notin Nat /\ 0 \in 0 .. Interval
  BY LimitsOK
<1>1. times # {} => UntilOldestLeaves(times, ages) \in 0 .. Interval
  BY UntilOldestLeavesType
<1> QED
  BY <1>0, <1>1 DEF Scheduled, Ticks

-----------------------------------------------------------------------------
(* The inductive invariant *)

\* The list of start times holds every start of the current interval.
RecentAreCounted == \A j \in Started : age[j] <= Interval => j \in callTimes

\* Only calls that were made are queued or running: a new call starts fresh.
HeldWereMade ==
    /\ \A i \in 1 .. Len(queue) : outcome[queue[i]] # "unmade"
    /\ \A j \in activeCalls : outcome[j] # "unmade"

IInv ==
    /\ TypeOK
    /\ Cardinality(callTimes) <= MaxCalls
    /\ InFlightBound
    /\ RecentAreCounted
    /\ HeldWereMade
    /\ TimerWhenQueued

LEMMA LimitsAreNat ==
    /\ MaxCalls \in Nat /\ Interval \in Nat /\ MaxConcurrent \in Nat
    /\ MaxQueueLength \in Nat /\ MaxQueueWait \in Nat
    /\ NoTimer \notin Nat
    /\ MaxAge \in Nat /\ MaxAge > Interval /\ MaxAge > MaxQueueWait
BY LimitsOK DEF MaxAge

LEMMA CardinalityOfJobs ==
    ASSUME NEW S \in SUBSET Jobs
    PROVE  IsFiniteSet(S) /\ Cardinality(S) \in Nat
BY FS_Subset, FS_CardinalityType, LimitsOK

\* One more call adds at most one to the number of calls.
LEMMA OneMoreJob ==
    ASSUME NEW S \in SUBSET Jobs, NEW j \in Jobs
    PROVE  /\ Cardinality(S \cup {j}) \in Nat
           /\ Cardinality(S \cup {j}) <= Cardinality(S) + 1
<1>1. IsFiniteSet(S) /\ Cardinality(S) \in Nat
  BY CardinalityOfJobs
<1>2. Cardinality(S \cup {j}) = IF j \in S THEN Cardinality(S) ELSE Cardinality(S) + 1
  BY <1>1, FS_AddElement
<1> QED
  BY <1>1, <1>2

LEMMA InitIInv ==
    ASSUME Init
    PROVE  IInv
<1>1. TypeOK
  BY LimitsAreNat, EmptySeq DEF Init, TypeOK, Outcomes
<1>2. Cardinality({}) = 0
  BY FS_EmptySet
<1>3. Started = {}
  BY DEF Init, Started
<1> QED
  BY <1>1, <1>2, <1>3, LimitsAreNat, EmptySeq
     DEF Init, IInv, InFlightBound, RecentAreCounted, HeldWereMade, TimerWhenQueued

\* A pruned window is a small window of recent starts.
LEMMA PrunedWindow ==
    ASSUME IInv
    PROVE  /\ Pruned(callTimes) \in SUBSET Jobs
           /\ Cardinality(Pruned(callTimes)) \in Nat
           /\ Cardinality(Pruned(callTimes)) <= MaxCalls
           /\ \A j \in Pruned(callTimes) : age[j] \in 0 .. Interval
           /\ \A j \in Started : age[j] <= Interval => j \in Pruned(callTimes)
<1>1. /\ Pruned(callTimes) \in SUBSET callTimes /\ callTimes \in SUBSET Jobs
      /\ \A j \in Pruned(callTimes) : age[j] <= Interval /\ age[j] \in Nat
  BY LimitsAreNat DEF IInv, TypeOK, Pruned
<1>2. /\ Cardinality(Pruned(callTimes)) <= Cardinality(callTimes)
      /\ Cardinality(Pruned(callTimes)) \in Nat /\ Cardinality(callTimes) \in Nat
  BY <1>1, CardinalityOfJobs, FS_Subset
<1>3. \A j \in Started : age[j] <= Interval => j \in Pruned(callTimes)
  BY DEF IInv, RecentAreCounted, Pruned
<1> QED
  BY <1>1, <1>2, <1>3, LimitsAreNat DEF IInv

LEMMA RestartedType ==
    ASSUME IInv, NEW js
    PROVE  /\ Restarted(js) \in [Jobs -> 0 .. MaxAge]
           /\ \A j \in Jobs : Restarted(js)[j] = IF j \in js THEN 0 ELSE age[j]
BY LimitsAreNat DEF IInv, TypeOK, Restarted

LEMMA ExecuteNowKeepsIInv ==
    ASSUME IInv, NEW j \in Jobs, ExecuteNow(j)
    PROVE  IInv'
<1> DEFINE times == Pruned(callTimes)
<1>1. /\ outcome[j] = "unmade" /\ queue' = queue
      /\ activeCalls' = activeCalls \cup {j} /\ callTimes' = times \cup {j}
      /\ outcome' = [outcome EXCEPT ![j] = "pending"]
      /\ age' = Restarted({j})
      /\ nextTick' = Scheduled(nextTick, queue, callTimes', age')
      /\ Cardinality(times) < MaxCalls /\ Cardinality(activeCalls) < MaxConcurrent
  BY DEF ExecuteNow, HasCapacity
<1> HIDE DEF times
<1>2. /\ times \in SUBSET Jobs /\ Cardinality(times) \in Nat
      /\ \A k \in times : age[k] \in 0 .. Interval
      /\ \A k \in Started : age[k] <= Interval => k \in times
  BY PrunedWindow DEF times
<1>3. activeCalls \in SUBSET Jobs /\ Cardinality(activeCalls) \in Nat
  BY CardinalityOfJobs DEF IInv, TypeOK
<1>4. /\ Cardinality(callTimes') <= MaxCalls
      /\ Cardinality(activeCalls') <= MaxConcurrent
  <2>1. /\ Cardinality(times \cup {j}) \in Nat
        /\ Cardinality(times \cup {j}) <= Cardinality(times) + 1
    BY <1>2, OneMoreJob
  <2>2. /\ Cardinality(activeCalls \cup {j}) \in Nat
        /\ Cardinality(activeCalls \cup {j}) <= Cardinality(activeCalls) + 1
    BY <1>3, OneMoreJob
  <2> QED BY <1>1, <1>2, <1>3, <2>1, <2>2, LimitsAreNat
<1>5. /\ age' \in [Jobs -> 0 .. MaxAge]
      /\ \A k \in Jobs : age'[k] = IF k = j THEN 0 ELSE age[k]
  BY <1>1, RestartedType
<1>6. \A k \in callTimes' : age'[k] \in 0 .. Interval
  BY <1>1, <1>2, <1>5, LimitsAreNat
<1>7. nextTick' \in Ticks /\ (queue' # <<>> => nextTick' # NoTimer)
  <2>1. nextTick \in Ticks
    BY DEF IInv, TypeOK, Ticks
  <2> QED BY <1>1, <1>6, <2>1, ScheduledType
<1>8. TypeOK'
  BY <1>1, <1>2, <1>5, <1>7 DEF IInv, TypeOK, Ticks, Outcomes
<1>9. RecentAreCounted'
  <2>1. \A k \in Started' : k = j \/ k \in Started
    BY <1>1 DEF Started, IInv, TypeOK
  <2>2. \A k \in Started' : k \in Jobs
    BY <1>8 DEF Started, TypeOK
  <2> QED BY <1>1, <1>2, <1>5, <2>1, <2>2 DEF RecentAreCounted
<1>10. HeldWereMade'
  <2>1. \A k \in Jobs : outcome'[k] # "unmade" <=> (k = j \/ outcome[k] # "unmade")
    BY <1>1 DEF IInv, TypeOK
  <2>2. \A i \in 1 .. Len(queue) : queue[i] \in Jobs
    BY ElementOfSeq DEF IInv, TypeOK
  <2> QED BY <1>1, <1>8, <2>1, <2>2 DEF IInv, HeldWereMade, TypeOK
<1> QED
  BY <1>4, <1>7, <1>8, <1>9, <1>10 DEF IInv, InFlightBound, TimerWhenQueued

LEMMA ExecuteQueuedKeepsIInv ==
    ASSUME IInv, NEW j \in Jobs, ExecuteQueued(j)
    PROVE  IInv'
<1> DEFINE times == Pruned(callTimes)
<1>1. /\ outcome[j] = "unmade" /\ queue' = Append(queue, j)
      /\ activeCalls' = activeCalls /\ callTimes' = times
      /\ outcome' = [outcome EXCEPT ![j] = "pending"]
      /\ age' = Restarted({j})
      /\ nextTick' = Scheduled(nextTick, queue', times, age')
  BY DEF ExecuteQueued
<1> HIDE DEF times
<1>2. /\ times \in SUBSET Jobs /\ Cardinality(times) <= MaxCalls
      /\ \A k \in times : age[k] \in 0 .. Interval
      /\ \A k \in Started : age[k] <= Interval => k \in times
  BY PrunedWindow DEF times
<1>3. /\ queue' \in Seq(Jobs)
      /\ \A i \in 1 .. Len(queue') : queue'[i] = j \/ \E k \in 1 .. Len(queue) : queue'[i] = queue[k]
  <2>1. queue \in Seq(Jobs) /\ Len(queue) \in Nat
    BY LenProperties DEF IInv, TypeOK
  <2> QED BY <1>1, <2>1, AppendProperties
<1>4. /\ age' \in [Jobs -> 0 .. MaxAge]
      /\ \A k \in Jobs : age'[k] = IF k = j THEN 0 ELSE age[k]
  BY <1>1, RestartedType
<1>5. \A k \in times : age'[k] \in 0 .. Interval
  BY <1>2, <1>4, LimitsAreNat
<1>6. nextTick' \in Ticks /\ (queue' # <<>> => nextTick' # NoTimer)
  <2>1. nextTick \in Ticks
    BY DEF IInv, TypeOK, Ticks
  <2> QED BY <1>1, <1>5, <2>1, ScheduledType
<1>7. TypeOK'
  BY <1>1, <1>2, <1>3, <1>4, <1>6 DEF IInv, TypeOK, Ticks, Outcomes
<1>8. RecentAreCounted'
  <2>1. \A k \in Started' : k \in Started /\ k # j /\ k \in Jobs
    BY <1>1 DEF Started, IInv, TypeOK, HeldWereMade
  <2> QED BY <1>1, <1>2, <1>4, <2>1 DEF RecentAreCounted
<1>9. HeldWereMade'
  <2>1. \A k \in Jobs : outcome'[k] # "unmade" <=> (k = j \/ outcome[k] # "unmade")
    BY <1>1 DEF IInv, TypeOK
  <2>2. \A i \in 1 .. Len(queue) : queue[i] \in Jobs
    BY ElementOfSeq DEF IInv, TypeOK
  <2> QED BY <1>1, <1>3, <1>7, <2>1, <2>2 DEF IInv, HeldWereMade, TypeOK
<1> QED
  BY <1>1, <1>2, <1>6, <1>7, <1>8, <1>9 DEF IInv, InFlightBound, TimerWhenQueued

LEMMA ExecuteOverflowKeepsIInv ==
    ASSUME IInv, NEW j \in Jobs, ExecuteOverflow(j)
    PROVE  IInv'
<1> DEFINE times == Pruned(callTimes)
<1>1. /\ outcome[j] = "unmade" /\ callTimes' = times
      /\ outcome' = [outcome EXCEPT ![j] = "overflow"]
      /\ UNCHANGED <<queue, activeCalls, nextTick, age>>
  BY DEF ExecuteOverflow
<1> HIDE DEF times
<1>2. /\ times \in SUBSET Jobs /\ Cardinality(times) <= MaxCalls
      /\ \A k \in Started : age[k] <= Interval => k \in times
  BY PrunedWindow DEF times
<1>3. TypeOK'
  BY <1>1, <1>2 DEF IInv, TypeOK, Outcomes
<1>4. RecentAreCounted'
  <2>1. \A k \in Started' : k \in Started
    BY <1>1 DEF Started, IInv, TypeOK
  <2> QED BY <1>1, <1>2, <2>1 DEF RecentAreCounted
<1>5. HeldWereMade'
  <2>1. \A i \in 1 .. Len(queue) : queue[i] \in Jobs
    BY ElementOfSeq DEF IInv, TypeOK
  <2> QED BY <1>1, <2>1 DEF IInv, HeldWereMade, TypeOK
<1> QED
  BY <1>1, <1>2, <1>3, <1>4, <1>5 DEF IInv, InFlightBound, TimerWhenQueued

LEMMA SettleKeepsIInv ==
    ASSUME IInv, NEW j \in Jobs, NEW result \in {"resolved", "rejected"}, Settle(j, result)
    PROVE  IInv'
<1>1. /\ j \in activeCalls /\ outcome' = [outcome EXCEPT ![j] = result]
      /\ UNCHANGED <<queue, activeCalls, callTimes, nextTick, age>>
  BY DEF Settle
<1>2. TypeOK'
  BY <1>1 DEF IInv, TypeOK, Outcomes
<1>3. RecentAreCounted'
  <2>1. \A k \in Started' : k \in Started
    BY <1>1 DEF Started, IInv, TypeOK
  <2> QED BY <1>1, <2>1 DEF IInv, RecentAreCounted
<1>4. HeldWereMade'
  <2>1. \A i \in 1 .. Len(queue) : queue[i] \in Jobs
    BY ElementOfSeq DEF IInv, TypeOK
  <2> QED BY <1>1, <2>1 DEF IInv, HeldWereMade, TypeOK
<1> QED
  BY <1>1, <1>2, <1>3, <1>4 DEF IInv, InFlightBound, TimerWhenQueued

LEMMA ClearQueueKeepsIInv ==
    ASSUME IInv, ClearQueue
    PROVE  IInv'
<1>1. /\ queue' = <<>> /\ nextTick' \in {nextTick, NoTimer}
      /\ \A k \in Jobs : outcome'[k] \in {outcome[k], "cleared"}
      /\ outcome' \in [Jobs -> Outcomes]
      /\ UNCHANGED <<activeCalls, callTimes, age>>
  BY DEF ClearQueue, ClearedIfIdle, IInv, TypeOK, Outcomes
<1>2. TypeOK'
  BY <1>1, EmptySeq DEF IInv, TypeOK
<1>3. RecentAreCounted'
  <2>1. \A k \in Started' : k \in Started
    BY <1>1 DEF Started, IInv, TypeOK
  <2> QED BY <1>1, <2>1 DEF IInv, RecentAreCounted
<1>4. HeldWereMade'
  BY <1>1, EmptySeq DEF IInv, HeldWereMade, TypeOK
<1> QED
  BY <1>1, <1>2, <1>3, <1>4 DEF IInv, InFlightBound, TimerWhenQueued

LEMMA TickKeepsIInv ==
    ASSUME IInv, Tick
    PROVE  IInv'
<1>1. UNCHANGED <<queue, activeCalls, callTimes, outcome>>
  BY DEF Tick
<1>2. /\ age' \in [Jobs -> 0 .. MaxAge]
      /\ \A k \in Jobs : age'[k] \in Nat /\ age[k] \in Nat /\ age'[k] >= age[k]
  BY LimitsAreNat DEF Tick, IInv, TypeOK
<1>3. nextTick' \in Ticks /\ (nextTick # NoTimer => nextTick' # NoTimer)
  BY LimitsAreNat DEF Tick, IInv, TypeOK, Ticks
<1>4. TypeOK'
  BY <1>1, <1>2, <1>3 DEF IInv, TypeOK, Ticks
<1>5. RecentAreCounted'
  <2>1. \A k \in Started' : k \in Started /\ k \in Jobs
    BY <1>1 DEF Started, IInv, TypeOK
  <2> QED BY <1>1, <1>2, <2>1, LimitsAreNat DEF IInv, RecentAreCounted
<1> QED
  BY <1>1, <1>3, <1>4, <1>5 DEF IInv, InFlightBound, HeldWereMade, TimerWhenQueued

-----------------------------------------------------------------------------
(* processQueue *)

\* What is left of a queue without its first e calls.
LEMMA RestOfQueue ==
    ASSUME NEW q \in Seq(Jobs), NEW e \in 0 .. Len(q)
    PROVE  LET rest == SubSeq(q, e + 1, Len(q))
           IN  /\ rest \in Seq(Jobs) /\ Len(rest) = Len(q) - e
               /\ \A i \in 1 .. Len(rest) : e + i \in 1 .. Len(q) /\ rest[i] = q[e + i]
<1> DEFINE rest == SubSeq(q, e + 1, Len(q))
<1>1. Len(q) \in Nat /\ \A i \in 1 .. Len(q) : q[i] \in Jobs
  BY LenProperties, ElementOfSeq
<1>2. e + 1 \in Int /\ Len(q) \in Int /\ \A i \in e + 1 .. Len(q) : q[i] \in Jobs
  BY <1>1
<1>3. /\ rest \in Seq(Jobs)
      /\ Len(rest) = IF e + 1 <= Len(q) THEN Len(q) - (e + 1) + 1 ELSE 0
      /\ \A i \in 1 .. Len(q) - (e + 1) + 1 : rest[i] = q[(e + 1) + i - 1]
  BY <1>2, SubSeqProperties
<1> HIDE DEF rest
<1>4. Len(rest) = Len(q) - e
  BY <1>1, <1>3
<1>5. ASSUME NEW i \in 1 .. Len(rest)
      PROVE  e + i \in 1 .. Len(q) /\ rest[i] = q[e + i]
  <2>1. /\ i \in 1 .. Len(q) - (e + 1) + 1
        /\ (e + 1) + i - 1 = e + i /\ e + i \in 1 .. Len(q)
    BY <1>1, <1>4
  <2> QED BY <1>3, <2>1
<1> QED BY <1>3, <1>4, <1>5 DEF rest

\* The first m calls of a queue are at most m calls.
LEMMA FirstOfQueue ==
    ASSUME NEW q \in Seq(Jobs), NEW m \in 0 .. Len(q)
    PROVE  LET begun == {q[i] : i \in 1 .. m}
           IN  /\ begun \in SUBSET Jobs
               /\ Cardinality(begun) \in Nat
               /\ Cardinality(begun) <= m
<1> DEFINE begun == {q[i] : i \in 1 .. m}
           f == [i \in 1 .. m |-> q[i]]
<1>1. Len(q) \in Nat /\ \A i \in 1 .. Len(q) : q[i] \in Jobs
  BY LenProperties, ElementOfSeq
<1>2. m \in Nat /\ IsFiniteSet(1 .. m) /\ Cardinality(1 .. m) = m
  BY <1>1, FS_Interval
<1>3. begun \in SUBSET Jobs
  BY <1>1
<1>4. f \in Surjection(1 .. m, begun)
  BY DEF Surjection
<1>5. Cardinality(begun) <= Cardinality(1 .. m)
  BY <1>2, <1>4, FS_Surjection
<1> QED
  BY <1>2, <1>3, <1>5, CardinalityOfJobs

\* Adding at most m calls adds at most m to the number of calls.
LEMMA MoreJobs ==
    ASSUME NEW S \in SUBSET Jobs, NEW T \in SUBSET Jobs
    PROVE  /\ Cardinality(S \cup T) \in Nat
           /\ Cardinality(S \cup T) <= Cardinality(S) + Cardinality(T)
<1>1. /\ IsFiniteSet(S) /\ Cardinality(S) \in Nat
      /\ IsFiniteSet(T) /\ Cardinality(T) \in Nat
      /\ Cardinality(S \cap T) \in Nat
  BY CardinalityOfJobs
<1>2. Cardinality(S \cup T) = Cardinality(S) + Cardinality(T) - Cardinality(S \cap T)
  BY <1>1, FS_Union
<1>3. Cardinality(S \cup T) \in Nat
  BY CardinalityOfJobs
<1> QED
  BY <1>1, <1>2, <1>3

\* What the loop of processQueue does: it starts the calls `begun`, which
\* come from the queue and fit under both limits, and keeps the rest queued.
LEMMA ProcessQueueLoop ==
    ASSUME IInv, NEW active \in SUBSET activeCalls, NEW tick,
           ProcessQueue(active, tick)
    PROVE  \E begun \in SUBSET Jobs :
               /\ \A j \in begun : \E i \in 1 .. Len(queue) : j = queue[i]
               /\ queue' \in Seq(Jobs)
               /\ \A n \in 1 .. Len(queue') : \E i \in 1 .. Len(queue) : queue'[n] = queue[i]
               /\ activeCalls' = active \cup begun
               /\ callTimes' = Pruned(callTimes) \cup begun
               /\ age' = Restarted(begun)
               /\ Cardinality(activeCalls') <= MaxConcurrent
               /\ Cardinality(callTimes') <= MaxCalls
<1> DEFINE e == ExpiredCount
           live == SubSeq(queue, e + 1, Len(queue))
           times == Pruned(callTimes)
<1>1. queue \in Seq(Jobs) /\ Len(queue) \in Nat /\ \A i \in 1 .. Len(queue) : queue[i] \in Jobs
  BY LenProperties, ElementOfSeq DEF IInv, TypeOK
<1>2. e \in Nat
  <2> DEFINE late == {i \in 1 .. Len(queue) : TooOld(queue[i])}
  <2>1. IsFiniteSet(1 .. Len(queue)) /\ late \in SUBSET (1 .. Len(queue))
    BY <1>1, FS_Interval
  <2>2. IsFiniteSet(late)
    BY <2>1, FS_Subset
  <2>3. Cardinality(late) \in Nat
    BY <2>2, FS_CardinalityType
  <2> QED BY <2>3 DEF ExpiredCount
<1>3. PICK m \in 0 .. Len(live) :
          /\ \A k \in 0 .. m - 1 :
                HasCapacity(Cardinality(times) + k, Cardinality(active) + k)
          /\ queue' = SubSeq(live, m + 1, Len(live))
          /\ activeCalls' = active \cup {live[i] : i \in 1 .. m}
          /\ callTimes' = times \cup {live[i] : i \in 1 .. m}
          /\ age' = Restarted({live[i] : i \in 1 .. m})
  BY DEF ProcessQueue
<1> HIDE DEF e
<1>4. /\ live \in Seq(Jobs) /\ Len(live) \in Nat
      /\ \A i \in 1 .. Len(live) : e + i \in 1 .. Len(queue) /\ live[i] = queue[e + i]
  BY <1>1, <1>2, RestOfQueue
<1> HIDE DEF live, times
<1> DEFINE begun == {live[i] : i \in 1 .. m}
<1>5. /\ begun \in SUBSET Jobs /\ Cardinality(begun) \in Nat /\ Cardinality(begun) <= m
  BY <1>4, FirstOfQueue
<1>6. \A j \in begun : \E i \in 1 .. Len(queue) : j = queue[i]
  BY <1>4
<1>7. /\ queue' \in Seq(Jobs)
      /\ \A n \in 1 .. Len(queue') : \E i \in 1 .. Len(queue) : queue'[n] = queue[i]
  <2>1. \A i \in m + 1 .. Len(live) : live[i] \in Jobs
    BY <1>1, <1>4
  <2>2. /\ queue' \in Seq(Jobs)
        /\ Len(queue') = IF m + 1 <= Len(live) THEN Len(live) - (m + 1) + 1 ELSE 0
        /\ \A i \in 1 .. Len(live) - (m + 1) + 1 : queue'[i] = live[m + 1 + i - 1]
    BY <1>3, <1>4, <2>1, SubSeqProperties
  <2>3. \A n \in 1 .. Len(queue') : m + n \in 1 .. Len(live) /\ queue'[n] = live[m + n]
    BY <1>4, <2>2
  <2> QED BY <1>4, <2>2, <2>3
<1> HIDE DEF begun
<1>8. /\ times \in SUBSET Jobs /\ Cardinality(times) \in Nat /\ Cardinality(times) <= MaxCalls
  BY PrunedWindow DEF times
<1>9. /\ active \in SUBSET Jobs /\ Cardinality(active) \in Nat
      /\ Cardinality(active) <= MaxConcurrent
  <2>1. activeCalls \in SUBSET Jobs /\ Cardinality(activeCalls) <= MaxConcurrent
    BY DEF IInv, TypeOK, InFlightBound
  <2>2. /\ IsFiniteSet(activeCalls) /\ Cardinality(activeCalls) \in Nat
        /\ active \in SUBSET Jobs /\ Cardinality(active) \in Nat
    BY <2>1, CardinalityOfJobs
  <2>3. Cardinality(active) <= Cardinality(activeCalls)
    BY <2>2, FS_Subset
  <2> QED BY <2>1, <2>2, <2>3, LimitsAreNat
<1>10. Cardinality(times) + m <= MaxCalls /\ Cardinality(active) + m <= MaxConcurrent
  <2>1. CASE m = 0
    BY <2>1, <1>8, <1>9
  <2>2. CASE m # 0
    <3>1. HasCapacity(Cardinality(times) + (m - 1), Cardinality(active) + (m - 1))
      BY <1>3, <1>4, <2>2
    <3> QED BY <3>1, <1>4, <1>8, <1>9, LimitsAreNat DEF HasCapacity
  <2> QED BY <2>1, <2>2
<1>11. Cardinality(times \cup begun) <= MaxCalls
  <2>1. /\ Cardinality(times \cup begun) \in Nat
        /\ Cardinality(times \cup begun) <= Cardinality(times) + Cardinality(begun)
    BY <1>5, <1>8, MoreJobs
  <2> QED BY <2>1, <1>4, <1>5, <1>8, <1>10, LimitsAreNat
<1>12. Cardinality(active \cup begun) <= MaxConcurrent
  <2>1. /\ Cardinality(active \cup begun) \in Nat
        /\ Cardinality(active \cup begun) <= Cardinality(active) + Cardinality(begun)
    BY <1>5, <1>9, MoreJobs
  <2> QED BY <2>1, <1>4, <1>5, <1>9, <1>10, LimitsAreNat
<1>13. /\ activeCalls' = active \cup begun /\ callTimes' = times \cup begun
       /\ age' = Restarted(begun)
  BY <1>3 DEF begun
<1> QED
  BY <1>5, <1>6, <1>7, <1>11, <1>12, <1>13 DEF times

\* Whether a call that ends or the timer calls it, processQueue keeps the
\* invariant.
LEMMA ProcessQueueKeepsIInv ==
    ASSUME IInv, NEW active \in SUBSET activeCalls, NEW tick \in Ticks,
           ProcessQueue(active, tick)
    PROVE  IInv'
<1>1. PICK begun \in SUBSET Jobs :
          /\ \A j \in begun : \E i \in 1 .. Len(queue) : j = queue[i]
          /\ queue' \in Seq(Jobs)
          /\ \A n \in 1 .. Len(queue') : \E i \in 1 .. Len(queue) : queue'[n] = queue[i]
          /\ activeCalls' = active \cup begun
          /\ callTimes' = Pruned(callTimes) \cup begun
          /\ age' = Restarted(begun)
          /\ Cardinality(activeCalls') <= MaxConcurrent
          /\ Cardinality(callTimes') <= MaxCalls
  BY ProcessQueueLoop
<1>2. /\ outcome' \in [Jobs -> Outcomes]
      /\ \A j \in Jobs : outcome'[j] \in {outcome[j], "expired"}
  BY DEF ProcessQueue, IInv, TypeOK, Outcomes
<1>3. nextTick' = ClearedIfIdle(
          Scheduled(tick, queue', callTimes', age'), queue', activeCalls')
  BY DEF ProcessQueue
<1>4. /\ age' \in [Jobs -> 0 .. MaxAge]
      /\ \A j \in Jobs : age'[j] = IF j \in begun THEN 0 ELSE age[j]
  BY <1>1, RestartedType
<1>5. /\ Pruned(callTimes) \in SUBSET Jobs
      /\ \A j \in Pruned(callTimes) : age[j] \in 0 .. Interval
      /\ \A j \in Started : age[j] <= Interval => j \in Pruned(callTimes)
  BY PrunedWindow
<1>6. \A j \in callTimes' : age'[j] \in 0 .. Interval
  BY <1>1, <1>4, <1>5, LimitsAreNat
<1>7. nextTick' \in Ticks /\ (queue' # <<>> => nextTick' # NoTimer)
  <2>1. /\ Scheduled(tick, queue', callTimes', age') \in Ticks
        /\ queue' # <<>> => Scheduled(tick, queue', callTimes', age') # NoTimer
    BY <1>6, ScheduledType
  <2> QED BY <1>3, <2>1 DEF ClearedIfIdle, Ticks
<1>8. active \in SUBSET Jobs
  BY DEF IInv, TypeOK
<1>9. TypeOK'
  BY <1>1, <1>2, <1>4, <1>5, <1>7, <1>8 DEF TypeOK, Ticks
<1>10. RecentAreCounted'
  <2>1. \A j \in Started' : j \in Jobs /\ (j \in begun \/ j \in Started)
    BY <1>1, <1>2, <1>8 DEF Started
  <2> QED BY <1>1, <1>4, <1>5, <2>1 DEF RecentAreCounted
<1>11. HeldWereMade'
  <2>1. \A i \in 1 .. Len(queue) : queue[i] \in Jobs /\ outcome[queue[i]] # "unmade"
    BY ElementOfSeq DEF IInv, TypeOK, HeldWereMade
  <2>2. \A j \in Jobs : outcome[j] # "unmade" => outcome'[j] # "unmade"
    BY <1>2
  <2>3. ASSUME NEW n \in 1 .. Len(queue')
        PROVE  outcome'[queue'[n]] # "unmade"
    <3>1. PICK i \in 1 .. Len(queue) : queue'[n] = queue[i]
      BY <1>1
    <3> QED BY <2>1, <2>2, <3>1
  <2>4. \A j \in activeCalls' : j \in Jobs /\ outcome[j] # "unmade"
    BY <1>1, <1>8, <2>1 DEF IInv, HeldWereMade
  <2> QED BY <2>2, <2>3, <2>4 DEF HeldWereMade
<1> QED
  BY <1>1, <1>7, <1>9, <1>10, <1>11 DEF IInv, InFlightBound, TimerWhenQueued

LEMMA NextIInv ==
    ASSUME IInv, [Next]_vars
    PROVE  IInv'
<1>1. ASSUME NEW j \in Jobs, ExecuteNow(j) \/ ExecuteQueued(j) \/ ExecuteOverflow(j)
      PROVE  IInv'
  BY <1>1, ExecuteNowKeepsIInv, ExecuteQueuedKeepsIInv, ExecuteOverflowKeepsIInv
<1>2. ASSUME NEW j \in Jobs, NEW result \in {"resolved", "rejected"}, Settle(j, result)
      PROVE  IInv'
  BY <1>2, SettleKeepsIInv
<1>3. ASSUME NEW j \in Jobs, Finally(j)
      PROVE  IInv'
  <2>1. activeCalls \ {j} \in SUBSET activeCalls /\ nextTick \in Ticks
    BY DEF IInv, TypeOK, Ticks
  <2> QED BY <1>3, <2>1, ProcessQueueKeepsIInv DEF Finally
<1>4. ASSUME TimerFires
      PROVE  IInv'
  <2>1. activeCalls \in SUBSET activeCalls /\ NoTimer \in Ticks
    BY DEF Ticks
  <2> QED BY <1>4, <2>1, ProcessQueueKeepsIInv DEF TimerFires
<1>5. CASE UNCHANGED vars
  BY <1>5 DEF vars, IInv, TypeOK, InFlightBound, RecentAreCounted, Started,
              HeldWereMade, TimerWhenQueued
<1> QED
  BY <1>1, <1>2, <1>3, <1>4, <1>5, TickKeepsIInv, ClearQueueKeepsIInv DEF Next

LEMMA Invariance == Spec => []IInv
<1> QED
  BY InitIInv, NextIInv, PTL DEF Spec

\* Every variable keeps its type.
THEOREM TypeCorrect == Spec => []TypeOK
<1>1. IInv => TypeOK
  BY DEF IInv
<1> QED
  BY <1>1, Invariance, PTL

\* No more than MaxCalls calls have started in the interval that ends now.
THEOREM RateIsBounded == Spec => []RateBound
<1>1. IInv => RateBound
  <2> SUFFICES ASSUME IInv PROVE RateBound
    OBVIOUS
  <2> DEFINE recent == {j \in Started : age[j] <= Interval}
  <2>1. recent \in SUBSET callTimes /\ callTimes \in SUBSET Jobs
    BY DEF IInv, TypeOK, RecentAreCounted
  <2>2. /\ IsFiniteSet(callTimes) /\ Cardinality(callTimes) \in Nat
        /\ Cardinality(recent) \in Nat
    BY <2>1, CardinalityOfJobs
  <2>3. Cardinality(recent) <= Cardinality(callTimes)
    BY <2>1, <2>2, FS_Subset
  <2> QED BY <2>2, <2>3, LimitsAreNat DEF IInv, RateBound
<1> QED
  BY <1>1, Invariance, PTL

\* No more than MaxConcurrent calls are in flight.
THEOREM InFlightIsBounded == Spec => []InFlightBound
<1>1. IInv => InFlightBound
  BY DEF IInv
<1> QED
  BY <1>1, Invariance, PTL

\* While a call is queued a timer is set.
THEOREM NoLostWakeUp == Spec => []TimerWhenQueued
<1>1. IInv => TimerWhenQueued
  BY DEF IInv
<1> QED
  BY <1>1, Invariance, PTL

-----------------------------------------------------------------------------
(* The order of the queue *)

\* The calls in the queue wait, each at one position, the oldest first: the
\* expired ones come before the others.
QueueInv ==
    /\ \A i \in 1 .. Len(queue) : outcome[queue[i]] = "pending" /\ queue[i] \notin activeCalls
    /\ \A i, k \in 1 .. Len(queue) : i < k => queue[i] # queue[k] /\ age[queue[i]] >= age[queue[k]]

\* ExpiredCount is how many calls have expired, and those are the first ones.
LEMMA ExpiredAreFirst ==
    ASSUME IInv, QueueInv
    PROVE  /\ ExpiredCount \in 0 .. Len(queue)
           /\ \A i \in 1 .. Len(queue) : i > ExpiredCount => ~TooOld(queue[i])
<1> DEFINE late == {i \in 1 .. Len(queue) : TooOld(queue[i])}
           n == Len(queue)
<1>1. n \in Nat /\ \A i \in 1 .. n : queue[i] \in Jobs
  BY LenProperties, ElementOfSeq DEF IInv, TypeOK
<1>2. \A j \in Jobs : age[j] \in Nat
  BY LimitsAreNat DEF IInv, TypeOK
<1>3. \A i, k \in 1 .. n : i < k /\ k \in late => i \in late
  BY <1>1, <1>2, LimitsAreNat DEF QueueInv, TooOld
<1>4. late \in SUBSET (1 .. n)
  OBVIOUS
<1> HIDE DEF late, n
<1>5. IsFiniteSet(1 .. n) /\ Cardinality(1 .. n) = n
  BY <1>1, FS_Interval
<1>6. IsFiniteSet(late) /\ Cardinality(late) <= n
  BY <1>4, <1>5, FS_Subset
<1>7. Cardinality(late) \in Nat
  BY <1>6, FS_CardinalityType
<1>8. ASSUME NEW k \in 1 .. n, k \in late PROVE k <= Cardinality(late)
  <2>1. 1 .. k \in SUBSET late
    BY <1>1, <1>3, <1>8
  <2>2. Cardinality(1 .. k) <= Cardinality(late)
    BY <1>6, <2>1, FS_Subset
  <2>3. Cardinality(1 .. k) = k
    BY <1>1, FS_Interval
  <2> QED BY <2>2, <2>3
<1>9. ExpiredCount = Cardinality(late)
  BY DEF ExpiredCount, late, n
<1>10. \A i \in 1 .. n : i > Cardinality(late) => i \notin late
  BY <1>1, <1>7, <1>8
<1> QED
  BY <1>1, <1>6, <1>7, <1>9, <1>10 DEF late, n

\* processQueue takes the first calls off the queue: e that have expired, and
\* after them the m it starts.
Takes(active, e, m) ==
    /\ \A i \in e + 1 .. Len(queue) : ~TooOld(queue[i])
    /\ Len(queue') = Len(queue) - (e + m)
    /\ \A n \in 1 .. Len(queue') : queue'[n] = queue[e + m + n]
    /\ activeCalls' = active \cup {queue[i] : i \in e + 1 .. e + m}
    /\ age' = Restarted({queue[i] : i \in e + 1 .. e + m})
    /\ outcome' = [j \in Jobs |-> IF j \in {queue[i] : i \in 1 .. e} THEN "expired" ELSE outcome[j]]

LEMMA ProcessQueueTakes ==
    ASSUME IInv, QueueInv, NEW active, NEW tick, ProcessQueue(active, tick)
    PROVE  \E e \in 0 .. Len(queue) : \E m \in 0 .. Len(queue) - e : Takes(active, e, m)
<1> DEFINE e == ExpiredCount
           live == SubSeq(queue, e + 1, Len(queue))
<1>1. queue \in Seq(Jobs) /\ Len(queue) \in Nat /\ \A i \in 1 .. Len(queue) : queue[i] \in Jobs
  BY LenProperties, ElementOfSeq DEF IInv, TypeOK
<1>2. e \in 0 .. Len(queue) /\ \A i \in 1 .. Len(queue) : i > e => ~TooOld(queue[i])
  BY ExpiredAreFirst
<1>3. PICK m \in 0 .. Len(live) :
          /\ queue' = SubSeq(live, m + 1, Len(live))
          /\ activeCalls' = active \cup {live[i] : i \in 1 .. m}
          /\ age' = Restarted({live[i] : i \in 1 .. m})
          /\ outcome' = [j \in Jobs |-> IF j \in {queue[i] : i \in 1 .. e} THEN "expired"
                                        ELSE outcome[j]]
  BY DEF ProcessQueue
<1> HIDE DEF e
<1>4. /\ live \in Seq(Jobs) /\ Len(live) = Len(queue) - e
      /\ \A i \in 1 .. Len(live) : e + i \in 1 .. Len(queue) /\ live[i] = queue[e + i]
  BY <1>1, <1>2, RestOfQueue
<1> HIDE DEF live
<1>5. /\ m \in 0 .. Len(queue) - e /\ m \in Nat /\ e \in Nat
      /\ Len(live) \in Nat /\ m <= Len(live)
  BY <1>1, <1>2, <1>4
<1> DEFINE N == Len(queue)
           L == Len(live)
<1>6. {live[i] : i \in 1 .. m} = {queue[i] : i \in e + 1 .. e + m}
  <2>1. ASSUME NEW i \in 1 .. m PROVE e + i \in e + 1 .. e + m /\ live[i] = queue[e + i]
    BY <1>4, <1>5
  <2>2. ASSUME NEW i \in e + 1 .. e + m PROVE i - e \in 1 .. m /\ queue[i] = live[i - e]
    <3>1. i - e \in 1 .. m /\ i - e \in 1 .. L /\ e + (i - e) = i
      BY <1>5
    <3>2. live[i - e] = queue[e + (i - e)]
      BY <1>4, <3>1
    <3> QED BY <3>1, <3>2
  <2>3. {live[i] : i \in 1 .. m} \subseteq {queue[i] : i \in e + 1 .. e + m}
    <3> SUFFICES ASSUME NEW i \in 1 .. m PROVE live[i] \in {queue[k] : k \in e + 1 .. e + m}
      OBVIOUS
    <3> QED BY <2>1
  <2>4. {queue[i] : i \in e + 1 .. e + m} \subseteq {live[i] : i \in 1 .. m}
    <3> SUFFICES ASSUME NEW i \in e + 1 .. e + m PROVE queue[i] \in {live[k] : k \in 1 .. m}
      OBVIOUS
    <3> QED BY <2>2
  <2> QED BY <2>3, <2>4
<1>7. /\ Len(queue') = Len(queue) - (e + m)
      /\ \A n \in 1 .. Len(queue') : queue'[n] = queue[e + m + n]
  <2>1. \A i \in m + 1 .. L : live[i] \in Jobs
    BY <1>1, <1>4, <1>5
  <2>2. /\ Len(queue') = IF m + 1 <= L THEN L - (m + 1) + 1 ELSE 0
        /\ \A i \in 1 .. L - (m + 1) + 1 : queue'[i] = live[m + 1 + i - 1]
    BY <1>3, <1>4, <1>5, <2>1, SubSeqProperties
  <2> HIDE DEF L, N
  <2>3. L = N - e /\ N \in Nat /\ L \in Nat /\ m <= L
    BY <1>1, <1>4, <1>5 DEF L, N
  <2>4. Len(queue') = N - (e + m)
    BY <1>5, <2>2, <2>3
  <2>5. ASSUME NEW n \in 1 .. Len(queue')
        PROVE  queue'[n] = queue[e + m + n]
    <3>1. n \in 1 .. L - (m + 1) + 1 /\ m + 1 + n - 1 = m + n /\ m + n \in 1 .. L /\ e + (m + n) = e + m + n
      BY <1>5, <2>3, <2>4
    <3>2. queue'[n] = live[m + n]
      BY <2>2, <3>1
    <3>3. live[m + n] = queue[e + (m + n)]
      BY <1>4, <3>1 DEF L
    <3> QED BY <3>1, <3>2, <3>3
  <2> QED BY <2>4, <2>5 DEF N
<1>8. \A i \in e + 1 .. Len(queue) : ~TooOld(queue[i])
  BY <1>1, <1>2
<1>9. Takes(active, e, m)
  BY <1>3, <1>6, <1>7, <1>8 DEF Takes
<1> QED
  BY <1>2, <1>5, <1>9

\* What a step starts out of the queue has not waited too long.
StartsFresh == \A i \in 1 .. Len(queue) : queue[i] \in activeCalls' => age[queue[i]] <= MaxQueueWait

LEMMA ProcessQueueStep ==
    ASSUME IInv, QueueInv, NEW active \in SUBSET activeCalls, NEW tick, ProcessQueue(active, tick)
    PROVE  QueueInv' /\ StartsFresh
<1>1. PICK e \in 0 .. Len(queue) : \E m \in 0 .. Len(queue) - e : Takes(active, e, m)
  BY ProcessQueueTakes
<1>2. PICK m \in 0 .. Len(queue) - e : Takes(active, e, m)
  BY <1>1
<1> DEFINE begun == {queue[i] : i \in e + 1 .. e + m}
           expired == {queue[i] : i \in 1 .. e}
<1>3. Len(queue) \in Nat /\ \A i \in 1 .. Len(queue) : queue[i] \in Jobs
  BY LenProperties, ElementOfSeq DEF IInv, TypeOK
<1>4. \A i, k \in 1 .. Len(queue) : i < k => queue[i] # queue[k]
  BY DEF QueueInv
<1>5. \A i \in e + m + 1 .. Len(queue) : queue[i] \notin begun /\ queue[i] \notin expired
  BY <1>3, <1>4
<1>6. \A j \in Jobs : age[j] \in Nat
  BY LimitsAreNat DEF IInv, TypeOK
<1>7. /\ \A j \in Jobs : age'[j] = IF j \in begun THEN 0 ELSE age[j]
      /\ \A j \in Jobs : outcome'[j] = IF j \in expired THEN "expired" ELSE outcome[j]
  BY <1>2 DEF Takes, Restarted
<1>8. activeCalls' = active \cup begun
  BY <1>2 DEF Takes
<1> HIDE DEF begun, expired
<1>9. ASSUME NEW n \in 1 .. Len(queue')
      PROVE  /\ e + m + n \in e + m + 1 .. Len(queue) /\ e + m + n \in 1 .. Len(queue)
             /\ queue'[n] = queue[e + m + n]
  BY <1>2, <1>3 DEF Takes
<1>10. ASSUME NEW n \in 1 .. Len(queue')
       PROVE  /\ outcome'[queue'[n]] = "pending" /\ queue'[n] \notin activeCalls'
              /\ age'[queue'[n]] = age[queue'[n]]
  <2> DEFINE j == queue[e + m + n]
  <2>1. queue'[n] = j /\ j \in Jobs /\ j \notin begun /\ j \notin expired
    BY <1>3, <1>5, <1>9
  <2>2. outcome[j] = "pending" /\ j \notin activeCalls
    BY <1>9 DEF QueueInv
  <2> HIDE DEF j
  <2> QED BY <1>7, <1>8, <2>1, <2>2
<1>11. ASSUME NEW n \in 1 .. Len(queue'), NEW p \in 1 .. Len(queue'), n < p
       PROVE  queue'[n] # queue'[p] /\ age'[queue'[n]] >= age'[queue'[p]]
  <2>1. e + m + n < e + m + p
    BY <1>11, <1>2, <1>3
  <2>2. queue[e + m + n] # queue[e + m + p] /\ age[queue[e + m + n]] >= age[queue[e + m + p]]
    BY <1>9, <2>1 DEF QueueInv
  <2> QED BY <1>9, <1>10, <2>2
<1>12. QueueInv'
  BY <1>10, <1>11 DEF QueueInv
<1>13. ASSUME NEW i \in 1 .. Len(queue), queue[i] \in activeCalls' PROVE age[queue[i]] <= MaxQueueWait
  <2>1. queue[i] \in begun
    BY <1>8, <1>13 DEF QueueInv
  <2>2. PICK k \in e + 1 .. e + m : queue[i] = queue[k]
    BY <2>1 DEF begun
  <2>3. k \in e + 1 .. Len(queue)
    BY <1>3
  <2>4. ~TooOld(queue[i])
    BY <1>2, <2>2, <2>3 DEF Takes
  <2> QED BY <1>3, <1>6, <2>4, LimitsAreNat DEF TooOld
<1> QED
  BY <1>12, <1>13 DEF StartsFresh

LEMMA NextQueueInv ==
    ASSUME IInv, QueueInv, [Next]_vars
    PROVE  QueueInv' /\ StartsFresh
<1>1. /\ queue \in Seq(Jobs) /\ Len(queue) \in Nat /\ \A i \in 1 .. Len(queue) : queue[i] \in Jobs
      /\ \A j \in Jobs : age[j] \in 0 .. MaxAge
      /\ MaxAge \in Nat
  BY LimitsAreNat, LenProperties, ElementOfSeq DEF IInv, TypeOK
<1>2. ASSUME UNCHANGED <<queue, activeCalls>>,
             \A i \in 1 .. Len(queue) : outcome'[queue[i]] = "pending",
             \A i, k \in 1 .. Len(queue) : i < k => age'[queue[i]] >= age'[queue[k]]
      PROVE  QueueInv' /\ StartsFresh
  BY <1>2 DEF QueueInv, StartsFresh
<1>3. ASSUME NEW j \in Jobs, ExecuteNow(j)
      PROVE  QueueInv' /\ StartsFresh
  <2>1. /\ outcome[j] = "unmade" /\ queue' = queue /\ activeCalls' = activeCalls \cup {j}
        /\ outcome' = [outcome EXCEPT ![j] = "pending"] /\ age' = Restarted({j})
    BY <1>3 DEF ExecuteNow
  <2>2. \A i \in 1 .. Len(queue) : /\ queue[i] # j /\ outcome'[queue[i]] = "pending"
                                   /\ age'[queue[i]] = age[queue[i]]
    BY <1>1, <2>1 DEF QueueInv, Restarted, IInv, TypeOK
  <2> QED BY <2>1, <2>2 DEF QueueInv, StartsFresh
<1>4. ASSUME NEW j \in Jobs, ExecuteQueued(j)
      PROVE  QueueInv' /\ StartsFresh
  <2>1. /\ outcome[j] = "unmade" /\ queue' = Append(queue, j) /\ activeCalls' = activeCalls
        /\ outcome' = [outcome EXCEPT ![j] = "pending"] /\ age' = Restarted({j})
    BY <1>4 DEF ExecuteQueued
  <2>2. \A i \in 1 .. Len(queue) : /\ queue[i] # j /\ outcome'[queue[i]] = "pending"
                                   /\ age'[queue[i]] = age[queue[i]]
    BY <1>1, <2>1 DEF QueueInv, Restarted, IInv, TypeOK
  <2>3. outcome'[j] = "pending" /\ age'[j] = 0 /\ j \notin activeCalls
    BY <2>1 DEF Restarted, IInv, TypeOK, HeldWereMade
  <2>4. /\ Len(queue') = Len(queue) + 1 /\ queue'[Len(queue) + 1] = j
        /\ \A i \in 1 .. Len(queue) : queue'[i] = queue[i]
    BY <1>1, <2>1, AppendProperties
  <2>5. ASSUME NEW i \in 1 .. Len(queue')
        PROVE  outcome'[queue'[i]] = "pending" /\ queue'[i] \notin activeCalls'
    BY <1>1, <2>1, <2>2, <2>3, <2>4 DEF QueueInv
  <2>6. ASSUME NEW i \in 1 .. Len(queue'), NEW k \in 1 .. Len(queue'), i < k
        PROVE  queue'[i] # queue'[k] /\ age'[queue'[i]] >= age'[queue'[k]]
    <3>1. i \in 1 .. Len(queue) /\ queue'[i] = queue[i]
      BY <1>1, <2>4, <2>6
    <3>2. CASE k = Len(queue) + 1
      BY <1>1, <2>2, <2>3, <2>4, <3>1, <3>2
    <3>3. CASE k \in 1 .. Len(queue)
      BY <2>2, <2>4, <2>6, <3>1, <3>3 DEF QueueInv
    <3> QED BY <1>1, <2>4, <3>2, <3>3
  <2>7. QueueInv'
    BY <2>5, <2>6 DEF QueueInv
  <2> QED BY <2>1, <2>7 DEF QueueInv, StartsFresh
<1>5. ASSUME NEW j \in Jobs, ExecuteOverflow(j)
      PROVE  QueueInv' /\ StartsFresh
  <2>1. /\ outcome[j] = "unmade" /\ outcome' = [outcome EXCEPT ![j] = "overflow"]
        /\ UNCHANGED <<queue, activeCalls, age>>
    BY <1>5 DEF ExecuteOverflow
  <2>2. \A i \in 1 .. Len(queue) : outcome'[queue[i]] = "pending"
    BY <1>1, <2>1 DEF QueueInv, IInv, TypeOK
  <2> QED BY <1>2, <2>1, <2>2 DEF QueueInv
<1>6. ASSUME NEW j \in Jobs, NEW result \in {"resolved", "rejected"}, Settle(j, result)
      PROVE  QueueInv' /\ StartsFresh
  <2>1. /\ j \in activeCalls /\ outcome' = [outcome EXCEPT ![j] = result]
        /\ UNCHANGED <<queue, activeCalls, age>>
    BY <1>6 DEF Settle
  <2>2. \A i \in 1 .. Len(queue) : outcome'[queue[i]] = "pending"
    BY <1>1, <2>1 DEF QueueInv, IInv, TypeOK
  <2> QED BY <1>2, <2>1, <2>2 DEF QueueInv
<1>7. ASSUME NEW j \in Jobs, Finally(j)
      PROVE  QueueInv' /\ StartsFresh
  <2>1. activeCalls \ {j} \in SUBSET activeCalls /\ ProcessQueue(activeCalls \ {j}, nextTick)
    BY <1>7 DEF Finally
  <2> QED BY <2>1, ProcessQueueStep
<1>8. CASE TimerFires
  <2>1. activeCalls \in SUBSET activeCalls /\ ProcessQueue(activeCalls, NoTimer)
    BY <1>8 DEF TimerFires
  <2> QED BY <2>1, ProcessQueueStep
<1>9. CASE Tick
  <2>1. /\ age' = [j \in Jobs |->
              IF outcome[j] \in {"pending", "resolved", "rejected"} /\ age[j] < MaxAge
              THEN age[j] + 1 ELSE age[j]]
        /\ UNCHANGED <<queue, activeCalls, outcome>>
    BY <1>9 DEF Tick
  <2>2. \A i \in 1 .. Len(queue) : age'[queue[i]] = IF age[queue[i]] < MaxAge THEN age[queue[i]] + 1
                                                    ELSE age[queue[i]]
    BY <1>1, <2>1 DEF QueueInv
  <2>3. \A i, k \in 1 .. Len(queue) : i < k => age'[queue[i]] >= age'[queue[k]]
    <3> SUFFICES ASSUME NEW i \in 1 .. Len(queue), NEW k \in 1 .. Len(queue), i < k
                 PROVE  age'[queue[i]] >= age'[queue[k]]
      OBVIOUS
    <3>1. age[queue[i]] \in 0 .. MaxAge /\ age[queue[k]] \in 0 .. MaxAge /\ age[queue[i]] >= age[queue[k]]
      BY <1>1 DEF QueueInv
    <3> QED BY <1>1, <2>2, <3>1
  <2>4. \A i \in 1 .. Len(queue) : outcome'[queue[i]] = "pending"
    BY <2>1 DEF QueueInv
  <2> QED BY <1>2, <2>1, <2>3, <2>4
<1>10. CASE ClearQueue
  <2>1. queue' = <<>> /\ activeCalls' = activeCalls
    BY <1>10 DEF ClearQueue
  <2>2. Len(queue') = 0
    BY <2>1
  <2>3. QueueInv'
    BY <2>2 DEF QueueInv
  <2> QED BY <2>1, <2>3 DEF QueueInv, StartsFresh
<1>11. CASE UNCHANGED vars
  BY <1>11 DEF vars, QueueInv, StartsFresh
<1> QED
  BY <1>3, <1>4, <1>5, <1>6, <1>7, <1>8, <1>9, <1>10, <1>11 DEF Next

LEMMA QueueInvariance == Spec => []QueueInv
<1>1. Init => QueueInv
  BY DEF Init, QueueInv
<1>2. IInv /\ QueueInv /\ [Next]_vars => QueueInv'
  BY NextQueueInv
<1> QED
  BY <1>1, <1>2, Invariance, PTL DEF Spec

\* No call that has waited longer than MaxQueueWait is started, whichever of
\* the timer, a call that ends and a new call looks at the queue.
THEOREM StartsInTime == Spec => StartsAreFresh
<1>1. IInv /\ QueueInv /\ [Next]_vars =>
         [\A i \in 1 .. Len(queue) :
            queue[i] \in activeCalls' => age[queue[i]] <= MaxQueueWait]_vars
  BY NextQueueInv DEF StartsFresh
<1> QED
  BY <1>1, Invariance, QueueInvariance, PTL DEF Spec, StartsAreFresh
=============================================================================
