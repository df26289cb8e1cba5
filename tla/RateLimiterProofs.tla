------------------------- MODULE RateLimiterProofs -------------------------
(***************************************************************************)
(* The token bucket keeps its promise for every capacity, quantum, fill    *)
(* interval, set of callers and bound.                                     *)
(***************************************************************************)
EXTENDS RateLimiter, TLAPS

\* What is handed out and what is left is paid for by a full bucket and the ticks
\* until latestTick.  The second disjunct is a full bucket whose latestTick a late
\* Available moved back: the next call puts the tick right and adds nothing.
Accounted ==
    \/ granted + availableTokens <= capacity + latestTick * quantum
    \/ availableTokens = capacity /\ granted <= currentTick(now) * quantum

ClockRead ==
    /\ latestTick <= currentTick(now)
    /\ \A r \in Readers : read[r] # Unread => read[r] <= now

IInv == TypeOK /\ RateBound /\ Accounted /\ ClockRead

-----------------------------------------------------------------------------

\* Division by a positive number is a monotone function on the naturals.
LEMMA DivMonotone ==
    ASSUME NEW a \in Nat, NEW b \in Nat, NEW d \in Nat \ {0}, a <= b
    PROVE  a \div d \in Nat /\ b \div d \in Nat /\ a \div d <= b \div d
<1>1. a \div d \in Nat /\ b \div d \in Nat
  BY Z3
<1>2. a >= d * (a \div d) /\ b < d * ((b \div d) + 1)
  BY Z3
<1>3. ASSUME a \div d >= (b \div d) + 1
      PROVE  FALSE
  <2>1. d * (a \div d) >= d * ((b \div d) + 1)
    BY <1>1, <1>3, Z3
  <2> QED
    BY <1>1, <1>2, <2>1
<1> QED
  BY <1>1, <1>3

\* Rounding up to whole ticks brings at least the missing tokens.
LEMMA RoundUp ==
    ASSUME NEW missing \in Nat, NEW q \in Nat \ {0}
    PROVE  /\ (missing + q - 1) \div q \in Nat
           /\ missing <= ((missing + q - 1) \div q) * q
  BY Z3

\* A product with a positive factor is a monotone function.
LEMMA TimesMonotone ==
    ASSUME NEW a \in Int, NEW b \in Int, NEW q \in Nat, a <= b
    PROVE  a * q \in Int /\ a * q <= b * q
  BY Z3

-----------------------------------------------------------------------------

\* The ticks read off the clock, now or before, are naturals up to the current one.
LEMMA TickOfRead ==
    ASSUME TypeOK, NEW time \in Nat, time <= now
    PROVE  currentTick(time) \in Nat /\ currentTick(time) <= currentTick(now)
  BY DivMonotone, BucketAssumption DEF TypeOK, currentTick

\* adjustavailableTokens keeps the accounts for the current tick and for a late one.
LEMMA AdjustAccounted ==
    ASSUME IInv, NEW tick \in Nat, tick <= currentTick(now)
    PROVE  LET adjusted == adjustavailableTokens(tick)
           IN  /\ adjusted \in Int
               /\ adjusted <= capacity
               /\ \/ granted + adjusted <= capacity + tick * quantum
                  \/ adjusted = capacity /\ granted <= currentTick(now) * quantum
<1> DEFINE adjusted == adjustavailableTokens(tick)
<1> USE BucketAssumption
<1>0. currentTick(now) \in Nat
  BY TickOfRead DEF IInv, TypeOK
<1>1. CASE availableTokens >= capacity
  <2>1. adjusted = capacity /\ availableTokens = capacity
    BY <1>1 DEF IInv, TypeOK, adjustavailableTokens
  <2>2. granted <= currentTick(now) * quantum
    <3>1. latestTick * quantum <= currentTick(now) * quantum
      BY <1>0, TimesMonotone DEF IInv, TypeOK, ClockRead
    <3>2. latestTick * quantum \in Int /\ currentTick(now) * quantum \in Int
      BY <1>0 DEF IInv, TypeOK
    <3> QED
      BY <2>1, <3>1, <3>2 DEF IInv, TypeOK, Accounted
  <2> QED
    BY <2>1, <2>2
<1>2. CASE availableTokens < capacity
  <2> DEFINE filled == availableTokens + (tick - latestTick) * quantum
  <2>1. /\ filled \in Int
        /\ adjusted = IF filled > capacity THEN capacity ELSE filled
    BY <1>2 DEF IInv, TypeOK, adjustavailableTokens
  <2>2. adjusted \in Int /\ adjusted <= capacity /\ adjusted <= filled
    BY <2>1
  <2>3. granted + availableTokens <= capacity + latestTick * quantum
    BY <1>2 DEF IInv, TypeOK, Accounted
  <2>4. (tick - latestTick) * quantum = tick * quantum - latestTick * quantum
    BY Z3 DEF IInv, TypeOK
  <2>5. granted + filled <= capacity + tick * quantum
    <3>1. latestTick * quantum \in Int /\ tick * quantum \in Int
      BY DEF IInv, TypeOK
    <3> QED
      BY <2>3, <2>4, <3>1 DEF IInv, TypeOK
  <2> QED
    BY <2>1, <2>2, <2>5, tick * quantum \in Int DEF IInv, TypeOK
<1> QED
  BY <1>1, <1>2 DEF IInv, TypeOK

\* With the tick of the current time the accounts are balanced.
LEMMA AdjustNow ==
    ASSUME IInv
    PROVE  LET tick == currentTick(now)
               adjusted == adjustavailableTokens(tick)
           IN  /\ tick \in Nat
               /\ adjusted \in Int
               /\ adjusted <= capacity
               /\ granted + adjusted <= capacity + tick * quantum
<1>1. currentTick(now) \in Nat
  BY TickOfRead DEF IInv, TypeOK
<1>2. currentTick(now) * quantum \in Int
  BY <1>1, BucketAssumption
<1> QED
  BY <1>1, <1>2, AdjustAccounted, BucketAssumption DEF IInv, TypeOK

\* A call that takes count tokens is told a tick by which they are paid for.
LEMMA EndTickPays ==
    ASSUME IInv, NEW count \in Nat,
           NEW tick \in Nat, NEW avail \in Int,
           granted + count + avail <= capacity + tick * quantum
    PROVE  /\ endTick(tick, avail) \in Nat
           /\ granted + count <= capacity + endTick(tick, avail) * quantum
<1> USE BucketAssumption
<1>1. CASE avail >= 0
  BY <1>1, tick * quantum \in Int DEF IInv, TypeOK, endTick
<1>2. CASE avail < 0
  <2> DEFINE ticks == (-avail + quantum - 1) \div quantum
  <2>1. -avail \in Nat
    BY <1>2
  <2>2. ticks \in Nat /\ -avail <= ticks * quantum
    BY <2>1, RoundUp
  <2>3. endTick(tick, avail) = tick + ticks
    BY <1>2 DEF endTick
  <2> HIDE DEF ticks
  <2>4. (tick + ticks) * quantum = tick * quantum + ticks * quantum
    BY <2>2, Z3
  <2>5. tick * quantum \in Int /\ ticks * quantum \in Int
    BY <2>2
  <2> QED
    BY <2>2, <2>3, <2>4, <2>5 DEF IInv, TypeOK
<1> QED
  BY <1>1, <1>2

-----------------------------------------------------------------------------

\* A call that takes tokens keeps the invariant.
LEMMA GrantStep ==
    ASSUME IInv, NEW count \in Nat, NEW avail \in Int, NEW end \in Nat,
           avail <= capacity,
           granted + count + avail <= capacity + currentTick(now) * quantum,
           granted + count <= capacity + end * quantum,
           latestTick' = currentTick(now),
           availableTokens' = avail,
           Grant(count, end),
           UNCHANGED <<now, read>>
    PROVE  IInv'
<1>1. currentTick(now) \in Nat /\ currentTick(now)' = currentTick(now)
  BY TickOfRead DEF IInv, TypeOK, currentTick
<1>2. TypeOK'
  BY <1>1 DEF IInv, TypeOK, Grant
<1>3. RateBound'
  BY DEF IInv, RateBound, Grant
<1>4. Accounted'
  BY <1>1, BucketAssumption DEF IInv, TypeOK, Accounted, Grant
<1>5. ClockRead'
  BY <1>1 DEF IInv, ClockRead
<1> QED
  BY <1>2, <1>3, <1>4, <1>5 DEF IInv

\* So does a call that only brings the bucket to a tick, the current or a late one.
LEMMA AdjustStep ==
    ASSUME IInv, NEW tick \in Nat, tick <= currentTick(now),
           latestTick' = tick,
           availableTokens' = adjustavailableTokens(tick),
           read' \in [Readers -> Nat \cup {Unread}],
           \A r \in Readers : read'[r] # Unread => read'[r] <= now,
           UNCHANGED <<now, granted, grants>>
    PROVE  IInv'
<1>1. currentTick(now) \in Nat /\ currentTick(now)' = currentTick(now)
  BY TickOfRead DEF IInv, TypeOK, currentTick
<1>2. TypeOK'
  BY AdjustAccounted DEF IInv, TypeOK
<1>3. RateBound'
  BY DEF IInv, RateBound
<1>4. Accounted'
  BY <1>1, AdjustAccounted DEF IInv, Accounted
<1>5. ClockRead'
  BY <1>1 DEF IInv, ClockRead
<1> QED
  BY <1>2, <1>3, <1>4, <1>5 DEF IInv

\* The new bucket is full and nothing has been handed out.
LEMMA InitInv == Init => IInv
<1> SUFFICES ASSUME Init
             PROVE  IInv
  OBVIOUS
<1>1. TypeOK /\ RateBound
  BY BucketAssumption DEF Init, TypeOK, RateBound
<1>2. currentTick(now) \in Nat
  BY <1>1, TickOfRead DEF TypeOK
<1>3. Accounted
  BY BucketAssumption DEF Init, Accounted
<1>4. ClockRead
  BY <1>2 DEF Init, ClockRead
<1> QED
  BY <1>1, <1>3, <1>4 DEF IInv

\* Every call and every tick of the clock keeps the invariant.
LEMMA NextInv == IInv /\ [Next]_vars => IInv'
<1> SUFFICES ASSUME IInv, [Next]_vars
             PROVE  IInv'
  OBVIOUS
<1> DEFINE tick == currentTick(now)
           adjusted == adjustavailableTokens(tick)
<1>0. /\ tick \in Nat /\ adjusted \in Int /\ adjusted <= capacity
      /\ granted + adjusted <= capacity + tick * quantum
      /\ tick * quantum \in Int /\ granted \in Nat /\ capacity \in Nat
  BY AdjustNow, BucketAssumption DEF IInv, TypeOK
<1>a. ASSUME NEW count \in Nat,
             latestTick' = tick, availableTokens' = adjusted - count,
             Grant(count, endTick(tick, adjusted - count)), UNCHANGED <<now, read>>
      PROVE  IInv'
  <2>1. /\ adjusted - count \in Int /\ adjusted - count <= capacity
        /\ granted + count + (adjusted - count) <= capacity + tick * quantum
    BY <1>0
  <2> HIDE DEF adjusted
  <2>2. /\ endTick(tick, adjusted - count) \in Nat
        /\ granted + count <= capacity + endTick(tick, adjusted - count) * quantum
    BY <1>0, <2>1, EndTickPays
  <2> QED
    BY <1>a, <2>1, <2>2, GrantStep
<1>b. ASSUME latestTick' = tick, availableTokens' = adjusted,
             UNCHANGED <<now, read, granted, grants>>
      PROVE  IInv'
  BY <1>0, <1>b, AdjustStep DEF IInv, TypeOK, ClockRead
<1>1. ASSUME NEW count \in Counts, Take(count)
      PROVE  IInv'
  BY <1>0, <1>1, <1>a, ArgumentAssumption DEF Take
<1>2. ASSUME NEW count \in Counts, NEW maxWait \in MaxWaits, TakeMaxDuration(count, maxWait)
      PROVE  IInv'
  <2>1. count \in Nat
    BY <1>2, ArgumentAssumption DEF TakeMaxDuration
  <2>2. CASE UNCHANGED <<granted, grants>> /\ availableTokens' = adjusted
    BY <1>2, <1>b, <2>2 DEF TakeMaxDuration
  <2>3. CASE availableTokens' = adjusted - count
             /\ Grant(count, endTick(tick, adjusted - count))
    BY <1>0, <1>2, <1>a, <2>1, <2>3 DEF TakeMaxDuration
  <2> QED
    BY <1>2, <2>2, <2>3 DEF TakeMaxDuration
<1>3. ASSUME NEW count \in Counts, TakeAvailable(count)
      PROVE  IInv'
  <2> DEFINE taken == IF count > adjusted THEN adjusted ELSE count
  <2>1. CASE adjusted <= 0
    BY <1>0, <1>3, <1>b, <2>1 DEF TakeAvailable
  <2>2. CASE adjusted > 0
    <3>1. taken \in Nat /\ taken <= adjusted
      BY <1>0, <1>3, <2>2, ArgumentAssumption DEF TakeAvailable
    <3>2. availableTokens' = adjusted - taken /\ Grant(taken, tick)
          /\ latestTick' = tick /\ UNCHANGED <<now, read>>
      BY <1>0, <1>3, <2>2 DEF TakeAvailable
    <3> HIDE DEF taken, adjusted
    <3>3. endTick(tick, adjusted - taken) = tick
      BY <1>0, <3>1 DEF endTick
    <3> QED
      BY <1>0, <1>a, <3>1, <3>2, <3>3
  <2> QED
    BY <1>0, <2>1, <2>2
<1>4. ASSUME NEW r \in Readers, AvailableReadsClock(r)
      PROVE  IInv'
  <2>1. currentTick(now)' = currentTick(now)
    BY <1>4 DEF AvailableReadsClock, currentTick
  <2> QED
    BY <1>4, <2>1 DEF AvailableReadsClock, IInv, TypeOK, RateBound, Accounted, ClockRead
<1>5. ASSUME NEW r \in Readers, available(r)
      PROVE  IInv'
  <2>1. read[r] \in Nat /\ read[r] <= now
    BY <1>5 DEF available, IInv, TypeOK, ClockRead
  <2>2. currentTick(read[r]) \in Nat /\ currentTick(read[r]) <= currentTick(now)
    BY <2>1, TickOfRead DEF IInv
  <2>3. /\ read' \in [Readers -> Nat \cup {Unread}]
        /\ \A s \in Readers : read'[s] # Unread => read'[s] <= now
    BY <1>5 DEF available, IInv, TypeOK, ClockRead
  <2> QED
    BY <1>5, <2>2, <2>3, AdjustStep DEF available
<1>6. CASE Tick
  <2>1. TypeOK' /\ RateBound'
    BY <1>6 DEF Tick, IInv, TypeOK, RateBound
  <2>2. tick <= tick' /\ tick' \in Nat
    <3>1. now \in Nat /\ now' \in Nat /\ now <= now'
      BY <1>6 DEF Tick, IInv, TypeOK
    <3>2. /\ now \div fillInterval <= now' \div fillInterval
          /\ now' \div fillInterval \in Nat
      BY <3>1, DivMonotone, BucketAssumption
    <3> QED
      BY <3>2 DEF currentTick
  <2>3. tick * quantum <= tick' * quantum /\ tick' * quantum \in Int
    BY <1>0, <2>2, TimesMonotone, BucketAssumption
  <2>4. Accounted'
    BY <1>0, <1>6, <2>3 DEF Tick, IInv, Accounted
  <2>5. ClockRead'
    BY <1>0, <1>6, <2>2 DEF Tick, IInv, TypeOK, ClockRead
  <2> QED
    BY <2>1, <2>4, <2>5 DEF IInv
<1>7. CASE UNCHANGED vars
  <2>1. currentTick(now)' = currentTick(now)
    BY <1>7 DEF vars, currentTick
  <2> QED
    BY <1>7, <2>1 DEF vars, IInv, TypeOK, RateBound, Accounted, ClockRead
<1> QED
  BY <1>1, <1>2, <1>3, <1>4, <1>5, <1>6, <1>7 DEF Next

\* The bucket's fields keep their types and it never holds more than capacity.
THEOREM TypeCorrect == Spec => []TypeOK
  BY InitInv, NextInv, PTL DEF Spec, IInv

\* By any tick no more tokens may be used than a full bucket and those added until then.
THEOREM RateBounded == Spec => []RateBound
  BY InitInv, NextInv, PTL DEF Spec, IInv

=============================================================================
