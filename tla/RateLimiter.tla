---------------------------- MODULE RateLimiter ----------------------------
(***************************************************************************)
(* The token bucket of limiter/ratelimit.go, which paces gossip().  Take,  *)
(* TakeMaxDuration and TakeAvailable read the clock with the lock mu held; *)
(* Available reads the clock first and takes the lock afterwards, so other *)
(* calls may come in between.                                              *)
(*                                                                         *)
(* A grant records how many tokens the bucket had handed out in all when a *)
(* call returned and the tick from which its caller may use them.          *)
(***************************************************************************)
EXTENDS Integers

CONSTANTS
    capacity,      \* tokens the bucket holds at most
    quantum,       \* tokens added on each tick
    fillInterval,  \* units of time from one tick to the next
    Readers,       \* the callers of Available
    Counts,        \* the counts asked for
    MaxWaits,      \* the maxWait of TakeMaxDuration
    Unread,        \* a reader that has not read the clock
    MaxTime,       \* bound on the clock
    MaxGranted     \* bound on the tokens handed out

\* NewBucketWithQuantumAndClock panics on anything else.
ASSUME BucketAssumption ==
    /\ capacity \in Nat \ {0}
    /\ quantum \in Nat \ {0}
    /\ fillInterval \in Nat \ {0}

ASSUME ArgumentAssumption ==
    /\ Counts \subseteq Int
    /\ MaxWaits \subseteq Int
    /\ Unread \notin Nat
    /\ MaxTime \in Nat
    /\ MaxGranted \in Nat

VARIABLES
    now,              \* the clock, from startTime on
    availableTokens,  \* negative when callers wait for tokens
    latestTick,       \* the tick availableTokens is about
    read,             \* what each caller of Available read off the clock
    granted,          \* tokens handed out so far
    grants            \* [total, end] of every call that took tokens

vars == <<now, availableTokens, latestTick, read, granted, grants>>

Init ==
    /\ now = 0
    /\ availableTokens = capacity
    /\ latestTick = 0
    /\ read = [r \in Readers |-> Unread]
    /\ granted = 0
    /\ grants = {}

-----------------------------------------------------------------------------

currentTick(time) == time \div fillInterval

\* What availableTokens becomes; latestTick becomes tick.
adjustavailableTokens(tick) ==
    LET filled == availableTokens + (tick - latestTick) * quantum
    IN  IF availableTokens >= capacity THEN availableTokens
        ELSE IF filled > capacity THEN capacity ELSE filled

\* Mutant: the missing tokens are rounded down to whole ticks.
endTickDown(tick, avail) ==
    IF avail >= 0 THEN tick ELSE tick + (-avail) \div quantum

\* The tick at which all the tokens of a call are there.
endTick(tick, avail) ==
    IF avail >= 0 THEN tick ELSE tick + (-avail + quantum - 1) \div quantum

Grant(count, end) ==
    /\ granted + count <= MaxGranted
    /\ granted' = granted + count
    /\ grants' = grants \cup {[total |-> granted + count, end |-> end]}

\* Take, with no limit on the wait.
Take(count) ==
    LET tick == currentTick(now)
        avail == adjustavailableTokens(tick) - count
    IN  /\ count > 0
        /\ latestTick' = tick
        /\ availableTokens' = avail
        /\ Grant(count, endTick(tick, avail))
        /\ UNCHANGED <<now, read>>

\* TakeMaxDuration: it takes nothing when the wait would be longer.
TakeMaxDuration(count, maxWait) ==
    LET tick == currentTick(now)
        adjusted == adjustavailableTokens(tick)
        avail == adjusted - count
        waitTime == endTick(tick, avail) * fillInterval - now
    IN  /\ count > 0
        /\ latestTick' = tick
        /\ \/ /\ avail >= 0 \/ waitTime <= maxWait
              /\ availableTokens' = avail
              /\ Grant(count, endTick(tick, avail))
           \/ /\ avail < 0 /\ waitTime > maxWait
              /\ availableTokens' = adjusted
              /\ UNCHANGED <<granted, grants>>
        /\ UNCHANGED <<now, read>>

\* TakeAvailable: at most the tokens that are there.
TakeAvailable(count) ==
    LET tick == currentTick(now)
        adjusted == adjustavailableTokens(tick)
        taken == IF count > adjusted THEN adjusted ELSE count
    IN  /\ count > 0
        /\ latestTick' = tick
        /\ \/ /\ adjusted <= 0
              /\ availableTokens' = adjusted
              /\ UNCHANGED <<granted, grants>>
           \/ /\ adjusted > 0
              /\ availableTokens' = adjusted - taken
              /\ Grant(taken, tick)
        /\ UNCHANGED <<now, read>>

\* Available, up to the lock.
AvailableReadsClock(r) ==
    /\ read[r] = Unread
    /\ read' = [read EXCEPT ![r] = now]
    /\ UNCHANGED <<now, availableTokens, latestTick, granted, grants>>

\* available, with the lock.
available(r) ==
    /\ read[r] # Unread
    /\ latestTick' = currentTick(read[r])
    /\ availableTokens' = adjustavailableTokens(currentTick(read[r]))
    /\ read' = [read EXCEPT ![r] = Unread]
    /\ UNCHANGED <<now, granted, grants>>

Tick ==
    /\ now < MaxTime
    /\ now' = now + 1
    /\ UNCHANGED <<availableTokens, latestTick, read, granted, grants>>

Next ==
    \/ \E count \in Counts :
          \/ Take(count)
          \/ TakeAvailable(count)
          \/ \E maxWait \in MaxWaits : TakeMaxDuration(count, maxWait)
    \/ \E r \in Readers : AvailableReadsClock(r) \/ available(r)
    \/ Tick

Spec == Init /\ [][Next]_vars

-----------------------------------------------------------------------------

TypeOK ==
    /\ now \in Nat
    /\ availableTokens \in Int
    /\ availableTokens <= capacity
    /\ latestTick \in Nat
    /\ read \in [Readers -> Nat \cup {Unread}]
    /\ granted \in Nat
    /\ grants \subseteq [total : Nat, end : Nat]

\* The promise of a token bucket: the tokens that callers may use by any tick,
\* also a future one that waiting callers were told, never exceed a full bucket
\* and what was added until then, although a late Available moves latestTick
\* back and takes tokens out again.
RateBound == \A g \in grants : g.total <= capacity + g.end * quantum
=============================================================================
