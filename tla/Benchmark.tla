----------------------------- MODULE Benchmark -----------------------------
(***************************************************************************)
(* The benchmark the client program runs: Run generates keys, at the rate  *)
(* of its Limiter, into the channel of the workers until its time is over  *)
(* (T > 0) or N keys are generated (T = 0).                                *)
(*                                                                         *)
(* Run starts no worker (benchmark.go:68 is a comment), so that nobody     *)
(* receives from keys or sends on latencies: b.latency stays empty and     *)
(* nothing is ever taken off b.wait.  Time is counted in units; a sleep    *)
(* ends at its time or later.                                              *)
(***************************************************************************)
EXTENDS Integers, Sequences

CONSTANTS
  T,             \* Bconfig.T, the time Run is given
  N,             \* Bconfig.N, the number of requests when there is no T
  Concurrency,   \* Bconfig.Concurrency, the capacity of keys
  interval,      \* Limiter.interval
  credit,        \* -Limiter.slack: the time the limiter may be behind
  MaxClock        \* bound: the clock stops there

ASSUME BenchmarkAssumption ==
  T \in Nat /\ N \in Nat /\ Concurrency \in Nat /\ MaxClock \in Nat
ASSUME LimiterAssumption == interval \in Nat \ {0} /\ credit \in Nat

VARIABLES
  timed,    \* Run was configured with T, not with N
  pc,       \* where Run is
  clock,      \* the clock
  last,     \* Limiter.last, or Never
  sleep,    \* Limiter.sleep
  until,    \* when the sleep in Wait ends
  keys,     \* how many keys the channel holds
  wait,     \* the counter of b.wait
  generated   \* history: when each Wait returned

benchVars == <<timed, pc, clock, last, sleep, until, keys, wait, generated>>

Never == -1

BenchInit ==
  /\ timed \in BOOLEAN
  /\ pc = "loop"
  /\ clock = 0
  /\ last = Never /\ sleep = 0 /\ until = 0
  /\ keys = 0 /\ wait = 0
  /\ generated = <<>>

ClockTick ==
  /\ clock < MaxClock
  /\ clock' = clock + 1
  /\ UNCHANGED <<timed, pc, last, sleep, until, keys, wait, generated>>

Larger(a, b) == IF a < b THEN b ELSE a

\* Mutant of Behind: the time of a late caller is credited without a limit.
BehindUnlimited(t) == sleep + interval - (t - last)

\* Limiter.sleep as the call of Wait at time t computes it.
Behind(t) == Larger(sleep + interval - (t - last), -credit)

\* Limiter.Wait up to its time.Sleep.  The first call only notes the time.
Wait ==
  IF last = Never
  THEN last' = clock /\ sleep' = 0 /\ until' = clock
  ELSE IF Behind(clock) > 0
  THEN last' = clock + Behind(clock) /\ sleep' = 0 /\ until' = clock + Behind(clock)
  ELSE last' = clock /\ sleep' = Behind(clock) /\ until' = clock

\* One turn of the loop of Run, up to the sleep of the limiter: the timer has
\* not fired, or there are keys left to generate.
Generate ==
  /\ pc = "loop" /\ IF timed THEN clock < T ELSE wait < N
  /\ wait' = wait + 1
  /\ Wait
  /\ pc' = "next"
  /\ UNCHANGED <<timed, clock, keys, generated>>

\* next returns the key.
Woken ==
  /\ pc = "next" /\ clock >= until
  /\ generated' = Append(generated, clock)
  /\ pc' = "send"
  /\ UNCHANGED <<timed, clock, last, sleep, until, keys, wait>>

\* keys <- k
Send ==
  /\ pc = "send" /\ keys < Concurrency
  /\ keys' = keys + 1
  /\ pc' = "loop"
  /\ UNCHANGED <<timed, clock, last, sleep, until, wait, generated>>

\* Without T, Run waits for the answer to every key.
Await ==
  /\ pc = "loop" /\ ~timed /\ wait >= N
  /\ wait = 0
  /\ pc' = "report"
  /\ UNCHANGED <<timed, clock, last, sleep, until, keys, wait, generated>>

TimeIsOver ==
  /\ pc = "loop" /\ timed /\ clock >= T
  /\ pc' = "report"
  /\ UNCHANGED <<timed, clock, last, sleep, until, keys, wait, generated>>

\* Statistic reads ms[0] of the latencies, of which there is none.
Report ==
  /\ pc = "report"
  /\ pc' = "panic"
  /\ UNCHANGED <<timed, clock, last, sleep, until, keys, wait, generated>>

Run == Generate \/ Woken \/ Send \/ Await \/ TimeIsOver \/ Report

BenchNext == ClockTick \/ Run

BenchSpec == BenchInit /\ [][BenchNext]_benchVars

-----------------------------------------------------------------------------
BenchTypeOK ==
  /\ timed \in BOOLEAN
  /\ pc \in {"loop", "next", "send", "report", "panic"}
  /\ clock \in Nat
  /\ last \in Nat \cup {Never} /\ sleep \in Int /\ until \in Nat
  /\ keys \in 0..Concurrency /\ wait \in Nat
  /\ generated \in Seq(Nat)

\* The throttle: between two keys there is an interval for each key from one to
\* the other, but for the first and for the credit of a caller that was late,
\* however late the calls come and the sleeps end.
ThrottleBound ==
  \A i, j \in 1..Len(generated) :
    i < j => (j - i - 1) * interval - credit <= generated[j] - generated[i]
=============================================================================
