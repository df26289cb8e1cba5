-------------------------- MODULE BenchmarkProofs --------------------------
(***************************************************************************)
(* The throttle of the benchmark holds for every interval, credit, time    *)
(* and capacity.                                                           *)
(*                                                                         *)
(* ThrottleBound is not inductive: nothing in it ties the keys generated   *)
(* so far to the limiter.  last + sleep is the time at which the latest    *)
(* call of Wait was due.  Each call moves it by an interval at least, and  *)
(* to clock - credit at least; so it stays ahead of the keys before that   *)
(* call, and the key of the call itself does not come before it.           *)
(***************************************************************************)
EXTENDS Benchmark, TLAPS

Due == last + sleep

\* The calls of Wait, with the one that has not returned.
Waits == IF pc = "next" THEN Len(generated) + 1 ELSE Len(generated)

GrantedBefore == \A i \in 1..Len(generated) : generated[i] <= clock

Scheduled ==
  IF last = Never THEN Waits = 0
  ELSE /\ pc = "next" => Due <= until
       /\ \A i \in 1..Len(generated) :
            i < Waits => (Waits - i - 1) * interval - credit <= Due - generated[i]

IInv == BenchTypeOK /\ ThrottleBound /\ sleep <= 0 /\ GrantedBefore /\ Scheduled

-----------------------------------------------------------------------------
\* One more call is one more interval.
LEMMA OneMore ==
  ASSUME NEW n \in Int, NEW d \in Nat
  PROVE  n * d \in Int /\ (n + 1) * d \in Int /\ (n + 1) * d = n * d + d
  BY Z3

\* A call of Wait moves the due time by an interval at least, and to the time of
\* the call less the credit at least.
LEMMA WaitMovesDue ==
  ASSUME BenchTypeOK, sleep <= 0, Wait
  PROVE  /\ last' \in Nat /\ sleep' \in Int /\ until' \in Nat
         /\ sleep' <= 0 /\ last' # Never
         /\ Due' <= until' /\ clock - credit <= Due'
         /\ last # Never => Due + interval <= Due'
<1> USE LimiterAssumption DEF BenchTypeOK, Wait, Due, Never
<1>1. CASE last = Never
  BY <1>1
<1>2. CASE last # Never
  <2>1. /\ Behind(clock) \in Int /\ Behind(clock) >= -credit
        /\ Behind(clock) >= sleep + interval - (clock - last)
        /\ Behind(clock) > 0 => Behind(clock) = sleep + interval - (clock - last)
    BY <1>2 DEF Behind, Larger
  <2> QED
    BY <1>2, <2>1
<1> QED
  BY <1>1, <1>2

LEMMA InitInv == BenchInit => IInv
  BY BenchmarkAssumption
  DEF BenchInit, IInv, BenchTypeOK, ThrottleBound, GrantedBefore, Scheduled, Waits, Never

\* Generate: the calls before this one are one interval further back.
LEMMA GenerateInv ==
  ASSUME IInv, Generate
  PROVE  IInv'
<1> USE LimiterAssumption
<1>0. BenchTypeOK /\ sleep <= 0 /\ Wait /\ pc = "loop" /\ pc' = "next"
      /\ UNCHANGED <<timed, clock, keys, generated>> /\ wait' = wait + 1
  BY DEF IInv, Generate
<1>1. /\ last' \in Nat /\ sleep' \in Int /\ until' \in Nat
      /\ sleep' <= 0 /\ last' # Never
      /\ Due' <= until' /\ clock - credit <= Due'
      /\ last # Never => Due + interval <= Due'
  BY <1>0, WaitMovesDue
<1>2. BenchTypeOK'
  BY <1>0, <1>1 DEF BenchTypeOK
<1>3. ThrottleBound' /\ GrantedBefore'
  BY <1>0 DEF IInv, ThrottleBound, GrantedBefore
<1>4. Scheduled'
  <2>1. Waits' = Len(generated) + 1 /\ Waits = Len(generated) /\ Len(generated) \in Nat
    BY <1>0 DEF Waits, BenchTypeOK
  <2>2. Due' \in Int /\ (last # Never => Due \in Int)
    BY <1>0, <1>1 DEF Due, BenchTypeOK, Never
  <2>3. ASSUME NEW i \in 1..Len(generated)
        PROVE  (Waits' - i - 1) * interval - credit <= Due' - generated[i]
    <3>0. generated[i] \in Nat /\ clock \in Nat /\ generated[i] <= clock /\ i \in Nat
      BY <1>0, <2>1 DEF BenchTypeOK, IInv, GrantedBefore
    <3>1. CASE i = Len(generated)
      <4>1. (Waits' - i - 1) * interval = 0
        BY <2>1, <3>1
      <4> QED
        BY <1>1, <2>2, <3>0, <4>1
    <3>2. CASE i < Len(generated)
      <4>1. last # Never
        BY <2>1, <3>0, <3>2 DEF IInv, Scheduled
      <4>2. (Waits - i - 1) * interval - credit <= Due - generated[i]
        BY <2>1, <3>2, <4>1 DEF IInv, Scheduled
      <4>3. Waits' - i - 1 = (Waits - i - 1) + 1 /\ Waits - i - 1 \in Int
        BY <2>1, <3>0
      <4> DEFINE before == (Waits - i - 1) * interval
                 after == (Waits' - i - 1) * interval
      <4>4. before \in Int /\ after = before + interval
        BY <4>3, OneMore
      <4>5. before - credit <= Due - generated[i]
        BY <4>2
      <4>6. Due \in Int /\ Due' \in Int /\ Due + interval <= Due'
        BY <1>1, <2>2, <4>1
      <4> HIDE DEF before, after
      <4>7. after - credit <= Due' - generated[i]
        BY <3>0, <4>4, <4>5, <4>6
      <4> QED
        BY <4>7 DEF after
    <3> QED
      BY <2>1, <3>0, <3>1, <3>2
  <2> QED
    BY <1>0, <1>1, <2>3 DEF Scheduled
<1> QED
  BY <1>1, <1>2, <1>3, <1>4 DEF IInv

\* Woken: the grant is not before the due time, which is ahead of the others.
LEMMA WokenInv ==
  ASSUME IInv, Woken
  PROVE  IInv'
<1> USE LimiterAssumption DEF BenchTypeOK
<1> DEFINE n == Len(generated)
<1>0. /\ pc = "next" /\ pc' = "send" /\ until <= clock /\ generated' = Append(generated, clock)
      /\ UNCHANGED <<timed, clock, last, sleep, until, keys, wait>>
      /\ generated \in Seq(Nat) /\ clock \in Nat /\ n \in Nat
  BY DEF IInv, Woken
<1>1. /\ BenchTypeOK' /\ sleep' <= 0
      /\ Len(generated') = n + 1 /\ generated'[n + 1] = clock
      /\ \A i \in 1..n : generated'[i] = generated[i]
  BY <1>0 DEF IInv
<1>2. Waits = n + 1 /\ Waits' = n + 1 /\ last # Never
  BY <1>0, <1>1 DEF Waits, IInv, Scheduled
<1>3. Due = Due' /\ Due \in Int /\ Due <= clock
  BY <1>0, <1>2 DEF IInv, Scheduled, Due, Never
<1>4. \A i \in 1..n : (n - i) * interval - credit <= Due - generated[i]
  <2>1. \A i \in 1..n : Waits - i - 1 = n - i /\ i < Waits
    BY <1>0, <1>2
  <2> QED
    BY <1>2, <2>1 DEF IInv, Scheduled
<1>5. GrantedBefore'
  BY <1>0, <1>1 DEF IInv, GrantedBefore
<1>6. ThrottleBound'
  <2>1. ASSUME NEW i \in 1..(n + 1), NEW j \in 1..(n + 1), i < j
        PROVE  (j - i - 1) * interval - credit <= generated'[j] - generated'[i]
    <3>1. CASE j <= n
      BY <1>0, <1>1, <2>1, <3>1 DEF IInv, ThrottleBound
    <3>2. CASE j = n + 1
      <4>1. i \in 1..n /\ j - i - 1 = n - i /\ generated'[i] = generated[i] /\ generated[i] \in Nat
        BY <1>0, <1>1, <2>1, <3>2
      <4> DEFINE between == (n - i) * interval
      <4>2. between \in Int
        BY <1>0, <4>1, OneMore
      <4>3. between - credit <= Due - generated[i]
        BY <1>4, <4>1
      <4>4. generated'[j] = clock
        BY <1>1, <3>2
      <4> HIDE DEF between
      <4>5. between - credit <= clock - generated[i]
        BY <1>0, <1>3, <4>1, <4>2, <4>3
      <4> DEFINE product == (j - i - 1) * interval
      <4>6. product = between
        BY <4>1 DEF between
      <4> HIDE DEF product
      <4>7. product - credit <= generated'[j] - generated'[i]
        BY <4>1, <4>4, <4>5, <4>6
      <4> QED
        BY <4>7, Zenon DEF product
    <3>3. j <= n \/ j = n + 1
      <4> HIDE DEF n
      <4> QED
        BY <1>0, <2>1
    <3> QED
      BY <3>1, <3>2, <3>3
  <2> QED
    BY <1>1, <2>1 DEF ThrottleBound
<1>7. Scheduled'
  <2>1. ASSUME NEW i \in 1..(n + 1), i < n + 1
        PROVE  (Waits' - i - 1) * interval - credit <= Due' - generated'[i]
    <3>1. i \in 1..n /\ Waits' - i - 1 = n - i
      BY <1>0, <1>2, <2>1
    <3> QED
      BY <1>1, <1>3, <1>4, <3>1
  <2> QED
    BY <1>0, <1>1, <1>2, <2>1 DEF Scheduled
<1> QED
  BY <1>1, <1>5, <1>6, <1>7 DEF IInv

\* The other steps leave the limiter, the grants and the pending call alone.
LEMMA OtherInv ==
  ASSUME IInv, ClockTick \/ Send \/ Await \/ TimeIsOver \/ Report \/ UNCHANGED benchVars
  PROVE  IInv'
<1>1. /\ UNCHANGED <<last, sleep, until, generated>>
      /\ clock' \in Nat /\ clock <= clock' /\ (pc' = "next" <=> pc = "next")
  BY DEF IInv, BenchTypeOK, ClockTick, Send, Await, TimeIsOver, Report, benchVars
<1>2. BenchTypeOK'
  BY BenchmarkAssumption DEF IInv, BenchTypeOK, ClockTick, Send, Await, TimeIsOver, Report, benchVars
<1>3. ThrottleBound' /\ sleep' <= 0
  BY <1>1 DEF IInv, ThrottleBound
<1>4. GrantedBefore'
  BY <1>1 DEF IInv, BenchTypeOK, GrantedBefore
<1>5. Waits' = Waits /\ Due' = Due
  BY <1>1 DEF Waits, Due
<1>6. Scheduled'
  BY <1>1, <1>5 DEF IInv, Scheduled
<1> QED
  BY <1>2, <1>3, <1>4, <1>6 DEF IInv

LEMMA NextInv == IInv /\ [BenchNext]_benchVars => IInv'
  BY GenerateInv, WokenInv, OtherInv DEF BenchNext, Run

-----------------------------------------------------------------------------
\* Limiter.Wait lets no more requests pass than the throttle allows, plus one and
\* the credit, whatever the times of its calls and the ends of its sleeps.
THEOREM Throttled == BenchSpec => []ThrottleBound
<1>1. IInv => ThrottleBound
  BY DEF IInv
<1> QED
  BY <1>1, InitInv, NextInv, PTL DEF BenchSpec

\* The state of the benchmark keeps its types: the channel of keys never holds
\* more than Concurrency keys.
THEOREM TypeCorrect == BenchSpec => []BenchTypeOK
<1>1. IInv => BenchTypeOK
  BY DEF IInv
<1> QED
  BY <1>1, InitInv, NextInv, PTL DEF BenchSpec
=============================================================================
