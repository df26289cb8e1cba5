---------------------------- MODULE PicksProofs ----------------------------
(***************************************************************************)
(* For every number of replicas, of loaded replicas and every size of the  *)
(* sample the draws of Picks succeed, unless there is nobody to pick.  The *)
(* invariant adds that everything kept comes from the range drawn from;    *)
(* that the range never runs dry is then a matter of counting, and of the  *)
(* range being no smaller than what is wanted (RangeIsEnough).             *)
(***************************************************************************)
EXTENDS Picks, FiniteSetTheorems, TLAPS

Config ==
  /\ N \in Nat /\ N >= 1
  /\ LoadedIndex \in Nat
  /\ threshold \in Nat
  /\ call \in {"randomPick", "pickRandomNodes", "sample"}

Kept ==
  /\ picked \in Seq(Int)
  /\ \A i \in 1..Len(picked) : picked[i] \in DrawRange
  /\ \A i, j \in 1..Len(picked) : picked[i] = picked[j] => i = j

\* A panic is one of a configuration without anybody to pick.
PanicCause == panicked \in BOOLEAN /\ (panicked => NobodyToPick)

IInv == Config /\ Kept /\ PanicCause

\* What a caller wants is a number, and the range it draws from has as many members
\* as it wants: (N-1)/3 + 1 of the N - 1 other replicas, one of those from
\* LoadedIndex + 1 to N - 1, threshold of all replicas.
LEMMA RangeIsEnough ==
  ASSUME Config, ~Refused, ~NobodyToPick
  PROVE  /\ Wanted \in Int /\ IsFiniteSet(DrawRange) /\ DrawRange \subseteq Int
         /\ Wanted <= Cardinality(DrawRange)
<1>1. CASE call = "randomPick"
  <2>1. DrawRange = 0..(N - 2) /\ Wanted = (N - 1) \div 3 + 1
    BY <1>1 DEF DrawRange, Wanted
  <2>2. N >= 2
    BY <1>1 DEF NobodyToPick, Config
  <2>3. IsFiniteSet(0..(N - 2)) /\ Cardinality(0..(N - 2)) = N - 1
    BY <2>2, FS_Interval DEF Config
  <2>4. (N - 1) \div 3 + 1 \in Int /\ (N - 1) \div 3 + 1 <= N - 1
    BY <2>2 DEF Config
  <2> QED BY <2>1, <2>3, <2>4 DEF Config
<1>2. CASE call = "pickRandomNodes"
  <2>1. DrawRange = 0..(N - 2 - LoadedIndex) /\ Wanted = 1
    BY <1>2 DEF DrawRange, Wanted
  <2>2. LoadedIndex < N - 1
    BY <1>2 DEF NobodyToPick, Config
  <2>3. /\ IsFiniteSet(0..(N - 2 - LoadedIndex))
        /\ Cardinality(0..(N - 2 - LoadedIndex)) = N - 1 - LoadedIndex
    BY <2>2, FS_Interval DEF Config
  <2> QED BY <2>1, <2>2, <2>3 DEF Config
<1>3. CASE call = "sample"
  <2>1. DrawRange = 1..N /\ Wanted = threshold
    BY <1>3 DEF DrawRange, Wanted
  <2>2. IsFiniteSet(1..N) /\ Cardinality(1..N) = N
    BY FS_Interval DEF Config
  <2>3. threshold <= N
    BY <1>3 DEF Refused, Config
  <2> QED BY <2>1, <2>2, <2>3 DEF Config
<1> QED BY <1>1, <1>2, <1>3 DEF Config

\* A sequence has no more different members than its length.
LEMMA MembersCounted ==
  ASSUME NEW s \in Seq(Int), NEW S, IsFiniteSet(S), \A x \in S : Contains(s, x)
  PROVE  Cardinality(S) <= Len(s)
<1> DEFINE M == {s[i] : i \in 1..Len(s)}
<1>1. IsFiniteSet(1..Len(s)) /\ Cardinality(1..Len(s)) = Len(s)
  <2> DEFINE n == Len(s)
  <2>1. n \in Nat
    OBVIOUS
  <2> HIDE DEF n
  <2>2. IsFiniteSet(1..n) /\ Cardinality(1..n) = n
    BY <2>1, FS_Interval
  <2> QED BY <2>2 DEF n
<1>2. IsFiniteSet(M) /\ Cardinality(M) <= Cardinality(1..Len(s))
  <2> DEFINE f == [i \in 1..Len(s) |-> s[i]]
  <2>1. f \in Surjection(1..Len(s), M)
    BY DEF Surjection
  <2> QED BY <1>1, <2>1, FS_Surjection
<1>3. S \subseteq M
  BY DEF Contains
<1>4. Cardinality(S) <= Cardinality(M)
  BY <1>2, <1>3, FS_Subset
<1>5. Cardinality(S) \in Nat /\ Cardinality(M) \in Nat
  BY <1>2, FS_CardinalityType
<1> QED BY <1>1, <1>2, <1>4, <1>5

\* The invariant holds from the first draw on: Draw keeps a number of the range
\* that is not yet among the kept ones, and Intn panics only where there is nobody
\* to pick.
LEMMA Invariance == Spec => []IInv
<1>1. Init => IInv
  <2>1. Init => Config /\ Kept
    BY DEF Init, Config, Kept
  <2>2. Init => PanicCause
    BY DEF Init, PanicCause
  <2> QED BY <2>1, <2>2 DEF IInv
<1>2. IInv /\ [Next]_vars => IInv'
  <2> SUFFICES ASSUME IInv, [Next]_vars PROVE IInv'
    OBVIOUS
  <2>1. CASE UNCHANGED vars
    BY <2>1 DEF vars, config, IInv, Config, Kept, PanicCause, DrawRange, NobodyToPick
  <2>2. ASSUME NEW x \in 0..MaxN, Draw(x) PROVE IInv'
    <3>1. Config' /\ DrawRange' = DrawRange /\ PanicCause'
      BY <2>2 DEF Draw, config, IInv, Config, DrawRange, PanicCause, NobodyToPick
    <3>2. CASE Contains(picked, x)
      BY <2>2, <3>1, <3>2 DEF Draw, IInv, Kept
    <3>3. CASE ~Contains(picked, x)
      <4>1. picked' = Append(picked, x) /\ x \in DrawRange /\ x \in Int
        BY <2>2, <3>3 DEF Draw
      <4>2. \A i \in 1..Len(picked) : picked[i] # x
        BY <3>3 DEF Contains
      <4> QED BY <3>1, <4>1, <4>2 DEF IInv, Kept
    <3> QED BY <3>2, <3>3
  <2>3. CASE Panic
    <3>1. Config' /\ Kept' /\ NobodyToPick' = NobodyToPick
      BY <2>3 DEF Panic, config, IInv, Config, Kept, DrawRange, NobodyToPick
    <3>2. Drawing /\ DrawRange = {} /\ panicked' = TRUE
      BY <2>3 DEF Panic
    <3>3. NobodyToPick
      <4>1. SUFFICES ASSUME ~NobodyToPick PROVE FALSE
        OBVIOUS
      <4>2. Wanted \in Int /\ Wanted <= Cardinality(DrawRange)
        BY <3>2, <4>1, RangeIsEnough DEF Drawing, IInv
      <4>3. Cardinality(DrawRange) = 0
        BY <3>2, FS_EmptySet
      <4>4. Len(picked) \in Nat /\ Len(picked) < Wanted
        BY <3>2 DEF Drawing, IInv, Kept
      <4> QED BY <4>2, <4>3, <4>4
    <3> QED BY <3>1, <3>2, <3>3 DEF IInv, PanicCause
  <2> QED BY <2>1, <2>2, <2>3 DEF Next
<1> QED BY <1>1, <1>2, PTL DEF Spec

\* RandomPick and GenerateUniqueRandomArray give different replicas that exist, none
\* of them loaded where loadbalance asks, and their loops always have a number left
\* to draw, except where there is nobody to pick: a single replica, or a LoadedIndex
\* of N - 1 or more, and only there Intn panics.
THEOREM DrawsSucceed == Spec => []PicksSucceed
<1>1. IInv => PicksSucceed
  <2> SUFFICES ASSUME IInv PROVE PicksSucceed
    OBVIOUS
  <2>1. IsInjective(picked)
    BY DEF IInv, Kept, IsInjective
  <2>2. ASSUME NEW i \in 1..Len(picked)
        PROVE  /\ NodeOf(picked[i]) \in 1..N
               /\ call = "pickRandomNodes" => NodeOf(picked[i]) > LoadedIndex
    <3>1. picked[i] \in DrawRange
      BY DEF IInv, Kept
    <3> DEFINE x == picked[i]
    <3>c. N \in Nat /\ LoadedIndex \in Nat
      BY DEF IInv, Config
    <3> HIDE DEF x
    <3>2. CASE call = "randomPick"
      <4>1. x \in 0..(N - 2) /\ NodeOf(x) = x + 2
        BY <3>1, <3>2 DEF DrawRange, NodeOf, x
      <4>2. x + 2 \in 1..N
        BY <3>c, <4>1
      <4> QED BY <3>2, <4>1, <4>2 DEF x
    <3>3. CASE call = "pickRandomNodes"
      <4>1. x \in 0..(N - 2 - LoadedIndex) /\ NodeOf(x) = x + 1 + LoadedIndex
        BY <3>1, <3>3 DEF DrawRange, NodeOf, x
      <4>2. x + 1 + LoadedIndex \in 1..N /\ x + 1 + LoadedIndex > LoadedIndex
        BY <3>c, <4>1
      <4> QED BY <4>1, <4>2 DEF x
    <3>4. CASE call = "sample"
      <4>1. x \in 1..N /\ NodeOf(x) = x
        BY <3>1, <3>4 DEF DrawRange, NodeOf, x
      <4> QED BY <3>4, <4>1 DEF x
    <3> QED BY <3>2, <3>3, <3>4 DEF IInv, Config
  <2>3. ASSUME Drawing, ~NobodyToPick
        PROVE  \E x \in DrawRange : ~Contains(picked, x)
    <3>1. SUFFICES ASSUME \A x \in DrawRange : Contains(picked, x) PROVE FALSE
      OBVIOUS
    <3>2. /\ Wanted \in Int /\ IsFiniteSet(DrawRange)
          /\ Wanted <= Cardinality(DrawRange)
      BY <2>3, RangeIsEnough DEF IInv, Drawing
    <3>3. picked \in Seq(Int) /\ Len(picked) \in Nat /\ Len(picked) < Wanted
      BY <2>3 DEF IInv, Kept, Drawing
    <3>4. Cardinality(DrawRange) <= Len(picked)
      BY <3>1, <3>2, <3>3, MembersCounted
    <3>5. Cardinality(DrawRange) \in Nat
      BY <3>2, FS_CardinalityType
    <3> QED BY <3>2, <3>3, <3>4, <3>5
  <2>4. panicked => NobodyToPick
    BY DEF IInv, PanicCause
  <2> QED BY <2>1, <2>2, <2>3, <2>4 DEF PicksSucceed
<1> QED BY <1>1, Invariance, PTL
=============================================================================
