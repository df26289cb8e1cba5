------------------------------- MODULE Picks -------------------------------
(***************************************************************************)
(* The random choices of receivers: RandomPick, behind randomPick and      *)
(* pickRandomNodes, and GenerateUniqueRandomArray, behind the samples of   *)
(* observePool.  Both draw numbers until they have enough different ones.  *)
(* A draw is any number of its range; Intn panics when the range is empty. *)
(***************************************************************************)
EXTENDS Integers, SequencesExt

CONSTANT MaxN    \* bound on the number of replicas

VARIABLES
  N, LoadedIndex, threshold,  \* the configuration
  call,                       \* who draws
  picked,                     \* what it has drawn and kept
  panicked                    \* Intn had nothing to draw from

config == <<N, LoadedIndex, threshold>>
vars == <<config, call, picked, panicked>>

\* How many numbers each caller wants, and the range it draws from.
Wanted == CASE call = "randomPick" -> (N - 1) \div 3 + 1
            [] call = "pickRandomNodes" -> 1
            [] call = "sample" -> threshold

DrawRange == CASE call = "randomPick" -> 0..(N - 2)
               [] call = "pickRandomNodes" -> 0..(N - 2 - LoadedIndex)
               [] call = "sample" -> 1..N

\* loadbalance forwards on the replicas up to LoadedIndex, and looks at nothing else.
Init ==
  /\ N \in 1..MaxN /\ LoadedIndex \in 0..N
  /\ threshold \in 0..(N + 1)
  /\ call \in {"randomPick", "pickRandomNodes", "sample"}
  /\ call = "pickRandomNodes" => LoadedIndex >= 1
  /\ picked = <<>> /\ panicked = FALSE

\* GenerateUniqueRandomArray returns an error when there are not enough numbers.
Refused == call = "sample" /\ threshold > N

Drawing == ~Refused /\ ~panicked /\ Len(picked) < Wanted

Draw(x) ==
  /\ Drawing /\ x \in DrawRange
  /\ picked' = IF Contains(picked, x) THEN picked ELSE Append(picked, x)
  /\ UNCHANGED <<config, call, panicked>>

Panic ==
  /\ Drawing /\ DrawRange = {}
  /\ panicked' = TRUE
  /\ UNCHANGED <<config, call, picked>>

Next == (\E x \in 0..MaxN : Draw(x)) \/ Panic

Spec == Init /\ [][Next]_vars

\* Mutant of NodeOf: the loaded replicas are not skipped.
NodeOfLoaded(x) == IF call = "randomPick" THEN x + 2 ELSE x + 1

\* The replica a number stands for.
NodeOf(x) == CASE call = "randomPick" -> x + 2
               [] call = "pickRandomNodes" -> x + 1 + LoadedIndex
               [] call = "sample" -> x

-----------------------------------------------------------------------------
\* The configurations without anybody to pick: a single replica, or all replicas
\* but the last loaded.  (The last replica is not loaded then, but loadbalance never
\* picks it: it passes N - 1 for the number of replicas.)
NobodyToPick ==
  \/ call = "randomPick" /\ N = 1
  \/ call = "pickRandomNodes" /\ LoadedIndex >= N - 1

\* What is picked are different replicas that exist; loadbalance, which only the
\* replicas up to LoadedIndex call, forwards to none of them, itself included.
\* The loops end, whatever was drawn before: as long as replicas are wanted there
\* is a number that was not drawn yet, which a random source yields in the end.
\* The exception are the configurations without anybody to pick, and only in those
\* Intn panics.
PicksSucceed ==
  /\ IsInjective(picked)
  /\ \A i \in 1..Len(picked) :
       /\ NodeOf(picked[i]) \in 1..N
       /\ call = "pickRandomNodes" => NodeOf(picked[i]) > LoadedIndex
  /\ Drawing => (NobodyToPick \/ \E x \in DrawRange : ~Contains(picked, x))
  /\ panicked => NobodyToPick
=============================================================================
