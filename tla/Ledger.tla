------------------------------- MODULE Ledger -------------------------------
(***************************************************************************)
(* What the commits of a replica promise, whatever its consensus does: a   *)
(* list of blocks that only grows.  New blocks are above everything        *)
(* committed before, none is listed twice, and frontier is the highest.    *)
(***************************************************************************)
EXTENDS Integers, SequencesExt

CONSTANT Node

VARIABLES
  frontier,   \* frontier[n]: the view of the highest committed block of n
  ledger      \* ledger[n]: the views of its committed blocks, as delivered

Init ==
  /\ frontier = [n \in Node |-> 0]
  /\ ledger = [n \in Node |-> <<>>]

Extension(n) == SubSeq(ledger'[n], Len(ledger[n]) + 1, Len(ledger'[n]))

Commit(n) ==
  /\ frontier'[n] > frontier[n]
  /\ IsStrictPrefix(ledger[n], ledger'[n])
  /\ IsInjective(Extension(n))
  /\ ToSet(Extension(n)) \subseteq (frontier[n] + 1)..frontier'[n]
  /\ frontier'[n] \in ToSet(Extension(n))
  /\ \A m \in Node \ {n} : frontier'[m] = frontier[m] /\ ledger'[m] = ledger[m]

Spec == Init /\ [][\E n \in Node : Commit(n)]_<<frontier, ledger>>
=============================================================================
