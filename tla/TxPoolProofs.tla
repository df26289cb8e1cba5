---------------------------- MODULE TxPoolProofs ----------------------------
(***************************************************************************)
(* The transaction pool's invariants, for every size of the pool, of a     *)
(* microblock and of the calls of AddTx.                                   *)
(***************************************************************************)
EXTENDS TxPool, TLAPS

\* The pool holds at most nums transactions more than signals were sent and not
\* yet acted on.
Announced ==
  Len <= nums + FetchSignal + (IF adder = "signal" THEN 1 ELSE 0)
              + (IF observer \in {"check", "fetch"} THEN 1 ELSE 0)

\* AddTx counts an iteration down after its send.
AddTxPlace == adder = "signal" => left > 0

IInv == TypeOK /\ Announced /\ AddTxPlace /\ CheckStillHolds /\ NothingVanishes

\* The goroutines start in the invariant.
LEMMA InitInv ==
  Init => IInv
BY PoolAssumption
   DEF Init, IInv, TypeOK, Announced, AddTxPlace, CheckStillHolds, NothingVanishes

\* Every step of AddTx and of observePool preserves the invariant.
LEMMA NextInv ==
  IInv /\ [Next]_vars => IInv'
<1> SUFFICES ASSUME IInv, [Next]_vars PROVE IInv'
  OBVIOUS
<1> USE PoolAssumption DEF IInv, TypeOK, Announced, AddTxPlace, CheckStillHolds, NothingVanishes
<1>1. CASE benchmark
  BY <1>1 DEF benchmark
<1>2. CASE AddTxLock
  BY <1>2 DEF AddTxLock
<1>3. CASE AddTx
  BY <1>3 DEF AddTx
<1>4. CASE AddTxSignal
  BY <1>4 DEF AddTxSignal
<1>5. CASE AddTxFull
  BY <1>5 DEF AddTxFull
<1>6. CASE ReceiveSignal
  BY <1>6 DEF ReceiveSignal
<1>7. CASE TxLen
  BY <1>7 DEF TxLen
<1>8. CASE FetchTx
  BY <1>8 DEF FetchTx
<1>9. CASE GenerateMb
  BY <1>9 DEF GenerateMb
<1>10. CASE BroadcastMb
  BY <1>10 DEF BroadcastMb
<1>11. CASE RefillTokens
  BY <1>11 DEF RefillTokens
<1>12. CASE UNCHANGED vars
  BY <1>12 DEF vars
<1> QED
  BY <1>1, <1>2, <1>3, <1>4, <1>5, <1>6, <1>7, <1>8, <1>9, <1>10, <1>11, <1>12
     DEF Next, Add, Observe

\* The invariant holds in every reachable state of the two goroutines.
THEOREM Invariance ==
  Spec => []IInv
BY InitInv, NextInv, PTL DEF Spec

\* The pool never holds more than its size, nor the channels more than they can.
THEOREM TypeCorrect ==
  Spec => []TypeOK
<1>1. IInv => TypeOK
  BY DEF IInv
<1> QED BY <1>1, Invariance, PTL

\* No transactions for a microblock stay in the pool without a wakeup for
\* observePool.
THEOREM WakeupsSuffice ==
  Spec => []NoLostWakeup
<1>1. IInv => NoLostWakeup
  BY PoolAssumption DEF IInv, TypeOK, Announced, NoLostWakeup
<1> QED BY <1>1, Invariance, PTL

\* FetchTx finds what TxLen has promised.
THEOREM CheckIsNotStale ==
  Spec => []CheckStillHolds
<1>1. IInv => CheckStillHolds
  BY DEF IInv
<1> QED BY <1>1, Invariance, PTL

\* Transactions are neither lost nor duplicated, except by a refused GenerateMb.
THEOREM TransactionsConserved ==
  Spec => []NothingVanishes
<1>1. IInv => NothingVanishes
  BY DEF IInv
<1> QED BY <1>1, Invariance, PTL

=============================================================================
