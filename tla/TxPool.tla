------------------------------- MODULE TxPool -------------------------------
(***************************************************************************)
(* The transaction pool (txpool/txpool.go) between the two goroutines that *)
(* use it: benchmark, whose ticker calls AddTx, and observePool, which     *)
(* waits for a signal, takes transactions and builds microblocks of them   *)
(* (replica/replica.go).                                                   *)
(*                                                                         *)
(* AddTx holds pool.mu while it sends to the channel FetchSignal, so its   *)
(* sends are steps of their own; TxLen and FetchTx take the mutex and      *)
(* release it without waiting for anything, so each is one step.           *)
(* Transactions are all alike, so they are counted.                        *)
(***************************************************************************)
EXTENDS Integers

CONSTANTS
  Poolsize,     \* capacity of the pool and of FetchSignal
  nums,         \* transactions in a microblock: MSize / PayloadSize
  Batch,        \* transactions per call of AddTx
  Mb_broadcast, \* capacity of the channel of broadcast tokens
  MaxTx         \* bound: AddTx is called while fewer were received

ASSUME PoolAssumption ==
  /\ Poolsize \in Nat \ {0} /\ nums \in Nat \ {0} /\ Batch \in Nat
  /\ Mb_broadcast \in Nat \ {0} /\ MaxTx \in Nat

VARIABLES
  Len,          \* pool.Len, the length of pool.Transactions
  receiveNum,   \* pool.receiveNum
  FetchSignal,  \* signals in the channel
  mbBroadcast,  \* tokens in the channel
  adder,        \* where benchmark's goroutine is
  left,         \* iterations that AddTx has left
  observer,     \* where observePool is
  txs,          \* transactions that observePool has taken
  inMbs,        \* transactions in microblocks
  lost          \* transactions that no microblock was built of

vars == <<Len, receiveNum, FetchSignal, mbBroadcast, adder, left, observer, txs, inMbs, lost>>

\* AddTx has pool.mu.
Locked == adder \in {"loop", "signal", "full"}

TypeOK ==
  /\ Len \in 0..Poolsize /\ receiveNum \in Nat
  /\ FetchSignal \in 0..Poolsize /\ mbBroadcast \in 0..Mb_broadcast
  /\ adder \in {"idle", "lock", "loop", "signal", "full"} /\ left \in 0..Batch
  /\ observer \in {"receive", "check", "fetch", "build", "token"}
  /\ txs \in Nat /\ inMbs \in Nat /\ lost \in Nat

Init ==
  /\ Len = 0 /\ receiveNum = 0 /\ FetchSignal = 0 /\ mbBroadcast = 0
  /\ adder = "idle" /\ left = 0
  /\ observer = "receive" /\ txs = 0 /\ inMbs = 0 /\ lost = 0

-----------------------------------------------------------------------------
(* benchmark and AddTx.                                                    *)

\* The ticker fires, and benchmark calls AddTx.
benchmark ==
  /\ adder = "idle" /\ receiveNum < MaxTx
  /\ adder' = "lock"
  /\ UNCHANGED <<Len, receiveNum, FetchSignal, mbBroadcast, left, observer, txs, inMbs, lost>>

AddTxLock ==
  /\ adder = "lock"
  /\ adder' = "loop" /\ left' = Batch
  /\ UNCHANGED <<Len, receiveNum, FetchSignal, mbBroadcast, observer, txs, inMbs, lost>>

\* Mutant of AddTx: a signal only into an empty channel.
AddTxCoalesced ==
  /\ adder = "loop"
  /\ IF left = 0
     THEN adder' = "idle" /\ UNCHANGED <<Len, receiveNum, left>>
     ELSE IF Len = Poolsize
     THEN adder' = "full" /\ UNCHANGED <<Len, receiveNum, left>>
     ELSE /\ Len' = Len + 1 /\ receiveNum' = receiveNum + 1
          /\ IF FetchSignal > 0 THEN adder' = "loop" /\ left' = left - 1
                                ELSE adder' = "signal" /\ UNCHANGED left
  /\ UNCHANGED <<FetchSignal, mbBroadcast, observer, txs, inMbs, lost>>

\* One iteration up to its send, or the end of the loop.
AddTx ==
  /\ adder = "loop"
  /\ IF left = 0
     THEN adder' = "idle" /\ UNCHANGED <<Len, receiveNum>>
     ELSE IF Len = Poolsize
     THEN adder' = "full" /\ UNCHANGED <<Len, receiveNum>>
     ELSE adder' = "signal" /\ Len' = Len + 1 /\ receiveNum' = receiveNum + 1
  /\ UNCHANGED <<FetchSignal, mbBroadcast, left, observer, txs, inMbs, lost>>

\* The send for a transaction that was added.
AddTxSignal ==
  /\ adder = "signal" /\ FetchSignal < Poolsize
  /\ FetchSignal' = FetchSignal + 1
  /\ adder' = "loop" /\ left' = left - 1
  /\ UNCHANGED <<Len, receiveNum, mbBroadcast, observer, txs, inMbs, lost>>

\* The send that ends the loop when the pool is full.
AddTxFull ==
  /\ adder = "full" /\ FetchSignal < Poolsize
  /\ FetchSignal' = FetchSignal + 1
  /\ adder' = "idle" /\ left' = 0
  /\ UNCHANGED <<Len, receiveNum, mbBroadcast, observer, txs, inMbs, lost>>

-----------------------------------------------------------------------------
(* observePool.                                                            *)

ReceiveSignal ==
  /\ observer = "receive" /\ FetchSignal > 0
  /\ FetchSignal' = FetchSignal - 1 /\ observer' = "check"
  /\ UNCHANGED <<Len, receiveNum, mbBroadcast, adder, left, txs, inMbs, lost>>

\* Mutant: a microblock may empty the pool.
TxLenAtLeast ==
  /\ observer = "check" /\ ~Locked
  /\ observer' = IF Len >= nums THEN "fetch" ELSE "receive"
  /\ UNCHANGED <<Len, receiveNum, FetchSignal, mbBroadcast, adder, left, txs, inMbs, lost>>

TxLen ==
  /\ observer = "check" /\ ~Locked
  /\ observer' = IF Len > nums THEN "fetch" ELSE "receive"
  /\ UNCHANGED <<Len, receiveNum, FetchSignal, mbBroadcast, adder, left, txs, inMbs, lost>>

\* Mutant: the pool is emptied whatever was taken.
FetchTxClears ==
  /\ observer = "fetch" /\ ~Locked
  /\ txs' = IF Len < nums THEN Len ELSE nums
  /\ Len' = 0
  /\ observer' = "build"
  /\ UNCHANGED <<receiveNum, FetchSignal, mbBroadcast, adder, left, inMbs, lost>>

\* Fewer than nums transactions are all taken.
FetchTx ==
  /\ observer = "fetch" /\ ~Locked
  /\ txs' = IF Len < nums THEN Len ELSE nums
  /\ Len' = Len - txs'
  /\ observer' = "build"
  /\ UNCHANGED <<receiveNum, FetchSignal, mbBroadcast, adder, left, inMbs, lost>>

\* GenerateMb builds a microblock, or refuses because the mempool is full.
GenerateMb ==
  /\ observer = "build"
  /\ \/ inMbs' = inMbs + txs /\ observer' = "token" /\ UNCHANGED lost
     \/ lost' = lost + txs /\ observer' = "receive" /\ UNCHANGED inMbs
  /\ txs' = 0
  /\ UNCHANGED <<Len, receiveNum, FetchSignal, mbBroadcast, adder, left>>

\* The microblock is broadcast when there is a token.
BroadcastMb ==
  /\ observer = "token" /\ mbBroadcast > 0
  /\ mbBroadcast' = mbBroadcast - 1 /\ observer' = "receive"
  /\ UNCHANGED <<Len, receiveNum, FetchSignal, adder, left, txs, inMbs, lost>>

\* Mutant: the tokens are not refilled after the first microblock.
RefillTokensOnce ==
  /\ mbBroadcast < Mb_broadcast /\ inMbs = 0
  /\ mbBroadcast' = mbBroadcast + 1
  /\ UNCHANGED <<Len, receiveNum, FetchSignal, adder, left, observer, txs, inMbs, lost>>

\* The goroutine that refills the tokens.  Its sleep between two rounds only
\* delays it.
RefillTokens ==
  /\ mbBroadcast < Mb_broadcast
  /\ mbBroadcast' = mbBroadcast + 1
  /\ UNCHANGED <<Len, receiveNum, FetchSignal, adder, left, observer, txs, inMbs, lost>>

-----------------------------------------------------------------------------
Add == AddTxLock \/ AddTx \/ AddTxSignal \/ AddTxFull

Observe == ReceiveSignal \/ TxLen \/ FetchTx \/ GenerateMb \/ BroadcastMb

Next == benchmark \/ Add \/ Observe \/ RefillTokens

Spec == Init /\ [][Next]_vars

\* Goroutines that can run do run, and a goroutine that waits for the mutex gets
\* it although the other one takes it again and again: sync.Mutex hands itself
\* over to a goroutine that has waited for a millisecond.
FairSpec ==
  /\ Spec /\ WF_vars(Add) /\ WF_vars(RefillTokens)
  /\ WF_vars(ReceiveSignal) /\ WF_vars(GenerateMb) /\ WF_vars(BroadcastMb)
  /\ SF_vars(TxLen) /\ SF_vars(FetchTx)

-----------------------------------------------------------------------------
\* Whenever the pool has enough for a microblock, a signal is in the channel or
\* about to be sent, or observePool has yet to look: no transactions stay in
\* the pool because a wakeup was lost, although one signal may be used up for
\* nothing and another one for many transactions.
NoLostWakeup ==
  Len > nums => FetchSignal > 0 \/ adder = "signal" \/ observer # "receive"

\* What observePool saw in TxLen still holds in FetchTx, after it has released
\* the mutex in between.
CheckStillHolds == observer = "fetch" => Len > nums

\* Every transaction that was received is in the pool, taken, in a microblock, or
\* dropped by a refused GenerateMb, and taken transactions are a full microblock.
NothingVanishes ==
  /\ receiveNum = Len + txs + inMbs + lost
  /\ txs = IF observer = "build" THEN nums ELSE 0

\* AddTx waits in a send with the mutex, and observePool for the mutex.
Deadlocked == /\ adder \in {"signal", "full"} /\ FetchSignal = Poolsize
              /\ observer \in {"check", "fetch"}

\* A pool with enough transactions for a microblock gets one built, or the two
\* goroutines wait for each other.
PoolDrains == Len > nums ~> (observer = "build" \/ Deadlocked)

\* A call of AddTx returns.  txpool.go:37 says of it: "add nums transactions".
AddTxReturns == adder # "idle" ~> adder = "idle"

=============================================================================
