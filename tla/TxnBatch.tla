------------------------------ MODULE TxnBatch ------------------------------
(***************************************************************************)
(* The batching of transactions into microblocks by their byte sizes that  *)
(* the AddTxn of every mempool has.                                        *)
(***************************************************************************)
EXTENDS Integers, Sequences

CONSTANTS
    SizeOf,  \* the byte size of every transaction
    msize    \* byte size of the transactions in a microblock

Txns == DOMAIN SizeOf

\* AddTxn refuses a transaction that is larger than a microblock.
Fits(txn) == SizeOf[txn] <= msize

\* Mutant: currSize is not set to the transaction that stays in the list.
BatchedStaleSize(txnList, currSize, txn) ==
    LET totalSize == currSize + SizeOf[txn]
    IN  IF totalSize > msize
        THEN [txnList |-> <<txn>>, currSize |-> 0, built |-> txnList]
        ELSE IF totalSize = msize
             THEN [txnList |-> <<>>, currSize |-> 0, built |-> Append(txnList, txn)]
             ELSE [txnList |-> Append(txnList, txn), currSize |-> totalSize, built |-> <<>>]

\* A transaction that fits is accepted: what is left in the list, and the
\* transactions of the microblock that is built, if any (makeTxnSlice empties
\* the list).
Batched(txnList, currSize, txn) ==
    LET totalSize == currSize + SizeOf[txn]
    IN  IF totalSize > msize
        THEN [txnList |-> <<txn>>, currSize |-> SizeOf[txn], built |-> txnList]
        ELSE IF totalSize = msize
             THEN [txnList |-> <<>>, currSize |-> 0, built |-> Append(txnList, txn)]
             ELSE [txnList |-> Append(txnList, txn), currSize |-> totalSize, built |-> <<>>]

=============================================================================
