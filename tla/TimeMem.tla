------------------------------ MODULE TimeMem ------------------------------
(***************************************************************************)
(* The mempool of mempool/timemem.go: microblocks wait in a priority queue *)
(* by their FutureTimestamp and in a map by their hash.  A microblock      *)
(* stands for its hash: the sequence of its transactions.                  *)
(***************************************************************************)
EXTENDS TxnBatch, SequencesExt

CONSTANTS
    Others,      \* microblocks of other replicas
    bsize,       \* number of microblocks in a proposal
    memsize,     \* number of microblocks above which AddTxn refuses
    Proposals,   \* hash lists of the proposals that are filled
    Timestamps,  \* values of FutureTimestamp
    MaxAdded     \* bound on the calls of AddMicroblock

PQ == INSTANCE PriorityQueue

VARIABLES
    txnList, currSize,   \* transactions not yet in a microblock
    mbpq,                \* the priority queue
    microblockMap,       \* the known microblocks
    accepted,            \* transactions AddTxn took, in order
    built,               \* microblocks built here, in order
    added,               \* number of calls of AddMicroblock
    payload              \* the timestamps of the last payload, in its order

vars == <<txnList, currSize, mbpq, microblockMap, accepted, built, added, payload>>

Init ==
    /\ txnList = <<>> /\ currSize = 0
    /\ mbpq = PQ!NewPriorityQueue /\ microblockMap = {}
    /\ accepted = <<>> /\ built = <<>> /\ added = 0 /\ payload = <<>>

AddTxn(txn) ==
    LET b == Batched(txnList, currSize, txn)
    IN  /\ txn \notin ToSet(accepted)
        /\ Len(mbpq.heap) < memsize
        /\ Fits(txn)
        /\ txnList' = b.txnList
        /\ currSize' = b.currSize
        /\ built' = IF b.built = <<>> THEN built ELSE Append(built, b.built)
        /\ accepted' = Append(accepted, txn)
        /\ UNCHANGED <<mbpq, microblockMap, added, payload>>

AddMicroblock(mb, futureTimestamp) ==
    /\ added < MaxAdded
    /\ mb \notin microblockMap
    /\ mbpq' = PQ!Insert(mbpq, mb, futureTimestamp)
    /\ microblockMap' = microblockMap \cup {mb}
    /\ added' = added + 1
    /\ UNCHANGED <<txnList, currSize, accepted, built, payload>>

\* The queue after n calls of Pop and the timestamps of what they returned.
RECURSIVE PopMany(_, _)
PopMany(queue, n) ==
    IF n = 0 THEN [queue |-> queue, times |-> <<>>]
    ELSE LET rest == PopMany(PQ!Pop(queue), n - 1)
         IN  [queue |-> rest.queue, times |-> <<PQ!PriorityOf(queue, 1)>> \o rest.times]

GeneratePayload ==
    LET len == Len(mbpq.heap)
        popped == PopMany(mbpq, IF len >= bsize THEN bsize ELSE len)
    IN  /\ len > 0
        /\ mbpq' = popped.queue
        /\ payload' = popped.times
        /\ UNCHANGED <<txnList, currSize, microblockMap, accepted, built, added>>

\* The known microblocks leave the queue and the map; one that Pop took from the
\* queue before is only logged there.  payload is about GeneratePayload alone.
FillProposal(hashList) ==
    LET found == SelectSeq(hashList, LAMBDA id : id \in microblockMap)
    IN  /\ found # <<>>
        /\ mbpq' = FoldSeq(LAMBDA mb, queue : PQ!RemoveValue(queue, mb), mbpq, found)
        /\ microblockMap' = microblockMap \ ToSet(found)
        /\ payload' = <<>>
        /\ UNCHANGED <<txnList, currSize, accepted, built, added>>

Next ==
    \/ \E txn \in Txns : AddTxn(txn)
    \/ \E mb \in ToSet(built) \cup Others, t \in Timestamps : AddMicroblock(mb, t)
    \/ GeneratePayload
    \/ \E hashList \in Proposals : FillProposal(hashList)

Spec == Init /\ [][Next]_vars

-----------------------------------------------------------------------------

\* Every accepted transaction is in one microblock or still in the list, in the
\* order of the calls of AddTxn, and the size AddTxn goes by is that of the list,
\* so a microblock never exceeds msize.
BatchesFit ==
    LET size(list) == FoldSeq(LAMBDA txn, sum : sum + SizeOf[txn], 0, list)
    IN  /\ FlattenSeq(built) \o txnList = accepted
        /\ currSize = size(txnList)
        /\ \A i \in 1..Len(built) : size(built[i]) <= msize

\* The lookup table and the heap of the queue hold the same values, every item
\* knows its place in the heap, by which Remove finds it, and a microblock that
\* this replica may still propose is one it can find for those that miss it.
QueueConsistent ==
    /\ DOMAIN mbpq.lookup = ToSet(mbpq.heap) /\ IsInjective(mbpq.heap)
    /\ \A i \in 1..Len(mbpq.heap) : mbpq.lookup[mbpq.heap[i]].index = i
    /\ ToSet(mbpq.heap) \subseteq microblockMap

\* A payload takes the earliest timestamps of the queue, in their order.
EarliestFirst ==
    [][GeneratePayload =>
          /\ \A i, j \in 1..Len(payload') : i < j => payload'[i] <= payload'[j]
          /\ \A mb \in ToSet(mbpq'.heap), i \in 1..Len(payload') :
                payload'[i] <= mbpq'.lookup[mb].priority]_vars

=============================================================================
