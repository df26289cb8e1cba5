------------------------------- MODULE AckMem -------------------------------
(***************************************************************************)
(* One replica's AckMem under the most general client: its methods are     *)
(* called in any order and with any arguments, as the replica's goroutines *)
(* (the message handlers, observePool and the event loop) may call them.   *)
(***************************************************************************)
EXTENDS AckMemOps

VARIABLE am

Init == am = NewAckMem

\* observePool for an own microblock, HandleMicroblock for somebody else's.
DoAddMicroblock == \E h \in Hash, sender \in Node : am' = AddMicroblock(am, h, sender)

\* processAcks: acks for a stable microblock are dropped before AddAck.
DoAddAck ==
  \E h \in Hash, node \in Node, outGroup \in BOOLEAN :
     /\ ~IsStable(am, h)
     /\ am' = AddAck(am, h, node, outGroup)

\* A Stable message carries at least the microblock's sender.
DoAddStable ==
  \E h \in Hash, ackNodes \in SUBSET Node :
     ackNodes # {} /\ am' = AddStable(am, h, ackNodes)

DoHandleMissingStableMb ==
  \E h \in Hash, fake \in BOOLEAN : am' = HandleMissingStableMb(am, h, fake)

DoGeneratePayload ==
  \E list \in Arrangements(am.stableMicroblocks) : am' = GeneratePayload(am, list)

DoFetchMB == \E ids \in SUBSET Hash : am' = FetchMB(am, ids)

Next ==
  \/ DoAddMicroblock
  \/ DoAddAck
  \/ DoAddStable
  \/ DoHandleMissingStableMb
  \/ DoGeneratePayload
  \/ DoFetchMB

Spec == Init /\ [][Next]_am

-----------------------------------------------------------------------------
\* The fields have their types.
TypeOK == am \in AckMemType

\* The indexes of the mempool agree, whatever the order in which a
\* microblock, its acks and its Stable message arrive: a hash is queued at most
\* once, everything queued is marked stable, nothing is pending and stable at
\* once, and a pending or stable hash has an entry in microblockMap.
StableOnce == IndexesAgree(am)

\* TotalStableMbs, which the replica reports, counts each stable microblock
\* once although three methods increment it.
StableCount == am.TotalStableMbs = Cardinality(am.stableMBs)

\* No microblock is stuck: one that has Q acks counted is never left pending,
\* also when acks came before the microblock and were buffered.
NoStuckPending == \A h \in am.pendingMicroblocks : am.ackNum[h] < Q

\* The phase of a microblock's life that the indexes stand for.
Phase(m) ==
  [h \in Hash |->
     CASE h \notin Known(m) -> "unknown"
       [] h \in Known(m) /\ h \in m.pendingMicroblocks -> "pending"
       [] h \in Known(m) /\ h \notin m.pendingMicroblocks /\ h \in Listed(m) -> "queued"
       [] h \in Known(m) /\ h \notin m.pendingMicroblocks /\ h \notin Listed(m) -> "retired"]

Life == INSTANCE MicroblockLife WITH phase <- Phase(am)

\* The mempool implements MicroblockLife: a microblock this replica knew when it
\* was proposed or fetched never becomes pending or queued again, whatever late
\* microblocks, acks, Stables or retransmissions arrive for it.
LifeSpec == Life!Spec

\* ackmem.go says of a real copy that arrives after the Stable message that it
\* replaces the fake one: the queue handed to consensus holds no fake entry for
\* a microblock whose real copy is there.
FakeReplaced ==
  \A i \in 1..Len(am.stableMicroblocks) :
     am.stableMicroblocks[i].fake => am.microblockMap[am.stableMicroblocks[i].hash] # "real"

\* sharedmem.go: "FindMicroblock finds the referred microblock".
FindsStored == \A h \in Hash : am.microblockMap[h] = "real" => FindMicroblock(am, h)
=============================================================================
