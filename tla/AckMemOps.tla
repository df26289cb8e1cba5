----------------------------- MODULE AckMemOps -----------------------------
(***************************************************************************)
(* The methods of AckMem (src/mempool/ackmem.go) as operators on its       *)
(* state, a record am.  Every method holds am.mu from its first to its     *)
(* last statement, so each one is a single state transformer.              *)
(*                                                                         *)
(* Abstraction of the data.  A microblock is its hash.  A copy of it is    *)
(* "real", or "fake": the placeholder with IsFake set that the code builds *)
(* when it learns of a hash before the transactions.  Signatures,          *)
(* timestamps and log lines are dropped, and so are AckInGroup/AckOutGroup *)
(* (they only reach Proposal.AckNode, which no code reads).                *)
(***************************************************************************)
EXTENDS Integers, Sequences, FiniteSets

CONSTANTS
  Node,              \* the replicas
  Hash,              \* the microblock hashes
  Q,                 \* config.Q, AckMem.threshhold
  BSize,             \* config.BSize: microblocks in a proposal
  BroadcastByGroup,  \* config.BroadcastByGroup
  GroupId            \* GroupId[h]: the group a microblock is addressed to

ASSUME NodeAssumption == IsFiniteSet(Node)
ASSUME HashAssumption == IsFiniteSet(Hash)
ASSUME QAssumption == Q \in Nat /\ Q > 1
ASSUME BSizeAssumption == BSize \in Nat
ASSUME GroupAssumption == BroadcastByGroup \in BOOLEAN /\ GroupId \in [Hash -> Nat]

-----------------------------------------------------------------------------
Copy == {"none", "fake", "real"}

\* What a slot of stableMicroblocks points to.  The list holds the pointer that
\* was pushed: replacing the entry of microblockMap does not change it.
Entry == [hash : Hash, fake : BOOLEAN]

\* The state of an AckMem.  pendingMicroblocks is its key set, and the fields
\* of a PendingMicroblock are ackMap[h] and ackNum[h] (empty and 0 for a hash
\* that is not a key).  A hash h is a key of ackBuffer, or of StableBuffer, iff
\* the set of nodes there is not empty; StableBuffer keeps AckNodeList.
AckMemType ==
  [microblockMap : [Hash -> Copy],
   pendingMicroblocks : SUBSET Hash,
   ackMap : [Hash -> SUBSET Node],
   ackNum : [Hash -> Nat],
   ackBuffer : [Hash -> SUBSET Node],
   stableMBs : SUBSET Hash,
   stableMicroblocks : Seq(Entry),
   StableBuffer : [Hash -> SUBSET Node],
   TotalStableMbs : Nat]

NewAckMem ==
  [microblockMap |-> [h \in Hash |-> "none"],
   pendingMicroblocks |-> {},
   ackMap |-> [h \in Hash |-> {}],
   ackNum |-> [h \in Hash |-> 0],
   ackBuffer |-> [h \in Hash |-> {}],
   stableMBs |-> {},
   stableMicroblocks |-> << >>,
   StableBuffer |-> [h \in Hash |-> {}],
   TotalStableMbs |-> 0]

-----------------------------------------------------------------------------
Known(am) == {h \in Hash : am.microblockMap[h] # "none"}

Hashes(s) == {s[i].hash : i \in 1..Len(s)}

Listed(am) == Hashes(am.stableMicroblocks)

Entries(s) == {s[i] : i \in 1..Len(s)}

\* The hashes queued as fake microblocks.
FakeListed(am) == {h \in Hash : [hash |-> h, fake |-> TRUE] \in Entries(am.stableMicroblocks)}

Distinct(s) == \A i, j \in 1..Len(s) : s[i].hash = s[j].hash => i = j

\* The indexes of a mempool agree with each other.
IndexesAgree(am) ==
  /\ Distinct(am.stableMicroblocks)
  /\ Listed(am) \subseteq am.stableMBs
  /\ am.pendingMicroblocks \cap am.stableMBs = {}
  /\ am.pendingMicroblocks \cup am.stableMBs \subseteq Known(am)

-----------------------------------------------------------------------------
\* Mutant of BecomeStable: the pending entry is not deleted.
BecomeStableKeepsPending(am, h, fake) ==
  [am EXCEPT !.stableMicroblocks = Append(@, [hash |-> h, fake |-> fake]),
             !.stableMBs = @ \cup {h},
             !.TotalStableMbs = @ + 1]

\* The five statements that make h stable: push the pointer, mark the hash,
\* count it, and delete the pending entry if there is one.
BecomeStable(am, h, fake) ==
  [am EXCEPT !.stableMicroblocks = Append(@, [hash |-> h, fake |-> fake]),
             !.stableMBs = @ \cup {h},
             !.TotalStableMbs = @ + 1,
             !.pendingMicroblocks = @ \ {h},
             !.ackMap[h] = {},
             !.ackNum[h] = 0]

\* A PendingMicroblock with the given ackMap and ackNum.
EnterPending(am, h, acks, num) ==
  [am EXCEPT !.pendingMicroblocks = @ \cup {h},
             !.ackMap[h] = acks,
             !.ackNum[h] = num]

\* Mutant of AddNewMicroblock: > instead of >= in the threshold test.
AddNewMicroblockOverQ(am, h, sender) ==
  LET buffer == am.ackBuffer[h]
      num == 1 + Cardinality(buffer)
      known == [am EXCEPT !.microblockMap[h] = "real"]
  IN  IF buffer # {} /\ num > Q
        THEN BecomeStable(known, h, FALSE)
        ELSE EnterPending(known, h, buffer \cup {sender}, num)

\* AddMicroblock when the hash is new.  The sender counts as the first ack, and
\* every ack buffered for the hash as one more.  The threshold is only tested
\* when there are buffered acks, and no Stable is built or sent on this path.
AddNewMicroblock(am, h, sender) ==
  LET buffer == am.ackBuffer[h]
      num == 1 + Cardinality(buffer)
      known == [am EXCEPT !.microblockMap[h] = "real"]
  IN  IF buffer # {} /\ num >= Q
        THEN IF h \in am.stableMBs THEN known ELSE BecomeStable(known, h, FALSE)
        ELSE EnterPending(known, h, buffer \cup {sender}, num)

\* Mutant of AddMicroblock: a fake copy is taken for no copy.
AddMicroblockFakeIsNew(am, h, sender) ==
  IF am.microblockMap[h] = "real" THEN am ELSE AddNewMicroblock(am, h, sender)

\* A real copy makes a second delivery a no-op; a fake one is replaced in the
\* map and nowhere else.
AddMicroblock(am, h, sender) ==
  CASE am.microblockMap[h] = "real" -> am
    [] am.microblockMap[h] = "fake" -> [am EXCEPT !.microblockMap[h] = "real"]
    [] am.microblockMap[h] = "none" -> AddNewMicroblock(am, h, sender)

\* The pending entry after one more ack.  The code counts the ack whether or
\* not node is already in ackMap.
CountAck(am, h, node, outGroup) ==
  [am EXCEPT !.ackMap[h] = @ \cup {node},
             !.ackNum[h] = IF BroadcastByGroup /\ outGroup THEN @ ELSE @ + 1]

\* Mutant of AckCompletes: one ack too early.
AckCompletesEarly(am, h, node, outGroup) ==
  /\ h \in am.pendingMicroblocks
  /\ CountAck(am, h, node, outGroup).ackNum[h] >= Q - 1
  /\ h \notin am.stableMBs

\* The ack makes h stable, and a Stable message is broadcast.
AckCompletes(am, h, node, outGroup) ==
  /\ h \in am.pendingMicroblocks
  /\ CountAck(am, h, node, outGroup).ackNum[h] >= Q
  /\ h \notin am.stableMBs

\* Mutants of AckNodeList: every replica instead of the ones that acked; the list
\* is copied before the ack is recorded.
AckNodeListAll(am, h, node) == Node

AckNodeListBefore(am, h, node) == am.ackMap[h]

\* The AckNodeList of that Stable message.
AckNodeList(am, h, node) == am.ackMap[h] \cup {node}

AddAck(am, h, node, outGroup) ==
  IF h \in am.pendingMicroblocks
    THEN IF AckCompletes(am, h, node, outGroup)
           THEN [BecomeStable(am, h, FALSE) EXCEPT !.StableBuffer[h] = AckNodeList(am, h, node)]
           ELSE CountAck(am, h, node, outGroup)
    ELSE IF outGroup THEN am ELSE [am EXCEPT !.ackBuffer[h] = @ \cup {node}]

\* Mutants of AddStable: the fake copy is built also when the microblock is
\* there; a pending microblock is not made stable.
AddStableAlwaysFake(am, h, ackNodes) ==
  LET saved == [am EXCEPT !.StableBuffer[h] = ackNodes]
  IN  IF h \in am.stableMBs THEN am
      ELSE BecomeStable([saved EXCEPT !.microblockMap[h] = "fake"], h, TRUE)

AddStableSkipsPending(am, h, ackNodes) ==
  LET saved == [am EXCEPT !.StableBuffer[h] = ackNodes]
  IN  IF am.microblockMap[h] # "none" THEN saved
      ELSE BecomeStable([saved EXCEPT !.microblockMap[h] = "fake"], h, TRUE)

\* A Stable message received from the microblock's sender.  Without a copy of
\* the microblock the code builds a fake one and queues that.
AddStable(am, h, ackNodes) ==
  LET saved == [am EXCEPT !.StableBuffer[h] = ackNodes]
  IN  CASE h \in am.stableMBs -> am
        [] h \notin am.stableMBs /\ h \in am.pendingMicroblocks ->
             BecomeStable(saved, h, FALSE)
        [] h \notin am.stableMBs /\ h \notin am.pendingMicroblocks ->
             IF am.microblockMap[h] = "none"
               THEN BecomeStable([saved EXCEPT !.microblockMap[h] = "fake"], h, TRUE)
               ELSE saved

\* A copy that was requested has arrived.
HandleMissingStableMb(am, h, fake) ==
  [am EXCEPT !.microblockMap[h] = IF fake THEN "fake" ELSE "real"]

-----------------------------------------------------------------------------
\* The outcomes of the sort.Slice by GroupId: every permutation of s in group
\* order, since sort.Slice does not promise to keep the order of equal elements.
Permuting(S) ==
  {p \in [S -> S] : /\ \A i, j \in S : p[i] = p[j] => i = j
                    /\ \A k \in S : \E i \in S : p[i] = k}

SortedByGroup(s) ==
  {t \in {[i \in 1..Len(s) |-> s[p[i]]] : p \in Permuting(1..Len(s))} :
     \A i, j \in 1..Len(s) : i < j => GroupId[t[i].hash] <= GroupId[t[j].hash]}

\* The orders stableMicroblocks may have when GeneratePayload starts to pop.
Arrangements(s) == IF BroadcastByGroup THEN SortedByGroup(s) ELSE {s}

BatchSize(s) == IF Len(s) >= BSize THEN BSize ELSE Len(s)

\* The entries GeneratePayload pops from the front of the arranged list, and the
\* mempool it leaves behind.
Payload(list) == SubSeq(list, 1, BatchSize(list))

GeneratePayload(am, list) ==
  [am EXCEPT !.stableMicroblocks = SubSeq(list, BatchSize(list) + 1, Len(list))]

\* The entries of s at the positions in K, in their order.
Subsequence(s, K) ==
  LET n == Cardinality(K)
      e == CHOOSE f \in [1..n -> K] :
             /\ \A i, j \in 1..n : i < j => f[i] < f[j]
             /\ \A k \in K : \E i \in 1..n : f[i] = k
  IN  [i \in 1..n |-> s[e[i]]]

\* FetchMB deletes every hash of the proposal from the pending map and from the
\* stable list.  The code removes the first match for each hash; the list holds
\* a hash once (AckMem!StableOnce), so no other match is left.
FetchMB(am, ids) ==
  LET kept == {i \in 1..Len(am.stableMicroblocks) : am.stableMicroblocks[i].hash \notin ids}
  IN  [am EXCEPT !.pendingMicroblocks = @ \ ids,
                 !.ackMap = [h \in Hash |-> IF h \in ids THEN {} ELSE @[h]],
                 !.ackNum = [h \in Hash |-> IF h \in ids THEN 0 ELSE @[h]],
                 !.stableMicroblocks = Subsequence(@, kept)]

\* FindMicroblock reports a real copy as not found, and hands out fake ones.
FindMicroblock(am, h) == am.microblockMap[h] = "fake"

IsStable(am, h) == h \in am.stableMBs
=============================================================================
