--------------------------- MODULE Dissemination ---------------------------
(***************************************************************************)
(* Microblock dissemination among the replicas: observePool builds and     *)
(* broadcasts microblocks, replicas store and acknowledge them, the sender *)
(* turns Q acks into a Stable message, leaders propose stable microblocks, *)
(* and everybody else fetches them from its AckMem.                        *)
(*                                                                         *)
(* The handlers of a replica run one at a time, on its handle() goroutine; *)
(* observePool, loadbalance and the event loop that proposes run beside    *)
(* them.  Messages in flight are sets: transport.Send does not lose or     *)
(* duplicate a message, and config.Delay, socket.Slow and the different    *)
(* connections make any order possible.  The consensus that picks leaders  *)
(* is not part of this module: any replica may propose at any time.        *)
(***************************************************************************)
EXTENDS AckMemOps

CONSTANTS
  Sender,             \* Sender[h]: the replica whose observePool builds h
  BroadcastBySample,  \* config.BroadcastBySample
  Threshold,          \* config.Threshold: how many replicas a sample has
  Group,              \* Group[g]: the members of group g
  LoadBalance,        \* config.LoadBalance
  Loaded              \* the replicas up to config.LoadedIndex

ASSUME SenderAssumption == Sender \in [Hash -> Node]
ASSUME GroupListAssumption == Group \in [{GroupId[h] : h \in Hash} -> SUBSET Node]
ASSUME ModeAssumption == BroadcastBySample \in BOOLEAN /\ LoadBalance \in BOOLEAN
ASSUME LoadedAssumption == Loaded \subseteq Node

VARIABLES
  am,            \* am[n]: the mempool of replica n
  receivedMBs,   \* receivedMBs[n]: the hashes HandleMicroblock has processed
  made,          \* the microblocks built so far
  outbox,        \* outbox[n]: built and stored by n, waiting for a mbBroadcast token
  mbs,           \* microblocks in flight
  acks,          \* acks in flight
  stables,       \* Stable messages in flight
  proposals      \* proposals in flight

vars == <<am, receivedMBs, made, outbox, mbs, acks, stables, proposals>>

MbMsg == [to : Node, hash : Hash, IsForward : BOOLEAN]
AckMsg == [Receiver : Node, to : Node, hash : Hash]
StableMsg == [to : Node, hash : Hash, AckNodeList : SUBSET Node]
ProposalMsg == [to : Node, HashList : SUBSET Hash]

Init ==
  /\ am = [n \in Node |-> NewAckMem]
  /\ receivedMBs = [n \in Node |-> {}]
  /\ made = {}
  /\ outbox = [n \in Node |-> {}]
  /\ mbs = {}
  /\ acks = {}
  /\ stables = {}
  /\ proposals = {}

-----------------------------------------------------------------------------
\* Mutant of GenerateMb: the microblock is not stored before it is broadcast.
GenerateMbUnstored(n, h) ==
  /\ Sender[h] = n /\ h \notin made /\ outbox[n] = {}
  /\ made' = made \cup {h}
  /\ outbox' = [outbox EXCEPT ![n] = {h}]
  /\ UNCHANGED <<am, receivedMBs, mbs, acks, stables, proposals>>

\* observePool, up to the wait for a broadcast token: the sender stores its own
\* microblock, which counts as its ack.  The loop builds one at a time.
GenerateMb(n, h) ==
  /\ Sender[h] = n /\ h \notin made /\ outbox[n] = {}
  /\ made' = made \cup {h}
  /\ am' = [am EXCEPT ![n] = AddMicroblock(@, h, n)]
  /\ outbox' = [outbox EXCEPT ![n] = {h}]
  /\ UNCHANGED <<receivedMBs, mbs, acks, stables, proposals>>

MbTo(S, h) == {[to |-> m, hash |-> h, IsForward |-> FALSE] : m \in S}

\* Whom observePool sends a microblock to: its group, a random sample, or all.
Targets(h) ==
  IF BroadcastByGroup THEN {Group[GroupId[h]]}
  ELSE IF BroadcastBySample THEN {S \in SUBSET Node : Cardinality(S) = Threshold}
  ELSE {Node}

\* The second half of observePool, without load balancing.
BroadcastMb(n, h) ==
  /\ ~LoadBalance
  /\ h \in outbox[n]
  /\ \E S \in Targets(h) : mbs' = mbs \cup MbTo(S \ {n}, h)
  /\ outbox' = [outbox EXCEPT ![n] = {}]
  /\ UNCHANGED <<am, receivedMBs, made, acks, stables, proposals>>

\* With load balancing the loadbalance goroutine takes the microblock: a loaded
\* replica may hand it to one that is not, everybody may broadcast it.
LoadBalanceMb(n, h) ==
  /\ LoadBalance
  /\ h \in outbox[n]
  /\ \/ mbs' = mbs \cup MbTo(Node \ {n}, h)
     \/ /\ n \in Loaded
        /\ \E pick \in Node \ Loaded :
             mbs' = mbs \cup {[to |-> pick, hash |-> h, IsForward |-> TRUE]}
  /\ outbox' = [outbox EXCEPT ![n] = {}]
  /\ UNCHANGED <<am, receivedMBs, made, acks, stables, proposals>>

-----------------------------------------------------------------------------
StableTo(S, h, nodes) == {[to |-> m, hash |-> h, AckNodeList |-> nodes] : m \in S}

\* processAcks on replica n whose mempool is m: the mempool after the ack.
ProcessAcks(m, h, node, outGroup) == IF IsStable(m, h) THEN m ELSE AddAck(m, h, node, outGroup)

\* The Stable messages that AddAck broadcasts.
StablesOf(m, n, h, node, outGroup) ==
  IF ~IsStable(m, h) /\ AckCompletes(m, h, node, outGroup)
    THEN StableTo(Node \ {n}, h, AckNodeList(m, h, node))
    ELSE {}

\* Mutants of HandleForward: the microblock is acked but not stored; it is lost.
HandleForwardAcks(n, m) ==
  /\ LoadBalance /\ m.IsForward
  /\ mbs' = (mbs \ {m}) \cup MbTo(Node \ {n}, m.hash)
  /\ acks' = acks \cup {[Receiver |-> n, to |-> Sender[m.hash], hash |-> m.hash]}
  /\ UNCHANGED <<am, receivedMBs, made, outbox, stables, proposals>>

HandleForwardDrops(n, m) ==
  /\ LoadBalance /\ m.IsForward
  /\ mbs' = mbs \ {m}
  /\ UNCHANGED <<am, receivedMBs, made, outbox, acks, stables, proposals>>

\* HandleMicroblock, load balancing: a forwarded microblock is broadcast for its
\* sender, and not stored here.
HandleForward(n, m) ==
  /\ LoadBalance /\ m.IsForward
  /\ mbs' = (mbs \ {m}) \cup MbTo(Node \ {n}, m.hash)
  /\ UNCHANGED <<am, receivedMBs, made, outbox, acks, stables, proposals>>

\* Mutant of HandleMicroblock: it is acked and not stored.
HandleMicroblockUnstored(n, m) ==
  /\ ~m.IsForward /\ Sender[m.hash] # n
  /\ mbs' = mbs \ {m}
  /\ IF m.hash \in receivedMBs[n]
       THEN UNCHANGED <<receivedMBs, acks>>
       ELSE /\ receivedMBs' = [receivedMBs EXCEPT ![n] = @ \cup {m.hash}]
            /\ acks' = acks \cup {[Receiver |-> n, to |-> Sender[m.hash], hash |-> m.hash]}
  /\ UNCHANGED <<am, made, outbox, stables, proposals>>

\* HandleMicroblock of somebody else's microblock: store it and ack it, unless
\* it was received before.  The ack that is sent is a fresh one, without the
\* OutGroup mark.
HandleMicroblock(n, m) ==
  /\ ~m.IsForward /\ Sender[m.hash] # n
  /\ mbs' = mbs \ {m}
  /\ IF m.hash \in receivedMBs[n]
       THEN UNCHANGED <<am, receivedMBs, acks>>
       ELSE /\ receivedMBs' = [receivedMBs EXCEPT ![n] = @ \cup {m.hash}]
            /\ am' = [am EXCEPT ![n] = AddMicroblock(@, m.hash, Sender[m.hash])]
            /\ acks' = acks \cup {[Receiver |-> n, to |-> Sender[m.hash], hash |-> m.hash]}
  /\ UNCHANGED <<made, outbox, stables, proposals>>

\* HandleMicroblock of the replica's own microblock, which comes back when a
\* replica it was forwarded to broadcasts it: the replica acks to itself.
HandleOwnMicroblock(n, m) ==
  LET h == m.hash
      stored == AddMicroblock(am[n], h, n)
      outGroup == BroadcastByGroup /\ n \notin Group[GroupId[h]]
  IN  /\ ~m.IsForward /\ Sender[h] = n
      /\ mbs' = mbs \ {m}
      /\ IF h \in receivedMBs[n]
           THEN UNCHANGED <<am, receivedMBs, stables>>
           ELSE /\ receivedMBs' = [receivedMBs EXCEPT ![n] = @ \cup {h}]
                /\ am' = [am EXCEPT ![n] = ProcessAcks(stored, h, n, outGroup)]
                /\ stables' = stables \cup StablesOf(stored, n, h, n, outGroup)
      /\ UNCHANGED <<made, outbox, acks, proposals>>

HandleAck(n, m) ==
  /\ acks' = acks \ {m}
  /\ am' = [am EXCEPT ![n] = ProcessAcks(@, m.hash, m.Receiver, FALSE)]
  /\ stables' = stables \cup StablesOf(am[n], n, m.hash, m.Receiver, FALSE)
  /\ UNCHANGED <<receivedMBs, made, outbox, mbs, proposals>>

HandleStable(n, m) ==
  /\ stables' = stables \ {m}
  /\ am' = [am EXCEPT ![n] = AddStable(@, m.hash, m.AckNodeList)]
  /\ UNCHANGED <<receivedMBs, made, outbox, mbs, acks, proposals>>

\* proposeBlock by the leader of some view.  An empty payload is proposed too;
\* it touches no mempool and is left out.
ProposeBlock(n) ==
  \E list \in Arrangements(am[n].stableMicroblocks) :
     /\ Payload(list) # << >>
     /\ am' = [am EXCEPT ![n] = GeneratePayload(@, list)]
     /\ proposals' = proposals \cup
          {[to |-> m, HashList |-> Hashes(Payload(list))] : m \in Node \ {n}}
     /\ UNCHANGED <<receivedMBs, made, outbox, mbs, acks, stables>>

HandleProposal(n, m) ==
  /\ proposals' = proposals \ {m}
  /\ am' = [am EXCEPT ![n] = FetchMB(@, m.HashList)]
  /\ UNCHANGED <<receivedMBs, made, outbox, mbs, acks, stables>>

-----------------------------------------------------------------------------
\* One iteration of the handle() loop of replica n.
Handle(n) ==
  \/ \E m \in mbs : m.to = n /\ HandleForward(n, m)
  \/ \E m \in mbs : m.to = n /\ HandleMicroblock(n, m)
  \/ \E m \in mbs : m.to = n /\ HandleOwnMicroblock(n, m)
  \/ \E m \in acks : m.to = n /\ HandleAck(n, m)
  \/ \E m \in stables : m.to = n /\ HandleStable(n, m)
  \/ \E m \in proposals : m.to = n /\ HandleProposal(n, m)

Broadcast(n) == \E h \in Hash : BroadcastMb(n, h) \/ LoadBalanceMb(n, h)

Next ==
  \E n \in Node :
     \/ \E h \in Hash : GenerateMb(n, h)
     \/ Broadcast(n)
     \/ Handle(n)
     \/ ProposeBlock(n)

Spec == Init /\ [][Next]_vars

\* handle() loops for ever over MessageChan, and a goroutine of observePool
\* refills the broadcast tokens every three seconds.
Fairness == \A n \in Node : WF_vars(Handle(n)) /\ WF_vars(Broadcast(n))

FairSpec == Spec /\ Fairness

-----------------------------------------------------------------------------
TypeOK ==
  /\ am \in [Node -> AckMemType]
  /\ receivedMBs \in [Node -> SUBSET Hash]
  /\ made \in SUBSET Hash
  /\ outbox \in [Node -> SUBSET Hash]
  /\ mbs \subseteq MbMsg
  /\ acks \subseteq AckMsg
  /\ stables \subseteq StableMsg
  /\ proposals \subseteq ProposalMsg

\* The replicas that hold the transactions of h.
Holders(h) == {n \in Node : am[n].microblockMap[h] = "real"}

\* A microblock that some replica counts as stable, and may therefore propose,
\* is held by at least Q replicas.
Availability ==
  \A n \in Node : \A h \in am[n].stableMBs : Cardinality(Holders(h)) >= Q

\* config.go: Q is "the number of acks to be considered stable".  A Stable
\* message names at least Q replicas that acked.
QAcks == \A m \in stables : Cardinality(m.AckNodeList) >= Q

\* Every replica named in a Stable message, in flight or saved, holds the
\* microblock: these are the replicas the executor would ask for it.
CertificateSound ==
  /\ \A m \in stables : m.AckNodeList \subseteq Holders(m.hash)
  /\ \A n \in Node, h \in Hash : am[n].StableBuffer[h] \subseteq Holders(h)

\* The entry that the queue or the map of n has for h is a fake one.
HasFake(n, h) == am[n].microblockMap[h] = "fake" \/ h \in FakeListed(am[n])

\* A fake microblock never names the replica that built it among its holders.
\* The executor (src/execute/execute.go) requests the transactions of a fake
\* microblock only when its GenerateNodeList names the replica itself: it never
\* does.
NeverRequested ==
  \A n \in Node, h \in Hash : HasFake(n, h) => n \notin am[n].StableBuffer[h]

\* An ack never overtakes the microblock it is for: the buffer of early acks
\* stays empty, because observePool stores a microblock before it sends it and
\* the sender forgets it only after it is stable.
NoEarlyAck == \A n \in Node, h \in Hash : am[n].ackBuffer[h] = {}

\* Every microblock that is built settles everywhere: each replica comes to
\* know it and, whatever overtakes what, does not keep it pending for ever.
Settles ==
  \A h \in Hash, n \in Node :
     h \in made ~> (h \in Known(am[n]) /\ h \notin am[n].pendingMicroblocks)
=============================================================================
