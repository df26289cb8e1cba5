------------------------ MODULE DisseminationProofs ------------------------
(***************************************************************************)
(* Without load balancing, a microblock that some replica counts as stable *)
(* is held by at least Q replicas, for any number of replicas and          *)
(* microblocks, any broadcast mode and any order of the messages.  Every   *)
(* action keeps the invariant of DisseminationLemmas.                      *)
(***************************************************************************)
EXTENDS DisseminationLemmas

-----------------------------------------------------------------------------
(* One lemma per action.                                                   *)

\* observePool builds and stores a microblock.
LEMMA GenerateMbStep ==
  ASSUME IInv, NEW n \in Node, NEW h \in Hash, GenerateMb(n, h)
  PROVE  IInv'
<1>1. /\ Sender[h] = n /\ h \notin made /\ made' = made \cup {h}
      /\ am' = [am EXCEPT ![n] = AddMicroblock(@, h, n)]
      /\ outbox' = [outbox EXCEPT ![n] = {h}]
      /\ UNCHANGED <<receivedMBs, mbs, acks, stables, proposals>>
  BY DEF GenerateMb
<1>2. h \notin Known(am[n])
  BY <1>1 DEF IInv, OnlyMade
<1>3. /\ LocalStep(n, AddMicroblock(am[n], h, n))
      /\ n \in Holders(h)'
      /\ CountsHolders' /\ SavedSound' /\ FakesForeign'
      /\ am'[n].ackMap = [am[n].ackMap EXCEPT ![h] = {n}]
      /\ \A k \in Node : Known(am[k])' \subseteq made'
      /\ \A k \in Node : am[k].pendingMicroblocks \cup am[k].stableMBs \subseteq
                           am'[k].pendingMicroblocks \cup am'[k].stableMBs
      /\ h \in am'[n].pendingMicroblocks
  <2>1. Stores(n, h)
    BY <1>1 DEF Stores, IInv, TypeOK
  <2>2. StoredWell(n, h)
    BY <2>1, StoreStep
  <2> QED BY <1>1, <1>2, <2>2 DEF StoredWell
<1>4. /\ am' \in [Node -> AckMemType] /\ Consistent' /\ NoEarlyAck'
      /\ \A k \in Node \ {n} : am'[k] = am[k]
      /\ \A g \in Hash : Holders(g) \subseteq Holders(g)'
      /\ \A m \in stables : Sound(m)'
      /\ \A m \in proposals : Proposable(m)'
      /\ \A a \in acks : a.to # n => Fresh(a)'
  BY <1>3, Frame
<1>5. TypeOK'
  BY <1>1, <1>4, SMTT(30) DEF IInv, TypeOK
<1>6. OnlyMade'
  <2>1. OnlyMade /\ made \in SUBSET Hash /\ outbox \in [Node -> SUBSET Hash]
    BY DEF IInv, TypeOK
  <2>2. ASSUME NEW g \in made'
        PROVE  /\ am'[Sender[g]].microblockMap[g] = "real"
               /\ g \in am'[Sender[g]].pendingMicroblocks \cup am'[Sender[g]].stableMBs
    <3>1. g \in Hash /\ Sender[g] \in Node
      BY <1>1, <2>1, SenderAssumption
    <3>2. CASE g = h
      BY <1>1, <1>3, <3>2 DEF Holders
    <3>3. CASE g \in made
      <4>1. Sender[g] \in Holders(g)
        BY <2>1, <3>1, <3>3 DEF OnlyMade, Holders
      <4>2. Sender[g] \in Holders(g)'
        BY <1>4, <3>1, <4>1
      <4> QED BY <1>3, <2>1, <3>1, <3>3, <4>2 DEF OnlyMade, Holders
    <3> QED BY <1>1, <3>2, <3>3
  <2>3. \A k \in Node : \A g \in outbox'[k] : g \in made' /\ Sender[g] = k
    BY <1>1, <2>1 DEF OnlyMade
  <2>4. \A m \in mbs' : m.hash \in made' /\ m.to # Sender[m.hash] /\ ~m.IsForward
    BY <1>1, <2>1 DEF OnlyMade
  <2> QED BY <1>3, <2>2, <2>3, <2>4 DEF OnlyMade
<1>7. AcksFresh'
  <2> SUFFICES ASSUME NEW a \in acks, a.to = n PROVE Fresh(a)'
    BY <1>1, <1>4 DEF AcksFresh
  <2>1. Fresh(a) /\ a.hash \in Hash /\ a.Receiver \in Node
    BY DEF IInv, AcksFresh, TypeOK, AckMsg
  <2>2. a.hash # h
    <3>1. a.hash \in Known(am[a.Receiver])
      BY <2>1 DEF Fresh, Holders, Known
    <3> QED BY <1>1, <2>1, <3>1 DEF IInv, OnlyMade
  <2>3. am'[n].ackMap[a.hash] = am[n].ackMap[a.hash]
    BY <1>3, <2>2
  <2>4. a.Receiver \in Holders(a.hash)'
    BY <1>4, <2>1 DEF Fresh
  <2> QED BY <1>1, <2>1, <2>3, <2>4 DEF Fresh
<1>8. StablesSound' /\ ProposalsStable'
  BY <1>1, <1>4 DEF StablesSound, ProposalsStable
<1> QED BY <1>3, <1>4, <1>5, <1>6, <1>7, <1>8 DEF IInv

\* A replica receives somebody else's microblock, stores it and acks it.
LEMMA HandleMicroblockStep ==
  ASSUME IInv, NEW n \in Node, NEW m \in mbs, m.to = n, HandleMicroblock(n, m)
  PROVE  IInv'
<1> DEFINE h == m.hash
           s == Sender[h]
           ack == [Receiver |-> n, to |-> s, hash |-> h]
<1>1. h \in Hash /\ s \in Node /\ s # n /\ mbs' = mbs \ {m}
      /\ UNCHANGED <<made, outbox, stables, proposals>>
  BY SenderAssumption DEF HandleMicroblock, IInv, TypeOK, MbMsg
<1>2. h \in made /\ am[s].microblockMap[h] = "real" /\ OnlyMade
  BY DEF IInv, OnlyMade
<1>3. CASE h \in receivedMBs[n]
  <2>1. UNCHANGED <<am, receivedMBs, acks>>
    BY <1>3 DEF HandleMicroblock
  <2>2. TypeOK'
    BY <1>1, <2>1 DEF IInv, TypeOK
  <2>3. OnlyMade'
    BY <1>1, <1>2, <2>1 DEF OnlyMade, Known
  <2>4. Quiet
    BY <1>1, <2>1 DEF Quiet
  <2> QED BY <2>2, <2>3, <2>4, QuietStep
<1>4. CASE h \notin receivedMBs[n]
  <2>1. /\ receivedMBs' = [receivedMBs EXCEPT ![n] = @ \cup {h}]
        /\ am' = [am EXCEPT ![n] = AddMicroblock(@, h, s)]
        /\ acks' = acks \cup {ack}
    BY <1>4 DEF HandleMicroblock
  <2>2. receivedMBs \in [Node -> SUBSET Hash] /\ \A k \in Node : receivedMBs[k] \subseteq receivedMBs'[k]
    BY <2>1 DEF IInv, TypeOK
  <2>3. made' = made \cup {h}
    BY <1>1, <1>2
  <2> HIDE DEF h, s
  <2>4. /\ LocalStep(n, AddMicroblock(am[n], h, s))
        /\ n \in Holders(h)'
        /\ CountsHolders' /\ SavedSound' /\ FakesForeign'
        /\ am'[n].ackMap = IF h \in Known(am[n]) THEN am[n].ackMap ELSE [am[n].ackMap EXCEPT ![h] = {s}]
        /\ \A k \in Node : Known(am[k])' \subseteq made'
        /\ \A k \in Node : am[k].pendingMicroblocks \cup am[k].stableMBs \subseteq
                             am'[k].pendingMicroblocks \cup am'[k].stableMBs
    <3>1. Stores(n, h)
      BY <1>1, <1>2, <2>1, <2>2, <2>3 DEF Stores, s
    <3>2. StoredWell(n, h)
      BY <1>1, <3>1, StoreStep
    <3> QED BY <3>2 DEF StoredWell, s
  <2>5. /\ am' \in [Node -> AckMemType] /\ Consistent' /\ NoEarlyAck'
        /\ \A k \in Node \ {n} : am'[k] = am[k]
        /\ \A g \in Hash : Holders(g) \subseteq Holders(g)'
        /\ \A x \in stables : Sound(x)'
        /\ \A x \in proposals : Proposable(x)'
        /\ \A a \in acks : a.to # n => Fresh(a)'
    BY <2>4, Frame
  <2>6. TypeOK'
    <3>1. ack \in AckMsg
      BY <1>1 DEF AckMsg
    <3>2. receivedMBs' \in [Node -> SUBSET Hash]
      BY <1>1, <2>1, <2>2
    <3> HIDE DEF ack
    <3> QED BY <1>1, <2>1, <2>5, <3>1, <3>2 DEF IInv, TypeOK
  <2>7. OnlyMade'
    <3>1. ASSUME NEW g \in made
          PROVE  /\ am'[Sender[g]].microblockMap[g] = "real"
                 /\ g \in am'[Sender[g]].pendingMicroblocks \cup am'[Sender[g]].stableMBs
      <4>1. g \in Hash /\ Sender[g] \in Node
        BY SenderAssumption DEF IInv, TypeOK
      <4>2. Sender[g] \in Holders(g)
        BY <1>2, <4>1 DEF OnlyMade, Holders
      <4>3. Sender[g] \in Holders(g)'
        BY <2>5, <4>1, <4>2
      <4> QED BY <1>2, <2>4, <4>1, <4>3 DEF OnlyMade, Holders
    <3>2. \A x \in mbs' : x.hash \in made' /\ x.to # Sender[x.hash] /\ ~x.IsForward
      BY <1>1, <1>2 DEF OnlyMade
    <3>3. \A k \in Node : \A g \in outbox'[k] : g \in made' /\ Sender[g] = k
      BY <1>1, <1>2 DEF OnlyMade
    <3> QED BY <1>1, <2>4, <3>1, <3>2, <3>3 DEF OnlyMade
  <2>8. AcksFresh'
    <3>1. Fresh(ack)'
      <4>1. am'[s] = am[s] /\ Counts(s, h)
        BY <1>1, <2>5 DEF IInv, CountsHolders
      <4>2. n \notin am'[s].ackMap[h]
        BY <1>1, <1>4, <4>1 DEF Counts, s
      <4>3. h \in receivedMBs'[n]
        BY <2>1, <2>2
      <4> QED BY <1>1, <2>4, <4>2, <4>3 DEF Fresh, s
    <3>2. ASSUME NEW a \in acks, a.to = n PROVE Fresh(a)'
      <4>1. Fresh(a) /\ a.hash \in Hash /\ a.Receiver \in Node
        BY DEF IInv, AcksFresh, TypeOK, AckMsg
      <4>2. a.hash # h
        BY <1>1, <3>2, <4>1 DEF Fresh, s
      <4>3. am'[n].ackMap[a.hash] = am[n].ackMap[a.hash]
        BY <2>4, <4>2
      <4>4. a.Receiver \in Holders(a.hash)' /\ a.hash \in receivedMBs'[a.Receiver]
        BY <2>2, <2>5, <4>1 DEF Fresh
      <4> QED BY <3>2, <4>1, <4>3, <4>4 DEF Fresh
    <3> HIDE DEF ack
    <3> QED BY <2>1, <2>5, <3>1, <3>2 DEF AcksFresh
  <2>9. StablesSound' /\ ProposalsStable'
    BY <1>1, <2>5 DEF StablesSound, ProposalsStable
  <2> QED BY <2>4, <2>5, <2>6, <2>7, <2>8, <2>9 DEF IInv
<1> QED BY <1>3, <1>4

\* The sender of a microblock counts an ack, and may complete the microblock.
LEMMA HandleAckStep ==
  ASSUME IInv, NEW n \in Node, NEW a \in acks, a.to = n, HandleAck(n, a)
  PROVE  IInv'
<1> DEFINE m == am[n]
           h == a.hash
           k == a.Receiver
           m2 == AddAck(m, h, k, FALSE)
           A == AckNodeList(m, h, k)
<1>1. /\ acks' = acks \ {a} /\ UNCHANGED <<receivedMBs, made, outbox, mbs, proposals>>
      /\ am' = [am EXCEPT ![n] = ProcessAcks(@, h, k, FALSE)]
      /\ stables' = stables \cup StablesOf(m, n, h, k, FALSE)
  BY DEF HandleAck
<1>2. /\ h \in Hash /\ k \in Node /\ Fresh(a) /\ am \in [Node -> AckMemType] /\ m \in AckMemType
      /\ Ok(m) /\ acks \subseteq AckMsg
  BY DEF IInv, TypeOK, AckMsg, AcksFresh, Consistent
<1>3. n = Sender[h] /\ h \in made /\ h \in m.pendingMicroblocks \cup m.stableMBs
  <2>1. h \in Known(am[k])
    BY <1>2 DEF Fresh, Holders, Known
  <2>2. h \in made
    BY <1>2, <2>1 DEF IInv, OnlyMade
  <2> QED BY <1>2, <2>2 DEF Fresh, IInv, OnlyMade
<1>4. CASE h \in m.stableMBs
  <2>1. am' = am /\ stables' = stables
    BY <1>1, <1>2, <1>4 DEF ProcessAcks, StablesOf, IsStable
  <2>2. TypeOK'
    BY <1>1, <2>1 DEF IInv, TypeOK
  <2>3. OnlyMade'
    BY <1>1, <2>1 DEF IInv, OnlyMade, Known
  <2>4. Quiet
    BY <1>1, <2>1 DEF Quiet
  <2> QED BY <2>2, <2>3, <2>4, QuietStep
<1>5. CASE h \notin m.stableMBs
  <2>1. h \in m.pendingMicroblocks
    BY <1>3, <1>5
  <2>2. am' = [am EXCEPT ![n] = m2]
    BY <1>1, <1>5 DEF ProcessAcks, IsStable
  <2>3. Ok(m2)
    BY <1>2, AddAckOk
  <2>4. /\ m2.microblockMap = m.microblockMap
        /\ m.ackNum[h] + 1 >= Q => StableEffect(m, m2, h, A, FALSE)
        /\ ~ (m.ackNum[h] + 1 >= Q) =>
             /\ m2.ackBuffer = m.ackBuffer /\ m2.StableBuffer = m.StableBuffer
             /\ m2.stableMBs = m.stableMBs /\ m2.stableMicroblocks = m.stableMicroblocks
             /\ m2.pendingMicroblocks = m.pendingMicroblocks
             /\ m2.ackMap = [m.ackMap EXCEPT ![h] = @ \cup {k}]
             /\ m2.ackNum = [m.ackNum EXCEPT ![h] = @ + 1]
        /\ AckCompletes(m, h, k, FALSE) <=> m.ackNum[h] + 1 >= Q
    <3> HIDE DEF m, h, k
    <3> QED BY <1>2, <2>1, AddAckEffect
  <2> HIDE DEF m2
  <2>5. LocalStep(n, m2)
    <3>1. Keeps(m, m2)
      BY <2>4 DEF Keeps, StableEffect
    <3> QED BY <1>1, <2>2, <2>3, <3>1 DEF LocalStep
  <2>6. /\ am' \in [Node -> AckMemType] /\ Consistent' /\ NoEarlyAck'
        /\ am'[n] = m2
        /\ \A g \in Hash : Holders(g) \subseteq Holders(g)'
        /\ \A x \in Node : am[x].stableMBs \subseteq am'[x].stableMBs
        /\ (\A g \in Hash : Counts(n, g)') => CountsHolders'
        /\ (\A g \in Hash : Saved(n, g)') => SavedSound'
        /\ (\A g \in Hash : Foreign(n, g)') => FakesForeign'
        /\ \A x \in stables : Sound(x)'
        /\ \A x \in proposals : Proposable(x)'
        /\ \A x \in acks : x.to # n => Fresh(x)'
    BY <2>5, Frame
  <2>7. /\ Counts(n, h) /\ m.ackMap[h] \in SUBSET Node /\ A = m.ackMap[h] \cup {k}
        /\ A \in SUBSET Node /\ A \subseteq Holders(h) /\ Cardinality(A) = m.ackNum[h] + 1
    <3>1. Counts(n, h) /\ m.ackMap[h] \in SUBSET Node /\ A = m.ackMap[h] \cup {k}
      BY <1>2 DEF IInv, CountsHolders, AckMemType, AckNodeList
    <3>2. IsFiniteSet(m.ackMap[h]) /\ k \notin m.ackMap[h]
      BY <1>2, <3>1, NodeAssumption, FS_Subset DEF Fresh
    <3>3. Cardinality(A) = Cardinality(m.ackMap[h]) + 1
      BY <3>1, <3>2, FS_AddElement
    <3> QED BY <1>2, <3>1, <3>3 DEF Counts, Fresh
  <2> HIDE DEF A
  <2>8. OnlyMade'
    <3>1. Known(m2) \subseteq made
      <4>1. Known(m) \subseteq made
        BY DEF IInv, OnlyMade
      <4>2. Known(m2) = Known(m)
        BY <2>4 DEF Known
      <4> QED BY <4>1, <4>2
    <3>2. m.pendingMicroblocks \cup m.stableMBs \subseteq m2.pendingMicroblocks \cup m2.stableMBs
      BY <2>4 DEF StableEffect
    <3>3. \A g \in made : Sender[g] = n => g \in m2.pendingMicroblocks \cup m2.stableMBs
      BY <3>2 DEF IInv, OnlyMade
    <3> QED BY <1>1, <2>5, <3>1, <3>3, OnlyMadeStep
  <2>9. ProposalsStable'
    BY <1>1, <2>6 DEF ProposalsStable
  <2>10. AcksFresh'
    <3> SUFFICES ASSUME NEW b \in acks, b # a, b.to = n PROVE Fresh(b)'
      BY <1>1, <2>6 DEF AcksFresh
    <3>1. Fresh(b) /\ b.hash \in Hash /\ b.Receiver \in Node
      BY <1>2 DEF IInv, AcksFresh, AckMsg
    <3>2. b.Receiver \notin m2.ackMap[b.hash]
      <4>1. b.Receiver \notin m.ackMap[b.hash]
        BY <3>1 DEF Fresh
      <4>2. ~ (b.hash = h /\ b.Receiver = k)
        BY <1>2 DEF AckMsg
      <4>3. CASE m.ackNum[h] + 1 >= Q
        BY <1>2, <2>4, <3>1, <4>1, <4>3 DEF StableEffect, AckMemType
      <4>4. CASE ~ (m.ackNum[h] + 1 >= Q)
        <5>1. m2.ackMap = [m.ackMap EXCEPT ![h] = @ \cup {k}] /\ m.ackMap \in [Hash -> SUBSET Node]
          BY <1>2, <2>4, <4>4 DEF AckMemType
        <5>2. CASE b.hash = h
          <6>1. m2.ackMap[h] = m.ackMap[h] \cup {k}
            BY <3>1, <5>1, <5>2
          <6> QED BY <4>1, <4>2, <5>2, <6>1
        <5>3. CASE b.hash # h
          BY <3>1, <4>1, <5>1, <5>3
        <5> QED BY <5>2, <5>3
      <4> QED BY <4>3, <4>4
    <3>3. b.Receiver \in Holders(b.hash)'
      BY <2>6, <3>1 DEF Fresh
    <3> QED BY <1>1, <2>6, <3>1, <3>2, <3>3 DEF Fresh
  <2>11. CASE m.ackNum[h] + 1 >= Q
    <3> DEFINE new == StableTo(Node \ {n}, h, A)
    <3>1. stables' = stables \cup new
      BY <1>1, <1>5, <2>4, <2>11 DEF StablesOf, IsStable, A
    <3>2. PICK fake \in BOOLEAN : ~fake
      OBVIOUS
    <3>3. StableEffect(m, m2, h, A, fake)
      BY <2>4, <2>11, <3>2
    <3>4. Completes(n, m2, h, A, fake)
      BY <1>3, <1>5, <2>4, <2>5, <2>7, <2>11, <3>2, <3>3 DEF Completes
    <3>5. CountsHolders' /\ SavedSound' /\ FakesForeign'
      <4> HIDE DEF h
      <4> QED BY <1>2, <2>7, <3>4, CompletesStep
    <3>6. h \in am'[n].stableMBs
      BY <2>6, <3>3 DEF StableEffect
    <3>7. ASSUME NEW x \in new PROVE Sound(x)' /\ x \in StableMsg
      <4>1. PICK t \in Node \ {n} : x = [to |-> t, hash |-> h, AckNodeList |-> A]
        BY DEF StableTo
      <4>2. x.to = t /\ x.hash = h /\ x.AckNodeList = A /\ x \in StableMsg
        BY <1>2, <2>7, <4>1 DEF StableMsg
      <4> QED BY <1>2, <1>3, <2>6, <2>7, <2>11, <3>6, <4>2 DEF Sound
    <3> HIDE DEF new
    <3>8. TypeOK'
      BY <1>1, <2>6, <3>1, <3>7 DEF IInv, TypeOK
    <3>9. StablesSound'
      BY <2>6, <3>1, <3>7 DEF StablesSound
    <3> QED BY <2>6, <2>8, <2>9, <2>10, <3>5, <3>8, <3>9 DEF IInv
  <2>12. CASE ~ (m.ackNum[h] + 1 >= Q)
    <3>1. stables' = stables
      BY <1>1, <2>4, <2>12 DEF StablesOf
    <3>2. TypeOK'
      BY <1>1, <2>6, <3>1 DEF IInv, TypeOK
    <3>3. StablesSound'
      BY <2>6, <3>1 DEF StablesSound
    <3>0. /\ am'[n].ackMap = [m.ackMap EXCEPT ![h] = @ \cup {k}] /\ m.ackMap \in [Hash -> SUBSET Node]
          /\ am'[n].ackNum = [m.ackNum EXCEPT ![h] = @ + 1] /\ m.ackNum \in [Hash -> Nat]
      BY <1>2, <2>4, <2>6, <2>12 DEF AckMemType
    <3>4. ASSUME NEW g \in Hash PROVE Counts(n, g)'
      <4>1. Counts(n, g) /\ Holders(g) \subseteq Holders(g)' /\ m.ackMap[g] \subseteq Node
        BY <1>2, <2>6 DEF IInv, CountsHolders, AckMemType
      <4>2. CASE g = h
        <5>1. am'[n].ackMap[g] = A /\ am'[n].ackNum[g] = m.ackNum[h] + 1
          BY <1>2, <2>7, <3>0, <4>2
        <5>2. \A x \in A : x = Sender[h] \/ h \in receivedMBs[x]
          BY <1>2, <2>7 DEF Counts, Fresh
        <5> QED BY <1>1, <2>7, <4>1, <4>2, <5>1, <5>2 DEF Counts
      <4>3. CASE g # h
        <5>1. am'[n].ackMap[g] = m.ackMap[g] /\ am'[n].ackNum[g] = m.ackNum[g]
          BY <1>2, <3>0, <4>3
        <5> QED BY <1>1, <4>1, <5>1 DEF Counts
      <4> QED BY <4>2, <4>3
    <3>5. ASSUME NEW g \in Hash PROVE Saved(n, g)'
      <4>1. Saved(n, g) /\ Holders(g) \subseteq Holders(g)' /\ Sender[g] \in Node
        BY <2>6, SenderAssumption DEF IInv, SavedSound
      <4> QED BY <2>4, <2>6, <2>12, <4>1 DEF Saved
    <3>6. ASSUME NEW g \in Hash PROVE Foreign(n, g)'
      <4>1. Foreign(n, g) /\ FakeListed(m2) = FakeListed(m)
        BY <2>4, <2>12 DEF IInv, FakesForeign, FakeListed
      <4> QED BY <2>4, <2>6, <2>12, <4>1 DEF Foreign, HasFake
    <3> QED BY <2>6, <2>8, <2>9, <2>10, <3>2, <3>3, <3>4, <3>5, <3>6 DEF IInv
  <2> QED BY <2>11, <2>12
<1> QED BY <1>4, <1>5

\* A leader takes a payload out of its mempool and proposes it.
LEMMA ProposeBlockStep ==
  ASSUME IInv, NEW n \in Node, ProposeBlock(n)
  PROVE  IInv'
<1> DEFINE m == am[n]
<1>1. PICK list \in Arrangements(m.stableMicroblocks) :
        /\ am' = [am EXCEPT ![n] = GeneratePayload(@, list)]
        /\ proposals' = proposals \cup
             {[to |-> k, HashList |-> Hashes(Payload(list))] : k \in Node \ {n}}
        /\ UNCHANGED <<receivedMBs, made, outbox, mbs, acks, stables>>
  BY DEF ProposeBlock
<1> DEFINE m2 == GeneratePayload(m, list)
           ids == Hashes(Payload(list))
           new == {[to |-> k, HashList |-> ids] : k \in Node \ {n}}
<1>2. Ok(m) /\ m \in AckMemType
  BY DEF IInv, Consistent, TypeOK
<1>3. Ok(m2)
  BY <1>2, GeneratePayloadOk
<1>4. /\ ids \subseteq m.stableMBs
      /\ FakeListed(m2) \subseteq FakeListed(m)
      /\ m2.microblockMap = m.microblockMap /\ m2.ackBuffer = m.ackBuffer
      /\ m2.StableBuffer = m.StableBuffer /\ m2.stableMBs = m.stableMBs
      /\ m2.pendingMicroblocks = m.pendingMicroblocks
      /\ m2.ackMap = m.ackMap /\ m2.ackNum = m.ackNum
  BY <1>2, GeneratePayloadEffect
<1>5. am' = [am EXCEPT ![n] = m2] /\ proposals' = proposals \cup new
  BY <1>1
<1> HIDE DEF m2, ids
<1>6. Shrinks(m, m2)
  BY <1>4 DEF Shrinks
<1>7. LocalStep(n, m2) /\ CountsHolders' /\ SavedSound' /\ FakesForeign' /\ AcksFresh'
  BY <1>1, <1>3, <1>5, <1>6, ShrinksStep
<1>8. /\ am' \in [Node -> AckMemType] /\ Consistent' /\ NoEarlyAck'
      /\ \A k \in Node : am[k].stableMBs \subseteq am'[k].stableMBs
      /\ \A x \in stables : Sound(x)'
      /\ \A x \in proposals : Proposable(x)'
  BY <1>7, Frame
<1>9. ASSUME NEW x \in new PROVE x \in ProposalMsg /\ Proposable(x)'
  <2>1. PICK k \in Node \ {n} : x = [to |-> k, HashList |-> ids]
    OBVIOUS
  <2>2. ids \subseteq Hash
    BY <1>2, <1>4 DEF AckMemType
  <2>3. x.HashList = ids /\ x \in ProposalMsg
    BY <2>1, <2>2 DEF ProposalMsg
  <2>4. ASSUME NEW h \in ids PROVE h \in am'[Sender[h]].stableMBs
    <3>1. h \in Hash /\ h \in m.stableMBs /\ Saved(n, h) /\ Sender[h] \in Node
      BY <1>4, <2>2, SenderAssumption DEF IInv, SavedSound
    <3> QED BY <1>8, <3>1 DEF Saved
  <2> QED BY <2>3, <2>4 DEF Proposable
<1>10. OnlyMade'
  <2>1. Known(m2) = Known(m)
    BY <1>4 DEF Known
  <2>2. Known(m2) \subseteq made
    BY <2>1 DEF IInv, OnlyMade
  <2>3. \A h \in made : Sender[h] = n => h \in m2.pendingMicroblocks \cup m2.stableMBs
    BY <1>4 DEF IInv, OnlyMade
  <2> QED BY <1>1, <1>7, <2>2, <2>3, OnlyMadeStep
<1> HIDE DEF new
<1>11. TypeOK'
  BY <1>1, <1>5, <1>8, <1>9 DEF IInv, TypeOK
<1>12. StablesSound'
  BY <1>1, <1>8 DEF StablesSound
<1>13. ProposalsStable'
  BY <1>5, <1>8, <1>9 DEF ProposalsStable
<1> QED BY <1>7, <1>8, <1>10, <1>11, <1>12, <1>13 DEF IInv

\* A replica fetches the microblocks of a proposal.
LEMMA HandleProposalStep ==
  ASSUME IInv, NEW n \in Node, NEW p \in proposals, p.to = n, HandleProposal(n, p)
  PROVE  IInv'
<1> DEFINE m == am[n]
           ids == p.HashList
           m2 == FetchMB(m, ids)
<1>1. /\ proposals' = proposals \ {p} /\ am' = [am EXCEPT ![n] = m2]
      /\ UNCHANGED <<receivedMBs, made, outbox, mbs, acks, stables>>
  BY DEF HandleProposal
<1>2. Ok(m) /\ m \in AckMemType /\ ids \in SUBSET Hash
  BY DEF IInv, Consistent, TypeOK, ProposalMsg
<1>3. Ok(m2)
  BY <1>2, FetchMBOk
<1>4. /\ FakeListed(m2) \subseteq FakeListed(m)
      /\ m2.microblockMap = m.microblockMap /\ m2.ackBuffer = m.ackBuffer
      /\ m2.StableBuffer = m.StableBuffer /\ m2.stableMBs = m.stableMBs
      /\ m2.pendingMicroblocks = m.pendingMicroblocks \ ids
      /\ m2.ackMap = [h \in Hash |-> IF h \in ids THEN {} ELSE m.ackMap[h]]
      /\ m2.ackNum = [h \in Hash |-> IF h \in ids THEN 0 ELSE m.ackNum[h]]
  <2>1. FetchedEffect(m, m2, ids)
    <3> HIDE DEF ids
    <3> QED BY <1>2, FetchMBEffect
  <2> HIDE DEF m, m2, ids
  <2> QED BY <2>1 DEF FetchedEffect
<1> HIDE DEF m2
<1>5. Shrinks(m, m2)
  BY <1>2, <1>4 DEF Shrinks, AckMemType
<1>6. LocalStep(n, m2) /\ CountsHolders' /\ SavedSound' /\ FakesForeign' /\ AcksFresh'
  BY <1>1, <1>3, <1>5, ShrinksStep
<1>7. /\ am' \in [Node -> AckMemType] /\ Consistent' /\ NoEarlyAck'
      /\ \A x \in stables : Sound(x)'
      /\ \A x \in proposals : Proposable(x)'
  BY <1>6, Frame
<1>8. OnlyMade'
  <2>1. Known(m2) = Known(m)
    BY <1>4 DEF Known
  <2>2. Known(m2) \subseteq made
    BY <2>1 DEF IInv, OnlyMade
  <2>3. \A h \in ids : h \in am[Sender[h]].stableMBs
    BY DEF IInv, ProposalsStable, Proposable
  <2>4. ASSUME NEW h \in made, Sender[h] = n
        PROVE  h \in m2.pendingMicroblocks \cup m2.stableMBs
    <3>1. h \in m.pendingMicroblocks \cup m.stableMBs
      BY <2>4 DEF IInv, OnlyMade
    <3>2. h \in ids => h \in m.stableMBs
      BY <2>3, <2>4
    <3> HIDE DEF m, ids
    <3> QED BY <1>4, <3>1, <3>2
  <2> QED BY <1>1, <1>6, <2>2, <2>4, OnlyMadeStep
<1>9. TypeOK'
  BY <1>1, <1>7 DEF IInv, TypeOK
<1>10. StablesSound' /\ ProposalsStable'
  BY <1>1, <1>7 DEF StablesSound, ProposalsStable
<1> QED BY <1>6, <1>7, <1>8, <1>9, <1>10 DEF IInv

\* A replica receives a Stable message.
LEMMA HandleStableStep ==
  ASSUME IInv, NEW n \in Node, NEW x \in stables, x.to = n, HandleStable(n, x)
  PROVE  IInv'
<1> DEFINE m == am[n]
           h == x.hash
           A == x.AckNodeList
           m2 == AddStable(m, h, A)
<1>1. /\ stables' = stables \ {x} /\ am' = [am EXCEPT ![n] = m2]
      /\ UNCHANGED <<receivedMBs, made, outbox, mbs, acks, proposals>>
  BY DEF HandleStable
<1>2. /\ h \in Hash /\ A \in SUBSET Node /\ Sender[h] \in Node /\ Sound(x)
      /\ am \in [Node -> AckMemType] /\ m \in AckMemType /\ Ok(m)
  BY SenderAssumption DEF IInv, TypeOK, StableMsg, StablesSound, Consistent
<1>3. /\ Sender[h] # n /\ A \subseteq Holders(h) /\ Cardinality(A) >= Q
      /\ h \in am[Sender[h]].stableMBs
  BY <1>2 DEF Sound
<1>4. h \in made
  <2>1. h \in Known(am[Sender[h]])
    BY <1>2, <1>3 DEF IInv, Consistent, Ok, IndexesAgree
  <2> QED BY <1>2, <2>1 DEF IInv, OnlyMade
<1>5. Ok(m2)
  <2> HIDE DEF m, h, A
  <2> QED BY <1>2, AddStableOk
<1>6. /\ h \in m.stableMBs => m2 = m
      /\ h \in m.pendingMicroblocks =>
           m2.microblockMap = m.microblockMap /\ StableEffect(m, m2, h, A, FALSE)
      /\ h \notin Known(m) =>
           /\ m2.microblockMap = [m.microblockMap EXCEPT ![h] = "fake"]
           /\ StableEffect(m, m2, h, A, TRUE)
      /\ h \in Known(m) /\ h \notin m.stableMBs /\ h \notin m.pendingMicroblocks =>
           m2 = [m EXCEPT !.StableBuffer[h] = A]
  <2>1. AddStableCases(m, m2, h, A)
    <3> HIDE DEF m, h, A
    <3> QED BY <1>2, AddStableEffect
  <2> HIDE DEF m, h, A, m2
  <2> QED BY <2>1 DEF AddStableCases
<1>7. m.pendingMicroblocks \cap m.stableMBs = {} /\ m.pendingMicroblocks \cup m.stableMBs \subseteq Known(m)
  BY <1>2 DEF Ok, IndexesAgree
<1> HIDE DEF m2, h, A
<1>8. CASE h \in m.stableMBs
  <2>1. am' = am
    BY <1>1, <1>2, <1>6, <1>8
  <2>2. TypeOK'
    BY <1>1, <2>1 DEF IInv, TypeOK
  <2>3. OnlyMade'
    BY <1>1, <2>1 DEF IInv, OnlyMade, Known
  <2>4. Quiet
    BY <1>1, <2>1 DEF Quiet
  <2> QED BY <2>2, <2>3, <2>4, QuietStep
<1>9. CASE h \in m.pendingMicroblocks \/ h \notin Known(m)
  <2>1. PICK fake \in BOOLEAN : fake = (h \notin Known(m))
    OBVIOUS
  <2>2. /\ StableEffect(m, m2, h, A, fake) /\ h \notin m.stableMBs
        /\ m2.microblockMap = IF fake THEN [m.microblockMap EXCEPT ![h] = "fake"] ELSE m.microblockMap
    <3>1. CASE fake
      BY <1>6, <1>7, <2>1, <3>1
    <3>2. CASE ~fake
      BY <1>6, <1>7, <1>9, <2>1, <3>2
    <3> QED BY <3>1, <3>2
  <2>3. fake => n \notin A /\ m.microblockMap[h] # "real"
    BY <1>2, <1>3, <2>1 DEF Holders, Known
  <2>4. LocalStep(n, m2)
    <3>1. m.microblockMap \in [Hash -> Copy]
      BY <1>2 DEF AckMemType
    <3>2. \A g \in Hash : m.microblockMap[g] = "real" => m2.microblockMap[g] = "real"
      BY <1>2, <2>2, <2>3, <3>1
    <3>3. m.stableMBs \subseteq m2.stableMBs /\ m2.ackBuffer = m.ackBuffer
      BY <2>2 DEF StableEffect
    <3> QED BY <1>1, <1>5, <3>2, <3>3 DEF LocalStep, Keeps
  <2>5. Completes(n, m2, h, A, fake)
    BY <1>3, <2>2, <2>3, <2>4 DEF Completes
  <2>6. CountsHolders' /\ SavedSound' /\ FakesForeign'
    BY <1>2, <2>5, CompletesStep
  <2>7. /\ am' \in [Node -> AckMemType] /\ Consistent' /\ NoEarlyAck'
        /\ am'[n] = m2
        /\ \A g \in Hash : Holders(g) \subseteq Holders(g)'
        /\ \A y \in stables : Sound(y)'
        /\ \A y \in proposals : Proposable(y)'
        /\ \A a \in acks : a.to # n => Fresh(a)'
    BY <2>4, Frame
  <2>8. OnlyMade'
    <3>1. Known(m2) \subseteq Known(m) \cup {h}
      BY <1>2, <2>2 DEF Known, AckMemType
    <3>2. Known(m2) \subseteq made
      BY <1>4, <3>1 DEF IInv, OnlyMade
    <3>3. m.pendingMicroblocks \cup m.stableMBs \subseteq m2.pendingMicroblocks \cup m2.stableMBs
      BY <2>2 DEF StableEffect
    <3>4. \A g \in made : Sender[g] = n => g \in m2.pendingMicroblocks \cup m2.stableMBs
      BY <3>3 DEF IInv, OnlyMade
    <3> QED BY <1>1, <2>4, <3>2, <3>4, OnlyMadeStep
  <2>9. AcksFresh'
    <3> SUFFICES ASSUME NEW a \in acks, a.to = n PROVE Fresh(a)'
      BY <1>1, <2>7 DEF AcksFresh
    <3>1. Fresh(a) /\ a.hash \in Hash
      BY DEF IInv, AcksFresh, TypeOK, AckMsg
    <3>2. a.hash # h
      BY <1>3, <3>1 DEF Fresh
    <3>3. m2.ackMap[a.hash] = m.ackMap[a.hash]
      BY <1>2, <2>2, <3>1, <3>2 DEF StableEffect, AckMemType
    <3>4. a.Receiver \in Holders(a.hash)'
      BY <2>7, <3>1 DEF Fresh
    <3> QED BY <1>1, <2>7, <3>1, <3>3, <3>4 DEF Fresh
  <2>10. TypeOK'
    BY <1>1, <2>7 DEF IInv, TypeOK
  <2>11. StablesSound' /\ ProposalsStable'
    BY <1>1, <2>7 DEF StablesSound, ProposalsStable
  <2> QED BY <2>6, <2>7, <2>8, <2>9, <2>10, <2>11 DEF IInv
<1>10. CASE h \in Known(m) /\ h \notin m.stableMBs /\ h \notin m.pendingMicroblocks
  <2>1. m2 = [m EXCEPT !.StableBuffer[h] = A]
    BY <1>6, <1>10
  <2>2. /\ m2.microblockMap = m.microblockMap /\ m2.ackBuffer = m.ackBuffer
        /\ m2.stableMBs = m.stableMBs /\ m2.stableMicroblocks = m.stableMicroblocks
        /\ m2.pendingMicroblocks = m.pendingMicroblocks
        /\ m2.ackMap = m.ackMap /\ m2.ackNum = m.ackNum
        /\ m2.StableBuffer = [m.StableBuffer EXCEPT ![h] = A]
    BY <1>2, <2>1 DEF AckMemType
  <2>3. LocalStep(n, m2)
    BY <1>1, <1>5, <2>2 DEF LocalStep, Keeps
  <2>4. /\ am' \in [Node -> AckMemType] /\ Consistent' /\ NoEarlyAck'
        /\ am'[n] = m2
        /\ \A g \in Hash : Holders(g) \subseteq Holders(g)'
        /\ \A k \in Node : am[k].stableMBs \subseteq am'[k].stableMBs
        /\ (\A g \in Hash : Counts(n, g)') => CountsHolders'
        /\ (\A g \in Hash : Saved(n, g)') => SavedSound'
        /\ (\A g \in Hash : Foreign(n, g)') => FakesForeign'
        /\ \A y \in stables : Sound(y)'
        /\ \A y \in proposals : Proposable(y)'
        /\ \A a \in acks : a.to # n => Fresh(a)'
    BY <2>3, Frame
  <2>5. ASSUME NEW g \in Hash PROVE Counts(n, g)'
    <3>1. Counts(n, g) /\ Holders(g) \subseteq Holders(g)'
      BY <2>4 DEF IInv, CountsHolders
    <3> QED BY <1>1, <2>2, <2>4, <3>1 DEF Counts
  <2>6. ASSUME NEW g \in Hash PROVE Saved(n, g)' /\ Foreign(n, g)'
    <3>1. /\ Saved(n, g) /\ Foreign(n, g) /\ Holders(g) \subseteq Holders(g)' /\ Sender[g] \in Node
          /\ FakeListed(m2) = FakeListed(m) /\ m.StableBuffer \in [Hash -> SUBSET Node]
      BY <1>2, <2>2, <2>4, SenderAssumption DEF IInv, SavedSound, FakesForeign, FakeListed, AckMemType
    <3>2. CASE g = h
      <4>1. am'[n].StableBuffer[g] = A /\ g \notin am'[n].stableMBs
        BY <1>2, <1>10, <2>2, <2>4, <3>1, <3>2
      <4>2. Saved(n, g)'
        BY <1>3, <3>1, <3>2, <4>1 DEF Saved
      <4>3. ~ HasFake(n, g)
        BY <1>10, <3>1, <3>2 DEF Foreign
      <4>4. Foreign(n, g)'
        BY <2>2, <2>4, <3>1, <4>3 DEF Foreign, HasFake
      <4> QED BY <4>2, <4>4
    <3>3. CASE g # h
      <4>1. am'[n].StableBuffer[g] = m.StableBuffer[g]
        BY <1>2, <2>2, <2>4, <3>1, <3>3
      <4>2. Saved(n, g)'
        BY <2>2, <2>4, <3>1, <4>1 DEF Saved
      <4>3. Foreign(n, g)'
        BY <2>2, <2>4, <3>1, <4>1 DEF Foreign, HasFake
      <4> QED BY <4>2, <4>3
    <3> QED BY <3>2, <3>3
  <2>7. AcksFresh'
    <3> SUFFICES ASSUME NEW a \in acks, a.to = n PROVE Fresh(a)'
      BY <1>1, <2>4 DEF AcksFresh
    <3>1. Fresh(a) /\ a.hash \in Hash
      BY DEF IInv, AcksFresh, TypeOK, AckMsg
    <3>2. a.Receiver \in Holders(a.hash)'
      BY <2>4, <3>1 DEF Fresh
    <3> QED BY <1>1, <2>2, <2>4, <3>1, <3>2 DEF Fresh
  <2>8. OnlyMade'
    <3>1. Known(m2) = Known(m)
      BY <2>2 DEF Known
    <3>2. Known(m2) \subseteq made
      BY <3>1 DEF IInv, OnlyMade
    <3>3. ASSUME NEW g \in made, Sender[g] = n
          PROVE  g \in m2.pendingMicroblocks \cup m2.stableMBs
      <4>1. g \in m.pendingMicroblocks \cup m.stableMBs
        BY <3>3 DEF IInv, OnlyMade
      <4> HIDE DEF m
      <4> QED BY <2>2, <4>1
    <3> QED BY <1>1, <2>3, <3>2, <3>3, OnlyMadeStep
  <2>9. TypeOK'
    BY <1>1, <2>4 DEF IInv, TypeOK
  <2>10. StablesSound' /\ ProposalsStable'
    BY <1>1, <2>4 DEF StablesSound, ProposalsStable
  <2> QED BY <2>4, <2>5, <2>6, <2>7, <2>8, <2>9, <2>10 DEF IInv
<1> QED BY <1>8, <1>9, <1>10

\* observePool broadcasts a microblock that is stored.
LEMMA BroadcastMbStep ==
  ASSUME IInv, NEW n \in Node, NEW h \in Hash, BroadcastMb(n, h)
  PROVE  IInv'
<1>1. PICK S \in Targets(h) : mbs' = mbs \cup MbTo(S \ {n}, h)
  BY DEF BroadcastMb
<1>2. /\ h \in outbox[n] /\ outbox' = [outbox EXCEPT ![n] = {}]
      /\ UNCHANGED <<am, receivedMBs, made, acks, stables, proposals>>
  BY DEF BroadcastMb
<1>3. S \subseteq Node
  BY GroupListAssumption DEF Targets
<1>4. h \in made /\ Sender[h] = n /\ OnlyMade /\ TypeOK
  BY <1>2 DEF IInv, OnlyMade
<1>5. ASSUME NEW x \in MbTo(S \ {n}, h)
      PROVE  x \in MbMsg /\ x.hash \in made /\ x.to # Sender[x.hash] /\ ~x.IsForward
  <2>1. PICK k \in S \ {n} : x = [to |-> k, hash |-> h, IsForward |-> FALSE]
    BY DEF MbTo
  <2> QED BY <1>3, <1>4, <2>1 DEF MbMsg
<1>6. TypeOK'
  BY <1>1, <1>2, <1>4, <1>5 DEF TypeOK
<1>7. OnlyMade'
  <2>1. \A x \in mbs' : x.hash \in made /\ x.to # Sender[x.hash] /\ ~x.IsForward
    BY <1>1, <1>4, <1>5 DEF OnlyMade
  <2>2. \A k \in Node : outbox'[k] \subseteq outbox[k]
    BY <1>2, <1>4 DEF TypeOK
  <2> QED BY <1>2, <1>4, <2>1, <2>2 DEF OnlyMade, Known
<1>8. Quiet
  BY <1>2 DEF Quiet
<1> QED BY <1>6, <1>7, <1>8, QuietStep

-----------------------------------------------------------------------------
(* The theorems, for replicas that do not balance load.                    *)

\* Every step of every replica preserves the invariant.
LEMMA NextStep ==
  ASSUME ~LoadBalance, IInv, [Next]_vars
  PROVE  IInv'
<1>1. CASE UNCHANGED vars
  <2>1. TypeOK'
    BY <1>1 DEF vars, IInv, TypeOK
  <2>2. OnlyMade'
    BY <1>1 DEF vars, IInv, OnlyMade, Known
  <2>3. Quiet
    BY <1>1 DEF vars, Quiet
  <2> QED BY <2>1, <2>2, <2>3, QuietStep
<1>2. ASSUME NEW n \in Node, NEW h \in Hash, GenerateMb(n, h) PROVE IInv'
  BY <1>2, GenerateMbStep
<1>3. ASSUME NEW n \in Node, Broadcast(n) PROVE IInv'
  <2>1. PICK h \in Hash : BroadcastMb(n, h) \/ LoadBalanceMb(n, h)
    BY <1>3 DEF Broadcast
  <2>2. ~ LoadBalanceMb(n, h)
    BY DEF LoadBalanceMb
  <2> QED BY <2>1, <2>2, BroadcastMbStep
<1>4. ASSUME NEW n \in Node, Handle(n) PROVE IInv'
  <2>1. \A m \in mbs : ~ HandleForward(n, m)
    BY DEF HandleForward
  <2>2. \A m \in mbs : m.to = n => ~ HandleOwnMicroblock(n, m)
    BY DEF HandleOwnMicroblock, IInv, OnlyMade
  <2>3. ASSUME NEW m \in mbs, m.to = n, HandleMicroblock(n, m) PROVE IInv'
    BY <2>3, HandleMicroblockStep
  <2>4. ASSUME NEW m \in acks, m.to = n, HandleAck(n, m) PROVE IInv'
    BY <2>4, HandleAckStep
  <2>5. ASSUME NEW m \in stables, m.to = n, HandleStable(n, m) PROVE IInv'
    BY <2>5, HandleStableStep
  <2>6. ASSUME NEW m \in proposals, m.to = n, HandleProposal(n, m) PROVE IInv'
    BY <2>6, HandleProposalStep
  <2> QED BY <1>4, <2>1, <2>2, <2>3, <2>4, <2>5, <2>6 DEF Handle
<1>5. ASSUME NEW n \in Node, ProposeBlock(n) PROVE IInv'
  BY <1>5, ProposeBlockStep
<1> QED BY <1>1, <1>2, <1>3, <1>4, <1>5 DEF Next

\* The replicas start in the invariant.
LEMMA InitInv ==
  ASSUME Init
  PROVE  IInv
<1>1. /\ \A n \in Node : am[n] = NewAckMem
      /\ am = [n \in Node |-> NewAckMem] /\ NewAckMem \in AckMemType /\ Ok(NewAckMem)
  BY NewAckMemOk DEF Init, Ok
<1>2. /\ NewAckMem.microblockMap = [h \in Hash |-> "none"]
      /\ NewAckMem.ackMap = [h \in Hash |-> {}] /\ NewAckMem.ackNum = [h \in Hash |-> 0]
      /\ NewAckMem.ackBuffer = [h \in Hash |-> {}] /\ NewAckMem.stableMBs = {}
      /\ NewAckMem.stableMicroblocks = << >> /\ NewAckMem.StableBuffer = [h \in Hash |-> {}]
  BY DEF NewAckMem
<1>3. TypeOK
  BY <1>1 DEF Init, TypeOK
<1>4. Consistent /\ NoEarlyAck
  BY <1>1, <1>2 DEF Consistent, NoEarlyAck
<1>5. OnlyMade
  <2>1. Known(NewAckMem) = {}
    BY <1>2 DEF Known
  <2>2. made = {} /\ mbs = {} /\ outbox = [n \in Node |-> {}]
    BY DEF Init
  <2> QED BY <1>1, <2>1, <2>2 DEF OnlyMade
<1>6. CountsHolders
  BY <1>1, <1>2, FS_EmptySet DEF CountsHolders, Counts
<1>7. AcksFresh /\ StablesSound /\ ProposalsStable
  BY DEF Init, AcksFresh, StablesSound, ProposalsStable
<1>8. SavedSound
  BY <1>1, <1>2 DEF SavedSound, Saved
<1>9. FakesForeign
  <2>1. FakeListed(NewAckMem) = {}
    BY <1>2 DEF FakeListed, Entries
  <2> QED BY <1>1, <1>2, <2>1 DEF FakesForeign, Foreign, HasFake
<1> QED BY <1>3, <1>4, <1>5, <1>6, <1>7, <1>8, <1>9 DEF IInv

\* The invariant holds in every reachable state.
THEOREM Invariance ==
  ASSUME ~LoadBalance
  PROVE  Spec => []IInv
<1>1. Init => IInv
  BY InitInv
<1>2. IInv /\ [Next]_vars => IInv'
  BY NextStep
<1> QED BY <1>1, <1>2, PTL DEF Spec

\* The replicas' state keeps its type.
THEOREM TypeCorrect ==
  ASSUME ~LoadBalance
  PROVE  Spec => []TypeOK
<1>1. IInv => TypeOK
  BY DEF IInv
<1> QED BY <1>1, Invariance, PTL

\* A microblock that some replica counts as stable is held by at least Q
\* replicas, whatever the mode, the sample and the order of the messages.
THEOREM StableIsAvailable ==
  ASSUME ~LoadBalance
  PROVE  Spec => []Availability
<1>1. IInv => Availability
  <2> SUFFICES ASSUME IInv, NEW n \in Node, NEW h \in am[n].stableMBs
               PROVE  Cardinality(Holders(h)) >= Q
    BY DEF Availability
  <2> DEFINE A == am[n].StableBuffer[h]
  <2>1. h \in Hash
    BY DEF IInv, TypeOK, AckMemType
  <2>2. A \subseteq Holders(h) /\ Cardinality(A) >= Q
    BY <2>1 DEF IInv, SavedSound, Saved
  <2>3. IsFiniteSet(Holders(h))
    BY NodeAssumption, FS_Subset DEF Holders
  <2>4. IsFiniteSet(A) /\ Cardinality(A) <= Cardinality(Holders(h))
    BY <2>2, <2>3, FS_Subset
  <2>5. Cardinality(A) \in Nat /\ Cardinality(Holders(h)) \in Nat
    BY <2>3, <2>4, FS_CardinalityType
  <2> HIDE DEF A
  <2> QED BY <2>2, <2>4, <2>5, QAssumption
<1> QED BY <1>1, Invariance, PTL

\* A Stable message, in flight or saved, names only replicas that hold the
\* microblock.
THEOREM StableNamesHolders ==
  ASSUME ~LoadBalance
  PROVE  Spec => []CertificateSound
<1>1. IInv => CertificateSound
  BY DEF IInv, CertificateSound, StablesSound, Sound, SavedSound, Saved
<1> QED BY <1>1, Invariance, PTL

\* A Stable message names at least Q replicas.
THEOREM StableNamesQ ==
  ASSUME ~LoadBalance
  PROVE  Spec => []QAcks
<1>1. IInv => QAcks
  BY DEF IInv, QAcks, StablesSound, Sound
<1> QED BY <1>1, Invariance, PTL

\* A fake microblock never names the replica it is at, so that the executor's
\* condition for a retransmission request is never met.
THEOREM FakeIsForeign ==
  ASSUME ~LoadBalance
  PROVE  Spec => []NeverRequested
<1>1. IInv => NeverRequested
  BY DEF IInv, NeverRequested, FakesForeign, Foreign
<1> QED BY <1>1, Invariance, PTL

\* No ack arrives before the microblock is stored.
THEOREM AcksAreInTime ==
  ASSUME ~LoadBalance
  PROVE  Spec => []NoEarlyAck
<1>1. IInv => NoEarlyAck
  BY DEF IInv
<1> QED BY <1>1, Invariance, PTL
============================================================================
