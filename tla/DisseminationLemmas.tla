------------------------ MODULE DisseminationLemmas ------------------------
(***************************************************************************)
(* The inductive invariant of Dissemination without load balancing, and    *)
(* lemmas about the ways in which one replica's step changes its mempool:  *)
(* it stores a microblock, completes one, or drops some from its list.     *)
(***************************************************************************)
EXTENDS Dissemination, AckMemLemmas

-----------------------------------------------------------------------------
(* The inductive invariant.                                                *)

Consistent == \A n \in Node : Ok(am[n])

\* Only microblocks that were built are known or sent, and the sender of a
\* microblock that was built holds it, pending or stable.
OnlyMade ==
  /\ \A n \in Node : Known(am[n]) \subseteq made
  /\ \A h \in made : /\ am[Sender[h]].microblockMap[h] = "real"
                     /\ h \in am[Sender[h]].pendingMicroblocks \cup am[Sender[h]].stableMBs
  /\ \A n \in Node : \A h \in outbox[n] : h \in made /\ Sender[h] = n
  /\ \A m \in mbs : m.hash \in made /\ m.to # Sender[m.hash] /\ ~m.IsForward

\* A replica that is counted for a microblock holds it, is counted once, and is
\* the sender or has received it.
Counts(n, h) ==
  /\ am[n].ackMap[h] \subseteq Holders(h)
  /\ am[n].ackNum[h] = Cardinality(am[n].ackMap[h])
  /\ \A k \in am[n].ackMap[h] : k = Sender[h] \/ h \in receivedMBs[k]

CountsHolders == \A n \in Node, h \in Hash : Counts(n, h)

\* An ack in flight goes to the sender, and comes from a holder that is not
\* counted yet.
Fresh(a) ==
  /\ a.to = Sender[a.hash] /\ a.Receiver # a.to
  /\ a.Receiver \in Holders(a.hash)
  /\ a.hash \in receivedMBs[a.Receiver]
  /\ a.Receiver \notin am[a.to].ackMap[a.hash]

AcksFresh == \A a \in acks : Fresh(a)

\* A Stable message names at least Q holders, and its sender is stable already.
Sound(m) ==
  /\ m.to # Sender[m.hash]
  /\ m.AckNodeList \subseteq Holders(m.hash)
  /\ Cardinality(m.AckNodeList) >= Q
  /\ m.hash \in am[Sender[m.hash]].stableMBs

StablesSound == \A m \in stables : Sound(m)

\* So does what a replica has saved for a microblock that is stable there.
Saved(n, h) ==
  /\ am[n].StableBuffer[h] \subseteq Holders(h)
  /\ h \in am[n].stableMBs =>
       Cardinality(am[n].StableBuffer[h]) >= Q /\ h \in am[Sender[h]].stableMBs

SavedSound == \A n \in Node, h \in Hash : Saved(n, h)

\* Only microblocks that are stable at their senders are proposed.
Proposable(m) == \A h \in m.HashList : h \in am[Sender[h]].stableMBs

ProposalsStable == \A m \in proposals : Proposable(m)

\* A fake copy is a stable one, and does not name the replica it is at.
Foreign(n, h) == HasFake(n, h) => h \in am[n].stableMBs /\ n \notin am[n].StableBuffer[h]

FakesForeign == \A n \in Node, h \in Hash : Foreign(n, h)

IInv ==
  /\ TypeOK
  /\ Consistent
  /\ NoEarlyAck
  /\ OnlyMade
  /\ CountsHolders
  /\ AcksFresh
  /\ StablesSound
  /\ SavedSound
  /\ ProposalsStable
  /\ FakesForeign

-----------------------------------------------------------------------------
(* What the methods of AckMem do to the fields, when no acks are buffered. *)

\* The fields after a microblock of sender s has been stored.
StoredEffect(m, m2, h, s) ==
  /\ m2.microblockMap = [m.microblockMap EXCEPT ![h] = "real"]
  /\ m2.ackBuffer = m.ackBuffer /\ m2.StableBuffer = m.StableBuffer
  /\ m2.stableMBs = m.stableMBs /\ m2.stableMicroblocks = m.stableMicroblocks
  /\ m2.pendingMicroblocks =
       m.pendingMicroblocks \cup (IF m.microblockMap[h] = "none" THEN {h} ELSE {})
  /\ m2.ackMap = IF m.microblockMap[h] = "none" THEN [m.ackMap EXCEPT ![h] = {s}] ELSE m.ackMap
  /\ m2.ackNum = IF m.microblockMap[h] = "none" THEN [m.ackNum EXCEPT ![h] = 1] ELSE m.ackNum

\* Storing a microblock makes it pending if it was unknown, and changes nothing
\* but the map otherwise.
LEMMA StoreEffect ==
  ASSUME NEW m, Ok(m), NEW h \in Hash, NEW s \in Node, m.ackBuffer[h] = {}
  PROVE  LET m2 == AddMicroblock(m, h, s)
         IN  StoredEffect(m, m2, h, s)
<1> USE DEF StoredEffect
<1> DEFINE known == [m EXCEPT !.microblockMap[h] = "real"]
           m2 == AddMicroblock(m, h, s)
<1>1. m \in AckMemType /\ m.microblockMap[h] \in Copy
  BY DEF Ok, AckMemType
<1>2. CASE m.microblockMap[h] = "real"
  <2>1. m2 = m
    BY <1>2 DEF AddMicroblock
  <2> QED BY <1>1, <1>2, <2>1 DEF AckMemType
<1>3. CASE m.microblockMap[h] = "fake"
  <2>1. m2 = known
    BY <1>3 DEF AddMicroblock
  <2> QED BY <1>1, <1>3, <2>1 DEF AckMemType
<1>4. CASE m.microblockMap[h] = "none"
  <2>1. Cardinality({}) = 0 /\ {} \cup {s} = {s}
    BY FS_EmptySet
  <2>2. m2 = EnterPending(known, h, {s}, 1)
    BY <1>4, <2>1 DEF AddMicroblock, AddNewMicroblock
  <2> QED BY <1>1, <1>4, <2>2 DEF EnterPending, AckMemType
<1> QED BY <1>1, <1>2, <1>3, <1>4 DEF Copy

\* The fields after a microblock has become stable, and its list of ackers was
\* saved.
StableEffect(m, m2, h, A, fake) ==
  /\ m2.ackBuffer = m.ackBuffer
  /\ m2.stableMBs = m.stableMBs \cup {h}
  /\ m2.pendingMicroblocks = m.pendingMicroblocks \ {h}
  /\ m2.ackMap = [m.ackMap EXCEPT ![h] = {}]
  /\ m2.ackNum = [m.ackNum EXCEPT ![h] = 0]
  /\ m2.StableBuffer = [m.StableBuffer EXCEPT ![h] = A]
  /\ FakeListed(m2) = FakeListed(m) \cup (IF fake THEN {h} ELSE {})

Queues(m, m2, h, fake) ==
  m2.stableMicroblocks = Append(m.stableMicroblocks, [hash |-> h, fake |-> fake])

GainsFake(m, m2, h, fake) ==
  FakeListed(m2) = FakeListed(m) \cup (IF fake THEN {h} ELSE {})

\* The list gains a fake entry only when a fake microblock becomes stable.
LEMMA BecomeStableFakes ==
  ASSUME NEW m, Ok(m), NEW h \in Hash, h \notin m.stableMBs, NEW fake \in BOOLEAN,
         NEW m2, Queues(m, m2, h, fake)
  PROVE  GainsFake(m, m2, h, fake)
<1> USE DEF Queues, GainsFake
<1>1. /\ m.stableMicroblocks \in Seq(Entry) /\ Distinct(m.stableMicroblocks)
      /\ h \notin Hashes(m.stableMicroblocks)
  BY DEF Ok, AckMemType, IndexesAgree, Listed
<1>2. Entries(m2.stableMicroblocks) =
        Entries(m.stableMicroblocks) \cup {[hash |-> h, fake |-> fake]}
  BY <1>1, AppendEntry
<1> QED BY <1>2 DEF FakeListed

\* An ack for a pending microblock completes it, or is counted.
LEMMA AddAckEffect ==
  ASSUME NEW m, Ok(m), NEW h \in m.pendingMicroblocks, NEW k \in Node
  PROVE  LET m2 == AddAck(m, h, k, FALSE)
         IN  /\ m2.microblockMap = m.microblockMap
             /\ m.ackNum[h] + 1 >= Q => StableEffect(m, m2, h, AckNodeList(m, h, k), FALSE)
             /\ ~ (m.ackNum[h] + 1 >= Q) =>
                  /\ m2.ackBuffer = m.ackBuffer /\ m2.StableBuffer = m.StableBuffer
                  /\ m2.stableMBs = m.stableMBs /\ m2.stableMicroblocks = m.stableMicroblocks
                  /\ m2.pendingMicroblocks = m.pendingMicroblocks
                  /\ m2.ackMap = [m.ackMap EXCEPT ![h] = @ \cup {k}]
                  /\ m2.ackNum = [m.ackNum EXCEPT ![h] = @ + 1]
             /\ AckCompletes(m, h, k, FALSE) <=> m.ackNum[h] + 1 >= Q
<1> DEFINE m2 == AddAck(m, h, k, FALSE)
<1>1. m \in AckMemType /\ h \in Hash /\ h \notin m.stableMBs
  BY DEF Ok, AckMemType, IndexesAgree
<1>2. CountAck(m, h, k, FALSE).ackNum[h] = m.ackNum[h] + 1
  BY <1>1 DEF CountAck, AckMemType
<1>3. AckCompletes(m, h, k, FALSE) <=> m.ackNum[h] + 1 >= Q
  BY <1>1, <1>2 DEF AckCompletes
<1>4. CASE m.ackNum[h] + 1 >= Q
  <2>1. m2 = [BecomeStable(m, h, FALSE) EXCEPT !.StableBuffer[h] = AckNodeList(m, h, k)]
    BY <1>3, <1>4 DEF AddAck
  <2> DEFINE A == AckNodeList(m, h, k)
  <2> HIDE DEF A, m2
  <2>2. /\ m2.microblockMap = m.microblockMap
        /\ m2.ackBuffer = m.ackBuffer
        /\ m2.stableMBs = m.stableMBs \cup {h}
        /\ m2.pendingMicroblocks = m.pendingMicroblocks \ {h}
        /\ m2.ackMap = [m.ackMap EXCEPT ![h] = {}]
        /\ m2.ackNum = [m.ackNum EXCEPT ![h] = 0]
        /\ m2.StableBuffer = [m.StableBuffer EXCEPT ![h] = A]
        /\ m2.stableMicroblocks = Append(m.stableMicroblocks, [hash |-> h, fake |-> FALSE])
    BY <1>1, <2>1 DEF A, BecomeStable, AckMemType
  <2>3. FakeListed(m2) = FakeListed(m) \cup {}
    <3>1. PICK f \in BOOLEAN : f = FALSE
      OBVIOUS
    <3>2. Queues(m, m2, h, f)
      BY <2>2, <3>1 DEF Queues
    <3>3. GainsFake(m, m2, h, f)
      BY <1>1, <3>2, BecomeStableFakes
    <3> QED BY <3>1, <3>3 DEF GainsFake
  <2> QED BY <1>3, <1>4, <2>2, <2>3 DEF StableEffect, A, m2
<1>5. CASE ~ (m.ackNum[h] + 1 >= Q)
  <2>1. m2 = CountAck(m, h, k, FALSE)
    BY <1>3, <1>5 DEF AddAck
  <2> QED BY <1>1, <1>3, <1>5, <2>1 DEF CountAck, AckMemType
<1> QED BY <1>4, <1>5

\* The four cases of AddStable: stable already, pending, unknown, and fetched by
\* a proposal before.
AddStableCases(m, m2, h, A) ==
  /\ h \in m.stableMBs => m2 = m
  /\ h \in m.pendingMicroblocks =>
       m2.microblockMap = m.microblockMap /\ StableEffect(m, m2, h, A, FALSE)
  /\ h \notin Known(m) =>
       /\ m2.microblockMap = [m.microblockMap EXCEPT ![h] = "fake"]
       /\ StableEffect(m, m2, h, A, TRUE)
  /\ h \in Known(m) /\ h \notin m.stableMBs /\ h \notin m.pendingMicroblocks =>
       m2 = [m EXCEPT !.StableBuffer[h] = A]

\* A Stable message falls into one of these cases.
LEMMA AddStableEffect ==
  ASSUME NEW m, Ok(m), NEW h \in Hash, NEW A \in SUBSET Node
  PROVE  AddStableCases(m, AddStable(m, h, A), h, A)
<1> DEFINE m2 == AddStable(m, h, A)
           saved == [m EXCEPT !.StableBuffer[h] = A]
<1>1. /\ m \in AckMemType /\ m.pendingMicroblocks \cap m.stableMBs = {}
      /\ m.pendingMicroblocks \cup m.stableMBs \subseteq Known(m)
  BY DEF Ok, IndexesAgree
<1>2. h \in m.stableMBs => m2 = m
  BY DEF AddStable
<1>3. ASSUME h \in m.pendingMicroblocks
      PROVE  m2.microblockMap = m.microblockMap /\ StableEffect(m, m2, h, A, FALSE)
  <2>1. m2 = BecomeStable(saved, h, FALSE) /\ h \notin m.stableMBs
    BY <1>1, <1>3 DEF AddStable
  <2> HIDE DEF m2
  <2>2. /\ m2.microblockMap = m.microblockMap
        /\ m2.ackBuffer = m.ackBuffer
        /\ m2.stableMBs = m.stableMBs \cup {h}
        /\ m2.pendingMicroblocks = m.pendingMicroblocks \ {h}
        /\ m2.ackMap = [m.ackMap EXCEPT ![h] = {}]
        /\ m2.ackNum = [m.ackNum EXCEPT ![h] = 0]
        /\ m2.StableBuffer = [m.StableBuffer EXCEPT ![h] = A]
        /\ m2.stableMicroblocks = Append(m.stableMicroblocks, [hash |-> h, fake |-> FALSE])
    BY <1>1, <2>1 DEF BecomeStable, AckMemType
  <2>3. FakeListed(m2) = FakeListed(m) \cup {}
    <3>1. PICK f \in BOOLEAN : f = FALSE
      OBVIOUS
    <3>2. Queues(m, m2, h, f)
      BY <2>2, <3>1 DEF Queues
    <3>3. GainsFake(m, m2, h, f)
      BY <2>1, <3>2, BecomeStableFakes
    <3> QED BY <3>1, <3>3 DEF GainsFake
  <2> QED BY <2>2, <2>3 DEF StableEffect
<1>4. ASSUME h \notin Known(m)
      PROVE  /\ m2.microblockMap = [m.microblockMap EXCEPT ![h] = "fake"]
             /\ StableEffect(m, m2, h, A, TRUE)
  <2>1. m.microblockMap[h] = "none" /\ h \notin m.stableMBs /\ h \notin m.pendingMicroblocks
    BY <1>1, <1>4 DEF Known
  <2>2. m2 = BecomeStable([saved EXCEPT !.microblockMap[h] = "fake"], h, TRUE)
    BY <2>1 DEF AddStable
  <2> HIDE DEF m2
  <2>3. /\ m2.microblockMap = [m.microblockMap EXCEPT ![h] = "fake"]
        /\ m2.ackBuffer = m.ackBuffer
        /\ m2.stableMBs = m.stableMBs \cup {h}
        /\ m2.pendingMicroblocks = m.pendingMicroblocks \ {h}
        /\ m2.ackMap = [m.ackMap EXCEPT ![h] = {}]
        /\ m2.ackNum = [m.ackNum EXCEPT ![h] = 0]
        /\ m2.StableBuffer = [m.StableBuffer EXCEPT ![h] = A]
        /\ m2.stableMicroblocks = Append(m.stableMicroblocks, [hash |-> h, fake |-> TRUE])
    BY <1>1, <2>2 DEF BecomeStable, AckMemType
  <2>4. FakeListed(m2) = FakeListed(m) \cup {h}
    <3>1. PICK f \in BOOLEAN : f = TRUE
      OBVIOUS
    <3>2. Queues(m, m2, h, f)
      BY <2>3, <3>1 DEF Queues
    <3>3. GainsFake(m, m2, h, f)
      BY <2>1, <3>2, BecomeStableFakes
    <3> QED BY <3>1, <3>3 DEF GainsFake
  <2> QED BY <2>3, <2>4 DEF StableEffect
<1>5. ASSUME h \in Known(m), h \notin m.stableMBs, h \notin m.pendingMicroblocks
      PROVE  m2 = saved
  BY <1>5 DEF AddStable, Known
<1> HIDE DEF m2
<1>6. AddStableCases(m, m2, h, A)
  BY <1>2, <1>3, <1>4, <1>5 DEF AddStableCases
<1> QED BY <1>6 DEF m2

\* What is proposed is stable, and the list is all that changes.
LEMMA GeneratePayloadEffect ==
  ASSUME NEW m, Ok(m), NEW list \in Arrangements(m.stableMicroblocks)
  PROVE  LET m2 == GeneratePayload(m, list)
         IN  /\ Hashes(Payload(list)) \subseteq m.stableMBs
             /\ FakeListed(m2) \subseteq FakeListed(m)
             /\ m2.microblockMap = m.microblockMap /\ m2.ackBuffer = m.ackBuffer
             /\ m2.StableBuffer = m.StableBuffer /\ m2.stableMBs = m.stableMBs
             /\ m2.pendingMicroblocks = m.pendingMicroblocks
             /\ m2.ackMap = m.ackMap /\ m2.ackNum = m.ackNum
<1> DEFINE k == BatchSize(list)
           rest == SubSeq(list, k + 1, Len(list))
           m2 == GeneratePayload(m, list)
<1>1. /\ m \in AckMemType /\ m.stableMicroblocks \in Seq(Entry) /\ Distinct(m.stableMicroblocks)
      /\ Hashes(m.stableMicroblocks) \subseteq m.stableMBs
  BY DEF Ok, AckMemType, IndexesAgree, Listed
<1>2. /\ list \in Seq(Entry) /\ Distinct(list)
      /\ Hashes(list) \subseteq Hashes(m.stableMicroblocks)
      /\ Entries(list) \subseteq Entries(m.stableMicroblocks)
  BY <1>1, Rearranged
<1>3. k \in 0..Len(list)
  BY <1>2, BSizeAssumption DEF BatchSize
<1>4. Entries(rest) \subseteq Entries(list)
  <2> HIDE DEF k
  <2> QED BY <1>2, <1>3, FrontRemoved
<1>5. Hashes(Payload(list)) \subseteq Hashes(list)
  <2>1. Payload(list) = SubSeq(list, 1, k)
    BY DEF Payload
  <2> HIDE DEF k
  <2>2. Len(SubSeq(list, 1, k)) = k /\ \A i \in 1..k : SubSeq(list, 1, k)[i] = list[i]
    BY <1>2, <1>3
  <2> QED BY <1>2, <1>3, <2>1, <2>2 DEF Hashes
<1>6. m2 = [m EXCEPT !.stableMicroblocks = rest]
  BY DEF GeneratePayload
<1> HIDE DEF rest, m2
<1>7. /\ m2.stableMicroblocks = rest
      /\ m2.microblockMap = m.microblockMap /\ m2.ackBuffer = m.ackBuffer
      /\ m2.StableBuffer = m.StableBuffer /\ m2.stableMBs = m.stableMBs
      /\ m2.pendingMicroblocks = m.pendingMicroblocks
      /\ m2.ackMap = m.ackMap /\ m2.ackNum = m.ackNum
  BY <1>1, <1>6 DEF AckMemType
<1>8. FakeListed(m2) \subseteq FakeListed(m)
  BY <1>2, <1>4, <1>7 DEF FakeListed
<1> QED BY <1>1, <1>2, <1>5, <1>7, <1>8 DEF m2

\* The fields after the microblocks ids have been fetched.
FetchedEffect(m, m2, ids) ==
  /\ FakeListed(m2) \subseteq FakeListed(m)
  /\ m2.microblockMap = m.microblockMap /\ m2.ackBuffer = m.ackBuffer
  /\ m2.StableBuffer = m.StableBuffer /\ m2.stableMBs = m.stableMBs
  /\ m2.pendingMicroblocks = m.pendingMicroblocks \ ids
  /\ m2.ackMap = [h \in Hash |-> IF h \in ids THEN {} ELSE m.ackMap[h]]
  /\ m2.ackNum = [h \in Hash |-> IF h \in ids THEN 0 ELSE m.ackNum[h]]

\* A proposal removes its hashes from the pending map and from the list.
LEMMA FetchMBEffect ==
  ASSUME NEW m, Ok(m), NEW ids \in SUBSET Hash
  PROVE  FetchedEffect(m, FetchMB(m, ids), ids)
<1> USE DEF FetchedEffect
<1> DEFINE l == m.stableMicroblocks
           kept == {i \in 1..Len(l) : l[i].hash \notin ids}
           rest == Subsequence(l, kept)
           m2 == FetchMB(m, ids)
<1>1. m \in AckMemType /\ l \in Seq(Entry) /\ Distinct(l)
  BY DEF Ok, AckMemType, IndexesAgree
<1>2. Entries(rest) \subseteq Entries(l)
  <2>1. kept \in SUBSET (1..Len(l))
    OBVIOUS
  <2> HIDE DEF l, kept
  <2> QED BY <1>1, <2>1, SubsequenceEntries
<1>3. m2 = [m EXCEPT !.pendingMicroblocks = @ \ ids,
                     !.ackMap = [h \in Hash |-> IF h \in ids THEN {} ELSE @[h]],
                     !.ackNum = [h \in Hash |-> IF h \in ids THEN 0 ELSE @[h]],
                     !.stableMicroblocks = rest]
  BY DEF FetchMB
<1> HIDE DEF rest, m2
<1>4. /\ m2.stableMicroblocks = rest
      /\ m2.microblockMap = m.microblockMap /\ m2.ackBuffer = m.ackBuffer
      /\ m2.StableBuffer = m.StableBuffer /\ m2.stableMBs = m.stableMBs
      /\ m2.pendingMicroblocks = m.pendingMicroblocks \ ids
      /\ m2.ackMap = [h \in Hash |-> IF h \in ids THEN {} ELSE m.ackMap[h]]
      /\ m2.ackNum = [h \in Hash |-> IF h \in ids THEN 0 ELSE m.ackNum[h]]
  BY <1>1, <1>3 DEF AckMemType
<1>5. FakeListed(m2) \subseteq FakeListed(m)
  BY <1>2, <1>4 DEF FakeListed
<1> QED BY <1>4, <1>5 DEF m2

-----------------------------------------------------------------------------
(* A step of replica n changes its own mempool only, and forgets neither a *)
(* microblock it holds nor that one is stable.                             *)

Keeps(m, m2) ==
  /\ \A h \in Hash : m.microblockMap[h] = "real" => m2.microblockMap[h] = "real"
  /\ m.stableMBs \subseteq m2.stableMBs
  /\ m2.ackBuffer = m.ackBuffer

LocalStep(n, m2) ==
  /\ am' = [am EXCEPT ![n] = m2]
  /\ Ok(m2)
  /\ Keeps(am[n], m2)
  /\ \A k \in Node : receivedMBs[k] \subseteq receivedMBs'[k]

\* What such a step leaves true of all messages and of all other replicas.
LEMMA Frame ==
  ASSUME IInv, NEW n \in Node, NEW m2, LocalStep(n, m2)
  PROVE  /\ am' \in [Node -> AckMemType] /\ Consistent' /\ NoEarlyAck'
         /\ am'[n] = m2 /\ \A k \in Node \ {n} : am'[k] = am[k]
         /\ \A h \in Hash : Holders(h) \subseteq Holders(h)'
         /\ \A k \in Node : am[k].stableMBs \subseteq am'[k].stableMBs
         /\ (\A h \in Hash : Counts(n, h)') => CountsHolders'
         /\ (\A h \in Hash : Saved(n, h)') => SavedSound'
         /\ (\A h \in Hash : Foreign(n, h)') => FakesForeign'
         /\ \A m \in stables : Sound(m)'
         /\ \A m \in proposals : Proposable(m)'
         /\ \A a \in acks : a.to # n => Fresh(a)'
<1>1. am \in [Node -> AckMemType] /\ m2 \in AckMemType
  BY DEF IInv, TypeOK, LocalStep, Ok
<1>2. am'[n] = m2 /\ \A k \in Node \ {n} : am'[k] = am[k]
  BY <1>1 DEF LocalStep
<1>3. am' \in [Node -> AckMemType]
  BY <1>1 DEF LocalStep
<1>4. Consistent'
  BY <1>2 DEF IInv, Consistent, LocalStep
<1>5. NoEarlyAck'
  BY <1>2 DEF IInv, NoEarlyAck, LocalStep, Keeps
<1>6. \A h \in Hash : Holders(h) \subseteq Holders(h)'
  BY <1>2 DEF Holders, LocalStep, Keeps
<1>7. \A k \in Node : am[k].stableMBs \subseteq am'[k].stableMBs
  BY <1>2 DEF LocalStep, Keeps
<1>8. \A k \in Node : receivedMBs[k] \subseteq receivedMBs'[k]
  BY DEF LocalStep
<1>9. ASSUME NEW k \in Node \ {n}, NEW h \in Hash
      PROVE  Counts(k, h)' /\ Saved(k, h)' /\ Foreign(k, h)'
  <2>1. Counts(k, h) /\ Saved(k, h) /\ Foreign(k, h)
    BY DEF IInv, CountsHolders, SavedSound, FakesForeign
  <2>2. am'[k] = am[k] /\ Holders(h) \subseteq Holders(h)' /\ Sender[h] \in Node
    BY <1>2, <1>6, SenderAssumption
  <2>3. am[k].ackMap[h] \subseteq Node
    BY <1>1 DEF AckMemType
  <2>4. Counts(k, h)'
    BY <1>8, <2>1, <2>2, <2>3 DEF Counts
  <2>5. Saved(k, h)'
    BY <1>7, <2>1, <2>2 DEF Saved
  <2>6. Foreign(k, h)'
    BY <2>1, <2>2 DEF Foreign, HasFake
  <2> QED BY <2>4, <2>5, <2>6
<1>10. (\A h \in Hash : Counts(n, h)') => CountsHolders'
  BY <1>9 DEF CountsHolders
<1>11. (\A h \in Hash : Saved(n, h)') => SavedSound'
  BY <1>9 DEF SavedSound
<1>12. (\A h \in Hash : Foreign(n, h)') => FakesForeign'
  BY <1>9 DEF FakesForeign
<1>13. ASSUME NEW m \in stables PROVE Sound(m)'
  <2>1. Sound(m) /\ m.hash \in Hash /\ Sender[m.hash] \in Node
    BY SenderAssumption DEF IInv, StablesSound, TypeOK, StableMsg
  <2> QED BY <1>6, <1>7, <2>1 DEF Sound
<1>14. ASSUME NEW m \in proposals PROVE Proposable(m)'
  <2>1. Proposable(m) /\ m.HashList \subseteq Hash
    BY DEF IInv, ProposalsStable, TypeOK, ProposalMsg
  <2> QED BY <1>7, <2>1, SenderAssumption DEF Proposable
<1>15. ASSUME NEW a \in acks, a.to # n PROVE Fresh(a)'
  <2>1. Fresh(a) /\ a.hash \in Hash /\ a.to \in Node /\ a.Receiver \in Node
    BY DEF IInv, AcksFresh, TypeOK, AckMsg
  <2> QED BY <1>2, <1>6, <1>8, <1>15, <2>1 DEF Fresh
<1> QED BY <1>2, <1>3, <1>4, <1>5, <1>6, <1>7, <1>10, <1>11, <1>12, <1>13, <1>14, <1>15

-----------------------------------------------------------------------------
(* The steps preserve the invariant.                                       *)

\* A step that changes no mempool, and adds neither acks, Stable messages nor
\* proposals.
Quiet ==
  /\ UNCHANGED <<am, receivedMBs, made>>
  /\ acks' \subseteq acks /\ stables' \subseteq stables /\ proposals' \subseteq proposals

\* Such a step preserves what the invariant says of mempools and messages.
LEMMA QuietStep ==
  ASSUME IInv, Quiet, TypeOK', OnlyMade'
  PROVE  IInv'
<1>1. am' = am /\ receivedMBs' = receivedMBs
  BY DEF Quiet
<1>2. acks' \subseteq acks /\ stables' \subseteq stables /\ proposals' \subseteq proposals
  BY DEF Quiet
<1>3. Consistent' /\ NoEarlyAck'
  BY <1>1 DEF IInv, Consistent, NoEarlyAck
<1>4. CountsHolders'
  BY <1>1 DEF IInv, CountsHolders, Counts, Holders
<1>5. AcksFresh'
  BY <1>1, <1>2 DEF IInv, AcksFresh, Fresh, Holders
<1>6. StablesSound'
  BY <1>1, <1>2 DEF IInv, StablesSound, Sound, Holders
<1>7. SavedSound'
  BY <1>1 DEF IInv, SavedSound, Saved, Holders
<1>8. ProposalsStable'
  BY <1>1, <1>2 DEF IInv, ProposalsStable, Proposable
<1>9. FakesForeign'
  BY <1>1 DEF IInv, FakesForeign, Foreign, HasFake
<1> QED BY <1>3, <1>4, <1>5, <1>6, <1>7, <1>8, <1>9 DEF IInv

\* A replica stores a microblock, its own or one it was sent.
Stores(n, h) ==
  /\ am' = [am EXCEPT ![n] = AddMicroblock(@, h, Sender[h])]
  /\ \A k \in Node : receivedMBs[k] \subseteq receivedMBs'[k]
  /\ made' = made \cup {h}
  /\ Sender[h] = n \/ am[Sender[h]].microblockMap[h] = "real"

StoredWell(n, h) ==
  /\ LocalStep(n, AddMicroblock(am[n], h, Sender[h]))
  /\ n \in Holders(h)'
  /\ CountsHolders' /\ SavedSound' /\ FakesForeign'
  /\ am'[n].ackMap =
       IF h \in Known(am[n]) THEN am[n].ackMap ELSE [am[n].ackMap EXCEPT ![h] = {Sender[h]}]
  /\ \A k \in Node : Known(am[k])' \subseteq made'
  /\ \A k \in Node : am[k].pendingMicroblocks \cup am[k].stableMBs \subseteq
                       am'[k].pendingMicroblocks \cup am'[k].stableMBs
  /\ h \notin Known(am[n]) => h \in am'[n].pendingMicroblocks

\* Storing a microblock that its sender has keeps the counts, the saved lists and
\* the fakes right.
LEMMA StoreStep ==
  ASSUME IInv, NEW n \in Node, NEW h \in Hash, Stores(n, h)
  PROVE  StoredWell(n, h)
<1> DEFINE m == am[n]
           s == Sender[h]
           m2 == AddMicroblock(m, h, s)
<1>0. s \in Node
  BY SenderAssumption
<1>1. Ok(m) /\ am \in [Node -> AckMemType] /\ m \in AckMemType /\ m.ackBuffer[h] = {}
  BY DEF IInv, TypeOK, Consistent, NoEarlyAck
<1>2. Ok(m2)
  BY <1>0, <1>1, AddMicroblockOk
<1>3. /\ m2.microblockMap = [m.microblockMap EXCEPT ![h] = "real"]
      /\ m2.ackBuffer = m.ackBuffer /\ m2.StableBuffer = m.StableBuffer
      /\ m2.stableMBs = m.stableMBs /\ m2.stableMicroblocks = m.stableMicroblocks
      /\ m2.pendingMicroblocks =
           m.pendingMicroblocks \cup (IF m.microblockMap[h] = "none" THEN {h} ELSE {})
      /\ m2.ackMap = IF m.microblockMap[h] = "none" THEN [m.ackMap EXCEPT ![h] = {s}] ELSE m.ackMap
      /\ m2.ackNum = IF m.microblockMap[h] = "none" THEN [m.ackNum EXCEPT ![h] = 1] ELSE m.ackNum
  <2>1. StoredEffect(m, m2, h, s)
    BY <1>0, <1>1, StoreEffect
  <2> HIDE DEF m2, s, m
  <2> QED BY <2>1 DEF StoredEffect
<1>4. /\ am' = [am EXCEPT ![n] = m2] /\ made' = made \cup {h}
      /\ \A k \in Node : receivedMBs[k] \subseteq receivedMBs'[k]
      /\ s = n \/ am[s].microblockMap[h] = "real"
  BY DEF Stores
<1> HIDE DEF m2
<1>5. Keeps(m, m2)
  BY <1>1, <1>3 DEF Keeps, AckMemType
<1>6. LocalStep(n, m2)
  BY <1>2, <1>4, <1>5 DEF LocalStep
<1>7. /\ am'[n] = m2 /\ \A k \in Node \ {n} : am'[k] = am[k]
      /\ \A g \in Hash : Holders(g) \subseteq Holders(g)'
      /\ \A k \in Node : am[k].stableMBs \subseteq am'[k].stableMBs
      /\ (\A g \in Hash : Counts(n, g)') => CountsHolders'
      /\ (\A g \in Hash : Saved(n, g)') => SavedSound'
      /\ (\A g \in Hash : Foreign(n, g)') => FakesForeign'
  BY <1>6, Frame
<1>8. n \in Holders(h)' /\ s \in Holders(h)'
  <2>1. am'[n].microblockMap[h] = "real"
    BY <1>1, <1>3, <1>7 DEF AckMemType
  <2>2. s # n => am'[s].microblockMap[h] = "real"
    BY <1>0, <1>4, <1>7
  <2> QED BY <1>0, <2>1, <2>2 DEF Holders
<1>9. ASSUME NEW g \in Hash PROVE Counts(n, g)'
  <2>1. Counts(n, g) /\ Holders(g) \subseteq Holders(g)' /\ m.ackMap[g] \subseteq Node
    BY <1>1, <1>7 DEF IInv, CountsHolders, AckMemType
  <2>2. CASE g = h /\ m.microblockMap[h] = "none"
    <3>1. am'[n].ackMap[g] = {s} /\ am'[n].ackNum[g] = 1
      <4>1. /\ m.ackMap \in [Hash -> SUBSET Node] /\ m.ackNum \in [Hash -> Nat]
            /\ m2.ackMap = [m.ackMap EXCEPT ![h] = {s}] /\ m2.ackNum = [m.ackNum EXCEPT ![h] = 1]
        BY <1>1, <1>3, <2>2 DEF AckMemType
      <4> QED BY <1>7, <2>2, <4>1
    <3>2. Cardinality({s}) = 1
      BY FS_Singleton
    <3> QED BY <1>8, <2>2, <3>1, <3>2 DEF Counts
  <2>3. CASE ~ (g = h /\ m.microblockMap[h] = "none")
    <3>1. am'[n].ackMap[g] = m.ackMap[g] /\ am'[n].ackNum[g] = m.ackNum[g]
      <4>1. m.ackMap \in [Hash -> SUBSET Node] /\ m.ackNum \in [Hash -> Nat]
        BY <1>1 DEF AckMemType
      <4>2. CASE m.microblockMap[h] # "none"
        BY <1>3, <1>7, <4>2
      <4>3. CASE m.microblockMap[h] = "none"
        <5>1. m2.ackMap = [m.ackMap EXCEPT ![h] = {s}] /\ m2.ackNum = [m.ackNum EXCEPT ![h] = 1]
          BY <1>3, <4>3
        <5> QED BY <1>7, <2>3, <4>1, <4>3, <5>1
      <4> QED BY <4>2, <4>3
    <3> QED BY <1>4, <2>1, <3>1 DEF Counts
  <2> QED BY <2>2, <2>3
<1>10. ASSUME NEW g \in Hash PROVE Saved(n, g)'
  <2>1. Saved(n, g) /\ Holders(g) \subseteq Holders(g)' /\ Sender[g] \in Node
    BY <1>7, SenderAssumption DEF IInv, SavedSound
  <2> QED BY <1>3, <1>7, <2>1 DEF Saved
<1>11. ASSUME NEW g \in Hash PROVE Foreign(n, g)'
  <2>1. Foreign(n, g)
    BY DEF IInv, FakesForeign
  <2>2. FakeListed(m2) = FakeListed(m)
    BY <1>3 DEF FakeListed
  <2>3. m2.microblockMap[g] = "fake" => m.microblockMap[g] = "fake"
    BY <1>1, <1>3 DEF AckMemType
  <2> QED BY <1>3, <1>7, <2>1, <2>2, <2>3 DEF Foreign, HasFake
<1>12. \A k \in Node : Known(am[k])' \subseteq made'
  <2>1. Known(m2) \subseteq Known(m) \cup {h}
    BY <1>1, <1>3 DEF Known, AckMemType
  <2>2. \A k \in Node : Known(am[k]) \subseteq made
    BY DEF IInv, OnlyMade
  <2>3. \A k \in Node : Known(am'[k]) \subseteq Known(am[k]) \cup {h}
    BY <1>7, <2>1
  <2>4. \A k \in Node : Known(am[k])' = Known(am'[k])
    BY DEF Known
  <2> QED BY <1>4, <2>2, <2>3, <2>4
<1>13. h \in Known(m) <=> m.microblockMap[h] # "none"
  BY DEF Known
<1>14. am'[n].ackMap = IF h \in Known(m) THEN m.ackMap ELSE [m.ackMap EXCEPT ![h] = {s}]
  BY <1>3, <1>7, <1>13
<1>15. \A k \in Node : am[k].pendingMicroblocks \cup am[k].stableMBs \subseteq
                         am'[k].pendingMicroblocks \cup am'[k].stableMBs
  BY <1>3, <1>7
<1>16. h \notin Known(m) => h \in am'[n].pendingMicroblocks
  BY <1>3, <1>7, <1>13
<1> QED BY <1>6, <1>7, <1>8, <1>9, <1>10, <1>11, <1>12, <1>14, <1>15, <1>16 DEF m2, StoredWell

\* A microblock becomes stable at replica n, whose mempool was m and is m2 now,
\* with the list A of replicas that acked.
Completes(n, m2, h, A, fake) ==
  /\ LocalStep(n, m2)
  /\ StableEffect(am[n], m2, h, A, fake)
  /\ A \subseteq Holders(h) /\ Cardinality(A) >= Q
  /\ n = Sender[h] \/ h \in am[Sender[h]].stableMBs
  /\ fake => n \notin A
  /\ m2.microblockMap = IF fake THEN [am[n].microblockMap EXCEPT ![h] = "fake"] ELSE am[n].microblockMap
  /\ h \notin am[n].stableMBs

\* Becoming stable keeps the counts, the saved lists and the fakes right.
LEMMA CompletesStep ==
  ASSUME IInv, NEW n \in Node, NEW h \in Hash, NEW A \in SUBSET Node, NEW fake \in BOOLEAN,
         NEW m2, Completes(n, m2, h, A, fake)
  PROVE  CountsHolders' /\ SavedSound' /\ FakesForeign'
<1> DEFINE m == am[n]
<1>1. /\ LocalStep(n, m2) /\ A \subseteq Holders(h) /\ Cardinality(A) >= Q
      /\ n = Sender[h] \/ h \in am[Sender[h]].stableMBs
      /\ fake => n \notin A
      /\ m2.microblockMap = IF fake THEN [m.microblockMap EXCEPT ![h] = "fake"] ELSE m.microblockMap
      /\ m2.stableMBs = m.stableMBs \cup {h} /\ h \notin m.stableMBs
      /\ m2.ackMap = [m.ackMap EXCEPT ![h] = {}]
      /\ m2.ackNum = [m.ackNum EXCEPT ![h] = 0]
      /\ m2.StableBuffer = [m.StableBuffer EXCEPT ![h] = A]
      /\ FakeListed(m2) = FakeListed(m) \cup (IF fake THEN {h} ELSE {})
  BY DEF Completes, StableEffect
<1>2. /\ am'[n] = m2 /\ \A k \in Node \ {n} : am'[k] = am[k]
      /\ \A g \in Hash : Holders(g) \subseteq Holders(g)'
      /\ \A k \in Node : am[k].stableMBs \subseteq am'[k].stableMBs
      /\ (\A g \in Hash : Counts(n, g)') => CountsHolders'
      /\ (\A g \in Hash : Saved(n, g)') => SavedSound'
      /\ (\A g \in Hash : Foreign(n, g)') => FakesForeign'
  BY <1>1, Frame
<1>3. m \in AckMemType /\ \A k \in Node : receivedMBs[k] \subseteq receivedMBs'[k]
  BY <1>1 DEF IInv, TypeOK, LocalStep
<1>4. ASSUME NEW g \in Hash PROVE Counts(n, g)'
  <2>1. Counts(n, g) /\ Holders(g) \subseteq Holders(g)' /\ m.ackMap[g] \subseteq Node
    BY <1>2, <1>3 DEF IInv, CountsHolders, AckMemType
  <2>2. CASE g = h
    <3>1. am'[n].ackMap[g] = {} /\ am'[n].ackNum[g] = 0
      BY <1>1, <1>2, <1>3, <2>2 DEF AckMemType
    <3> QED BY <3>1, FS_EmptySet DEF Counts
  <2>3. CASE g # h
    <3>1. am'[n].ackMap[g] = m.ackMap[g] /\ am'[n].ackNum[g] = m.ackNum[g]
      BY <1>1, <1>2, <1>3, <2>3 DEF AckMemType
    <3> QED BY <1>3, <2>1, <3>1 DEF Counts
  <2> QED BY <2>2, <2>3
<1>5. ASSUME NEW g \in Hash PROVE Saved(n, g)'
  <2>1. Saved(n, g) /\ Holders(g) \subseteq Holders(g)' /\ Sender[g] \in Node
    BY <1>2, SenderAssumption DEF IInv, SavedSound
  <2>2. CASE g = h
    <3>1. am'[n].StableBuffer[g] = A /\ h \in am'[n].stableMBs
      BY <1>1, <1>2, <1>3, <2>2 DEF AckMemType
    <3>2. h \in am'[Sender[h]].stableMBs
      BY <1>1, <1>2, <2>1, <2>2, <3>1
    <3> QED BY <1>1, <2>1, <2>2, <3>1, <3>2 DEF Saved
  <2>3. CASE g # h
    <3>1. am'[n].StableBuffer[g] = m.StableBuffer[g] /\ (g \in am'[n].stableMBs => g \in m.stableMBs)
      <4>1. m.StableBuffer \in [Hash -> SUBSET Node]
        BY <1>3 DEF AckMemType
      <4>2. /\ m2.StableBuffer = [m.StableBuffer EXCEPT ![h] = A]
            /\ m2.stableMBs = m.stableMBs \cup {h}
        BY <1>1
      <4>3. m2.StableBuffer[g] = m.StableBuffer[g] /\ (g \in m2.stableMBs => g \in m.stableMBs)
        BY <2>3, <4>1, <4>2
      <4> QED BY <1>2, <4>3
    <3> QED BY <1>2, <2>1, <3>1 DEF Saved
  <2> QED BY <2>2, <2>3
<1>6. ASSUME NEW g \in Hash PROVE Foreign(n, g)'
  <2>1. Foreign(n, g)
    BY DEF IInv, FakesForeign
  <2>2. CASE g = h
    <3>1. am'[n].StableBuffer[g] = A /\ h \in am'[n].stableMBs
      BY <1>1, <1>2, <1>3, <2>2 DEF AckMemType
    <3>2. CASE fake
      BY <1>1, <2>2, <3>1, <3>2 DEF Foreign
    <3>3. CASE ~fake
      <4>1. am'[n].microblockMap = m.microblockMap /\ FakeListed(am'[n]) = FakeListed(m)
        BY <1>1, <1>2, <3>3
      <4>2. ~ HasFake(n, h)
        BY <1>1, <2>1, <2>2 DEF Foreign
      <4> QED BY <2>2, <4>1, <4>2 DEF Foreign, HasFake
    <3> QED BY <3>2, <3>3
  <2>3. CASE g # h
    <3>1. am'[n].StableBuffer[g] = m.StableBuffer[g] /\ (g \in m.stableMBs => g \in am'[n].stableMBs)
      BY <1>1, <1>2, <1>3, <2>3 DEF AckMemType
    <3>2. am'[n].microblockMap[g] = m.microblockMap[g]
      <4>1. m.microblockMap \in [Hash -> Copy]
        BY <1>3 DEF AckMemType
      <4>2. m2.microblockMap = [m.microblockMap EXCEPT ![h] = "fake"] \/ m2.microblockMap = m.microblockMap
        BY <1>1
      <4>3. m2.microblockMap[g] = m.microblockMap[g]
        BY <2>3, <4>1, <4>2
      <4> QED BY <1>2, <4>3
    <3>3. g \in FakeListed(am'[n]) => g \in FakeListed(m)
      BY <1>1, <1>2, <2>3
    <3> QED BY <2>1, <3>1, <3>2, <3>3 DEF Foreign, HasFake
  <2> QED BY <2>2, <2>3
<1> QED BY <1>2, <1>4, <1>5, <1>6

\* A local step in which replica n forgets nothing it built, and comes to know
\* nothing that was not built.
LEMMA OnlyMadeStep ==
  ASSUME IInv, NEW n \in Node, NEW m2, LocalStep(n, m2), UNCHANGED <<made, outbox, mbs>>,
         Known(m2) \subseteq made,
         \A h \in made : Sender[h] = n => h \in m2.pendingMicroblocks \cup m2.stableMBs
  PROVE  OnlyMade'
<1>1. /\ am'[n] = m2 /\ \A k \in Node \ {n} : am'[k] = am[k]
      /\ \A g \in Hash : Holders(g) \subseteq Holders(g)'
  BY Frame
<1>2. OnlyMade /\ made \in SUBSET Hash
  BY DEF IInv, TypeOK
<1>3. \A k \in Node : Known(am[k])' \subseteq made'
  <2>1. \A k \in Node : Known(am'[k]) \subseteq made
    BY <1>1, <1>2 DEF OnlyMade
  <2>2. \A k \in Node : Known(am[k])' = Known(am'[k])
    BY DEF Known
  <2> QED BY <2>1, <2>2
<1>4. ASSUME NEW h \in made
      PROVE  /\ am'[Sender[h]].microblockMap[h] = "real"
             /\ h \in am'[Sender[h]].pendingMicroblocks \cup am'[Sender[h]].stableMBs
  <2>1. h \in Hash /\ Sender[h] \in Node
    BY <1>2, SenderAssumption
  <2>2. Sender[h] \in Holders(h)
    BY <1>2, <2>1 DEF OnlyMade, Holders
  <2>3. Sender[h] \in Holders(h)'
    BY <1>1, <2>1, <2>2
  <2>4. h \in am'[Sender[h]].pendingMicroblocks \cup am'[Sender[h]].stableMBs
    BY <1>1, <1>2, <2>1 DEF OnlyMade
  <2> QED BY <2>3, <2>4 DEF Holders
<1> QED BY <1>2, <1>3, <1>4 DEF OnlyMade

\* A local step with which the counts and the fakes shrink, and nothing becomes
\* stable or is saved: a proposal is built or fetched.
Shrinks(m, m2) ==
  /\ FakeListed(m2) \subseteq FakeListed(m)
  /\ m2.microblockMap = m.microblockMap /\ m2.ackBuffer = m.ackBuffer
  /\ m2.StableBuffer = m.StableBuffer /\ m2.stableMBs = m.stableMBs
  /\ \A h \in Hash : \/ m2.ackMap[h] = m.ackMap[h] /\ m2.ackNum[h] = m.ackNum[h]
                     \/ m2.ackMap[h] = {} /\ m2.ackNum[h] = 0

\* What a step of that kind preserves.
LEMMA ShrinksStep ==
  ASSUME IInv, NEW n \in Node, NEW m2, am' = [am EXCEPT ![n] = m2], Ok(m2),
         Shrinks(am[n], m2), UNCHANGED <<receivedMBs, acks>>
  PROVE  LocalStep(n, m2) /\ CountsHolders' /\ SavedSound' /\ FakesForeign' /\ AcksFresh'
<1> DEFINE m == am[n]
<1>1. /\ FakeListed(m2) \subseteq FakeListed(m)
      /\ m2.microblockMap = m.microblockMap /\ m2.ackBuffer = m.ackBuffer
      /\ m2.StableBuffer = m.StableBuffer /\ m2.stableMBs = m.stableMBs
  BY DEF Shrinks
<1>2. \A h \in Hash : \/ m2.ackMap[h] = m.ackMap[h] /\ m2.ackNum[h] = m.ackNum[h]
                      \/ m2.ackMap[h] = {} /\ m2.ackNum[h] = 0
  BY DEF Shrinks
<1>3. LocalStep(n, m2)
  BY <1>1 DEF LocalStep, Keeps
<1>4. /\ am'[n] = m2
      /\ \A g \in Hash : Holders(g) \subseteq Holders(g)'
      /\ \A k \in Node : am[k].stableMBs \subseteq am'[k].stableMBs
      /\ (\A g \in Hash : Counts(n, g)') => CountsHolders'
      /\ (\A g \in Hash : Saved(n, g)') => SavedSound'
      /\ (\A g \in Hash : Foreign(n, g)') => FakesForeign'
      /\ \A a \in acks : a.to # n => Fresh(a)'
  BY <1>3, Frame
<1>5. ASSUME NEW g \in Hash PROVE Counts(n, g)'
  <2>1. Counts(n, g) /\ Holders(g) \subseteq Holders(g)'
    BY <1>4 DEF IInv, CountsHolders
  <2>2. CASE am'[n].ackMap[g] = m.ackMap[g] /\ am'[n].ackNum[g] = m.ackNum[g]
    BY <2>1, <2>2 DEF Counts
  <2>3. CASE am'[n].ackMap[g] = {} /\ am'[n].ackNum[g] = 0
    BY <2>3, FS_EmptySet DEF Counts
  <2> QED BY <1>2, <1>4, <2>2, <2>3
<1>6. ASSUME NEW g \in Hash PROVE Saved(n, g)'
  <2>1. Saved(n, g) /\ Holders(g) \subseteq Holders(g)' /\ Sender[g] \in Node
    BY <1>4, SenderAssumption DEF IInv, SavedSound
  <2> QED BY <1>1, <1>4, <2>1 DEF Saved
<1>7. ASSUME NEW g \in Hash PROVE Foreign(n, g)'
  <2>1. Foreign(n, g)
    BY DEF IInv, FakesForeign
  <2> QED BY <1>1, <1>4, <2>1 DEF Foreign, HasFake
<1>8. AcksFresh'
  <2> SUFFICES ASSUME NEW a \in acks, a.to = n PROVE Fresh(a)'
    BY <1>4 DEF AcksFresh
  <2>1. Fresh(a) /\ a.hash \in Hash
    BY DEF IInv, AcksFresh, TypeOK, AckMsg
  <2>2. a.Receiver \notin am'[n].ackMap[a.hash]
    BY <1>2, <1>4, <2>1 DEF Fresh
  <2>3. a.Receiver \in Holders(a.hash)'
    BY <1>4, <2>1 DEF Fresh
  <2> QED BY <2>1, <2>2, <2>3 DEF Fresh
<1> QED BY <1>3, <1>4, <1>5, <1>6, <1>7, <1>8

=============================================================================
