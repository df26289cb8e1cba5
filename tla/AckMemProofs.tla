---------------------------- MODULE AckMemProofs ----------------------------
(***************************************************************************)
(* AckMem keeps its indexes consistent and implements MicroblockLife.      *)
(***************************************************************************)
EXTENDS AckMem, AckMemLemmas

\* Every call of a method keeps the mempool consistent and moves microblocks
\* forward.
LEMMA NextOk ==
  ASSUME Ok(am), Next
  PROVE  Ok(am') /\ Forward(am, am')
<1>1. CASE DoAddMicroblock
  BY <1>1, AddMicroblockOk DEF DoAddMicroblock
<1>2. CASE DoAddAck
  BY <1>2, AddAckOk DEF DoAddAck
<1>3. CASE DoAddStable
  BY <1>3, AddStableOk DEF DoAddStable
<1>4. CASE DoHandleMissingStableMb
  BY <1>4, HandleMissingStableMbOk DEF DoHandleMissingStableMb
<1>5. CASE DoGeneratePayload
  BY <1>5, GeneratePayloadOk DEF DoGeneratePayload
<1>6. CASE DoFetchMB
  BY <1>6, FetchMBOk DEF DoFetchMB
<1> QED BY <1>1, <1>2, <1>3, <1>4, <1>5, <1>6 DEF Next

IInv == Ok(am)

\* The inductive invariant holds in every reachable state of a mempool,
\* whatever the order of its clients' calls.
THEOREM Invariance == Spec => []IInv
<1>1. Init => IInv
  BY NewAckMemOk DEF Init, IInv
<1>2. IInv /\ [Next]_am => IInv'
  BY NextOk DEF IInv
<1> QED BY <1>1, <1>2, PTL DEF Spec

\* The fields of an AckMem keep their types.
THEOREM TypeCorrect == Spec => []TypeOK
<1>1. IInv => TypeOK
  BY DEF IInv, Ok, TypeOK
<1> QED BY <1>1, Invariance, PTL

\* The indexes of AckMem agree in every reachable state: no hash is queued
\* twice, or pending and stable at once.
THEOREM IndexesConsistent == Spec => []StableOnce
<1>1. IInv => StableOnce
  BY DEF IInv, Ok, StableOnce
<1> QED BY <1>1, Invariance, PTL

\* TotalStableMbs is the number of stable microblocks.
THEOREM CounterExact == Spec => []StableCount
<1>1. IInv => StableCount
  BY DEF IInv, Ok, StableCount
<1> QED BY <1>1, Invariance, PTL

\* A microblock with Q counted acks is never left in the pending map.
THEOREM ThresholdActs == Spec => []NoStuckPending
<1>1. IInv => NoStuckPending
  BY DEF IInv, Ok, NoStuckPending
<1> QED BY <1>1, Invariance, PTL

\* A step that moves every microblock forward is a step of MicroblockLife.
LEMMA ForwardIsLife ==
  ASSUME Forward(am, am')
  PROVE  Life!Next
<1>1. Phase(am)' \in [Hash -> Life!Phases]
  BY DEF Phase, Life!Phases
<1>2. ASSUME NEW h \in Hash, Phase(am)'[h] # Phase(am)[h]
      PROVE  Life!Advance(h)
  <2>1. Phase(am)'[h] \in Life!Phases
    BY <1>1
  <2>2. Phase(am)' = Phase(am')
    BY DEF Phase
  <2>3. CASE Phase(am)[h] = "unknown"
    BY <2>1, <2>3 DEF Life!Advance
  <2>4. CASE Phase(am)[h] = "pending"
    <3>1. Phase(am')[h] # "unknown"
      BY <2>4 DEF Phase, Forward
    <3> QED BY <1>2, <2>1, <2>2, <2>4, <3>1 DEF Life!Advance, Life!Phases
  <2>5. CASE Phase(am)[h] = "queued"
    <3>1. Phase(am')[h] \notin {"unknown", "pending"}
      BY <2>5 DEF Phase, Forward
    <3> QED BY <1>2, <2>1, <2>2, <2>5, <3>1 DEF Life!Advance, Life!Phases
  <2>6. CASE Phase(am)[h] = "retired"
    <3>1. Phase(am')[h] = "retired"
      BY <2>6 DEF Phase, Forward
    <3> QED BY <1>2, <2>2, <2>6, <3>1
  <2>7. Phase(am)[h] \in {"unknown", "pending", "queued", "retired"}
    BY DEF Phase
  <2> QED BY <2>3, <2>4, <2>5, <2>6, <2>7
<1> QED BY <1>1, <1>2 DEF Life!Next

\* AckMem implements MicroblockLife: what a mempool offered to a proposal, or
\* fetched for one, never comes back to its queue.
THEOREM ImplementsLife == Spec => LifeSpec
<1>1. Init => Life!Init
  BY DEF Init, Life!Init, NewAckMem, Phase, Known
<1>2. IInv /\ [Next]_am => [Life!Next]_(Phase(am))
  <2>1. CASE Next /\ IInv
    BY <2>1, NextOk, ForwardIsLife DEF IInv
  <2>2. CASE UNCHANGED am
    BY <2>2
  <2> QED BY <2>1, <2>2
<1> QED BY <1>1, <1>2, Invariance, PTL DEF Spec, LifeSpec, Life!Spec
=============================================================================
