----------------------------- MODULE AckMemFill -----------------------------
(***************************************************************************)
(* AckMem with the operations of its interface that the replica does not   *)
(* call now that it uses FetchMB: FillProposal and its two variants for    *)
(* groups, which take the microblocks of a proposal out of the mempool,    *)
(* and the PendingBlock that collects what is missing.                     *)
(***************************************************************************)
EXTENDS AckMem, SequencesExt

VARIABLE pd    \* the last PendingBlock: its HashList, microblocks and MissingMap,
               \* and whether FillProposal made it, which lists what is missing

fillVars == <<am, pd>>

\* The copies of h that one turn of the loop over HashList takes: the pending one,
\* which is real, and the first one in the stable list.
CopiesOf(h) ==
  LET listed == SelectInSeq(am.stableMicroblocks, LAMBDA e : e.hash = h)
  IN  (IF h \in am.pendingMicroblocks THEN <<[hash |-> h, fake |-> FALSE]>> ELSE <<>>)
      \o (IF listed > 0 THEN <<am.stableMicroblocks[listed]>> ELSE <<>>)

\* The mempool without the copies that were taken: FetchMB leaves the same.
TakenOut(HashList) == FetchMB(am, ToSet(HashList))

NewPendingBlock(HashList, missing, lists) ==
  [HashList |-> HashList, missing |-> missing, lists |-> lists,
   microblocks |-> FlattenSeq([i \in 1..Len(HashList) |-> CopiesOf(HashList[i])])]

NoBlock == [HashList |-> <<>>, missing |-> {}, lists |-> TRUE, microblocks |-> <<>>]

FillInit == Init /\ pd = NoBlock

\* Mutant of FillProposal: a hash is missing when there is no pending entry.
FillProposalPending(HashList) ==
  /\ am' = TakenOut(HashList)
  /\ pd' = NewPendingBlock(HashList, {h \in ToSet(HashList) : h \notin am.pendingMicroblocks},
                           TRUE)

FillProposal(HashList) ==
  /\ am' = TakenOut(HashList)
  /\ pd' = NewPendingBlock(HashList, {h \in ToSet(HashList) : CopiesOf(h) = <<>>}, TRUE)

\* The variants look the same microblocks up and list nothing as missing.
FillProposalFromGroup(HashList) ==
  /\ am' = TakenOut(HashList)
  /\ pd' = NewPendingBlock(HashList, {}, FALSE)

FillProposalByGroup(HashList) ==
  /\ am' = TakenOut(HashList)
  /\ pd' = NewPendingBlock(HashList, {}, FALSE)

\* PendingBlock.AddMicroblock, for a microblock that arrives.
PendingAddMicroblock(h) ==
  /\ h \in pd.missing
  /\ pd' = [pd EXCEPT !.microblocks = Append(@, [hash |-> h, fake |-> FALSE]),
                      !.missing = @ \ {h}]
  /\ UNCHANGED am

HashLists == {s \in UNION {[1..n -> Hash] : n \in 0..Cardinality(Hash)} : IsInjective(s)}

\* The PendingBlock is completed or given up.  It has nothing to do with the
\* mempool once it is made, so it is followed to its end before the next call.
Leave == pd # NoBlock /\ pd' = NoBlock /\ UNCHANGED am

FillNext ==
  \/ /\ pd = NoBlock
     /\ \/ Next /\ UNCHANGED pd
        \/ \E s \in HashLists :
             FillProposal(s) \/ FillProposalFromGroup(s) \/ FillProposalByGroup(s)
  \/ \E h \in Hash : PendingAddMicroblock(h)
  \/ Leave

FillSpec == FillInit /\ [][FillNext]_fillVars

-----------------------------------------------------------------------------
\* The block that CompleteBlock builds has every microblock of the proposal once,
\* in whatever state of its life it was taken, and until then the missing ones are
\* exactly those the pending block does not have.  The variants for groups take
\* each microblock once too, but do not say what is missing.
BlockIsWhole ==
  LET got == [i \in 1..Len(pd.microblocks) |-> pd.microblocks[i].hash]
  IN  /\ IsInjective(got)
      /\ ToSet(got) \cap pd.missing = {}
      /\ ToSet(got) \cup pd.missing \subseteq ToSet(pd.HashList)
      /\ pd.lists => ToSet(pd.HashList) \subseteq ToSet(got) \cup pd.missing
=============================================================================
