----------------------------- MODULE Blockchain -----------------------------
(***************************************************************************)
(* The blocks, votes and levelled forest of one replica (package           *)
(* blockchain), as operators on its BlockChain record bc:                  *)
(*   LowestLevel       the level up to which the forest is pruned          *)
(*   containers        the views that have a vertex container              *)
(*   vertices          view -> the block in its container, or NoBlock      *)
(*                     (only a child has referred to it, or nobody has)    *)
(*   votes             view -> the replicas whose vote is recorded         *)
(*   committedBlockNo, prunedBlockNo   the measurements of GetChainGrowth  *)
(*                                                                         *)
(* A block is named by its view: its ID, its level and its slot in         *)
(* verticesAtLevel coincide.  HotStuff!OneBlockPerView shows that no two   *)
(* proposals share a view.  qc is the view of the block's QC and of its    *)
(* parent; 0 is the view of the QC that NewHotStuff makes, whose BlockID   *)
(* is that of no block.                                                    *)
(***************************************************************************)
EXTENDS Integers, Sequences, FiniteSets

CONSTANTS
  Node,      \* the replicas
  MaxView    \* bound: no view above it is entered

ASSUME MaxViewAssumption == MaxView \in Nat
ASSUME NodeAssumption == IsFiniteSet(Node) /\ Node # {}

View == 0..MaxView
Block == [view : 1..MaxView, qc : View, proposer : Node]
NoBlock == [view |-> 0]

NewBlockchain ==
  [LowestLevel |-> 0, containers |-> {}, vertices |-> [v \in View |-> NoBlock],
   votes |-> [v \in View |-> {}], committedBlockNo |-> 0, prunedBlockNo |-> 0]

-----------------------------------------------------------------------------
(* LevelledForest *)

GetVertex(bc, v) == bc.vertices[v] # NoBlock

getOrCreateVertexContainer(bc, v) == [bc EXCEPT !.containers = @ \cup {v}]

registerWithParent(bc, b) ==
  IF b.view <= bc.LowestLevel \/ b.qc < bc.LowestLevel THEN bc
  ELSE getOrCreateVertexContainer(bc, b.qc)

AddBlock(bc, b) ==
  IF b.view < bc.LowestLevel \/ GetVertex(bc, b.view) THEN bc
  ELSE registerWithParent(
         [getOrCreateVertexContainer(bc, b.view) EXCEPT !.vertices[b.view] = b], b)

\* What GetParentBlock returns without an error.
HasParentBlock(bc, v) == GetVertex(bc, v) /\ GetVertex(bc, bc.vertices[v].qc)
GetParentBlock(bc, v) == bc.vertices[bc.vertices[v].qc]

\* The levels PruneUpToLevel marks as committed when it starts from a level.
CommittedLevels(bc, level) ==
  LET from[l \in View] ==
        IF l < bc.LowestLevel \/ l <= 1 \/ ~HasParentBlock(bc, l)
           \/ bc.vertices[l].qc < bc.LowestLevel
        THEN {}
        ELSE {bc.vertices[l].qc} \cup from[bc.vertices[l].qc]
  IN  from[level]

Forked(bc, level) ==
  {l \in 2..(level - 1) : l >= bc.LowestLevel /\ GetVertex(bc, l)
                          /\ l \notin CommittedLevels(bc, level)}

Pruned(bc, level) == {l \in bc.containers : l < level}

\* Mutant of PruneUpToLevel: the level itself counts as pruned.
PruneIncluding(bc, level) ==
  [bc EXCEPT !.containers = @ \ Pruned(bc, level),
             !.vertices = [v \in View |-> IF v \in Pruned(bc, level) THEN NoBlock ELSE bc.vertices[v]],
             !.LowestLevel = level + 1,
             !.prunedBlockNo = @ + Cardinality(Pruned(bc, level))]

PruneUpToLevel(bc, level) ==
  [bc EXCEPT !.containers = @ \ Pruned(bc, level),
             !.vertices = [v \in View |-> IF v \in Pruned(bc, level) THEN NoBlock ELSE bc.vertices[v]],
             !.LowestLevel = level,
             !.prunedBlockNo = @ + Cardinality(Pruned(bc, level))]

\* An iteration of CommitBlock's walk down the chain: block is the next block, or 0
\* when its parent is unknown.
NextCommitted(bc, w) ==
  IF w.block <= bc.LowestLevel THEN w
  ELSE [block |-> IF HasParentBlock(bc, w.block) THEN bc.vertices[w.block].qc ELSE 0,
        list |-> Append(w.list, w.block)]

\* The blocks CommitBlock walks over, newest first.
CommittedChain(bc, v) ==
  LET walk[i \in View] ==
        IF i = 0 THEN [block |-> v, list |-> <<>>] ELSE NextCommitted(bc, walk[i - 1])
  IN  walk[MaxView].list

\* CommitBlock for a block of the forest; below LowestLevel it returns an error
\* and changes nothing.
CommitBlock(bc, v) ==
  LET chain == CommittedChain(bc, v)
      counted == [bc EXCEPT !.votes = [w \in View |-> IF \E i \in DOMAIN chain : chain[i] = w
                                                      THEN {} ELSE bc.votes[w]],
                            !.committedBlockNo = @ + Len(chain)]
  IN  IF v < bc.LowestLevel THEN bc ELSE PruneUpToLevel(counted, v)

-----------------------------------------------------------------------------
(* Quorum *)

size(bc, v) == Cardinality(bc.votes[v])

\* Mutant of superMajority: two thirds are enough.
TwoThirds(bc, v) == size(bc, v) >= (Cardinality(Node) * 2) \div 3

superMajority(bc, v) == size(bc, v) > (Cardinality(Node) * 2) \div 3

AddVote(bc, v, voter) ==
  IF superMajority(bc, v) THEN bc ELSE [bc EXCEPT !.votes[v] = @ \cup {voter}]

\* Mutant of QCBuilt: votes after the super majority build further QCs.
QCBuiltAgain(bc, v, voter) == superMajority(AddVote(bc, v, voter), v)

\* Add returns a QC: this vote completes the super majority.
QCBuilt(bc, v, voter) ==
  ~superMajority(bc, v) /\ superMajority(AddVote(bc, v, voter), v)
=============================================================================
