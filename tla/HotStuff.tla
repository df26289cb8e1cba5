------------------------------ MODULE HotStuff ------------------------------
(***************************************************************************)
(* Chained HotStuff among the replicas: proposals, votes and timeouts.     *)
(*                                                                         *)
(* A replica takes one event at a time from eventChan; the goroutine of    *)
(* ListenLocalEvent hands it the entered views and runs ProcessLocalTmo    *)
(* itself, with the view it read before (timer[n]).  Messages in flight    *)
(* are sets: each is delivered at most once, in any order, perhaps never.  *)
(* A proposal that is held back until FetchMB has its microblocks is one   *)
(* that is delivered late.                                                 *)
(***************************************************************************)
EXTENDS HotStuffOps

CONSTANT MaxTimeouts    \* bound: how often the timers fire

ASSUME MaxTimeoutsAssumption == MaxTimeouts \in Nat

VARIABLES
  hs,          \* hs[n]: the state of replica n
  timer,       \* timer[n]: the view ListenLocalEvent read when its timer fired, or Idle
  fired,       \* how often the timers have fired
  proposals,   \* proposals in flight
  votes,       \* votes in flight
  tmos,        \* TMOs in flight
  proposedNo,  \* proposedNo[n]: how often n has proposed
  proposed     \* history: the blocks proposed

vars == <<hs, timer, fired, proposals, votes, tmos, proposedNo, proposed>>

Idle == -1

Init ==
  /\ hs = [n \in Node |-> NewHotStuff(n)]
  /\ timer = [n \in Node |-> Idle]
  /\ fired = 0
  /\ proposals = {} /\ votes = {} /\ tmos = {}
  /\ proposedNo = [n \in Node |-> 0] /\ proposed = {}

\* ProcessBlock changes nothing for a block of a view that the receiver has left when
\* the block's QC is not news either, which stays so: such a proposal leaves the
\* network.
CurrentProposals(ps, H) ==
  {p \in ps : \/ p.block.view >= H[p.to].curView
              \/ p.block.qc >= H[p.to].curView \/ p.block.qc > H[p.to].highQC}

\* HandleVote and HandleTmo return at once when the message is for a view that
\* the receiver has left; such a message leaves the network in the same way.
CurrentVotes(vs, H) == {m \in vs : m.view >= H[m.to].curView}
CurrentTmos(ts, H) == {m \in ts : m.tmo.View >= H[m.to].curView}

\* The message that passed the test of HandleVote or HandleTmo before n left its view:
\* the handle goroutine waits with it for the event loop and takes no other message.
\* A TMO whose HighQC is behind as well has no effect any more.
Overtaken(n, h, vs, ts) ==
  {m \in vs : m.to = n /\ m.view < h.curView}
  \cup {m \in ts : m.to = n /\ m.tmo.View < h.curView /\ m.tmo.HighQC >= h.curView}

Waiting(n) == Overtaken(n, hs[n], votes, tmos)

\* Replica n goes to h; the proposals ps, the votes vs and those that h sends, and
\* the TMOs ts are under way then.  One message may wait, and the one that waits stays.
Become(n, h, ps, vs, ts) ==
  /\ hs' = [hs EXCEPT ![n] = [h EXCEPT !.out = {}]]
  /\ proposals' = CurrentProposals(ps, hs')
  /\ LET waits == Waiting(n) \cap (vs \cup ts)
     IN  \E late \in IF waits # {} THEN {waits}
                     ELSE {{}} \cup {{m} : m \in Overtaken(n, h, vs, ts)} :
           /\ votes' = CurrentVotes(vs \cup h.out, hs')
                         \cup {m \in vs : m \in late \/ m.to # n}
           /\ tmos' = CurrentTmos(ts, hs') \cup {m \in ts \cap tmos : m \in late \/ m.to # n}

\* kickOff: the first leader enters view 1 with its first microblock.
KickOff(n) ==
  /\ hs[n].curView = 0 /\ IsLeader(n, 1)
  /\ Become(n, AdvanceView(hs[n], 0), proposals, votes, tmos)
  /\ UNCHANGED <<timer, fired, proposedNo, proposed>>

proposeBlock(n, h, v) ==
  LET b == MakeProposal(h, v)
  IN  /\ Become(n, ProcessBlock(h, b),
                proposals \cup {[to |-> m, block |-> b] : m \in Node \ {n}}, votes, tmos)
      /\ proposedNo' = [proposedNo EXCEPT ![n] = @ + 1]
      /\ proposed' = proposed \cup {b}

\* Mutant of NewView: the view stays in newViewChan.
NewViewKept(n) ==
  /\ timer[n] = Idle /\ hs[n].newViewChan # <<>>
  /\ proposeBlock(n, hs[n], Head(hs[n].newViewChan))
  /\ UNCHANGED <<timer, fired>>

\* ListenLocalEvent hands the entered views to the event loop.
NewView(n) ==
  /\ timer[n] = Idle /\ hs[n].newViewChan # <<>>
  /\ proposeBlock(n, [hs[n] EXCEPT !.newViewChan = Tail(@)], Head(hs[n].newViewChan))
  /\ UNCHANGED <<timer, fired>>

HandleProposal(p) ==
  /\ Waiting(p.to) = {}
  /\ Become(p.to, ProcessBlock(hs[p.to], p.block), proposals \ {p}, votes, tmos)
  /\ UNCHANGED <<timer, fired, proposedNo, proposed>>

HandleVote(m) ==
  /\ Waiting(m.to) \subseteq {m}
  /\ Become(m.to, ProcessVote(hs[m.to], m.view, m.voter), proposals, votes \ {m}, tmos)
  /\ UNCHANGED <<timer, fired, proposedNo, proposed>>

HandleTmo(m) ==
  /\ Waiting(m.to) \subseteq {m}
  /\ Become(m.to, ProcessRemoteTmo(hs[m.to], m.tmo), proposals, votes, tmos \ {m})
  /\ UNCHANGED <<timer, fired, proposedNo, proposed>>

TimerFires(n) ==
  /\ timer[n] = Idle /\ fired < MaxTimeouts /\ hs[n].curView < MaxView
  /\ timer' = [timer EXCEPT ![n] = hs[n].curView]
  /\ fired' = fired + 1
  /\ UNCHANGED <<hs, proposals, votes, tmos, proposedNo, proposed>>

LocalTimeout(n) ==
  LET v == timer[n]
      tmo == LocalTmo(AdvanceView(hs[n], v), v)
  IN  /\ v # Idle
      /\ timer' = [timer EXCEPT ![n] = Idle]
      /\ Become(n, ProcessLocalTmo(hs[n], v), proposals, votes,
                tmos \cup {[to |-> m, tmo |-> tmo] : m \in Node \ {n}})
      /\ UNCHANGED <<fired, proposedNo, proposed>>

Next ==
  \/ \E n \in Node : KickOff(n) \/ NewView(n) \/ TimerFires(n) \/ LocalTimeout(n)
  \/ \E p \in proposals : HandleProposal(p)
  \/ \E m \in votes : HandleVote(m)
  \/ \E m \in tmos : HandleTmo(m)

Spec == Init /\ [][Next]_vars

-----------------------------------------------------------------------------
TypeOK ==
  /\ \A n \in Node :
       /\ hs[n].curView \in 0..(MaxView + 1)
       /\ hs[n].highQC \in 0..MaxView
       /\ hs[n].bufferedQCs \subseteq 1..MaxView
       /\ \A v \in View : hs[n].bufferedBlocks[v] # NoBlock => hs[n].bufferedBlocks[v].view = v + 1
  /\ timer \in [Node -> Idle..MaxView]
  /\ fired \in 0..MaxTimeouts
  /\ proposals \subseteq [to : Node, block : Block]
  /\ votes \subseteq [to : Node, view : 1..MaxView, voter : Node]
  /\ tmos \subseteq [to : Node, tmo : [View : 1..MaxView, NodeID : Node, HighQC : 0..MaxView]]
  /\ proposedNo \in [Node -> Nat] /\ proposed \subseteq Block

\* At most one proposal is made for a view, so that a view names a block and the
\* assumption of PruneUpToLevel, one vertex per level, holds: a leader gets each
\* view from newViewChan once, however timeouts, TCs and QCs move it.  (A second
\* proposal on the same QC would be a block of its own, with another payload; it is
\* the number of proposals that tells.)
OneBlockPerView ==
  /\ \A b, c \in proposed : b.view = c.view => b = c
  /\ \A n \in Node : proposedNo[n] = Cardinality({b \in proposed : b.proposer = n})

\* Every QC that was built or that anybody holds stands for the votes of a super
\* majority.
QCs ==
  UNION {{hs[n].highQC} \cup hs[n].bufferedQCs \cup ToSet(hs[n].built) : n \in Node}
    \cup {b.qc : b \in proposed}
QCBackedByVotes ==
  \A q \in QCs \ {0} :
    3 * Cardinality({n \in Node : q \in hs[n].voted}) > 2 * Cardinality(Node)

\* A replica builds at most one QC per block, even when CommitBlock has deleted
\* the votes and more of them arrive.
QCBuiltOnce == \A n \in Node : IsInjective(hs[n].built)

\* A block that has a QC extends an earlier view.  A leader that is behind may
\* propose for a view on top of a later one (forkChoice takes highQC), but such a
\* block never gets a super majority: whoever voted for the later block refuses it.
QCsDescend == \A b \in proposed : b.view \in QCs => b.qc < b.view

-----------------------------------------------------------------------------
Ledgers == INSTANCE Ledger WITH frontier <- [n \in Node |-> hs[n].bc.LowestLevel],
                               ledger <- [n \in Node |-> hs[n].committed]

\* The commits of each replica implement Ledger: pruning and committing move
\* together, over missing blocks, forks and QCs that arrive late.
LedgerRefined == Ledgers!Spec

\* Nothing is left to do unless a timer fires.  Every other step uses up a
\* message, an entered view or a timeout, so that a run without timeouts gets here.
Quiet ==
  /\ proposals = {} /\ votes = {} /\ tmos = {}
  /\ \A n \in Node : /\ hs[n].curView > 0 /\ timer[n] = Idle
                     /\ hs[n].newViewChan = <<>>

\* Without timeouts every block but the last three is committed by every replica
\* in the end, in whatever order the network delivers
\* proposals and votes.
QuietMeansCommitted ==
  Quiet /\ fired = 0 => \A n \in Node : 1..(MaxView - 3) \subseteq ToSet(hs[n].committed)
=============================================================================
