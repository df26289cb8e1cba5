---------------------------- MODULE HotStuffOps ----------------------------
(***************************************************************************)
(* The handlers of HotStuff, as operators on the record h of one replica.  *)
(* Besides the fields of Blockchain (in h.bc) and of PacemakerOps:         *)
(*   preferredView, highQC   views; a QC is named by the view it certifies *)
(*   bufferedQCs     the QCs that wait for their block                     *)
(*   bufferedBlocks  view -> the block of the next view that waits for it, *)
(*                   or NoBlock                                            *)
(*   committed, forked   what was sent to committedBlocks, forkedBlocks    *)
(*   out             the votes the current handler sends                   *)
(* and two histories: voted, the views it voted in, and built, the QCs it  *)
(* built from votes.                                                       *)
(*                                                                         *)
(* Signatures of correct replicas verify, so the signature checks and the  *)
(* Byzantine strategies (IsByz) have no counterpart here.                  *)
(***************************************************************************)
EXTENDS PacemakerOps, SequencesExt

NewHotStuff(n) ==
  LET pm == NewPacemaker(n)
  IN  [id |-> pm.id, curView |-> pm.curView, newViewChan |-> pm.newViewChan,
       timeouts |-> pm.timeouts,
       bc |-> NewBlockchain, preferredView |-> 0, highQC |-> 0, bufferedQCs |-> {},
       bufferedBlocks |-> [v \in View |-> NoBlock], committed |-> <<>>, forked |-> {},
       out |-> {}, voted |-> {}, built |-> <<>>]

\* updateLastVotedView has no caller.
lastVotedView == 0

updateHighQC(h, q) == IF q > h.highQC THEN [h EXCEPT !.highQC = q] ELSE h

\* updatePreferredView returns no error.
CanUpdatePreferredView(h, q) == q <= 2 \/ HasParentBlock(h.bc, q)

updatePreferredView(h, q) ==
  IF q > 2 /\ GetParentBlock(h.bc, q).view > h.preferredView
  THEN [h EXCEPT !.preferredView = GetParentBlock(h.bc, q).view]
  ELSE h

votingRule(h, b) ==
  b.view <= 2 \/ /\ HasParentBlock(h.bc, b.view)
                 /\ b.view > lastVotedView
                 /\ GetParentBlock(h.bc, b.view).view >= h.preferredView

commitRule(h, q) ==
  /\ HasParentBlock(h.bc, q)
  /\ HasParentBlock(h.bc, GetParentBlock(h.bc, q).view)
  /\ GetParentBlock(h.bc, q).view + 1 = q
  /\ GetParentBlock(h.bc, q - 1).view + 2 = q

\* CommitBlock and the channels it feeds.
Commit(h, v) ==
  [h EXCEPT !.bc = CommitBlock(@, v),
            !.committed = @ \o CommittedChain(h.bc, v),
            !.forked = @ \cup Forked(h.bc, v)]

processCertificate(h, q) ==
  LET g == updateHighQC(AdvanceView(updatePreferredView(h, q), q), q)
  IN  IF q < h.curView THEN h
      ELSE IF ~CanUpdatePreferredView(h, q)
      THEN [h EXCEPT !.bufferedQCs = @ \cup {q}]
      ELSE IF q < 3 \/ ~commitRule(g, q) THEN g
      ELSE Commit(g, q - 2)

processBufferedQC(h, v) ==
  IF v \notin h.bufferedQCs THEN h
  ELSE [processCertificate(h, v) EXCEPT !.bufferedQCs = @ \ {v}]

\* Mutant of ProcessVote: a QC whose block has not arrived is dropped.
ProcessVoteDropped(h, v, voter) ==
  LET g == [h EXCEPT !.bc = AddVote(@, v, voter)]
  IN  IF ~QCBuilt(h.bc, v, voter) \/ ~GetVertex(g.bc, v) THEN g
      ELSE processCertificate([g EXCEPT !.built = Append(@, v)], v)

ProcessVote(h, v, voter) ==
  LET g == [h EXCEPT !.bc = AddVote(@, v, voter)]
      k == [g EXCEPT !.built = Append(@, v)]
  IN  IF ~QCBuilt(h.bc, v, voter) THEN g
      ELSE IF ~GetVertex(g.bc, v) THEN [k EXCEPT !.bufferedQCs = @ \cup {v}]
      ELSE processCertificate(k, v)

SendVote(h, v) ==
  LET g == [h EXCEPT !.voted = @ \cup {v}]
  IN  IF IsLeader(h.id, v + 1) THEN ProcessVote(g, v, h.id)
      ELSE [g EXCEPT !.out = @ \cup {[to |-> FindLeaderFor(v + 1), view |-> v, voter |-> h.id]}]

\* ProcessBlock up to the test for a stale block: the QC of the block is processed.
ProcessQC(h, b) ==
  LET g == updateHighQC(h, b.qc)
  IN  IF b.proposer = h.id THEN g ELSE processCertificate(g, b.qc)

\* Mutant of Refused: a stale block is processed.
RefusedForeign(h, b) == ~IsLeader(b.proposer, b.view)

\* The block is stale, or not from the leader of its view.
Refused(h, b) == b.view < h.curView \/ ~IsLeader(b.proposer, b.view)

\* The block is stored and its buffered QC processed.
StoreBlock(h, b) == processBufferedQC([h EXCEPT !.bc = AddBlock(@, b)], b.view)

\* ProcessBlock up to its look at bufferedBlocks: h is the replica then, voted
\* tells whether it gets that far, and view is that of the block.
ProcessBlockAlone(h, b) ==
  LET g == ProcessQC(h, b)
      k == StoreBlock(g, b)
  IN  IF b.view > h.curView + 1
      THEN [h |-> [h EXCEPT !.bufferedBlocks[b.view - 1] = b], voted |-> FALSE, view |-> b.view]
      ELSE IF Refused(g, b) THEN [h |-> g, voted |-> FALSE, view |-> b.view]
      ELSE IF ~votingRule(k, b) THEN [h |-> k, voted |-> FALSE, view |-> b.view]
      ELSE [h |-> SendVote(k, b.view), voted |-> TRUE, view |-> b.view]

\* The call of ProcessBlock for the buffered block of the next view, up to its own
\* look at bufferedBlocks.  The entry is deleted after the call, so that the block
\* is lost if it is buffered again; the calls below it use other entries.
ProcessBuffered(p) ==
  LET b == p.h.bufferedBlocks[p.view]
  IN  IF ~p.voted \/ b = NoBlock THEN p
      ELSE [ProcessBlockAlone(p.h, b) EXCEPT !.h.bufferedBlocks[p.view] = NoBlock]

\* Every call of ProcessBlock for a buffered block is for the next view.
ProcessBlock(h, b) ==
  LET call[i \in View] ==
        IF i = 0 THEN ProcessBlockAlone(h, b) ELSE ProcessBuffered(call[i - 1])
  IN  call[MaxView].h

processTC(h, v) == AdvanceView(h, v)

ProcessRemoteTmo(h, tmo) ==
  LET g == processCertificate(h, tmo.HighQC)
      k == RecordTmo(g, tmo.View, tmo.NodeID)
  IN  IF TCBuilt(g, tmo.View, tmo.NodeID) THEN processTC(k, tmo.View) ELSE k

\* Mutant of LocalTmo: the TMO is for the view that timed out.
LocalTmoLeft(h, v) == [View |-> v, NodeID |-> h.id, HighQC |-> h.highQC]

\* The TMO that ProcessLocalTmo(v) broadcasts.
LocalTmo(h, v) == [View |-> v + 1, NodeID |-> h.id, HighQC |-> h.highQC]

ProcessLocalTmo(h, v) ==
  LET g == AdvanceView(h, v) IN ProcessRemoteTmo(g, LocalTmo(g, v))

\* MakeProposal with the fork choice of a correct replica.
MakeProposal(h, v) == [view |-> v, qc |-> h.highQC, proposer |-> h.id]
=============================================================================
