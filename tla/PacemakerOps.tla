---------------------------- MODULE PacemakerOps ----------------------------
(***************************************************************************)
(* The pacemaker of one replica and the leader election, as operators on   *)
(* a record pm with the fields                                             *)
(*   id            the replica                                             *)
(*   curView       the current view                                        *)
(*   newViewChan   the channel of entered views, oldest first              *)
(*   timeouts      view -> the replicas whose TMO for it is recorded       *)
(* HotStuff passes the record of the whole replica, which has them too.    *)
(***************************************************************************)
EXTENDS Blockchain

CONSTANTS
  LastNode, \* the replica with the highest ID: identity.NewNodeID(peerNo)
  Hashed     \* Hashed[v]: the replica that sha1(v + 1) picks

ASSUME LastAssumption == LastNode \in Node
ASSUME HashedAssumption == Hashed \in [1..(MaxView + 2) -> Node]

\* Rotation: the first three views have the same leader.
FindLeaderFor(v) == IF v <= 3 THEN LastNode ELSE Hashed[v]
IsLeader(n, v) == n = FindLeaderFor(v)

NewPacemaker(n) ==
  [id |-> n, curView |-> 0, newViewChan |-> <<>>, timeouts |-> [v \in View |-> {}]]

\* What entering view v leaves in newViewChan: processNewView returns at once for a
\* view that n does not lead, so that those views leave the channel as they are
\* entered.  (No view above MaxView is proposed for.)
ViewsToLead(n, v) == IF IsLeader(n, v) /\ v <= MaxView THEN <<v>> ELSE <<>>

\* Mutant of AdvanceView: a view that was left is entered again.
AdvanceViewAgain(pm, v) ==
  [pm EXCEPT !.curView = v + 1, !.newViewChan = @ \o ViewsToLead(pm.id, v + 1)]

AdvanceView(pm, v) ==
  IF v < pm.curView THEN pm
  ELSE [pm EXCEPT !.curView = v + 1, !.newViewChan = @ \o ViewsToLead(pm.id, v + 1)]

TmoMajority(pm, v) == Cardinality(pm.timeouts[v]) > (Cardinality(Node) * 2) \div 3

AddTmo(pm, v, n) ==
  IF TmoMajority(pm, v) THEN pm ELSE [pm EXCEPT !.timeouts[v] = @ \cup {n}]

\* Pacemaker.ProcessRemoteTmo: a TMO for a view that was left is ignored.
RecordTmo(pm, v, n) == IF v < pm.curView THEN pm ELSE AddTmo(pm, v, n)

\* Pacemaker.ProcessRemoteTmo returns a TC: this TMO completes the majority.
TCBuilt(pm, v, n) == v >= pm.curView /\ ~TmoMajority(pm, v) /\ TmoMajority(AddTmo(pm, v, n), v)
=============================================================================
