------------------------- MODULE MCHotStuffSchedule -------------------------
(* HotStuff for TLC along a schedule: behaviours of Next that take, or begin *)
(* with, given steps in a fixed order.                                       *)
EXTENDS MCHotStuff

VARIABLE rest        \* the steps of the schedule that are still to be taken

Kick(n) == <<[act |-> "kick", n |-> n]>>
New(n) == <<[act |-> "new", n |-> n]>>
Expire(n) == <<[act |-> "fire", n |-> n], [act |-> "tmo", n |-> n]>>
\* Replica n receives the block of view v.
Receive(n, v) == <<[act |-> "block", n |-> n, view |-> v]>>
\* Replica n receives the TMO of m.
Hear(n, m) == <<[act |-> "remote", n |-> n, from |-> m]>>
\* Replica n receives the vote of m in view v.
Count(n, m, v) == <<[act |-> "vote", n |-> n, view |-> v, voter |-> m]>>

Take(s) ==
  CASE s.act = "kick" -> KickOff(s.n)
    [] s.act = "new" -> NewView(s.n)
    [] s.act = "fire" -> TimerFires(s.n)
    [] s.act = "tmo" -> LocalTimeout(s.n)
    [] s.act = "block" ->
         \E p \in proposals : p.to = s.n /\ p.block.view = s.view /\ HandleProposal(p)
    [] s.act = "remote" ->
         \E m \in tmos : m.to = s.n /\ m.tmo.NodeID = s.from /\ HandleTmo(m)
    [] s.act = "vote" ->
         \E m \in votes : m = [to |-> s.n, view |-> s.view, voter |-> s.voter] /\ HandleVote(m)

Follow == rest # <<>> /\ Take(Head(rest)) /\ rest' = Tail(rest)

\* Views 1 and 2 reach n1, n2 and n3.
Begin ==
  Kick(n4) \o New(n4) \o Receive(n1, 1) \o Receive(n2, 1) \o Receive(n3, 1)
  \o Count(n4, n1, 1) \o Count(n4, n3, 1) \o New(n4)
  \o Receive(n1, 2) \o Receive(n2, 2) \o Receive(n3, 2)
  \o Count(n4, n1, 2) \o Count(n4, n3, 2) \o New(n4)

\* n1 and n4 are in view 4 when they get the QC of view 3, and do not lock.
\* n3 commits block 2; later n2, n1 and n4 build the views 6, 7 and 8 on block 1.
ForkSchedule ==
  Begin \o Receive(n1, 3) \o Receive(n3, 3) \o Count(n3, n1, 3) \o Count(n3, n4, 3) \o New(n3)
  \o Expire(n1) \o Expire(n4) \o Receive(n1, 4) \o Receive(n4, 4)
  \o Count(n3, n1, 4) \o Count(n3, n4, 4)
  \o Expire(n2) \o Expire(n2) \o Expire(n2) \o Expire(n2) \o New(n2)
  \o Expire(n1) \o Expire(n4) \o Receive(n1, 6) \o Receive(n4, 6)
  \o Count(n2, n1, 6) \o Count(n2, n4, 6) \o New(n2)
  \o Expire(n1) \o Expire(n4) \o Receive(n1, 7) \o Receive(n4, 7)
  \o Count(n1, n2, 7) \o Count(n1, n4, 7) \o New(n1)
  \o Receive(n2, 8) \o Receive(n4, 8) \o Count(n4, n1, 8) \o Count(n4, n2, 8)

ForkSpec == Init /\ rest = ForkSchedule /\ [][Follow]_<<vars, rest>>

-----------------------------------------------------------------------------
\* Two ways in which n4 enters view 4, which it leads, and does not come to propose
\* before later views are under way.  All steps are possible from there on.

\* View v reaches n and m, and n4 builds its QC.
Round(v, n, m) ==
  New(n4) \o Receive(n, v) \o Receive(m, v) \o Count(n4, n, v) \o Count(n4, m, v)

\* n4 has the QC of view 3 when its timer fires; a TC takes n2 to view 6.
LateForTwo ==
  Kick(n4) \o Round(1, n1, n2) \o Round(2, n1, n2) \o Round(3, n1, n2)
  \o Expire(n4) \o Hear(n1, n4) \o Hear(n2, n4)
  \o Expire(n1) \o Expire(n2) \o Expire(n3) \o Hear(n2, n1) \o New(n2)
  \o Receive(n1, 6) \o Receive(n4, 6)

\* n4 has the QC of view 2 when its timer fires; a TC takes n3 to view 5.  n1 has no
\* block, and enters the views 3 and 4 by a TMO and a timeout.
LateForOne ==
  Kick(n4) \o Round(1, n2, n3) \o Round(2, n2, n3)
  \o Expire(n4) \o Hear(n1, n4) \o Hear(n2, n4) \o Hear(n3, n4)
  \o Expire(n1) \o Expire(n2) \o Expire(n3) \o Hear(n3, n2) \o New(n3)
  \o Receive(n2, 5) \o Receive(n4, 5)

LateInit == Init /\ rest \in {LateForOne, LateForTwo}
LateNext ==
  \/ Follow
  \/ rest = <<>> /\ Next /\ UNCHANGED rest

-----------------------------------------------------------------------------
\* The views of b and of its ancestors.
RECURSIVE Ancestry(_)
Ancestry(b) ==
  {b.view} \cup UNION {Ancestry(c) : c \in {d \in proposed : d.view = b.qc}}

ChainOf(v) == UNION {Ancestry(b) : b \in {c \in proposed : c.view = v}}

\* BFT consensus: the blocks that any two replicas commit are on one chain.
Agreement ==
  \A n, m \in Node : \A v \in ToSet(hs[n].committed), w \in ToSet(hs[m].committed) :
    v \in ChainOf(w) \/ w \in ChainOf(v)
=============================================================================
