-------------------------- MODULE MCDissemination --------------------------
(* Dissemination for TLC: three replicas, two of which build a microblock. *)
EXTENDS Dissemination

CONSTANTS n1, n2, n3, n4, h1, h2

MCNode == {n1, n2, n3}
MCHash == {h1, h2}
MCNodeFour == {n1, n2, n3, n4}
MCHashOne == {h1}
MCSender == [h \in Hash |-> IF h = h1 THEN n1 ELSE n2]
MCGroupId == [h \in Hash |-> IF h = h1 THEN 1 ELSE 2]
\* h2 is sent by a replica outside its group.
MCGroup == [g \in {GroupId[h] : h \in Hash} |-> IF g = 1 THEN {n1, n2} ELSE {n1, n3}]
MCLoaded == {n1}
=============================================================================
