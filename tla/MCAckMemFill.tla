---------------------------- MODULE MCAckMemFill ----------------------------
(* AckMemFill for TLC. *)
EXTENDS AckMemFill

CONSTANTS n1, n2, h1, h2

MCNode == {n1, n2}
MCHash == {h1, h2}
MCGroupId == [h \in Hash |-> IF h = h1 THEN 2 ELSE 1]
\* Node is used as a set only; the groups tell the hashes apart.
MCSymmetry == Permutations(MCNode)
=============================================================================
