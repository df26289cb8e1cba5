----------------------------- MODULE MCHotStuff -----------------------------
(* HotStuff for TLC: four replicas and the leaders that sha1 gives them. *)
EXTENDS HotStuff, TLC

CONSTANTS n1, n2, n3, n4

MCNode == {n1, n2, n3, n4}
MCHashed == [v \in 1..(MaxView + 2) |->
  CASE v \in {1, 2, 3, 9} -> n4 [] v \in {4, 5} -> n3 [] v \in {6, 7} -> n2 [] OTHER -> n1]
\* Neither replica leads a view up to 5.
MCSymmetry == Permutations({n1, n2})
=============================================================================
