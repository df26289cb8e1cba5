------------------------------- MODULE Merkle -------------------------------
(***************************************************************************)
(* The Merkle tree of crypto/merkle, whose root over its transactions is   *)
(* the hash of a microblock, and the inclusion proofs of the package.      *)
(* Hashes are the terms they are computed from: equal only if the inputs   *)
(* are.  The state is a list of items that grows one item at a time, so    *)
(* that every list up to the bound is checked.                             *)
(***************************************************************************)
EXTENDS Integers, SequencesExt

CONSTANTS
  Item,       \* what the leaves hold
  MaxItems    \* bound on the number of leaves

emptyHash == <<>>
leafHash(leaf) == <<leaf>>
innerHash(left, right) == <<left, right>>

\* Mutant of getSplitPoint: the middle.
SplitInHalf(length) == length \div 2

\* The largest power of 2 less than length, which is 2 at least.
getSplitPoint(length) ==
  LET k == CHOOSE p \in {2^i : i \in 0..length} : p <= length /\ length < 2 * p
  IN  IF k = length THEN k \div 2 ELSE k

RECURSIVE HashFromByteSlices(_)
HashFromByteSlices(items) ==
  LET n == Len(items)
      k == getSplitPoint(n)
  IN  CASE n = 0 -> emptyHash
        [] n = 1 -> leafHash(items[1])
        [] OTHER -> innerHash(HashFromByteSlices(SubSeq(items, 1, k)),
                              HashFromByteSlices(SubSeq(items, k + 1, n)))

\* One pass of the loop: neighbours are joined, an odd one at the end is kept.
Joined(hashes) ==
  [i \in 1..((Len(hashes) + 1) \div 2) |->
     IF 2 * i <= Len(hashes) THEN innerHash(hashes[2 * i - 1], hashes[2 * i])
     ELSE hashes[2 * i - 1]]

RECURSIVE JoinAll(_)
JoinAll(hashes) == IF Len(hashes) = 1 THEN hashes[1] ELSE JoinAll(Joined(hashes))

HashFromByteSlicesIterative(items) ==
  IF items = <<>> THEN emptyHash
  ELSE JoinAll([i \in 1..Len(items) |-> leafHash(items[i])])

-----------------------------------------------------------------------------
(* Proofs *)

\* The aunts of each item, from the leaf's sibling to the child of the root: what
\* FlattenAunts collects along the parents that trailsFromByteSlices links.
RECURSIVE trailsFromByteSlices(_)
trailsFromByteSlices(items) ==
  LET n == Len(items)
      k == getSplitPoint(n)
      lefts == SubSeq(items, 1, k)
      rights == SubSeq(items, k + 1, n)
      With(trails, aunt) == [i \in 1..Len(trails) |-> Append(trails[i], aunt)]
  IN  CASE n = 0 -> <<>>
        [] n = 1 -> << <<>> >>
        [] OTHER -> With(trailsFromByteSlices(lefts), HashFromByteSlices(rights))
                    \o With(trailsFromByteSlices(rights), HashFromByteSlices(lefts))

ProofsFromByteSlices(items) ==
  [i \in 1..Len(items) |->
     [Total |-> Len(items), Index |-> i - 1, LeafHash |-> leafHash(items[i]),
      Aunts |-> trailsFromByteSlices(items)[i]]]

nil == <<"nil">>
InnerOrNil(left, right) == IF nil \in {left, right} THEN nil ELSE innerHash(left, right)

RECURSIVE computeHashFromAunts(_, _, _, _)
computeHashFromAunts(index, total, leaf, aunts) ==
  LET numLeft == getSplitPoint(total)
  IN  IF index >= total \/ index < 0 \/ total <= 0 THEN nil
      ELSE IF total = 1 THEN IF aunts = <<>> THEN leaf ELSE nil
      ELSE IF aunts = <<>> THEN nil
      ELSE IF index < numLeft
      THEN InnerOrNil(computeHashFromAunts(index, numLeft, leaf, Front(aunts)), Last(aunts))
      ELSE InnerOrNil(Last(aunts),
             computeHashFromAunts(index - numLeft, total - numLeft, leaf, Front(aunts)))

Verify(sp, rootHash, leaf) ==
  /\ sp.Total >= 0 /\ sp.Index >= 0
  /\ sp.LeafHash = leafHash(leaf)
  /\ computeHashFromAunts(sp.Index, sp.Total, sp.LeafHash, sp.Aunts) = rootHash

-----------------------------------------------------------------------------
VARIABLE items

Init == items = <<>>

Next == Len(items) < MaxItems /\ \E x \in Item : items' = Append(items, x)

Spec == Init /\ [][Next]_items

-----------------------------------------------------------------------------
\* The two ways to compute the root agree, although one splits at a power of 2
\* from the top and the other joins neighbours from the bottom; and the proof of
\* each item verifies against that root, and not for another item or as the proof
\* of another position.
ProofsVerify ==
  LET rootHash == HashFromByteSlicesIterative(items)
      proofs == ProofsFromByteSlices(items)
  IN  /\ rootHash = HashFromByteSlices(items)
      /\ \A i \in 1..Len(items) :
           /\ \A x \in Item : Verify(proofs[i], rootHash, x) <=> x = items[i]
           /\ \A j \in 1..Len(items) :
                Verify([proofs[i] EXCEPT !.Index = j - 1], rootHash, items[i])
                  => items[j] = items[i]
=============================================================================
