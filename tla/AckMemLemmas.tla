---------------------------- MODULE AckMemLemmas ----------------------------
(***************************************************************************)
(* What the methods of AckMem preserve, for every set of nodes and hashes, *)
(* every threshold and every batch size: lemmas about the operators of     *)
(* AckMemOps, for one mempool or for the mempools of all replicas.         *)
(***************************************************************************)
EXTENDS AckMemOps, FiniteSetTheorems, SequenceTheorems, WellFoundedInduction, TLAPS

-----------------------------------------------------------------------------
(* Subsequence: every set of positions has an increasing enumeration.      *)

Enumerates(f, K) ==
  /\ f \in [1..Cardinality(K) -> K]
  /\ \A i, j \in 1..Cardinality(K) : i < j => f[i] < f[j]
  /\ \A k \in K : \E i \in 1..Cardinality(K) : f[i] = k

\* The positions up to n + 1 can be enumerated when those up to n can.
LEMMA EnumerateStep ==
  ASSUME NEW n \in Nat,
         \A K \in SUBSET (1..n) : \E f : Enumerates(f, K),
         NEW K \in SUBSET (1..(n+1))
  PROVE  \E f : Enumerates(f, K)
<1>1. CASE n + 1 \notin K
  <2>1. K \in SUBSET (1..n)
    BY <1>1
  <2> QED BY <2>1
<1>2. CASE n + 1 \in K
  <2> DEFINE L == K \ {n + 1}
             c == Cardinality(L)
  <2>1. L \in SUBSET (1..n)
    OBVIOUS
  <2>2. PICK g : Enumerates(g, L)
    BY <2>1
  <2>3. IsFiniteSet(K)
    BY FS_Interval, FS_Subset, n + 1 \in Int, 1 \in Int
  <2>4. c \in Nat /\ Cardinality(K) = c + 1
    <3>1. IsFiniteSet(L) /\ Cardinality(L) = Cardinality(K) - 1
      BY <1>2, <2>3, FS_RemoveElement
    <3>2. Cardinality(L) \in Nat /\ Cardinality(K) \in Nat
      BY <2>3, <3>1, FS_CardinalityType
    <3> QED BY <3>1, <3>2
  <2>5. g \in [1..c -> L] /\ (\A i, j \in 1..c : i < j => g[i] < g[j])
                         /\ (\A k \in L : \E i \in 1..c : g[i] = k)
    BY <2>2 DEF Enumerates
  <2> DEFINE f == [i \in 1..(c+1) |-> IF i = c + 1 THEN n + 1 ELSE g[i]]
  <2> HIDE DEF c
  <2>6. f \in [1..(c+1) -> K]
    BY <1>2, <2>4, <2>5
  <2>7. \A i, j \in 1..(c+1) : i < j => f[i] < f[j]
    <3> SUFFICES ASSUME NEW i \in 1..(c+1), NEW j \in 1..(c+1), i < j
                 PROVE  f[i] < f[j]
      OBVIOUS
    <3>1. i \in 1..c
      BY <2>4
    <3>2. g[i] \in 1..n
      BY <3>1, <2>5, <2>1
    <3>3. CASE j = c + 1
      BY <3>1, <3>2, <3>3, <2>4
    <3>4. CASE j # c + 1
      BY <3>1, <3>4, <2>4, <2>5
    <3> QED BY <3>3, <3>4
  <2>8. \A k \in K : \E i \in 1..(c+1) : f[i] = k
    BY <2>4, <2>5
  <2>9. Enumerates(f, K)
    BY <2>4, <2>6, <2>7, <2>8 DEF Enumerates
  <2> QED BY <2>9
<1> QED BY <1>1, <1>2

\* Every set of positions of a finite sequence can be enumerated in order: a
\* least bound without this property would contradict EnumerateStep.
LEMMA EnumerationExists ==
  ASSUME NEW n \in Nat, NEW K \in SUBSET (1..n)
  PROVE  \E f : Enumerates(f, K)
<1> DEFINE Bad == {m \in Nat : \E J \in SUBSET (1..m) : ~ \E f : Enumerates(f, J)}
<1>1. SUFFICES ASSUME Bad # {}
               PROVE  FALSE
  OBVIOUS
<1>2. PICK m \in Bad : \A k \in Bad : ~ (<<k, m>> \in OpToRel(<, Nat))
  <2>1. Bad \subseteq Nat
    OBVIOUS
  <2> QED BY <1>1, <2>1, NatLessThanWellFounded, WFMin
<1>3. \A k \in Bad : ~ (k < m)
  BY <1>2 DEF OpToRel
<1>4. CASE m = 0
  <2>1. \A J \in SUBSET (1..m) : J = {}
    BY <1>4
  <2>2. Enumerates(<< >>, {})
    BY FS_EmptySet DEF Enumerates
  <2> QED BY <1>2, <2>1, <2>2
<1>5. CASE m # 0
  <2>1. m - 1 \in Nat /\ m - 1 \notin Bad /\ (m - 1) + 1 = m
    <3>1. m \in Nat
      OBVIOUS
    <3> HIDE DEF Bad
    <3> QED BY <1>3, <1>5, <3>1
  <2>2. \A J \in SUBSET (1..(m-1)) : \E f : Enumerates(f, J)
    BY <2>1
  <2>3. \A J \in SUBSET (1..((m-1)+1)) : \E f : Enumerates(f, J)
    BY <2>1, <2>2, EnumerateStep
  <2> QED BY <1>2, <2>1, <2>3
<1> QED BY <1>4, <1>5

\* t is the entries of s at K, in order.
PicksFrom(t, s, K) ==
  \E e : /\ Enumerates(e, K)
         /\ Cardinality(K) \in Nat
         /\ t = [i \in 1..Cardinality(K) |-> s[e[i]]]

\* Subsequence(s, K) is a sequence of exactly the entries of s at K, in order.
LEMMA SubsequenceEnumerates ==
  ASSUME NEW S, NEW s \in Seq(S), NEW K \in SUBSET (1..Len(s))
  PROVE  PicksFrom(Subsequence(s, K), s, K)
<1> DEFINE n == Cardinality(K)
           e == CHOOSE f \in [1..n -> K] :
                  /\ \A i, j \in 1..n : i < j => f[i] < f[j]
                  /\ \A k \in K : \E i \in 1..n : f[i] = k
<1>1. \E f \in [1..n -> K] :
        /\ \A i, j \in 1..n : i < j => f[i] < f[j]
        /\ \A k \in K : \E i \in 1..n : f[i] = k
  BY EnumerationExists, Len(s) \in Nat DEF Enumerates
<1>2. /\ e \in [1..n -> K]
      /\ \A i, j \in 1..n : i < j => e[i] < e[j]
      /\ \A k \in K : \E i \in 1..n : e[i] = k
  BY <1>1
<1>3. n \in Nat
  BY FS_Interval, FS_Subset, FS_CardinalityType, 1 \in Int, Len(s) \in Int
<1>4. Subsequence(s, K) = [i \in 1..n |-> s[e[i]]]
  BY DEF Subsequence
<1>5. Enumerates(e, K)
  BY <1>2 DEF Enumerates
<1> HIDE DEF e, n
<1> QED BY <1>3, <1>4, <1>5 DEF n, PicksFrom

-----------------------------------------------------------------------------
(* What the list operations of the mempool do to the hashes in the list.   *)

\* t lists the entries of s at the n different positions e[1], ..., e[n].
Selects(t, s, e, n) ==
  /\ n \in Nat
  /\ e \in [1..n -> 1..Len(s)]
  /\ \A i, j \in 1..n : e[i] = e[j] => i = j
  /\ t = [i \in 1..n |-> s[e[i]]]

\* A selection of a list of distinct hashes is one.
LEMMA SelectedEntries ==
  ASSUME NEW s \in Seq(Entry), Distinct(s), NEW t, NEW e, NEW n, Selects(t, s, e, n)
  PROVE  /\ t \in Seq(Entry) /\ Len(t) = n /\ Distinct(t)
         /\ Hashes(t) \subseteq Hashes(s) /\ Entries(t) \subseteq Entries(s)
<1> USE DEF Selects
<1>1. \A i \in 1..n : t[i] = s[e[i]] /\ s[e[i]] \in Entry
  BY ElementOfSeq
<1>2. t \in Seq(Entry) /\ Len(t) = n
  BY <1>1, IsASeq
<1>3. Distinct(t)
  BY <1>1, <1>2 DEF Distinct
<1>4. Hashes(t) \subseteq Hashes(s) /\ Entries(t) \subseteq Entries(s)
  BY <1>1, <1>2 DEF Hashes, Entries
<1> QED BY <1>2, <1>3, <1>4

\* A new hash at the end of the list.
LEMMA AppendEntry ==
  ASSUME NEW s \in Seq(Entry), Distinct(s), NEW h \in Hash, h \notin Hashes(s),
         NEW fake \in BOOLEAN
  PROVE  LET t == Append(s, [hash |-> h, fake |-> fake])
         IN  /\ t \in Seq(Entry) /\ Distinct(t) /\ Hashes(t) = Hashes(s) \cup {h}
             /\ Entries(t) = Entries(s) \cup {[hash |-> h, fake |-> fake]}
<1> DEFINE e == [hash |-> h, fake |-> fake]
           t == Append(s, e)
<1>1. e \in Entry /\ e.hash = h
  BY DEF Entry
<1>2. /\ t \in Seq(Entry) /\ Len(t) = Len(s) + 1 /\ Len(s) \in Nat
      /\ \A i \in 1..Len(s) : t[i] = s[i]
      /\ t[Len(s) + 1] = e
  BY <1>1, AppendProperties
<1> HIDE DEF t, e
<1>3. \A i \in 1..Len(s) : s[i].hash # h
  BY DEF Hashes
<1>4. Distinct(t)
  BY <1>1, <1>2, <1>3 DEF Distinct
<1>5. Hashes(t) = Hashes(s) \cup {h}
  BY <1>1, <1>2 DEF Hashes
<1>6. Entries(t) = Entries(s) \cup {e}
  BY <1>2 DEF Entries
<1> QED BY <1>2, <1>4, <1>5, <1>6 DEF t, e

\* The list after GeneratePayload has popped from its front.
LEMMA FrontRemoved ==
  ASSUME NEW s \in Seq(Entry), Distinct(s), NEW k \in 0..Len(s)
  PROVE  LET t == SubSeq(s, k + 1, Len(s))
         IN  /\ t \in Seq(Entry) /\ Distinct(t)
             /\ Hashes(t) \subseteq Hashes(s) /\ Entries(t) \subseteq Entries(s)
<1> DEFINE n == Len(s) - k
           e == [i \in 1..n |-> i + k]
           t == SubSeq(s, k + 1, Len(s))
<1>1. n \in Nat /\ Len(s) \in Nat
  OBVIOUS
<1>2. e \in [1..n -> 1..Len(s)] /\ (\A i, j \in 1..n : e[i] = e[j] => i = j)
  BY <1>1
<1>3. t = [i \in 1..n |-> s[e[i]]]
  BY <1>1
<1> HIDE DEF n, e, t
<1>4. QED
  <2>1. Selects(t, s, e, n)
    BY <1>1, <1>2, <1>3 DEF Selects
  <2> QED BY <2>1, SelectedEntries DEF t

\* The list in any order that the sort by group may leave it in.
LEMMA Rearranged ==
  ASSUME NEW s \in Seq(Entry), Distinct(s), NEW t \in Arrangements(s)
  PROVE  /\ t \in Seq(Entry) /\ Len(t) = Len(s) /\ Distinct(t)
         /\ Hashes(t) \subseteq Hashes(s) /\ Entries(t) \subseteq Entries(s)
<1>1. CASE t = s
  BY <1>1
<1>2. CASE t # s
  <2>1. PICK p \in Permuting(1..Len(s)) : t = [i \in 1..Len(s) |-> s[p[i]]]
    BY <1>2 DEF Arrangements, SortedByGroup
  <2>2. p \in [1..Len(s) -> 1..Len(s)] /\ (\A i, j \in 1..Len(s) : p[i] = p[j] => i = j)
    BY <2>1 DEF Permuting
  <2>3. Selects(t, s, p, Len(s))
    BY <2>1, <2>2 DEF Selects
  <2> QED BY <2>3, SelectedEntries
<1> QED BY <1>1, <1>2

\* The list after FetchMB has removed entries from it.
LEMMA SubsequenceEntries ==
  ASSUME NEW s \in Seq(Entry), Distinct(s), NEW K \in SUBSET (1..Len(s))
  PROVE  LET t == Subsequence(s, K)
         IN  /\ t \in Seq(Entry) /\ Distinct(t)
             /\ Hashes(t) \subseteq Hashes(s) /\ Entries(t) \subseteq Entries(s)
<1> DEFINE n == Cardinality(K)
           t == Subsequence(s, K)
<1>1. PICK e : Enumerates(e, K) /\ n \in Nat /\ t = [i \in 1..n |-> s[e[i]]]
  <2>1. PicksFrom(t, s, K)
    BY SubsequenceEnumerates
  <2> QED BY <2>1 DEF PicksFrom
<1>2. e \in [1..n -> K] /\ (\A i, j \in 1..n : i < j => e[i] < e[j])
  BY <1>1 DEF Enumerates
<1>3. e \in [1..n -> 1..Len(s)]
  BY <1>2
<1>4. \A i, j \in 1..n : e[i] = e[j] => i = j
  <2> SUFFICES ASSUME NEW i \in 1..n, NEW j \in 1..n, e[i] = e[j], i # j
               PROVE  FALSE
    OBVIOUS
  <2>1. i < j \/ j < i
    BY <1>1
  <2>2. e[i] \in Int /\ e[j] \in Int
    BY <1>3
  <2> HIDE DEF n
  <2> QED BY <1>2, <2>1, <2>2
<1> HIDE DEF n, t
<1>5. Selects(t, s, e, n)
  BY <1>1, <1>3, <1>4 DEF Selects
<1> QED BY <1>5, SelectedEntries DEF t

-----------------------------------------------------------------------------
(* Every method keeps a consistent mempool consistent, and moves every     *)
(* microblock forward in its life.                                         *)

\* The inductive invariant, for one mempool state m.
Ok(m) ==
  /\ m \in AckMemType
  /\ IndexesAgree(m)
  /\ m.TotalStableMbs = Cardinality(m.stableMBs)
  /\ \A h \in m.pendingMicroblocks : m.ackNum[h] < Q

\* From m to m2 no known microblock is forgotten, becomes pending, or is queued
\* after it had left the pending map and the queue.
Forward(m, m2) ==
  /\ Known(m) \subseteq Known(m2)
  /\ \A h \in Known(m) : h \notin m.pendingMicroblocks => h \notin m2.pendingMicroblocks
  /\ \A h \in Known(m) : h \notin m.pendingMicroblocks /\ h \notin Listed(m) => h \notin Listed(m2)

\* A new mempool is consistent.
LEMMA NewAckMemOk == Ok(NewAckMem)
<1> DEFINE m == NewAckMem
<1>1. m \in AckMemType
  BY DEF NewAckMem, AckMemType, Copy
<1>2. IndexesAgree(m)
  BY DEF NewAckMem, IndexesAgree, Distinct, Listed, Hashes, Known
<1>3. m.TotalStableMbs = Cardinality(m.stableMBs) /\ m.pendingMicroblocks = {}
  BY FS_EmptySet DEF NewAckMem
<1> QED BY <1>1, <1>2, <1>3 DEF Ok

\* Storing a copy of a microblock in the map.
LEMMA SetCopyOk ==
  ASSUME NEW m, Ok(m), NEW h \in Hash, NEW c \in {"fake", "real"}
  PROVE  LET m2 == [m EXCEPT !.microblockMap[h] = c]
         IN  Ok(m2) /\ Forward(m, m2) /\ Known(m2) = Known(m) \cup {h}
<1> DEFINE m2 == [m EXCEPT !.microblockMap[h] = c]
<1>1. m2 \in AckMemType
  BY DEF Ok, AckMemType, Copy
<1>2. /\ m2.pendingMicroblocks = m.pendingMicroblocks /\ m2.stableMBs = m.stableMBs
      /\ m2.stableMicroblocks = m.stableMicroblocks /\ m2.ackNum = m.ackNum
      /\ m2.TotalStableMbs = m.TotalStableMbs
      /\ m2.microblockMap = [m.microblockMap EXCEPT ![h] = c]
  BY DEF Ok, AckMemType
<1>3. Known(m2) = Known(m) \cup {h}
  BY <1>2 DEF Ok, AckMemType, Known
<1> HIDE DEF m2
<1>4. Ok(m2)
  BY <1>1, <1>2, <1>3 DEF Ok, IndexesAgree, Listed
<1>5. Forward(m, m2)
  BY <1>2, <1>3 DEF Forward, Listed
<1> QED BY <1>3, <1>4, <1>5 DEF m2

\* Changing the ack buffer or the saved Stable message of a hash.
LEMMA SetBufferOk ==
  ASSUME NEW m, Ok(m), NEW h \in Hash, NEW A \in SUBSET Node
  PROVE  LET b == [m EXCEPT !.ackBuffer[h] = A]
             s == [m EXCEPT !.StableBuffer[h] = A]
         IN  /\ Ok(b) /\ Forward(m, b)
             /\ Ok(s) /\ Forward(m, s) /\ Known(s) = Known(m)
<1> DEFINE b == [m EXCEPT !.ackBuffer[h] = A]
           s == [m EXCEPT !.StableBuffer[h] = A]
<1>1. b \in AckMemType /\ s \in AckMemType
  BY DEF Ok, AckMemType
<1>2. /\ b.pendingMicroblocks = m.pendingMicroblocks /\ b.stableMBs = m.stableMBs
      /\ b.stableMicroblocks = m.stableMicroblocks /\ b.ackNum = m.ackNum
      /\ b.TotalStableMbs = m.TotalStableMbs /\ b.microblockMap = m.microblockMap
  BY DEF Ok, AckMemType
<1>3. /\ s.pendingMicroblocks = m.pendingMicroblocks /\ s.stableMBs = m.stableMBs
      /\ s.stableMicroblocks = m.stableMicroblocks /\ s.ackNum = m.ackNum
      /\ s.TotalStableMbs = m.TotalStableMbs /\ s.microblockMap = m.microblockMap
  BY DEF Ok, AckMemType
<1> HIDE DEF b, s
<1>4. Ok(b) /\ Forward(m, b)
  BY <1>1, <1>2 DEF Ok, IndexesAgree, Known, Listed, Forward
<1>5. Ok(s) /\ Forward(m, s) /\ Known(s) = Known(m)
  BY <1>1, <1>3 DEF Ok, IndexesAgree, Known, Listed, Forward
<1> QED BY <1>4, <1>5 DEF b, s

\* Making a known microblock stable that is not stable yet: it was pending, or
\* it was unknown before this method and has just been stored.
LEMMA BecomeStableOk ==
  ASSUME NEW m, Ok(m), NEW h \in Known(m), h \notin m.stableMBs, NEW fake \in BOOLEAN
  PROVE  LET m2 == BecomeStable(m, h, fake)
         IN  /\ Ok(m2)
             /\ Known(m2) = Known(m)
             /\ m2.pendingMicroblocks = m.pendingMicroblocks \ {h}
             /\ Listed(m2) = Listed(m) \cup {h}
<1> DEFINE m2 == BecomeStable(m, h, fake)
           e == [hash |-> h, fake |-> fake]
<1>1. /\ m \in AckMemType /\ m.stableMicroblocks \in Seq(Entry)
      /\ m.stableMBs \in SUBSET Hash /\ m.TotalStableMbs \in Nat /\ h \in Hash
  BY DEF Ok, AckMemType, Known
<1>2. /\ m2.stableMicroblocks = Append(m.stableMicroblocks, e)
      /\ m2.stableMBs = m.stableMBs \cup {h}
      /\ m2.TotalStableMbs = m.TotalStableMbs + 1
      /\ m2.pendingMicroblocks = m.pendingMicroblocks \ {h}
      /\ m2.ackNum = [m.ackNum EXCEPT ![h] = 0]
      /\ m2.microblockMap = m.microblockMap
  BY <1>1 DEF BecomeStable, AckMemType
<1>3. /\ m2.stableMicroblocks \in Seq(Entry) /\ Distinct(m2.stableMicroblocks)
      /\ Listed(m2) = Listed(m) \cup {h}
  <2>1. Distinct(m.stableMicroblocks) /\ h \notin Hashes(m.stableMicroblocks)
    BY DEF Ok, IndexesAgree, Listed
  <2> QED BY <1>1, <1>2, <2>1, AppendEntry DEF Listed
<1>4. m2 \in AckMemType
  <2> DEFINE l == Append(m.stableMicroblocks, e)
  <2>1. l \in Seq(Entry)
    BY <1>2, <1>3
  <2> HIDE DEF l, e
  <2> DEFINE m3 == [m EXCEPT !.stableMicroblocks = l, !.stableMBs = @ \cup {h}]
             m4 == [m3 EXCEPT !.TotalStableMbs = @ + 1, !.pendingMicroblocks = @ \ {h}]
             m5 == [m4 EXCEPT !.ackMap[h] = {}, !.ackNum[h] = 0]
  <2>2. m3 \in AckMemType
    BY <1>1, <2>1 DEF AckMemType
  <2>3. m4 \in AckMemType
    <3> DEFINE t == m3.TotalStableMbs + 1
               P == m3.pendingMicroblocks \ {h}
    <3> HIDE DEF m3
    <3>1. t \in Nat /\ P \in SUBSET Hash
      BY <2>2 DEF AckMemType
    <3> HIDE DEF t, P
    <3>2. [m3 EXCEPT !.TotalStableMbs = t, !.pendingMicroblocks = P] \in AckMemType
      BY <2>2, <3>1 DEF AckMemType
    <3> QED BY <3>2 DEF t, P
  <2>4. m5 \in AckMemType
    <3> HIDE DEF m4
    <3> QED BY <1>1, <2>3 DEF AckMemType
  <2>5. m2 = m5
    BY <1>1 DEF BecomeStable, l, e, AckMemType
  <2> QED BY <2>4, <2>5
<1>5. m2.TotalStableMbs = Cardinality(m2.stableMBs)
  <2>1. IsFiniteSet(m.stableMBs)
    BY <1>1, HashAssumption, FS_Subset
  <2>2. m.TotalStableMbs = Cardinality(m.stableMBs)
    BY DEF Ok
  <2>3. Cardinality(m.stableMBs \cup {h}) = Cardinality(m.stableMBs) + 1
    BY <1>2, <2>1, FS_AddElement
  <2> QED BY <1>2, <2>2, <2>3
<1>6. Known(m2) = Known(m)
  BY <1>2 DEF Known
<1> HIDE DEF m2
<1>7. IndexesAgree(m2)
  BY <1>2, <1>3, <1>6 DEF Ok, IndexesAgree
<1>8. \A p \in m2.pendingMicroblocks : m2.ackNum[p] < Q
  BY <1>1, <1>2 DEF Ok, AckMemType
<1> QED BY <1>2, <1>3, <1>4, <1>5, <1>6, <1>7, <1>8 DEF Ok, m2

\* Forward composes.
LEMMA ForwardTransitive ==
  ASSUME NEW a, NEW b, NEW c, Forward(a, b), Forward(b, c)
  PROVE  Forward(a, c)
BY DEF Forward

\* A new microblock enters the pending map with fewer than Q acks.
LEMMA EnterPendingOk ==
  ASSUME NEW m, Ok(m), NEW h \in Known(m), h \notin m.stableMBs,
         NEW A \in SUBSET Node, NEW num \in Nat, num < Q
  PROVE  LET m2 == EnterPending(m, h, A, num)
         IN  /\ Ok(m2)
             /\ Known(m2) = Known(m)
             /\ m2.pendingMicroblocks = m.pendingMicroblocks \cup {h}
             /\ Listed(m2) = Listed(m)
<1> DEFINE m2 == EnterPending(m, h, A, num)
<1>1. m \in AckMemType /\ h \in Hash
  BY DEF Ok, Known
<1>2. m2 \in AckMemType
  <2> DEFINE m1 == [m EXCEPT !.pendingMicroblocks = @ \cup {h}]
  <2>1. m1 \in AckMemType
    BY <1>1 DEF AckMemType
  <2>2. [m1 EXCEPT !.ackMap[h] = A, !.ackNum[h] = num] \in AckMemType
    <3> HIDE DEF m1
    <3> QED BY <1>1, <2>1 DEF AckMemType
  <2>3. m2 = [m1 EXCEPT !.ackMap[h] = A, !.ackNum[h] = num]
    BY <1>1 DEF AckMemType, EnterPending
  <2> QED BY <2>2, <2>3
<1>3. /\ m2.pendingMicroblocks = m.pendingMicroblocks \cup {h} /\ m2.stableMBs = m.stableMBs
      /\ m2.stableMicroblocks = m.stableMicroblocks /\ m2.microblockMap = m.microblockMap
      /\ m2.TotalStableMbs = m.TotalStableMbs /\ m2.ackNum = [m.ackNum EXCEPT ![h] = num]
  BY <1>1 DEF AckMemType, EnterPending
<1> HIDE DEF m2
<1>4. Known(m2) = Known(m) /\ Listed(m2) = Listed(m)
  BY <1>3 DEF Known, Listed
<1>5. IndexesAgree(m2)
  BY <1>3, <1>4 DEF Ok, IndexesAgree, Listed
<1>6. \A p \in m2.pendingMicroblocks : m2.ackNum[p] < Q
  BY <1>1, <1>3 DEF Ok, AckMemType
<1>7. m2.TotalStableMbs = Cardinality(m2.stableMBs)
  BY <1>3 DEF Ok
<1> QED BY <1>2, <1>3, <1>4, <1>5, <1>6, <1>7 DEF Ok, m2

\* A microblock arrives: new, known, or known as a fake.
LEMMA AddMicroblockOk ==
  ASSUME NEW m, Ok(m), NEW h \in Hash, NEW sender \in Node
  PROVE  Ok(AddMicroblock(m, h, sender)) /\ Forward(m, AddMicroblock(m, h, sender))
<1> DEFINE known == [m EXCEPT !.microblockMap[h] = "real"]
           buffer == m.ackBuffer[h]
           num == 1 + Cardinality(buffer)
<1>1. Ok(known) /\ Forward(m, known) /\ Known(known) = Known(m) \cup {h}
  BY SetCopyOk
<1>2. /\ m.microblockMap[h] \in Copy /\ buffer \in SUBSET Node
      /\ known.stableMBs = m.stableMBs /\ known.ackBuffer = m.ackBuffer
      /\ known.pendingMicroblocks = m.pendingMicroblocks /\ Listed(known) = Listed(m)
  BY DEF Ok, AckMemType, Listed
<1>3. CASE m.microblockMap[h] = "real"
  <2>1. AddMicroblock(m, h, sender) = m
    BY <1>3 DEF AddMicroblock
  <2> QED BY <2>1 DEF Forward
<1>4. CASE m.microblockMap[h] = "fake"
  <2>1. AddMicroblock(m, h, sender) = known
    BY <1>4 DEF AddMicroblock
  <2> QED BY <1>1, <2>1
<1>5. CASE m.microblockMap[h] = "none"
  <2>1. AddMicroblock(m, h, sender) = AddNewMicroblock(m, h, sender)
    BY <1>5 DEF AddMicroblock
  <2>2. h \notin Known(m) /\ h \notin m.stableMBs /\ h \in Known(known)
    BY <1>1, <1>5 DEF Ok, IndexesAgree, Known
  <2>3. IsFiniteSet(buffer) /\ Cardinality(buffer) \in Nat
    BY <1>2, NodeAssumption, FS_Subset, FS_CardinalityType
  <2>4. buffer = {} => num < Q
    BY FS_EmptySet, QAssumption
  <2>5. CASE buffer # {} /\ num >= Q
    <3>1. AddNewMicroblock(m, h, sender) = BecomeStable(known, h, FALSE)
      BY <2>2, <2>5 DEF AddNewMicroblock
    <3> HIDE DEF known
    <3>2. /\ Ok(BecomeStable(known, h, FALSE))
          /\ Known(BecomeStable(known, h, FALSE)) = Known(known)
          /\ BecomeStable(known, h, FALSE).pendingMicroblocks = known.pendingMicroblocks \ {h}
          /\ Listed(BecomeStable(known, h, FALSE)) = Listed(known) \cup {h}
      BY <1>1, <1>2, <2>2, BecomeStableOk
    <3> QED BY <1>1, <1>2, <2>1, <2>2, <3>1, <3>2 DEF Forward
  <2>6. CASE ~ (buffer # {} /\ num >= Q)
    <3> DEFINE A == buffer \cup {sender}
               m2 == EnterPending(known, h, A, num)
    <3>1. AddNewMicroblock(m, h, sender) = m2
      BY <2>6 DEF AddNewMicroblock
    <3>2. num < Q /\ num \in Nat /\ A \in SUBSET Node
      BY <1>2, <2>3, <2>4, <2>6, QAssumption
    <3>4. Ok(known) /\ h \in Known(known) /\ h \notin known.stableMBs
      BY <1>1, <1>2, <2>2
    <3> HIDE DEF known, buffer, num, A
    <3>3. /\ Ok(m2) /\ Known(m2) = Known(known) /\ Listed(m2) = Listed(known)
          /\ m2.pendingMicroblocks = known.pendingMicroblocks \cup {h}
      BY <3>2, <3>4, EnterPendingOk
    <3> QED BY <1>1, <1>2, <2>1, <2>2, <3>1, <3>3 DEF Forward
  <2> QED BY <2>5, <2>6
<1> QED BY <1>2, <1>3, <1>4, <1>5 DEF Copy

\* An ack that does not reach the threshold leaves the microblock pending.
LEMMA CountAckOk ==
  ASSUME NEW m, Ok(m), NEW h \in m.pendingMicroblocks, NEW node \in Node, NEW outGroup \in BOOLEAN,
         ~ AckCompletes(m, h, node, outGroup)
  PROVE  Ok(CountAck(m, h, node, outGroup)) /\ Forward(m, CountAck(m, h, node, outGroup))
<1> DEFINE m2 == CountAck(m, h, node, outGroup)
           num == IF BroadcastByGroup /\ outGroup THEN m.ackNum[h] ELSE m.ackNum[h] + 1
           A == m.ackMap[h] \cup {node}
<1>1. m \in AckMemType /\ h \in Hash /\ h \notin m.stableMBs
  BY DEF Ok, IndexesAgree, AckMemType
<1>2. num \in Nat /\ A \in SUBSET Node
  BY <1>1 DEF AckMemType
<1>3. m2 = [m EXCEPT !.ackMap[h] = A, !.ackNum[h] = num]
  BY <1>1 DEF CountAck, AckMemType
<1> HIDE DEF m2, num, A
<1>4. m2 \in AckMemType
  BY <1>1, <1>2, <1>3 DEF AckMemType
<1>5. /\ m2.pendingMicroblocks = m.pendingMicroblocks /\ m2.stableMBs = m.stableMBs
      /\ m2.stableMicroblocks = m.stableMicroblocks /\ m2.microblockMap = m.microblockMap
      /\ m2.TotalStableMbs = m.TotalStableMbs /\ m2.ackNum = [m.ackNum EXCEPT ![h] = num]
  BY <1>1, <1>3 DEF AckMemType
<1>6. num < Q
  <2>1. m2.ackNum[h] = num
    BY <1>1, <1>5 DEF AckMemType
  <2> QED BY <1>1, <1>2, <2>1, QAssumption DEF AckCompletes, m2
<1>7. \A p \in m2.pendingMicroblocks : m2.ackNum[p] < Q
  BY <1>1, <1>5, <1>6 DEF Ok, AckMemType
<1>8. Ok(m2)
  BY <1>4, <1>5, <1>7 DEF Ok, IndexesAgree, Known, Listed
<1>9. Forward(m, m2)
  BY <1>5 DEF Forward, Known, Listed
<1> QED BY <1>8, <1>9 DEF m2

\* An ack arrives: counted, completing, buffered or dropped.
LEMMA AddAckOk ==
  ASSUME NEW m, Ok(m), NEW h \in Hash, NEW node \in Node, NEW outGroup \in BOOLEAN
  PROVE  Ok(AddAck(m, h, node, outGroup)) /\ Forward(m, AddAck(m, h, node, outGroup))
<1>1. m \in AckMemType
  BY DEF Ok
<1>2. CASE h \notin m.pendingMicroblocks
  <2> DEFINE A == m.ackBuffer[h] \cup {node}
  <2>1. A \in SUBSET Node
    BY <1>1 DEF AckMemType
  <2>2. AddAck(m, h, node, outGroup) = IF outGroup THEN m ELSE [m EXCEPT !.ackBuffer[h] = A]
    BY <1>2 DEF AddAck
  <2> HIDE DEF A
  <2>3. Ok([m EXCEPT !.ackBuffer[h] = A]) /\ Forward(m, [m EXCEPT !.ackBuffer[h] = A])
    BY <2>1, SetBufferOk
  <2> QED BY <2>2, <2>3 DEF Forward
<1>3. CASE h \in m.pendingMicroblocks /\ ~ AckCompletes(m, h, node, outGroup)
  <2>1. AddAck(m, h, node, outGroup) = CountAck(m, h, node, outGroup)
    BY <1>3 DEF AddAck
  <2> QED BY <1>3, <2>1, CountAckOk
<1>4. CASE h \in m.pendingMicroblocks /\ AckCompletes(m, h, node, outGroup)
  <2> DEFINE A == AckNodeList(m, h, node)
             b == BecomeStable(m, h, FALSE)
  <2>1. AddAck(m, h, node, outGroup) = [b EXCEPT !.StableBuffer[h] = A]
    BY <1>4 DEF AddAck
  <2>2. h \in Known(m) /\ h \notin m.stableMBs /\ A \in SUBSET Node
    BY <1>1, <1>4 DEF Ok, IndexesAgree, AckMemType, AckNodeList
  <2>3. /\ Ok(b) /\ Known(b) = Known(m) /\ b.pendingMicroblocks = m.pendingMicroblocks \ {h}
        /\ Listed(b) = Listed(m) \cup {h}
    BY <2>2, BecomeStableOk
  <2> HIDE DEF A, b
  <2>4. Forward(m, b)
    BY <1>4, <2>3 DEF Forward
  <2>5. Ok([b EXCEPT !.StableBuffer[h] = A]) /\ Forward(b, [b EXCEPT !.StableBuffer[h] = A])
    BY <2>2, <2>3, SetBufferOk
  <2> QED BY <2>1, <2>4, <2>5, ForwardTransitive
<1> QED BY <1>2, <1>3, <1>4

\* A Stable message arrives, before or after the microblock.
LEMMA AddStableOk ==
  ASSUME NEW m, Ok(m), NEW h \in Hash, NEW A \in SUBSET Node
  PROVE  Ok(AddStable(m, h, A)) /\ Forward(m, AddStable(m, h, A))
<1> DEFINE saved == [m EXCEPT !.StableBuffer[h] = A]
           fake == [saved EXCEPT !.microblockMap[h] = "fake"]
<1>1. Ok(saved) /\ Forward(m, saved) /\ Known(saved) = Known(m)
  BY SetBufferOk
<1>2. /\ saved.stableMBs = m.stableMBs /\ saved.pendingMicroblocks = m.pendingMicroblocks
      /\ Listed(saved) = Listed(m) /\ m.microblockMap[h] \in Copy
  BY DEF Ok, AckMemType, Listed
<1>3. CASE h \in m.stableMBs
  <2>1. AddStable(m, h, A) = m
    BY <1>3 DEF AddStable
  <2> QED BY <2>1 DEF Forward
<1>4. CASE h \notin m.stableMBs /\ h \in m.pendingMicroblocks
  <2> DEFINE b == BecomeStable(saved, h, FALSE)
  <2>1. AddStable(m, h, A) = b
    BY <1>4 DEF AddStable
  <2> HIDE DEF saved
  <2>2. h \in Known(saved)
    BY <1>1, <1>2, <1>4 DEF Ok, IndexesAgree
  <2>3. /\ Ok(b) /\ Known(b) = Known(saved) /\ b.pendingMicroblocks = saved.pendingMicroblocks \ {h}
        /\ Listed(b) = Listed(saved) \cup {h}
    BY <1>1, <1>2, <1>4, <2>2, BecomeStableOk
  <2> QED BY <1>1, <1>2, <1>4, <2>1, <2>3 DEF Forward
<1>5. CASE h \notin m.stableMBs /\ h \notin m.pendingMicroblocks /\ m.microblockMap[h] = "none"
  <2> DEFINE b == BecomeStable(fake, h, TRUE)
  <2>1. AddStable(m, h, A) = b
    BY <1>5 DEF AddStable
  <2>2. Ok(fake) /\ Known(fake) = Known(m) \cup {h}
    <3> HIDE DEF saved
    <3> QED BY <1>1, SetCopyOk
  <2>3. fake.stableMBs = m.stableMBs /\ fake.pendingMicroblocks = m.pendingMicroblocks
        /\ Listed(fake) = Listed(m)
    BY DEF Ok, AckMemType, Listed
  <2> HIDE DEF fake
  <2>4. /\ Ok(b) /\ Known(b) = Known(fake) /\ b.pendingMicroblocks = fake.pendingMicroblocks \ {h}
        /\ Listed(b) = Listed(fake) \cup {h}
    BY <1>5, <2>2, <2>3, BecomeStableOk
  <2>5. h \notin Known(m)
    BY <1>5 DEF Known
  <2> QED BY <1>5, <2>1, <2>2, <2>3, <2>4, <2>5 DEF Forward
<1>6. CASE h \notin m.stableMBs /\ h \notin m.pendingMicroblocks /\ m.microblockMap[h] # "none"
  <2>1. AddStable(m, h, A) = saved
    BY <1>6 DEF AddStable
  <2> QED BY <1>1, <2>1
<1> QED BY <1>3, <1>4, <1>5, <1>6

\* A retransmitted microblock arrives.
LEMMA HandleMissingStableMbOk ==
  ASSUME NEW m, Ok(m), NEW h \in Hash, NEW fake \in BOOLEAN
  PROVE  /\ Ok(HandleMissingStableMb(m, h, fake))
         /\ Forward(m, HandleMissingStableMb(m, h, fake))
<1>1. CASE fake
  BY <1>1, SetCopyOk DEF HandleMissingStableMb
<1>2. CASE ~ fake
  BY <1>2, SetCopyOk DEF HandleMissingStableMb
<1> QED BY <1>1, <1>2

\* Shrinking the list and the pending map.
LEMMA ShrinkOk ==
  ASSUME NEW m, Ok(m), NEW m2 \in AckMemType,
         Distinct(m2.stableMicroblocks), Listed(m2) \subseteq Listed(m),
         m2.pendingMicroblocks \subseteq m.pendingMicroblocks,
         \A h \in m2.pendingMicroblocks : m2.ackNum[h] = m.ackNum[h],
         m2.stableMBs = m.stableMBs, m2.TotalStableMbs = m.TotalStableMbs,
         m2.microblockMap = m.microblockMap
  PROVE  Ok(m2) /\ Forward(m, m2)
<1>1. Known(m2) = Known(m)
  BY DEF Known
<1>2. Ok(m2)
  BY <1>1 DEF Ok, IndexesAgree
<1>3. Forward(m, m2)
  BY <1>1 DEF Forward
<1> QED BY <1>2, <1>3

\* A payload is taken out.
LEMMA GeneratePayloadOk ==
  ASSUME NEW m, Ok(m), NEW list \in Arrangements(m.stableMicroblocks)
  PROVE  Ok(GeneratePayload(m, list)) /\ Forward(m, GeneratePayload(m, list))
<1> DEFINE k == BatchSize(list)
           rest == SubSeq(list, k + 1, Len(list))
           m2 == GeneratePayload(m, list)
<1>1. m \in AckMemType /\ m.stableMicroblocks \in Seq(Entry) /\ Distinct(m.stableMicroblocks)
  BY DEF Ok, AckMemType, IndexesAgree
<1>2. list \in Seq(Entry) /\ Distinct(list) /\ Hashes(list) \subseteq Hashes(m.stableMicroblocks)
  BY <1>1, Rearranged
<1>3. k \in 0..Len(list)
  BY <1>2, BSizeAssumption DEF BatchSize
<1>4. rest \in Seq(Entry) /\ Distinct(rest) /\ Hashes(rest) \subseteq Hashes(list)
  <2> HIDE DEF k
  <2> QED BY <1>2, <1>3, FrontRemoved
<1>5. m2 = [m EXCEPT !.stableMicroblocks = rest]
  BY DEF GeneratePayload
<1> HIDE DEF rest, m2
<1>6. /\ m2 \in AckMemType
      /\ m2.stableMicroblocks = rest /\ m2.pendingMicroblocks = m.pendingMicroblocks
      /\ m2.ackNum = m.ackNum /\ m2.stableMBs = m.stableMBs
      /\ m2.TotalStableMbs = m.TotalStableMbs /\ m2.microblockMap = m.microblockMap
  BY <1>1, <1>4, <1>5 DEF AckMemType
<1>7. Distinct(m2.stableMicroblocks) /\ Listed(m2) \subseteq Listed(m)
  BY <1>2, <1>4, <1>6 DEF Listed
<1> QED BY <1>6, <1>7, ShrinkOk DEF m2

\* The microblocks of a proposal are fetched.
LEMMA FetchMBOk ==
  ASSUME NEW m, Ok(m), NEW ids \in SUBSET Hash
  PROVE  Ok(FetchMB(m, ids)) /\ Forward(m, FetchMB(m, ids))
<1> DEFINE l == m.stableMicroblocks
           kept == {i \in 1..Len(l) : l[i].hash \notin ids}
           rest == Subsequence(l, kept)
           P == m.pendingMicroblocks \ ids
           A == [h \in Hash |-> IF h \in ids THEN {} ELSE m.ackMap[h]]
           N == [h \in Hash |-> IF h \in ids THEN 0 ELSE m.ackNum[h]]
           m2 == FetchMB(m, ids)
<1>1. m \in AckMemType /\ l \in Seq(Entry) /\ Distinct(l)
  BY DEF Ok, AckMemType, IndexesAgree
<1>2. rest \in Seq(Entry) /\ Distinct(rest) /\ Hashes(rest) \subseteq Hashes(l)
  <2>1. kept \in SUBSET (1..Len(l))
    OBVIOUS
  <2> HIDE DEF l, kept
  <2> QED BY <1>1, <2>1, SubsequenceEntries
<1>3. P \in SUBSET Hash /\ A \in [Hash -> SUBSET Node] /\ N \in [Hash -> Nat]
  BY <1>1 DEF AckMemType
<1>4. \A h \in P : N[h] = m.ackNum[h]
  BY <1>1 DEF AckMemType
<1>5. m2 = [m EXCEPT !.pendingMicroblocks = P, !.ackMap = A, !.ackNum = N, !.stableMicroblocks = rest]
  BY DEF FetchMB
<1> HIDE DEF rest, P, A, N, m2
<1>6. m2 \in AckMemType
  <2> DEFINE m1 == [m EXCEPT !.pendingMicroblocks = P, !.ackMap = A]
  <2>1. m1 \in AckMemType
    BY <1>1, <1>3 DEF AckMemType
  <2>2. [m1 EXCEPT !.ackNum = N, !.stableMicroblocks = rest] \in AckMemType
    <3> HIDE DEF m1
    <3> QED BY <1>2, <1>3, <2>1 DEF AckMemType
  <2> QED BY <1>5, <2>2
<1>7. /\ m2.stableMicroblocks = rest /\ m2.pendingMicroblocks = P
      /\ m2.ackNum = N /\ m2.stableMBs = m.stableMBs
      /\ m2.TotalStableMbs = m.TotalStableMbs /\ m2.microblockMap = m.microblockMap
  BY <1>1, <1>5 DEF AckMemType
<1>8. Distinct(m2.stableMicroblocks) /\ Listed(m2) \subseteq Listed(m)
  BY <1>2, <1>7 DEF Listed
<1>9. /\ m2.pendingMicroblocks \subseteq m.pendingMicroblocks
      /\ \A h \in m2.pendingMicroblocks : m2.ackNum[h] = m.ackNum[h]
  BY <1>4, <1>7 DEF P
<1> QED BY <1>6, <1>7, <1>8, <1>9, ShrinkOk DEF m2
=============================================================================
