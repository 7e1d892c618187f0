-------------------------- MODULE OrphanPoolProofs --------------------------
(***************************************************************************)
(* The orphan pool keeps its indexes, its bounds and its order of eviction *)
(* for any blocks, heights, sizes and ages.                                *)
(***************************************************************************)
EXTENDS OrphanPool, FiniteSetTheorems, SequenceTheorems, WellFoundedInduction, TLAPS

-----------------------------------------------------------------------------
(***************************************************************************)
(* Least and greatest heights, and the elements of a list.                 *)
(***************************************************************************)

\* A set of natural numbers has a least element.
LEMMA LeastExists ==
  ASSUME NEW S \in SUBSET Nat, S # {}
  PROVE  \E m \in S : \A n \in S : m <= n
  <1> DEFINE R == {ss \in Nat \X Nat : ss[1] < ss[2]}
  <1>1. IsWellFoundedOn(R, Nat)
    BY NatLessThanWellFounded, Zenon DEF OpToRel
  <1>2. PICK m \in S : \A n \in S : ~(<<n, m>> \in R)
    <2> HIDE DEF R
    <2> QED BY Zenon, <1>1, WFMin
  <1>3. \A n \in S : ~(n < m)
    BY Zenon, <1>2
  <1> QED BY <1>3

\* A set of block heights has a greatest element, since heights are bounded.
LEMMA GreatestHeight ==
  ASSUME NEW S \in SUBSET Heights, S # {}
  PROVE  Max(S) \in S /\ \A n \in S : Max(S) >= n
  <1>1. PICK top \in OrphanBlocks : \A b \in OrphanBlocks : Height[b] <= Height[top]
    BY OrphanConstants
  <1>2. Height[top] \in Nat /\ \A n \in S : n \in Nat /\ n <= Height[top]
    BY <1>1, OrphanConstants DEF Heights
  <1> DEFINE D == {Height[top] - n : n \in S}
  <1>3. D \in SUBSET Nat /\ D # {}
    BY <1>2
  <1>4. PICK m \in D : \A n \in D : m <= n
    <2> HIDE DEF D
    <2> QED BY <1>3, LeastExists
  <1>5. PICK g \in S : m = Height[top] - g
    BY <1>4
  <1>6. \A n \in S : g >= n
    <2> SUFFICES ASSUME NEW n \in S PROVE g >= n
      OBVIOUS
    <2>1. m <= Height[top] - n
      BY <1>4
    <2> QED BY <1>2, <1>5, <2>1
  <1> QED BY <1>6 DEF Max

\* What a list lists.
LEMMA ListedBlocks ==
  ASSUME NEW s \in Seq(OrphanBlocks), NEW b \in OrphanBlocks
  PROVE  /\ ToSet(s) \subseteq OrphanBlocks /\ ToSet(<<>>) = {}
         /\ Append(s, b) \in Seq(OrphanBlocks) /\ ToSet(Append(s, b)) = ToSet(s) \cup {b}
  <1>1. \A t \in Seq(OrphanBlocks) : ToSet(t) = {t[i] : i \in 1..Len(t)}
    BY DEF ToSet
  <1>2. ToSet(s) \subseteq OrphanBlocks
    BY <1>1, ElementOfSeq
  <1>3. ToSet(<<>>) = {}
    BY DEF ToSet
  <1>4. /\ Append(s, b) \in Seq(OrphanBlocks) /\ Len(Append(s, b)) = Len(s) + 1
        /\ \A i \in 1..Len(s) : Append(s, b)[i] = s[i]
        /\ Append(s, b)[Len(s) + 1] = b
    BY AppendProperties
  <1>5. ToSet(Append(s, b)) = ToSet(s) \cup {b}
    <2> DEFINE t == Append(s, b)
               n == Len(s)
    <2>1. n \in Nat /\ n + 1 \in 1..n + 1 /\ 1..n \subseteq 1..n + 1
      OBVIOUS
    <2>2. \A i \in 1..n + 1 : i \in 1..n \/ i = n + 1
      BY <2>1
    <2>3. ToSet(t) = {t[i] : i \in 1..n + 1} /\ ToSet(s) = {s[i] : i \in 1..n}
      BY Zenon, <1>1, <1>4
    <2>4. t[n + 1] = b /\ \A i \in 1..n : t[i] = s[i]
      BY <1>4
    <2> HIDE DEF t, n
    <2>5. ToSet(t) \subseteq ToSet(s) \cup {b}
      BY <2>2, <2>3, <2>4
    <2>6. ToSet(s) \cup {b} \subseteq ToSet(t)
      BY <2>1, <2>3, <2>4
    <2> QED BY <2>5, <2>6 DEF t
  <1> QED BY <1>2, <1>3, <1>4, <1>5

-----------------------------------------------------------------------------
(***************************************************************************)
(* The operations on a pool.                                               *)
(***************************************************************************)

\* What every operation keeps.
GoodIndex(p) ==
  /\ p \in PoolType
  /\ \A b \in p.orphans :
       b \in ToSet(p.prev_hash_idx[Prev[b]]) /\ b \in p.height_idx[Height[b]]
  /\ \A h \in Heights : \A b \in p.height_idx[h] : Height[b] = h
  /\ \A q \in Hashes : \A b \in ToSet(p.prev_hash_idx[q]) : Prev[b] = q
  /\ p.requested \subseteq p.orphans

\* The fields of a pool, and heights and parents of blocks.
LEMMA PoolFields ==
  ASSUME NEW p \in PoolType
  PROVE  /\ p.orphans \subseteq OrphanBlocks /\ p.requested \subseteq OrphanBlocks
         /\ p.added \in [OrphanBlocks -> Nat]
         /\ p.height_idx \in [Heights -> SUBSET OrphanBlocks]
         /\ p.prev_hash_idx \in [Hashes -> Seq(OrphanBlocks)]
         /\ \A b \in OrphanBlocks : Height[b] \in Heights /\ Prev[b] \in Hashes
         /\ Heights \subseteq Nat
         /\ IsFiniteSet(p.orphans) /\ Cardinality(p.orphans) \in Nat
  <1>1. p.orphans \subseteq OrphanBlocks
    BY DEF PoolType
  <1>2. IsFiniteSet(p.orphans) /\ Cardinality(p.orphans) \in Nat
    BY <1>1, OrphanConstants, FS_Subset, FS_CardinalityType
  <1>3. /\ \A b \in OrphanBlocks : Height[b] \in Heights /\ Prev[b] \in Hashes
        /\ Heights \subseteq Nat
    BY OrphanConstants DEF Heights
  <1> QED BY <1>1, <1>2, <1>3 DEF PoolType

\* Saving an orphan, before anything is evicted.
LEMMA InsertedIsGood ==
  ASSUME NEW p, GoodIndex(p), NEW b \in OrphanBlocks, b \notin p.orphans,
         NEW requested \in BOOLEAN, NEW moment \in Nat
  PROVE  LET q == Inserted(p, b, requested, moment) IN
         /\ GoodIndex(q) /\ q.orphans = p.orphans \cup {b}
         /\ q.requested = (IF requested THEN p.requested \cup {b} ELSE p.requested)
         /\ \A k \in p.orphans : q.added[k] = p.added[k]
  <1> DEFINE q == Inserted(p, b, requested, moment)
             h == Height[b]
             u == Prev[b]
  <1>1. /\ p \in PoolType /\ p.orphans \subseteq OrphanBlocks /\ p.requested \subseteq p.orphans
        /\ p.added \in [OrphanBlocks -> Nat]
        /\ p.height_idx \in [Heights -> SUBSET OrphanBlocks]
        /\ p.prev_hash_idx \in [Hashes -> Seq(OrphanBlocks)]
        /\ h \in Heights /\ u \in Hashes
    BY PoolFields DEF GoodIndex
  <1>2. /\ q.orphans = p.orphans \cup {b} /\ q.added = [p.added EXCEPT ![b] = moment]
        /\ q.requested = (IF requested THEN p.requested \cup {b} ELSE p.requested)
        /\ q.height_idx = [p.height_idx EXCEPT ![h] = @ \cup {b}]
        /\ q.prev_hash_idx = [p.prev_hash_idx EXCEPT ![u] = Append(@, b)]
        /\ q = [orphans |-> q.orphans, added |-> q.added, requested |-> q.requested,
                height_idx |-> q.height_idx, prev_hash_idx |-> q.prev_hash_idx]
    <2>1. q = [orphans |-> p.orphans \cup {b}, added |-> [p.added EXCEPT ![b] = moment],
               requested |-> IF requested THEN p.requested \cup {b} ELSE p.requested,
               height_idx |-> [p.height_idx EXCEPT ![h] = @ \cup {b}],
               prev_hash_idx |-> [p.prev_hash_idx EXCEPT ![u] = Append(@, b)]]
      BY DEF Inserted
    <2> HIDE DEF q, h, u
    <2> QED BY <2>1
  <1>3. /\ ToSet(Append(p.prev_hash_idx[u], b)) = ToSet(p.prev_hash_idx[u]) \cup {b}
        /\ Append(p.prev_hash_idx[u], b) \in Seq(OrphanBlocks)
    BY <1>1, ListedBlocks
  <1> HIDE DEF q, h, u
  <1>4. /\ q.height_idx \in [Heights -> SUBSET OrphanBlocks] /\ q.height_idx[h] = p.height_idx[h] \cup {b}
        /\ \A k \in Heights \ {h} : q.height_idx[k] = p.height_idx[k]
    BY <1>1, <1>2
  <1>5. /\ q.prev_hash_idx \in [Hashes -> Seq(OrphanBlocks)]
        /\ ToSet(q.prev_hash_idx[u]) = ToSet(p.prev_hash_idx[u]) \cup {b}
        /\ \A k \in Hashes \ {u} : q.prev_hash_idx[k] = p.prev_hash_idx[k]
    BY <1>1, <1>2, <1>3
  <1>6. q \in PoolType
    <2>1. /\ q.orphans \in SUBSET OrphanBlocks /\ q.requested \in SUBSET OrphanBlocks
          /\ q.added \in [OrphanBlocks -> Nat]
      BY <1>1, <1>2
    <2> QED BY <1>2, <1>4, <1>5, <2>1, Zenon DEF PoolType
  <1>7. \A k \in q.orphans : k \in ToSet(q.prev_hash_idx[Prev[k]]) /\ k \in q.height_idx[Height[k]]
    <2> SUFFICES ASSUME NEW k \in q.orphans
                 PROVE  k \in ToSet(q.prev_hash_idx[Prev[k]]) /\ k \in q.height_idx[Height[k]]
      OBVIOUS
    <2>1. CASE k = b
      BY <1>4, <1>5, <2>1 DEF h, u
    <2>2. CASE k \in p.orphans
      <3>1. /\ k \in ToSet(p.prev_hash_idx[Prev[k]]) /\ k \in p.height_idx[Height[k]]
            /\ Prev[k] \in Hashes /\ Height[k] \in Heights
        BY <1>1, <2>2, PoolFields DEF GoodIndex
      <3> QED BY Zenon, <1>4, <1>5, <3>1
    <2> QED BY <1>2, <2>1, <2>2
  <1>8. \A k \in Heights : \A c \in q.height_idx[k] : Height[c] = k
    BY <1>4 DEF GoodIndex, h
  <1>9. \A k \in Hashes : \A c \in ToSet(q.prev_hash_idx[k]) : Prev[c] = k
    BY Zenon, <1>5 DEF GoodIndex, u
  <1>10. q.requested \subseteq q.orphans
    BY <1>1, <1>2
  <1>11. \A k \in p.orphans : q.added[k] = p.added[k]
    BY <1>1, <1>2
  <1> QED BY <1>2, <1>6, <1>7, <1>8, <1>9, <1>10, <1>11 DEF q, GoodIndex

\* Dropping blocks, all orphans from height cut up among them, with the index
\* entries that only list dropped blocks.
LEMMA WithoutIsGood ==
  ASSUME NEW p, GoodIndex(p), NEW removed, NEW cut \in Nat,
         \A b \in p.orphans : Height[b] >= cut => b \in removed
  PROVE  LET q == Without(p, removed, cut) IN
         /\ GoodIndex(q) /\ q.orphans = p.orphans \ removed
         /\ q.requested = p.requested \ removed
  <1> DEFINE q == Without(p, removed, cut)
  <1>1. /\ p \in PoolType /\ p.orphans \subseteq OrphanBlocks /\ p.requested \subseteq p.orphans
        /\ p.added \in [OrphanBlocks -> Nat]
        /\ p.height_idx \in [Heights -> SUBSET OrphanBlocks]
        /\ p.prev_hash_idx \in [Hashes -> Seq(OrphanBlocks)]
        /\ \A b \in OrphanBlocks : Height[b] \in Heights /\ Prev[b] \in Hashes
        /\ Heights \subseteq Nat
    BY PoolFields DEF GoodIndex
  <1>2. /\ q.orphans = p.orphans \ removed /\ q.requested = p.requested \ removed
        /\ q.height_idx = [h \in Heights |->
             IF h < cut /\ KeepsEntry(p.height_idx[h], removed) THEN p.height_idx[h] ELSE {}]
        /\ q.prev_hash_idx = [k \in Hashes |->
             IF KeepsEntry(ToSet(p.prev_hash_idx[k]), removed) THEN p.prev_hash_idx[k] ELSE <<>>]
        /\ q = [p EXCEPT !.orphans = q.orphans, !.requested = q.requested,
                         !.height_idx = q.height_idx, !.prev_hash_idx = q.prev_hash_idx]
    BY <1>1 DEF Without, PoolType
  <1> HIDE DEF q
  <1>3. /\ q.height_idx \in [Heights -> SUBSET OrphanBlocks]
        /\ \A h \in Heights : q.height_idx[h] = {} \/ q.height_idx[h] = p.height_idx[h]
    BY ZenonT(30), <1>1, <1>2
  <1>4. /\ q.prev_hash_idx \in [Hashes -> Seq(OrphanBlocks)]
        /\ \A k \in Hashes : q.prev_hash_idx[k] = <<>> \/ q.prev_hash_idx[k] = p.prev_hash_idx[k]
    <2>1. <<>> \in Seq(OrphanBlocks)
      BY EmptySeq
    <2>2. \A k \in Hashes : p.prev_hash_idx[k] \in Seq(OrphanBlocks)
      BY <1>1
    <2>3. \A k \in Hashes : q.prev_hash_idx[k] \in {<<>>, p.prev_hash_idx[k]}
      BY Zenon, <1>2
    <2>4. q.prev_hash_idx = [k \in Hashes |-> q.prev_hash_idx[k]]
      BY ZenonT(30), <1>2
    <2> QED BY ZenonT(30), <2>1, <2>2, <2>3, <2>4
  <1>5. q \in PoolType
    BY ZenonT(30), <1>1, <1>2, <1>3, <1>4 DEF PoolType
  <1>6. ASSUME NEW b \in q.orphans
        PROVE  b \in ToSet(q.prev_hash_idx[Prev[b]]) /\ b \in q.height_idx[Height[b]]
    <2>1. /\ b \in p.orphans /\ b \notin removed /\ b \in OrphanBlocks
          /\ Height[b] \in Heights /\ Prev[b] \in Hashes
      BY Zenon, <1>1, <1>2
    <2>2. b \in ToSet(p.prev_hash_idx[Prev[b]]) /\ b \in p.height_idx[Height[b]]
      BY <2>1 DEF GoodIndex
    <2>3. Height[b] < cut
      <3>1. Height[b] \in Nat /\ ~(Height[b] >= cut)
        BY Zenon, <1>1, <2>1
      <3> QED BY <3>1
    <2>4. /\ KeepsEntry(p.height_idx[Height[b]], removed)
          /\ KeepsEntry(ToSet(p.prev_hash_idx[Prev[b]]), removed)
      BY <2>1, <2>2 DEF KeepsEntry
    <2> QED BY ZenonT(30), <1>2, <2>1, <2>2, <2>3, <2>4
  <1>7. \A h \in Heights : \A b \in q.height_idx[h] : Height[b] = h
    BY <1>3 DEF GoodIndex
  <1>8. \A k \in Hashes : \A b \in ToSet(q.prev_hash_idx[k]) : Prev[b] = k
    <2>1. ToSet(<<>>) = {}
      BY DEF ToSet
    <2> QED BY <1>4, <2>1 DEF GoodIndex
  <1>9. q.requested \subseteq q.orphans
    BY Zenon, <1>1, <1>2
  <1> QED BY Zenon, <1>2, <1>5, <1>6, <1>7, <1>8, <1>9 DEF q, GoodIndex

\* The loop over the heights stops at a height, with few enough orphans below it.
LEMMA CutHeightExists ==
  ASSUME NEW p, GoodIndex(p), p.orphans # {}, NEW young \in SUBSET p.orphans
  PROVE  LET cut == CutHeight(p, young) IN
         /\ cut \in Heights /\ cut \in Nat
         /\ Cardinality(young \ CutBlocks(p, cut)) < MAX_ORPHAN_SIZE
  <1> DEFINE used == {h \in Heights : p.height_idx[h] # {}}
             fits == {h \in Heights : p.height_idx[h] # {}
                        /\ Cardinality(young \ CutBlocks(p, h)) < MAX_ORPHAN_SIZE}
  <1>1. \A b \in p.orphans : Height[b] \in used /\ b \in p.height_idx[Height[b]]
    BY PoolFields DEF GoodIndex
  <1>2. used \in SUBSET Nat /\ used # {} /\ Heights \subseteq Nat
    BY <1>1, PoolFields DEF GoodIndex
  <1>3. PICK low \in used : \A h \in used : low <= h
    <2> HIDE DEF used
    <2> QED BY <1>2, LeastExists
  <1>4. young \ CutBlocks(p, low) = {}
    <2> SUFFICES ASSUME NEW b \in young PROVE b \in CutBlocks(p, low)
      OBVIOUS
    <2>1. Height[b] \in Heights /\ Height[b] >= low /\ b \in p.height_idx[Height[b]]
      BY <1>1, <1>2, <1>3
    <2> QED BY <2>1 DEF CutBlocks
  <1>5. low \in fits
    <2>1. Cardinality(young \ CutBlocks(p, low)) = 0
      BY <1>4, FS_EmptySet
    <2>2. 0 < MAX_ORPHAN_SIZE
      BY OrphanConstants
    <2> QED BY <1>3, <2>1, <2>2
  <1>6. Max(fits) \in fits
    <2>1. fits \in SUBSET Heights /\ fits # {}
      BY <1>5
    <2> HIDE DEF fits
    <2> QED BY <2>1, GreatestHeight
  <1> QED BY Zenon, <1>2, <1>6 DEF CutHeight

\* An overflowing pool is evicted from the top and is below its size afterwards.
LEMMA EvictedIsGood ==
  ASSUME NEW p, GoodIndex(p), p.orphans # {}, NEW moment \in Nat
  PROVE  LET q == Evicted(p, moment) IN
         /\ GoodIndex(q) /\ q.orphans \subseteq p.orphans /\ q.requested \subseteq p.requested
         /\ Cardinality(q.orphans) < MAX_ORPHAN_SIZE
         /\ \A b \in p.orphans \ q.orphans :
              b \notin Expired(p, moment) => \A k \in q.orphans : Height[k] < Height[b]
  <1> DEFINE old == Expired(p, moment)
             cut == CutHeight(p, p.orphans \ old)
             removed == old \cup CutBlocks(p, cut)
             q == Evicted(p, moment)
  <1>1. /\ cut \in Heights /\ cut \in Nat
        /\ Cardinality((p.orphans \ old) \ CutBlocks(p, cut)) < MAX_ORPHAN_SIZE
    BY CutHeightExists
  <1>2. q = Without(p, removed, cut)
    BY DEF Evicted
  <1> HIDE DEF old, cut, q
  <1>3. /\ Heights \subseteq Nat
        /\ \A b \in p.orphans : /\ Height[b] \in Heights /\ Height[b] \in Nat
                                 /\ b \in p.height_idx[Height[b]]
    BY PoolFields DEF GoodIndex
  <1>4. \A b \in p.orphans : Height[b] >= cut => b \in CutBlocks(p, cut)
    BY <1>3 DEF CutBlocks
  <1>5. \A b \in CutBlocks(p, cut) : Height[b] >= cut
    <2> SUFFICES ASSUME NEW b \in CutBlocks(p, cut) PROVE Height[b] >= cut
      OBVIOUS
    <2>1. PICK h \in Heights : h >= cut /\ b \in p.height_idx[h]
      BY DEF CutBlocks
    <2>2. Height[b] = h
      BY <2>1 DEF GoodIndex
    <2> QED BY <2>1, <2>2
  <1>6. /\ GoodIndex(q) /\ q.orphans = p.orphans \ removed
        /\ q.requested = p.requested \ removed
    BY <1>1, <1>2, <1>4, WithoutIsGood
  <1>7. Cardinality(q.orphans) < MAX_ORPHAN_SIZE
    <2>1. q.orphans = (p.orphans \ old) \ CutBlocks(p, cut)
      BY <1>6
    <2> QED BY <1>1, <2>1
  <1>8. ASSUME NEW b \in p.orphans \ q.orphans, b \notin old, NEW k \in q.orphans
        PROVE  Height[k] < Height[b]
    <2>1. Height[b] >= cut /\ Height[b] \in Nat
      BY <1>3, <1>5, <1>6, <1>8
    <2>2. ~(Height[k] >= cut) /\ Height[k] \in Nat
      BY <1>3, <1>4, <1>6
    <2> QED BY <1>1, <2>1, <2>2
  <1> QED BY <1>6, <1>7, <1>8 DEF q, old

\* The children of an accepted block leave the pool.
LEMMA RemoveByPrevHashIsGood ==
  ASSUME NEW p, GoodIndex(p), NEW u \in Hashes
  PROVE  LET q == RemoveByPrevHash(p, u) IN
         /\ GoodIndex(q) /\ q.orphans \subseteq p.orphans /\ q.requested \subseteq p.requested
  <1> DEFINE q == RemoveByPrevHash(p, u)
             removed == ToSet(p.prev_hash_idx[u])
  <1>1. /\ p \in PoolType /\ p.orphans \subseteq OrphanBlocks /\ p.requested \subseteq p.orphans
        /\ p.added \in [OrphanBlocks -> Nat]
        /\ p.height_idx \in [Heights -> SUBSET OrphanBlocks]
        /\ p.prev_hash_idx \in [Hashes -> Seq(OrphanBlocks)]
        /\ \A b \in OrphanBlocks : Height[b] \in Heights /\ Prev[b] \in Hashes
    BY PoolFields DEF GoodIndex
  <1>2. /\ q.orphans = p.orphans \ removed /\ q.requested = p.requested \ removed
        /\ q.height_idx = [h \in Heights |->
             IF KeepsEntry(p.height_idx[h], removed) THEN p.height_idx[h] ELSE {}]
        /\ q.prev_hash_idx = [p.prev_hash_idx EXCEPT ![u] = <<>>]
        /\ q = [p EXCEPT !.orphans = q.orphans, !.requested = q.requested,
                         !.height_idx = q.height_idx, !.prev_hash_idx = q.prev_hash_idx]
    BY <1>1 DEF RemoveByPrevHash, PoolType
  <1> HIDE DEF q
  <1>3. /\ q.height_idx \in [Heights -> SUBSET OrphanBlocks]
        /\ \A h \in Heights : q.height_idx[h] = {} \/ q.height_idx[h] = p.height_idx[h]
    <2> HIDE DEF removed
    <2> QED BY <1>1, <1>2
  <1>4. /\ q.prev_hash_idx \in [Hashes -> Seq(OrphanBlocks)] /\ q.prev_hash_idx[u] = <<>>
        /\ \A k \in Hashes \ {u} : q.prev_hash_idx[k] = p.prev_hash_idx[k]
    <2>1. <<>> \in Seq(OrphanBlocks)
      BY EmptySeq
    <2> QED BY ZenonT(30), <1>1, <1>2, <2>1
  <1>5. q \in PoolType
    <2> HIDE DEF removed
    <2> QED BY ZenonT(30), <1>1, <1>2, <1>3, <1>4 DEF PoolType
  <1>6. ASSUME NEW b \in q.orphans
        PROVE  b \in ToSet(q.prev_hash_idx[Prev[b]]) /\ b \in q.height_idx[Height[b]]
    <2>1. /\ b \in p.orphans /\ b \notin removed /\ b \in OrphanBlocks
          /\ Height[b] \in Heights /\ Prev[b] \in Hashes
      BY Zenon, <1>1, <1>2
    <2>2. b \in ToSet(p.prev_hash_idx[Prev[b]]) /\ b \in p.height_idx[Height[b]]
      BY <2>1 DEF GoodIndex
    <2>3. Prev[b] # u
      BY <2>1, <2>2
    <2>4. KeepsEntry(p.height_idx[Height[b]], removed)
      BY <2>1, <2>2 DEF KeepsEntry
    <2> QED BY Zenon, <1>2, <1>4, <2>1, <2>2, <2>3, <2>4
  <1>7. \A h \in Heights : \A b \in q.height_idx[h] : Height[b] = h
    BY <1>3 DEF GoodIndex
  <1>8. \A k \in Hashes : \A b \in ToSet(q.prev_hash_idx[k]) : Prev[b] = k
    <2>1. ToSet(<<>>) = {}
      BY DEF ToSet
    <2> QED BY <1>4, <2>1 DEF GoodIndex
  <1>9. q.requested \subseteq q.orphans
    BY Zenon, <1>1, <1>2
  <1> QED BY ZenonT(30), <1>2, <1>5, <1>6, <1>7, <1>8, <1>9 DEF q, GoodIndex

-----------------------------------------------------------------------------
(***************************************************************************)
(* The steps of the pool.                                                  *)
(***************************************************************************)

\* The invariant, by the pool.
LEMMA InvOfPool ==
  OrphanInv <=> /\ GoodIndex(pool) /\ time \in Nat
                /\ Cardinality(pool.requested) <= MAX_ORPHAN_MISSING_CHUNKS
                /\ Cardinality(pool.orphans) <= MAX_ORPHAN_SIZE
  BY DEF OrphanInv, OrphanTypeOK, OrphansAreIndexed, RequestedAreOrphans, PoolBounded, GoodIndex

\* The same of the next state.
LEMMA InvOfNextPool ==
  ASSUME GoodIndex(pool'), time' \in Nat,
         Cardinality(pool'.requested) <= MAX_ORPHAN_MISSING_CHUNKS,
         Cardinality(pool'.orphans) <= MAX_ORPHAN_SIZE
  PROVE  OrphanInv'
  BY DEF OrphanInv, OrphanTypeOK, OrphansAreIndexed, RequestedAreOrphans, PoolBounded, GoodIndex

\* An empty pool.
LEMMA EmptyIsGood ==
  /\ GoodIndex(EmptyPool)
  /\ Cardinality(EmptyPool.orphans) <= MAX_ORPHAN_SIZE
  /\ Cardinality(EmptyPool.requested) <= MAX_ORPHAN_MISSING_CHUNKS
  <1>1. /\ EmptyPool.orphans = {} /\ EmptyPool.requested = {}
        /\ EmptyPool \in PoolType
        /\ \A h \in Heights : EmptyPool.height_idx[h] = {}
        /\ \A k \in Hashes : ToSet(EmptyPool.prev_hash_idx[k]) = {}
    BY EmptySeq DEF EmptyPool, PoolType, ToSet
  <1>2. GoodIndex(EmptyPool)
    BY <1>1 DEF GoodIndex
  <1>3. Cardinality(EmptyPool.orphans) = 0 /\ Cardinality(EmptyPool.requested) = 0
    BY <1>1, FS_EmptySet
  <1> QED BY <1>2, <1>3, OrphanConstants

\* The pool starts empty.
LEMMA InitOrphanInv == OrphanInit => OrphanInv
  BY InvOfPool, EmptyIsGood DEF OrphanInit

\* Fewer requested orphans of a pool are a smaller number of them.
LEMMA FewerRequested ==
  ASSUME NEW p, GoodIndex(p), NEW S \in SUBSET p.requested,
         Cardinality(p.requested) <= MAX_ORPHAN_MISSING_CHUNKS
  PROVE  Cardinality(S) <= MAX_ORPHAN_MISSING_CHUNKS
  <1>1. IsFiniteSet(p.requested)
    BY PoolFields, FS_Subset DEF GoodIndex
  <1>2. /\ Cardinality(S) <= Cardinality(p.requested)
        /\ Cardinality(S) \in Nat /\ Cardinality(p.requested) \in Nat
    BY <1>1, FS_Subset, FS_CardinalityType
  <1> QED BY <1>2, OrphanConstants

\* Saving an orphan keeps the invariant, and evicts from the top.
LEMMA SavePreserves ==
  ASSUME OrphanInv, Save
  PROVE  /\ OrphanInv'
         /\ \A b \in pool.orphans \ pool'.orphans :
              b \notin Expired(pool, time) => \A k \in pool'.orphans : Height[k] < Height[b]
  <1>1. /\ GoodIndex(pool) /\ time \in Nat
        /\ Cardinality(pool.requested) <= MAX_ORPHAN_MISSING_CHUNKS
    BY InvOfPool
  <1>2. PICK b \in OrphanBlocks, wanted \in BOOLEAN :
          /\ b \notin pool.orphans
          /\ pool' = SaveOrphan(pool, b, wanted /\ CanRequestMissingChunks(pool, b), time)
          /\ time' = time
    BY DEF Save
  <1> DEFINE r == wanted /\ CanRequestMissingChunks(pool, b)
             p == Inserted(pool, b, r, time)
  <1>3. r \in BOOLEAN
    BY DEF CanRequestMissingChunks
  <1>4. /\ GoodIndex(p) /\ p.orphans = pool.orphans \cup {b}
        /\ p.requested = (IF r THEN pool.requested \cup {b} ELSE pool.requested)
        /\ \A k \in pool.orphans : p.added[k] = pool.added[k]
    <2>1. GoodIndex(pool) /\ time \in Nat /\ b \notin pool.orphans /\ r \in BOOLEAN
      BY <1>1, <1>2, <1>3
    <2> HIDE DEF r
    <2> QED BY ONLY <2>1, b \in OrphanBlocks, InsertedIsGood
  <1>5. pool' = IF Cardinality(p.orphans) > MAX_ORPHAN_SIZE THEN Evicted(p, time) ELSE p
    BY <1>2 DEF SaveOrphan, AddOrphan
  <1>6. Cardinality(p.requested) <= MAX_ORPHAN_MISSING_CHUNKS
    <2>1. IsFiniteSet(pool.requested)
      BY <1>1, PoolFields, FS_Subset DEF GoodIndex
    <2>2. CASE ~r
      BY <1>1, <1>4, <2>2
    <2>3. CASE r
      <3>1. Cardinality(pool.requested) < MAX_ORPHAN_MISSING_CHUNKS
        BY <2>3 DEF CanRequestMissingChunks
      <3>2. Cardinality(pool.requested) \in Nat
        BY <2>1, FS_CardinalityType
      <3>3. Cardinality(pool.requested \cup {b}) \in {Cardinality(pool.requested), Cardinality(pool.requested) + 1}
        BY <2>1, FS_AddElement
      <3>4. p.requested = pool.requested \cup {b}
        BY <1>4, <2>3
      <3>5. MAX_ORPHAN_MISSING_CHUNKS \in Nat
        BY OrphanConstants
      <3> HIDE DEF p, r
      <3>6. Cardinality(pool.requested \cup {b}) <= MAX_ORPHAN_MISSING_CHUNKS
        BY <3>1, <3>2, <3>3, <3>5
      <3> QED BY <3>4, <3>6
    <2> QED BY <2>2, <2>3
  <1> HIDE DEF r, p
  <1>7. Cardinality(p.orphans) \in Nat /\ p.orphans # {}
    BY Zenon, <1>4, PoolFields DEF GoodIndex
  <1>8. \A k \in pool.orphans : k \in Expired(p, time) <=> k \in Expired(pool, time)
    BY <1>4 DEF Expired
  <1>9. CASE Cardinality(p.orphans) > MAX_ORPHAN_SIZE
    <2>1. /\ GoodIndex(pool') /\ pool'.requested \subseteq p.requested
          /\ Cardinality(pool'.orphans) < MAX_ORPHAN_SIZE
          /\ \A c \in p.orphans \ pool'.orphans :
               c \notin Expired(p, time) => \A k \in pool'.orphans : Height[k] < Height[c]
      BY Zenon, <1>1, <1>4, <1>5, <1>7, <1>9, EvictedIsGood
    <2>2. Cardinality(pool'.requested) <= MAX_ORPHAN_MISSING_CHUNKS
      BY <1>4, <1>6, <2>1, FewerRequested
    <2>3. Cardinality(pool'.orphans) <= MAX_ORPHAN_SIZE
      <3>1. Cardinality(pool'.orphans) \in Nat
        BY <2>1, PoolFields DEF GoodIndex
      <3> QED BY <2>1, <3>1, OrphanConstants
    <2>4. OrphanInv'
      BY <1>1, <1>2, <2>1, <2>2, <2>3, InvOfNextPool
    <2> QED BY <1>4, <1>8, <2>1, <2>4
  <1>10. CASE ~(Cardinality(p.orphans) > MAX_ORPHAN_SIZE)
    <2>1. pool' = p
      BY <1>5, <1>10
    <2>2. Cardinality(pool'.orphans) <= MAX_ORPHAN_SIZE
      BY <1>7, <1>10, <2>1, OrphanConstants
    <2>3. OrphanInv'
      BY <1>1, <1>2, <1>4, <1>6, <2>1, <2>2, InvOfNextPool
    <2> QED BY <1>4, <2>1, <2>3
  <1> QED BY <1>9, <1>10

\* check_orphans keeps the invariant, whichever orphans it requests chunks of.
LEMMA CheckOrphansPreserves ==
  ASSUME OrphanInv, CheckOrphans
  PROVE  OrphanInv'
  <1>1. /\ GoodIndex(pool) /\ time \in Nat
        /\ Cardinality(pool.orphans) <= MAX_ORPHAN_SIZE
    BY InvOfPool
  <1>2. PICK u \in Hashes :
          \/ \E wanted \in SUBSET pool.orphans :
               /\ Cardinality(pool.requested \cup wanted) <= MAX_ORPHAN_MISSING_CHUNKS
               /\ pool' = RemoveByPrevHash(MarkRequested(pool, wanted), u)
          \/ pool' = EmptyPool
    <2>1. PICK u \in Hashes :
            LET found == ToSet(GetOrphansWithinDepth(pool, u, NUM_ORPHAN_ANCESTORS_CHECK)) IN
            \/ /\ found \subseteq pool.orphans
               /\ \E wanted \in SUBSET found :
                    /\ Cardinality(pool.requested \cup wanted) <= MAX_ORPHAN_MISSING_CHUNKS
                    /\ pool' = RemoveByPrevHash(MarkRequested(pool, wanted), u)
            \/ pool' = EmptyPool
      BY Zenon DEF CheckOrphans
    <2> DEFINE found == ToSet(GetOrphansWithinDepth(pool, u, NUM_ORPHAN_ANCESTORS_CHECK))
    <2>2. \/ /\ found \subseteq pool.orphans
             /\ \E wanted \in SUBSET found :
                  /\ Cardinality(pool.requested \cup wanted) <= MAX_ORPHAN_MISSING_CHUNKS
                  /\ pool' = RemoveByPrevHash(MarkRequested(pool, wanted), u)
          \/ pool' = EmptyPool
      BY <2>1
    <2> HIDE DEF found
    <2> QED BY <2>2
  <1>3. time' = time
    BY DEF CheckOrphans
  <1>4. CASE pool' = EmptyPool
    <2>1. time' \in Nat /\ GoodIndex(pool')
      BY <1>1, <1>3, <1>4, EmptyIsGood
    <2> QED BY <1>4, <2>1, EmptyIsGood, InvOfNextPool
  <1>5. ASSUME NEW wanted \in SUBSET pool.orphans,
               Cardinality(pool.requested \cup wanted) <= MAX_ORPHAN_MISSING_CHUNKS,
               pool' = RemoveByPrevHash(MarkRequested(pool, wanted), u)
        PROVE  OrphanInv'
    <2> DEFINE p == MarkRequested(pool, wanted)
    <2>1. /\ p.orphans = pool.orphans /\ p.requested = pool.requested \cup wanted
          /\ p.height_idx = pool.height_idx /\ p.prev_hash_idx = pool.prev_hash_idx
          /\ p \in PoolType
      BY Zenon, <1>1, PoolFields DEF MarkRequested, GoodIndex, PoolType
    <2> HIDE DEF p
    <2>2. GoodIndex(p)
      BY <1>1, <2>1 DEF GoodIndex
    <2>3. /\ GoodIndex(pool') /\ pool'.orphans \subseteq pool.orphans
          /\ pool'.requested \subseteq p.requested
      BY <1>5, <2>1, <2>2, RemoveByPrevHashIsGood DEF p
    <2>4. Cardinality(pool'.requested) <= MAX_ORPHAN_MISSING_CHUNKS
      BY <1>5, <2>1, <2>2, <2>3, FewerRequested
    <2>5. Cardinality(pool'.orphans) <= MAX_ORPHAN_SIZE
      <3>1. /\ Cardinality(pool'.orphans) <= Cardinality(pool.orphans)
            /\ Cardinality(pool'.orphans) \in Nat /\ Cardinality(pool.orphans) \in Nat
        BY <1>1, <2>3, PoolFields, FS_Subset DEF GoodIndex
      <3> QED BY <1>1, <3>1, OrphanConstants
    <2> QED BY <1>1, <1>3, <2>3, <2>4, <2>5, InvOfNextPool
  <1> QED BY Zenon, <1>2, <1>4, <1>5

\* Every step keeps the invariant.
LEMMA NextOrphanInv == OrphanInv /\ [OrphanNext]_poolVars => OrphanInv'
  <1> SUFFICES ASSUME OrphanInv, [OrphanNext]_poolVars PROVE OrphanInv'
    OBVIOUS
  <1>1. CASE Save
    BY <1>1, SavePreserves
  <1>2. CASE CheckOrphans
    BY <1>2, CheckOrphansPreserves
  <1>3. CASE OrphanTick \/ UNCHANGED poolVars
    <2>1. pool' = pool /\ time' \in {time, time + 1}
      BY <1>3 DEF OrphanTick, poolVars
    <2>2. time' \in Nat
      BY <2>1 DEF OrphanInv, OrphanTypeOK
    <2> QED BY <2>1, <2>2, InvOfPool, InvOfNextPool
  <1> QED BY <1>1, <1>2, <1>3 DEF OrphanNext

-----------------------------------------------------------------------------
\* The invariant of the pool, under any order of saves, acceptances and evictions.
THEOREM OrphanInvariance == OrphanSpec => []OrphanInv
  BY InitOrphanInv, NextOrphanInv, PTL DEF OrphanSpec

\* An orphan in the pool is always found under its previous block and its height.
THEOREM OrphansStayIndexed == OrphanSpec => []OrphansAreIndexed
  <1>1. OrphanInv => OrphansAreIndexed
    BY DEF OrphanInv
  <1> QED BY <1>1, OrphanInvariance, PTL

\* Requested orphans are orphans, and few.
THEOREM RequestsAreBounded == OrphanSpec => []RequestedAreOrphans
  <1>1. OrphanInv => RequestedAreOrphans
    BY DEF OrphanInv
  <1> QED BY <1>1, OrphanInvariance, PTL

\* The pool is never above its size.
THEOREM PoolStaysBounded == OrphanSpec => []PoolBounded
  <1>1. OrphanInv => PoolBounded
    BY DEF OrphanInv
  <1> QED BY <1>1, OrphanInvariance, PTL

\* An orphan that is not too old is evicted only when all that stay are below it.
THEOREM LowestOrphansStay == OrphanSpec => EvictsFromTheTop
  <1>1. OrphanInv /\ [OrphanNext]_poolVars =>
          [Save => \A b \in pool.orphans \ pool'.orphans :
             time - pool.added[b] < MAX_ORPHAN_AGE => \A k \in pool'.orphans : Height[k] < Height[b]]_poolVars
    <2>1. ASSUME OrphanInv, NEW b \in pool.orphans, time - pool.added[b] < MAX_ORPHAN_AGE
          PROVE  b \notin Expired(pool, time)
      <3>1. time \in Nat /\ pool.added[b] \in Nat /\ MAX_ORPHAN_AGE \in Nat
        BY <2>1, InvOfPool, PoolFields, OrphanConstants DEF GoodIndex
      <3> QED BY <2>1, <3>1 DEF Expired
    <2> QED BY <2>1, SavePreserves, Zenon
  <1> QED BY <1>1, OrphanInvariance, PTL DEF OrphanSpec, EvictsFromTheTop

=============================================================================
