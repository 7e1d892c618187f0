----------------------------- MODULE OrphanPool -----------------------------
(***************************************************************************)
(* OrphanBlockPool: the blocks that wait for their previous block, found   *)
(* by the hash they wait for (prev_hash_idx) and evicted by age and by     *)
(* height (height_idx) when the pool overflows.  A pool is a record, an    *)
(* operation an operator on it.  Orphan lists are sequences where the      *)
(* order of the list decides (prev_hash_idx) and sets where it does not.   *)
(***************************************************************************)
EXTENDS Integers, SequencesExt

CONSTANTS
  OrphanBlocks,          \* blocks that may arrive
  Hashes,          \* their hashes and those of the blocks they are built on
  Height,          \* [OrphanBlocks -> Nat]
  Prev,            \* [OrphanBlocks -> Hashes]
  MAX_ORPHAN_SIZE,
  MAX_ORPHAN_AGE,  \* in ticks of the model's clock
  MAX_ORPHAN_MISSING_CHUNKS,
  NUM_ORPHAN_ANCESTORS_CHECK,
  MaxPoolTime,         \* bound: the clock stops there
  MaxListed        \* bound: the length of an orphan list

Heights == {Height[b] : b \in OrphanBlocks}

ASSUME OrphanConstants ==
  /\ OrphanBlocks \subseteq Hashes /\ IsFiniteSet(OrphanBlocks)
  /\ Height \in [OrphanBlocks -> Nat] /\ Prev \in [OrphanBlocks -> Hashes]
  /\ \A b \in OrphanBlocks : Prev[b] \in OrphanBlocks => Height[Prev[b]] < Height[b]
  /\ \E top \in OrphanBlocks : \A b \in OrphanBlocks : Height[b] <= Height[top]
  /\ MAX_ORPHAN_SIZE \in Nat \ {0} /\ MAX_ORPHAN_AGE \in Nat \ {0}
  /\ MAX_ORPHAN_MISSING_CHUNKS \in Nat /\ NUM_ORPHAN_ANCESTORS_CHECK \in Nat
  /\ MaxPoolTime \in Nat /\ MaxListed \in Nat

EmptyPool ==
  [orphans |-> {}, added |-> [b \in OrphanBlocks |-> 0], requested |-> {},
   height_idx |-> [h \in Heights |-> {}], prev_hash_idx |-> [p \in Hashes |-> <<>>]]

(***************************************************************************)
(* OrphanBlockPool::add.  Heights are evicted from the highest down until  *)
(* the pool is below its size again: down to the highest one that leaves   *)
(* few enough orphans below it.  An index entry goes when none of its      *)
(* blocks is left; an entry that stays keeps all of its blocks.            *)
(***************************************************************************)
Inserted(pool, b, requested, time) ==
  [orphans |-> pool.orphans \cup {b},
   added |-> [pool.added EXCEPT ![b] = time],
   requested |-> IF requested THEN pool.requested \cup {b} ELSE pool.requested,
   height_idx |-> [pool.height_idx EXCEPT ![Height[b]] = @ \cup {b}],
   prev_hash_idx |-> [pool.prev_hash_idx EXCEPT ![Prev[b]] = Append(@, b)]]

Expired_Mutant(pool, time) == {b \in pool.orphans : time - pool.added[b] < MAX_ORPHAN_AGE}

Expired(pool, time) == {b \in pool.orphans : time - pool.added[b] >= MAX_ORPHAN_AGE}

CutBlocks(pool, cut) == UNION {pool.height_idx[h] : h \in {k \in Heights : k >= cut}}

CutHeight(pool, young) ==
  Max({h \in Heights :
         pool.height_idx[h] # {} /\ Cardinality(young \ CutBlocks(pool, h)) < MAX_ORPHAN_SIZE})

KeepsEntry_Mutant(blocks, removed) == blocks \cap removed = {}

KeepsEntry(blocks, removed) == \E b \in blocks : b \notin removed

Without(pool, removed, cut) ==
  [pool EXCEPT
     !.orphans = pool.orphans \ removed,
     !.requested = pool.requested \ removed,
     !.height_idx = [h \in Heights |->
        IF h < cut /\ KeepsEntry(pool.height_idx[h], removed) THEN pool.height_idx[h] ELSE {}],
     !.prev_hash_idx = [p \in Hashes |->
        IF KeepsEntry(ToSet(pool.prev_hash_idx[p]), removed) THEN pool.prev_hash_idx[p] ELSE <<>>]]

Evicted(pool, time) ==
  LET old == Expired(pool, time)
      cut == CutHeight(pool, pool.orphans \ old)
  IN Without(pool, old \cup CutBlocks(pool, cut), cut)

AddOrphan(pool, b, requested, time) ==
  LET p == Inserted(pool, b, requested, time) IN
  IF Cardinality(p.orphans) > MAX_ORPHAN_SIZE THEN Evicted(p, time) ELSE p

\* Chain::save_orphan.
SaveOrphan(pool, b, requested, time) ==
  IF b \in pool.orphans THEN pool ELSE AddOrphan(pool, b, requested, time)

\* The children of an accepted block leave the pool.
RemoveByPrevHash(pool, p) ==
  LET removed == ToSet(pool.prev_hash_idx[p]) IN
  [pool EXCEPT
     !.orphans = pool.orphans \ removed,
     !.requested = pool.requested \ removed,
     !.height_idx = [h \in Heights |->
        IF KeepsEntry(pool.height_idx[h], removed) THEN pool.height_idx[h] ELSE {}],
     !.prev_hash_idx = [pool.prev_hash_idx EXCEPT ![p] = <<>>]]

(***************************************************************************)
(* get_orphans_within_depth: the stack of blocks still to expand and the   *)
(* result, one round of the loop per step; the first block popped at the   *)
(* target depth ends the loop.                                             *)
(***************************************************************************)
ExpandTop(pool, target_depth, w) ==
  LET top == w.stack[Len(w.stack)]
      rest == SubSeq(w.stack, 1, Len(w.stack) - 1)
      children == pool.prev_hash_idx[top.hash]
  IN IF top.depth = target_depth THEN [w EXCEPT !.stack = <<>>]
     ELSE [stack |-> rest \o [i \in 1..Len(children) |-> [hash |-> children[i], depth |-> top.depth + 1]],
           res |-> w.res \o children]

GetOrphansWithinDepth(pool, parent, target_depth) ==
  LET Walks == [stack : Seq([hash : Hashes, depth : Nat]), res : Seq(Hashes)]
      walk[w \in Walks] == IF w.stack = <<>> THEN w.res ELSE walk[ExpandTop(pool, target_depth, w)]
  IN walk[[stack |-> <<[hash |-> parent, depth |-> 0]>>, res |-> <<>>]]

CanRequestMissingChunks(pool, b) ==
  Cardinality(pool.requested) < MAX_ORPHAN_MISSING_CHUNKS /\ b \notin pool.requested

MarkRequested(pool, blocks) == [pool EXCEPT !.requested = @ \cup blocks]

-----------------------------------------------------------------------------
VARIABLES pool, time

poolVars == <<pool, time>>

OrphanInit == pool = EmptyPool /\ time = 0

\* A block whose previous block is unknown; whether its chunks are requested
\* depends on its ancestors.
Save ==
  \E b \in OrphanBlocks, wanted \in BOOLEAN :
    /\ b \notin pool.orphans /\ Len(pool.prev_hash_idx[Prev[b]]) < MaxListed
    /\ pool' = SaveOrphan(pool, b, wanted /\ CanRequestMissingChunks(pool, b), time)
    /\ UNCHANGED time

(***************************************************************************)
(* check_orphans, when a block is accepted: of the orphans found below it, *)
(* those with missing chunks are marked requested as long as there is room *)
(* (which of them lack chunks is not modelled, so any that fit), and its   *)
(* children leave the pool.  A hash found that is no orphan any more fails *)
(* the unwrap; the pool is in memory, so the node restarts without one.    *)
(***************************************************************************)
CheckOrphans ==
  \E p \in Hashes :
    /\ pool.prev_hash_idx[p] # <<>>
    /\ LET found == ToSet(GetOrphansWithinDepth(pool, p, NUM_ORPHAN_ANCESTORS_CHECK)) IN
       \/ /\ found \subseteq pool.orphans
          /\ \E wanted \in SUBSET found :
               /\ Cardinality(pool.requested \cup wanted) <= MAX_ORPHAN_MISSING_CHUNKS
               /\ pool' = RemoveByPrevHash(MarkRequested(pool, wanted), p)
       \/ ~(found \subseteq pool.orphans) /\ pool' = EmptyPool
    /\ UNCHANGED time

OrphanTick == time < MaxPoolTime /\ time' = time + 1 /\ UNCHANGED pool

OrphanNext == Save \/ CheckOrphans \/ OrphanTick

OrphanSpec == OrphanInit /\ [][OrphanNext]_poolVars
-----------------------------------------------------------------------------
PoolType ==
  [orphans : SUBSET OrphanBlocks, added : [OrphanBlocks -> Nat], requested : SUBSET OrphanBlocks,
   height_idx : [Heights -> SUBSET OrphanBlocks], prev_hash_idx : [Hashes -> Seq(OrphanBlocks)]]

\* Each index entry lists blocks of its own height, or of its own previous block.
OrphanTypeOK ==
  /\ pool \in PoolType /\ time \in Nat
  /\ \A h \in Heights : \A b \in pool.height_idx[h] : Height[b] = h
  /\ \A p \in Hashes : \A b \in ToSet(pool.prev_hash_idx[p]) : Prev[b] = p

\* However orphans of one parent or one height are adopted, evicted and saved
\* again, an orphan in the pool is in both of its index entries: it is found when
\* its previous block is accepted, and when its height is evicted.
OrphansAreIndexed ==
  \A b \in pool.orphans : b \in ToSet(pool.prev_hash_idx[Prev[b]]) /\ b \in pool.height_idx[Height[b]]

\* "It can only be removed from this set when the orphan is removed from the pool",
\* and then it is: the few places for requested orphans are not taken by blocks
\* that are gone, whichever way they left the pool.
RequestedAreOrphans ==
  pool.requested \subseteq pool.orphans /\ Cardinality(pool.requested) <= MAX_ORPHAN_MISSING_CHUNKS

\* Saving an orphan never leaves the pool above its size: evicting whole heights
\* from the top frees enough, also when the indexes list blocks that are gone.
PoolBounded == Cardinality(pool.orphans) <= MAX_ORPHAN_SIZE

\* The pool stays sound through saves, evictions by age and by height, adoptions and
\* requests: every orphan is found by both indexes, no place for requested chunks is
\* held by a block that is gone, and neither limit is exceeded.
OrphanInv == OrphanTypeOK /\ OrphansAreIndexed /\ RequestedAreOrphans /\ PoolBounded

\* The blocks nearest to the chain stay: a save drops an orphan that is not too old
\* only if every orphan that stays is below it.
EvictsFromTheTop ==
  [][Save => \A b \in pool.orphans \ pool'.orphans :
       time - pool.added[b] < MAX_ORPHAN_AGE => \A k \in pool'.orphans : Height[k] < Height[b]]_poolVars

\* prev_hash_idx is "a map from block hashes to orphan blocks whose prev block is
\* the block", and check_orphans unwraps the orphan of every hash it finds there.
PrevHashIdxListsOrphans ==
  \A p \in Hashes : ToSet(pool.prev_hash_idx[p]) \subseteq pool.orphans

=============================================================================
