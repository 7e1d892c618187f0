------------------------- MODULE GarbageCollection -------------------------
(***************************************************************************)
(* Garbage collection of a node's database (chain/chain/src/               *)
(* garbage_collection.rs, run by the GC actor) beside the two other actors *)
(* that use the same database: the client, which adds blocks, and the cold *)
(* store actor of an archival node with split storage, which copies final  *)
(* blocks to the cold database.                                            *)
(*                                                                         *)
(* The actors share no lock.  Each of them reads rows, computes and        *)
(* commits one transaction; reading and committing are two steps here      *)
(* wherever a value that is read is written back changed (the reference    *)
(* count of the previous block), so the other actors may commit in         *)
(* between.  A crash stops all three between any two transactions.         *)
(*                                                                         *)
(* db has one field per column or BlockMisc key that matters:              *)
(*   blocks        Block, BlockInfo, BlockPerHeight: the stored blocks     *)
(*   refcount      BlockRefCount (0 when there is no row)                  *)
(*   changes       TrieChanges: the blocks that have them                  *)
(*   nodes         State: reference counts of the trie nodes of a shard    *)
(*   chunks        Chunks: <<b, s>> is the chunk of shard s new in block b *)
(*   transitions   StateTransitionData: <<b, s>>                           *)
(*   tail, fork_tail, chunk_tail, gc_stop, head, final_head, cold_head     *)
(*   kind          DbKind of the hot database                              *)
(* cold is the cold database (blocks, with their state, and its HEAD).     *)
(***************************************************************************)
EXTENDS Integers, FiniteSets

CONSTANTS
  StoreBlocks,              \* the blocks of the tree
  Produced,                 \* DbKind -> blocks of the tree that are produced beside such a node
  Root,                     \* the genesis block
  Parent,                   \* block -> previous block (the genesis block: itself)
  HeightOf,                 \* block -> height
  LastFinalOf,              \* block -> last_final_block of its header
  EpochFirst,               \* block -> epoch_first_block
  ShardIds,
  TrackedAt,                \* block -> shards applied in it (cared about this or next epoch)
  ChunkHeightAt,            \* block -> shard -> height_created of its chunk
  TrieNodes,
  StateAfter,               \* block -> shard -> trie nodes of the state after it
  GC_NUM_EPOCHS_TO_KEEP,
  GC_BLOCKS_LIMIT,
  GC_FORK_CLEAN_STEP,
  MaxProcessing,            \* blocks in processing at a time
  ApplyLag,                 \* heights the chain grows at most while a block is applied
  Nothing                   \* no row, no block

VARIABLES
  db,
  cold,
  client,    \* processing: blocks being applied; prepared: the transaction to commit
  gc,        \* the GC actor: program counter and local variables
  copier     \* the cold store actor: program counter and the block it copies

storeVars == <<db, cold, client, gc, copier>>

---------------------------------------------------------------------------
(* The block tree and the state *)

AncestorsOrSelf ==
  LET up[b \in StoreBlocks] == IF b = Root THEN {Root} ELSE {b} \cup up[Parent[b]]
  IN [b \in StoreBlocks |-> up[b]]

Lower(x, y) == IF x <= y THEN x ELSE y

Higher(x, y) == IF x >= y THEN x ELSE y

GenesisHeight == HeightOf[Root]

AtHeight(h) == {b \in db.blocks : HeightOf[b] = h}

Insertions(b) == [s \in ShardIds |-> StateAfter[b][s] \ StateAfter[Parent[b]][s]]

Deletions(b) == [s \in ShardIds |-> StateAfter[Parent[b]][s] \ StateAfter[b][s]]

\* The block with the chunk of shard s that is in force at block b.
ChunkAt(b, s) ==
  CHOOSE c \in AncestorsOrSelf[b] : HeightOf[c] = ChunkHeightAt[b][s]

\* apply_insertions, revert_insertions and apply_deletions: one reference more or less for
\* each node of the block's trie changes, if it has any.
Counted(nodes, b, ops, delta) ==
  [s \in ShardIds |-> [n \in TrieNodes |->
     IF b \in db.changes /\ s \in TrackedAt[b] /\ n \in ops[s]
       THEN nodes[s][n] + delta ELSE nodes[s][n]]]

LastInEpoch(b) == \E c \in StoreBlocks \ {Root} : Parent[c] = b /\ EpochFirst[c] = c

\* get_gc_stop_height: the first block of the oldest epoch that is kept; the genesis
\* height when the rows that lead there are gone, or an archival node has no cold head.
EpochStart(b) == IF b \in db.blocks THEN EpochFirst[b] ELSE Nothing

EpochsBack[n \in 0..GC_NUM_EPOCHS_TO_KEEP] ==
  IF n = 0 THEN EpochStart(db.head)
  ELSE LET later == EpochsBack[n - 1] IN
       IF later \in db.blocks \ {Root} THEN EpochStart(Parent[later]) ELSE Nothing

GcStopHeight_Mutant ==
  LET first == EpochsBack[0] IN
  IF first \notin db.blocks THEN GenesisHeight
  ELSE IF db.kind # "Hot" THEN HeightOf[first]
  ELSE IF db.cold_head = Nothing THEN GenesisHeight
  ELSE Lower(HeightOf[first], HeightOf[EpochStart(db.cold_head)])

GcStopIgnoresCold_Mutant ==
  LET first == EpochsBack[GC_NUM_EPOCHS_TO_KEEP - 1] IN
  IF first \notin db.blocks THEN GenesisHeight ELSE HeightOf[first]

GcStopHeight ==
  LET first == EpochsBack[GC_NUM_EPOCHS_TO_KEEP - 1] IN
  IF first \notin db.blocks THEN GenesisHeight
  ELSE IF db.kind # "Hot" THEN HeightOf[first]
  ELSE IF db.cold_head = Nothing \/ EpochStart(db.cold_head) \notin db.blocks THEN GenesisHeight
  ELSE Lower(HeightOf[first], HeightOf[EpochStart(db.cold_head)])

---------------------------------------------------------------------------
(* The client *)

\* check_if_finalizable: the final head is an ancestor.  The code gives up, with Ok, after
\* NUM_PARENTS_TO_CHECK_FINALITY parents, more than the height of these trees, and where a
\* header is missing, which is not on top of a stored block.
Finalizable(b) == db.final_head \in AncestorsOrSelf[b]

\* Preprocessing of a block whose chunks have arrived, on top of a stored block that is not
\* of an old fork.
PreprocessBlock(b) ==
  /\ client.prepared = Nothing
  /\ b \notin db.blocks \cup client.processing
  /\ Parent[b] \in db.blocks
  /\ HeightOf[Parent[b]] >= GcStopHeight
  /\ Cardinality(client.processing) < MaxProcessing
  /\ Finalizable(b)
  /\ client' = [client EXCEPT !.processing = @ \cup {b}]
  /\ db' = [db EXCEPT !.chunks = @ \cup
              {<<b, s>> : s \in {t \in TrackedAt[b] : ChunkHeightAt[b][t] = HeightOf[b]}}]
  /\ UNCHANGED <<cold, gc, copier>>

\* postprocess_block up to the commit: inc_block_refcount reads the row of the parent.
PostprocessBlock(b) ==
  /\ client.prepared = Nothing
  /\ b \in client.processing
  /\ \A c \in client.processing : HeightOf[b] <= HeightOf[c] + ApplyLag
  /\ client' = [processing |-> client.processing \ {b},
                prepared |-> [block |-> b, refcount |-> db.refcount[Parent[b]]]]
  /\ UNCHANGED <<db, cold, gc, copier>>

\* The commit: block, reference count, trie changes, state transition data, new head.
CommitBlock ==
  /\ client.prepared # Nothing
  /\ LET b == client.prepared.block
         final == LastFinalOf[b] IN
     db' = [db EXCEPT
       !.blocks = @ \cup {b},
       !.changes = @ \cup {b},
       !.refcount[Parent[b]] = client.prepared.refcount + 1,
       !.nodes = [s \in ShardIds |-> [n \in TrieNodes |->
                    IF s \in TrackedAt[b] /\ n \in Insertions(b)[s]
                      THEN @[s][n] + 1 ELSE @[s][n]]],
       !.transitions = @ \cup {<<b, s>> : s \in TrackedAt[b]},
       !.final_head = IF HeightOf[final] > HeightOf[@] THEN final ELSE @,
       !.head = IF HeightOf[b] > HeightOf[@] THEN b ELSE @]
  /\ client' = [client EXCEPT !.prepared = Nothing]
  /\ UNCHANGED <<cold, gc, copier>>

---------------------------------------------------------------------------
(* The GC actor *)

IdleGc == [pc |-> "idle", tail |-> 0, stop |-> 0, low |-> 0, height |-> 0, remaining |-> 0,
           todo |-> {}, current |-> Nothing, refcount |-> 0]

FailedGc == [IdleGc EXCEPT !.pc = "error"]

\* The next height of the loop over the forks, whose blocks clear_forks_data lists, or the
\* first one of the loop over the canonical chain.
AtFork(g, h) ==
  IF h >= g.low THEN [g EXCEPT !.pc = "forks", !.height = h, !.todo = AtHeight(h)]
  ELSE [g EXCEPT !.pc = "canonical", !.height = g.tail + 1]

\* clear_state_transition_data: rows below the chunks of the last final block.
ClearStateTransitionData_Mutant ==
  /\ gc.pc = "idle"
  /\ LET final == LastFinalOf[db.head] IN
     db' = [db EXCEPT !.transitions = {row \in @ : HeightOf[row[1]] >= HeightOf[final]}]
  /\ gc' = [gc EXCEPT !.pc = "start"]
  /\ UNCHANGED <<cold, client, copier>>

ClearStateTransitionData ==
  /\ gc.pc = "idle"
  /\ LET final == LastFinalOf[db.head] IN
     db' = IF final \notin db.blocks THEN db
           ELSE [db EXCEPT !.transitions =
                   {row \in @ : HeightOf[row[1]] >= ChunkHeightAt[final][row[2]]}]
  /\ gc' = [gc EXCEPT !.pc = "start"]
  /\ UNCHANGED <<cold, client, copier>>

\* clear_old_blocks_data up to the first loop: a new stop height makes the forks below it
\* scanned again.
StartClearing_Mutant ==
  /\ gc.pc = "start"
  /\ LET stop == GcStopHeight
         forks == db.fork_tail IN
     \/ /\ db.head = Root
        /\ gc' = IdleGc
        /\ UNCHANGED db
     \/ /\ db.head # Root /\ stop > HeightOf[db.head]
        /\ gc' = FailedGc
        /\ UNCHANGED db
     \/ /\ db.head # Root /\ stop <= HeightOf[db.head]
        /\ db' = [db EXCEPT !.gc_stop = stop, !.fork_tail = forks]
        /\ gc' = AtFork([gc EXCEPT !.tail = db.tail, !.stop = stop, !.remaining = GC_BLOCKS_LIMIT,
                                   !.low = Higher(db.tail, forks - GC_FORK_CLEAN_STEP)],
                        forks - 1)
  /\ UNCHANGED <<cold, client, copier>>

StartClearing ==
  /\ gc.pc = "start"
  /\ LET stop == GcStopHeight
         forks == IF db.gc_stop # stop THEN Higher(db.fork_tail, stop) ELSE db.fork_tail IN
     \/ /\ db.head = Root
        /\ gc' = IdleGc
        /\ UNCHANGED db
     \/ /\ db.head # Root /\ stop > HeightOf[db.head]
        /\ gc' = FailedGc
        /\ UNCHANGED db
     \/ /\ db.head # Root /\ stop <= HeightOf[db.head]
        /\ db' = [db EXCEPT !.gc_stop = stop, !.fork_tail = forks]
        /\ gc' = AtFork([gc EXCEPT !.tail = db.tail, !.stop = stop, !.remaining = GC_BLOCKS_LIMIT,
                                   !.low = Higher(db.tail, forks - GC_FORK_CLEAN_STEP)],
                        forks - 1)
  /\ UNCHANGED <<cold, client, copier>>

\* One round of the inner loop reads: the block in hand, or the next of the height, is
\* left alone when it has children, and otherwise to be cleared.
ReadFork(b) ==
  /\ gc.pc = "forks" /\ gc.remaining > 0
  /\ IF gc.current = Nothing THEN b \in gc.todo ELSE b = gc.current
  /\ LET next == [gc EXCEPT !.todo = @ \ {b}] IN
     gc' = IF db.refcount[b] > 0 THEN [next EXCEPT !.current = Nothing]
           ELSE IF b \notin db.blocks \/ db.refcount[Parent[b]] = 0 THEN FailedGc
           ELSE [next EXCEPT !.pc = "clear_fork", !.current = b,
                             !.refcount = db.refcount[Parent[b]]]
  /\ UNCHANGED <<db, cold, client, copier>>

\* clear_block_data in mode Fork: the state that results from the block goes, and the
\* walk goes on with the parent.
ClearFork_Mutant ==
  /\ gc.pc = "clear_fork"
  /\ LET b == gc.current IN
     /\ db' = [db EXCEPT !.nodes = Counted(@, b, Insertions(b), -1),
                         !.changes = @ \ {b},
                         !.blocks = @ \ {b},
                         !.refcount[b] = 0]
     /\ gc' = [gc EXCEPT !.pc = "forks", !.remaining = @ - 1, !.current = Parent[b]]
  /\ UNCHANGED <<cold, client, copier>>

ClearFork ==
  /\ gc.pc = "clear_fork"
  /\ LET b == gc.current IN
     /\ db' = [db EXCEPT !.nodes = Counted(@, b, Insertions(b), -1),
                         !.changes = @ \ {b},
                         !.blocks = @ \ {b},
                         !.refcount = [@ EXCEPT ![b] = 0, ![Parent[b]] = gc.refcount - 1]]
     /\ gc' = [gc EXCEPT !.pc = "forks", !.remaining = @ - 1, !.current = Parent[b]]
  /\ UNCHANGED <<cold, client, copier>>

\* The end of a height: fork_tail moves down, unless the limit is used up.
FinishHeight ==
  /\ gc.pc = "forks"
  /\ \/ /\ gc.remaining = 0
        /\ gc' = IdleGc
        /\ UNCHANGED db
     \/ /\ gc.remaining > 0 /\ gc.todo = {} /\ gc.current = Nothing
        /\ db' = [db EXCEPT !.fork_tail = gc.height]
        /\ gc' = AtFork(gc, gc.height - 1)
  /\ UNCHANGED <<cold, client, copier>>

\* The loop over the canonical chain, up to the commit of one height.
ReadCanonical_Mutant ==
  /\ gc.pc = "canonical"
  /\ LET here == AtHeight(gc.height) IN
     \/ /\ gc.height >= gc.stop \/ gc.remaining = 0
        /\ gc' = IdleGc
     \/ /\ gc.height < gc.stop /\ gc.remaining > 0 /\ here = {}
        /\ gc' = [gc EXCEPT !.pc = "clear_canonical", !.current = Nothing]
     \/ /\ gc.height < gc.stop /\ gc.remaining > 0
        /\ \E b \in here :
             gc' = IF db.refcount[Parent[b]] < 1 \/ Parent[b] \notin db.blocks
                     THEN FailedGc
                   ELSE [gc EXCEPT !.pc = "clear_canonical", !.current = b]
  /\ UNCHANGED <<db, cold, client, copier>>

ReadCanonical ==
  /\ gc.pc = "canonical"
  /\ LET here == AtHeight(gc.height) IN
     \/ /\ gc.height >= gc.stop \/ gc.remaining = 0
        /\ gc' = IdleGc
     \/ /\ gc.height < gc.stop /\ gc.remaining > 0 /\ here = {}
        /\ gc' = [gc EXCEPT !.pc = "clear_canonical", !.current = Nothing]
     \/ /\ gc.height < gc.stop /\ gc.remaining > 0
        /\ \E b \in here :
             gc' = IF db.refcount[Parent[b]] > 1 THEN IdleGc
                   ELSE IF db.refcount[Parent[b]] < 1 \/ here # {b} \/ Parent[b] \notin db.blocks
                     THEN FailedGc
                   ELSE [gc EXCEPT !.pc = "clear_canonical", !.current = b]
  /\ UNCHANGED <<db, cold, client, copier>>

\* gc_state: the state of shards that are not tracked any more and were not in any epoch
\* after the one that ends with block b.  lasts are the last blocks of those epochs, the
\* head for the current one.
Abandoned(b) ==
  LET lasts == {c \in AncestorsOrSelf[db.head] \ AncestorsOrSelf[b] : c = db.head \/ LastInEpoch(c)}
  IN {s \in ShardIds : /\ LastInEpoch(b)
                       /\ s \notin TrackedAt[db.head]
                       /\ \A c \in lasts : ~(c \in db.changes /\ s \in TrackedAt[c])}

\* The height below which no chunk is needed once block p is gone.
MinChunkHeight_Mutant(p) == db.tail

MinChunkHeight(p) ==
  LET heights == {db.tail} \cup {ChunkHeightAt[p][s] : s \in ShardIds}
  IN CHOOSE h \in heights : \A k \in heights : h <= k

\* clear_block_data in mode Canonical, gc_state and update_tail: the state before the
\* block goes, and the data of its parent, whose chunks are a lower bound of the chunks
\* that stay.
ClearCanonical ==
  /\ gc.pc = "clear_canonical"
  /\ LET b == gc.current
         p == Parent[b]
         tails == [db EXCEPT !.tail = gc.height, !.fork_tail = Higher(@, gc.height)]
         min == MinChunkHeight(p)
         nodes == Counted(db.nodes, b, Deletions(b), -1) IN
     IF b = Nothing THEN db' = tails
     ELSE db' = [tails EXCEPT
       !.nodes = [s \in ShardIds |-> IF s \in Abandoned(b) THEN [n \in TrieNodes |-> 0] ELSE nodes[s]],
       !.changes = @ \ {b},
       !.blocks = @ \ {p},
       !.refcount[p] = 0,
       !.chunks = {c \in @ : ~(HeightOf[c[1]] >= db.chunk_tail /\ HeightOf[c[1]] < min)},
       !.chunk_tail = min]
  /\ gc' = [gc EXCEPT !.pc = "canonical", !.height = @ + 1, !.current = Nothing,
                      !.remaining = IF gc.current = Nothing THEN @ ELSE @ - 1]
  /\ UNCHANGED <<cold, client, copier>>

---------------------------------------------------------------------------
(* The cold store actor *)

IdleCopier == [pc |-> "idle", block |-> Nothing]

\* cold_store_migration of a database of kind Hot: everything there is, then the head.
MigrateToCold ==
  /\ db.kind = "Hot" /\ copier.pc = "idle" /\ cold.head = Nothing
  /\ cold' = [cold EXCEPT !.blocks = @ \cup db.blocks]
  /\ copier' = [pc |-> "cold_head", block |-> Root]
  /\ UNCHANGED <<db, client, gc>>

\* cold_store_copy: sanity_check, then the next canonical block up to the final head with
\* the nodes its trie changes insert.
CopyToCold ==
  /\ db.kind = "Hot" /\ copier.pc = "idle" /\ cold.head # Nothing
  /\ LET final == db.final_head
         ahead == AncestorsOrSelf[final] \ AncestorsOrSelf[cold.head]
         sane == HeightOf[cold.head] <= HeightOf[final] /\ HeightOf[cold.head] >= db.tail IN
     /\ ahead # {} \/ ~sane
     /\ IF ~sane THEN /\ copier' = [copier EXCEPT !.pc = "error"]
                      /\ UNCHANGED cold
        ELSE LET b == CHOOSE c \in ahead : \A d \in ahead : HeightOf[c] <= HeightOf[d] IN
             IF b \in db.blocks \cap db.changes
               THEN /\ cold' = [cold EXCEPT !.blocks = @ \cup {b}]
                    /\ copier' = [pc |-> "cold_head", block |-> b]
               ELSE /\ copier' = [copier EXCEPT !.pc = "error"]
                    /\ UNCHANGED cold
  /\ UNCHANGED <<db, client, gc>>

\* update_cold_head: first in the cold database, then in the hot one.
UpdateColdHead ==
  /\ \/ /\ copier.pc = "cold_head"
        /\ cold' = [cold EXCEPT !.head = copier.block]
        /\ copier' = [copier EXCEPT !.pc = "hot_head"]
        /\ UNCHANGED db
     \/ /\ copier.pc = "hot_head"
        /\ db' = [db EXCEPT !.cold_head = copier.block]
        /\ copier' = IdleCopier
        /\ UNCHANGED cold
  /\ UNCHANGED <<client, gc>>

---------------------------------------------------------------------------

\* The process stops between two transactions and starts again.
CrashStore ==
  /\ client' = [processing |-> {}, prepared |-> Nothing]
  /\ gc' = IdleGc
  /\ copier' = IdleCopier
  /\ UNCHANGED <<db, cold>>

\* A database with the genesis block, of a node that keeps a few epochs (RPC) or of an
\* archival node with split storage (Hot).
StoreInit ==
  /\ \E kind \in DOMAIN Produced :
       db = [blocks |-> {Root},
             refcount |-> [b \in StoreBlocks |-> 0],
             changes |-> {},
             nodes |-> [s \in ShardIds |-> [n \in TrieNodes |->
                          IF s \in TrackedAt[Root] /\ n \in StateAfter[Root][s] THEN 1 ELSE 0]],
             chunks |-> {<<Root, s>> : s \in ShardIds},
             transitions |-> {},
             tail |-> GenesisHeight, fork_tail |-> GenesisHeight, chunk_tail |-> GenesisHeight,
             gc_stop |-> GenesisHeight, head |-> Root, final_head |-> Root,
             cold_head |-> Nothing, kind |-> kind]
  /\ cold = [blocks |-> {}, head |-> Nothing]
  /\ client = [processing |-> {}, prepared |-> Nothing]
  /\ gc = IdleGc
  /\ copier = IdleCopier

AddBlocks == \/ \E b \in Produced[db.kind] : PreprocessBlock(b) \/ PostprocessBlock(b)
             \/ CommitBlock

CollectGarbage == \/ ClearStateTransitionData
                  \/ StartClearing
                  \/ \E b \in StoreBlocks : ReadFork(b)
                  \/ ClearFork
                  \/ FinishHeight
                  \/ ReadCanonical
                  \/ ClearCanonical

CopyBlocks == MigrateToCold \/ CopyToCold \/ UpdateColdHead

StoreNext == AddBlocks \/ CollectGarbage \/ CopyBlocks \/ CrashStore

StoreSpec == StoreInit /\ [][StoreNext]_storeVars

---------------------------------------------------------------------------

\* No step of garbage collection or of copying fails: no canonical block without a
\* reference (the error of clear_old_blocks_data), no two blocks where one is asserted, no
\* reference count below zero, no block cleared twice ("block data is not expected to be
\* already cleaned"), no failed sanity_check, nothing missing that is to be copied.
NoStorageError == gc.pc # "error" /\ copier.pc # "error"

\* A stored block counts the stored blocks on top of it, although the client and the GC
\* actor both read the count, add or subtract one and write it back, without a lock.
RefcountsCountChildren ==
  \A b \in db.blocks :
    db.refcount[b] = Cardinality({c \in db.blocks \ {Root} : Parent[c] = b})

\* Every stored block can be read: its chunks, and the state after it, of the shards that
\* are tracked in it (in the lowest block: that are still tracked), are there.
StoredBlocksAreReadable ==
  \A b \in db.blocks : \A s \in TrackedAt[b] :
    Parent[b] \in db.blocks \/ s \in TrackedAt[db.head] =>
      /\ \A n \in StateAfter[b][s] : db.nodes[s][n] > 0
      /\ <<ChunkAt(b, s), s>> \in db.chunks

\* "Tail is always on the Canonical Chain" and "Only one Tail exists": one stored block has
\* no stored parent, and it is on the head's chain, so that every stored block is connected
\* to it.  TAIL, which also moves over heights without a block, is not below it.
OneTail ==
  LET lowest == {b \in db.blocks : b = Root \/ Parent[b] \notin db.blocks} IN
  /\ Cardinality(lowest) = 1
  /\ lowest \subseteq AncestorsOrSelf[db.head]
  /\ \A b \in lowest : HeightOf[b] <= db.tail

\* What a state witness on top of any block that can still become final needs: the state
\* transitions since the last chunk of the shard.
TransitionsAreKept ==
  \A b \in db.blocks : \A s \in TrackedAt[b] :
    Finalizable(b) =>
      \A c \in AncestorsOrSelf[b] \ {Root} :
        HeightOf[c] >= ChunkHeightAt[b][s] => <<c, s>> \in db.transitions

\* An archival node never loses a block: each block of the canonical chain is in the cold
\* database or still in the hot one with its trie changes.
ArchiveIsComplete ==
  db.kind = "Hot" =>
    \A b \in AncestorsOrSelf[db.head] \ {Root} :
      b \in cold.blocks \/ b \in db.blocks \cap db.changes

\* Nothing is left to collect: blocks below the stop height are there for the sake of
\* blocks above it, and the lowest one is the last below the stop height or starts a fork.
Collected ==
  /\ \A b \in db.blocks : \E c \in db.blocks :
       b \in AncestorsOrSelf[c] /\ HeightOf[c] >= db.gc_stop
  /\ \A b \in db.blocks : \A p \in db.blocks \ {b} :
       p = Parent[b] => \/ HeightOf[b] >= db.gc_stop
                        \/ \E q \in AncestorsOrSelf[p] : db.refcount[q] > 1

=============================================================================
