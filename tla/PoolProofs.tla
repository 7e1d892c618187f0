----------------------------- MODULE PoolProofs -----------------------------
(***************************************************************************)
(* The pool of blocks with missing chunks keeps its indexes, loses no      *)
(* wake-up and does what MissingChunksSpec promises, for any blocks,       *)
(* chunks, heights and limit.  The pool of optimistic blocks hands out one *)
(* per height, complete with its chunks, and misses no match.              *)
(***************************************************************************)
EXTENDS MissingChunksPool, OptimisticPool, FiniteSetTheorems, TLAPS

\* The indexes agree in the empty pool.
LEMMA MCPInitial == MCPInit => MCPInv
  <1> SUFFICES ASSUME MCPInit PROVE MCPInv
    OBVIOUS
  <1>1. Cardinality({}) = 0
    BY FS_EmptySet
  <1> QED BY <1>1, PoolConstants
      DEF MCPInit, MCPInv, PoolTypeOK, IndexesAgree, WaitsForMissingChunks, WaitingBounded

\* The blocks that lack chunks are the blocks that wait.
LEMMA NumMissingIsWaiting ==
  ASSUME MCPInv
  PROVE  NumMissing = Cardinality(blocks_waiting_for_chunks)
  <1>1. {b \in ChunkedBlocks : blocks_missing_chunks[b] # {}} = blocks_waiting_for_chunks
    BY DEF MCPInv, PoolTypeOK, IndexesAgree
  <1> QED BY <1>1 DEF NumMissing

\* Sets of blocks are finite, so that fewer waiting blocks stay below the limit.
LEMMA FewerWaiting ==
  ASSUME MCPInv, NEW S \in SUBSET blocks_waiting_for_chunks
  PROVE  Cardinality(S) <= MAX_BLOCKS_MISSING_CHUNKS
  <1>1. IsFiniteSet(blocks_waiting_for_chunks)
    BY PoolConstants, FS_Subset DEF MCPInv, PoolTypeOK
  <1>2. Cardinality(S) <= Cardinality(blocks_waiting_for_chunks)
        /\ IsFiniteSet(S)
    BY <1>1, FS_Subset
  <1>3. Cardinality(S) \in Nat /\ Cardinality(blocks_waiting_for_chunks) \in Nat
    BY <1>1, <1>2, FS_CardinalityType
  <1> QED BY <1>2, <1>3, PoolConstants DEF MCPInv, WaitingBounded

\* Adding a block keeps the invariant.
LEMMA AddKeeps ==
  ASSUME MCPInv, NEW b \in ChunkedBlocks, AddBlockWithMissingChunks(b)
  PROVE  MCPInv'
  <1> DEFINE missing == ChunksOf[b] \ stored_chunks
             W == blocks_waiting_for_chunks
  <1> USE PoolConstants
  <1>1. /\ b \notin W /\ b \notin blocks_ready_to_process /\ missing # {} /\ missing \subseteq Chunks
        /\ W' = W \cup {b} /\ UNCHANGED <<blocks_ready_to_process, stored_chunks>>
        /\ blocks_missing_chunks' = [blocks_missing_chunks EXCEPT ![b] = missing]
        /\ ChunkedHeight[b] \in BlockHeights
    BY DEF AddBlockWithMissingChunks, Recorded, BlockHeights
  <1>2. PoolTypeOK'
    BY <1>1 DEF AddBlockWithMissingChunks, Recorded, MCPInv, PoolTypeOK
  <1>3. IndexesAgree'
    BY <1>1 DEF AddBlockWithMissingChunks, Recorded, MCPInv, PoolTypeOK, IndexesAgree
  <1>4. WaitsForMissingChunks'
    BY <1>1 DEF MCPInv, PoolTypeOK, WaitsForMissingChunks
  <1>5. WaitingBounded'
    <2>1. IsFiniteSet(W)
      BY FS_Subset DEF MCPInv, PoolTypeOK
    <2>2. Cardinality(W') = Cardinality(W) + 1 /\ Cardinality(W) \in Nat
      BY <1>1, <2>1, FS_AddElement, FS_CardinalityType
    <2>3. Cardinality(W) < MAX_BLOCKS_MISSING_CHUNKS
      BY NumMissingIsWaiting DEF AddBlockWithMissingChunks
    <2> QED BY <2>2, <2>3 DEF WaitingBounded
  <1> QED BY <1>2, <1>3, <1>4, <1>5 DEF MCPInv

\* The blocks that accept_chunk marks ready are those that lacked only the chunk.
LEMMA CompleteBlocks ==
  ASSUME MCPInv, NEW c \in Chunks
  PROVE  {b \in missing_chunks[c] : blocks_missing_chunks[b] \subseteq {c}}
           \cap blocks_waiting_for_chunks
         = {b \in blocks_waiting_for_chunks : ChunksOf[b] \ stored_chunks \subseteq {c}}
  BY PoolConstants DEF MCPInv, PoolTypeOK, IndexesAgree, WaitsForMissingChunks

\* Accepting a chunk keeps the invariant.
LEMMA AcceptKeeps ==
  ASSUME MCPInv, NEW c \in Chunks, AcceptChunk(c)
  PROVE  MCPInv'
  <1> DEFINE W == blocks_waiting_for_chunks
             done == {b \in W : ChunksOf[b] \ stored_chunks \subseteq {c}}
  <1> USE PoolConstants
  <1>1. /\ W' = W \ done /\ blocks_ready_to_process' = blocks_ready_to_process \cup done
        /\ height_idx' = [h \in BlockHeights |-> height_idx[h] \ done]
        /\ stored_chunks' = stored_chunks \cup {c}
    BY CompleteBlocks DEF AcceptChunk, MarkBlocksAsReady
  <1>2. \A b \in ChunkedBlocks : blocks_missing_chunks'[b] = blocks_missing_chunks[b] \ {c}
    BY DEF AcceptChunk, MCPInv, PoolTypeOK, IndexesAgree
  <1>3. \A d \in Chunks : missing_chunks'[d] = IF d = c THEN {} ELSE missing_chunks[d]
    BY DEF AcceptChunk, MCPInv, PoolTypeOK
  <1>4. PoolTypeOK'
    BY <1>1 DEF AcceptChunk, MCPInv, PoolTypeOK
  <1>5. \A b \in W : b \in done <=> blocks_missing_chunks[b] \subseteq {c}
    BY DEF MCPInv, WaitsForMissingChunks
  <1>6. \A b \in ChunkedBlocks : b \in W' <=> blocks_missing_chunks'[b] # {}
    <2> SUFFICES ASSUME NEW b \in ChunkedBlocks PROVE b \in W' <=> blocks_missing_chunks'[b] # {}
      OBVIOUS
    <2>1. b \in W <=> blocks_missing_chunks[b] # {}
      BY DEF MCPInv, IndexesAgree
    <2> QED BY <1>1, <1>2, <1>5, <2>1
  <1>7. \A b \in ChunkedBlocks, d \in Chunks :
          b \in missing_chunks'[d] <=> d \in blocks_missing_chunks'[b]
    BY <1>2, <1>3 DEF MCPInv, IndexesAgree
  <1>8. \A h \in BlockHeights : height_idx'[h] = {b \in W' : ChunkedHeight[b] = h}
    BY <1>1 DEF MCPInv, IndexesAgree
  <1>9. WaitsForMissingChunks'
    <2> SUFFICES ASSUME NEW b \in W'
                 PROVE  /\ ChunksOf[b] \ stored_chunks' # {}
                        /\ blocks_missing_chunks'[b] = ChunksOf[b] \ stored_chunks'
      BY DEF WaitsForMissingChunks
    <2>1. b \in W /\ b \notin done /\ b \in ChunkedBlocks
      BY <1>1 DEF MCPInv, PoolTypeOK
    <2>2. blocks_missing_chunks[b] = ChunksOf[b] \ stored_chunks
      BY <2>1 DEF MCPInv, WaitsForMissingChunks
    <2> QED BY <1>1, <1>2, <2>1, <2>2
  <1>10. WaitingBounded'
    BY <1>1, FewerWaiting DEF WaitingBounded
  <1> QED BY <1>4, <1>6, <1>7, <1>8, <1>9, <1>10 DEF MCPInv, IndexesAgree

\* Pruning keeps the invariant.
LEMMA PruneKeeps ==
  ASSUME MCPInv, NEW height \in BlockHeights, PruneBlocksBelowHeight(height)
  PROVE  MCPInv' /\ blocks_waiting_for_chunks'
                    = {b \in blocks_waiting_for_chunks : ChunkedHeight[b] >= height}
  <1> DEFINE W == blocks_waiting_for_chunks
             gone == {b \in W : ChunkedHeight[b] < height}
  <1> USE PoolConstants
  <1>1. UNION {height_idx[h] : h \in {k \in BlockHeights : k < height}} = gone
    <2>1. \A h \in BlockHeights : height_idx[h] = {b \in W : ChunkedHeight[b] = h}
      BY DEF MCPInv, IndexesAgree
    <2>2. \A b \in W : b \in ChunkedBlocks /\ ChunkedHeight[b] \in BlockHeights
      BY DEF MCPInv, PoolTypeOK, BlockHeights
    <2> QED BY <2>1, <2>2
  <1>2. /\ W' = W \ gone /\ UNCHANGED <<blocks_ready_to_process, stored_chunks>>
        /\ height_idx' = [h \in BlockHeights |-> IF h < height THEN {} ELSE height_idx[h]]
        /\ blocks_missing_chunks' =
             [b \in ChunkedBlocks |-> IF b \in gone THEN {} ELSE blocks_missing_chunks[b]]
        /\ missing_chunks' = [c \in Chunks |->
             missing_chunks[c] \ {b \in gone : c \in blocks_missing_chunks[b]}]
    BY <1>1 DEF PruneBlocksBelowHeight
  <1>3. height \in Nat /\ \A h \in BlockHeights : h \in Nat
    BY DEF BlockHeights
  <1>4. PoolTypeOK'
    BY <1>2 DEF MCPInv, PoolTypeOK
  <1>5. \A b \in ChunkedBlocks : b \in W' <=> blocks_missing_chunks'[b] # {}
    BY <1>2 DEF MCPInv, IndexesAgree
  <1>6. \A b \in ChunkedBlocks, c \in Chunks :
          b \in missing_chunks'[c] <=> c \in blocks_missing_chunks'[b]
    BY <1>2 DEF MCPInv, IndexesAgree
  <1>7. \A h \in BlockHeights : height_idx'[h] = {b \in W' : ChunkedHeight[b] = h}
    <2> SUFFICES ASSUME NEW h \in BlockHeights
                 PROVE  height_idx'[h] = {b \in W' : ChunkedHeight[b] = h}
      OBVIOUS
    <2>1. height_idx[h] = {b \in W : ChunkedHeight[b] = h}
      BY DEF MCPInv, IndexesAgree
    <2> QED BY <1>2, <1>3, <2>1
  <1>8. WaitsForMissingChunks'
    BY <1>2 DEF MCPInv, PoolTypeOK, WaitsForMissingChunks
  <1>9. WaitingBounded'
    BY <1>2, FewerWaiting DEF WaitingBounded
  <1>10. W' = {b \in W : ChunkedHeight[b] >= height}
    BY <1>2, <1>3 DEF MCPInv, PoolTypeOK
  <1> QED BY <1>4, <1>5, <1>6, <1>7, <1>8, <1>9, <1>10 DEF MCPInv, IndexesAgree

\* Every step keeps the invariant.
LEMMA MCPStep == MCPInv /\ [MCPNext]_mcpVars => MCPInv'
  <1> SUFFICES ASSUME MCPInv, [MCPNext]_mcpVars PROVE MCPInv'
    OBVIOUS
  <1>1. CASE \E b \in ChunkedBlocks : AddBlockWithMissingChunks(b)
    BY <1>1, AddKeeps
  <1>2. CASE \E c \in Chunks : AcceptChunk(c)
    BY <1>2, AcceptKeeps
  <1>3. CASE ReadyBlocks
    BY <1>3 DEF ReadyBlocks, MCPInv, PoolTypeOK, IndexesAgree, WaitsForMissingChunks, WaitingBounded
  <1>4. CASE \E h \in BlockHeights : PruneBlocksBelowHeight(h)
    BY <1>4, PruneKeeps
  <1>5. CASE UNCHANGED mcpVars
    BY <1>5 DEF mcpVars, MCPInv, PoolTypeOK, IndexesAgree, WaitsForMissingChunks, WaitingBounded
  <1> QED BY <1>1, <1>2, <1>3, <1>4, <1>5 DEF MCPNext

\* The invariant of the pool with missing chunks holds for any blocks and chunks.
THEOREM MissingChunksInvariance == MCPSpec => []MCPInv
  BY MCPInitial, MCPStep, PTL DEF MCPSpec

\* The indexes of the pool agree after any order of blocks, chunks and pruning.
THEOREM IndexesStayInAgreement == MCPSpec => []IndexesAgree
  <1>1. MCPInv => IndexesAgree
    BY DEF MCPInv
  <1> QED BY <1>1, MissingChunksInvariance, PTL

\* No block waits for chunks that have come.
THEOREM NoLostWakeUp == MCPSpec => []WaitsForMissingChunks
  <1>1. MCPInv => WaitsForMissingChunks
    BY DEF MCPInv
  <1> QED BY <1>1, MissingChunksInvariance, PTL

\* The pool never holds more blocks than its limit.
THEOREM WaitingStaysBounded == MCPSpec => []WaitingBounded
  <1>1. MCPInv => WaitingBounded
    BY DEF MCPInv
  <1> QED BY <1>1, MissingChunksInvariance, PTL

\* Every step of the indexed pool is a step of the pool without indexes.
LEMMA StepsRefine ==
  MCPInv /\ [MCPNext]_mcpVars => [Abstract!SpecNext]_(Abstract!specVars)
  <1> SUFFICES ASSUME MCPInv, [MCPNext]_mcpVars
               PROVE  Abstract!SpecNext \/ UNCHANGED Abstract!specVars
    OBVIOUS
  <1>1. ASSUME NEW b \in ChunkedBlocks, AddBlockWithMissingChunks(b) PROVE Abstract!AddBlock(b)
    BY <1>1 DEF AddBlockWithMissingChunks, Recorded, Abstract!AddBlock, Abstract!Missing
  <1>2. ASSUME NEW c \in Chunks, AcceptChunk(c) PROVE Abstract!AcceptChunk(c)
    BY <1>2, CompleteBlocks
      DEF AcceptChunk, MarkBlocksAsReady, Abstract!AcceptChunk, Abstract!Missing
  <1>3. ASSUME ReadyBlocks PROVE Abstract!TakeReady
    BY <1>3 DEF ReadyBlocks, Abstract!TakeReady
  <1>4. ASSUME NEW h \in BlockHeights, PruneBlocksBelowHeight(h)
        PROVE  \E b \in ChunkedBlocks : Abstract!Prune(ChunkedHeight[b])
    <2>1. PICK b \in ChunkedBlocks : h = ChunkedHeight[b]
      BY DEF BlockHeights
    <2>2. blocks_waiting_for_chunks'
            = {d \in blocks_waiting_for_chunks : ChunkedHeight[d] >= ChunkedHeight[b]}
      BY Zenon, <1>4, <2>1, PruneKeeps
    <2>3. UNCHANGED <<stored_chunks, blocks_ready_to_process>>
      BY <1>4 DEF PruneBlocksBelowHeight
    <2> QED BY <2>2, <2>3 DEF Abstract!Prune
  <1>5. ASSUME UNCHANGED mcpVars PROVE UNCHANGED Abstract!specVars
    BY <1>5 DEF mcpVars, Abstract!specVars
  <1> QED BY <1>1, <1>2, <1>3, <1>4, <1>5 DEF MCPNext, Abstract!SpecNext

\* The pool with its indexes implements the pool without them.
THEOREM MissingChunksRefinement == MCPSpec => RefinesMissingChunksSpec
  <1>1. MCPInit => Abstract!SpecInit
    BY DEF MCPInit, Abstract!SpecInit
  <1> QED BY <1>1, StepsRefine, MissingChunksInvariance, PTL
      DEF MCPSpec, RefinesMissingChunksSpec, Abstract!AbstractSpec

-----------------------------------------------------------------------------
(***************************************************************************)
(* The pool of optimistic blocks.                                          *)
(***************************************************************************)

\* The optimistic blocks in the pool are filed under their previous block and newer
\* than the threshold t.
GoodBlocks(bs, t) ==
  /\ bs \in [PrevHashes -> OptBlocks \cup {NoOpt}]
  /\ \A p \in PrevHashes : bs[p] # NoOpt => PrevOf[bs[p]] = p /\ OptHeight[bs[p]] > t

\* The shards of an entry that have no chunk yet.
Lacking(e) == {s \in Shards : e.chunks[s] = NoOpt}

\* The chunks of an entry are of their shard and on previous block p, and the entry
\* counts those that are missing.
GoodEntry(e, p) ==
  /\ e \in ChunkEntries
  /\ \A s \in Shards : e.chunks[s] # NoOpt => ShardOf[e.chunks[s]] = s /\ PrevOf[e.chunks[s]] = p
  /\ e.remaining_chunks = Cardinality(Lacking(e))

\* Every entry is good.
GoodChunks(cs) ==
  /\ cs \in [PrevHashes -> ChunkEntries \cup {NoOpt}]
  /\ \A p \in PrevHashes : cs[p] # NoOpt => GoodEntry(cs[p], p)

\* The blocks tk were handed out at different heights up to the threshold t, and the
\* ready block l is above all of them and has all its chunks.
GoodReady(l, t, tk) ==
  /\ tk \subseteq OptBlocks
  /\ \A o \in tk : OptHeight[o] <= t
  /\ \A o1, o2 \in tk : OptHeight[o1] = OptHeight[o2] => o1 = o2
  /\ l # NoOpt =>
       /\ l \in ReadyEntries /\ OptHeight[l.block] <= t
       /\ \A o \in tk : OptHeight[o] < OptHeight[l.block]
       /\ \A s \in Shards : /\ l.chunks[s] \in OptChunks
                            /\ ShardOf[l.chunks[s]] = s /\ PrevOf[l.chunks[s]] = PrevOf[l.block]

\* No optimistic block is left in the pool with all its chunks.
Unmatched(bs, cs) == \A p \in PrevHashes : bs[p] # NoOpt => ~Matches(bs, cs, p)

OptInv ==
  /\ block_height_threshold \in Nat /\ minimal_base_height \in Nat
  /\ GoodBlocks(blocks, block_height_threshold)
  /\ GoodChunks(chunks)
  /\ Unmatched(blocks, chunks)
  /\ GoodReady(latest_ready_block, block_height_threshold, taken)
  /\ ChunksAboveBase

\* A good entry with no remaining chunk has a chunk for every shard.
LEMMA CompleteEntry ==
  ASSUME NEW e, NEW p, GoodEntry(e, p), e.remaining_chunks = 0
  PROVE  \A s \in Shards : /\ e.chunks[s] \in OptChunks
                           /\ ShardOf[e.chunks[s]] = s /\ PrevOf[e.chunks[s]] = p
  <1>1. IsFiniteSet(Lacking(e))
    BY OptConstants, FS_Subset DEF Lacking
  <1>2. Lacking(e) = {}
    BY <1>1, FS_EmptySet DEF GoodEntry
  <1> QED BY <1>2 DEF Lacking, GoodEntry, ChunkEntries

\* Raising the threshold keeps the pool good.
LEMMA AboveIsGood ==
  ASSUME NEW bs, NEW t \in Nat, NEW u \in Nat, u >= t, GoodBlocks(bs, t)
  PROVE  /\ GoodBlocks(Above(bs, u), u)
         /\ \A p \in PrevHashes : Above(bs, u)[p] # NoOpt => Above(bs, u)[p] = bs[p]
  BY OptConstants DEF GoodBlocks, Above

\* update_latest_ready_block keeps the pool good and leaves no match in it.
LEMMA UpdateIsGood ==
  ASSUME NEW bs, NEW cs, NEW prev \in PrevHashes, block_height_threshold \in Nat,
         GoodBlocks(bs, block_height_threshold), GoodChunks(cs),
         \A p \in PrevHashes \ {prev} : bs[p] # NoOpt => ~Matches(bs, cs, p),
         GoodReady(latest_ready_block, block_height_threshold, taken),
         UpdateLatestReadyBlock(bs, cs, prev)
  PROVE  /\ block_height_threshold' \in Nat
         /\ GoodBlocks(blocks', block_height_threshold')
         /\ Unmatched(blocks', cs)
         /\ GoodReady(latest_ready_block', block_height_threshold', taken)
  <1> DEFINE t == block_height_threshold
             o == bs[prev]
             rest == [bs EXCEPT ![prev] = NoOpt]
  <1>1. CASE ~Matches(bs, cs, prev)
    <2>1. blocks' = bs /\ UNCHANGED <<block_height_threshold, latest_ready_block>>
      BY <1>1 DEF UpdateLatestReadyBlock
    <2>2. Unmatched(bs, cs)
      BY <1>1 DEF Unmatched
    <2> QED BY <2>1, <2>2
  <1>2. CASE Matches(bs, cs, prev)
    <2>1. o \in OptBlocks /\ PrevOf[o] = prev /\ OptHeight[o] > t /\ OptHeight[o] \in Nat
      BY <1>2, OptConstants DEF Matches, GoodBlocks
    <2>2. /\ t' = OptHeight[o] /\ blocks' = Above(rest, OptHeight[o])
          /\ latest_ready_block' = [block |-> o, chunks |-> cs[prev].chunks]
      BY <1>2, <2>1 DEF UpdateLatestReadyBlock
    <2>3. GoodBlocks(rest, t)
      BY OptConstants DEF GoodBlocks
    <2>4. /\ GoodBlocks(blocks', t')
          /\ \A p \in PrevHashes : blocks'[p] # NoOpt => blocks'[p] = rest[p]
      <3>1. t \in Nat /\ OptHeight[o] \in Nat /\ OptHeight[o] >= t
        BY <2>1
      <3> HIDE DEF rest, t, o
      <3>2. /\ GoodBlocks(Above(rest, OptHeight[o]), OptHeight[o])
            /\ \A p \in PrevHashes : Above(rest, OptHeight[o])[p] # NoOpt
                                    => Above(rest, OptHeight[o])[p] = rest[p]
        BY <2>3, <3>1, AboveIsGood
      <3> QED BY <2>2, <3>2
    <2>5. Unmatched(blocks', cs)
      <3> SUFFICES ASSUME NEW p \in PrevHashes, blocks'[p] # NoOpt PROVE ~Matches(blocks', cs, p)
        BY DEF Unmatched
      <3>1. blocks'[p] = rest[p] /\ p # prev /\ rest[p] = bs[p]
        BY <2>4 DEF GoodBlocks
      <3> QED BY <3>1 DEF Matches
    <2>6. GoodEntry(cs[prev], prev) /\ cs[prev].remaining_chunks = 0
      BY <1>2 DEF Matches, GoodChunks
    <2>7. \A s \in Shards : /\ cs[prev].chunks[s] \in OptChunks
                            /\ ShardOf[cs[prev].chunks[s]] = s /\ PrevOf[cs[prev].chunks[s]] = prev
      BY <2>6, CompleteEntry
    <2>8. latest_ready_block' \in ReadyEntries
      BY <2>1, <2>2, <2>6 DEF ReadyEntries, GoodEntry, ChunkEntries
    <2>9. \A x \in taken : OptHeight[x] \in Nat /\ OptHeight[x] <= t /\ OptHeight[x] < OptHeight[o]
      BY <2>1, OptConstants DEF GoodReady
    <2>10. latest_ready_block'.block = o /\ latest_ready_block'.chunks = cs[prev].chunks
      BY <2>2
    <2>11. GoodReady(latest_ready_block', t', taken)
      BY <2>1, <2>2, <2>7, <2>8, <2>9, <2>10 DEF GoodReady
    <2> QED BY <2>1, <2>2, <2>4, <2>5, <2>11
  <1> QED BY <1>1, <1>2

\* The empty pool is good.
LEMMA OptInitial == OptInit => OptInv
  BY OptConstants DEF OptInit, OptInv, GoodBlocks, GoodChunks, Unmatched, GoodReady, ChunksAboveBase

\* Adding an optimistic block keeps the pool good.
LEMMA AddOptBlockKeeps ==
  ASSUME OptInv, NEW o \in OptBlocks, AddOptBlock(o)
  PROVE  OptInv'
  <1> DEFINE bs == [blocks EXCEPT ![PrevOf[o]] = o]
  <1>1. UNCHANGED <<minimal_base_height, chunks, taken>>
    BY DEF AddOptBlock
  <1>2. CASE OptHeight[o] <= block_height_threshold
    BY <1>1, <1>2 DEF AddOptBlock, OptInv, GoodBlocks, GoodChunks, GoodEntry, Lacking, Unmatched,
       Matches, GoodReady, ChunksAboveBase
  <1>3. CASE ~(OptHeight[o] <= block_height_threshold)
    <2>1. PrevOf[o] \in PrevHashes /\ OptHeight[o] \in Nat /\ UpdateLatestReadyBlock(bs, chunks, PrevOf[o])
      BY <1>3, OptConstants DEF AddOptBlock
    <2>2. GoodBlocks(bs, block_height_threshold)
      BY <1>3, <2>1, OptConstants DEF OptInv, GoodBlocks
    <2>3. \A p \in PrevHashes \ {PrevOf[o]} : bs[p] # NoOpt => ~Matches(bs, chunks, p)
      BY DEF OptInv, GoodBlocks, Unmatched, Matches
    <2> HIDE DEF bs
    <2>4. /\ block_height_threshold' \in Nat
          /\ GoodBlocks(blocks', block_height_threshold')
          /\ Unmatched(blocks', chunks)
          /\ GoodReady(latest_ready_block', block_height_threshold', taken)
      BY <2>1, <2>2, <2>3, UpdateIsGood DEF OptInv
    <2> QED BY <1>1, <2>4 DEF OptInv, GoodChunks, GoodEntry, Lacking, Unmatched, Matches, ChunksAboveBase
  <1> QED BY <1>2, <1>3

\* An entry stays good when a chunk is added to it.
LEMMA WithChunkIsGood ==
  ASSUME NEW c \in OptChunks, NEW e, GoodEntry(e, PrevOf[c])
  PROVE  GoodEntry(WithChunk(e, c), PrevOf[c])
         /\ WithChunk(e, c).prev_block_height = e.prev_block_height
  <1>1. CASE e.chunks[ShardOf[c]] # NoOpt
    BY <1>1 DEF WithChunk
  <1>2. CASE e.chunks[ShardOf[c]] = NoOpt
    <2> DEFINE s == ShardOf[c]
               f == WithChunk(e, c)
    <2>1. s \in Shards /\ c # NoOpt /\ s \in Lacking(e) /\ e \in ChunkEntries
      BY <1>2, OptConstants DEF Lacking, GoodEntry
    <2>2. /\ f.chunks = [e.chunks EXCEPT ![s] = c]
          /\ f.remaining_chunks = e.remaining_chunks - 1
          /\ f.prev_block_height = e.prev_block_height
          /\ f = [remaining_chunks |-> e.remaining_chunks - 1,
                  prev_block_height |-> e.prev_block_height,
                  chunks |-> [e.chunks EXCEPT ![s] = c]]
      BY <1>2, <2>1 DEF WithChunk, ChunkEntries
    <2>3. \A r \in Shards : f.chunks[r] = IF r = s THEN c ELSE e.chunks[r]
      BY <2>1, <2>2 DEF ChunkEntries
    <2> HIDE DEF f
    <2>4. Lacking(f) = Lacking(e) \ {s}
      BY <2>1, <2>3 DEF Lacking
    <2>5. IsFiniteSet(Lacking(e))
      BY OptConstants, FS_Subset DEF Lacking
    <2>6. Cardinality(Lacking(f)) = Cardinality(Lacking(e)) - 1
      BY <2>1, <2>4, <2>5, FS_RemoveElement
    <2>7. Cardinality(Lacking(f)) \in Nat
      <3>1. IsFiniteSet(Lacking(f))
        BY <2>4, <2>5, FS_Subset
      <3> QED BY <3>1, FS_CardinalityType
    <2>8. f.remaining_chunks = Cardinality(Lacking(f)) /\ f.remaining_chunks \in Nat
      BY <2>2, <2>6, <2>7 DEF GoodEntry
    <2>9. f \in ChunkEntries
      <3>1. [e.chunks EXCEPT ![s] = c] \in [Shards -> OptChunks \cup {NoOpt}]
        BY <2>1 DEF ChunkEntries
      <3>2. e.remaining_chunks - 1 \in Nat /\ e.prev_block_height \in Nat
        BY <2>1, <2>2, <2>8 DEF ChunkEntries
      <3> QED BY <2>2, <3>1, <3>2 DEF ChunkEntries
    <2>10. \A r \in Shards : f.chunks[r] # NoOpt => ShardOf[f.chunks[r]] = r /\ PrevOf[f.chunks[r]] = PrevOf[c]
      BY <2>3 DEF GoodEntry
    <2> QED BY <2>2, <2>8, <2>9, <2>10 DEF GoodEntry, f
  <1> QED BY <1>1, <1>2

\* Adding a chunk keeps the pool good.
LEMMA AddOptChunkKeeps ==
  ASSUME OptInv, NEW c \in OptChunks, AddOptChunk(c)
  PROVE  OptInv'
  <1> DEFINE prev == PrevOf[c]
             e == EntryOf(c)
  <1>1. /\ prev \in PrevHashes /\ chunks' = [chunks EXCEPT ![prev] = WithChunk(e, c)]
        /\ UNCHANGED <<minimal_base_height, taken>>
        /\ PrevHeightOfChunk(c) \in Nat /\ PrevHeightOfChunk(c) >= minimal_base_height
    BY OptConstants DEF AddOptChunk, PrevHeightOfChunk, Larger
  <1>2. GoodEntry(e, prev) /\ e.prev_block_height >= minimal_base_height
    <2>1. CASE chunks[prev] # NoOpt
      BY <1>1, <2>1 DEF EntryOf, OptInv, GoodChunks, ChunksAboveBase
    <2>2. CASE chunks[prev] = NoOpt
      <3>1. e = NewChunks(PrevHeightOfChunk(c))
        BY <2>2 DEF EntryOf
      <3>2. Lacking(e) = Shards /\ e.remaining_chunks = Cardinality(Shards)
            /\ e.prev_block_height = PrevHeightOfChunk(c)
            /\ \A s \in Shards : e.chunks[s] = NoOpt
        BY <3>1 DEF Lacking, NewChunks
      <3>3. Cardinality(Shards) \in Nat
        BY OptConstants, FS_CardinalityType
      <3>4. e \in ChunkEntries
        BY <1>1, <3>1, <3>3 DEF NewChunks, ChunkEntries
      <3> QED BY <1>1, <3>2, <3>4 DEF GoodEntry
    <2> QED BY <2>1, <2>2
  <1>3. GoodEntry(WithChunk(e, c), prev) /\ WithChunk(e, c).prev_block_height = e.prev_block_height
    BY <1>2, WithChunkIsGood
  <1>4. \A p \in PrevHashes : chunks'[p] = IF p = prev THEN WithChunk(e, c) ELSE chunks[p]
    BY <1>1 DEF OptInv, GoodChunks
  <1> HIDE DEF e
  <1>5. GoodChunks(chunks')
    <2>1. WithChunk(e, c) \in ChunkEntries
      BY <1>3 DEF GoodEntry
    <2>2. chunks' \in [PrevHashes -> ChunkEntries \cup {NoOpt}]
      BY <1>1, <2>1 DEF OptInv, GoodChunks
    <2> QED BY <1>3, <1>4, <2>2 DEF OptInv, GoodChunks
  <1>6. ChunksAboveBase'
    BY <1>1, <1>2, <1>3, <1>4 DEF OptInv, ChunksAboveBase
  <1>7. CASE chunks' = chunks
    <2>1. UNCHANGED <<block_height_threshold, blocks, latest_ready_block>>
      BY <1>7 DEF AddOptChunk
    <2> QED BY <1>1, <1>5, <1>6, <1>7, <2>1 DEF OptInv
  <1>8. CASE chunks' # chunks
    <2>1. UpdateLatestReadyBlock(blocks, chunks', prev)
      BY <1>8 DEF AddOptChunk
    <2>2. \A p \in PrevHashes \ {prev} : blocks[p] # NoOpt => ~Matches(blocks, chunks', p)
      BY <1>4 DEF OptInv, Unmatched, Matches
    <2>3. /\ block_height_threshold' \in Nat
          /\ GoodBlocks(blocks', block_height_threshold')
          /\ Unmatched(blocks', chunks')
          /\ GoodReady(latest_ready_block', block_height_threshold', taken)
      BY <1>1, <1>5, <2>1, <2>2, UpdateIsGood DEF OptInv
    <2> QED BY <1>1, <1>5, <1>6, <2>3 DEF OptInv
  <1> QED BY <1>7, <1>8

\* Handing out the ready block keeps the pool good.
LEMMA TakeKeeps ==
  ASSUME OptInv, TakeLatestReadyBlock
  PROVE  OptInv'
  <1> DEFINE o == latest_ready_block.block
  <1>1. /\ latest_ready_block' = NoOpt /\ taken' = taken \cup {o}
        /\ UNCHANGED <<minimal_base_height, block_height_threshold, blocks, chunks>>
        /\ latest_ready_block # NoOpt
    BY DEF TakeLatestReadyBlock
  <1>2. /\ o \in OptBlocks /\ OptHeight[o] <= block_height_threshold
        /\ \A x \in taken : OptHeight[x] < OptHeight[o] /\ OptHeight[x] \in Nat
    BY <1>1, OptConstants DEF OptInv, GoodReady, ReadyEntries
  <1>3. GoodReady(latest_ready_block', block_height_threshold', taken')
    BY <1>1, <1>2, OptConstants, SMTT(60) DEF OptInv, GoodReady
  <1>4. block_height_threshold' \in Nat /\ minimal_base_height' \in Nat
    BY <1>1 DEF OptInv
  <1>5. GoodBlocks(blocks', block_height_threshold') /\ GoodChunks(chunks')
    BY <1>1 DEF OptInv
  <1>6. Unmatched(blocks', chunks')
    BY <1>1 DEF OptInv
  <1>7. ChunksAboveBase'
    BY <1>1 DEF OptInv, ChunksAboveBase
  <1> QED BY <1>3, <1>4, <1>5, <1>6, <1>7 DEF OptInv

\* A new final block keeps the pool good.
LEMMA UpdateBaseKeeps ==
  ASSUME OptInv, NEW h \in FinalHeights, UpdateMinimalBaseHeight(h)
  PROVE  OptInv'
  <1> DEFINE t == block_height_threshold
  <1>1. h \in Nat /\ t \in Nat /\ t' \in Nat /\ t' >= t /\ minimal_base_height' \in Nat
    BY OptConstants DEF OptInv, UpdateMinimalBaseHeight, Larger
  <1>2. /\ blocks' = Above(blocks, t') /\ taken' = taken
        /\ chunks' = [p \in PrevHashes |->
             IF chunks[p] # NoOpt /\ chunks[p].prev_block_height < minimal_base_height'
             THEN NoOpt ELSE chunks[p]]
        /\ latest_ready_block' = NoOpt \/ latest_ready_block' = latest_ready_block
    BY DEF UpdateMinimalBaseHeight
  <1>3. /\ GoodBlocks(blocks', t')
        /\ \A p \in PrevHashes : blocks'[p] # NoOpt => blocks'[p] = blocks[p]
    BY <1>1, <1>2, AboveIsGood DEF OptInv
  <1>4. \A p \in PrevHashes : chunks'[p] # NoOpt => chunks'[p] = chunks[p]
    BY <1>2
  <1>5. GoodChunks(chunks')
    BY <1>2, <1>4 DEF OptInv, GoodChunks
  <1>6. Unmatched(blocks', chunks')
    BY <1>3, <1>4 DEF OptInv, Unmatched, Matches
  <1>7. GoodReady(latest_ready_block', t', taken')
    BY <1>1, <1>2, OptConstants, SMTT(60) DEF OptInv, GoodReady, ReadyEntries
  <1>8. ChunksAboveBase'
    <2> SUFFICES ASSUME NEW p \in PrevHashes, chunks'[p] # NoOpt
                 PROVE  chunks'[p].prev_block_height >= minimal_base_height'
      BY DEF ChunksAboveBase
    <2>1. chunks'[p] = chunks[p] /\ chunks[p] # NoOpt
          /\ ~(chunks[p].prev_block_height < minimal_base_height')
      BY <1>2
    <2>2. chunks[p].prev_block_height \in Nat
      BY <2>1 DEF OptInv, GoodChunks, ChunkEntries
    <2> QED BY <1>1, <2>1, <2>2
  <1> QED BY <1>1, <1>3, <1>5, <1>6, <1>7, <1>8 DEF OptInv

\* Every step keeps the pool good.
LEMMA OptStep == OptInv /\ [OptNext]_optVars => OptInv'
  <1> SUFFICES ASSUME OptInv, [OptNext]_optVars PROVE OptInv'
    OBVIOUS
  <1>1. CASE \E o \in OptBlocks : AddOptBlock(o)
    BY <1>1, AddOptBlockKeeps
  <1>2. CASE \E c \in OptChunks : AddOptChunk(c)
    BY <1>2, AddOptChunkKeeps
  <1>3. CASE TakeLatestReadyBlock
    BY <1>3, TakeKeeps
  <1>4. CASE \E h \in FinalHeights : UpdateMinimalBaseHeight(h)
    BY <1>4, UpdateBaseKeeps
  <1>5. CASE UNCHANGED optVars
    BY <1>5 DEF optVars, OptInv, ChunksAboveBase
  <1> QED BY <1>1, <1>2, <1>3, <1>4, <1>5 DEF OptNext

\* The pool of optimistic blocks stays good for any blocks, chunks, shards and forks.
THEOREM OptimisticInvariance == OptSpec => []OptInv
  BY OptInitial, OptStep, PTL DEF OptSpec

\* At most one optimistic block of a height is handed out.
THEOREM OneOptimisticBlockPerHeight == OptSpec => []OneTakenPerHeight
  <1>1. OptInv => OneTakenPerHeight
    BY DEF OptInv, GoodReady, OneTakenPerHeight
  <1> QED BY <1>1, OptimisticInvariance, PTL

\* No match of an optimistic block and its chunks is missed.
THEOREM NoMatchMissed == OptSpec => []PoolIsUnmatched
  <1>1. OptInv => PoolIsUnmatched
    BY DEF OptInv, GoodBlocks, Unmatched, PoolIsUnmatched
  <1> QED BY <1>1, OptimisticInvariance, PTL

\* A block that is handed out has a chunk for every shard on its previous block.
THEOREM ReadyBlocksAreComplete == OptSpec => []ReadyBlockIsComplete
  <1>1. OptInv => ReadyBlockIsComplete
    BY DEF OptInv, GoodReady, ReadyBlockIsComplete
  <1> QED BY <1>1, OptimisticInvariance, PTL

\* The cached count of missing chunks never drifts.
THEOREM RemainingCountsMissing == OptSpec => []RemainingIsCount
  <1>1. OptInv => RemainingIsCount
    BY DEF OptInv, GoodChunks, GoodEntry, Lacking, RemainingIsCount
  <1> QED BY <1>1, OptimisticInvariance, PTL

\* The optimistic pool is sound: all of the above, and nothing kept below the final block.
THEOREM OptimisticPoolSoundness == OptSpec => []OptimisticPoolIsSound
  <1>1. OptInv => ChunksAboveBase
    BY DEF OptInv
  <1> QED BY <1>1, OptimisticInvariance, OneOptimisticBlockPerHeight, NoMatchMissed,
             ReadyBlocksAreComplete, RemainingCountsMissing, PTL DEF OptimisticPoolIsSound

=============================================================================
