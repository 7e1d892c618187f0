------------------------- MODULE MissingChunksPool -------------------------
(***************************************************************************)
(* MissingChunksPool: the blocks that wait for chunks, indexed by chunk,   *)
(* by block and by height.  A map entry that the code removes when its set *)
(* is empty is an empty set here.                                          *)
(***************************************************************************)
EXTENDS Integers, FiniteSets

CONSTANTS
  ChunkedBlocks,
  Chunks,
  ChunksOf,    \* [ChunkedBlocks -> SUBSET Chunks]: the new chunks of a block
  ChunkedHeight, \* [ChunkedBlocks -> Nat]
  MAX_BLOCKS_MISSING_CHUNKS

ASSUME PoolConstants ==
  /\ IsFiniteSet(ChunkedBlocks)
  /\ ChunksOf \in [ChunkedBlocks -> SUBSET Chunks]
  /\ ChunkedHeight \in [ChunkedBlocks -> Nat]
  /\ MAX_BLOCKS_MISSING_CHUNKS \in Nat

BlockHeights == {ChunkedHeight[b] : b \in ChunkedBlocks}

VARIABLES
  missing_chunks,            \* [Chunks -> SUBSET ChunkedBlocks]
  blocks_missing_chunks,     \* [ChunkedBlocks -> SUBSET Chunks]
  blocks_waiting_for_chunks, \* SUBSET ChunkedBlocks
  blocks_ready_to_process,   \* SUBSET ChunkedBlocks: a heap, emptied in one go
  height_idx,                \* [BlockHeights -> SUBSET ChunkedBlocks]
  stored_chunks              \* the chunks in the chain store

mcpVars == <<missing_chunks, blocks_missing_chunks, blocks_waiting_for_chunks,
             blocks_ready_to_process, height_idx, stored_chunks>>

MCPInit ==
  /\ missing_chunks = [c \in Chunks |-> {}]
  /\ blocks_missing_chunks = [b \in ChunkedBlocks |-> {}]
  /\ blocks_waiting_for_chunks = {} /\ blocks_ready_to_process = {}
  /\ height_idx = [h \in BlockHeights |-> {}]
  /\ stored_chunks = {}

(***************************************************************************)
(* start_process_block_impl finds chunks of b that are not in the store.   *)
(* check_block_known has excluded a block that waits already, and a block  *)
(* that is ready is taken out before anything else is processed.           *)
(***************************************************************************)
Recorded(b, missing) ==
  /\ missing_chunks' =
       [c \in Chunks |-> IF c \in missing THEN missing_chunks[c] \cup {b} ELSE missing_chunks[c]]
  /\ blocks_missing_chunks' = [blocks_missing_chunks EXCEPT ![b] = missing]
  /\ height_idx' = [height_idx EXCEPT ![ChunkedHeight[b]] = @ \cup {b}]
  /\ blocks_waiting_for_chunks' = blocks_waiting_for_chunks \cup {b}

NumMissing == Cardinality({b \in ChunkedBlocks : blocks_missing_chunks[b] # {}})

AddBlockWithMissingChunks(b) ==
  LET missing == ChunksOf[b] \ stored_chunks IN
  /\ b \notin blocks_waiting_for_chunks \cup blocks_ready_to_process /\ missing # {}
  /\ NumMissing < MAX_BLOCKS_MISSING_CHUNKS
  /\ Recorded(b, missing)
  /\ UNCHANGED <<blocks_ready_to_process, stored_chunks>>

(***************************************************************************)
(* on_chunk_completed persists the chunk and calls accept_chunk: a block   *)
(* that was listed for the chunk and lacks nothing else is marked ready,   *)
(* also one that is not in blocks_missing_chunks any more (the code warns  *)
(* of an invalid state), if it is still waiting.                           *)
(***************************************************************************)
MarkBlocksAsReady(complete) ==
  LET blocks == complete \cap blocks_waiting_for_chunks IN
  /\ blocks_waiting_for_chunks' = blocks_waiting_for_chunks \ blocks
  /\ blocks_ready_to_process' = blocks_ready_to_process \cup blocks
  /\ height_idx' = [h \in BlockHeights |-> height_idx[h] \ blocks]

AcceptChunk_Mutant(c) ==
  LET listed == missing_chunks[c] IN
  /\ missing_chunks' = [missing_chunks EXCEPT ![c] = {}]
  /\ blocks_missing_chunks' = [b \in ChunkedBlocks |->
       IF b \in listed THEN blocks_missing_chunks[b] \ {c} ELSE blocks_missing_chunks[b]]
  /\ MarkBlocksAsReady({b \in listed : blocks_missing_chunks[b] = {}})
  /\ stored_chunks' = stored_chunks \cup {c}

AcceptChunk(c) ==
  LET listed == missing_chunks[c] IN
  /\ missing_chunks' = [missing_chunks EXCEPT ![c] = {}]
  /\ blocks_missing_chunks' = [b \in ChunkedBlocks |->
       IF b \in listed THEN blocks_missing_chunks[b] \ {c} ELSE blocks_missing_chunks[b]]
  /\ MarkBlocksAsReady({b \in listed : blocks_missing_chunks[b] \subseteq {c}})
  /\ stored_chunks' = stored_chunks \cup {c}

ReadyBlocks ==
  /\ blocks_ready_to_process # {} /\ blocks_ready_to_process' = {}
  /\ UNCHANGED <<missing_chunks, blocks_missing_chunks, blocks_waiting_for_chunks,
                 height_idx, stored_chunks>>

PruneBlocksBelowHeight(height) ==
  LET gone == UNION {height_idx[h] : h \in {k \in BlockHeights : k < height}} IN
  /\ height_idx' = [h \in BlockHeights |-> IF h < height THEN {} ELSE height_idx[h]]
  /\ blocks_waiting_for_chunks' = blocks_waiting_for_chunks \ gone
  /\ blocks_missing_chunks' =
       [b \in ChunkedBlocks |-> IF b \in gone THEN {} ELSE blocks_missing_chunks[b]]
  /\ missing_chunks' =
       [c \in Chunks |-> missing_chunks[c] \ {b \in gone : c \in blocks_missing_chunks[b]}]
  /\ UNCHANGED <<blocks_ready_to_process, stored_chunks>>

MCPNext ==
  \/ \E b \in ChunkedBlocks : AddBlockWithMissingChunks(b)
  \/ \E c \in Chunks : AcceptChunk(c)
  \/ ReadyBlocks
  \/ \E h \in BlockHeights : PruneBlocksBelowHeight(h)

MCPSpec == MCPInit /\ [][MCPNext]_mcpVars
-----------------------------------------------------------------------------
\* The two maps between blocks and chunks are inverse to each other and the height
\* index lists the waiting blocks, whatever order blocks and chunks come in and
\* whatever is pruned: no chunk completes a block that is gone (the state that
\* accept_chunk calls invalid), and pruning reaches every waiting block.
IndexesAgree ==
  /\ \A b \in ChunkedBlocks, c \in Chunks : b \in missing_chunks[c] <=> c \in blocks_missing_chunks[b]
  /\ \A b \in ChunkedBlocks : b \in blocks_waiting_for_chunks <=> blocks_missing_chunks[b] # {}
  /\ \A h \in BlockHeights :
       height_idx[h] = {b \in blocks_waiting_for_chunks : ChunkedHeight[b] = h}

\* No lost wake-up: a block waits for exactly the chunks the store does not have, and
\* there is one, so it never waits for chunks that have all come already.
WaitsForMissingChunks ==
  \A b \in blocks_waiting_for_chunks :
    LET lacks == ChunksOf[b] \ stored_chunks IN
    lacks # {} /\ blocks_missing_chunks[b] = lacks

\* At the limit further blocks are not recorded, and none of the indexes grows.
WaitingBounded == Cardinality(blocks_waiting_for_chunks) <= MAX_BLOCKS_MISSING_CHUNKS

\* The type invariant of the pool, which mark_block_as_ready keeps with its removal: a
\* block is waiting or ready, not both.
PoolTypeOK ==
  /\ missing_chunks \in [Chunks -> SUBSET ChunkedBlocks]
  /\ blocks_missing_chunks \in [ChunkedBlocks -> SUBSET Chunks]
  /\ blocks_waiting_for_chunks \subseteq ChunkedBlocks
  /\ blocks_ready_to_process \subseteq ChunkedBlocks \ blocks_waiting_for_chunks
  /\ height_idx \in [BlockHeights -> SUBSET ChunkedBlocks]
  /\ stored_chunks \subseteq Chunks

\* Adding, completing, taking and pruning keep the pool sound: its three indexes agree,
\* a block waits for exactly the chunks the store lacks, and the limit holds.
MCPInv == PoolTypeOK /\ IndexesAgree /\ WaitsForMissingChunks /\ WaitingBounded

Abstract == INSTANCE MissingChunksSpec WITH
  waiting <- blocks_waiting_for_chunks, have <- stored_chunks, ready <- blocks_ready_to_process

\* The pool with its indexes does what the pool without them promises.
RefinesMissingChunksSpec == Abstract!AbstractSpec

=============================================================================
