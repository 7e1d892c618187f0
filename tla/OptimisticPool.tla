--------------------------- MODULE OptimisticPool ---------------------------
(***************************************************************************)
(* OptimisticBlockChunksPool: optimistic blocks and complete chunks on top *)
(* of the same previous block are matched; the highest match is handed out *)
(* for execution ahead of the block.                                       *)
(***************************************************************************)
EXTENDS Integers, FiniteSets

CONSTANTS
  OptBlocks,   \* optimistic blocks
  OptChunks,   \* chunks
  Shards,
  PrevHashes,  \* hashes of previous blocks
  OptHeight,   \* [OptBlocks -> Nat]
  PrevOf,      \* [OptBlocks \cup OptChunks -> PrevHashes]
  ShardOf,     \* [OptChunks -> Shards]
  HeightCreated, \* [OptChunks -> Nat]
  FinalHeights, \* heights of blocks that become final
  NoOpt        \* no entry in a map

\* OptimisticBlockChunks: the chunks that have come on top of a previous block.
ChunkEntries == [remaining_chunks : Nat, prev_block_height : Nat,
                 chunks : [Shards -> OptChunks \cup {NoOpt}]]

\* An optimistic block with its chunks.
ReadyEntries == [block : OptBlocks, chunks : [Shards -> OptChunks \cup {NoOpt}]]

ASSUME OptConstants ==
  /\ IsFiniteSet(Shards) /\ Shards # {}
  /\ OptHeight \in [OptBlocks -> Nat]
  /\ PrevOf \in [OptBlocks \cup OptChunks -> PrevHashes]
  /\ ShardOf \in [OptChunks -> Shards]
  /\ HeightCreated \in [OptChunks -> Nat] /\ FinalHeights \subseteq Nat
  /\ NoOpt \notin OptBlocks \cup OptChunks \cup ChunkEntries \cup ReadyEntries

VARIABLES
  minimal_base_height,
  block_height_threshold,
  blocks,             \* [PrevHashes -> OptBlocks \cup {NoOpt}]
  chunks,             \* [PrevHashes -> OptimisticBlockChunks \cup {NoOpt}]
  latest_ready_block, \* an optimistic block with its chunks, or NoOpt
  taken               \* history: the optimistic blocks that were handed out

optVars == <<minimal_base_height, block_height_threshold, blocks, chunks,
             latest_ready_block, taken>>

Larger(a, b) == IF a >= b THEN a ELSE b

NewChunks(h) == [remaining_chunks |-> Cardinality(Shards), prev_block_height |-> h,
                 chunks |-> [s \in Shards |-> NoOpt]]

OptInit ==
  /\ minimal_base_height = 0 /\ block_height_threshold = 0
  /\ blocks = [p \in PrevHashes |-> NoOpt]
  /\ chunks = [p \in PrevHashes |-> NoOpt]
  /\ latest_ready_block = NoOpt
  /\ taken = {}

\* update_block_height_threshold, on the blocks bs and the ready block.
Above(bs, threshold) ==
  [p \in PrevHashes |-> IF bs[p] # NoOpt /\ OptHeight[bs[p]] <= threshold THEN NoOpt ELSE bs[p]]

(***************************************************************************)
(* update_latest_ready_block(prev), given the entries bs and cs: a match   *)
(* takes the optimistic block out of the pool, and makes it the ready one  *)
(* if its height is above the threshold, which it raises.                  *)
(***************************************************************************)
Matches(bs, cs, prev) == cs[prev] # NoOpt /\ cs[prev].remaining_chunks = 0 /\ bs[prev] # NoOpt

UpdateLatestReadyBlock_Mutant(bs, cs, prev) ==
  LET rest == [bs EXCEPT ![prev] = NoOpt] IN
  IF ~Matches(bs, cs, prev)
  THEN /\ blocks' = bs
       /\ UNCHANGED <<block_height_threshold, latest_ready_block>>
  ELSE /\ blocks' = rest
       /\ latest_ready_block' = [block |-> bs[prev], chunks |-> cs[prev].chunks]
       /\ UNCHANGED block_height_threshold

UpdateLatestReadyBlock(bs, cs, prev) ==
  LET rest == [bs EXCEPT ![prev] = NoOpt] IN
  IF ~Matches(bs, cs, prev)
  THEN /\ blocks' = bs
       /\ UNCHANGED <<block_height_threshold, latest_ready_block>>
  ELSE IF OptHeight[bs[prev]] <= block_height_threshold
  THEN /\ blocks' = rest
       /\ UNCHANGED <<block_height_threshold, latest_ready_block>>
  ELSE /\ block_height_threshold' = OptHeight[bs[prev]]
       /\ blocks' = Above(rest, OptHeight[bs[prev]])
       /\ latest_ready_block' = [block |-> bs[prev], chunks |-> cs[prev].chunks]

AddOptBlock(o) ==
  /\ IF OptHeight[o] <= block_height_threshold
     THEN UNCHANGED <<block_height_threshold, blocks, latest_ready_block>>
     ELSE UpdateLatestReadyBlock([blocks EXCEPT ![PrevOf[o]] = o], chunks, PrevOf[o])
  /\ UNCHANGED <<minimal_base_height, chunks, taken>>

(***************************************************************************)
(* add_chunk: the first chunk of a shard on top of a previous block stays. *)
(* The height of the previous block is taken to be height_created - 1,     *)
(* which is more than it is when heights were skipped.                     *)
(***************************************************************************)
PrevHeightOfChunk(c) == Larger(HeightCreated[c], 1) - 1

EntryOf(c) == IF chunks[PrevOf[c]] = NoOpt THEN NewChunks(PrevHeightOfChunk(c)) ELSE chunks[PrevOf[c]]

WithChunk(e, c) ==
  IF e.chunks[ShardOf[c]] # NoOpt THEN e
  ELSE [e EXCEPT !.chunks[ShardOf[c]] = c, !.remaining_chunks = @ - 1]

AddOptChunk(c) ==
  /\ PrevHeightOfChunk(c) >= minimal_base_height
  /\ chunks' = [chunks EXCEPT ![PrevOf[c]] = WithChunk(EntryOf(c), c)]
  /\ IF chunks' # chunks
     THEN UpdateLatestReadyBlock(blocks, chunks', PrevOf[c])
     ELSE UNCHANGED <<block_height_threshold, blocks, latest_ready_block>>
  /\ UNCHANGED <<minimal_base_height, taken>>

TakeLatestReadyBlock ==
  /\ latest_ready_block # NoOpt
  /\ latest_ready_block' = NoOpt
  /\ taken' = taken \cup {latest_ready_block.block}
  /\ UNCHANGED <<minimal_base_height, block_height_threshold, blocks, chunks>>

(***************************************************************************)
(* update_minimal_base_height(h), when a block of height h becomes final.  *)
(* The ready block is never above the threshold, so the first half of it,  *)
(* update_block_height_threshold, always drops a ready block.              *)
(***************************************************************************)
UpdateMinimalBaseHeight(h) ==
  /\ block_height_threshold' = Larger(block_height_threshold, h)
  /\ blocks' = Above(blocks, block_height_threshold')
  /\ latest_ready_block' = IF latest_ready_block # NoOpt
                              /\ OptHeight[latest_ready_block.block] <= block_height_threshold'
                           THEN NoOpt ELSE latest_ready_block
  /\ minimal_base_height' = Larger(minimal_base_height, h)
  /\ chunks' = [p \in PrevHashes |->
       IF chunks[p] # NoOpt /\ chunks[p].prev_block_height < minimal_base_height'
       THEN NoOpt ELSE chunks[p]]
  /\ UNCHANGED taken

OptNext ==
  \/ \E o \in OptBlocks : AddOptBlock(o)
  \/ \E c \in OptChunks : AddOptChunk(c)
  \/ TakeLatestReadyBlock
  \/ \E h \in FinalHeights : UpdateMinimalBaseHeight(h)

OptSpec == OptInit /\ [][OptNext]_optVars
-----------------------------------------------------------------------------
\* At most one optimistic block of a height is ever handed out for execution, across
\* forks, replacements and changes of the final block: the threshold is raised before
\* the block is.
OneTakenPerHeight == \A o1, o2 \in taken : OptHeight[o1] = OptHeight[o2] => o1 = o2

\* No match is missed, in whatever order the block and the chunks come: an optimistic
\* block that is in the pool still lacks a chunk, and everything in the pool is newer
\* than the heights that are discarded.
PoolIsUnmatched ==
  \A p \in PrevHashes : blocks[p] # NoOpt =>
    /\ ~Matches(blocks, chunks, p)
    /\ OptHeight[blocks[p]] > block_height_threshold

\* The cached number of remaining chunks counts the shards without a chunk, also when
\* a chunk comes twice or a shard has two chunks.
RemainingIsCount ==
  \A p \in PrevHashes : chunks[p] # NoOpt =>
    chunks[p].remaining_chunks = Cardinality({s \in Shards : chunks[p].chunks[s] = NoOpt})

\* A ready block has a chunk for every shard, on the same previous block as itself.
ReadyBlockIsComplete ==
  latest_ready_block # NoOpt =>
    \A s \in Shards :
      LET c == latest_ready_block.chunks[s] IN
      c \in OptChunks /\ ShardOf[c] = s /\ PrevOf[c] = PrevOf[latest_ready_block.block]

\* Chunks on top of blocks below the final block are discarded.
ChunksAboveBase ==
  \A p \in PrevHashes : chunks[p] # NoOpt => chunks[p].prev_block_height >= minimal_base_height

\* Whatever the order of optimistic blocks, chunks, hand-outs and final blocks: one
\* block per height is handed out, complete, no match is missed, the cached counts do
\* not drift, and nothing below the final block is kept.
OptimisticPoolIsSound ==
  OneTakenPerHeight /\ PoolIsUnmatched /\ RemainingIsCount /\ ReadyBlockIsComplete /\ ChunksAboveBase
=============================================================================
