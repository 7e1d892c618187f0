--------------------------- MODULE BlockPipeline ---------------------------
(***************************************************************************)
(* A block on its way into the chain: received, orphaned, waiting for      *)
(* chunks, pending the execution of its optimistic block, in processing,   *)
(* stored.  The chain is single threaded; only the application of chunks   *)
(* runs elsewhere and reports through a channel.                           *)
(*                                                                         *)
(* The pools are here what OrphanPool, MissingChunksPool and               *)
(* OptimisticPool show them to be: which blocks they hold and when these   *)
(* leave.  All blocks are of one epoch, whose state the node has.          *)
(***************************************************************************)
EXTENDS Integers, FiniteSets, Sequences, SequencesExt

CONSTANTS
  Blocks, Chunks, OptBlocks,
  Genesis,     \* a block
  Prev,        \* [Blocks -> Blocks]
  Height,      \* [Blocks -> Nat]
  LastFinal,   \* [Blocks -> Blocks]: the last final block in the header
  ChunksOf,    \* [Blocks -> SUBSET Chunks]: the new chunks of a block
  OptOf,       \* [Blocks -> OptBlocks \cup {None}]: the optimistic block with its keys
  OptPrev,     \* [OptBlocks -> Blocks]
  OptHeight,   \* [OptBlocks -> Nat]
  OptChunksOf, \* [OptBlocks -> SUBSET Chunks]: the chunks on top of its previous block
  None,
  Environments,    \* what may be wrong with which blocks, see env
  MAX_PROCESSING_BLOCKS,
  MaxRestarts

VARIABLES
  chain,   \* the state of Chain, in memory and on disk
  restarts,
  env      \* never changes: the blocks whose headers have been synced (known_headers),
           \* that fail validation (bad_headers), whose chunks fail to apply (bad_chunks) and
           \* whose postprocessing meets a storage error after the commit (fails_late)

vars == <<chain, restarts, env>>

\* What is in memory only.
EmptyPools ==
  [processing |-> {},         \* blocks_in_processing.preprocessed_blocks
   optimistic |-> {},         \* blocks_in_processing.optimistic_blocks
   results |-> <<>>,          \* the channel of apply_chunks_receiver
   orphans |-> <<>>,          \* in the order they were saved
   optimistic_orphans |-> {},
   waiting |-> {},            \* blocks_with_missing_chunks
   pending |-> {},            \* blocks_pending_execution.blocks
   block_hashes |-> {},       \* blocks_pending_execution.block_hashes
   opt_blocks |-> {},         \* optimistic_block_chunks.blocks
   opt_chunks |-> {},         \* optimistic_block_chunks.chunks
   opt_threshold |-> 0,       \* optimistic_block_chunks.block_height_threshold
   invalid_blocks |-> {},
   processed_hashes |-> {}]

EmptyDisk ==
  [stored |-> {Genesis}, head |-> Genesis, final_head |-> Genesis,
   chunks |-> {}, processed_heights |-> {}]

Init ==
  /\ chain = EmptyPools @@ EmptyDisk
  /\ restarts = 0
  /\ env \in Environments
-----------------------------------------------------------------------------
(***************************************************************************)
(* start_process_block_async: preprocess_block decides where the block     *)
(* goes, and the block counts as processed whatever the decision was.      *)
(***************************************************************************)
NumInProcessing(ch) == Cardinality(ch.processing) + Cardinality(ch.optimistic)

CheckBlockKnown_Mutant(ch, b) ==
  b \in ch.processing \cup ch.waiting \cup ch.invalid_blocks \cup ch.stored

CheckBlockKnown(ch, b) ==
  b \in ch.processing \cup ToSet(ch.orphans) \cup ch.waiting \cup ch.invalid_blocks \cup ch.stored

(***************************************************************************)
(* check_if_finalizable walks to the parents until it meets the final head *)
(* or goes below it (at most 20 blocks).                                   *)
(***************************************************************************)
AncestorsOf[b \in Blocks] == IF b = Genesis THEN {b} ELSE {b} \cup AncestorsOf[Prev[b]]

CheckIfFinalizable(ch, b) == ch.final_head \in AncestorsOf[b]

ShouldBePendingExecution_Mutant(ch, b) ==
  /\ OptOf[b] # None /\ OptHeight[OptOf[b]] <= ch.opt_threshold
  /\ Height[b] \in {Height[p] : p \in ch.pending} => b \in ch.block_hashes

ShouldBePendingExecution(ch, b) ==
  /\ OptOf[b] \in ch.optimistic
  /\ Height[b] \in {Height[p] : p \in ch.pending} => b \in ch.block_hashes

AddPending(ch, b) ==
  IF \E p \in ch.pending : Height[p] = Height[b] THEN ch
  ELSE [ch EXCEPT !.pending = @ \cup {b}, !.block_hashes = @ \cup {b}]

StartProcessBlockImpl(ch, b) ==
  CASE NumInProcessing(ch) >= MAX_PROCESSING_BLOCKS \/ CheckBlockKnown(ch, b) -> ch
    [] Prev[b] \notin ch.stored -> [ch EXCEPT !.orphans = Append(@, b)]
    [] b \in env.bad_headers -> [ch EXCEPT !.invalid_blocks = @ \cup {b}]
    [] ~(ChunksOf[b] \subseteq ch.chunks) -> [ch EXCEPT !.waiting = @ \cup {b}]
    [] ~CheckIfFinalizable(ch, b) -> ch
    [] ShouldBePendingExecution(ch, b) -> AddPending(ch, b)
    [] OTHER -> [ch EXCEPT !.processing = @ \cup {b}]

StartProcessBlock(ch, b) ==
  [StartProcessBlockImpl(ch, b) EXCEPT !.processed_hashes = @ \cup {b},
                                       !.processed_heights = @ \cup {Height[b]}]

StartProcessBlocks(ch, bs) == FoldLeft(StartProcessBlock, ch, bs)

(***************************************************************************)
(* Optimistic blocks.  TakeReady is the match in the pool of the blocks    *)
(* and chunks on one previous block, followed by maybe_process_optimistic_ *)
(* block: a match is handed out once per height, and is then dropped if    *)
(* its height has been processed, its previous block is not stored or      *)
(* there are too many blocks in processing.                                *)
(***************************************************************************)
ReadyOpt(ch) == {o \in ch.opt_blocks : OptChunksOf[o] \subseteq ch.opt_chunks}

UpdateThreshold(ch, h) ==
  LET t == IF h > ch.opt_threshold THEN h ELSE ch.opt_threshold IN
  [ch EXCEPT !.opt_threshold = t, !.opt_blocks = {o \in @ : OptHeight[o] > t}]

ProcessOptimisticBlock(ch, o) ==
  IF \/ OptHeight[o] \in ch.processed_heights
     \/ OptPrev[o] \notin ch.stored
     \/ NumInProcessing(ch) >= MAX_PROCESSING_BLOCKS
     \/ \E p \in ch.optimistic : OptHeight[p] = OptHeight[o]
  THEN ch
  ELSE [ch EXCEPT !.optimistic = @ \cup {o}]

PreprocessOptimisticBlock(ch, o) ==
  IF OptHeight[o] <= ch.opt_threshold THEN ch
  ELSE IF ~(OptChunksOf[o] \subseteq ch.opt_chunks)
  THEN [ch EXCEPT !.opt_blocks = {p \in @ : OptPrev[p] # OptPrev[o]} \cup {o}]
  ELSE ProcessOptimisticBlock(UpdateThreshold(ch, OptHeight[o]), o)

ReceiveOptimisticBlock(o) ==
  /\ chain' = IF OptPrev[o] \in chain.stored \cup env.known_headers
              THEN PreprocessOptimisticBlock(chain, o)
              ELSE [chain EXCEPT !.optimistic_orphans =
                                   {p \in @ : OptPrev[p] # OptPrev[o]} \cup {o}]
  /\ UNCHANGED <<restarts, env>>
-----------------------------------------------------------------------------
(***************************************************************************)
(* A block arrives, requested or not.  What the client's handler and       *)
(* should_process_block let through is processed.                          *)
(***************************************************************************)
ShouldProcessBlock(b, requested) ==
  \/ requested
  \/ /\ b \notin chain.processed_hashes
     /\ Prev[b] = chain.head \/ Height[b] \notin chain.processed_heights
     /\ \A s \in chain.stored : Height[s] # Height[b]

ReceiveBlock(b, requested) ==
  /\ ShouldProcessBlock(b, requested)
  /\ chain' = StartProcessBlock(chain, b)
  /\ UNCHANGED <<restarts, env>>

(***************************************************************************)
(* on_chunk_completed: the chunk is persisted; the blocks that waited for  *)
(* it alone are processed, lowest first; an optimistic block that it       *)
(* completes is processed after them.                                      *)
(***************************************************************************)
ByHeight(bs) == SetToSortSeq(bs, LAMBDA x, y : Height[x] < Height[y])

OnChunkCompleted(c) ==
  LET persisted == [chain EXCEPT !.chunks = @ \cup {c}, !.opt_chunks = @ \cup {c}]
      ready == {b \in chain.waiting : ChunksOf[b] \subseteq persisted.chunks}
      matched == ReadyOpt(persisted)
      released == StartProcessBlocks(
        [persisted EXCEPT !.waiting = @ \ ready, !.opt_blocks = @ \ matched], ByHeight(ready))
  IN /\ c \notin chain.chunks
     /\ chain' = IF matched = {} THEN released
                 ELSE LET o == CHOOSE o \in matched : TRUE IN
                      ProcessOptimisticBlock(UpdateThreshold(released, OptHeight[o]), o)
     /\ UNCHANGED <<restarts, env>>

(***************************************************************************)
(* A worker has applied the chunks of a block and sends the result.        *)
(***************************************************************************)
ApplyChunksDone(x) ==
  /\ x \in (chain.processing \cup chain.optimistic) \ ToSet(chain.results)
  /\ chain' = [chain EXCEPT !.results = Append(@, x)]
  /\ UNCHANGED <<restarts, env>>

(***************************************************************************)
(* postprocess_ready_blocks: everything in the channel, in order.  A good  *)
(* block is committed, may move the heads, and sets free its orphans; an   *)
(* optimistic one sets free the block that is pending at its height.       *)
(***************************************************************************)
Committed(ch, b) ==
  LET final == LastFinal[b] IN
  [ch EXCEPT !.stored = @ \cup {b},
             !.head = IF Height[b] > Height[@] THEN b ELSE @,
             !.final_head = IF Height[final] > Height[@] THEN final ELSE @]

CheckOrphans_Mutant(ch, b) ==
  LET children == SelectSeq(ch.orphans, LAMBDA o : Prev[o] = b)
      free == {o \in ch.optimistic_orphans : OptPrev[o] = b}
      adopted == StartProcessBlocks([ch EXCEPT !.optimistic_orphans = @ \ free], children)
  IN IF free = {} THEN adopted
     ELSE PreprocessOptimisticBlock(adopted, CHOOSE o \in free : TRUE)

CheckOrphans(ch, b) ==
  LET children == SelectSeq(ch.orphans, LAMBDA o : Prev[o] = b)
      free == {o \in ch.optimistic_orphans : OptPrev[o] = b}
      adopted == StartProcessBlocks(
        [ch EXCEPT !.orphans = SelectSeq(@, LAMBDA o : Prev[o] # b),
                   !.optimistic_orphans = @ \ free], children)
  IN IF free = {} THEN adopted
     ELSE PreprocessOptimisticBlock(adopted, CHOOSE o \in free : TRUE)

UpdateOptimisticBlocksPool(ch, b) ==
  IF LastFinal[b] = Genesis THEN ch ELSE UpdateThreshold(ch, Height[LastFinal[b]])

PostprocessReadyBlock(ch, b) ==
  LET taken == [ch EXCEPT !.processing = @ \ {b}] IN
  IF b \in env.bad_chunks THEN [taken EXCEPT !.invalid_blocks = @ \cup {b}]
  ELSE LET committed == UpdateOptimisticBlocksPool(Committed(taken, b), b) IN
       IF b \in env.fails_late THEN committed ELSE CheckOrphans(committed, b)

PostprocessOptimisticBlock(ch, o) ==
  LET freed == {p \in ch.pending : Height[p] = OptHeight[o]} IN
  StartProcessBlocks([ch EXCEPT !.optimistic = @ \ {o}, !.pending = @ \ freed], SetToSeq(freed))

PostprocessResult(ch, x) ==
  IF x \in Blocks THEN PostprocessReadyBlock(ch, x) ELSE PostprocessOptimisticBlock(ch, x)

\* What on_block_accepted prunes when the head has moved: last_final of each new head.
PruneBelow(ch, h) ==
  LET old == {p \in ch.pending : Height[p] < h} IN
  [ch EXCEPT !.waiting = {b \in @ : Height[b] >= h},
             !.pending = @ \ old, !.block_hashes = @ \ old]

PostprocessReadyBlocks ==
  LET after(n) == FoldLeft(PostprocessResult, [chain EXCEPT !.results = <<>>],
                           SubSeq(chain.results, 1, n))
      NewHead(i) == LET b == chain.results[i] IN b \notin env.fails_late /\ after(i).head = b
      heights == {Height[LastFinal[chain.results[i]]] : i \in {k \in DOMAIN chain.results : NewHead(k)}}
      done == after(Len(chain.results))
  IN /\ chain.results # <<>>
     /\ chain' = IF heights = {} THEN done
                 ELSE PruneBelow(done, CHOOSE h \in heights : \A k \in heights : k <= h)
     /\ UNCHANGED <<restarts, env>>

(***************************************************************************)
(* The node stops and starts again: what is in memory is gone.             *)
(***************************************************************************)
Restart ==
  /\ restarts < MaxRestarts
  /\ restarts' = restarts + 1
  /\ chain' = EmptyPools @@ chain
  /\ UNCHANGED env

Next ==
  \/ \E b \in Blocks \ {Genesis}, requested \in BOOLEAN : ReceiveBlock(b, requested)
  \/ \E o \in OptBlocks : ReceiveOptimisticBlock(o)
  \/ \E c \in Chunks : OnChunkCompleted(c)
  \/ \E x \in Blocks \cup OptBlocks : ApplyChunksDone(x)
  \/ PostprocessReadyBlocks
  \/ Restart

Spec == Init /\ [][Next]_vars
-----------------------------------------------------------------------------
(***************************************************************************)
(* Fairness: while one of these steps can change anything, one is taken.   *)
(* A worker finishes and its result is handled (ApplyChunksDone wakes the  *)
(* client); a block that is not stored is asked for again by block sync;   *)
(* missing chunks are requested until they come.                           *)
(***************************************************************************)
Progress ==
  \/ \E x \in Blocks \cup OptBlocks : ApplyChunksDone(x)
  \/ PostprocessReadyBlocks
  \/ \E b \in Blocks \ {Genesis} : ReceiveBlock(b, TRUE)
  \/ \E c \in Chunks : OnChunkCompleted(c)

FairSpec == Spec /\ WF_vars(Progress)
-----------------------------------------------------------------------------

\* No block waits for something that has happened already: an orphan's parent is not
\* stored (unless its postprocessing failed half-way), a block with missing chunks lacks
\* one, and a pending block has the optimistic block of its height in processing, the
\* only one that can take it out of the pool.
NobodyWaitsInVain ==
  /\ \A b \in ToSet(chain.orphans) : Prev[b] \notin chain.stored \ env.fails_late
  /\ \A b \in chain.waiting : Prev[b] \in chain.stored /\ ~(ChunksOf[b] \subseteq chain.chunks)
  /\ \A b \in chain.pending : \E o \in chain.optimistic : OptHeight[o] = Height[b]

\* The places a block can be in.
Places ==
  <<ToSet(chain.orphans), chain.waiting, chain.pending, chain.processing, chain.invalid_blocks,
    chain.stored>>

\* A block is in one place at most, and once, however often and in whatever state of its parent,
\* its chunks and its optimistic block it is received again, although check_block_known does
\* not ask the pending pool: no block is executed while it waits, or again once it is
\* stored or invalid.
BlocksAreInOnePlace ==
  /\ IsInjective(chain.orphans)
  /\ \A i, j \in DOMAIN Places : i # j => Places[i] \cap Places[j] = {}

\* A good block with good ancestors that does not contradict the final block gets stored,
\* through every detour: orphan, missing chunks, pending, dropped at the limit.
EventuallyStored ==
  <>[](\A b \in Blocks :
         \/ b \in chain.stored
         \/ AncestorsOf[b] \cap (env.bad_headers \cup env.bad_chunks) # {}
         \/ ~CheckIfFinalizable(chain, b))

=============================================================================
