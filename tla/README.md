# A TLA+ model of nearcore

This directory holds TLA+ specifications of parts of nearcore, the TLC
configurations that check them on small instances, and TLAPS proofs of their
main properties for all instances. `PROJECT.json` lists the components, the
runs, the source lines of every definition, the hazards and the theorems.

Check a specification with `tlc -config X.cfg M` and a proof module with
`tlapm M.tla`.

## The system and its parts

A nearcore node is a set of actors, each handling one message at a time, and of
threads that share locks or the database with them. The parts that are modelled:

| part | state | operations |
|------|-------|------------|
| `Doomslug` (`chain/chain/src/doomslug.rs`) | tip, timer, largest target height, pending endorsement, approval trackers | `set_tip`, `process_timer`, `on_approval_message`, `ready_to_produce_block` |
| `Client`, `ClientActor` (`chain/client`) | `pending_approvals`, a `Doomslug`, the `Chain` | timer trigger, approval message, block message, chunk completed, apply-chunks-done |
| `Chain` (`chain/chain`) | orphans, blocks with missing chunks, pending and optimistic blocks, blocks in processing | `start_process_block_async`, `postprocess_ready_blocks`, `check_orphans` |
| `ChainStore` (`chain/chain/src/store`) | head, header head, final head, `LATEST_KNOWN`, `LARGEST_TARGET_HEIGHT`, reference counts | written by `ChainUpdate`, by the timer, by block production, by the GC actor |
| `ShardsManagerActor` (`chain/chunks`) | parts of chunks, forwarded parts, requests | messages of other nodes and of the client, `resend_chunk_requests` |
| GC and cold store actors (`chain/client`) | the database they share with the client | `clear_data`, migration and copying of blocks |
| flat storage and state snapshot actor (`core/store/src/flat`, `chain/chain/src/state_snapshot_actor.rs`) | flat head, deltas, whether the head may move, the snapshot | `add_delta`, `update_flat_head`, `get_value`, create and delete a snapshot |
| `EpochManager` (`chain/epoch-manager`) | statistics of an epoch | `record_block_info` |
| witness tracker and chunk validation actors (`chain/client/src/stateless_validation`) | parts of state witnesses, the pool of orphan witnesses | part, contract and block messages |
| bandwidth scheduler and congestion control (`runtime/runtime`) | allowances, outgoing buffers, congestion infos | one run for each height, `forward_from_buffer`, `forward_or_buffer_receipt` |

They interact through the head: a processed block moves the head, the head
moves the Doomslug tip, the tip decides what a validator approves, approvals of
more than two thirds of the stake let the next producer make a block on its own
tip, and two blocks at consecutive heights on top of a block make it final. A
block is processed once the shards manager has completed its chunks. An accepted
block is announced to the shards manager and to the validation actors, which
hold what came too early. A final block lets the flat head, the epoch statistics,
garbage collection and the copying to the cold database move on.

What is hard about it: approvals are signed statements that must never conflict,
across crashes at any point between computing, saving and sending them; blocks,
approvals, parts and witnesses arrive in any order, early, late or never; a
producer may equivocate; several running sums, caches and "largest height"
counters summarise sets that both grow and shrink; actors read a row, compute and
write it back without a common lock; much of the state is written in separate
transactions; and what waits for an event must be woken by it, also when the
event comes first. The properties below are about these.

## Modules

| module | models | theorems |
|--------|--------|----------|
| `Doomslug` | a network of validators: timer, approvals, production, finality, fork choice, crashes | `DoomslugChains`, `DoomslugSteps`, `DoomslugProofs` |
| `ApprovalTrackers` | the approval trackers of one producer | `ApprovalTrackersProofs` |
| `ClientApprovals` | the client around the trackers: pending approvals, accepted blocks, production from a witness (composes `ApprovalTrackers`) | |
| `DoomslugTimer` | the timer with its clock, one loop iteration per step; shown to do what `Doomslug` allows | `DoomslugTimerProofs` |
| `OrphanPool` | the pool of blocks that wait for their previous block, with its indexes, limits and eviction | `OrphanPoolProofs` |
| `MissingChunksPool` | the pool of blocks that wait for chunks, with its three indexes; implements `MissingChunksSpec`, the pool without them | `PoolProofs` |
| `OptimisticPool` | optimistic blocks and chunks that are matched by their previous block | `PoolProofs` |
| `BlockPipeline` | the way of a block into the chain through all pools, with its optimistic block, failures and restarts (composes the pools) | |
| `ShardsManager` | how a validator collects the parts of chunks, with the client beside it | |
| `GarbageCollection` | the database under the client, the GC actor and the cold store actor | |
| `FlatStorage` | the flat storage of a shard under the client, its readers and the snapshot actor | `FlatStorageProofs` |
| `EpochStatistics` | the statistics an epoch's validators are made from, with forks and restarts | |
| `WitnessTracker` | a state witness put together from parts and contract codes | |
| `ChunkValidation` | the threads that validate witnesses, and their pool of orphan witnesses | |
| `BandwidthScheduler` | bandwidth grants, outgoing buffers and congestion of all shards | |
| `MC…` | instances for TLC | |

An operator named `…_Mutant` is a plausible programming error in the definition
that follows it. No specification uses it; replacing the definition by it
violates a property, which shows that the property can fail.

Three of the `MC` modules (`MCClient`, `MCComponents`, `MCLiveness`) hold instances of
several modules. Their variable `component` names the one whose behaviour is
looked at; it is chosen in the initial state and does not change, and the variables
of the others stay in one initial state. The state space is the sum of those of the
instances, not the product.

### Doomslug

A block is the sequence of the headers from genesis to itself, since its hash
identifies all of them; `last_ds_final` and `last_final` are positions in it.
`ds[v]` is the in-memory `Doomslug` of validator `v`; `known`, `head`,
`final_head`, `latest_known` and `saved_target` are on disk and survive a crash.
`sent[v]` is what `v` has ever signed and sent: messages are never removed from
it and may be used at any later time or never, so loss, delay, duplication and
reordering are all covered.

* `TryDoomslugTimer` is `ClientActor::try_doomslug_timer`: the tip follows the
  head, `process_timer` computes approvals, the largest target height is saved,
  the approvals are sent. `TryDoomslugTimerCommitFails` is its error path, and
  `CrashWhileSending` a crash after the save and some of the sends.
* `ProduceBlock` is `handle_block_production` and `produce_block_on`, one height
  at a time; `CrashBeforeBlockSent` a crash after `latest_known` was saved.
  `FaultyProduceBlock` is any producer whose block passes `validate_header`.
* `AcceptBlock` is the processing of a block from `check_if_finalizable` to the
  transaction that stores it, and `on_block_accepted`'s update of the tip.
  `CrashBeforeBlockStored` is a crash between the write of `latest_known`, which
  is not in the transaction, and the transaction.
* `Crash` is a restart anywhere else: `Client::new` reads the saved target and
  the tip is set again at the next trigger.

Abstractions: time (any number of skips up to `MAX_TIMER_ITERS` may be due; see
`DoomslugTimer`), the trackers (a block needs signatures that exist; see
`ApprovalTrackers`), block contents (a tag), and one epoch (fixed stakes and
producers). Two quorums are assumed to share an honest validator
(`QuorumAssumption`), which is what "less than a third of the stake is faulty"
provides; TLC evaluates the assumption for every instance.

### ApprovalTrackers

`ds.trackers[h][i]` is the tracker of target height `h` and `ApprovalInner` `i`,
with its witness, the parent whose stakes it was created with (`basis`), the two
running sums and the time at which it was first ready; `ds.last[h][a]` is
`last_approval_per_account`. `Receive` is `on_approval_message` for any approval
somebody can have signed and any parent the caller can have resolved it to;
`MoveTip` is `set_tip` for a higher block. Threshold mode is `TwoThirds`.

### ClientApprovals

Adds the client: `pending` is the LRU cache `pending_approvals`, from the least
to the most recently used entry, with one approval per account. The chain accepts
blocks in batches (`AcceptBlock`, in `postprocess_ready_blocks`), then
`on_block_accepted` runs for each (`OnBlockAccepted`); the other handlers run
when no batch is being handled (`Idle`). `provenance` says how an accepted block came:
broadcast (`NONE`), requested (`SYNC`, for the blocks of `Requestable`) or made by this
node (`PRODUCED`, the blocks of `Own`). A Skip is resolved to any accepted block
at its height, as `hashes.values().flatten().next()` on a hash map does.
Signatures are valid and accounts belong to the current or the next epoch: other
approvals are dropped by the code without effect.

### DoomslugTimer

`timer` holds the fields of `Doomslug` and `DoomslugTimer` that the timer uses,
for one validator; blocks are their heights. `StartProcessTimer` begins a call
and each iteration of the loop is one step (`IterateWithSkip`,
`IterateAndBreak`). `before` and `tip_time` are history variables. The instance
`U` of `Doomslug` gives the untimed meaning: `MatchesUntimed` says that some
choice of "the endorsement was due" and of a number of skips explains every
iteration's approvals and state, which is the step-by-step part of "the timed
timer implements the untimed one".

### OrphanPool

`pool` is the `OrphanBlockPool` as a record: the orphans with the time they were
added, those whose chunks are requested, and the two indexes. `height_idx` maps a
height to a set; `prev_hash_idx` maps a hash to a sequence, because the search
for descendants depends on the order of the list and a block may be listed twice.
`Save` is the branch of `start_process_block_impl` for an orphan, down to `add`
with its eviction; `CheckOrphans` is `check_orphans` for an accepted block: the
search, the marks for requested chunks and `remove_by_prev_hash`. The eviction
loop over descending heights is stated by where it stops (`CutHeight`). Which
orphans lack chunks is left open, so any that fit are requested, and any block of
the tree may arrive or be accepted at any time. The `unwrap` in `check_orphans`
fails on a listed hash without an orphan; as the pool is in memory only, it is
then empty (`EmptyPool`).

### MissingChunksPool and MissingChunksSpec

The four operations of `MissingChunksPool` on its three indexes and the heap of
ready blocks. A map entry that the code removes when its set is empty is an empty
set. `stored_chunks` is the part of the chain store the pool depends on: a block is
added with the chunks the store lacks, and `accept_chunk` follows the write of the
chunk in the same handler. `MissingChunksSpec` has the waiting blocks, the ready
blocks and the chunks only: a block becomes ready at the moment its last chunk
comes. Which of the waiting blocks a full pool refuses is left open there.

### OptimisticPool

`OptimisticBlockChunksPool` for the shards of one layout. An entry of `chunks` is a
record with the slots and the cached `remaining` count. `UpdateLatestReadyBlock` is
called at the end of both operations that can complete a match, as in the code.
`taken` is a history variable: what was handed out.

### BlockPipeline

`chain` is the state of `Chain` and the chain store as a record: what is in memory
(`EmptyPools`) and what is on disk (`EmptyDisk`). An action is a whole handler on
the client's thread:

* `ReceiveBlock` is `receive_block_impl` and `start_process_block_async`:
  `StartProcessBlockImpl` is the order of the checks of `preprocess_block` and what
  each error does with the block.
* `ReceiveOptimisticBlock`, and `OnChunkCompleted`: the chunk is persisted, the
  blocks that waited for it are processed, lowest first, then an optimistic block.
* `ApplyChunksDone`: a worker thread puts its result into the channel.
* `PostprocessReadyBlocks` drains the channel. For each result: the block is
  committed, the optimistic pool follows the final head, orphans are set free and
  processed (`CheckOrphans`), or the pending block of a finished optimistic block is
  processed. Then the pools are pruned below the head.
* `Restart` empties what is in memory.

The pools hold what `OrphanPool`, `MissingChunksPool` and `OptimisticPool` show them
to hold, without their indexes. `env` does not change: it says of which blocks the header
is known before, or the header or the chunks are bad, or a step after the commit fails.
Blocks are of one epoch whose state the node has, so
the orphaning of blocks in an epoch that is not caught up is left out, as are garbage
collection and the limits of the pools (1024 and more). A result that comes while the
channel is being drained is handled in the next batch.

### ShardsManager

`manager` holds the entries of `encoded_chunks` (parts, whether the receipts came,
complete), the pool of requests and what was reported to the client as complete; beside it
are `height_to_shard_to_chunk`, the cache of forwarded parts and the largest height seen.
`ReceivePartialChunk`, `ReceiveForward` and `ReceiveResponse` are the messages of other
nodes, which may come again at any time or never; `Process` and `TryProcess` follow
`process_partial_encoded_chunk` and `try_process_chunk_parts_and_receipts`.
`HandleHeader`, `HandleRequest`, `HandleCheck` and `HandleHeads` take the client's
messages from `inbox` in order. The client is a second actor: it commits blocks
(`CommitBlock`) before it announces them (`AnnounceAccepted`), so the manager may see an
accepted block that it has not been told of, and it reports the chunks a received block
lacks. `Fault` is what is found out about a chunk when its header, its parts or its
proofs are looked at.

### GarbageCollection

`db` has a field for each column or key that matters, `cold` is the cold database.
Three actors use them without a lock: the client (`PreprocessBlock`, `PostprocessBlock`,
`CommitBlock`), the GC actor and, in an archival node, the cold store actor (`MigrateToCold`,
`CopyToCold`, `UpdateColdHead`). A call of `clear_data` is a program with the counter
`gc.pc`: `ClearStateTransitionData`, `StartClearing` (the stop height), `ReadFork` and
`ClearFork` for each fork at a height, `FinishHeight`, then `ReadCanonical` and
`ClearCanonical` for each canonical block. Where a transaction writes back a value that was read
before, reading and committing are two steps. The state is a set of reference-counted trie nodes for each
shard, changed by a block's trie changes. An assertion or error of the code leads to
`pc = "error"`. `CrashStore` stops all three actors between two transactions.
`check_if_finalizable` is exact here: the code also lets a block pass after
`NUM_PARENTS_TO_CHECK_FINALITY` (20) parents or where a header is missing, and the trees are lower
than that.

### FlatStorage

One shard. `disk` is what is on disk (values, flat head, deltas with the last block with
changes), `flat` what is in memory under its lock. The client's thread adds a delta with each block it commits
(`PostprocessBlock`, or `PostprocessFails` which leaves the delta in memory) and then moves the flat head, one transaction for each block
(`UpdateFlatHead`, `MoveFlatHead`). While the head is the block before a sync hash, each
block that starts processing sets `want` and stops the flat head (`StartProcessing`,
`LockFlatHead`: two locks in turn) and sends a request to the snapshot actor, whose steps are
`HandleCreateSnapshotRequest`, `CreateStateSnapshot`, `SnapshotTaken` and `UnlockFlatHead`.
`FlatRestart` loses what is in memory at any point.

### EpochStatistics

`RecordBlockInfo` is `record_block_info` with the commit of its caller: epoch boundaries, the statistics of an epoch that ends,
the aggregator up to the last final block and its save after
`AGGREGATOR_SAVE_PERIOD` heights. What a block contributes stands for itself: an aggregator
says how often each block is counted and which block an account's proposal is from.
`EpochRestart` goes back to the saved aggregator. The node has the chain from genesis: the branch of
`aggregate_epoch_info_upto` for a parent that epoch sync left out is not modelled. `StatisticsOf` defines the right answer from the chain alone.

### WitnessTracker and ChunkValidation

`WitnessTracker` is `PartialEncodedStateWitnessTracker` for one shard: two LRU caches, and
the messages with a part, with the contracts a chunk accesses and with their codes, each any
number of times in any order. `asked_for` is a history variable: the witnesses whose present
entry has asked for codes. `ChunkValidation` is the next stage: `Actors` are threads that take
messages from one queue. A handler is several steps, as it accesses the chain store and
the pool of orphan witnesses under no common lock: `HandleWitness` looks for the previous block,
`CheckDistance` compares with the head, `AddOrphan` adds to the pool, `HandleBlock` takes out what waits for a block,
`CleanOrphans` drops what is below the final height.

### BandwidthScheduler

All shards run the same scheduler on the same block, so its state is there once. A height
is `StartRun` (allowances grow, base grants), a `ProcessRequests` for each group of requests of
equal allowance, `DistributeRemaining`, and `ApplyChunks`: each shard without a missing chunk sends receipts from its buffers
within grants and gas limits, sends or buffers a new one, and its congestion info
gets an allowed shard in turn. Buffers are kept as the groups of their
metadata, since requests are made from the sizes of groups. Sizes are small numbers and a
receipt has a gas of 1; `congestion` is any level the instance allows at any height. The
shuffle is any order; if `favoured` names a link, it is one that puts this link first.

## Runs

| run | instance | shows | states |
|-----|----------|-------|--------|
| `doomslug_faulty` | stakes 2, 1 honest, 1 faulty; heights to 3; the faulty one produces all blocks, two of them at height 1 | `FinalitySafety`, `HeadsExtendFinalHeads` | 157k |
| `doomslug_crash` | stakes 2, 1, both honest and crashing; heights to 3 | `NoConflictingApprovals`, `OneBlockPerHonestHeight`, `LatestKnownCoversHead` | 82k |
| `doomslug_deep` | stakes 3 honest and crashing, 1 faulty producer; heights to 4 | `IndInv`, `FinalHeadOnlyExtends` | 15k |
| `client` | `ClientApprovals`: 3 accounts, 6 blocks of which 2 this node's and one that may be requested, clock to 2. `BlockPipeline`: 6 blocks with two forks, 2 chunks, 1 optimistic block, 2 places, 1 restart; without faults, and with one block that fails at each stage. `ShardsManager`: 4 blocks with a fork, 2 chunks of two parts, one of them with each fault | `ProducedBlocksAreApproved`, `WitnessesAreApprovers`, `PendingLacksBlock`, `ProducedHeightsAreFresh`; `NobodyWaitsInVain`, `BlocksAreInOnePlace`; `ChunksAreCompleted` | 497k |
| `liveness` | `DoomslugTimer`: delays 1 (endorsement), 2..3 (skip), tips to 3, clock to 9. `BlockPipeline`: 4 blocks, 1 restart. `GarbageCollection`: 11 blocks over five epochs. `BandwidthScheduler`: 2 shards, buffers of 2 | `NoSkipWhilePending`, `TimerDoesNotDrift`, `MatchesUntimed`, `EndorsementsGetResolved`; `BlocksGetStored`; `GarbageGetsCollected`; `BandwidthIsLimited`, `ReceiptsGetThrough` | 252k |
| `components` | `OrphanPool`: pool of 2, 4 blocks. `MissingChunksPool`: 4 blocks on 4 chunks, limit 3. `OptimisticPool`: 3 optimistic blocks, 2 shards. `ApprovalTrackers`: 2 accounts, 4 blocks, 2 target heights. `FlatStorage`: 10 blocks with a fork. `EpochStatistics`: 15 blocks, three epochs. `WitnessTracker`: 3 witnesses, a cache of 2. `ChunkValidation`: one thread, 3 witnesses | `OrphanInv`, `EvictsFromTheTop`; `MCPInv`, `RefinesMissingChunksSpec`; `OptimisticPoolIsSound`; `TrackersAreCurrent`, `ReadyIsConsidered`; `FlatReadsAreRight`, `FlatHeadGetsUnlocked`; `EpochStatisticsAreRight`; `WitnessesGoOutOnce`; `OrphansLackTheirBlock` | 79k |
| `storage` | `GarbageCollection`: 13 blocks over five epochs with two forks and a late head, an RPC node and an archival one | `NoStorageError`, `RefcountsCountChildren`, `StoredBlocksAreReadable`, `OneTail`, `TransitionsAreKept`, `ArchiveIsComplete` | 204k |
| `client_boundary`, `orphan_stale`, `flat_snapshots`, `witness_orphans`, `chunk_forks` | small | disagreements, see Findings | |

Each property is stated in words above its definition.

### Bounds, and why they are enough

* Doomslug. A block becomes final with two blocks at the next two heights, so height 3 gives
  a final block at height 1 with a fork beside it (the first conflict there can
  be), and height 4 lets the final head move a second time. Stakes are chosen so
  that the threshold is passed by two approvals, none of which is dispensable, and
  the faulty one counts. `MAX_TIMER_ITERS` is 2, so that a call may return an
  endorsement and two skips. The clock of the timer runs to 9, after which each of three
  tips can have been skipped over more than once.
* Trackers. Two target heights and two accounts suffice: trackers of different heights
  share only the two "largest" counters, and the threshold is passed by two accounts.
* Pools. The orphan pool holds 2 of 4 blocks, so that one save can evict by age and
  by height, among them blocks that share a parent or a height with one that stays;
  a block may be listed three times in an index entry (`MaxListed`), so it can leave
  and come back twice. The pool with missing chunks holds 3 of 4 blocks which share
  chunks, so that one chunk completes two blocks and one block needs two.
* Pipeline. Two places for blocks in processing, so that a block, its parent's sibling and
  an optimistic block compete for them, a chain of three that becomes final, and a fork
  that then cannot.
* Shards manager. Chunks have two parts, both of which a cared-for chunk needs; one is the
  node's own, the other one is forwarded. One of two blocks is accepted as a fork when they come in
  that order, and a later block puts the chunks outside of the horizon.
* Storage. Five epochs of which three are kept, so that the stop height moves several times; one fork below a stop
  height and one across it; one or two blocks for each call, so that calls are interrupted by the limit.
  `ApplyLag` bounds how far the chain grows while a block is being applied: a block that is
  applied for longer than garbage collection keeps its parent fails to commit (`chain_update.rs:318`), which is an
  error of the client's and not modelled.
* Flat storage. `MaxRequests` bounds the queue of the snapshot actor to two: a request that
  is repeated or replaced while another one is handled needs no more.
* Witnesses. Three witnesses for a cache of two, so that one is evicted; the cache of processed
  witnesses has room for all. It holds 50 in the code; when more than that come before a
  part is repeated, the witness of that part could go out again.
* Bandwidth. Two shards with limits that let the largest receipt through only when
  neither the sender nor the receiver has given more than base grants to its other link. The base
  grant is less than a receipt of any link, receipts above the maximal size are among them,
  and one shard is fully congested at some heights.

Deadlock is not checked: the bounds on heights, clocks and trees stop every instance.

### Fairness

All assumptions are in `MCLiveness`.

* Timer: weak fairness of `ProcessTimer`: the client calls
  `try_doomslug_timer` from `check_triggers` every `doomslug_step_period`, and a
  call terminates. Strong fairness of `Tick`: time passes; the clock stands still
  during a call because `process_timer` reads it once, so weak fairness would allow
  calls to stop it.
* Pipeline: weak fairness of `Progress`, the disjunction of a
  worker's result, the draining of the channel (each result wakes the client), the
  arrival of a requested block (block sync asks again for a block that is not stored)
  and of a chunk (the shards manager repeats its requests). It says only that some of
  these steps is taken while any of them can change the state; neither the arrival of
  unrequested or optimistic blocks nor a restart is required.
* Garbage collection: weak fairness of its steps: the GC actor calls `clear_data` again
  every `gc_step_period`. Nothing is assumed of the client.
* Bandwidth: blocks keep being made (`FairBlocks`), and the shuffle, whose seed is the hash
  of the previous block, puts the link first again and again in blocks that allow it
  (`FairShuffle`). Without it other links of equal allowance may win each time: allowances
  are capped, and several links at the cap are told apart by the shuffle only.
  `ReceiptsGetThrough` is about behaviours in which chunks are eventually not missing. If
  the chunks of a fully congested shard are there only at heights of one residue modulo
  the number of shards, its allowed shard does not rotate, and the others wait.

## Proofs

All proofs follow the same plan: an inductive invariant, its three
facts (`Init` implies it, a step preserves it, it implies the property) and a
temporal step with `PTL`.

* `DoomslugProofs`, over the lemmas of `DoomslugChains` (chains, finality, new
  blocks) and `DoomslugSteps` (approvals and production) (for any validators, stakes, producers, heights and bounds,
  from `ConstantsAssumption` and `QuorumAssumption`): the invariant `IndInv`, all
  safety properties of the `doomslug_…` runs, and `FinalHeadOnlyExtends`. The argument for finality:
  let F be the last final block of b, so b's chain has blocks at the heights
  h(F)+1 and h(F)+2 on F (`FinalityPointersAreEarned`), and let c be a higher
  block that does not descend from F. Some edge of c's chain jumps over or lands
  beside F (`BlocksFormATree`). The two edges carry approvals of two quorums
  (`BlocksAreApproved`), which share an honest validator, and its two approvals
  conflict: contradiction with `NoConflictingApprovals`. That one is inductive
  only together with `SentIsCovered` and `TipFollowsHead`: everything sent is
  covered by the saved target and by the head, so that what the timer signs next
  is above it. `HeadsAreBest` ties the final head to a stored block,
  `ProducedIsKnown` ties a producer's blocks to its `latest_known`.
* `ApprovalTrackersProofs` (for any accounts, blocks, stakes and horizons, from
  `TrackerConstants`, `TotalStakes` and `StakesAddUp`): `TrackersAreCurrent` (an account backs at
  most one tracker of a height, the running sums are the stake of the witness, and only heights
  near the tip have a tracker) and `ReadyIsConsidered`. `StakesAddUp` says what a sum over a
  set of accounts is: 0 for nobody, and more by its stake with each account. It follows from the
  definition of the sum by induction, which the provers lack; TLC evaluates it. The invariant is their conjunction
  with the types over the integers, stated per tracker so that a step that
  rewrites two trackers (the withdrawn and the new one) is two applications of one
  lemma.
* `DoomslugTimerProofs` (for any delays that satisfy `DelayAssumption`): the types and
  `NoSkipWhilePending`. The latter rests on the endorsement
  delay being at most half of every skip delay, and on
  `last_endorsement_sent` never being later than the start of the timer plus what
  the loop has caught up with.
* `OrphanPoolProofs` (for any finite tree of blocks and any limits, from
  `OrphanConstants`): `OrphanInv` and `EvictsFromTheTop`. `OrphanInv` is the conjunction of
  what the pool promises (indexes, places for requested chunks, limits) with what the
  index entries may list. That indexes list blocks
  which are gone does no harm to these properties because an entry is dropped only
  when all of its blocks are removed, and an orphan that stays keeps its entry.
  That the eviction finds a height to stop at, with the pool below its size again,
  needs a least height: it is taken from the well-foundedness of the naturals, and
  evicting from there leaves no orphan, since every orphan is in `height_idx`.
* `PoolProofs` (for any finite set of blocks, any chunks, shards and limits, from
  `PoolConstants` and `OptConstants`): for `MissingChunksPool` the invariant `MCPInv` and
  that every step is a step of `MissingChunksSpec` or a stutter;
  for `OptimisticPool` the invariant `OptimisticPoolIsSound`. The first
  is the conjunction of the pool's properties; the second adds that what is ready was
  not handed out and is not above the threshold, so that raising the threshold with
  each match keeps the heights that were handed out distinct.
* `FlatStorageProofs` (for any blocks, finality, sync hashes and `MaxRequests`; nothing is
  assumed of the constants): `FlatHeadGetsUnlocked`. It is not inductive, since
  `snapshot_taken` leaves the flat head stopped when a later `want_snapshot` has replaced its
  request. The invariant adds `LastRequestIsCurrent`: the last request, be it about to be sent, in
  the queue or being handled, is never taken for a replaced one, so handling it lets the head move.

Only model-checked: the properties of `BlockPipeline`, `ClientApprovals`, `ShardsManager`,
`GarbageCollection`, `EpochStatistics`, `WitnessTracker`, `ChunkValidation` and
`BandwidthScheduler`; what flat storage reads (`FlatReadsAreRight`); `TimerDoesNotDrift` (a recursively defined sum);
`MatchesUntimed`; and liveness. Walks over chains of blocks and sums over sets are
recursive functions and folds, about which the installed provers have no induction.

## Findings

Places where the code does something else than one of its comments or assertions says; each
has a run whose counterexample shows it.

* `client_boundary`: `collect_block_approval` picks any block at a skipped-from
  height because "all of them will be eligible to build the next block on"
  (`client.rs:1931`). Near the end of an epoch two blocks of one height may have
  different approvers; the witness then holds an account that does not approve
  the block produced, and `debug_assert_eq!(approvals_map.len(), 0)`
  (`client.rs:813`) fails. In release builds the surplus approval is dropped.
* `orphan_stale`: `prev_hash_idx` is "a map from block hashes to orphan blocks
  whose prev block is the block" (`orphan.rs:87`), but an eviction removes an
  entry only when all of its blocks go, so an entry may list an evicted block
  beside a sibling that stays. `check_orphans` unwraps the orphan of every listed
  hash (`orphan.rs:403`).
* `flat_snapshots`: two blocks received while the head is the block before the sync hash
  make two requests for one snapshot. Handling the first one lets the flat head move;
  handling the second one deletes that snapshot before it is found to be available, and
  the new one may be past the block it has to start from (`state_snapshot.rs:102`).
* `witness_orphans`: a validation thread does not find the previous block of a witness and puts it
  into the pool after another thread has handled that block's announcement, which is
  the only one. A witness is to stay there "until the required block arrives"
  (`orphan_witness_pool.rs:14`), but this one stays until it is evicted. With one thread, the
  property holds (`components`).
* `chunk_forks`: chunks whose parts came before their previous block are looked at again when
  the client sends `CheckIncompleteChunks` (`shards_manager_actor.rs:62`), which it does not do for
  a block accepted as a fork (`client.rs:1542`). A block with such a chunk waits for it, while nothing is left to
  be requested. For blocks that become the head, the property holds (`client`).

Smaller differences, met while modelling, which the properties leave room for:

* `pending_approvals` is documented as "Approvals for which we do
  not have the block yet" (`client.rs:133`), but entries are released only when
  a block of provenance `NONE` is accepted (`client.rs:1485`); what waits for a block that
  was requested, or for the node's own, stays until it is evicted. `PendingLacksBlock` is
  about blocks that come by broadcast.
* `get_block_production_readiness` "returns … since what moment"
  a block has enough approvals (`doomslug.rs:245`); the moment is not reset
  when a withdrawal loses the threshold.
* `get_orphans_within_depth` is to "return a list of orphans that
  are among the `target_depth` immediate descendants" (`orphan.rs:211`); the
  walk is depth-first and ends at the first block at that depth, so in a fork it
  misses descendants of the branches it has not expanded.
* The optimistic pool is to keep "the received optimistic block with the
  highest height on top of" a previous block (`missing_chunks.rs:224`), but
  `add_block` inserts unconditionally, so the last one replaces a higher one.
* `block_hashes` is documented as "Block hashes that are in the
  pending blocks pool." (`pending.rs:17`), but `take_block` leaves the hash behind and
  nothing removes it later.
* Garbage collection is documented not to remove the genesis block; clearing the canonical
  chain removes it like others. In the lowest stored block the state of shards that are no longer
  tracked may be gone, so `StoredBlocksAreReadable` exempts it.
* "All blocks in the storage have heights in range [Tail; Head]" (`garbage_collection.rs:79`), but
  clearing a height without a block moves TAIL while the block below stays, so TAIL may be
  above the lowest stored block. `OneTail` says that it is not below it.
* `get_blocks_to_head` "returns an error if there is no path" (`flat/storage.rs:85`), but for
  a block without changes on an abandoned fork the jump leads to the flat head.
  `FlatReadsAreRight` is about blocks that extend the flat head.
* Fork blocks are not announced to the validation actors either (`client.rs:1542`);
  `OrphansLackTheirBlock` exempts them.
* An evicted entry forgets that codes were asked for: when parts come again, its witness goes out
  without them (`partial_witness_tracker.rs:289`, `:548`). `WitnessesGoOutOnce` is about what an
  entry has asked for since it was made.
* A decoded witness whose contract codes are lost waits in its entry until it is evicted
  (`partial_witness_tracker.rs:289`), and one for the height after the head is dropped as too far from the
  head when the head moves between the lookup and the check.
* After a restart `largest_seen_height` is 0 until the first head arrives (`chunk_cache.rs:109`), so
  chunks of the chain's height are not accepted unrequested. A chunk with invalid proofs stays in the
  cache while its request is removed.
* `max_single_grant` is "the maximum amount of bandwidth that can be granted on a single link"
  (`core/primitives/src/bandwidth_scheduler.rs`), but what is left after the requests is
  distributed without regard to it, up to `max_shard_bandwidth`.
* `BandwidthIsLimited` is about grants. The bytes that move may be more: a receipt above
  `max_receipt_size` counts as one of that size (`congestion_control.rs:427`), and receipts sent before the
  sender's chunks were missing arrive later, beside those granted then (`scheduler.rs:105`).
* A block that fails after its commit does not set its orphans free (`chain.rs:1800`); they wait
  until they are evicted or the node restarts. `NobodyWaitsInVain` exempts them.

## Not modelled

nearcore is large, and most of its lines are outside of this development; `PROJECT.json` lists the parts with
their sources and, for each part that is left out, the reason.

* Out of a model checker's reach: virtual machines and compilers, the trie and its
  encodings, cryptography (taken as ideal).
* Functions of one value without interleavings: what actions, receipts and contracts do, fees, the selection
  of validators, rewards.
* I/O and views: RPC, indexers, telemetry, tools, configuration and start-up.
* Taken as given: RocksDB is a key-value store with atomic transactions, an actor handles one
  message at a time, the peer network may lose, delay, reorder and repeat messages.
* Not modelled although they have state of their own: epoch, header, block and state sync, catch-up,
  resharding, the transaction pool, chunk production and endorsements, Spice. The modules are for one shard layout, and
  `Doomslug` and `BlockPipeline` for one epoch.
