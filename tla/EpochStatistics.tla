-------------------------- MODULE EpochStatistics --------------------------
(***************************************************************************)
(* The epoch manager's statistics (chain/epoch-manager): which blocks and  *)
(* chunks were produced in an epoch and what validators proposed, the      *)
(* input of the validators, rewards and protocol version two epochs later. *)
(* They are collected incrementally, up to the last final block, in an     *)
(* aggregator in memory that is saved now and then, and completed block by *)
(* block when a block ends its epoch on its own fork.                      *)
(*                                                                         *)
(* What is counted of a block stands for itself: an aggregator has how     *)
(* often each block is counted, and for each account the block with the    *)
(* proposal or version that is kept.                                       *)
(***************************************************************************)
EXTENDS Integers, Sequences, SequencesExt, TLC

CONSTANTS
  EpochBlocks,
  GenesisBlock,
  ParentOf,               \* block -> previous block (the genesis block: itself)
  BlockAt,                \* block -> height
  FinalBlockOf,           \* block -> last final block of its header
  ProposerOf,             \* block -> the account it has a proposal of
  ProposerAccounts,
  EPOCH_LENGTH,           \* more than 3
  AGGREGATOR_SAVE_PERIOD,
  Default                 \* the default hash

VARIABLES
  infos,       \* BlockInfo of the recorded blocks: epoch_id and epoch_first_block
  starts,      \* EpochStart: epoch_id -> height
  epochs,      \* EpochInfo: for a block that ends its epoch, the statistics it is made from
  aggregator,  \* epoch_info_aggregator
  saved,       \* the aggregator on disk
  largest_final_height

epochVars == <<infos, starts, epochs, aggregator, saved, largest_final_height>>

---------------------------------------------------------------------------
(* EpochInfoAggregator *)

NewAggregator(epoch, b) ==
  [epoch_id |-> epoch, last_block_hash |-> b, counted |-> [c \in EpochBlocks |-> 0],
   latest |-> [a \in ProposerAccounts |-> Default]]

\* Keep the first where it has something, and take the second otherwise.
OrElse(first, second) ==
  [a \in ProposerAccounts |-> IF first[a] # Default THEN first[a] ELSE second[a]]

\* update_tail: the block comes before all that are counted.
UpdateTail(agg, b) ==
  [agg EXCEPT !.counted[b] = @ + 1,
              !.latest = OrElse(@, [a \in ProposerAccounts |-> IF a = ProposerOf[b] THEN b ELSE Default])]

MergeCommon(agg, other) == [c \in EpochBlocks |-> agg.counted[c] + other.counted[c]]

\* merge: the other one has the blocks that follow.
Merge_Mutant(agg, other) ==
  [epoch_id |-> agg.epoch_id, last_block_hash |-> other.last_block_hash,
   counted |-> MergeCommon(agg, other), latest |-> OrElse(agg.latest, other.latest)]

Merge(agg, other) ==
  [epoch_id |-> agg.epoch_id, last_block_hash |-> other.last_block_hash,
   counted |-> MergeCommon(agg, other), latest |-> OrElse(other.latest, agg.latest)]

\* merge_prefix: the other one has the blocks that precede.
MergePrefix(agg, other) ==
  [agg EXCEPT !.counted = MergeCommon(agg, other), !.latest = OrElse(@, other.latest)]

---------------------------------------------------------------------------
(* Aggregation of the blocks in known, from the aggregator agg up to the block b *)

\* The blocks that aggregate_epoch_info_upto visits, b first.
Visited(known, agg, b) ==
  LET back[c \in DOMAIN known] ==
        IF known[c].epoch_id # known[b].epoch_id \/ c = GenesisBlock THEN <<>>
        ELSE <<c>> \o (IF ParentOf[c] = agg.last_block_hash THEN <<>> ELSE back[ParentOf[c]])
  IN back[b]

\* What they amount to, and whether that is the whole epoch up to b.  Every parent is known
\* here: the branch for a missing one is for a node that starts with epoch sync.
AggregateEpochInfoUpto(known, agg, b) ==
  LET visited == Visited(known, agg, b)
      joins   == visited # <<>> /\ ParentOf[Last(visited)] = agg.last_block_hash
  IN <<FoldLeft(UpdateTail, NewAggregator(known[b].epoch_id, b), visited),
       ~joins \/ known[agg.last_block_hash].epoch_id # known[b].epoch_id>>

GetEpochInfoAggregatorUptoLast(known, agg, b) ==
  LET new == AggregateEpochInfoUpto(known, agg, b) IN
  IF b = agg.last_block_hash THEN agg ELSE IF new[2] THEN new[1] ELSE MergePrefix(new[1], agg)

\* update_epoch_info_aggregator_upto_final: the new aggregator, and whether it is saved.
UptoFinal(agg, final) ==
  LET new == AggregateEpochInfoUpto(infos, agg, final) IN
  IF final = agg.last_block_hash THEN <<agg, FALSE>>
  ELSE IF new[2] THEN <<new[1], TRUE>>
  ELSE <<Merge(agg, new[1]), BlockAt[final] % AGGREGATOR_SAVE_PERIOD = 0>>

---------------------------------------------------------------------------
(* Recording a block *)

\* is_next_block_in_next_epoch
IsNextBlockInNextEpoch(b, info) ==
  \/ b = GenesisBlock
  \/ BlockAt[FinalBlockOf[b]] + 3 >= BlockAt[info.epoch_first_block] + EPOCH_LENGTH

\* The id of the epoch after the first one's is the genesis block; of each later one it is
\* the last block of the epoch before the previous one.
InfoOf(b) ==
  LET prev == infos[ParentOf[b]] IN
  IF ParentOf[b] = GenesisBlock THEN [epoch_id |-> Default, epoch_first_block |-> b]
  ELSE IF IsNextBlockInNextEpoch(ParentOf[b], prev)
       THEN [epoch_id |-> ParentOf[prev.epoch_first_block], epoch_first_block |-> b]
       ELSE prev

\* Two blocks that start the same epoch on two forks share the entry.
SaveEpochStart(b, info) ==
  IF info.epoch_first_block = b THEN (info.epoch_id :> BlockAt[b]) @@ starts ELSE starts

EpochInit ==
  /\ infos = (GenesisBlock :> [epoch_id |-> Default, epoch_first_block |-> Default])
  /\ starts = <<>>
  /\ epochs = <<>>
  /\ aggregator = NewAggregator(Default, Default)
  /\ saved = aggregator
  /\ largest_final_height = 0

\* record_block_info; the caller commits it, with the block or the header, before the next one.
RecordBlockInfo(b) ==
  LET info  == InfoOf(b)
      final == BlockAt[FinalBlockOf[b]]
      new   == IF final > largest_final_height
               THEN UptoFinal(aggregator, FinalBlockOf[b]) ELSE <<aggregator, FALSE>>
      known == (b :> info) @@ infos
  IN
  /\ b \notin DOMAIN infos
  /\ ParentOf[b] \in DOMAIN infos
  /\ infos' = known
  /\ starts' = SaveEpochStart(b, info)
  /\ largest_final_height' = IF final > largest_final_height THEN final ELSE largest_final_height
  /\ aggregator' = new[1]
  /\ saved' = IF new[2] THEN new[1] ELSE saved
  /\ epochs' = IF IsNextBlockInNextEpoch(b, info)
               THEN (b :> GetEpochInfoAggregatorUptoLast(known, new[1], b)) @@ epochs
               ELSE epochs

\* EpochManager::new
EpochRestart ==
  /\ aggregator' = saved
  /\ largest_final_height' = 0
  /\ UNCHANGED <<infos, starts, epochs, saved>>

EpochNext == (\E b \in EpochBlocks : RecordBlockInfo(b)) \/ EpochRestart

---------------------------------------------------------------------------
(* Properties *)

\* b and the blocks before it, without genesis.
ChainUpto(b) ==
  LET chain[c \in EpochBlocks] ==
        IF c = GenesisBlock THEN {} ELSE {c} \cup chain[ParentOf[c]]
  IN chain[b]

\* The statistics by their meaning: every block of the epoch once, and of each account what
\* it proposed last.
StatisticsOf(b) ==
  LET epoch == {c \in ChainUpto(b) : infos[c].epoch_id = infos[b].epoch_id}
      proposed(a) == {c \in epoch : ProposerOf[c] = a} IN
  [epoch_id |-> infos[b].epoch_id, last_block_hash |-> b,
   counted |-> [c \in EpochBlocks |-> IF c \in epoch THEN 1 ELSE 0],
   latest |-> [a \in ProposerAccounts |->
     IF proposed(a) = {} THEN Default
     ELSE CHOOSE c \in proposed(a) : \A d \in proposed(a) : BlockAt[d] <= BlockAt[c]]]

\* Each epoch's validators are made from exactly the blocks of that epoch on the fork that ends
\* it, each counted once, the latest proposal of an account winning; and the aggregator, as it
\* is and as a restart finds it, gives every recorded block's statistics, forks included
\* (get_epoch_info_aggregator_upto_last).
EpochStatisticsAreRight ==
  /\ \A b \in DOMAIN epochs : epochs[b] = StatisticsOf(b)
  /\ \A b \in DOMAIN infos \ {GenesisBlock}, agg \in {aggregator, saved} :
       GetEpochInfoAggregatorUptoLast(infos, agg, b) = StatisticsOf(b)

=============================================================================
