---------------------------- MODULE MCComponents ----------------------------
(***************************************************************************)
(* Components of a node.  They do not interact here (BlockPipeline and     *)
(* ClientApprovals compose some of them): each behaviour is one of the     *)
(* component that is chosen at its start, while the others stand still.    *)
(*                                                                         *)
(* OrphanPool: on the block g that is not an orphan itself, a chain u, v,  *)
(* y and a fork w of u at y's height, so that a height has orphans of two  *)
(* parents and a parent orphans at two heights.                            *)
(* MissingChunksPool: four blocks on three heights; three have two chunks  *)
(* each, and every chunk but one is shared by two blocks.                  *)
(* OptimisticPool: two shards and two previous blocks; optimistic blocks   *)
(* of two heights on the first, and one of the higher height on the        *)
(* second, one shard of the first with two chunks, one of them made after  *)
(* a skipped height.                                                       *)
(* ApprovalTrackers: the genesis block g, a fork of blocks p and q at      *)
(* height 1, a block r at height 3, and approvers x and y with stakes 2    *)
(* and 1, of which x alone does not pass the threshold.  A child of p      *)
(* needs approvals of the next epoch's producers too; y does not approve a *)
(* child of q, whose threshold x passes alone.                             *)
(* FlatStorage: a chain g to h with a fork x, y of b, blocks with and      *)
(* without changes on both; a snapshot is due while d or x is the head.    *)
(* EpochStatistics: epochs of length 4 on a chain b1 to b10, where the     *)
(* blocks c4 and c8 end the first and the second epoch beside b4 and b8,   *)
(* and c6 and c10 start the next one after them.                           *)
(* WitnessTracker: three witnesses of three parts, two of which make it;   *)
(* one accesses contracts, one does not decode; the cache holds two.       *)
(* ChunkValidation: one actor; blocks m1 to m3 and a fork n2, n4 of m1     *)
(* that becomes the head; two witnesses on m2, one after a skipped height, *)
(* and one on n2.                                                          *)
(***************************************************************************)
EXTENDS OrphanPool, MissingChunksPool, OptimisticPool, ApprovalTrackers, FlatStorage, TLC

VARIABLE component

MCOrphanBlocks == {"u", "v", "w", "y"}
MCHashes == MCOrphanBlocks \cup {"g"}
MCHeight == "u" :> 1 @@ "v" :> 2 @@ "w" :> 3 @@ "y" :> 3
MCPrev == "u" :> "g" @@ "v" :> "u" @@ "w" :> "u" @@ "y" :> "v"

MCChunkedBlocks == {"u", "v", "w", "x"}
MCChunks == {"j", "k", "l", "m"}
MCChunksOf == "u" :> {"j", "k"} @@ "v" :> {"k", "l"} @@ "w" :> {"l", "m"} @@ "x" :> {"m"}
MCChunkedHeight == "u" :> 1 @@ "v" :> 1 @@ "w" :> 2 @@ "x" :> 3

MCOptBlocks == {"o2", "o3", "q3"}
MCOptChunks == {"cA", "cB", "cD", "eA", "eB"}
MCOptHeight == "o2" :> 2 @@ "o3" :> 3 @@ "q3" :> 3
MCPrevOf ==
  [b \in MCOptBlocks \cup MCOptChunks |-> IF b \in {"q3", "eA", "eB"} THEN "f" ELSE "g"]
MCShardOf == [c \in MCOptChunks |-> IF c \in {"cA", "cD", "eA"} THEN "s0" ELSE "s1"]
MCHeightCreated == [c \in MCOptChunks |-> IF c \in {"cA", "cB"} THEN 2 ELSE 3]

MCParents == {"g", "p", "q", "r"}
MCAccounts == {"x", "y"}
MCParentHeight == "g" :> 0 @@ "p" :> 1 @@ "q" :> 1 @@ "r" :> 3
MCApprovers == [b \in MCParents |-> IF b = "q" THEN {"x"} ELSE MCAccounts]
MCStakeThisEpoch == [b \in MCParents |-> "x" :> 2 @@ "y" :> 1]
MCStakeNextEpoch == [b \in MCParents |-> [a \in MCAccounts |-> IF b = "p" THEN 1 ELSE 0]]

FPrev ==
  "g" :> "g" @@ "a" :> "g" @@ "b" :> "a" @@ "c" :> "b" @@ "d" :> "c" @@ "e" :> "d" @@ "f" :> "e"
  @@ "h" :> "f" @@ "x" :> "b" @@ "y" :> "x"
FBlocks == DOMAIN FPrev
FHeight ==
  "g" :> 0 @@ "a" :> 1 @@ "b" :> 2 @@ "c" :> 3 @@ "d" :> 4 @@ "e" :> 5 @@ "f" :> 6
  @@ "h" :> 7 @@ "x" :> 5 @@ "y" :> 6
FLastFinal ==
  "g" :> None @@ "a" :> None @@ "b" :> "g" @@ "c" :> "a" @@ "d" :> "b" @@ "e" :> "c" @@ "f" :> "d"
  @@ "h" :> "e" @@ "x" :> "g" @@ "y" :> "g"
\* The shard has no new chunk in d.
FChunkPrevHash ==
  "g" :> None @@ "a" :> "g" @@ "b" :> "a" @@ "c" :> "b" @@ "d" :> "b" @@ "e" :> "d" @@ "f" :> "e"
  @@ "h" :> "f" @@ "x" :> "b" @@ "y" :> "x"
FChanged ==
  "g" :> ("j" :> 0) @@ "a" :> ("k" :> 1) @@ "b" :> <<>> @@ "c" :> <<>> @@ "d" :> ("k" :> 2)
  @@ "e" :> ("j" :> None @@ "k" :> 3) @@ "f" :> <<>> @@ "h" :> <<>> @@ "x" :> ("k" :> 4) @@ "y" :> <<>>

VARIABLES infos, starts, epochs, aggregator, saved, largest_final_height

epochVars == <<infos, starts, epochs, aggregator, saved, largest_final_height>>

EPrev ==
  "b0" :> "b0" @@ "b1" :> "b0" @@ "b2" :> "b1" @@ "b3" :> "b2" @@ "b4" :> "b3" @@ "b5" :> "b4"
  @@ "b6" :> "b5" @@ "b7" :> "b6" @@ "b8" :> "b7" @@ "b9" :> "b8" @@ "b10" :> "b9"
  @@ "c4" :> "b3" @@ "c6" :> "c4" @@ "c8" :> "b7" @@ "c10" :> "c8"
EHeight ==
  "b0" :> 0 @@ "b1" :> 1 @@ "b2" :> 2 @@ "b3" :> 3 @@ "b4" :> 4 @@ "b5" :> 5 @@ "b6" :> 6
  @@ "b7" :> 7 @@ "b8" :> 8 @@ "b9" :> 9 @@ "b10" :> 10
  @@ "c4" :> 4 @@ "c6" :> 6 @@ "c8" :> 8 @@ "c10" :> 10
\* Two blocks back where the three heights are consecutive, else the parent's.
EFinal ==
  LET final[b \in DOMAIN EPrev] ==
        IF b = "b0" THEN b
        ELSE IF EHeight[b] = EHeight[EPrev[EPrev[b]]] + 2 THEN EPrev[EPrev[b]] ELSE final[EPrev[b]]
  IN final
EProposer ==
  [b \in DOMAIN EPrev |-> IF b \in {"b2", "b4", "b6", "c6", "c8", "b9"} THEN "q"
                          ELSE IF b = "b0" THEN None ELSE "p"]

Epoch == INSTANCE EpochStatistics WITH
  EpochBlocks <- DOMAIN EPrev, GenesisBlock <- "b0", ParentOf <- EPrev, BlockAt <- EHeight,
  FinalBlockOf <- EFinal, ProposerOf <- EProposer, ProposerAccounts <- {"p", "q"},
  EPOCH_LENGTH <- 4, AGGREGATOR_SAVE_PERIOD <- 3, Default <- None

VARIABLES parts_cache, processed_witnesses, sent, asked_for

Witness == INSTANCE WitnessTracker WITH
  WitnessKeys <- {"k1", "k2", "k3"}, PartOrds <- 0..2, DataParts <- 2, LacksContracts <- {"k1"},
  Undecodable <- {"k3"}, WITNESS_PARTS_CACHE_SIZE <- 2, PROCESSED_WITNESSES_CACHE_SIZE <- 3

VARIABLES node, mailbox, tasks, orphans, arrived, validated

VParent == "m1" :> "m1" @@ "m2" :> "m1" @@ "m3" :> "m2" @@ "n2" :> "m1" @@ "n4" :> "n2"
VHeight == "m1" :> 1 @@ "m2" :> 2 @@ "m3" :> 3 @@ "n2" :> 2 @@ "n4" :> 4

Validation == INSTANCE ChunkValidation WITH
  Actors <- {"t1"}, ChainBlocks <- DOMAIN VParent, FirstBlock <- "m1", ParentOf <- VParent,
  BlockAt <- VHeight, FinalBlockOf <- [b \in DOMAIN VParent |-> IF b = "m3" THEN "m2" ELSE "m1"],
  Witnesses <- {"u3", "u4", "v4"},
  WitnessOn <- "u3" :> "m2" @@ "u4" :> "m2" @@ "v4" :> "n2",
  WitnessAt <- "u3" :> 3 @@ "u4" :> 4 @@ "v4" :> 4,
  ORPHAN_DISTANCE <- 2..5, OrphanCapacity <- 2, NoTask <- None

witnessVars == <<parts_cache, processed_witnesses, sent, asked_for>>

validationVars == <<node, mailbox, tasks, orphans, arrived, validated>>

nodeVars == <<flatVars, epochVars, witnessVars, validationVars>>

poolsVars == <<poolVars, mcpVars, optVars, trackerVars>>

ComponentsInit ==
  /\ component \in {"orphans", "missing_chunks", "optimistic", "trackers", "flat", "epochs", "witnesses", "validation"}
  /\ OrphanInit /\ MCPInit /\ OptInit /\ Init /\ FlatInit /\ Epoch!EpochInit /\ Witness!WitnessInit /\ Validation!ValidationInit

ComponentsNext ==
  /\ UNCHANGED component
  /\ \/ /\ \/ component = "orphans" /\ OrphanNext /\ UNCHANGED <<mcpVars, optVars, trackerVars>>
           \/ component = "missing_chunks" /\ MCPNext /\ UNCHANGED <<poolVars, optVars, trackerVars>>
           \/ component = "optimistic" /\ OptNext /\ UNCHANGED <<poolVars, mcpVars, trackerVars>>
           \/ component = "trackers" /\ Next /\ UNCHANGED <<poolVars, mcpVars, optVars>>
        /\ UNCHANGED nodeVars
     \/ /\ \/ component = "flat" /\ FlatNext /\ UNCHANGED <<epochVars, witnessVars, validationVars>>
           \/ component = "epochs" /\ Epoch!EpochNext /\ UNCHANGED <<flatVars, witnessVars, validationVars>>
           \/ component = "witnesses" /\ Witness!WitnessNext /\ UNCHANGED <<flatVars, epochVars, validationVars>>
           \/ component = "validation" /\ Validation!ValidationNext /\ UNCHANGED <<flatVars, epochVars, witnessVars>>
        /\ UNCHANGED poolsVars

ComponentsSpec == ComponentsInit /\ [][ComponentsNext]_<<component, poolsVars, nodeVars>>

\* An epoch's statistics have each of its blocks on the fork once, however they are collected.
EpochStatisticsAreRight == Epoch!EpochStatisticsAreRight

\* A witness goes to validation once, with the contracts that were asked for unless the entry
\* that asked for them has been evicted: see WitnessTracker.
WitnessesGoOutOnce == Witness!WitnessesGoOutOnce

\* With one thread, no orphan witness stays behind after its block was announced, through
\* evictions, forks and skipped heights.
OrphansLackTheirBlock == Validation!OrphansLackTheirBlock

=============================================================================
