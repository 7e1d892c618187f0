----------------------------- MODULE MCLiveness -----------------------------
(***************************************************************************)
(* What must eventually happen.  The components do not interact: each      *)
(* behaviour is one of the component that is chosen at its start, while    *)
(* the others stand still.                                                 *)
(*                                                                         *)
(* DoomslugTimer: small delays with the proportions of the configurations, *)
(* so that several delays may pass between two calls.                      *)
(* BlockPipeline: a chain of three blocks and a fork, an optimistic block  *)
(* with the keys of the two blocks of height 2.                            *)
(* GarbageCollection: a chain over five epochs with two forks, one of      *)
(* which outlives a stop height, and one block per call of the collector.  *)
(* BandwidthScheduler: two shards of which one gets fully congested; all   *)
(* that shard 0 sends and shard 1 receives does not fit into a height, and *)
(* a receipt of the largest size waits among others for shard 1.           *)
(***************************************************************************)
EXTENDS DoomslugTimer, TLC

CONSTANTS g, a1, b2, c3, f2, p2, kb, None

VARIABLES component, chain, restarts, env

chainVars == <<chain, restarts, env>>

PBlocks == {g, a1, b2, c3, f2}
PPrev == g :> g @@ a1 :> g @@ b2 :> a1 @@ c3 :> b2 @@ f2 :> a1
PHeight == g :> 0 @@ a1 :> 1 @@ b2 :> 2 @@ c3 :> 3 @@ f2 :> 2
PLastFinal == [b \in PBlocks |-> IF b = c3 THEN a1 ELSE g]
PChunksOf == [b \in PBlocks |-> IF b \in {b2, f2} THEN {kb} ELSE {}]
POptOf == [b \in PBlocks |-> IF b \in {b2, f2} THEN p2 ELSE None]
POptPrev == p2 :> a1
POptHeight == p2 :> 2
POptChunksOf == p2 :> {kb}
PEnvironments ==
  {[known_headers |-> {}, bad_headers |-> {}, bad_chunks |-> {}, fails_late |-> {}]}

Pipeline == INSTANCE BlockPipeline WITH
  Blocks <- PBlocks, Chunks <- {kb}, OptBlocks <- {p2}, Genesis <- g,
  Prev <- PPrev, Height <- PHeight, LastFinal <- PLastFinal, ChunksOf <- PChunksOf,
  OptOf <- POptOf, OptPrev <- POptPrev, OptHeight <- POptHeight, OptChunksOf <- POptChunksOf,
  Environments <- PEnvironments, MAX_PROCESSING_BLOCKS <- 2, MaxRestarts <- 1

VARIABLES db, cold, client, gc, copier

storeVars == <<db, cold, client, gc, copier>>

SParent ==
  "g0" :> "g0" @@ "a1" :> "g0" @@ "a2" :> "a1" @@ "a3" :> "a2" @@ "a4" :> "a3" @@ "a5" :> "a4"
  @@ "a6" :> "a5" @@ "a7" :> "a6" @@ "a8" :> "a7" @@ "b3" :> "a1" @@ "b4" :> "b3" @@ "c4" :> "a2"
SBlocks == DOMAIN SParent
SProduced == "RPC" :> SBlocks \ {"g0"}
SHeight ==
  "g0" :> 0 @@ "a1" :> 1 @@ "a2" :> 2 @@ "a3" :> 3 @@ "a4" :> 4 @@ "a5" :> 5 @@ "a6" :> 6
  @@ "a7" :> 7 @@ "a8" :> 8 @@ "b3" :> 3 @@ "b4" :> 4 @@ "c4" :> 4
SLastFinal ==
  "g0" :> "g0" @@ "a1" :> "g0" @@ "a2" :> "g0" @@ "a3" :> "a1" @@ "a4" :> "a2" @@ "a5" :> "a3"
  @@ "a6" :> "a4" @@ "a7" :> "a5" @@ "a8" :> "a6" @@ "b3" :> "g0" @@ "b4" :> "g0" @@ "c4" :> "g0"
SEpochFirst ==
  "g0" :> "g0" @@ "a1" :> "a1" @@ "a2" :> "a2" @@ "a3" :> "a2" @@ "a4" :> "a4" @@ "a5" :> "a4"
  @@ "a6" :> "a6" @@ "a7" :> "a6" @@ "a8" :> "a8" @@ "b3" :> "b3" @@ "b4" :> "b3" @@ "c4" :> "a2"
STrackedAt == [b \in SBlocks |-> {"s0"}]
SChunkHeight == [b \in SBlocks |-> "s0" :> SHeight[b]]
SStateAfter == [b \in SBlocks |-> "s0" :> {"n0"}]

Store == INSTANCE GarbageCollection WITH
  StoreBlocks <- SBlocks, Produced <- SProduced, Root <- "g0", Parent <- SParent,
  HeightOf <- SHeight, LastFinalOf <- SLastFinal, EpochFirst <- SEpochFirst,
  ShardIds <- {"s0"}, TrackedAt <- STrackedAt, ChunkHeightAt <- SChunkHeight,
  TrieNodes <- {"n0"}, StateAfter <- SStateAfter,
  GC_NUM_EPOCHS_TO_KEEP <- 3, GC_BLOCKS_LIMIT <- 1, GC_FORK_CLEAN_STEP <- 1,
  MaxProcessing <- 1, ApplyLag <- 0, Nothing <- None

VARIABLES scheduler, buffers, congestion, height

bandwidthVars == <<scheduler, buffers, congestion, height>>

Bandwidth == INSTANCE BandwidthScheduler WITH
  NUM_SHARDS <- 2, MAX_SHARD_BANDWIDTH <- 4, MAX_SINGLE_GRANT <- 3, MAX_ALLOWANCE <- 4,
  MAX_BASE_BANDWIDTH <- 2, MAX_RECEIPT_SIZE <- 3, VALUES_NUM <- 2, GROUP_SIZE <- 2,
  FULL <- 2, MIN_GAS <- 1, MAX_GAS <- 2, ALLOWED_SHARD_GAS <- 1,
  LevelsOf <- (0 :> {0} @@ 1 :> {1, 2}),
  NewReceipts <- (<<0, 0>> :> {2} @@ <<0, 1>> :> {4} @@ <<1, 0>> :> {} @@ <<1, 1>> :> {2}),
  MaxBuffered <- 2, NoLink <- None

Runs(c) == component = c /\ UNCHANGED component

\* A component that stands still does so in one state.
LiveInit ==
  /\ component \in {"timer", "pipeline", "store", "bandwidth"}
  /\ Init /\ Pipeline!Init /\ Store!StoreInit /\ Bandwidth!SchedulerInit
  /\ component = "timer" \/ (timer.tip = 0 /\ timer.largest_target = 0)

LiveNext ==
  \/ Runs("timer") /\ Next /\ UNCHANGED <<chainVars, storeVars, bandwidthVars>>
  \/ Runs("pipeline") /\ Pipeline!Next /\ UNCHANGED <<timerVars, storeVars, bandwidthVars>>
  \/ Runs("store") /\ (Store!AddBlocks \/ Store!CollectGarbage)
     /\ UNCHANGED <<timerVars, chainVars, bandwidthVars>>
  \/ Runs("bandwidth") /\ Bandwidth!BandwidthNext /\ UNCHANGED <<timerVars, chainVars, storeVars>>

LiveSpec ==
  /\ LiveInit /\ [][LiveNext]_<<component, timerVars, chainVars, storeVars, bandwidthVars>>
  /\ WF_timerVars(Runs("timer") /\ ProcessTimer /\ UNCHANGED <<chainVars, storeVars, bandwidthVars>>)
  /\ SF_timerVars(Runs("timer") /\ Tick /\ UNCHANGED <<chainVars, storeVars, bandwidthVars>>)
  /\ WF_chainVars(Runs("pipeline") /\ Pipeline!Progress /\ UNCHANGED <<timerVars, storeVars, bandwidthVars>>)
  /\ WF_storeVars(Runs("store") /\ Store!CollectGarbage /\ UNCHANGED <<timerVars, chainVars, bandwidthVars>>)
  /\ []<>(component = "bandwidth") => Bandwidth!FairBlocks /\ Bandwidth!FairShuffle(<<0, 1>>)

\* The component never changes: []<>(component = c) says in the form TLC checks fastest that
\* it is c.

\* A pending endorsement of the tip is eventually sent or dropped by process_timer, also
\* when skips were sent before it was due or the tip changes again and again.
EndorsementsGetResolved == []<>(component = "timer") => EndorsementResolved

\* A good block with good ancestors that does not contradict the final block gets stored by
\* the client, through every detour: orphan, missing chunks, pending, dropped at the limit,
\* lost in a restart.
BlocksGetStored == []<>(component = "pipeline") => Pipeline!EventuallyStored

\* When the chain stands still, repeated calls of clear_data collect everything they may,
\* in steps of one block and of one height of forks, although a new stop height sends the
\* search for forks back up while the last one is not finished.
GarbageGetsCollected == <>[](component = "store" => Store!Collected)

\* No shard is granted more than max_shard_bandwidth at a height, to send or to receive.
BandwidthIsLimited == Bandwidth!BandwidthIsLimited

\* A receipt of the largest size from shard 0 gets through to the congested shard 1 and so do the
\* ones after it, although both have other receipts to send and receive.
ReceiptsGetThrough == Bandwidth!ReceiptsLeave(<<0, 1>>)

=============================================================================
