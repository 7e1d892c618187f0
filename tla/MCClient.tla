------------------------------ MODULE MCClient ------------------------------
(***************************************************************************)
(* Two parts of the client, ClientApprovals as in MCClientApprovals and    *)
(* BlockPipeline, and the ShardsManager beside it.  A behaviour is one of  *)
(* the component that is chosen at its start, while the others stand       *)
(* still.                                                                  *)
(*                                                                         *)
(* BlockPipeline: a chain of four blocks with a fork at each of the two    *)
(* lower heights.  The optimistic block p2 has the keys of the two blocks  *)
(* of height 2.  In the second environment one block fails at each stage.  *)
(* ShardsManager: chunks of two parts; cd is of the shard the node cares   *)
(* about and in d on the block b; cu is of another shard and on a, which   *)
(* is a fork when b comes first.  Chunks leave the horizon with e.  When    *)
(* something is wrong with cd, its header is also of another epoch.        *)
(***************************************************************************)
EXTENDS MCClientApprovals, TLC

VARIABLES component, chain, restarts, env

pipelineVars == <<chain, restarts, env>>

PPrev ==
  "g" :> "g" @@ "a1" :> "g" @@ "e1" :> "g" @@ "b2" :> "a1" @@ "f2" :> "a1" @@ "c3" :> "b2"
  @@ "d4" :> "c3"

PBlocks == DOMAIN PPrev

PHeight ==
  "g" :> 0 @@ "a1" :> 1 @@ "e1" :> 1 @@ "b2" :> 2 @@ "f2" :> 2 @@ "c3" :> 3 @@ "d4" :> 4

PLastFinal == [b \in PBlocks |-> CASE b = "c3" -> "a1" [] b = "d4" -> "b2" [] OTHER -> "g"]

PChunksOf ==
  [b \in PBlocks |-> CASE b \in {"b2", "f2"} -> {"kb"} [] b = "e1" -> {"ke"} [] OTHER -> {}]

PEnvironments ==
  {[known_headers |-> {}, bad_headers |-> {}, bad_chunks |-> {}, fails_late |-> {}],
   [known_headers |-> {"a1"}, bad_headers |-> {"f2"}, bad_chunks |-> {"e1"}, fails_late |-> {"b2"}]}

Pipeline == INSTANCE BlockPipeline WITH
  Blocks <- PBlocks, Chunks <- {"kb", "ke"}, OptBlocks <- {"p2"}, Genesis <- "g",
  Prev <- PPrev, Height <- PHeight, LastFinal <- PLastFinal, ChunksOf <- PChunksOf,
  OptOf <- [b \in PBlocks |-> IF b \in {"b2", "f2"} THEN "p2" ELSE None],
  OptPrev <- ("p2" :> "a1"), OptHeight <- ("p2" :> 2), OptChunksOf <- ("p2" :> {"kb"}),
  Environments <- PEnvironments, MAX_PROCESSING_BLOCKS <- 2, MaxRestarts <- 1

VARIABLES manager, shard_chunks, chunk_forwards, largest_seen, asked, client, inbox

managerVars == <<manager, shard_chunks, chunk_forwards, largest_seen, asked, client, inbox>>

SParent == "g" :> "g" @@ "a" :> "g" @@ "b" :> "g" @@ "d" :> "b" @@ "e" :> "d"

Faults == {"none", "header", "decode", "proofs"}

\* One instance for each fault the chunk cd may have.
Shards(fault) == INSTANCE ShardsManager WITH
  ManagedBlocks <- DOMAIN SParent, RootBlock <- "g", ParentBlock <- SParent,
  HeightOf <- "g" :> 0 @@ "a" :> 1 @@ "b" :> 2 @@ "d" :> 3 @@ "e" :> 5,
  NewChunks <- [b \in DOMAIN SParent |-> IF b = "d" THEN {"cd"} ELSE {}],
  ManagedChunks <- {"cd", "cu"}, ChunkOn <- "cd" :> "b" @@ "cu" :> "a",
  ChunkAt <- [c \in {"cd", "cu"} |-> 3], ChunkIn <- "cd" :> 0 @@ "cu" :> 1, CaredShards <- {0},
  Fault <- "cd" :> fault @@ "cu" :> "none", OtherEpoch <- IF fault = "none" THEN {} ELSE {"cd"},
  PartOrds <- {0, 1}, OwnParts <- {0},
  NUM_DATA_PARTS <- 2, HEIGHT_HORIZON <- 1, HEIGHTS_AHEAD <- 2

ClientsInit ==
  /\ component \in {"approvals", "pipeline"} \cup Faults
  /\ ClientInit
  /\ Pipeline!Init
  /\ Shards("none")!ManagerInit
  /\ component # "pipeline" => env.known_headers = {}

ClientsNext ==
  /\ UNCHANGED component
  /\ \/ component = "approvals" /\ ClientNext /\ UNCHANGED <<pipelineVars, managerVars>>
     \/ component = "pipeline" /\ Pipeline!Next /\ UNCHANGED <<clientVars, managerVars>>
     \/ \E fault \in Faults :
          component = fault /\ Shards(fault)!ManagerNext /\ UNCHANGED <<clientVars, pipelineVars>>

ClientsSpec == ClientsInit /\ [][ClientsNext]_<<component, clientVars, pipelineVars, managerVars>>

\* No block waits for something that has happened already: see BlockPipeline.
NobodyWaitsInVain == Pipeline!NobodyWaitsInVain

\* A block that is received again while it is in a pool, in processing or stored does not
\* get to a second place: see BlockPipeline.
BlocksAreInOnePlace == Pipeline!BlocksAreInOnePlace

\* A chunk on an accepted block that has all it needs is completed: see ShardsManager.
ChunksAreCompleted == \A fault \in Faults : component = fault => Shards(fault)!ChunksAreCompleted

=============================================================================
