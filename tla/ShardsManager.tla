---------------------------- MODULE ShardsManager ----------------------------
(***************************************************************************)
(* How a validator collects the parts of chunks (shards_manager_actor,     *)
(* chunk_cache).  Parts and receipts come from the chunk's producer, are   *)
(* forwarded by the owners of other parts, or answer a request.  The       *)
(* client, another actor, accepts blocks and tells the manager of chunk    *)
(* headers, of chunks to request, of the head and of accepted blocks.      *)
(*                                                                         *)
(* Messages of the network may be lost, delayed and repeated.  Parts that  *)
(* do not prove right are dropped by the code at once and left out here;   *)
(* what a whole chunk turns out to be is Fault.  The cache of forwarded    *)
(* parts holds 1000 chunks, more than there are here.  Left out too:       *)
(* answering requests and distributing a chunk of one's own.               *)
(***************************************************************************)
EXTENDS Integers, FiniteSets, Sequences, SequencesExt, FiniteSetsExt, Functions, TLC

CONSTANTS
  ManagedBlocks, RootBlock,
  ParentBlock, HeightOf,      \* block -> its parent, its height
  NewChunks,                  \* block -> its new chunks
  ManagedChunks,
  ChunkOn, ChunkAt, ChunkIn,  \* chunk -> previous block, height created, shard
  CaredShards,                \* cares_about_shard_this_or_next_epoch
  Fault,                      \* chunk -> "none", or what is wrong: "header", "decode", "proofs"
  OtherEpoch,                 \* chunks whose header does not validate in the head's epoch
  PartOrds, OwnParts,         \* all parts, the parts this node owns
  NUM_DATA_PARTS,
  HEIGHT_HORIZON, HEIGHTS_AHEAD   \* MAX_HEIGHTS_AHEAD

VARIABLES
  manager,          \* encoded_chunks, the pool of requests, and completed chunks sent to the client
  shard_chunks,     \* height_to_shard_to_chunk: <<height, shard>> -> chunk
  chunk_forwards,   \* chunk_forwards_cache: chunk -> parts
  largest_seen,     \* largest_seen_height
  asked,            \* chunks of which requests have been sent
  client,           \* the client: see ManagerInit
  inbox             \* messages of the client to the manager

managerVars == <<manager, shard_chunks, chunk_forwards, largest_seen, asked, client, inbox>>

ManagerInit ==
  /\ manager = [chunks |-> <<>>, requested |-> {}, completed |-> {}]
  /\ shard_chunks = <<>>
  /\ chunk_forwards = [c \in ManagedChunks |-> {}]
  /\ largest_seen = 0
  /\ asked = {}
  /\ client = [accepted |-> {RootBlock}, head |-> RootBlock, forks |-> {}, unannounced |-> <<>>,
               persisted |-> {}, reported |-> {}]
  /\ inbox = <<>>

---------------------------------------------------------------------------
(* Operations of the cache *)

NewEntry == [parts |-> {}, receipts |-> FALSE, complete |-> FALSE, ready |-> FALSE]

Known(c) == c \in DOMAIN manager.chunks

Complete(c) == Known(c) /\ manager.chunks[c].complete

\* get_or_insert_from_header
Inserted(c) == IF Known(c) THEN manager.chunks ELSE c :> NewEntry @@ manager.chunks

ShardChunksWith(c) ==
  IF Known(c) THEN shard_chunks ELSE (<<ChunkAt[c], ChunkIn[c]>> :> c) @@ shard_chunks

\* merge_in_partial_encoded_chunk, with the parts that were forwarded before.
Merged(c, parts, receipts) ==
  [Inserted(c) EXCEPT ![c].parts = @ \cup parts \cup chunk_forwards[c],
                      ![c].receipts = @ \/ receipts]

WithinHorizon(h) ==
  \/ h \in largest_seen .. largest_seen + HEIGHTS_AHEAD
  \/ h <= largest_seen /\ h + HEIGHT_HORIZON >= largest_seen

Without(f, dropped) == Restrict(f, DOMAIN f \ dropped)

---------------------------------------------------------------------------
(* Completing a chunk *)

Cares(c) == ChunkIn[c] \in CaredShards

\* Own parts and receipts do for a shard the node does not care about.
OwnShareSuffices(c, e) == ~Cares(c) /\ OwnParts \subseteq e.parts /\ e.receipts

CanReconstruct(e) == Cardinality(e.parts) >= NUM_DATA_PARTS

\* try_process_chunk_parts_and_receipts on the state m, with complete_chunk and
\* decode_encoded_chunk_if_complete; complete_chunk forgets a chunk outside of the horizon.
TryProcess(c, m) ==
  LET e == [m.chunks[c] EXCEPT !.ready = @ \/ OwnParts \subseteq m.chunks[c].parts]
      kept == [m.chunks EXCEPT ![c] = e]
      dropped == Without(m.chunks, {c})
  IN
  IF ChunkOn[c] \notin client.accepted THEN m
  ELSE IF Fault[c] = "header" THEN [m EXCEPT !.chunks = dropped, !.requested = @ \ {c}]
  ELSE IF OwnShareSuffices(c, e) \/ (CanReconstruct(e) /\ Fault[c] = "none") THEN
    [chunks |-> IF WithinHorizon(ChunkAt[c]) THEN [kept EXCEPT ![c].complete = TRUE] ELSE dropped,
     requested |-> m.requested \ {c},
     completed |-> m.completed \cup {c}]
  ELSE IF CanReconstruct(e) THEN
    IF Fault[c] = "decode" THEN [m EXCEPT !.chunks = dropped]
    ELSE [m EXCEPT !.chunks = kept, !.requested = @ \ {c}]
  ELSE [m EXCEPT !.chunks = kept]

\* The outcome NeedMorePartsOrReceipts, on which the chunk is marked in the request pool.
NeedsMore(c, m) ==
  /\ ChunkOn[c] \in client.accepted /\ Fault[c] # "header"
  /\ ~OwnShareSuffices(c, m.chunks[c]) /\ ~CanReconstruct(m.chunks[c])

\* process_partial_encoded_chunk from the merge on.
Process(c, parts, receipts) ==
  LET merged == [manager EXCEPT !.chunks = Merged(c, parts, receipts)]
      tried == TryProcess(c, merged)
  IN
  /\ manager' = IF NeedsMore(c, merged) THEN [tried EXCEPT !.requested = @ \cup {c}] ELSE tried
  /\ shard_chunks' = ShardChunksWith(c)
  /\ chunk_forwards' = [chunk_forwards EXCEPT ![c] = {}]
  /\ UNCHANGED <<largest_seen, asked, client, inbox>>

\* Its first checks: the chunk is not complete, and an unrequested one is within the horizon and
\* the first of its height and shard.
WorthProcessing(c) ==
  /\ ~Complete(c)
  /\ \/ c \in manager.requested
     \/ /\ WithinHorizon(ChunkAt[c])
        /\ LET place == <<ChunkAt[c], ChunkIn[c]>> IN
           place \in DOMAIN shard_chunks => shard_chunks[place] = c

\* validate_chunk_header, before the chunk's previous block is accepted or after.
HeaderValidates(c) ==
  IF ChunkOn[c] \in client.accepted \/ c \in manager.requested THEN Fault[c] # "header"
  ELSE c \notin OtherEpoch

---------------------------------------------------------------------------
(* Messages of the network *)

\* ProcessPartialEncodedChunk, from the producer.  A chunk whose header cannot be validated yet
\* is retried once: a repeated message.
ReceivePartialChunk(c) ==
  WorthProcessing(c) /\ HeaderValidates(c) /\ Process(c, OwnParts, TRUE)

\* process_partial_encoded_chunk_forward, of a part another validator owns: kept for later
\* while the previous block or the header is unknown.
ReceiveForward(c, part) ==
  IF ChunkOn[c] \in client.accepted /\ Known(c)
  THEN WorthProcessing(c) /\ Process(c, {part}, FALSE)
  ELSE /\ chunk_forwards' = [chunk_forwards EXCEPT ![c] = @ \cup {part}]
       /\ UNCHANGED <<manager, shard_chunks, largest_seen, asked, client, inbox>>

\* process_partial_encoded_chunk_response: some of what was asked for.
ReceiveResponse(c, parts, receipts) ==
  c \in asked /\ Known(c) /\ WorthProcessing(c) /\ Process(c, parts, receipts)

---------------------------------------------------------------------------
(* Requests *)

\* request_partial_encoded_chunk sends a request: there is a part to fetch, or receipts are.
Asks(c, force_full) ==
  LET missing == IF Known(c) THEN PartOrds \ manager.chunks[c].parts ELSE PartOrds IN
  IF force_full \/ Cares(c) THEN missing # {}
  ELSE missing \cap OwnParts # {} \/ CaredShards # {}

\* resend_chunk_requests: requests that are too old go, of the others some are due, and some of
\* these old enough to fetch the whole chunk.
ResendChunkRequests(expired, due, full) ==
  /\ manager.requested # {}
  /\ manager' = [manager EXCEPT !.requested = @ \ expired]
  /\ asked' = asked \cup {c \in due : Asks(c, c \in full)}
  /\ UNCHANGED <<shard_chunks, chunk_forwards, largest_seen, client, inbox>>

---------------------------------------------------------------------------
(* Messages of the client *)

Takes(message) == inbox # <<>> /\ message \in DOMAIN Head(inbox) /\ inbox' = Tail(inbox)

\* process_chunk_header_from_block
HandleHeader ==
  LET c == Head(inbox).header
      merged == [manager EXCEPT !.chunks = Merged(c, {}, FALSE)] IN
  /\ Takes("header")
  /\ IF Complete(c) THEN UNCHANGED <<manager, shard_chunks, chunk_forwards>>
     ELSE /\ manager' = IF Known(c) /\ chunk_forwards[c] = {} THEN manager ELSE TryProcess(c, merged)
          /\ shard_chunks' = ShardChunksWith(c)
          /\ chunk_forwards' = [chunk_forwards EXCEPT ![c] = {}]
  /\ UNCHANGED <<largest_seen, asked, client>>

\* request_chunks and request_chunks_for_orphan, whose ancestor must be of the orphan's epoch:
\* some requests are sent at once, the others wait for parts to be forwarded.
HandleRequest(at_once) ==
  LET message == Head(inbox)
      new == {c \in message.request : /\ Known(c) /\ ~Complete(c) /\ c \notin manager.requested
                                      /\ message.orphan => c \notin OtherEpoch} IN
  /\ Takes("request")
  /\ manager' = [manager EXCEPT !.requested = @ \cup new]
  /\ asked' = asked \cup {c \in new \cap at_once : Asks(c, FALSE)}
  /\ UNCHANGED <<shard_chunks, chunk_forwards, largest_seen, client>>

ChunksToProcess_Mutant(b) == {c \in DOMAIN manager.chunks \cap manager.requested : ChunkOn[c] = b /\ ~Complete(c)}

\* get_incomplete_chunks
ChunksToProcess(b) == {c \in DOMAIN manager.chunks : ChunkOn[c] = b /\ ~Complete(c)}

\* check_incomplete_chunks
HandleCheck ==
  /\ Takes("check")
  /\ manager' = FoldSet(TryProcess, manager, ChunksToProcess(Head(inbox).check))
  /\ UNCHANGED <<shard_chunks, chunk_forwards, largest_seen, asked, client>>

\* update_chain_heads with update_largest_seen_height: chunks that leave the horizon go unless
\* they are requested.
HandleHeads ==
  LET new == HeightOf[Head(inbox).head]
      leaving == Max({largest_seen - HEIGHT_HORIZON, 0}) .. Max({new - HEIGHT_HORIZON, 0}) - 1 IN
  /\ Takes("head")
  /\ largest_seen' = new
  /\ manager' = [manager EXCEPT !.chunks =
       Without(@, {c \in DOMAIN @ \ manager.requested : ChunkAt[c] \in leaving})]
  /\ shard_chunks' = Without(shard_chunks, {p \in DOMAIN shard_chunks : p[1] \in leaving})
  /\ UNCHANGED <<chunk_forwards, asked, client>>

---------------------------------------------------------------------------
(* The client *)

\* ChunkCompleted: the client stores the chunk.
PersistChunk(c) ==
  /\ c \in manager.completed \ client.persisted
  /\ client' = [client EXCEPT !.persisted = @ \cup {c}]
  /\ UNCHANGED <<manager, shard_chunks, chunk_forwards, largest_seen, asked, inbox>>

\* A block with all of its chunks is committed, as a new head or as a fork.
CommitBlock(b) ==
  LET new_head == HeightOf[b] > HeightOf[client.head] IN
  /\ b \notin client.accepted /\ ParentBlock[b] \in client.accepted
  /\ NewChunks[b] \subseteq client.persisted
  /\ client' = [client EXCEPT
       !.accepted = @ \cup {b},
       !.head = IF new_head THEN b ELSE @,
       !.forks = IF new_head THEN @ ELSE @ \cup {b},
       !.unannounced = IF new_head THEN Append(@, b) ELSE @]
  /\ UNCHANGED <<manager, shard_chunks, chunk_forwards, largest_seen, asked, inbox>>

\* postprocess_ready_blocks and on_block_accepted_with_optional_chunk_produce of a validator,
\* which sends nothing for a fork.
AnnounceAccepted ==
  /\ client.unannounced # <<>>
  /\ inbox' = inbox \o <<[head |-> client.head], [check |-> Head(client.unannounced)]>>
  /\ client' = [client EXCEPT !.unannounced = Tail(@)]
  /\ UNCHANGED <<manager, shard_chunks, chunk_forwards, largest_seen, asked>>

\* process_block_processing_artifact for a received block that lacks chunks, once while it is
\* an orphan and once when it is not.
ReportMissingChunks(b) ==
  LET missing == NewChunks[b] \ client.persisted
      orphan == ParentBlock[b] \notin client.accepted IN
  /\ missing # {} /\ <<b, orphan>> \notin client.reported
  /\ client' = [client EXCEPT !.reported = @ \cup {<<b, orphan>>}]
  /\ inbox' = inbox \o [i \in 1..Cardinality(missing) |-> [header |-> SetToSeq(missing)[i]]]
                    \o <<[request |-> missing, orphan |-> orphan]>>
  /\ UNCHANGED <<manager, shard_chunks, chunk_forwards, largest_seen, asked>>

ManagerNext ==
  \/ \E c \in ManagedChunks :
       \/ ReceivePartialChunk(c)
       \/ \E part \in PartOrds \ OwnParts : ReceiveForward(c, part)
       \/ \E parts \in SUBSET PartOrds, receipts \in BOOLEAN : ReceiveResponse(c, parts, receipts)
       \/ PersistChunk(c)
  \/ \E expired \in SUBSET manager.requested :
       \E due \in SUBSET (manager.requested \ expired) :
         \E full \in SUBSET due : ResendChunkRequests(expired, due, full)
  \/ HandleHeader \/ HandleCheck \/ HandleHeads
  \/ \E at_once \in SUBSET ManagedChunks : HandleRequest(at_once)
  \/ \E b \in ManagedBlocks : CommitBlock(b) \/ ReportMissingChunks(b)
  \/ AnnounceAccepted

ManagerSpec == ManagerInit /\ [][ManagerNext]_managerVars

---------------------------------------------------------------------------
(* Properties *)

ManagerIsQuiet == inbox = <<>> /\ client.unannounced = <<>>

\* A sound chunk that has all it needs and yet is not complete.
Forgotten(c) ==
  /\ ~manager.chunks[c].complete /\ Fault[c] = "none"
  /\ OwnShareSuffices(c, manager.chunks[c]) \/ CanReconstruct(manager.chunks[c])

\* "If missing the previous block is the only blocker, there's another chance to trigger this
\* processing again in check_incomplete_chunks": once the manager has handled the client's
\* messages, no chunk on an accepted block has all it needs without being complete, unless the
\* block was accepted as a fork.
ChunksAreCompleted ==
  ManagerIsQuiet => \A c \in DOMAIN manager.chunks :
    ChunkOn[c] \in client.accepted \ client.forks => ~Forgotten(c)

\* "when the fetching is complete, a response ... will be sent back to the client": no block
\* waits for a chunk of which the manager has all it needs and nothing is left to be requested.
WaitedForChunksAreCompleted ==
  ManagerIsQuiet => \A b \in ManagedBlocks : <<b, FALSE>> \in client.reported =>
    \A c \in NewChunks[b] \cap DOMAIN manager.chunks : ~(Forgotten(c) /\ ~Asks(c, FALSE))

=============================================================================
