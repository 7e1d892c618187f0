---------------------------- MODULE FlatStorage ----------------------------
(***************************************************************************)
(* The flat storage of one shard (core/store/src/flat): the state after    *)
(* the flat head as key-value pairs on disk, and a delta for every block   *)
(* after it, on disk and in memory.  Reading a key after a block walks the *)
(* deltas down to the flat head, over blocks without changes in one jump.  *)
(*                                                                         *)
(* Three threads use it: the client's, which adds a delta with each block  *)
(* it commits and then moves the flat head, one transaction per block; the *)
(* ones that apply chunks, which read; and the state snapshot actor, for   *)
(* which the client stops the flat head while a snapshot is wanted.        *)
(***************************************************************************)
EXTENDS Integers, Sequences, FiniteSets, SequencesExt

CONSTANTS
  FlatBlocks,      \* the blocks of the tree
  Start,           \* the genesis block
  PrevBlock,       \* block -> previous block (the genesis block: itself)
  FlatHeight,      \* block -> height
  LastFinalBlock,  \* block -> last_final_block of its header, or Nil
  ChunkPrevHash,   \* block -> prev_block_hash of the shard's chunk in it, or Nil
  Changed,         \* block -> function of the keys it changes to their new values
  Keys,
  SyncPrevBlocks,  \* the blocks before the sync hash of an epoch
  MaxRequests,     \* bound: requests waiting for the snapshot actor
  Nil

VARIABLES
  hot,     \* the client's database: blocks, head, final_head
  disk,      \* flat storage on disk: state, flat_head, deltas (block -> metadata)
  flat,      \* in memory: flat_head, deltas, move_head_enabled
  want,      \* want_snapshot: the block before the one a snapshot is requested for
  worker,    \* the client's thread: program counter, blocks in processing, target
  snapshots  \* the actor: its queue, program counter, request, and the snapshot

flatVars == <<hot, disk, flat, want, worker, snapshots>>

---------------------------------------------------------------------------
(* Blocks, and the state they define *)

Chain[b \in FlatBlocks] == IF b = Start THEN {Start} ELSE {b} \cup Chain[PrevBlock[b]]

HasChanges(b) == DOMAIN Changed[b] # {}

Apply(state, b) == [k \in Keys |-> IF k \in DOMAIN Changed[b] THEN Changed[b][k] ELSE state[k]]

\* What reading a key after a block must give.
StateAfterBlock[b \in FlatBlocks] ==
  Apply(IF b = Start THEN [k \in Keys |-> Nil] ELSE StateAfterBlock[PrevBlock[b]], b)

---------------------------------------------------------------------------
(* Reading *)

\* get_blocks_to_head: the next block of the walk from b.
NextOnPath_Mutant(fs, b) == IF fs.deltas[b] = Nil THEN PrevBlock[b] ELSE fs.deltas[b]

NextOnPath(fs, b) ==
  LET prev == fs.deltas[b] IN
  IF prev = Nil THEN PrevBlock[b]
  ELSE IF FlatHeight[prev] > FlatHeight[fs.flat_head] THEN prev
  ELSE fs.flat_head

\* The walk, newest block first: <<Nil>> at its end when a block has no delta.  Blocks
\* without changes are left out, but for the target.
BlocksToHead(fs, target) ==
  LET walk[b \in FlatBlocks] ==
        IF b = fs.flat_head THEN <<>>
        ELSE IF b \notin DOMAIN fs.deltas THEN <<Nil>>
        ELSE (IF fs.deltas[b] = Nil \/ b = target THEN <<b>> ELSE <<>>) \o walk[NextOnPath(fs, b)]
  IN walk[target]

Supported(fs, target) == \A i \in DOMAIN BlocksToHead(fs, target) : BlocksToHead(fs, target)[i] # Nil

\* get_value: the newest change of the key on the way, or else the value at the flat head.
GetValue(fs, target, k) ==
  LET path == BlocksToHead(fs, target)
      hits == {i \in DOMAIN path : k \in DOMAIN Changed[path[i]]} IN
  IF hits = {} THEN disk.state[k]
  ELSE Changed[path[CHOOSE i \in hits : \A j \in hits : i <= j]][k]

---------------------------------------------------------------------------
(* Writing *)

\* get_prev_block_with_changes, from the metadata on disk, of a block without changes.
PrevBlockWithChanges(b) ==
  LET prev == PrevBlock[b] IN
  IF HasChanges(b) THEN Nil
  ELSE IF prev \notin DOMAIN disk.deltas THEN (IF disk.flat_head = prev THEN prev ELSE Nil)
  ELSE IF disk.deltas[prev] = Nil THEN prev
  ELSE disk.deltas[prev]

WithDelta(deltas, b, prev) ==
  [c \in DOMAIN deltas \cup {b} |-> IF c = b THEN prev ELSE deltas[c]]

\* One block of update_flat_head: the block's changes go to the flat state, it becomes the
\* flat head, and the deltas at or below its height are removed.
DeltasUpTo(fs, b) == {c \in DOMAIN fs.deltas : FlatHeight[c] <= FlatHeight[b]}

WithoutDeltas(deltas, gone) == Restrict(deltas, DOMAIN deltas \ gone)

MovedOnDisk(d, b, gone) ==
  [state |-> Apply(d.state, b), flat_head |-> b, deltas |-> WithoutDeltas(d.deltas, gone)]

\* update_flat_head all the way to the target, in a checkpoint of the disk.
MovedAlong(d, path) ==
  FoldRight(LAMBDA b, e : MovedOnDisk(e, b, DeltasUpTo(e, b)), path, d)

---------------------------------------------------------------------------
(* The client *)

FlatInit ==
  /\ hot = [blocks |-> {Start}, head |-> Start, final_head |-> Start]
  /\ disk = [state |-> StateAfterBlock[Start], flat_head |-> Start, deltas |-> <<>>]
  /\ flat = [flat_head |-> Start, deltas |-> <<>>, move_head_enabled |-> TRUE]
  /\ want = Nil
  /\ worker = [pc |-> "idle", processing |-> {}, target |-> Nil, path |-> <<>>]
  /\ snapshots = [queue |-> <<>>, pc |-> "idle", request |-> Nil, snapshot |-> Nil]

\* start_process_block_impl of a block that preprocessing accepts, with process_snapshot:
\* while the head is the block before a sync hash, want_snapshot names its parent.
StartProcessing(b) ==
  /\ worker.pc = "idle"
  /\ b \notin hot.blocks \cup worker.processing
  /\ PrevBlock[b] \in hot.blocks
  /\ hot.final_head \in Chain[b]
  /\ IF hot.head \in SyncPrevBlocks \ {Start}
     THEN /\ Len(snapshots.queue) < MaxRequests
          /\ want' = PrevBlock[hot.head]
          /\ worker' = [worker EXCEPT !.processing = @ \cup {b}, !.pc = "lock"]
     ELSE /\ UNCHANGED want
          /\ worker' = [worker EXCEPT !.processing = @ \cup {b}]
  /\ UNCHANGED <<hot, disk, flat, snapshots>>

\* The rest of want_snapshot, under its second lock, and the request to the actor.
LockFlatHead ==
  /\ worker.pc = "lock"
  /\ flat' = [flat EXCEPT !.move_head_enabled = FALSE]
  /\ snapshots' = [snapshots EXCEPT !.queue = Append(@, hot.head)]
  /\ worker' = [worker EXCEPT !.pc = "idle"]
  /\ UNCHANGED <<hot, disk, want>>

\* get_new_flat_storage_head
NewFlatStorageHead(b) ==
  LET final == LastFinalBlock[b] IN
  IF final = Nil \/ final \notin hot.blocks THEN Nil ELSE ChunkPrevHash[final]

\* add_delta refuses a block whose parent is neither the flat head nor in the deltas.
CanAddDelta(b) == PrevBlock[b] \in DOMAIN flat.deltas \cup {flat.flat_head}

\* Postprocessing commits the block with its delta, which add_delta has put in memory.
PostprocessBlock(b) ==
  LET prev  == PrevBlockWithChanges(b)
      final == LastFinalBlock[b] IN
  /\ worker.pc = "idle"
  /\ b \in worker.processing
  /\ CanAddDelta(b)
  /\ flat' = [flat EXCEPT !.deltas = WithDelta(@, b, prev)]
  /\ disk' = [disk EXCEPT !.deltas = WithDelta(@, b, prev)]
  /\ hot' = [blocks |-> hot.blocks \cup {b},
               head |-> IF FlatHeight[b] > FlatHeight[hot.head] THEN b ELSE hot.head,
               final_head |-> IF final # Nil /\ FlatHeight[final] > FlatHeight[hot.final_head]
                              THEN final ELSE hot.final_head]
  /\ worker' = [pc |-> IF NewFlatStorageHead(b) = Nil THEN "idle" ELSE "update",
                processing |-> worker.processing \ {b},
                target |-> NewFlatStorageHead(b), path |-> <<>>]
  /\ UNCHANGED <<want, snapshots>>

\* Postprocessing fails: add_delta refuses the block, or a later step of it does, and then
\* the delta stays in memory.  The block may come again.
PostprocessFails(b) ==
  /\ worker.pc = "idle"
  /\ b \in worker.processing
  /\ \/ ~CanAddDelta(b) /\ UNCHANGED flat
     \/ CanAddDelta(b) /\ flat' = [flat EXCEPT !.deltas = WithDelta(@, b, PrevBlockWithChanges(b))]
  /\ worker' = [worker EXCEPT !.processing = @ \ {b}]
  /\ UNCHANGED <<hot, disk, want, snapshots>>

\* update_flat_head takes the lock, and returns unless it has a way to go.
UpdateFlatHead ==
  LET path == BlocksToHead(flat, worker.target)
      goes == flat.move_head_enabled /\ Supported(flat, worker.target) /\ path # <<>> IN
  /\ worker.pc = "update"
  /\ worker' = [worker EXCEPT !.pc = IF goes THEN "move" ELSE "idle", !.target = Nil,
                              !.path = IF goes THEN path ELSE <<>>]
  /\ UNCHANGED <<hot, disk, flat, want, snapshots>>

\* One transaction of update_flat_head, under its lock.  A delta that is not on disk is an
\* internal error, at which update_flat_storage_for_shard panics.
MoveFlatHead ==
  LET b    == Last(worker.path)
      gone == DeltasUpTo(flat, b)
      rest == Front(worker.path) IN
  /\ worker.pc = "move"
  /\ IF b \in DOMAIN disk.deltas /\ b \in DOMAIN flat.deltas
     THEN /\ disk' = MovedOnDisk(disk, b, gone)
          /\ flat' = [flat EXCEPT !.flat_head = b, !.deltas = WithoutDeltas(@, gone)]
          /\ worker' = [worker EXCEPT !.pc = IF rest = <<>> THEN "idle" ELSE "move", !.path = rest]
     ELSE /\ worker' = [worker EXCEPT !.pc = "panic"]
          /\ UNCHANGED <<disk, flat>>
  /\ UNCHANGED <<hot, want, snapshots>>

\* The node stops anywhere and starts again: FlatStorage::new reads the flat head and the
\* deltas from disk, and a snapshot whose hash was stored is opened again.
FlatRestart ==
  /\ flat' = [flat_head |-> disk.flat_head, deltas |-> disk.deltas, move_head_enabled |-> TRUE]
  /\ want' = Nil
  /\ worker' = [pc |-> "idle", processing |-> {}, target |-> Nil, path |-> <<>>]
  /\ snapshots' = [queue |-> <<>>, pc |-> "idle", request |-> Nil, snapshot |-> snapshots.snapshot]
  /\ UNCHANGED <<hot, disk>>

---------------------------------------------------------------------------
(* The state snapshot actor *)

\* handle_create_snapshot_request: a request that a later one has replaced is skipped;
\* otherwise the snapshot there is gets deleted first.
HandleCreateSnapshotRequest ==
  LET block == Head(snapshots.queue) IN
  /\ snapshots.pc = "idle"
  /\ snapshots.queue # <<>>
  /\ snapshots' =
       IF want \notin {Nil, PrevBlock[block]}
       THEN [snapshots EXCEPT !.queue = Tail(@)]
       ELSE [queue |-> Tail(snapshots.queue), pc |-> "create", request |-> block, snapshot |-> Nil]
  /\ UNCHANGED <<hot, disk, flat, want, worker>>

\* create_state_snapshot: a checkpoint of the database, whose flat head is moved to the
\* block before the shard's chunk, where there is a way to it.
CreateStateSnapshot ==
  LET fs     == [flat_head |-> disk.flat_head, deltas |-> disk.deltas]
      target == ChunkPrevHash[snapshots.request]
      copy   == IF Supported(fs, target) THEN MovedAlong(disk, BlocksToHead(fs, target)) ELSE disk IN
  /\ snapshots.pc = "create"
  /\ snapshots' = [snapshots EXCEPT
       !.pc = "taken",
       !.snapshot = [of |-> snapshots.request, flat_head |-> copy.flat_head, state |-> copy.state]]
  /\ UNCHANGED <<hot, disk, flat, want, worker>>

\* snapshot_taken: under the first lock it looks whether this request is still the wanted one ...
SnapshotTaken_Mutant ==
  /\ snapshots.pc = "taken"
  /\ IF want # PrevBlock[snapshots.request]
     THEN UNCHANGED want /\ snapshots' = [snapshots EXCEPT !.pc = "idle", !.request = Nil]
     ELSE want' = Nil /\ snapshots' = [snapshots EXCEPT !.pc = "unlock"]
  /\ UNCHANGED <<hot, disk, flat, worker>>

SnapshotTaken ==
  /\ snapshots.pc = "taken"
  /\ IF want \notin {Nil, PrevBlock[snapshots.request]}
     THEN UNCHANGED want /\ snapshots' = [snapshots EXCEPT !.pc = "idle", !.request = Nil]
     ELSE want' = Nil /\ snapshots' = [snapshots EXCEPT !.pc = "unlock"]
  /\ UNCHANGED <<hot, disk, flat, worker>>

\* ... and under the second one it lets the flat head move again.
UnlockFlatHead ==
  /\ snapshots.pc = "unlock"
  /\ worker.pc # "move"
  /\ flat' = [flat EXCEPT !.move_head_enabled = TRUE]
  /\ snapshots' = [snapshots EXCEPT !.pc = "idle", !.request = Nil]
  /\ UNCHANGED <<hot, disk, want, worker>>

FlatNext ==
  \/ \E b \in FlatBlocks : StartProcessing(b) \/ PostprocessBlock(b) \/ PostprocessFails(b)
  \/ LockFlatHead \/ UpdateFlatHead \/ MoveFlatHead \/ FlatRestart
  \/ HandleCreateSnapshotRequest \/ CreateStateSnapshot \/ SnapshotTaken \/ UnlockFlatHead

FlatSpec == FlatInit /\ [][FlatNext]_flatVars

---------------------------------------------------------------------------
(* Properties *)

ReadsRight(fs) ==
  \A b \in hot.blocks :
    fs.flat_head \in Chain[b] =>
      /\ Supported(fs, b)
      /\ \A k \in Keys : GetValue(fs, b, k) = StateAfterBlock[b][k]

\* Every stored block that extends the flat head can be read, and reads as the state the
\* chain defines: by the threads that apply chunks, whenever the lock is free, and by a node
\* that restarts now, whatever transaction the flat head's move was at.  A move always finds
\* the deltas it needs, and a snapshot holds the state after its flat head.
FlatReadsAreRight ==
  /\ worker.pc # "panic"
  /\ worker.pc # "move" => ReadsRight(flat)
  /\ ReadsRight([flat_head |-> disk.flat_head, deltas |-> disk.deltas])
  /\ snapshots.snapshot # Nil =>
       snapshots.snapshot.state = StateAfterBlock[snapshots.snapshot.flat_head]

\* want_snapshot and snapshot_taken pair up: once the actor has no request to handle, the
\* flat head may move again, whatever forks, repeated requests and restarts there were.
FlatHeadGetsUnlocked ==
  snapshots.pc = "idle" /\ snapshots.queue = <<>> /\ worker.pc # "lock" => flat.move_head_enabled

\* While a snapshot is wanted the flat head stays where the snapshot can still move it to
\* the block before the shard's chunk, so every snapshot made has that flat head.
SnapshotsReachTheirHead ==
  snapshots.snapshot # Nil =>
    snapshots.snapshot.flat_head = ChunkPrevHash[snapshots.snapshot.of]
=============================================================================
