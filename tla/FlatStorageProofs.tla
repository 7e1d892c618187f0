------------------------- MODULE FlatStorageProofs -------------------------
(***************************************************************************)
(* The flat head does not stay stopped: want_snapshot and snapshot_taken   *)
(* pair up in every interleaving of the client and the snapshot actor, for *)
(* any tree of blocks, any finality and chunks, any sync hashes and any    *)
(* bound on the requests.  Nothing is assumed of the constants.            *)
(*                                                                         *)
(* A request is "current" when snapshot_taken will not take it for one     *)
(* that a later one has replaced.  While the flat head is stopped, the     *)
(* last of the requests is current: the client is about to send one, or    *)
(* the last one in the queue is, or the queue is empty and the one being   *)
(* handled is.  Earlier requests may be skipped.                           *)
(***************************************************************************)
EXTENDS FlatStorage, SequenceTheorems, TLAPS

Heads == FlatBlocks \cup {Start}

Current(block) == want \in {Nil, PrevBlock[block]}

\* The shape of the records the proof takes apart.
FlatShape ==
  /\ DOMAIN flat = {"flat_head", "deltas", "move_head_enabled"}
  /\ DOMAIN worker = {"pc", "processing", "target", "path"}
  /\ DOMAIN snapshots = {"queue", "pc", "request", "snapshot"}
  /\ snapshots.queue \in Seq(Heads)
  /\ snapshots.pc \in {"idle", "create", "taken", "unlock"}
  /\ hot.head \in Heads

LastRequestIsCurrent ==
  IF worker.pc = "lock" THEN Current(hot.head)
  ELSE IF snapshots.queue # <<>> THEN Current(Last(snapshots.queue))
  ELSE snapshots.pc \in {"create", "taken"} => Current(snapshots.request)

FlatHeadInv == FlatShape /\ LastRequestIsCurrent /\ FlatHeadGetsUnlocked

\* The last request of a queue of several stays the last one when the first is taken.
LEMMA LastOfTail ==
  ASSUME NEW S, NEW q \in Seq(S), q # <<>>, Tail(q) # <<>>
  PROVE  Last(Tail(q)) = Last(q)
BY DEF Last

\* A queue with one request has it first and last.
LEMMA LastOfSingleton ==
  ASSUME NEW S, NEW q \in Seq(S), q # <<>>, Tail(q) = <<>>
  PROVE  Last(q) = Head(q)
<1>1. Len(Tail(q)) = 0
  BY EmptySeq
<1>2. Len(q) = 1
  BY <1>1, HeadTailProperties, LenProperties
<1> QED
  BY <1>2 DEF Last

LEMMA FlatHeadInit == FlatInit => FlatHeadInv
BY DEF FlatInit, FlatHeadInv, FlatShape, LastRequestIsCurrent, FlatHeadGetsUnlocked, Heads

\* A step of the client or of the snapshot actor.
LEMMA FlatHeadStep == FlatHeadInv /\ [FlatNext]_flatVars => FlatHeadInv'
<1> SUFFICES ASSUME FlatHeadInv, [FlatNext]_flatVars
             PROVE  FlatHeadInv'
  OBVIOUS
<1> USE DEF FlatHeadInv, FlatShape, LastRequestIsCurrent, Current, FlatHeadGetsUnlocked
<1>1. ASSUME NEW b \in FlatBlocks, StartProcessing(b)
      PROVE  FlatHeadInv'
  BY <1>1 DEF StartProcessing
<1>2. CASE LockFlatHead
  <2> DEFINE q == snapshots.queue
  <2>1. Append(q, hot.head) \in Seq(Heads) /\ Append(q, hot.head) # <<>>
    OBVIOUS
  <2>2. Last(Append(q, hot.head)) = hot.head
    BY DEF Last
  <2> QED
    BY <1>2, <2>1, <2>2 DEF LockFlatHead
<1>3. ASSUME NEW b \in FlatBlocks, PostprocessBlock(b)
      PROVE  FlatHeadInv'
  BY <1>3 DEF PostprocessBlock, Heads
<1>4. ASSUME NEW b \in FlatBlocks, PostprocessFails(b)
      PROVE  FlatHeadInv'
  BY <1>4 DEF PostprocessFails
<1>5. CASE UpdateFlatHead
  BY <1>5 DEF UpdateFlatHead
<1>6. CASE MoveFlatHead
  BY <1>6 DEF MoveFlatHead
<1>7. CASE FlatRestart
  BY <1>7 DEF FlatRestart
<1>8. CASE HandleCreateSnapshotRequest
  \* A request is skipped only while a later one is in the queue or about to be.
  <2> DEFINE q == snapshots.queue
  <2>1. q # <<>> /\ Tail(q) \in Seq(Heads)
    BY <1>8 DEF HandleCreateSnapshotRequest
  <2>2. CASE Tail(q) = <<>>
    <3>1. Last(q) = Head(q)
      BY <2>1, <2>2, LastOfSingleton
    <3> QED
      BY <1>8, <2>1, <2>2, <3>1 DEF HandleCreateSnapshotRequest
  <2>3. CASE Tail(q) # <<>>
    <3>1. Last(Tail(q)) = Last(q)
      BY <2>1, <2>3, LastOfTail
    <3> QED
      BY <1>8, <2>1, <2>3, <3>1 DEF HandleCreateSnapshotRequest
  <2> QED
    BY <2>2, <2>3
<1>9. CASE CreateStateSnapshot
  BY <1>9 DEF CreateStateSnapshot
<1>10. CASE SnapshotTaken
  BY <1>10 DEF SnapshotTaken
<1>11. CASE UnlockFlatHead
  BY <1>11 DEF UnlockFlatHead
<1>12. CASE UNCHANGED flatVars
  BY <1>12 DEF flatVars
<1> QED
  BY <1>1, <1>2, <1>3, <1>4, <1>5, <1>6, <1>7, <1>8, <1>9, <1>10, <1>11, <1>12 DEF FlatNext

\* FlatHeadGetsUnlocked: whenever no request for a snapshot is in the queue, being handled or
\* about to be sent, the flat head may move, although snapshot_taken ignores the requests that
\* a later want_snapshot has replaced.
THEOREM FlatHeadUnlocked == FlatSpec => []FlatHeadGetsUnlocked
<1>1. FlatHeadInv => FlatHeadGetsUnlocked
  BY DEF FlatHeadInv
<1> QED
  BY <1>1, FlatHeadInit, FlatHeadStep, PTL DEF FlatSpec

=============================================================================
