--------------------------- MODULE ClientApprovals ---------------------------
(***************************************************************************)
(* How the client of a block producer feeds the approval trackers and uses *)
(* them: approvals whose parent is not known yet wait in pending_approvals *)
(* (an LRU cache by ApprovalInner, one approval per account), an accepted  *)
(* block moves the tip and releases what waited for it, and a block is     *)
(* produced on the tip from the witness of a ready tracker.                *)
(*                                                                         *)
(* Signatures are valid and accounts belong to the current or the next     *)
(* epoch: other approvals are dropped without effect.                      *)
(***************************************************************************)
EXTENDS ApprovalTrackers, Sequences

CONSTANTS
  Parent,            \* [Blocks -> Blocks]
  Own,               \* SUBSET Blocks, the blocks this node may produce
  Requestable,       \* SUBSET Blocks, the others that it may come to ask its peers for
  Mine,              \* [Blocks -> SUBSET Targets], heights this node produces on the block
  PendingCapacity,   \* num_block_producer_seats
  ChunkWait          \* the delay before a block is produced without all chunks

VARIABLES
  provenance,    \* provenance[b]: how b came, for a block with a record in the chain store
                 \* and the epoch manager ("NONE": unrequested, "SYNC": requested,
                 \* "PRODUCED": made here); None for a block without one
  head,          \* the head of the chain store
  uncalled,      \* accepted blocks whose on_block_accepted is still to run, in order
  calling,       \* on_block_accepted has run for some block of the batch
  pending,       \* pending_approvals, the least recently used entry first
  made,          \* made[b]: the witness b was produced with, None if it was not
  latest_known

clientVars == <<ds, now, provenance, head, uncalled, calling, pending, made, latest_known>>

ASSUME ClientConstants ==
  /\ Parent \in [Blocks -> Blocks]
  /\ Own \subseteq Blocks \ {Genesis} /\ Requestable \subseteq Blocks \ Own
  /\ Mine \in [Blocks -> SUBSET Targets]
  /\ PendingCapacity \in Nat \ {0} /\ ChunkWait \in Nat

-----------------------------------------------------------------------------
Accepted == {b \in Blocks : provenance[b] # None}

ClientInit ==
  /\ Init
  /\ provenance = [b \in Blocks |-> IF b = Genesis THEN "NONE" ELSE None]
  /\ head = Genesis
  /\ uncalled = <<>>
  /\ calling = FALSE
  /\ pending = <<>>
  /\ made = [b \in Blocks |-> None]
  /\ latest_known = BlockHeight[Genesis]

\* The approvals of an entry as a function: 0 where the account has none.
NoApprovals == [a \in Accounts |-> 0]

EntryFor(inner) ==
  IF \E i \in DOMAIN pending : pending[i].inner = inner
    THEN pending[CHOOSE i \in DOMAIN pending : pending[i].inner = inner].from
    ELSE NoApprovals

Without(inners) == SelectSeq(pending, LAMBDA e : e.inner \notin inners)

AddPending(a) ==
  LET entry == [inner |-> a.inner, from |-> [EntryFor(a.inner) EXCEPT ![a.account] = a.target]]
      all == Append(Without({a.inner}), entry)
  IN  IF Len(all) > PendingCapacity THEN Tail(all) ELSE all

(***************************************************************************)
(* collect_block_approval: the parent is the endorsed block, or any block  *)
(* at the skipped-from height.  The client's handlers run one at a time.   *)
(***************************************************************************)
Idle == uncalled = <<>>

Collected(d, a, parent) ==
  IF a.target \in Mine[parent] THEN OnApprovalMessage(d, a, parent) ELSE d

\* The approvals somebody can have signed.
Signable == {a \in Approvals : WellFormed(a)}

CollectBlockApproval ==
  /\ Idle
  /\ \E a \in Signable :
       LET parents == ParentsOf(a.inner) \cap Accepted IN
       \/ /\ parents = {}
          /\ pending' = AddPending(a)
          /\ UNCHANGED ds
       \/ \E parent \in parents :
            /\ ds' = Collected(ds, a, parent)
            /\ UNCHANGED pending
  /\ UNCHANGED <<now, provenance, head, uncalled, calling, made, latest_known>>

Released_Mutant(b) == {Endorsement(b)}

\* The entries that waited for b.
Released(b) ==
  IF provenance[b] = "NONE" THEN {Endorsement(b), Skip(BlockHeight[b])} ELSE {}

Recollected(b) ==
  {a \in Approvals : a.inner \in Released(b) /\ EntryFor(a.inner)[a.account] = a.target}

\* A block that was requested has provenance SYNC (receive_block_impl).
Provenances(b) ==
  IF b \in Own THEN {"PRODUCED"} ELSE {"NONE"} \cup (IF b \in Requestable THEN {"SYNC"} ELSE {})

(***************************************************************************)
(* postprocess_ready_blocks: the chain accepts a batch of blocks, each     *)
(* becoming the head if it is higher; then on_block_accepted runs for each *)
(* of them, moves the tip to the head and collects again what waited.      *)
(***************************************************************************)
AcceptBlock ==
  /\ ~calling
  /\ \E b \in Blocks \ Accepted :
       /\ Parent[b] \in Accepted
       /\ b \in Own => made[b] # None
       /\ \E how \in Provenances(b) : provenance' = [provenance EXCEPT ![b] = how]
       /\ uncalled' = Append(uncalled, b)
       /\ head' = IF BlockHeight[b] > BlockHeight[head] THEN b ELSE head
       /\ latest_known' = Higher(BlockHeight[head'], latest_known)
  /\ UNCHANGED <<ds, now, calling, pending, made>>

CheckAndUpdateDoomslugTip(d) == IF head # d.tip THEN SetTip(d, head) ELSE d

OnBlockAccepted ==
  /\ ~Idle
  /\ LET b == Head(uncalled)
         again == Recollected(b)
     IN  /\ pending' = Without(Released(b))
         /\ \E pick \in [again -> {c \in Accepted : BlockHeight[c] = BlockHeight[b]}] :
              /\ \A a \in again : pick[a] \in ParentsOf(a.inner)
              /\ ds' = FoldSet(LAMBDA a, d : Collected(d, a, pick[a]),
                               CheckAndUpdateDoomslugTip(ds), again)
  /\ uncalled' = Tail(uncalled)
  /\ calling' = (Tail(uncalled) # <<>>)
  /\ UNCHANGED <<now, provenance, head, made, latest_known>>

HeightsToProduce_Mutant == latest_known .. ds.largest_threshold

\* The heights handle_block_production goes through.
HeightsToProduce == latest_known + 1 .. ds.largest_threshold

Waited(target) == now > TrackerFor(ds, target).since + ChunkWait

ProduceBlock ==
  \E b \in Blocks \ {Genesis} :
    LET h == BlockHeight[b] IN
    /\ Idle
    /\ b \in Own
    /\ Parent[b] = ds.tip
    /\ h \in Mine[ds.tip] \cap HeightsToProduce
    /\ \E chunks_ready \in BOOLEAN : ReadyToProduceBlock(ds, h, chunks_ready, Waited(h))
    /\ made' = [made EXCEPT ![b] = TrackerFor(ds, h).witness]
    /\ latest_known' = h
    /\ UNCHANGED <<ds, now, provenance, head, uncalled, calling, pending>>

ClientTick == Tick /\ UNCHANGED <<provenance, head, uncalled, calling, pending, made, latest_known>>

ClientNext == CollectBlockApproval \/ AcceptBlock \/ OnBlockAccepted \/ ProduceBlock \/ ClientTick

ClientSpec == ClientInit /\ [][ClientNext]_clientVars

-----------------------------------------------------------------------------
\* can_approved_block_be_produced, as every node checks a child of `parent`.
CanApprovedBlockBeProduced(parent, approvers) ==
  LET threshold1 == (StakeOf(StakeThisEpoch[parent], Approvers[parent]) * 2) \div 3
      threshold2 == (StakeOf(StakeNextEpoch[parent], Approvers[parent]) * 2) \div 3
  IN  /\ StakeOf(StakeThisEpoch[parent], approvers) > threshold1 \/ threshold1 = 0
      /\ StakeOf(StakeNextEpoch[parent], approvers) > threshold2 \/ threshold2 = 0

Produced == {b \in Blocks : made[b] # None}

\* A block this node produces passes the approval check of every other node,
\* although the trackers' readiness test is a different piece of code over
\* running sums and the witness went through withdrawals and re-collection.
ProducedBlocksAreApproved ==
  \A b \in Produced :
    CanApprovedBlockBeProduced(Parent[b], made[b] \cap Approvers[Parent[b]])

\* debug_assert_eq!(approvals_map.len(), 0) of produce_block_on: every witness is
\* an approver of the block's parent.
WitnessesAreApprovers ==
  \A b \in Produced : made[b] \subseteq Approvers[Parent[b]]

\* "Approvals for which we do not have the block yet": nothing waits for a block that came
\* unrequested once the batch that brought it has been handled, also when the batch had
\* other blocks of its height.  What waits for a requested block or one made here stays.
PendingLacksBlock ==
  Idle => \A i \in DOMAIN pending :
            \A b \in ParentsOf(pending[i].inner) \cap Accepted : provenance[b] # "NONE"

\* This node produces one block per height, and none at or below its head.
ProducedHeightsAreFresh ==
  [][\A b \in Blocks : made'[b] # made[b] =>
       /\ made[b] = None
       /\ BlockHeight[b] > BlockHeight[ds.tip]
       /\ \A c \in Produced : BlockHeight[c] # BlockHeight[b]]_clientVars

=============================================================================
