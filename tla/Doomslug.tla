------------------------------ MODULE Doomslug ------------------------------
(***************************************************************************)
(* The Doomslug consensus and finality gadget as a network of validators   *)
(* runs it: approvals (endorsements and skips) issued from the timer, the  *)
(* largest approved target height saved before anything is sent, blocks    *)
(* that need approvals of more than two thirds of the stake, the fork      *)
(* choice (highest head), the final head, and crashes and restarts.        *)
(*                                                                         *)
(* Time is abstracted: whenever the timer handler runs, the endorsement    *)
(* delay may or may not have passed and any number of skip delays up to    *)
(* MAX_TIMER_ITERS may have passed.  DoomslugTimer models the clock.       *)
(* The approval trackers of a block producer are abstracted to "some set   *)
(* of accounts that did send the approval"; ApprovalTrackers models them.  *)
(* One epoch: the validators and their stakes are fixed.                   *)
(***************************************************************************)
EXTENDS Integers, Sequences, FiniteSetsExt

CONSTANTS
  Validators,        \* accounts of the epoch's block producers
  Faulty,            \* the ones that may sign and produce anything
  StakeThisEpoch,    \* [Validators -> Nat], ApprovalStake.stake_this_epoch
  StakeNextEpoch,    \* [Validators -> Nat], ApprovalStake.stake_next_epoch
  Producer,          \* [Heights -> Validators], EpochManager::get_block_producer
  Tags,              \* Tags[h]: contents by which two blocks at height h and one parent differ
  GenesisHeight,
  MaxHeight,         \* bound: no block or approval above this height
  Unreliable,        \* bound: the validators that may crash or fail to write
  MAX_TIMER_ITERS,
  NUM_PARENTS_TO_CHECK_FINALITY

Honest == Validators \ Faulty

Heights == GenesisHeight .. MaxHeight

(***************************************************************************)
(* Blocks.  A hash identifies the whole chain below it, so a block is the  *)
(* sequence of the headers from genesis up to its own, and a pointer to an *)
(* ancestor (last_ds_final_block, last_final_block) is that ancestor's     *)
(* position in the sequence; 0 and <<>> stand for CryptoHash::default().   *)
(***************************************************************************)
NoBlock == <<>>

GenesisHeader ==
  [height |-> GenesisHeight, tag |-> 0, last_ds_final |-> 0, last_final |-> 0]

Genesis == <<GenesisHeader>>

Header(b) == b[Len(b)]

Height(b) == Header(b).height

Prefix(b, n) == SubSeq(b, 1, n)

Prev(b) == Prefix(b, Len(b) - 1)

IsAncestorOrSelf(a, b) == Len(a) <= Len(b) /\ \A i \in 1..Len(a) : a[i] = b[i]

LastDsFinal(prev, height) ==
  IF height = Height(prev) + 1 THEN Len(prev) ELSE Header(prev).last_ds_final

LastFinal(prev, height) ==
  IF height = Height(prev) + 1 /\ Header(prev).last_ds_final = Len(prev) - 1
    THEN Len(prev) - 1
    ELSE Header(prev).last_final

MakeBlock(prev, height, tag) ==
  Append(prev, [height |-> height, tag |-> tag,
                last_ds_final |-> LastDsFinal(prev, height),
                last_final |-> LastFinal(prev, height)])

(***************************************************************************)
(* Approvals: what a validator signs for a block at `target` on `parent`.  *)
(***************************************************************************)
Endorsement(parent, target) ==
  [type |-> "Endorsement", hash |-> parent, height |-> 0, target |-> target]

Skip(parent_height, target) ==
  [type |-> "Skip", hash |-> NoBlock, height |-> parent_height, target |-> target]

Approval(parent, target) ==
  IF target = Height(parent) + 1 THEN Endorsement(parent, target)
                                 ELSE Skip(Height(parent), target)

(***************************************************************************)
(* The stake that must have approved a block.                              *)
(***************************************************************************)
StakeOf(stake, S) == MapThenSumSet(LAMBDA v : stake[v], S)

Threshold1 == (StakeOf(StakeThisEpoch, Validators) * 2) \div 3

Threshold2 == (StakeOf(StakeNextEpoch, Validators) * 2) \div 3

CanApprovedBlockBeProduced(approvers) ==
  /\ StakeOf(StakeThisEpoch, approvers) > Threshold1 \/ Threshold1 = 0
  /\ StakeOf(StakeNextEpoch, approvers) > Threshold2 \/ Threshold2 = 0

ASSUME ConstantsAssumption ==
  /\ Faulty \subseteq Validators
  /\ Unreliable \subseteq Honest
  /\ GenesisHeight \in Nat /\ MaxHeight \in Nat /\ GenesisHeight <= MaxHeight
  /\ Producer \in [Heights -> Validators]
  /\ Tags \in [Heights -> SUBSET Nat]
  /\ MAX_TIMER_ITERS \in Nat /\ NUM_PARENTS_TO_CHECK_FINALITY \in Nat

\* What "less than a third of the stake is faulty" gives Doomslug.
ASSUME QuorumAssumption ==
  \A Q1, Q2 \in SUBSET Validators :
    CanApprovedBlockBeProduced(Q1) /\ CanApprovedBlockBeProduced(Q2)
      => (Q1 \cap Q2) \ Faulty # {}

-----------------------------------------------------------------------------
VARIABLES
  blocks,        \* every block that was produced with enough approvals
  sent,          \* sent[v]: the approvals v has sent
  known,         \* known[v]: the blocks in v's store               (on disk)
  head,          \* head[v]: ChainStore::head                       (on disk)
  final_head,    \* final_head[v]: ChainStore::final_head           (on disk)
  latest_known,  \* latest_known[v]: LATEST_KNOWN height            (on disk)
  saved_target,  \* saved_target[v]: LARGEST_TARGET_HEIGHT          (on disk)
  ds             \* ds[v]: the Doomslug instance                    (in memory)

vars == <<blocks, sent, known, head, final_head, latest_known, saved_target, ds>>

store == <<known, head, final_head>>

-----------------------------------------------------------------------------
(***************************************************************************)
(* The Doomslug instance of one node.                                      *)
(***************************************************************************)
NewDoomslug(largest_target) ==
  [tip |-> NoBlock, timer_height |-> 0, largest_target |-> largest_target,
   endorsement_pending |-> FALSE]

SetTip(d, block) ==
  [d EXCEPT !.tip = block, !.timer_height = Height(block) + 1,
            !.endorsement_pending = TRUE]

CheckAndUpdateDoomslugTip(d, block) == IF d.tip # block THEN SetTip(d, block) ELSE d

(***************************************************************************)
(* process_timer when the endorsement delay has passed iff `endorse` holds *)
(* and `skips` skip delays have: the approvals it returns and the state it *)
(* leaves.  A skip delay is at least twice the endorsement delay, so the   *)
(* skips wait for a pending endorsement.                                   *)
(***************************************************************************)
TimerFires(d, endorse, skips) ==
  /\ endorse => d.endorsement_pending
  /\ skips > 0 => (endorse \/ ~d.endorsement_pending)
  /\ d.timer_height + skips <= MaxHeight

Endorses_Mutant(d, endorse) == endorse

Endorses(d, endorse) == endorse /\ Height(d.tip) >= d.largest_target

ApprovalTargets(d, endorse, skips) ==
  (IF Endorses(d, endorse) THEN {Height(d.tip) + 1} ELSE {})
    \cup (d.timer_height + 1 .. d.timer_height + skips)

TimerApprovals(d, endorse, skips) ==
  {Approval(d.tip, t) : t \in ApprovalTargets(d, endorse, skips)}

LargestTarget_Mutant(d, endorse, skips) ==
  IF Endorses(d, endorse) THEN Height(d.tip) + 1 ELSE d.largest_target

LargestTarget(d, endorse, skips) ==
  LET endorsed == IF Endorses(d, endorse) THEN Height(d.tip) + 1 ELSE d.largest_target
  IN  IF skips > 0 /\ d.timer_height + skips > endorsed
        THEN d.timer_height + skips ELSE endorsed

ProcessTimer(d, endorse, skips) ==
  [d EXCEPT !.largest_target = LargestTarget(d, endorse, skips),
            !.endorsement_pending = @ /\ ~endorse,
            !.timer_height = @ + skips]

-----------------------------------------------------------------------------
Init ==
  /\ blocks = {Genesis}
  /\ sent = [v \in Honest |-> {}]
  /\ known = [v \in Honest |-> {Genesis}]
  /\ head = [v \in Honest |-> Genesis]
  /\ final_head = [v \in Honest |-> Genesis]
  /\ latest_known = [v \in Honest |-> GenesisHeight]
  /\ saved_target = [v \in Honest |-> 0]
  /\ ds = [v \in Honest |-> NewDoomslug(0)]

(***************************************************************************)
(* ClientActor::try_doomslug_timer.  The largest target height is saved    *)
(* before the approvals are sent.                                          *)
(***************************************************************************)
TryDoomslugTimer(v) ==
  \E endorse \in BOOLEAN, skips \in 0..MAX_TIMER_ITERS :
    LET d == CheckAndUpdateDoomslugTip(ds[v], head[v]) IN
    /\ TimerFires(d, endorse, skips)
    /\ ds' = [ds EXCEPT ![v] = ProcessTimer(d, endorse, skips)]
    /\ saved_target' = [saved_target EXCEPT ![v] = ds'[v].largest_target]
    /\ sent' = [sent EXCEPT ![v] = @ \cup TimerApprovals(d, endorse, skips)]
    /\ UNCHANGED <<blocks, store, latest_known>>

\* The commit of the largest target height fails: no approval is sent.
TryDoomslugTimerCommitFails(v) ==
  \E endorse \in BOOLEAN, skips \in 0..MAX_TIMER_ITERS :
    LET d == CheckAndUpdateDoomslugTip(ds[v], head[v]) IN
    /\ TimerFires(d, endorse, skips)
    /\ ds' = [ds EXCEPT ![v] = ProcessTimer(d, endorse, skips)]
    /\ UNCHANGED <<blocks, sent, store, latest_known, saved_target>>

CrashWhileSending_Mutant(v) ==
  \E endorse \in BOOLEAN, skips \in 0..MAX_TIMER_ITERS, last \in 0..MaxHeight :
    LET d == CheckAndUpdateDoomslugTip(ds[v], head[v]) IN
    /\ TimerFires(d, endorse, skips)
    /\ sent' = [sent EXCEPT ![v] =
                  @ \cup {a \in TimerApprovals(d, endorse, skips) : a.target <= last}]
    /\ ds' = [ds EXCEPT ![v] = NewDoomslug(saved_target[v])]
    /\ UNCHANGED <<blocks, store, latest_known, saved_target>>

\* The node crashes after the commit, having sent the approvals up to target
\* height `last` (process_timer returns them in the order of their targets).
CrashWhileSending(v) ==
  \E endorse \in BOOLEAN, skips \in 0..MAX_TIMER_ITERS, last \in 0..MaxHeight :
    LET d == CheckAndUpdateDoomslugTip(ds[v], head[v]) IN
    /\ TimerFires(d, endorse, skips)
    /\ saved_target' = [saved_target EXCEPT ![v] = LargestTarget(d, endorse, skips)]
    /\ sent' = [sent EXCEPT ![v] =
                  @ \cup {a \in TimerApprovals(d, endorse, skips) : a.target <= last}]
    /\ ds' = [ds EXCEPT ![v] = NewDoomslug(saved_target'[v])]
    /\ UNCHANGED <<blocks, store, latest_known>>

\* The node stops in any other place and comes back: Client::new.
Crash(v) ==
  /\ ds' = [ds EXCEPT ![v] = NewDoomslug(saved_target[v])]
  /\ UNCHANGED <<blocks, sent, store, latest_known, saved_target>>

-----------------------------------------------------------------------------
\* The approvers whose approval of a block at `height` on `prev` exists.
Signed(prev, height) ==
  Faulty \cup {v \in Honest : Approval(prev, height) \in sent[v]}

\* More approvals never hurt, so the witness may as well be all of them.
EnoughApprovals(prev, height) == CanApprovedBlockBeProduced(Signed(prev, height))

ProduceBlock_Mutant(v) ==
  \E height \in Heights : \E tag \in Tags[height] :
    /\ Producer[height] = v
    /\ height > Height(head[v])
    /\ EnoughApprovals(head[v], height)
    /\ blocks' = blocks \cup {MakeBlock(head[v], height, tag)}
    /\ ds' = [ds EXCEPT ![v] = CheckAndUpdateDoomslugTip(@, head[v])]
    /\ UNCHANGED <<sent, store, latest_known, saved_target>>

(***************************************************************************)
(* handle_block_production and produce_block: on the head, for a height    *)
(* above the latest known one, which is saved before the block goes out.   *)
(***************************************************************************)
ProduceBlock(v) ==
  \E height \in Heights : \E tag \in Tags[height] :
    /\ Producer[height] = v
    /\ height > latest_known[v]
    /\ EnoughApprovals(head[v], height)
    /\ latest_known' = [latest_known EXCEPT ![v] = height]
    /\ blocks' = blocks \cup {MakeBlock(head[v], height, tag)}
    /\ ds' = [ds EXCEPT ![v] = CheckAndUpdateDoomslugTip(@, head[v])]
    /\ UNCHANGED <<sent, store, saved_target>>

\* The producer crashes after it saved the height and before it sent the block.
CrashBeforeBlockSent(v) ==
  \E height \in Heights :
    /\ Producer[height] = v
    /\ height > latest_known[v]
    /\ EnoughApprovals(head[v], height)
    /\ latest_known' = [latest_known EXCEPT ![v] = height]
    /\ ds' = [ds EXCEPT ![v] = NewDoomslug(saved_target[v])]
    /\ UNCHANGED <<blocks, sent, store, saved_target>>

(***************************************************************************)
(* A faulty producer extends any block, as often as it likes; the header   *)
(* must pass validate_header (its approvals and its finality fields).      *)
(***************************************************************************)
FaultyProduceBlock ==
  \E prev \in blocks, height \in Heights : \E tag \in Tags[height] :
    /\ Producer[height] \in Faulty
    /\ EnoughApprovals(prev, height)
    /\ blocks' = blocks \cup {MakeBlock(prev, height, tag)}
    /\ UNCHANGED <<sent, store, latest_known, saved_target, ds>>

-----------------------------------------------------------------------------
\* check_if_finalizable: walking up from the block (the block itself is step 0)
\* falls below the final head's height without having met the final head.
CannotBeFinalized(v, block) ==
  \E i \in 0..NUM_PARENTS_TO_CHECK_FINALITY - 1 :
    /\ i < Len(block)
    /\ block[Len(block) - i].height < Height(final_head[v])
    /\ \A j \in 0..i - 1 : Prefix(block, Len(block) - j) # final_head[v]

UpdatedFinalHead_Mutant(v, block) ==
  LET last_final == Header(block).last_final IN
  IF last_final > 0 THEN Prefix(block, last_final) ELSE final_head[v]

UpdatedFinalHead(v, block) ==
  LET last_final == Header(block).last_final IN
  IF last_final > 0 /\ Height(Prefix(block, last_final)) > Height(final_head[v])
    THEN Prefix(block, last_final)
    ELSE final_head[v]

UpdatedHead(v, block) == IF Height(block) > Height(head[v]) THEN block ELSE head[v]

TrySaveLatestKnown_Mutant(v, height) == latest_known[v]

TrySaveLatestKnown(v, height) ==
  IF height > latest_known[v] THEN height ELSE latest_known[v]

(***************************************************************************)
(* A block of the network is processed: its parent is in the store, it can *)
(* be finalized, it is stored, final head and head follow, and             *)
(* on_block_accepted moves the Doomslug tip to the head.                   *)
(***************************************************************************)
AcceptBlock(v) ==
  \E block \in blocks \ known[v] :
    /\ Prev(block) \in known[v]
    /\ ~CannotBeFinalized(v, block)
    /\ known' = [known EXCEPT ![v] = @ \cup {block}]
    /\ final_head' = [final_head EXCEPT ![v] = UpdatedFinalHead(v, block)]
    /\ head' = [head EXCEPT ![v] = UpdatedHead(v, block)]
    /\ latest_known' = [latest_known EXCEPT ![v] =
                          TrySaveLatestKnown(v, Height(head'[v]))]
    /\ ds' = [ds EXCEPT ![v] = CheckAndUpdateDoomslugTip(@, head'[v])]
    /\ UNCHANGED <<blocks, sent, saved_target>>

\* The node crashes once latest_known is written (it is not part of the
\* block's transaction) and before the transaction of the block is.
CrashBeforeBlockStored(v) ==
  \E block \in blocks \ known[v] :
    /\ Prev(block) \in known[v]
    /\ ~CannotBeFinalized(v, block)
    /\ Height(block) > Height(head[v])
    /\ Height(block) > latest_known[v]
    /\ latest_known' = [latest_known EXCEPT ![v] = Height(block)]
    /\ ds' = [ds EXCEPT ![v] = NewDoomslug(saved_target[v])]
    /\ UNCHANGED <<blocks, sent, store, saved_target>>

-----------------------------------------------------------------------------
Next ==
  \/ \E v \in Honest :
       \/ TryDoomslugTimer(v)
       \/ ProduceBlock(v)
       \/ AcceptBlock(v)
  \/ \E v \in Unreliable :
       \/ TryDoomslugTimerCommitFails(v)
       \/ CrashWhileSending(v)
       \/ Crash(v)
       \/ CrashBeforeBlockSent(v)
       \/ CrashBeforeBlockStored(v)
  \/ FaultyProduceBlock

Spec == Init /\ [][Next]_vars

-----------------------------------------------------------------------------
Headers ==
  [height : Heights, tag : Nat, last_ds_final : Nat, last_final : Nat]

Approvals ==
  [type : {"Endorsement", "Skip"}, hash : blocks \cup {NoBlock},
   height : Nat, target : Nat]

DoomslugStates ==
  [tip : blocks \cup {NoBlock}, timer_height : Nat, largest_target : Nat,
   endorsement_pending : BOOLEAN]

\* The state has the shape the code gives it; every block a node holds, points
\* at or builds on is one of the produced blocks.
TypeOK ==
  /\ blocks \subseteq Seq(Headers)
  /\ sent \in [Honest -> SUBSET Approvals]
  /\ known \in [Honest -> SUBSET blocks]
  /\ head \in [Honest -> blocks]
  /\ final_head \in [Honest -> blocks]
  /\ latest_known \in [Honest -> Nat]
  /\ saved_target \in [Honest -> Nat]
  /\ ds \in [Honest -> DoomslugStates]

\* Finality is irreversible: once some block names F as its last final block,
\* every block higher than F, on any fork any producer ever makes, has F among
\* its ancestors (tests/doomslug.rs asserts it of random executions).
FinalitySafety ==
  \A b, c \in blocks :
    LET n == Header(b).last_final IN
    n > 0 /\ Height(c) > b[n].height => IsAncestorOrSelf(Prefix(b, n), c)

\* What a validator that follows process_timer may be slashed for: it endorses
\* one block per target height, and never both endorses a block at height h and
\* skips over h from below, whatever crashes came between (the comment in
\* try_doomslug_timer: "we cannot get slashed on recovery").
NoConflictingApprovals ==
  \A v \in Honest : \A a1, a2 \in sent[v] :
    a1.type = "Endorsement" =>
      /\ a2.type = "Endorsement" /\ a1.target = a2.target => a1.hash = a2.hash
      /\ a2.type = "Skip" => ~(a2.height < Height(a1.hash) /\ Height(a1.hash) < a2.target)

\* An honest producer makes one block per height, across crashes: the height is
\* saved before the block leaves produce_block_on.
OneBlockPerHonestHeight ==
  \A b, c \in blocks :
    Height(b) = Height(c) /\ Height(b) > GenesisHeight /\ Producer[Height(b)] \in Honest
      => b = c

\* The head of every node descends from the final head of every node that is not
\* higher: nobody follows a fork of what anybody considers final.
HeadsExtendFinalHeads ==
  \A v, w \in Honest :
    Height(head[v]) > Height(final_head[w]) => IsAncestorOrSelf(final_head[w], head[v])

\* The assertion of handle_block_production, also after a crash between the write
\* of latest_known and the transaction that moves the head.
LatestKnownCoversHead ==
  \A v \in Honest : Height(head[v]) <= latest_known[v]

\* A node's final head only moves to a descendant of it.
FinalHeadOnlyExtends ==
  [][\A v \in Honest : IsAncestorOrSelf(final_head[v], final_head'[v])]_vars

-----------------------------------------------------------------------------
(***************************************************************************)
(* The inductive invariant behind the properties above, by parts.          *)
(***************************************************************************)

\* The blocks form a tree in which heights grow, and every height is jumped
\* over by some edge of a chain that reaches above it.
BlocksFormATree ==
  /\ Genesis \in blocks
  /\ \A b \in blocks :
       /\ Len(b) >= 1 /\ b[1] = GenesisHeader
       /\ \A n \in 1..Len(b) : Prefix(b, n) \in blocks
       /\ \A n \in 1..Len(b) - 1 : b[n].height < b[n + 1].height
       /\ \A h \in Heights : h < Height(b) =>
            \E n \in 1..Len(b) - 1 : b[n].height <= h /\ h < b[n + 1].height

\* Every block carries approvals past the threshold; the honest ones were sent.
BlocksAreApproved ==
  \A b \in blocks : Len(b) > 1 =>
    \E Q \in SUBSET Validators :
      /\ CanApprovedBlockBeProduced(Q)
      /\ \A v \in Q \ Faulty : Approval(Prev(b), Height(b)) \in sent[v]

\* last_ds_final points below a block one higher, last_final below two such.
FinalityPointersAreEarned ==
  \A b \in blocks :
    LET l == Header(b).last_ds_final
        f == Header(b).last_final
    IN  /\ l > 0 => l < Len(b) /\ b[l + 1].height = b[l].height + 1
        /\ f > 0 => /\ f + 1 < Len(b)
                    /\ b[f + 1].height = b[f].height + 1
                    /\ b[f + 2].height = b[f].height + 2

\* What a node sent is covered by what it saved and by its head.
SentIsCovered ==
  \A v \in Honest :
    /\ saved_target[v] <= ds[v].largest_target
    /\ \A a \in sent[v] :
         /\ a.target <= saved_target[v]
         /\ a.type = "Endorsement" =>
              /\ a.hash \in blocks
              /\ a.target = Height(a.hash) + 1
              /\ Height(a.hash) <= Height(head[v])
         /\ a.type = "Skip" => a.height + 1 < a.target /\ a.height <= Height(head[v])

TipFollowsHead ==
  \A v \in Honest :
    /\ ds[v].tip \in {NoBlock, head[v]}
    /\ ds[v].tip = head[v] => ds[v].timer_height > Height(head[v])

\* Head and final head are the best of what is stored.
HeadsAreBest ==
  \A v \in Honest :
    /\ head[v] \in known[v]
    /\ \A b \in known[v] : Height(b) <= Height(head[v])
    /\ \/ final_head[v] = Genesis
       \/ \E b \in known[v] : /\ Header(b).last_final > 0
                              /\ final_head[v] = Prefix(b, Header(b).last_final)

ProducedIsKnown ==
  \A b \in blocks :
    Height(b) > GenesisHeight /\ Producer[Height(b)] \in Honest
      => Height(b) <= latest_known[Producer[Height(b)]]

IndInv ==
  /\ TypeOK
  /\ BlocksFormATree
  /\ BlocksAreApproved
  /\ FinalityPointersAreEarned
  /\ SentIsCovered
  /\ TipFollowsHead
  /\ HeadsAreBest
  /\ NoConflictingApprovals
  /\ LatestKnownCoversHead
  /\ ProducedIsKnown
  /\ OneBlockPerHonestHeight

=============================================================================
