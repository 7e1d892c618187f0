-------------------------- MODULE ApprovalTrackers --------------------------
(***************************************************************************)
(* The approval trackers of one Doomslug instance: for every target height *)
(* and every ApprovalInner one tracker with a witness per account and two  *)
(* running sums of approved stake, one approval per account and target     *)
(* height, withdrawal of the previous one, and the horizon around the tip. *)
(*                                                                         *)
(* The stakes come with every approval: they are those of the approvers of *)
(* the parent block the caller resolved the approval to, and a tracker     *)
(* keeps the stakes it was created with (`basis`).  Threshold mode is      *)
(* TwoThirds, the only one used in production.                             *)
(***************************************************************************)
EXTENDS Integers, FiniteSetsExt

CONSTANTS
  Accounts,
  Blocks,            \* parents that approvals refer to
  Genesis,
  BlockHeight,       \* [Blocks -> Nat]
  Approvers,         \* [Blocks -> SUBSET Accounts], who approves a child of the block
  StakeThisEpoch,    \* [Blocks -> [Accounts -> Nat]]
  StakeNextEpoch,    \* [Blocks -> [Accounts -> Nat]]
  Targets,           \* the heights this node produces blocks for (bounded)
  MaxTime,           \* bound: the clock stops there
  MAX_HEIGHTS_AHEAD_TO_STORE_APPROVALS,
  MAX_HEIGHTS_BEFORE_TO_STORE_APPROVALS,
  None

(***************************************************************************)
(* ApprovalInner and Approval.                                             *)
(***************************************************************************)
Endorsement(b) == [type |-> "Endorsement", hash |-> b, height |-> 0]

Skip(h) == [type |-> "Skip", hash |-> None, height |-> h]

Inners ==
  {Endorsement(b) : b \in Blocks} \cup {Skip(BlockHeight[b]) : b \in Blocks}

InnerOf(parent, target) ==
  IF target = BlockHeight[parent] + 1 THEN Endorsement(parent)
                                      ELSE Skip(BlockHeight[parent])

Approvals == [account : Accounts, inner : Inners, target : Targets]

\* The parents an approval may stand for, and whether somebody can have signed it.
ParentsOf(inner) == {b \in Blocks : inner \in {Endorsement(b), Skip(BlockHeight[b])}}

WellFormed(a) == \E b \in Blocks : a.target > BlockHeight[b] /\ a.inner = InnerOf(b, a.target)

ASSUME TrackerConstants ==
  /\ Genesis \in Blocks
  /\ BlockHeight \in [Blocks -> Nat]
  /\ Approvers \in [Blocks -> SUBSET Accounts]
  /\ StakeThisEpoch \in [Blocks -> [Accounts -> Nat]]
  /\ StakeNextEpoch \in [Blocks -> [Accounts -> Nat]]
  /\ Targets \subseteq Nat \ {0} /\ MaxTime \in Nat
  /\ MAX_HEIGHTS_AHEAD_TO_STORE_APPROVALS \in Nat
  /\ MAX_HEIGHTS_BEFORE_TO_STORE_APPROVALS \in Nat \ {0}
  /\ None \notin Blocks /\ None \notin Inners

-----------------------------------------------------------------------------
VARIABLES
  ds,    \* the Doomslug instance
  now    \* the clock; 0 is "never"

trackerVars == <<ds, now>>

StakeOf(stake, S) == MapThenSumSet(LAMBDA v : stake[v], S)

\* A sum of finitely many stakes is a number.
ASSUME TotalStakes ==
  \A b \in Blocks : /\ StakeOf(StakeThisEpoch[b], Approvers[b]) \in Nat
                   /\ StakeOf(StakeNextEpoch[b], Approvers[b]) \in Nat

(***************************************************************************)
(* DoomslugApprovalsTracker.                                               *)
(***************************************************************************)
NoTracker ==
  [exists |-> FALSE, witness |-> {}, basis |-> Genesis, this |-> 0, next |-> 0, since |-> 0]

NewTracker(parent) ==
  [exists |-> TRUE, witness |-> {}, basis |-> parent, this |-> 0, next |-> 0, since |-> 0]

HasEnoughStake_Mutant(t) ==
  t.this > (StakeOf(StakeThisEpoch[t.basis], Approvers[t.basis]) * 2) \div 3

HasEnoughStake(t) ==
  LET total_this == StakeOf(StakeThisEpoch[t.basis], Approvers[t.basis])
      total_next == StakeOf(StakeNextEpoch[t.basis], Approvers[t.basis])
  IN  /\ t.this > (total_this * 2) \div 3
      /\ t.next > (total_next * 2) \div 3 \/ total_next = 0

\* The stake counted for an account, 0 if the tracker's stakes lack it.
StakeIn(stake, b, account) == IF account \in Approvers[b] THEN stake[b][account] ELSE 0

\* The stake that a witness amounts to.
WitnessStake(stake, b, witness) == MapThenSumSet(LAMBDA a : StakeIn(stake, b, a), witness)

\* Such a sum grows by the stake of each account.
ASSUME StakesAddUp ==
  \A b \in Blocks, stake \in {StakeThisEpoch, StakeNextEpoch}, W \in SUBSET Accounts :
    /\ WitnessStake(stake, b, W) \in Nat
    /\ W = {} => WitnessStake(stake, b, W) = 0
    /\ \A a \in Accounts \ W :
         WitnessStake(stake, b, W \cup {a}) = WitnessStake(stake, b, W) + StakeIn(stake, b, a)

AddWitness(t, account) ==
  IF account \in t.witness THEN t
  ELSE [t EXCEPT !.witness = @ \cup {account},
                 !.this = @ + StakeIn(StakeThisEpoch, t.basis, account),
                 !.next = @ + StakeIn(StakeNextEpoch, t.basis, account)]

MarkReady(t) == IF HasEnoughStake(t) /\ t.since = 0 THEN [t EXCEPT !.since = now] ELSE t

WithdrawApproval_Mutant(t, account) ==
  IF account \notin t.witness THEN t
  ELSE [t EXCEPT !.witness = @ \ {account},
                 !.this = @ - StakeIn(StakeThisEpoch, t.basis, account)]

WithdrawApproval(t, account) ==
  IF account \notin t.witness THEN t
  ELSE [t EXCEPT !.witness = @ \ {account},
                 !.this = @ - StakeIn(StakeThisEpoch, t.basis, account),
                 !.next = @ - StakeIn(StakeNextEpoch, t.basis, account)]

(***************************************************************************)
(* DoomslugApprovalsTrackersAtHeight.                                      *)
(***************************************************************************)
\* Withdraw what the account last approved at this target height, and remove
\* the tracker when nobody is left in it.
WithdrawLast(d, a) ==
  LET last == d.last[a.target][a.account] IN
  IF last = None \/ ~d.trackers[a.target][last].exists THEN d
  ELSE LET t == WithdrawApproval(d.trackers[a.target][last], a.account) IN
       [d EXCEPT !.trackers[a.target][last] = IF t.witness = {} THEN NoTracker ELSE t]

\* The tracker an accepted approval ends up in.
Approved(d, a, parent) ==
  LET t == d.trackers[a.target][a.inner] IN
  MarkReady(AddWitness(IF t.exists THEN t ELSE NewTracker(parent), a.account))

ProcessApproval_Mutant(d, a, parent) ==
  LET w == WithdrawLast(d, a) IN
  [w EXCEPT !.trackers[a.target][a.inner] = Approved(w, a, parent),
            !.last[a.target][a.account] = a.inner]

ProcessApproval(d, a, parent) ==
  LET w == WithdrawLast(d, a) IN
  IF a.account \notin Approvers[parent] THEN w
  ELSE [w EXCEPT !.trackers[a.target][a.inner] = Approved(w, a, parent),
                 !.last[a.target][a.account] = a.inner]

\* What process_approval returns: an approval of a stranger is never "ready".
ReadyAfter(d, a, parent) ==
  a.account \in Approvers[parent] /\ HasEnoughStake(Approved(WithdrawLast(d, a), a, parent))

(***************************************************************************)
(* Doomslug::on_approval_message, set_tip and ready_to_produce_block.      *)
(***************************************************************************)
Higher(h1, h2) == IF h1 > h2 THEN h1 ELSE h2

InHorizon(d, target) ==
  /\ target >= BlockHeight[d.tip]
  /\ target <= BlockHeight[d.tip] + MAX_HEIGHTS_AHEAD_TO_STORE_APPROVALS

LargestThreshold_Mutant(d, a, parent) ==
  IF ReadyAfter(d, a, parent) THEN a.target ELSE d.largest_threshold

LargestThreshold(d, a, parent) ==
  IF ReadyAfter(d, a, parent) THEN Higher(a.target, d.largest_threshold)
                              ELSE d.largest_threshold

OnApprovalMessage(d, a, parent) ==
  IF ~InHorizon(d, a.target) THEN d
  ELSE [ProcessApproval(d, a, parent) EXCEPT
          !.largest_approval = Higher(a.target, @),
          !.largest_threshold = LargestThreshold(d, a, parent)]

ShouldRetainHeight(h, head_height) ==
  /\ h > Higher(head_height - MAX_HEIGHTS_BEFORE_TO_STORE_APPROVALS, 0)
  /\ h <= head_height + MAX_HEIGHTS_AHEAD_TO_STORE_APPROVALS

Nothing == [i \in Inners |-> NoTracker]

Nobody == [a \in Accounts |-> None]

SetTip(d, b) ==
  [d EXCEPT
     !.tip = b,
     !.trackers = [h \in Targets |-> IF ShouldRetainHeight(h, BlockHeight[b]) THEN @[h] ELSE Nothing],
     !.last = [h \in Targets |-> IF ShouldRetainHeight(h, BlockHeight[b]) THEN @[h] ELSE Nobody]]

TrackerFor(d, target) == d.trackers[target][InnerOf(d.tip, target)]

\* `waited`: T(h') * chunk_wait_mult has passed since the tracker was ready.
ReadyToProduceBlock(d, target, chunks_ready, waited) ==
  LET t == TrackerFor(d, target) IN
  t.exists /\ HasEnoughStake(t) /\ (chunks_ready \/ waited)

-----------------------------------------------------------------------------
NewTrackers ==
  [tip |-> Genesis, trackers |-> [h \in Targets |-> Nothing],
   last |-> [h \in Targets |-> Nobody], largest_approval |-> 0, largest_threshold |-> 0]

Init == ds = NewTrackers /\ now = 1

Receive ==
  \E a \in Approvals :
    /\ WellFormed(a)
    /\ \E parent \in ParentsOf(a.inner) : ds' = OnApprovalMessage(ds, a, parent)
    /\ UNCHANGED now

MoveTip ==
  /\ \E b \in Blocks : BlockHeight[b] > BlockHeight[ds.tip] /\ ds' = SetTip(ds, b)
  /\ UNCHANGED now

Tick == now < MaxTime /\ now' = now + 1 /\ UNCHANGED ds

Next == Receive \/ MoveTip \/ Tick

Spec == Init /\ [][Next]_trackerVars

-----------------------------------------------------------------------------
TrackerType(Stake) ==
  [exists : BOOLEAN, witness : SUBSET Accounts, basis : Blocks, this : Stake, next : Stake,
   since : Nat]

DoomslugTrackers(Stake) ==
  [tip : Blocks, trackers : [Targets -> [Inners -> TrackerType(Stake)]],
   last : [Targets -> [Accounts -> Inners \cup {None}]],
   largest_approval : Nat, largest_threshold : Nat]

\* The trackers and the clock have their types; stakes are unsigned in the code, so
\* no withdrawal, also of what was withdrawn before, takes more than was added.
TrackersTypeOK == ds \in DoomslugTrackers(Nat) /\ now \in Nat \ {0}

\* The running sums are those of the witness, with the stakes the tracker was made with.
CountsItsWitness(t) ==
  /\ t.this = WitnessStake(StakeThisEpoch, t.basis, t.witness)
  /\ t.next = WitnessStake(StakeNextEpoch, t.basis, t.witness)

\* The stake of an account backs one block per target height: whatever it sent
\* and re-sent, it is a witness of at most the tracker of its last approval, and
\* a tracker nobody backs any more is gone (withdraw_approval).  The running sums
\* do not drift.
StakeCountedOnce ==
  \A h \in Targets, i \in Inners :
    LET t == ds.trackers[h][i] IN
    /\ t.exists <=> t.witness # {}
    /\ \A a \in t.witness : ds.last[h][a] = i
    /\ CountsItsWitness(t)

\* handle_block_production looks at no height above largest_threshold_height: a
\* height with enough approvals is never above it, and its waiting time has begun.
ReadyIsConsidered ==
  \A h \in Targets, i \in Inners :
    LET t == ds.trackers[h][i] IN
    t.exists /\ HasEnoughStake(t) => h <= ds.largest_threshold /\ t.since > 0

\* The memory of the trackers is bounded whatever heights approvals are for: only
\* heights near the tip have a tracker, also after the tip moved.
TrackersInHorizon ==
  \A h \in Targets, i \in Inners :
    ds.trackers[h][i].exists =>
      /\ h + MAX_HEIGHTS_BEFORE_TO_STORE_APPROVALS > BlockHeight[ds.tip]
      /\ h <= BlockHeight[ds.tip] + MAX_HEIGHTS_AHEAD_TO_STORE_APPROVALS

\* A tracker is one somebody still backs, with each account's stake in one tracker of
\* a height and in its running sums as long as it is there, and is near the tip,
\* whatever the order of approvals, withdrawals and new tips.
TrackersAreCurrent == StakeCountedOnce /\ TrackersInHorizon

=============================================================================
