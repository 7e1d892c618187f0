-------------------------- MODULE MCClientApprovals --------------------------
(***************************************************************************)
(* Instances of ClientApprovals for TLC: genesis g, a fork of p and q at   *)
(* height 1, r on p at height 2, and blocks this node may produce: s on p  *)
(* at height 2, u on q and v on r at height 3.                             *)
(***************************************************************************)
EXTENDS ClientApprovals

CONSTANTS x, y, z, g, p, q, r, s, u, v

MCBlockHeight ==
  [b \in Blocks |-> CASE b = g -> 0 [] b \in {p, q} -> 1 [] b \in {r, s} -> 2 [] OTHER -> 3]

MCParent ==
  [b \in Blocks |-> CASE b \in {r, s} -> p [] b = u -> q [] b = v -> r [] OTHER -> g]

MCOwn == Blocks \cap {s, u, v}

MCMine == [b \in Blocks |-> Targets]

\* The epoch of all blocks has the producers x and y, the next one x and z.  The
\* child of a block in NextEpochNeeded is approved by both.
ApproversFrom(NextEpochNeeded) ==
  [b \in Blocks |-> IF b \in NextEpochNeeded THEN {x, y, z} ELSE {x, y}]

NextStakeFrom(NextEpochNeeded) ==
  [b \in Blocks |-> [a \in Accounts |-> IF b \in NextEpochNeeded /\ a # y THEN 1 ELSE 0]]

MCStakeThisEpoch == [b \in Blocks |-> [a \in Accounts |-> CASE a = x -> 2 [] a = y -> 1 [] a = z -> 0]]

\* The end of the epoch shows from r on.
MCApprovers == ApproversFrom({r})

MCStakeNextEpoch == NextStakeFrom({r})

\* Of the two blocks at height 1 only p shows it: their last final blocks differ.
MCForkApprovers == ApproversFrom({p})

MCForkStakeNextEpoch == NextStakeFrom({p})

=============================================================================
