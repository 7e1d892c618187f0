----------------------------- MODULE MCDoomslug -----------------------------
(***************************************************************************)
(* Instances of Doomslug for TLC.  Stakes are chosen so that few approvals *)
(* already pass the threshold and no approval but the faulty one is        *)
(* dispensable:                                                            *)
(*   a, b honest and byz faulty with stakes 2, 1, 1: a block needs a and one *)
(*     of b and byz;                                                         *)
(*   a and b with stakes 2, 1, both honest: a block needs both;            *)
(*   a honest and byz faulty with stakes 3, 1: a decides alone.              *)
(***************************************************************************)
EXTENDS Doomslug

CONSTANTS a, b, byz

MCStakeThisEpoch == [v \in Validators |-> IF v = a THEN 2 ELSE 1]

MCStakeOneHonest == [v \in Validators |-> IF v = a THEN 3 ELSE 1]

\* The next epoch has no stake yet: its threshold is 0 and always met.
MCStakeNextEpoch == [v \in Validators |-> 0]

MCProducerFaulty == [h \in Heights |-> byz]

MCProducerHonest == [h \in Heights |-> IF h % 2 = 0 THEN b ELSE a]

MCTags == [h \in Heights |-> IF h = 1 THEN {0, 1} ELSE {0}]

MCOneTag == [h \in Heights |-> {0}]

=============================================================================
