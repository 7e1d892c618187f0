----------------------------- MODULE MCStorage -----------------------------
(***************************************************************************)
(* An instance of GarbageCollection: a canonical chain a1 .. a9 over five  *)
(* epochs (epoch_length 2) with a skipped height, a fork of two blocks     *)
(* that reaches above the first stop heights, a fork of one block that     *)
(* does not, and a late block d11 that becomes the head although it is in  *)
(* an earlier epoch than the head before it.  Shard s1 is tracked in the   *)
(* first epochs only.                                                      *)
(***************************************************************************)
EXTENDS GarbageCollection, TLC

MCParent ==
  "g0" :> "g0" @@ "a1" :> "g0" @@ "a2" :> "a1" @@ "a3" :> "a2" @@ "a4" :> "a3" @@ "a5" :> "a4"
  @@ "a6" :> "a5" @@ "a7" :> "a6" @@ "a8" :> "a7" @@ "a9" :> "a8"
  @@ "b3" :> "a1" @@ "b5" :> "b3" @@ "c4" :> "a3" @@ "d11" :> "a7"

MCHeightOf ==
  "g0" :> 0 @@ "a1" :> 1 @@ "a2" :> 2 @@ "a3" :> 3 @@ "a4" :> 5 @@ "a5" :> 6 @@ "a6" :> 7
  @@ "a7" :> 8 @@ "a8" :> 9 @@ "a9" :> 10 @@ "b3" :> 3 @@ "b5" :> 5 @@ "c4" :> 4 @@ "d11" :> 11

MCBlocks == DOMAIN MCParent

MCProduced ==
  "RPC" :> MCBlocks \ {"g0"} @@ "Hot" :> {"a1", "a2", "a3", "a4", "a5", "a6", "a7", "a8", "a9"}

\* Finality of three blocks at consecutive heights.
MCLastFinalOf ==
  [b \in MCBlocks |->
     LET final[c \in MCBlocks] ==
           LET p == MCParent[c] IN
           IF c = "g0" THEN "g0"
           ELSE IF MCHeightOf[c] = MCHeightOf[p] + 1
                   /\ (p = "g0" \/ MCHeightOf[p] = MCHeightOf[MCParent[p]] + 1)
             THEN MCParent[p] ELSE final[p]
     IN final[b]]

\* An epoch ends with a block whose last final block is near the end of epoch_length heights.
MCEpochFirst ==
  [b \in MCBlocks |->
     LET first[c \in MCBlocks] ==
           LET p == MCParent[c] IN
           IF c = "g0" THEN "g0"
           ELSE IF p = "g0" \/ MCHeightOf[MCLastFinalOf[p]] + 3 >= MCHeightOf[first[p]] + 2
             THEN c ELSE first[p]
     IN first[b]]

MCTrackedAt ==
  [b \in MCBlocks |-> IF b \in {"g0", "a1", "a2", "a3", "b3", "b5"} THEN {"s0", "s1"} ELSE {"s0"}]

\* Shard s0 has no new chunk in a2 and a3.
MCChunkHeightAt ==
  [b \in MCBlocks |-> [s \in {"s0", "s1"} |->
     IF s = "s0" /\ b \in {"a2", "a3"} THEN 1 ELSE MCHeightOf[b]]]

MCStateOfS0 ==
  "g0" :> {"n0"} @@ "a1" :> {"n0", "n1"} @@ "a2" :> {"n1"} @@ "a3" :> {"n0", "n1"}
  @@ "a4" :> {"n0", "n2"} @@ "a5" :> {"n2"} @@ "a6" :> {"n0"} @@ "a7" :> {"n0", "n1"}
  @@ "a8" :> {"n1"} @@ "a9" :> {"n1", "n2"}
  @@ "b3" :> {"n0", "n2"} @@ "b5" :> {"n1"} @@ "c4" :> {"n0"} @@ "d11" :> {"n2"}

MCStateAfter ==
  [b \in MCBlocks |-> [s \in {"s0", "s1"} |->
     IF s = "s0" THEN MCStateOfS0[b]
     ELSE IF b \in {"a2", "a3", "b3"} THEN {"n1"} ELSE {"n0"}]]

=============================================================================
