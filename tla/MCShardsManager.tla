-------------------------- MODULE MCShardsManager --------------------------
(***************************************************************************)
(* ShardsManager on two forks of g: a with x, which has the chunk cx, and  *)
(* b with d, which has the chunk cd of the same height and shard.  When b  *)
(* comes first, a is accepted as a fork, and x is the next head.           *)
(***************************************************************************)
EXTENDS ShardsManager

MCParentBlock == "g" :> "g" @@ "a" :> "g" @@ "b" :> "g" @@ "x" :> "a" @@ "d" :> "b"
MCHeightOf == "g" :> 0 @@ "a" :> 1 @@ "b" :> 2 @@ "x" :> 3 @@ "d" :> 3
MCNewChunks == "g" :> {} @@ "a" :> {} @@ "b" :> {} @@ "x" :> {"cx"} @@ "d" :> {"cd"}
MCChunkOn == "cx" :> "a" @@ "cd" :> "b"
MCChunkAt == "cx" :> 3 @@ "cd" :> 3
MCChunkIn == "cx" :> 0 @@ "cd" :> 0
MCFault == "cx" :> "none" @@ "cd" :> "none"

=============================================================================
