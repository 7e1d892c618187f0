------------------------- MODULE MCChunkValidation -------------------------
(***************************************************************************)
(* ChunkValidation with two actors, on a chain of three blocks with a      *)
(* witness for the next height on each of the last two.                    *)
(***************************************************************************)
EXTENDS ChunkValidation, TLC

MCParentOf == "a" :> "a" @@ "b" :> "a" @@ "c" :> "b"
MCBlockAt == "a" :> 1 @@ "b" :> 2 @@ "c" :> 3
MCFinalBlockOf == [b \in DOMAIN MCParentOf |-> "a"]
MCWitnessOn == "u" :> "b" @@ "v" :> "c"
MCWitnessAt == "u" :> 3 @@ "v" :> 4

=============================================================================
