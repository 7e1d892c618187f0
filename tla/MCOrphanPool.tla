---------------------------- MODULE MCOrphanPool ----------------------------
(***************************************************************************)
(* An instance of OrphanPool: on the block g that is not an orphan itself, *)
(* a chain u, v, y and a fork w of u at y's height, so that a height has   *)
(* orphans of two parents and a parent orphans at two heights.             *)
(***************************************************************************)
EXTENDS OrphanPool

CONSTANTS g, u, v, w, y

MCHeight == [b \in OrphanBlocks |-> CASE b = u -> 1 [] b = v -> 2 [] OTHER -> 3]

MCPrev == [b \in OrphanBlocks |-> CASE b = u -> g [] b = y -> v [] OTHER -> u]

=============================================================================
