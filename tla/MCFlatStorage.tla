--------------------------- MODULE MCFlatStorage ---------------------------
(***************************************************************************)
(* Flat storage on the chain g-a-b-c-d-e-f-h and the fork b-x, which skips *)
(* two heights and has no changes.  A snapshot is due while d is the head, *)
(* and while x is.  The shard has no new chunk in d.                       *)
(***************************************************************************)
EXTENDS FlatStorage

MCFlatBlocks == {"g", "a", "b", "c", "d", "e", "f", "h", "x"}
MCFlatHeight ==
  [g |-> 0, a |-> 1, b |-> 2, c |-> 3, d |-> 4, e |-> 5, f |-> 6, h |-> 7, x |-> 5]
MCPrevBlock ==
  [g |-> "g", a |-> "g", b |-> "a", c |-> "b", d |-> "c", e |-> "d", f |-> "e", h |-> "f", x |-> "b"]
MCLastFinalBlock ==
  [g |-> Nil, a |-> Nil, b |-> "g", c |-> "a", d |-> "b", e |-> "c", f |-> "d", h |-> "e", x |-> "g"]
MCChunkPrevHash ==
  [g |-> Nil, a |-> "g", b |-> "a", c |-> "b", d |-> "b", e |-> "d", f |-> "e", h |-> "f", x |-> "b"]
MCChanged ==
  [g |-> [j |-> 0], a |-> [k |-> 1], b |-> <<>>, c |-> [k |-> 2], d |-> <<>>,
   e |-> [j |-> Nil, k |-> 3], f |-> <<>>, h |-> <<>>, x |-> <<>>]
=============================================================================
