------------------------- MODULE MissingChunksSpec -------------------------
(***************************************************************************)
(* What the pool of blocks with missing chunks promises: a block waits     *)
(* with the chunks the node does not have yet, and is ready as soon as the *)
(* last of them is there.                                                  *)
(***************************************************************************)
EXTENDS Integers

CONSTANTS
  ChunkedBlocks,
  Chunks,
  ChunksOf,    \* [ChunkedBlocks -> SUBSET Chunks]: the new chunks of a block
  ChunkedHeight  \* [ChunkedBlocks -> Nat]

VARIABLES
  waiting, \* blocks that wait
  have,    \* chunks the node has
  ready    \* blocks to be processed again

specVars == <<waiting, have, ready>>

Missing(b) == ChunksOf[b] \ have

SpecInit == waiting = {} /\ have = {} /\ ready = {}

AddBlock(b) ==
  /\ b \notin waiting \cup ready /\ Missing(b) # {}
  /\ waiting' = waiting \cup {b}
  /\ UNCHANGED <<have, ready>>

\* The chunk is stored and the blocks that lacked only it become ready, at once.
AcceptChunk(c) ==
  LET complete == {b \in waiting : Missing(b) \subseteq {c}} IN
  /\ have' = have \cup {c}
  /\ waiting' = waiting \ complete
  /\ ready' = ready \cup complete

TakeReady == ready # {} /\ ready' = {} /\ UNCHANGED <<waiting, have>>

Prune(h) ==
  /\ waiting' = {b \in waiting : ChunkedHeight[b] >= h}
  /\ UNCHANGED <<have, ready>>

SpecNext ==
  \/ \E b \in ChunkedBlocks : AddBlock(b)
  \/ \E c \in Chunks : AcceptChunk(c)
  \/ TakeReady
  \/ \E b \in ChunkedBlocks : Prune(ChunkedHeight[b])

AbstractSpec == SpecInit /\ [][SpecNext]_specVars

=============================================================================
