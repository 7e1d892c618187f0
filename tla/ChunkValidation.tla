--------------------------- MODULE ChunkValidation ---------------------------
(***************************************************************************)
(* The actors that validate chunk state witnesses (chunk_validation_actor, *)
(* orphan_witness_pool).  A number of threads take messages from one queue *)
(* and share the pool of orphan witnesses, whose previous block is not     *)
(* stored yet; the client stores blocks and announces them.  Between its   *)
(* accesses to the chain store and to the pool a handler holds no lock.    *)
(*                                                                         *)
(* Witnesses are of admissible size and have one key each; what their      *)
(* validation comes to does not matter here.                               *)
(***************************************************************************)
EXTENDS Integers, Sequences, SequencesExt

CONSTANTS
  Actors,              \* chunk_validation_threads
  ChainBlocks,
  FirstBlock,          \* stored from the start
  ParentOf,            \* block -> block
  BlockAt,             \* block -> height
  FinalBlockOf,        \* block -> last final block
  Witnesses,
  WitnessOn,           \* witness -> previous block of its chunk
  WitnessAt,           \* witness -> height of its chunk
  ORPHAN_DISTANCE,     \* ALLOWED_ORPHAN_WITNESS_DISTANCE_FROM_HEAD
  OrphanCapacity,      \* orphan_witness_pool_size
  NoTask

VARIABLES
  node,       \* the chain store: stored blocks and head; blocks the client has to announce
  mailbox,    \* messages to the actors: witnesses and blocks
  tasks,      \* what each actor is about to do
  orphans,    \* the orphan pool, the least recently used witness first
  arrived,    \* witnesses that have been sent to the actors
  validated   \* witnesses whose validation has been started

validationVars == <<node, mailbox, tasks, orphans, arrived, validated>>

ValidationInit ==
  /\ node = [stored |-> {FirstBlock}, head |-> FirstBlock, unannounced |-> <<>>, forks |-> {}]
  /\ mailbox = <<>>
  /\ tasks = [a \in Actors |-> NoTask]
  /\ orphans = <<>>
  /\ arrived = {}
  /\ validated = {}

---------------------------------------------------------------------------
(* The client *)

\* A block is committed; it is a new head or a fork.
AcceptBlock(b) ==
  LET new_head == BlockAt[b] > BlockAt[node.head] IN
  /\ b \notin node.stored /\ ParentOf[b] \in node.stored
  /\ node' = [stored |-> node.stored \cup {b},
              head |-> IF new_head THEN b ELSE node.head,
              unannounced |-> IF new_head THEN Append(node.unannounced, b) ELSE node.unannounced,
              forks |-> IF new_head THEN node.forks ELSE node.forks \cup {b}]
  /\ UNCHANGED <<mailbox, tasks, orphans, arrived, validated>>

\* on_block_accepted_with_optional_chunk_produce of a validator: for a fork it returns where the
\* transaction pool needs no reconciling, before the actors are notified.
AnnounceBlock ==
  /\ node.unannounced # <<>>
  /\ mailbox' = Append(mailbox, [block |-> Head(node.unannounced)])
  /\ node' = [node EXCEPT !.unannounced = Tail(@)]
  /\ UNCHANGED <<tasks, orphans, arrived, validated>>

\* The tracker of partial witnesses sends each witness once: see WitnessTracker.
SendWitness(w) ==
  /\ w \notin arrived
  /\ arrived' = arrived \cup {w}
  /\ mailbox' = Append(mailbox, [witness |-> w])
  /\ UNCHANGED <<node, tasks, orphans, validated>>

---------------------------------------------------------------------------
(* Handlers: an idle actor takes the next message *)

Takes(a, task) ==
  /\ mailbox # <<>>
  /\ tasks[a] = NoTask
  /\ mailbox' = Tail(mailbox)
  /\ tasks' = [tasks EXCEPT ![a] = task]

\* process_chunk_state_witness_message: with its previous block the witness is validated.
HandleWitness(a) ==
  LET w == Head(mailbox).witness
      known == WitnessOn[w] \in node.stored IN
  /\ mailbox # <<>> /\ "witness" \in DOMAIN Head(mailbox)
  /\ Takes(a, IF known THEN NoTask ELSE [do |-> "check_distance", witness |-> w])
  /\ validated' = IF known THEN validated \cup {w} ELSE validated
  /\ UNCHANGED <<node, orphans, arrived>>

\* handle_orphan_witness, until it has compared the heights.
CheckDistance(a) ==
  /\ tasks[a] # NoTask /\ tasks[a].do = "check_distance"
  /\ LET w == tasks[a].witness IN
     tasks' = [tasks EXCEPT ![a] =
       IF WitnessAt[w] - BlockAt[node.head] \in ORPHAN_DISTANCE
       THEN [do |-> "add_orphan", witness |-> w] ELSE NoTask]
  /\ UNCHANGED <<node, mailbox, orphans, arrived, validated>>

\* add_orphan_state_witness
AddOrphan(a) ==
  /\ tasks[a] # NoTask /\ tasks[a].do = "add_orphan"
  /\ orphans' = Append(IF Len(orphans) = OrphanCapacity THEN Tail(orphans) ELSE orphans,
                       tasks[a].witness)
  /\ tasks' = [tasks EXCEPT ![a] = NoTask]
  /\ UNCHANGED <<node, mailbox, arrived, validated>>

WaitingFor_Mutant(b) == {w \in ToSet(orphans) : WitnessOn[w] = b /\ WitnessAt[w] = BlockAt[b] + 1}

\* take_state_witnesses_waiting_for_block
WaitingFor(b) == {w \in ToSet(orphans) : WitnessOn[w] = b}

\* handle_block_notification: the witnesses that wait for the block are validated.
HandleBlock(a) ==
  LET b == Head(mailbox).block IN
  /\ mailbox # <<>> /\ "block" \in DOMAIN Head(mailbox)
  /\ Takes(a, [do |-> "clean", block |-> b])
  /\ validated' = validated \cup WaitingFor(b)
  /\ orphans' = SelectSeq(orphans, LAMBDA w : w \notin WaitingFor(b))
  /\ UNCHANGED <<node, arrived>>

\* Its second half, remove_witnesses_below_final_height.
CleanOrphans(a) ==
  /\ tasks[a] # NoTask /\ tasks[a].do = "clean"
  /\ LET final == FinalBlockOf[tasks[a].block] IN
     orphans' = SelectSeq(orphans, LAMBDA w : WitnessAt[w] > BlockAt[final])
  /\ tasks' = [tasks EXCEPT ![a] = NoTask]
  /\ UNCHANGED <<node, mailbox, arrived, validated>>

ValidationNext ==
  \/ \E b \in ChainBlocks : AcceptBlock(b)
  \/ AnnounceBlock
  \/ \E w \in Witnesses : SendWitness(w)
  \/ \E a \in Actors :
       HandleWitness(a) \/ CheckDistance(a) \/ AddOrphan(a) \/ HandleBlock(a) \/ CleanOrphans(a)

ValidationSpec == ValidationInit /\ [][ValidationNext]_validationVars

---------------------------------------------------------------------------
(* Properties *)

Quiet == mailbox = <<>> /\ node.unannounced = <<>> /\ \A a \in Actors : tasks[a] = NoTask

\* "The witness is put in OrphanStateWitnessPool until the required block arrives and the witness
\* can be processed": once all messages are handled, no orphan's previous block is stored,
\* but for blocks that came as a fork and were not announced.
OrphansLackTheirBlock ==
  Quiet => \A w \in ToSet(orphans) : WitnessOn[w] \notin node.stored \ node.forks

=============================================================================
