-------------------------- MODULE BandwidthScheduler --------------------------
(***************************************************************************)
(* How much the shards send to each other.  At every height each shard     *)
(* runs the same scheduler on the same block (bandwidth_scheduler), then   *)
(* forwards the receipts in its outgoing buffers within the grants and the *)
(* gas limits of congestion control, buffers the new receipts that do not  *)
(* fit, and puts a request in its next chunk (congestion_control,          *)
(* outgoing_metadata).  All shards hold the same scheduler state, which is *)
(* here once.  Chunks may be missing and shards fully congested.           *)
(*                                                                         *)
(* Sizes are small numbers, every receipt has a gas of 1, and one shard    *)
(* layout stays: all shards have a status, no buffer is of a parent, and   *)
(* every buffer has its metadata.                                          *)
(***************************************************************************)
EXTENDS Integers, FiniteSets, Sequences, SequencesExt, FiniteSetsExt, Functions

CONSTANTS
  NUM_SHARDS,
  MAX_SHARD_BANDWIDTH, MAX_SINGLE_GRANT, MAX_ALLOWANCE, MAX_BASE_BANDWIDTH,
  MAX_RECEIPT_SIZE,
  VALUES_NUM,                 \* BANDWIDTH_REQUEST_VALUES_NUM
  GROUP_SIZE,                 \* size_upper_bound of a group of receipts
  FULL, MIN_GAS, MAX_GAS, ALLOWED_SHARD_GAS,  \* the level of full congestion, gas limits
  LevelsOf,                   \* shard -> congestion levels it may have
  NewReceipts,                \* link -> sizes of the receipts that are made for it
  MaxBuffered,                \* bound: receipts in a buffer
  NoLink

VARIABLES
  scheduler,    \* link_allowances, which are persisted, and the rest of the run: see SchedulerInit
  buffers,      \* link -> outgoing buffer, as the groups of its metadata
  congestion,   \* shard -> congestion info in its last chunk
  height        \* of the block, modulo NUM_SHARDS

bandwidthVars == <<scheduler, buffers, congestion, height>>

Shards == 0 .. NUM_SHARDS - 1

Links == Shards \X Shards

\* A link's sender and receiver are its two components; iter_links is in this order.
LinkAt(senders, receivers, i) ==
  <<senders[1 + ((i - 1) \div NUM_SHARDS)], receivers[1 + ((i - 1) % NUM_SHARDS)]>>

InOrder == [i \in 1..NUM_SHARDS |-> i - 1]

AllLinks(senders, receivers) ==
  [i \in 1 .. NUM_SHARDS * NUM_SHARDS |-> LinkAt(senders, receivers, i)]

BaseBandwidth_Mutant ==
  Min({MAX_SHARD_BANDWIDTH \div Max({1, NUM_SHARDS - 1}), MAX_BASE_BANDWIDTH})

\* BandwidthSchedulerParams::calculate
BaseBandwidth ==
  Min({(MAX_SHARD_BANDWIDTH - MAX_SINGLE_GRANT) \div Max({1, NUM_SHARDS - 1}), MAX_BASE_BANDWIDTH})

---------------------------------------------------------------------------
(* Outgoing buffers and requests *)

GroupSize(group) == SumFunction(group)

BufferedReceipts(l) == FlattenSeq(buffers[l])

\* Receipts above the maximal size are taken to have it.
CappedSize(size) == Min({size, MAX_RECEIPT_SIZE})

RequestValues == {BaseBandwidth + ((MAX_SINGLE_GRANT - BaseBandwidth) * i) \div VALUES_NUM : i \in 1..VALUES_NUM}

\* make_from_receipt_sizes: for each group, the least value that lets out all groups up to it.
RequestedValues(l) ==
  LET total == [k \in 1..Len(buffers[l]) |->
                  SumFunction([i \in 1..k |-> CappedSize(GroupSize(buffers[l][i]))])]
  IN {Min({v \in RequestValues : v >= t}) :
        t \in {t \in Range(total) : BaseBandwidth < t /\ t <= Max(RequestValues)}}

\* SchedulerBandwidthRequest: what each value adds to the one before.
BandwidthIncreases(l) ==
  LET values == SetToSortSeq(RequestedValues(l), <)
  IN [i \in DOMAIN values |-> values[i] - IF i = 1 THEN BaseBandwidth ELSE values[i - 1]]

\* ReceiptGroupsQueue::update_on_receipt_pushed
Pushed(buffer, size) ==
  IF buffer # <<>> /\ GroupSize(Last(buffer)) + size <= GROUP_SIZE
  THEN Append(Front(buffer), Append(Last(buffer), size))
  ELSE Append(buffer, <<size>>)

\* pop_n with update_on_receipt_popped
Popped(buffer, n) ==
  LET before(i) == Len(FlattenSeq(SubSeq(buffer, 1, i - 1)))
      rest == [i \in DOMAIN buffer |->
                 SubSeq(buffer[i], Max({1, n - before(i) + 1}), Len(buffer[i]))]
  IN SelectSeq(rest, LAMBDA group : group # <<>>)

---------------------------------------------------------------------------
(* Granting *)

\* A fully congested shard only takes receipts of its allowed shard.
Allowed(l) == congestion[l[2]].level = FULL => congestion[l[2]].allowed_shard = l[1]

\* calculate_is_link_allowed.  A shard is only fully congested by its missing chunks when its
\* last one is missing.
LinkAllowed(run, l) ==
  /\ l[1] \notin run.missing /\ l[2] \notin run.missing
  /\ Allowed(l)

CanGrant_Mutant(run, l, bandwidth) ==
  LinkAllowed(run, l) /\ run.sender_budget[l[1]] >= bandwidth

CanGrant(run, l, bandwidth) ==
  /\ LinkAllowed(run, l)
  /\ run.sender_budget[l[1]] >= bandwidth /\ run.receiver_budget[l[2]] >= bandwidth

\* try_grant_bandwidth
TryGrant(run, l, bandwidth) ==
  IF CanGrant(run, l, bandwidth)
  THEN [run EXCEPT !.sender_budget[l[1]] = @ - bandwidth,
                   !.receiver_budget[l[2]] = @ - bandwidth,
                   !.link_allowances[l] = Max({@ - bandwidth, 0}),
                   !.granted[l] = @ + bandwidth]
  ELSE run

IncreasedAllowance(allowance) == Min({allowance + MAX_SHARD_BANDWIDTH \div NUM_SHARDS, MAX_ALLOWANCE})

\* One request of the queue: a request that is granted goes back with its next increase.
ProcessRequest(run, l) ==
  LET increase == Head(run.requests[l]) IN
  [TryGrant(run, l, increase) EXCEPT
     !.requests[l] = IF CanGrant(run, l, increase) THEN Tail(@) ELSE <<>>]

Requesting == {l \in Links : scheduler.requests[l] # <<>>}

\* The requests of highest allowance, which pop_last takes.
TopRequests ==
  {l \in Requesting : \A k \in Requesting : scheduler.link_allowances[l] >= scheduler.link_allowances[k]}

---------------------------------------------------------------------------
(* Distributing what is left *)

\* average_link_bandwidth and link_proposition
PerLink(bandwidth, links) == IF links = 0 THEN 0 ELSE bandwidth \div links

\* sort_by_key is stable.
SortedByAverage(budget, links_num) ==
  SetToSortSeq(Shards, LAMBDA s, t : LET a == PerLink(budget[s], links_num[s])
                                         b == PerLink(budget[t], links_num[t])
                                     IN a < b \/ (a = b /\ s < t))

\* The body of the loops of distribute_remaining_bandwidth.  Its break is never taken: an
\* allowed link is counted at both ends until it has been visited.
GrantRemaining(run, l) ==
  IF ~LinkAllowed(run, l) THEN run
  ELSE LET more == Min({PerLink(run.sender_budget[l[1]], run.sender_links[l[1]]),
                        PerLink(run.receiver_budget[l[2]], run.receiver_links[l[2]])})
       IN [run EXCEPT !.granted[l] = @ + more,
                      !.sender_budget[l[1]] = @ - more, !.sender_links[l[1]] = @ - 1,
                      !.receiver_budget[l[2]] = @ - more, !.receiver_links[l[2]] = @ - 1]

---------------------------------------------------------------------------
(* A height *)

Reset(link_allowances) ==
  [phase |-> "block", link_allowances |-> link_allowances,
   missing |-> {}, favoured |-> NoLink,
   sender_budget |-> [s \in Shards |-> MAX_SHARD_BANDWIDTH],
   receiver_budget |-> [s \in Shards |-> MAX_SHARD_BANDWIDTH],
   granted |-> [l \in Links |-> 0],
   requests |-> [l \in Links |-> <<>>],
   sent |-> {}]

SchedulerInit ==
  /\ scheduler = Reset([l \in Links |-> 0])
  /\ buffers = [l \in Links |-> <<>>]
  /\ congestion = [s \in Shards |-> [level |-> 0, allowed_shard |-> 0]]
  /\ height = 0

\* A block arrives, without new chunks of the shards in missing: increase_allowances, then
\* grant_base_bandwidth and the queue of requests.  Favoured is a link that the shuffles of this
\* height put first, if any.
StartRun(missing, favoured) ==
  LET increased == [scheduler EXCEPT
        !.phase = "requests", !.missing = missing, !.favoured = favoured, !.sent = {},
        !.link_allowances = [l \in Links |-> IncreasedAllowance(@[l])],
        !.requests = [l \in Links |-> BandwidthIncreases(l)]]
  IN
  /\ scheduler.phase = "block"
  /\ scheduler' = FoldLeft(LAMBDA run, l : TryGrant(run, l, BaseBandwidth),
                           increased, AllLinks(InOrder, InOrder))
  /\ UNCHANGED <<buffers, congestion, height>>

\* One round of process_bandwidth_requests: the requests of highest allowance, shuffled.
ProcessRequests(shuffled) ==
  /\ scheduler.phase = "requests" /\ Requesting # {}
  /\ scheduler.favoured \in TopRequests => Head(shuffled) = scheduler.favoured
  /\ scheduler' = FoldLeft(ProcessRequest, scheduler, shuffled)
  /\ UNCHANGED <<buffers, congestion, height>>

\* distribute_remaining_bandwidth, the end of the run.  It leaves the allowances alone.
DistributeRemaining ==
  LET allowed == {l \in Links : LinkAllowed(scheduler, l)}
      sender_links == [s \in Shards |-> Cardinality({l \in allowed : l[1] = s})]
      receiver_links == [s \in Shards |-> Cardinality({l \in allowed : l[2] = s})]
      senders == SortedByAverage(scheduler.sender_budget, sender_links)
      receivers == SortedByAverage(scheduler.receiver_budget, receiver_links)
      done == FoldLeft(GrantRemaining,
                [missing |-> scheduler.missing, granted |-> scheduler.granted,
                 sender_budget |-> scheduler.sender_budget,
                 receiver_budget |-> scheduler.receiver_budget,
                 sender_links |-> sender_links, receiver_links |-> receiver_links],
                AllLinks(senders, receivers))
  IN
  /\ scheduler.phase = "requests" /\ Requesting = {}
  /\ scheduler' = [scheduler EXCEPT !.phase = "granted", !.granted = done.granted]
  /\ UNCHANGED <<buffers, congestion, height>>

\* outgoing_gas_limit, of receipts that leave their shard
GasLimit(l) ==
  LET level == congestion[l[2]].level IN
  IF l[1] = l[2] THEN MaxBuffered + 1
  ELSE IF level = FULL THEN (IF congestion[l[2]].allowed_shard = l[1] THEN ALLOWED_SHARD_GAS ELSE 0)
  ELSE MAX_GAS - ((MAX_GAS - MIN_GAS) * level) \div FULL

\* The size of the first n receipts in the buffer
SizeOfFirst(l, n) == SumFunction([i \in 1..n |-> CappedSize(BufferedReceipts(l)[i])])

\* forward_from_buffer_to_shard: as many receipts as the limits let out.
NumForwarded(l) ==
  Max({n \in 0..Len(BufferedReceipts(l)) : n <= GasLimit(l) /\ SizeOfFirst(l, n) <= scheduler.granted[l]})

\* forward_or_buffer_receipt, of a new receipt with what the buffer has left of the limits
Forwards(l, size) ==
  /\ NumForwarded(l) < GasLimit(l)
  /\ SizeOfFirst(l, NumForwarded(l)) + CappedSize(size) <= scheduler.granted[l]

\* The new chunks are applied: receipts are forwarded, at most one new one is made, for the
\* link to; the new congestion infos are of the levels given, with an allowed shard in turn.
\* A missing chunk changes nothing and keeps its requests.
ApplyChunks(to, size, levels) ==
  LET applied == {l \in Links : l[1] \notin scheduler.missing}
      rest == [l \in Links |-> IF l \in applied THEN Popped(buffers[l], NumForwarded(l)) ELSE buffers[l]]
  IN
  /\ scheduler.phase = "granted"
  /\ to # NoLink => /\ to \in applied /\ size \in NewReceipts[to]
                    /\ Len(BufferedReceipts(to)) < MaxBuffered
  /\ buffers' = IF to = NoLink \/ Forwards(to, size) THEN rest ELSE [rest EXCEPT ![to] = Pushed(@, size)]
  /\ congestion' = [s \in Shards |-> IF s \in scheduler.missing THEN congestion[s]
                                     ELSE [level |-> levels[s], allowed_shard |-> (height + s) % NUM_SHARDS]]
  /\ height' = (height + 1) % NUM_SHARDS
  /\ scheduler' = [Reset(scheduler.link_allowances) EXCEPT
                     !.sent = {l \in applied : NumForwarded(l) > 0}]

AnyLevels == {levels \in [Shards -> 0..FULL] : \A s \in Shards : levels[s] \in LevelsOf[s]}

BandwidthNext ==
  \/ \E missing \in SUBSET Shards, favoured \in Links \cup {NoLink} : StartRun(missing, favoured)
  \/ \E shuffled \in SetToSeqs(TopRequests) : ProcessRequests(shuffled)
  \/ DistributeRemaining
  \/ \E levels \in AnyLevels :
       \/ ApplyChunks(NoLink, 0, levels)
       \/ \E to \in Links, size \in UNION Range(NewReceipts) : ApplyChunks(to, size, levels)

BandwidthSpec == SchedulerInit /\ [][BandwidthNext]_bandwidthVars

---------------------------------------------------------------------------
(* Properties *)

\* No shard is granted more than `max_shard_bandwidth` at a height, as a sender or as a
\* receiver, while base grants, requests and the rest are given out in turn from the same
\* budgets; nothing is granted from or to a shard without a new chunk, or to a congested one
\* out of turn.  (The bytes that move may be more: a receipt counts for at most max_receipt_size,
\* and what a shard sent before its chunks were missing arrives later.)
BandwidthIsLimited ==
  /\ \A s \in Shards :
       /\ SumFunctionOnSet(scheduler.granted, {l \in Links : l[1] = s}) <= MAX_SHARD_BANDWIDTH
       /\ SumFunctionOnSet(scheduler.granted, {l \in Links : l[2] = s}) <= MAX_SHARD_BANDWIDTH
  /\ \A l \in Links : scheduler.granted[l] > 0 => LinkAllowed(scheduler, l)

\* The shuffles are random, from the hash of the previous block, and independent of what is
\* buffered: a link that may be put first again and again in blocks that allow it, is.
FairShuffle(l) ==
  []<>(scheduler.phase = "block" /\ Allowed(l))
    => []<>(scheduler.phase = "requests" /\ scheduler.favoured = l /\ LinkAllowed(scheduler, l))

\* Blocks keep being made.
FairBlocks == []<><<BandwidthNext>>_bandwidthVars

\* "There is a guarantee that for every bandwidth grant, the shard will be able to send at least
\* one receipt, which is enough to ensure liveness": once no chunks are missing, receipts leave
\* the buffer of a link again and again, whatever the other links ask for and whichever
\* shards are congested.
ReceiptsLeave(l) ==
  <>[](scheduler.missing = {}) => []<>(buffers[l] = <<>> \/ l \in scheduler.sent)

=============================================================================
