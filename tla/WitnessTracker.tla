--------------------------- MODULE WitnessTracker ---------------------------
(***************************************************************************)
(* How a chunk validator puts a state witness together, for one shard      *)
(* (partial_witness_tracker).  Parts of witnesses, the list of contracts a *)
(* chunk accesses, and the code of those that the node lacks come in any   *)
(* order, more than once or not at all.  A tracker's handlers hold its     *)
(* mutex.                                                                  *)
(*                                                                         *)
(* The parts of a witness agree on its encoded length: a part that differs *)
(* from the first one is ignored.                                          *)
(***************************************************************************)
EXTENDS Integers, FiniteSets, Sequences, SequencesExt

CONSTANTS
  WitnessKeys,                     \* ChunkProductionKeys of the shard
  PartOrds,
  DataParts,                       \* how many parts make the witness
  LacksContracts,                  \* keys of chunks that access contracts the node lacks
  Undecodable,                     \* keys whose parts do not make a witness of that key
  WITNESS_PARTS_CACHE_SIZE,
  PROCESSED_WITNESSES_CACHE_SIZE   \* once more witnesses than this are processed, the oldest is
                                   \* forgotten, and its parts would make it go out again

VARIABLES
  parts_cache,          \* LRU cache of entries, the least recently used one first
  processed_witnesses,  \* LRU cache of keys
  sent,                 \* key -> the witnesses sent to the validation actors
  asked_for             \* history: keys whose contract codes were asked for, unless the entry
                        \* that asked has been evicted

witnessVars == <<parts_cache, processed_witnesses, sent, asked_for>>

WitnessInit ==
  /\ parts_cache = <<>>
  /\ processed_witnesses = <<>>
  /\ sent = [k \in WitnessKeys |-> <<>>]
  /\ asked_for = {}

NewEntry(k) == [key |-> k, parts |-> {}, contracts |-> "Unknown"]

Decoded(entry) == Cardinality(entry.parts) >= DataParts

\* try_finalize: the witness does not wait for contracts that it does not know of.
Finalizes_Mutant(entry) == Decoded(entry)

Finalizes(entry) == Decoded(entry) /\ entry.contracts # "Requested"

Pushed(cache, x, size) == Append(IF Len(cache) = size THEN Tail(cache) ELSE cache, x)

KeysOf(cache) == {cache[i].key : i \in DOMAIN cache}

\* maybe_insert_new_entry_in_parts_cache
WithEntry(k) ==
  IF k \in KeysOf(parts_cache) THEN parts_cache
  ELSE Pushed(parts_cache, NewEntry(k), WITNESS_PARTS_CACHE_SIZE)

Evicted(cache) == KeysOf(parts_cache) \ KeysOf(cache)

EntryOf(k, cache) == SelectSeq(cache, LAMBDA e : e.key = k)[1]

\* process_update, with what CacheEntry::update makes of the entry; without an entry, or when
\* the witness has been processed, the update is ignored.
ProcessUpdate(k, cache, entry) ==
  LET others == SelectSeq(cache, LAMBDA e : e.key # k) IN
  /\ k \notin ToSet(processed_witnesses)
  /\ k \in KeysOf(cache)
  /\ IF Finalizes(entry)
     THEN /\ parts_cache' = others
          /\ processed_witnesses' = Pushed(processed_witnesses, k, PROCESSED_WITNESSES_CACHE_SIZE)
          /\ sent' = IF k \in Undecodable THEN sent
                     ELSE [sent EXCEPT ![k] = Append(@, entry.contracts)]
     ELSE /\ parts_cache' = Append(others, entry)
          /\ UNCHANGED <<processed_witnesses, sent>>

\* store_partial_encoded_state_witness
StorePart(k, ord) ==
  LET entry == EntryOf(k, WithEntry(k)) IN
  /\ ProcessUpdate(k, WithEntry(k),
       IF Decoded(entry) THEN entry ELSE [entry EXCEPT !.parts = @ \cup {ord}])
  /\ asked_for' = asked_for \ Evicted(WithEntry(k))

\* store_accessed_contract_hashes
StoreAccessedContracts(k) ==
  LET entry == EntryOf(k, WithEntry(k)) IN
  /\ ProcessUpdate(k, WithEntry(k),
       IF entry.contracts = "Unknown" THEN [entry EXCEPT !.contracts = "Requested"] ELSE entry)
  /\ asked_for' = (asked_for \ Evicted(WithEntry(k))) \cup {k}

\* store_accessed_contract_codes; codes that are not the requested ones are ignored.
StoreContractCodes(k, right) ==
  LET entry == EntryOf(k, parts_cache) IN
  /\ ProcessUpdate(k, parts_cache,
       IF entry.contracts = "Requested" /\ right THEN [entry EXCEPT !.contracts = "Received"] ELSE entry)
  /\ UNCHANGED asked_for

WitnessNext ==
  \/ \E k \in WitnessKeys, ord \in PartOrds : StorePart(k, ord)
  \/ \E k \in LacksContracts : StoreAccessedContracts(k)
  \/ \E k \in LacksContracts, right \in BOOLEAN : StoreContractCodes(k, right)

WitnessSpec == WitnessInit /\ [][WitnessNext]_witnessVars

---------------------------------------------------------------------------
(* Properties *)

\* Each witness goes to the validation actors once, whatever comes again after that; when the
\* code of its contracts was asked for, it goes with the right code, in whatever order parts and
\* code come, and before them not at all.  An evicted entry forgets what it asked for: if its
\* parts come again, they go without.  No entry is left behind that is complete or whose
\* witness has gone.
WitnessesGoOutOnce ==
  /\ \A k \in WitnessKeys : Len(sent[k]) <= 1
  /\ \A k \in asked_for : ToSet(sent[k]) \subseteq {"Received"}
  /\ \A i \in DOMAIN parts_cache :
       /\ parts_cache[i].key \notin ToSet(processed_witnesses)
       /\ Decoded(parts_cache[i]) => parts_cache[i].contracts = "Requested"

=============================================================================
