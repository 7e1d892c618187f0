--------------------------- MODULE DoomslugProofs ---------------------------
(***************************************************************************)
(* Doomslug is safe for every set of validators, every stake distribution  *)
(* that satisfies QuorumAssumption, every height and every crash pattern:  *)
(* IndInv is an invariant of Spec, and FinalitySafety follows from it.     *)
(***************************************************************************)
EXTENDS DoomslugSteps

-----------------------------------------------------------------------------
(***************************************************************************)
(* Steps that store a block, and crashes around the writes.                *)
(***************************************************************************)

\* latest_known written ahead of everything else, then a restart.
LEMMA LatestKnownPreserves ==
  ASSUME IndInv, NEW v \in Honest, NEW h \in Nat, latest_known[v] < h,
         latest_known' = [latest_known EXCEPT ![v] = h],
         ds' = [ds EXCEPT ![v] = NewDoomslug(saved_target[v])],
         UNCHANGED <<blocks, sent, known, head, final_head, saved_target>>
  PROVE  IndInv'
  <1>1. /\ latest_known \in [Honest -> Nat] /\ saved_target[v] \in Nat
        /\ ds \in [Honest -> DoomslugStates] /\ saved_target \in [Honest -> Nat]
    BY DEF IndInv, TypeOK
  <1>2. /\ latest_known' \in [Honest -> Nat]
        /\ \A w \in Honest : latest_known[w] <= latest_known'[w]
    BY <1>1
  <1>3. /\ ds' \in [Honest -> DoomslugStates]
        /\ \A w \in Honest \ {v} : ds'[w] = ds[w]
        /\ ds'[v].largest_target = saved_target[v]
        /\ ds'[v].tip = NoBlock /\ NoBlock # head[v]
    <2>1. /\ NewDoomslug(saved_target[v]) \in DoomslugStates
          /\ NewDoomslug(saved_target[v]).largest_target = saved_target[v]
          /\ NewDoomslug(saved_target[v]).tip = NoBlock /\ NoBlock # head[v]
      BY <1>1, RestartedDoomslug
    <2> QED BY <1>1, <2>1
  <1>4. TypeOK'
    <2>1. Approvals' = Approvals /\ DoomslugStates' = DoomslugStates
      BY DEF Approvals, DoomslugStates
    <2> QED BY <1>2, <1>3, <2>1 DEF IndInv, TypeOK
  <1>5. SentIsCovered' /\ TipFollowsHead'
    <2>1. \A w \in Honest : saved_target[w] <= ds'[w].largest_target
      BY <1>1, <1>3 DEF IndInv, SentIsCovered
    <2>2. SentIsCovered'
      BY <2>1 DEF IndInv, SentIsCovered
    <2>3. TipFollowsHead'
      BY <1>3 DEF IndInv, TipFollowsHead
    <2> QED BY <2>2, <2>3
  <1>6. /\ BlocksFormATree' /\ BlocksAreApproved' /\ FinalityPointersAreEarned'
        /\ HeadsAreBest'
    BY MoreApprovals
  <1>7. NoConflictingApprovals' /\ OneBlockPerHonestHeight'
    BY DEF IndInv, NoConflictingApprovals, OneBlockPerHonestHeight
  <1>8. \A b \in blocks : Height(b) \in Nat
    BY HeadHeight DEF IndInv
  <1>9. \A w \in Honest : latest_known[w] \in Nat /\ latest_known'[w] \in Nat
    BY <1>1, <1>2
  <1>10. LatestKnownCoversHead'
    BY <1>2, <1>8, <1>9 DEF IndInv, LatestKnownCoversHead, TypeOK
  <1>11. ProducedIsKnown'
    BY <1>2, <1>8, <1>9 DEF IndInv, ProducedIsKnown
  <1> QED BY <1>4, <1>5, <1>6, <1>7, <1>10, <1>11 DEF IndInv

\* A crash between saving the height and sending the block of that height.
LEMMA CrashBeforeBlockSentStep ==
  ASSUME IndInv, NEW v \in Honest, CrashBeforeBlockSent(v)
  PROVE  IndInv'
  <1>1. PICK height \in Heights :
          /\ height > latest_known[v]
          /\ latest_known' = [latest_known EXCEPT ![v] = height]
          /\ ds' = [ds EXCEPT ![v] = NewDoomslug(saved_target[v])]
          /\ UNCHANGED <<blocks, sent, store, saved_target>>
    BY Zenon DEF CrashBeforeBlockSent
  <1>2. height \in Nat /\ latest_known[v] \in Nat
    BY ConstantsAssumption DEF Heights, IndInv, TypeOK
  <1>3. latest_known[v] < height
    BY <1>1, <1>2
  <1> QED BY Zenon, <1>1, <1>2, <1>3, LatestKnownPreserves DEF store

\* A crash between writing latest_known and the transaction of the block.
LEMMA CrashBeforeBlockStoredStep ==
  ASSUME IndInv, NEW v \in Honest, CrashBeforeBlockStored(v)
  PROVE  IndInv'
  <1>1. PICK block \in blocks :
          /\ Height(block) > latest_known[v]
          /\ latest_known' = [latest_known EXCEPT ![v] = Height(block)]
          /\ ds' = [ds EXCEPT ![v] = NewDoomslug(saved_target[v])]
          /\ UNCHANGED <<blocks, sent, store, saved_target>>
    BY Zenon DEF CrashBeforeBlockStored
  <1>2. Height(block) \in Nat /\ latest_known[v] \in Nat
    BY HeadHeight DEF IndInv, TypeOK
  <1>3. latest_known[v] < Height(block)
    BY <1>1, <1>2
  <1> QED BY Zenon, <1>1, <1>2, <1>3, LatestKnownPreserves DEF store

\* Storing a block moves head, final head, latest_known and tip together.
LEMMA AcceptBlockStep ==
  ASSUME IndInv, NEW v \in Honest, AcceptBlock(v)
  PROVE  IndInv'
  <1>1. PICK block \in blocks :
          /\ known' = [known EXCEPT ![v] = @ \cup {block}]
          /\ final_head' = [final_head EXCEPT ![v] = UpdatedFinalHead(v, block)]
          /\ head' = [head EXCEPT ![v] = UpdatedHead(v, block)]
          /\ latest_known' = [latest_known EXCEPT ![v] =
                                TrySaveLatestKnown(v, Height(head'[v]))]
          /\ ds' = [ds EXCEPT ![v] = CheckAndUpdateDoomslugTip(@, head'[v])]
          /\ UNCHANGED <<blocks, sent, saved_target>>
    BY Zenon DEF AcceptBlock
  <1>2. /\ known \in [Honest -> SUBSET blocks] /\ head \in [Honest -> blocks]
        /\ final_head \in [Honest -> blocks] /\ latest_known \in [Honest -> Nat]
        /\ ds \in [Honest -> DoomslugStates] /\ sent \in [Honest -> SUBSET Approvals]
        /\ saved_target \in [Honest -> Nat] /\ blocks \subseteq Seq(Headers)
    BY DEF IndInv, TypeOK
  <1>3. \A b \in blocks : Height(b) \in Nat
    BY HeadHeight DEF IndInv
  <1> DEFINE hd == UpdatedHead(v, block)
             fh == UpdatedFinalHead(v, block)
             d2 == CheckAndUpdateDoomslugTip(ds[v], hd)
             lk == IF Height(hd) > latest_known[v] THEN Height(hd) ELSE latest_known[v]
  <1>4. /\ hd \in blocks /\ Height(head[v]) <= Height(hd) /\ Height(block) <= Height(hd)
        /\ hd \in {head[v], block}
    BY <1>2, <1>3 DEF UpdatedHead
  <1>5. /\ fh \in blocks
        /\ \/ fh = final_head[v]
           \/ /\ Header(block).last_final > 0
              /\ fh = Prefix(block, Header(block).last_final)
    <2>1. CASE fh = final_head[v]
      BY <1>2, <2>1
    <2>2. CASE fh # final_head[v]
      <3>1. Header(block).last_final > 0 /\ fh = Prefix(block, Header(block).last_final)
        BY <2>2 DEF UpdatedFinalHead
      <3>2. Header(block).last_final \in Nat /\ Len(block) \in Nat
        BY HeadHeight DEF IndInv
      <3>3. Header(block).last_final + 1 < Len(block)
        BY <3>1 DEF IndInv, FinalityPointersAreEarned
      <3>4. Header(block).last_final \in 1..Len(block)
        BY <3>1, <3>2, <3>3
      <3>5. Prefix(block, Header(block).last_final) \in blocks
        BY <3>4 DEF IndInv, BlocksFormATree
      <3> QED BY <3>1, <3>5
    <2> QED BY <2>1, <2>2
  <1>6. lk \in Nat /\ Height(hd) <= lk /\ latest_known[v] <= lk
    BY <1>2, <1>3, <1>4
  <1>7. /\ d2 \in DoomslugStates /\ d2.tip = hd /\ d2.largest_target = ds[v].largest_target
        /\ d2.timer_height > Height(hd)
    <2>1. Height(hd) \in Nat /\ ds[v] \in DoomslugStates
      BY <1>2, <1>3, <1>4
    <2>2. hd # NoBlock
      <3>1. Len(hd) >= 1
        BY <1>4, HeadHeight DEF IndInv
      <3> QED BY <3>1 DEF NoBlock
    <2>3. ds[v].tip = hd => ds[v].timer_height > Height(hd)
      BY <2>2 DEF IndInv, TipFollowsHead
    <2> QED BY <1>4, <2>1, <2>3, TipFacts
  <1> HIDE DEF hd, fh, d2, lk
  <1>8. head' = [head EXCEPT ![v] = hd] /\ head'[v] = hd
    BY <1>1, <1>2 DEF hd
  <1>9. /\ final_head' = [final_head EXCEPT ![v] = fh]
        /\ latest_known' = [latest_known EXCEPT ![v] = lk]
        /\ ds' = [ds EXCEPT ![v] = d2]
        /\ known' = [known EXCEPT ![v] = known[v] \cup {block}]
    BY Zenon, <1>1, <1>8 DEF fh, lk, d2, TrySaveLatestKnown
  <1>10. /\ final_head'[v] = fh /\ latest_known'[v] = lk /\ ds'[v] = d2
         /\ known'[v] = known[v] \cup {block}
         /\ \A w \in Honest \ {v} : /\ head'[w] = head[w] /\ final_head'[w] = final_head[w]
                                    /\ latest_known'[w] = latest_known[w]
                                    /\ ds'[w] = ds[w] /\ known'[w] = known[w]
    BY <1>2, <1>8, <1>9
  <1>11. UNCHANGED <<blocks, sent, saved_target>>
    BY <1>1
  <1>12. \A w \in Honest : /\ Height(head[w]) \in Nat /\ Height(head'[w]) \in Nat
                           /\ Height(head[w]) <= Height(head'[w])
                           /\ latest_known[w] \in Nat /\ latest_known'[w] \in Nat
                           /\ latest_known[w] <= latest_known'[w]
                           /\ Height(head'[w]) <= latest_known'[w]
    <2> SUFFICES ASSUME NEW w \in Honest
                 PROVE  /\ Height(head[w]) \in Nat /\ Height(head'[w]) \in Nat
                        /\ Height(head[w]) <= Height(head'[w])
                        /\ latest_known[w] \in Nat /\ latest_known'[w] \in Nat
                        /\ latest_known[w] <= latest_known'[w]
                        /\ Height(head'[w]) <= latest_known'[w]
      OBVIOUS
    <2>1. Height(head[w]) <= latest_known[w]
      BY DEF IndInv, LatestKnownCoversHead
    <2>2. Height(head[w]) \in Nat /\ latest_known[w] \in Nat
      BY <1>2, <1>3
    <2>3. CASE w = v
      BY <1>3, <1>4, <1>6, <1>8, <1>10, <2>2, <2>3
    <2>4. CASE w # v
      BY <1>10, <2>1, <2>2, <2>4
    <2> QED BY <2>3, <2>4
  <1>13. TypeOK'
    <2>1. Approvals' = Approvals /\ DoomslugStates' = DoomslugStates
      BY <1>11 DEF Approvals, DoomslugStates
    <2>2. /\ known' \in [Honest -> SUBSET blocks] /\ head' \in [Honest -> blocks]
          /\ final_head' \in [Honest -> blocks] /\ latest_known' \in [Honest -> Nat]
          /\ ds' \in [Honest -> DoomslugStates]
      BY <1>2, <1>4, <1>5, <1>6, <1>7, <1>8, <1>9
    <2> QED BY <1>2, <1>11, <2>1, <2>2 DEF TypeOK
  <1>14. /\ BlocksFormATree' /\ BlocksAreApproved' /\ FinalityPointersAreEarned'
         /\ NoConflictingApprovals' /\ OneBlockPerHonestHeight'
    BY Zenon, <1>11 DEF IndInv, BlocksFormATree, BlocksAreApproved, FinalityPointersAreEarned,
                 NoConflictingApprovals, OneBlockPerHonestHeight
  <1>15. SentIsCovered'
    <2>1. \A w \in Honest : saved_target'[w] <= ds'[w].largest_target
      BY <1>7, <1>10, <1>11 DEF IndInv, SentIsCovered
    <2>2. ASSUME NEW w \in Honest, NEW a \in sent[w]
          PROVE  /\ a.target <= saved_target[w]
                 /\ a.type = "Endorsement" =>
                      /\ a.hash \in blocks /\ a.target = Height(a.hash) + 1
                      /\ Height(a.hash) <= Height(head'[w])
                 /\ a.type = "Skip" => a.height + 1 < a.target /\ a.height <= Height(head'[w])
      <3>1. /\ a.target <= saved_target[w]
            /\ a.type = "Endorsement" =>
                 /\ a.hash \in blocks /\ a.target = Height(a.hash) + 1
                 /\ Height(a.hash) <= Height(head[w])
            /\ a.type = "Skip" => a.height + 1 < a.target /\ a.height <= Height(head[w])
        BY DEF IndInv, SentIsCovered
      <3>2. a.height \in Nat
        BY <1>2 DEF Approvals
      <3> QED BY <1>3, <1>12, <3>1, <3>2
    <2> QED BY <1>11, <2>1, <2>2 DEF SentIsCovered
  <1>16. TipFollowsHead'
    BY <1>7, <1>8, <1>10 DEF IndInv, TipFollowsHead
  <1>17. HeadsAreBest'
    <2>1. ASSUME NEW w \in Honest, NEW b \in known'[w]
          PROVE  Height(b) <= Height(head'[w])
      <3>1. CASE b \in known[w]
        <4>1. Height(b) <= Height(head[w]) /\ Height(b) \in Nat
          BY <1>2, <1>3, <3>1 DEF IndInv, HeadsAreBest
        <4> QED BY <1>12, <4>1
      <3>2. CASE w = v /\ b = block
        BY <1>4, <1>8, <3>2
      <3> QED BY <1>10, <3>1, <3>2
    <2>2. ASSUME NEW w \in Honest PROVE head'[w] \in known'[w]
      BY <1>4, <1>8, <1>10 DEF IndInv, HeadsAreBest
    <2>3. ASSUME NEW w \in Honest
          PROVE  \/ final_head'[w] = Genesis
                 \/ \E b \in known'[w] : /\ Header(b).last_final > 0
                                         /\ final_head'[w] = Prefix(b, Header(b).last_final)
      <3>1. CASE final_head'[w] = final_head[w]
        <4>1. known[w] \subseteq known'[w]
          BY <1>10
        <4> QED BY <3>1, <4>1 DEF IndInv, HeadsAreBest
      <3>2. CASE final_head'[w] # final_head[w]
        BY <1>5, <1>10, <3>2
      <3> QED BY <3>1, <3>2
    <2> QED BY <2>1, <2>2, <2>3 DEF HeadsAreBest
  <1>18. LatestKnownCoversHead'
    BY <1>12 DEF LatestKnownCoversHead
  <1>19. ProducedIsKnown'
    BY <1>3, <1>11, <1>12 DEF IndInv, ProducedIsKnown
  <1> QED BY <1>13, <1>14, <1>15, <1>16, <1>17, <1>18, <1>19 DEF IndInv

-----------------------------------------------------------------------------
\* Every step of every node, crashes included, keeps the invariant.
LEMMA NextIndInv == IndInv /\ [Next]_vars => IndInv'
  <1> SUFFICES ASSUME IndInv, [Next]_vars PROVE IndInv'
    OBVIOUS
  <1>1. ASSUME NEW v \in Honest, TryDoomslugTimer(v) PROVE IndInv'
    BY <1>1, TimerStep
  <1>2. ASSUME NEW v \in Honest, ProduceBlock(v) PROVE IndInv'
    BY <1>2, ProduceBlockStep
  <1>3. ASSUME NEW v \in Honest, AcceptBlock(v) PROVE IndInv'
    BY <1>3, AcceptBlockStep
  <1>4. ASSUME NEW v \in Honest, TryDoomslugTimerCommitFails(v) PROVE IndInv'
    BY <1>4, CommitFailsStep
  <1>5. ASSUME NEW v \in Honest, CrashWhileSending(v) PROVE IndInv'
    BY <1>5, CrashWhileSendingStep
  <1>6. ASSUME NEW v \in Honest, Crash(v) PROVE IndInv'
    BY <1>6, CrashStep
  <1>7. ASSUME NEW v \in Honest, CrashBeforeBlockSent(v) PROVE IndInv'
    BY <1>7, CrashBeforeBlockSentStep
  <1>8. ASSUME NEW v \in Honest, CrashBeforeBlockStored(v) PROVE IndInv'
    BY <1>8, CrashBeforeBlockStoredStep
  <1>9. CASE FaultyProduceBlock
    BY <1>9, FaultyProduceBlockStep
  <1>10. CASE UNCHANGED vars
    BY Zenon, <1>10 DEF vars, IndInv, TypeOK, Approvals, DoomslugStates, BlocksFormATree,
                 BlocksAreApproved, FinalityPointersAreEarned, SentIsCovered, TipFollowsHead,
                 HeadsAreBest, NoConflictingApprovals, LatestKnownCoversHead,
                 ProducedIsKnown, OneBlockPerHonestHeight
  <1>11. \A v \in Unreliable : v \in Honest
    BY ConstantsAssumption
  <1> QED BY <1>1, <1>2, <1>3, <1>4, <1>5, <1>6, <1>7, <1>8, <1>9, <1>10, <1>11 DEF Next

\* The inductive invariant holds in every reachable state.
THEOREM Invariance == Spec => []IndInv
  BY InitIndInv, NextIndInv, PTL DEF Spec

\* No reachable block forks off below a final block, for any validators, any
\* stakes with less than a third faulty, any crashes (finality, block.rs).
THEOREM Finality == Spec => []FinalitySafety
  BY Invariance, FinalityFromInvariant, PTL

\* The state keeps its shape.
THEOREM TypeCorrect == Spec => []TypeOK
  <1>1. IndInv => TypeOK
    BY DEF IndInv
  <1> QED BY <1>1, Invariance, PTL

\* An honest validator never signs two conflicting approvals, whatever it
\* crashed on (process_timer and try_doomslug_timer).
THEOREM ApprovalsNeverConflict == Spec => []NoConflictingApprovals
  <1>1. IndInv => NoConflictingApprovals
    BY DEF IndInv
  <1> QED BY <1>1, Invariance, PTL

\* An honest producer never makes two blocks of one height (produce_block_on).
THEOREM ProducersDoNotEquivocate == Spec => []OneBlockPerHonestHeight
  <1>1. IndInv => OneBlockPerHonestHeight
    BY DEF IndInv
  <1> QED BY <1>1, Invariance, PTL

\* The assertion of handle_block_production never fails.
THEOREM ProductionAssertionHolds == Spec => []LatestKnownCoversHead
  <1>1. IndInv => LatestKnownCoversHead
    BY DEF IndInv
  <1> QED BY <1>1, Invariance, PTL

\* Whatever is higher than a node's final head descends from it.
LEMMA HigherBlocksExtendFinalHead ==
  ASSUME IndInv, NEW w \in Honest, NEW c \in blocks, Height(c) > Height(final_head[w])
  PROVE  IsAncestorOrSelf(final_head[w], c)
  <1>1. CASE final_head[w] = Genesis
    <2>1. Len(c) >= 1 /\ c[1] = GenesisHeader
      BY DEF IndInv, BlocksFormATree
    <2>2. Len(Genesis) = 1 /\ Genesis[1] = GenesisHeader
      BY GenesisChain
    <2>3. \A i \in 1..Len(Genesis) : Genesis[i] = c[i]
      BY <2>1, <2>2
    <2> QED BY <1>1, <2>1, <2>2, <2>3 DEF IsAncestorOrSelf
  <1>2. ASSUME NEW b \in known[w], Header(b).last_final > 0,
               final_head[w] = Prefix(b, Header(b).last_final)
        PROVE  IsAncestorOrSelf(final_head[w], c)
    <2>1. b \in blocks
      BY DEF IndInv, TypeOK
    <2>2. b \in Seq(Headers) /\ Len(b) \in Nat /\ Header(b).last_final \in Nat
      BY <2>1, HeadHeight DEF IndInv
    <2>3. Header(b).last_final + 1 < Len(b)
      BY <1>2, <2>1 DEF IndInv, FinalityPointersAreEarned
    <2>4. Header(b).last_final \in 1..Len(b)
      BY <1>2, <2>2, <2>3
    <2>5. Height(final_head[w]) = b[Header(b).last_final].height
      BY <1>2, <2>2, <2>4, ChainPrefix
    <2> QED BY <1>2, <2>1, <2>5, FinalityFromInvariant DEF FinalitySafety
  <1> QED BY <1>1, <1>2 DEF IndInv, HeadsAreBest

\* No node follows a fork of what any node considers final (update_head).
THEOREM HeadsFollowFinality == Spec => []HeadsExtendFinalHeads
  <1>1. IndInv => HeadsExtendFinalHeads
    BY HigherBlocksExtendFinalHead DEF HeadsExtendFinalHeads, IndInv, TypeOK
  <1> QED BY <1>1, Invariance, PTL

\* A final head is never abandoned (update_final_head_from_block).
THEOREM FinalHeadsOnlyExtend == Spec => FinalHeadOnlyExtends
  <1>1. IndInv /\ IndInv' /\ [Next]_vars =>
          [\A v \in Honest : IsAncestorOrSelf(final_head[v], final_head'[v])]_vars
    <2> SUFFICES ASSUME IndInv, IndInv', Next, NEW v \in Honest
                 PROVE  IsAncestorOrSelf(final_head[v], final_head'[v])
      OBVIOUS
    <2>1. final_head[v] \in blocks /\ final_head'[v] \in blocks'
      BY DEF IndInv, TypeOK
    <2>2. CASE final_head'[v] = final_head[v]
      <3>1. Len(final_head[v]) \in Nat
        BY <2>1, HeadHeight DEF IndInv
      <3> QED BY <2>2, <3>1 DEF IsAncestorOrSelf
    <2>3. CASE final_head'[v] # final_head[v]
      <3>1. PICK u \in Honest : AcceptBlock(u)
        BY Zenon, <2>3 DEF Next, TryDoomslugTimer, ProduceBlock, TryDoomslugTimerCommitFails,
                    CrashWhileSending, Crash, CrashBeforeBlockSent, CrashBeforeBlockStored,
                    FaultyProduceBlock, store
      <3>2. PICK block \in blocks :
              /\ final_head' = [final_head EXCEPT ![u] = UpdatedFinalHead(u, block)]
              /\ blocks' = blocks
        BY Zenon, <3>1 DEF AcceptBlock
      <3>3. u = v /\ final_head'[v] = UpdatedFinalHead(v, block)
        BY <2>3, <3>2 DEF IndInv, TypeOK
      <3>4. Height(final_head'[v]) > Height(final_head[v])
        BY <2>3, <3>3 DEF UpdatedFinalHead
      <3> QED BY <2>1, <3>2, <3>4, HigherBlocksExtendFinalHead
    <2> QED BY <2>2, <2>3
  <1> QED BY <1>1, Invariance, PTL DEF Spec, FinalHeadOnlyExtends

=============================================================================
