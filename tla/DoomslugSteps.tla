--------------------------- MODULE DoomslugSteps ----------------------------
(***************************************************************************)
(* IndInv holds initially, and the steps that send approvals or produce    *)
(* blocks preserve it.                                                     *)
(***************************************************************************)
EXTENDS DoomslugChains

-----------------------------------------------------------------------------
(***************************************************************************)
(* Initial states.                                                         *)
(***************************************************************************)

\* The genesis chain, as every node starts with it.
LEMMA GenesisChain ==
  /\ Genesis \in Seq(Headers) /\ Len(Genesis) = 1 /\ Genesis[1] = GenesisHeader
  /\ Header(Genesis) = GenesisHeader /\ Height(Genesis) = GenesisHeight
  /\ Prefix(Genesis, 1) = Genesis
  /\ GenesisHeight \in Nat /\ GenesisHeight \in Heights
  <1>1. GenesisHeight \in Nat /\ GenesisHeight \in Heights
    BY ConstantsAssumption DEF Heights
  <1>2. GenesisHeader \in Headers
    BY <1>1 DEF GenesisHeader, Headers
  <1>3. Genesis \in Seq(Headers) /\ Len(Genesis) = 1 /\ Genesis[1] = GenesisHeader
    BY <1>2 DEF Genesis
  <1>4. Header(Genesis) = GenesisHeader /\ Height(Genesis) = GenesisHeight
    BY <1>3 DEF Header, Height, GenesisHeader
  <1>5. Prefix(Genesis, 1) = Genesis
    <2>1. /\ Prefix(Genesis, 1) \in Seq(Headers) /\ Len(Prefix(Genesis, 1)) = 1
          /\ \A i \in 1..1 : Prefix(Genesis, 1)[i] = Genesis[i]
      BY <1>3, ChainPrefix
    <2> QED BY <1>3, <2>1, SeqEqual
  <1> QED BY <1>1, <1>3, <1>4, <1>5

LEMMA InitIndInv == Init => IndInv
  <1> SUFFICES ASSUME Init PROVE IndInv
    OBVIOUS
  <1> USE GenesisChain
  <1>1. TypeOK
    BY DEF Init, TypeOK, NewDoomslug, DoomslugStates, Approvals
  <1>0. \A b : b \in blocks <=> b = Genesis
    BY DEF Init
  <1>2. BlocksFormATree
    <2>1. \A n \in 1..Len(Genesis) : n = 1
      OBVIOUS
    <2>2. ASSUME NEW h \in Heights PROVE ~(h < Height(Genesis))
      BY DEF Heights
    <2>3. 1..Len(Genesis) - 1 = {}
      OBVIOUS
    <2>4. \A n \in 1..Len(Genesis) : Prefix(Genesis, n) \in blocks
      BY <1>0, <2>1
    <2>5. Len(Genesis) >= 1 /\ Genesis[1] = GenesisHeader
      OBVIOUS
    <2> QED BY <1>0, <2>2, <2>3, <2>4, <2>5, Zenon DEF BlocksFormATree
  <1>3. BlocksAreApproved
    <2>1. ~(Len(Genesis) > 1)
      OBVIOUS
    <2> QED BY <1>0, <2>1, Zenon DEF BlocksAreApproved
  <1>4. FinalityPointersAreEarned
    BY DEF Init, FinalityPointersAreEarned, GenesisHeader
  <1>5. SentIsCovered /\ NoConflictingApprovals
    BY DEF Init, SentIsCovered, NoConflictingApprovals, NewDoomslug
  <1>6. TipFollowsHead
    <2>1. NoBlock # Genesis
      BY DEF NoBlock
    <2> QED BY <2>1 DEF Init, TipFollowsHead, NewDoomslug
  <1>7. HeadsAreBest /\ LatestKnownCoversHead
    BY DEF Init, HeadsAreBest, LatestKnownCoversHead
  <1>8. ProducedIsKnown /\ OneBlockPerHonestHeight
    BY DEF Init, ProducedIsKnown, OneBlockPerHonestHeight
  <1> QED BY <1>1, <1>2, <1>3, <1>4, <1>5, <1>6, <1>7, <1>8 DEF IndInv

-----------------------------------------------------------------------------
(***************************************************************************)
(* Steps of the timer: approvals are issued, saved and sent.               *)
(***************************************************************************)

\* An approval that v may add to what it has sent: an endorsement of its head
\* when nothing above the head's height was approved, or a skip from its head.
MaySend(v, a) ==
  \/ /\ a = Endorsement(head[v], Height(head[v]) + 1)
     /\ Height(head[v]) >= saved_target[v]
  \/ \E t \in Nat : a = Skip(Height(head[v]), t) /\ Height(head[v]) + 1 < t

\* Moving the tip to the head keeps the largest target height.
LEMMA TipFacts ==
  ASSUME NEW d \in DoomslugStates, NEW b \in blocks, Height(b) \in Nat
  PROVE  /\ CheckAndUpdateDoomslugTip(d, b) \in DoomslugStates
         /\ CheckAndUpdateDoomslugTip(d, b).tip = b
         /\ CheckAndUpdateDoomslugTip(d, b).largest_target = d.largest_target
         /\ d.tip # b => CheckAndUpdateDoomslugTip(d, b).timer_height > Height(b)
         /\ d.tip = b => CheckAndUpdateDoomslugTip(d, b).timer_height = d.timer_height
  <1>1. CASE d.tip = b
    BY <1>1 DEF CheckAndUpdateDoomslugTip
  <1>2. CASE d.tip # b
    <2>1. CheckAndUpdateDoomslugTip(d, b)
            = [d EXCEPT !.tip = b, !.timer_height = Height(b) + 1, !.endorsement_pending = TRUE]
      BY <1>2 DEF CheckAndUpdateDoomslugTip, SetTip
    <2>2. Height(b) + 1 \in Nat /\ Height(b) + 1 > Height(b)
      OBVIOUS
    <2>3. CheckAndUpdateDoomslugTip(d, b) \in DoomslugStates
      BY Zenon, <2>1, <2>2 DEF DoomslugStates
    <2>4. /\ CheckAndUpdateDoomslugTip(d, b).tip = b
          /\ CheckAndUpdateDoomslugTip(d, b).timer_height = Height(b) + 1
          /\ CheckAndUpdateDoomslugTip(d, b).largest_target = d.largest_target
      BY <2>1 DEF DoomslugStates
    <2> QED BY <1>2, <2>2, <2>3, <2>4
  <1> QED BY <1>1, <1>2

\* What one run of process_timer returns and leaves behind.
LEMMA TimerFacts ==
  ASSUME IndInv, NEW v \in Honest, NEW endorse \in BOOLEAN,
         NEW skips \in 0..MAX_TIMER_ITERS,
         NEW d, d = CheckAndUpdateDoomslugTip(ds[v], head[v]),
         TimerFires(d, endorse, skips)
  PROVE  /\ LargestTarget(d, endorse, skips) \in Nat
         /\ ds[v].largest_target <= LargestTarget(d, endorse, skips)
         /\ ProcessTimer(d, endorse, skips) \in DoomslugStates
         /\ ProcessTimer(d, endorse, skips).tip = head[v]
         /\ ProcessTimer(d, endorse, skips).timer_height > Height(head[v])
         /\ ProcessTimer(d, endorse, skips).largest_target = LargestTarget(d, endorse, skips)
         /\ \A a \in TimerApprovals(d, endorse, skips) :
              MaySend(v, a) /\ a.target <= LargestTarget(d, endorse, skips)
  <1> DEFINE H == Height(head[v])
             lt == LargestTarget(d, endorse, skips)
  <1>1. head[v] \in blocks /\ H \in Nat
    BY HeadHeight DEF IndInv, TypeOK
  <1>2. skips \in Nat
    BY ConstantsAssumption
  <1>3. /\ ds[v] \in DoomslugStates
        /\ ds[v].tip \in {NoBlock, head[v]}
        /\ ds[v].tip = head[v] => ds[v].timer_height > H
    BY DEF IndInv, TypeOK, TipFollowsHead
  <1>4. /\ d \in DoomslugStates /\ d.tip = head[v] /\ d.timer_height > H
        /\ d.largest_target = ds[v].largest_target
    BY <1>1, <1>3, TipFacts
  <1>5. /\ d.timer_height \in Nat /\ d.largest_target \in Nat
        /\ d.endorsement_pending \in BOOLEAN
    BY <1>4 DEF DoomslugStates
  <1>6. lt \in Nat /\ ds[v].largest_target <= lt
    BY <1>1, <1>2, <1>4, <1>5 DEF LargestTarget, Endorses
  <1>7. /\ ProcessTimer(d, endorse, skips) \in DoomslugStates
        /\ ProcessTimer(d, endorse, skips).tip = head[v]
        /\ ProcessTimer(d, endorse, skips).timer_height > H
        /\ ProcessTimer(d, endorse, skips).largest_target = lt
    <2>1. /\ d.timer_height + skips \in Nat /\ d.timer_height + skips > H
          /\ (d.endorsement_pending /\ ~endorse) \in BOOLEAN
      BY <1>1, <1>2, <1>4, <1>5
    <2> HIDE DEF lt, H
    <2>2. ProcessTimer(d, endorse, skips)
            = [d EXCEPT !.largest_target = lt,
                        !.endorsement_pending = d.endorsement_pending /\ ~endorse,
                        !.timer_height = d.timer_height + skips]
      BY DEF ProcessTimer, lt
    <2> QED BY Zenon, <1>4, <1>6, <2>1, <2>2 DEF DoomslugStates
  <1>8. ASSUME NEW a \in TimerApprovals(d, endorse, skips)
        PROVE  MaySend(v, a) /\ a.target <= lt
    <2>1. PICK t \in ApprovalTargets(d, endorse, skips) : a = Approval(head[v], t)
      BY <1>4 DEF TimerApprovals
    <2>2. CASE Endorses(d, endorse) /\ t = H + 1
      <3>1. a = Endorsement(head[v], H + 1) /\ a.target = H + 1
        BY <2>1, <2>2 DEF Approval, Endorsement
      <3>2. H >= saved_target[v]
        BY <1>1, <1>4, <1>5, <2>2 DEF Endorses, IndInv, SentIsCovered, TypeOK
      <3>3. H + 1 <= lt
        BY <1>1, <1>2, <1>4, <1>5, <2>2 DEF LargestTarget
      <3> QED BY <3>1, <3>2, <3>3 DEF MaySend
    <2>3. CASE t \in d.timer_height + 1 .. d.timer_height + skips
      <3>1. t \in Nat /\ H + 1 < t /\ t <= d.timer_height + skips /\ skips > 0
        BY <1>1, <1>2, <1>4, <1>5, <2>3
      <3>2. a = Skip(H, t) /\ a.target = t
        BY <1>1, <2>1, <3>1 DEF Approval, Skip
      <3>3. t <= lt
        BY <1>1, <1>2, <1>4, <1>5, <3>1 DEF LargestTarget, Endorses
      <3> QED BY <3>1, <3>2, <3>3 DEF MaySend
    <2> QED BY <1>4, <2>1, <2>2, <2>3 DEF ApprovalTargets
  <1> QED BY <1>6, <1>7, <1>8

\* The block chains and what nodes store do not depend on approvals or on ds,
\* except that blocks stay approved when more approvals are sent.
LEMMA MoreApprovals ==
  ASSUME IndInv, UNCHANGED <<blocks, known, head, final_head>>,
         \A v \in Honest : sent[v] \subseteq sent'[v]
  PROVE  /\ BlocksFormATree' /\ FinalityPointersAreEarned' /\ HeadsAreBest'
         /\ BlocksAreApproved'
  <1>1. BlocksFormATree' /\ FinalityPointersAreEarned' /\ HeadsAreBest'
    BY DEF IndInv, BlocksFormATree, FinalityPointersAreEarned, HeadsAreBest
  <1>2. ASSUME NEW b \in blocks, Len(b) > 1
        PROVE  \E Q \in SUBSET Validators :
                 /\ CanApprovedBlockBeProduced(Q)
                 /\ \A v \in Q \ Faulty : Approval(Prev(b), Height(b)) \in sent'[v]
    <2>1. PICK Q \in SUBSET Validators :
            /\ CanApprovedBlockBeProduced(Q)
            /\ \A v \in Q \ Faulty : Approval(Prev(b), Height(b)) \in sent[v]
      BY <1>2 DEF IndInv, BlocksAreApproved
    <2>2. \A v \in Q \ Faulty : v \in Honest
      BY DEF Honest
    <2> QED BY <2>1, <2>2
  <1>3. BlocksAreApproved'
    BY <1>2, Zenon DEF BlocksAreApproved
  <1> QED BY <1>1, <1>3

\* A node that adds approvals it may send, after saving a target height that
\* covers them, keeps the invariant.
LEMMA SendPreserves ==
  ASSUME IndInv, NEW v \in Honest, NEW S, NEW s2 \in Nat, NEW d2 \in DoomslugStates,
         \A a \in S : MaySend(v, a) /\ a.target <= s2,
         saved_target[v] <= s2, s2 <= d2.largest_target,
         d2.tip \in {NoBlock, head[v]},
         d2.tip = head[v] => d2.timer_height > Height(head[v]),
         sent' = [sent EXCEPT ![v] = @ \cup S],
         saved_target' = [saved_target EXCEPT ![v] = s2],
         ds' = [ds EXCEPT ![v] = d2],
         UNCHANGED <<blocks, known, head, final_head, latest_known>>
  PROVE  IndInv'
  <1> DEFINE H == Height(head[v])
  <1>1. head[v] \in blocks /\ H \in Nat
    BY HeadHeight DEF IndInv, TypeOK
  <1>2. /\ sent \in [Honest -> SUBSET Approvals] /\ saved_target \in [Honest -> Nat]
        /\ ds \in [Honest -> DoomslugStates]
    BY DEF IndInv, TypeOK
  <1>3. /\ sent'[v] = sent[v] \cup S /\ saved_target'[v] = s2 /\ ds'[v] = d2
        /\ \A w \in Honest \ {v} : /\ sent'[w] = sent[w]
                                   /\ saved_target'[w] = saved_target[w]
                                   /\ ds'[w] = ds[w]
    BY <1>2
  <1>4. ASSUME NEW a \in S
        PROVE  \/ /\ a = Endorsement(head[v], H + 1) /\ a.type = "Endorsement"
                  /\ a.hash = head[v] /\ a.target = H + 1 /\ H >= saved_target[v]
                  /\ a \in Approvals /\ a.target <= s2
               \/ \E t \in Nat : /\ a = Skip(H, t) /\ a.type = "Skip" /\ a.height = H
                                 /\ a.target = t /\ H + 1 < t
                                 /\ a \in Approvals /\ a.target <= s2
    <2>1. MaySend(v, a) /\ a.target <= s2
      OBVIOUS
    <2>2. CASE a = Endorsement(head[v], H + 1) /\ H >= saved_target[v]
      BY <1>1, <2>1, <2>2 DEF Endorsement, Approvals
    <2>3. CASE \E t \in Nat : a = Skip(H, t) /\ H + 1 < t
      BY <1>1, <2>1, <2>3 DEF Skip, Approvals
    <2> QED BY <2>1, <2>2, <2>3 DEF MaySend
  <1>5. TypeOK'
    <2>1. S \subseteq Approvals
      BY <1>4
    <2>2. sent' \in [Honest -> SUBSET Approvals]
      BY <1>2, <2>1
    <2>3. Approvals' = Approvals /\ DoomslugStates' = DoomslugStates
      BY DEF Approvals, DoomslugStates
    <2>4. saved_target' \in [Honest -> Nat] /\ ds' \in [Honest -> DoomslugStates]
      BY <1>2
    <2> QED BY <2>2, <2>3, <2>4 DEF TypeOK, IndInv
  <1>6. /\ BlocksFormATree' /\ FinalityPointersAreEarned' /\ HeadsAreBest'
        /\ BlocksAreApproved'
    <2>1. \A w \in Honest : sent[w] \subseteq sent'[w]
      BY <1>3
    <2> QED BY <2>1, MoreApprovals
  <1>7. SentIsCovered'
    <2>1. ASSUME NEW a \in sent[v]
          PROVE  a.target <= s2
      <3>1. a.target \in Nat /\ saved_target[v] \in Nat /\ a.target <= saved_target[v]
        BY <1>2 DEF Approvals, IndInv, SentIsCovered
      <3> QED BY <3>1
    <2>2. ASSUME NEW w \in Honest, NEW a \in sent'[w]
          PROVE  /\ a.target <= saved_target'[w]
                 /\ a.type = "Endorsement" =>
                      /\ a.hash \in blocks /\ a.target = Height(a.hash) + 1
                      /\ Height(a.hash) <= Height(head[w])
                 /\ a.type = "Skip" => a.height + 1 < a.target /\ a.height <= Height(head[w])
      <3>1. CASE w # v
        BY <1>3, <3>1 DEF IndInv, SentIsCovered
      <3>2. CASE w = v /\ a \in sent[v]
        BY <1>3, <2>1, <3>2 DEF IndInv, SentIsCovered
      <3>3. CASE w = v /\ a \in S
        BY <1>1, <1>3, <1>4, <3>3
      <3> QED BY <1>3, <3>1, <3>2, <3>3
    <2>3. \A w \in Honest : saved_target'[w] <= ds'[w].largest_target
      BY <1>3 DEF IndInv, SentIsCovered
    <2> QED BY <2>2, <2>3 DEF SentIsCovered
  <1>8. TipFollowsHead'
    BY <1>3 DEF TipFollowsHead, IndInv
  <1>9. NoConflictingApprovals'
    <2>1. ASSUME NEW w \in Honest, NEW a1 \in sent'[w], NEW a2 \in sent'[w],
                 a1.type = "Endorsement"
          PROVE  /\ a2.type = "Endorsement" /\ a1.target = a2.target => a1.hash = a2.hash
                 /\ a2.type = "Skip" =>
                      ~(a2.height < Height(a1.hash) /\ Height(a1.hash) < a2.target)
      <3>1. CASE w # v \/ (a1 \in sent[v] /\ a2 \in sent[v])
        BY <1>3, <2>1, <3>1 DEF IndInv, NoConflictingApprovals
      <3>2. CASE w = v /\ a1 \in S /\ a2 \in sent[v]
        <4>1. a1.hash = head[v] /\ a1.target = H + 1 /\ H >= saved_target[v]
          BY <1>4, <2>1, <3>2
        <4>2. a2.target <= saved_target[v] /\ a2.target \in Nat /\ saved_target[v] \in Nat
          BY <1>2, <3>2 DEF Approvals, IndInv, SentIsCovered
        <4> QED BY <1>1, <4>1, <4>2
      <3>3. CASE w = v /\ a1 \in sent[v] /\ a2 \in S
        <4>1. /\ a1.target <= saved_target[v] /\ a1.target \in Nat /\ saved_target[v] \in Nat
              /\ a1.hash \in blocks /\ Height(a1.hash) <= H
          BY <1>2, <2>1, <3>3 DEF Approvals, IndInv, SentIsCovered
        <4>2. Height(a1.hash) \in Nat
          BY <4>1, HeadHeight DEF IndInv
        <4> QED BY <1>1, <1>4, <3>3, <4>1, <4>2
      <3>4. CASE w = v /\ a1 \in S /\ a2 \in S
        BY <1>1, <1>4, <2>1, <3>4
      <3> QED BY <1>3, <3>1, <3>2, <3>3, <3>4
    <2> QED BY <2>1 DEF NoConflictingApprovals
  <1>10. LatestKnownCoversHead' /\ ProducedIsKnown' /\ OneBlockPerHonestHeight'
    BY DEF IndInv, LatestKnownCoversHead, ProducedIsKnown, OneBlockPerHonestHeight
  <1> QED BY <1>5, <1>6, <1>7, <1>8, <1>9, <1>10 DEF IndInv

\* process_timer with its commit and its sends keeps the invariant.
LEMMA TimerStep ==
  ASSUME IndInv, NEW v \in Honest, TryDoomslugTimer(v)
  PROVE  IndInv'
  <1>1. PICK endorse \in BOOLEAN, skips \in 0..MAX_TIMER_ITERS :
          LET d == CheckAndUpdateDoomslugTip(ds[v], head[v]) IN
          /\ TimerFires(d, endorse, skips)
          /\ ds' = [ds EXCEPT ![v] = ProcessTimer(d, endorse, skips)]
          /\ saved_target' = [saved_target EXCEPT ![v] = ds'[v].largest_target]
          /\ sent' = [sent EXCEPT ![v] = @ \cup TimerApprovals(d, endorse, skips)]
          /\ UNCHANGED <<blocks, store, latest_known>>
    BY Zenon DEF TryDoomslugTimer
  <1> DEFINE d == CheckAndUpdateDoomslugTip(ds[v], head[v])
             lt == LargestTarget(d, endorse, skips)
             d2 == ProcessTimer(d, endorse, skips)
  <1>2. /\ lt \in Nat /\ ds[v].largest_target <= lt /\ d2 \in DoomslugStates
        /\ d2.tip = head[v] /\ d2.timer_height > Height(head[v]) /\ d2.largest_target = lt
        /\ \A a \in TimerApprovals(d, endorse, skips) : MaySend(v, a) /\ a.target <= lt
    BY <1>1, TimerFacts
  <1> HIDE DEF d, lt, d2
  <1>3. /\ ds' = [ds EXCEPT ![v] = d2] /\ saved_target' = [saved_target EXCEPT ![v] = lt]
        /\ sent' = [sent EXCEPT ![v] = @ \cup TimerApprovals(d, endorse, skips)]
        /\ UNCHANGED <<blocks, known, head, final_head, latest_known>>
    <2>1. ds'[v] = d2
      BY <1>1 DEF d, d2, IndInv, TypeOK
    <2> QED BY Zenon, <1>1, <1>2, <2>1 DEF d, d2, store
  <1>4. saved_target[v] <= lt
    <2>1. /\ saved_target[v] <= ds[v].largest_target /\ saved_target[v] \in Nat
          /\ ds[v].largest_target \in Nat
      BY DEF IndInv, SentIsCovered, TypeOK, DoomslugStates
    <2> QED BY <1>2, <2>1
  <1>5. lt <= d2.largest_target /\ d2.tip \in {NoBlock, head[v]}
    BY <1>2
  <1> QED BY <1>2, <1>3, <1>4, <1>5, SendPreserves, Zenon

\* A node that restarts takes the saved target height and no tip.
LEMMA RestartedDoomslug ==
  ASSUME IndInv, NEW v \in Honest, NEW s2 \in Nat
  PROVE  /\ NewDoomslug(s2) \in DoomslugStates
         /\ NewDoomslug(s2).largest_target = s2
         /\ NewDoomslug(s2).tip = NoBlock /\ NoBlock # head[v]
  <1>1. head[v] \in Seq(Headers) /\ Len(head[v]) >= 1
    BY HeadHeight DEF IndInv, TypeOK
  <1>2. NoBlock # head[v]
    BY <1>1 DEF NoBlock
  <1> QED BY <1>2 DEF NewDoomslug, DoomslugStates

\* A crash between the commit and the sends leaves more saved than was sent.
LEMMA CrashWhileSendingStep ==
  ASSUME IndInv, NEW v \in Honest, CrashWhileSending(v)
  PROVE  IndInv'
  <1>1. PICK endorse \in BOOLEAN, skips \in 0..MAX_TIMER_ITERS, last \in 0..MaxHeight :
          LET d == CheckAndUpdateDoomslugTip(ds[v], head[v]) IN
          /\ TimerFires(d, endorse, skips)
          /\ saved_target' = [saved_target EXCEPT ![v] = LargestTarget(d, endorse, skips)]
          /\ sent' = [sent EXCEPT ![v] =
                        @ \cup {a \in TimerApprovals(d, endorse, skips) : a.target <= last}]
          /\ ds' = [ds EXCEPT ![v] = NewDoomslug(saved_target'[v])]
          /\ UNCHANGED <<blocks, store, latest_known>>
    BY Zenon DEF CrashWhileSending
  <1> DEFINE d == CheckAndUpdateDoomslugTip(ds[v], head[v])
             lt == LargestTarget(d, endorse, skips)
             S == {a \in TimerApprovals(d, endorse, skips) : a.target <= last}
  <1>2. /\ lt \in Nat /\ ds[v].largest_target <= lt
        /\ \A a \in TimerApprovals(d, endorse, skips) : MaySend(v, a) /\ a.target <= lt
    BY <1>1, TimerFacts
  <1>3. \A a \in S : MaySend(v, a) /\ a.target <= lt
    BY <1>2
  <1> HIDE DEF d, lt, S
  <1>4. saved_target' = [saved_target EXCEPT ![v] = lt] /\ sent' = [sent EXCEPT ![v] = @ \cup S]
    BY <1>1 DEF d, lt, S
  <1>5. ds' = [ds EXCEPT ![v] = NewDoomslug(lt)]
    <2>1. saved_target'[v] = lt
      BY <1>4 DEF IndInv, TypeOK
    <2> QED BY Zenon, <1>1, <2>1
  <1>6. saved_target[v] <= lt
    <2>1. /\ saved_target[v] <= ds[v].largest_target /\ saved_target[v] \in Nat
          /\ ds[v].largest_target \in Nat
      BY DEF IndInv, SentIsCovered, TypeOK, DoomslugStates
    <2> QED BY <1>2, <2>1
  <1>7. UNCHANGED <<blocks, known, head, final_head, latest_known>>
    BY <1>1 DEF store
  <1>8. /\ NewDoomslug(lt) \in DoomslugStates /\ lt <= NewDoomslug(lt).largest_target
        /\ NewDoomslug(lt).tip \in {NoBlock, head[v]} /\ NewDoomslug(lt).tip # head[v]
    BY <1>2, RestartedDoomslug
  <1> QED BY <1>2, <1>3, <1>4, <1>5, <1>6, <1>7, <1>8, SendPreserves, Zenon

\* A step that changes only the Doomslug instance of a node, to one that covers
\* what is saved, keeps the invariant.
LEMMA InstancePreserves ==
  ASSUME IndInv, NEW v \in Honest, NEW d2 \in DoomslugStates,
         saved_target[v] <= d2.largest_target,
         d2.tip \in {NoBlock, head[v]},
         d2.tip = head[v] => d2.timer_height > Height(head[v]),
         ds' = [ds EXCEPT ![v] = d2],
         UNCHANGED <<blocks, sent, known, head, final_head, latest_known, saved_target>>
  PROVE  IndInv'
  <1> DEFINE S == {}
  <1>1. \A a \in S : MaySend(v, a) /\ a.target <= saved_target[v]
    OBVIOUS
  <1>2. /\ sent' = [sent EXCEPT ![v] = @ \cup S]
        /\ saved_target' = [saved_target EXCEPT ![v] = saved_target[v]]
        /\ saved_target[v] \in Nat
    BY DEF IndInv, TypeOK
  <1>3. saved_target[v] <= saved_target[v]
    BY <1>2
  <1>4. UNCHANGED <<blocks, known, head, final_head, latest_known>>
    OBVIOUS
  <1> HIDE DEF S
  <1> QED BY <1>1, <1>2, <1>3, <1>4, SendPreserves, Zenon

\* When the commit fails nothing was sent, and memory is ahead of the disk.
LEMMA CommitFailsStep ==
  ASSUME IndInv, NEW v \in Honest, TryDoomslugTimerCommitFails(v)
  PROVE  IndInv'
  <1>1. PICK endorse \in BOOLEAN, skips \in 0..MAX_TIMER_ITERS :
          LET d == CheckAndUpdateDoomslugTip(ds[v], head[v]) IN
          /\ TimerFires(d, endorse, skips)
          /\ ds' = [ds EXCEPT ![v] = ProcessTimer(d, endorse, skips)]
          /\ UNCHANGED <<blocks, sent, store, latest_known, saved_target>>
    BY Zenon DEF TryDoomslugTimerCommitFails
  <1> DEFINE d == CheckAndUpdateDoomslugTip(ds[v], head[v])
             d2 == ProcessTimer(d, endorse, skips)
  <1>2. /\ LargestTarget(d, endorse, skips) \in Nat
        /\ ds[v].largest_target <= LargestTarget(d, endorse, skips)
        /\ d2.largest_target = LargestTarget(d, endorse, skips)
        /\ d2 \in DoomslugStates
        /\ d2.tip = head[v] /\ d2.timer_height > Height(head[v])
    BY <1>1, TimerFacts
  <1>3. ds' = [ds EXCEPT ![v] = d2]
    BY <1>1
  <1> HIDE DEF d, d2
  <1>4. saved_target[v] <= d2.largest_target
    <2>1. /\ saved_target[v] <= ds[v].largest_target /\ saved_target[v] \in Nat
          /\ ds[v].largest_target \in Nat
      BY DEF IndInv, SentIsCovered, TypeOK, DoomslugStates
    <2> QED BY <1>2, <2>1
  <1>5. UNCHANGED <<blocks, sent, known, head, final_head, latest_known, saved_target>>
    BY <1>1 DEF store
  <1>6. d2.tip \in {NoBlock, head[v]}
    BY <1>2
  <1> QED BY <1>2, <1>3, <1>4, <1>5, <1>6, InstancePreserves, Zenon

\* A restart reads back the saved target height.
LEMMA CrashStep ==
  ASSUME IndInv, NEW v \in Honest, Crash(v)
  PROVE  IndInv'
  <1>1. saved_target[v] \in Nat /\ saved_target[v] <= saved_target[v]
    BY DEF IndInv, TypeOK
  <1>2. /\ ds' = [ds EXCEPT ![v] = NewDoomslug(saved_target[v])]
        /\ UNCHANGED <<blocks, sent, known, head, final_head, latest_known, saved_target>>
    BY DEF Crash, store
  <1>3. /\ NewDoomslug(saved_target[v]) \in DoomslugStates
        /\ saved_target[v] <= NewDoomslug(saved_target[v]).largest_target
        /\ NewDoomslug(saved_target[v]).tip \in {NoBlock, head[v]}
        /\ NewDoomslug(saved_target[v]).tip # head[v]
    BY <1>1, RestartedDoomslug
  <1> QED BY <1>2, <1>3, InstancePreserves, Zenon

-----------------------------------------------------------------------------
(***************************************************************************)
(* Steps that produce a block.                                             *)
(***************************************************************************)

\* An honest producer's block keeps the invariant.
LEMMA ProduceBlockStep ==
  ASSUME IndInv, NEW v \in Honest, ProduceBlock(v)
  PROVE  IndInv'
  <1>1. PICK height \in Heights : \E tag \in Tags[height] :
          /\ Producer[height] = v
          /\ height > latest_known[v]
          /\ EnoughApprovals(head[v], height)
          /\ latest_known' = [latest_known EXCEPT ![v] = height]
          /\ blocks' = blocks \cup {MakeBlock(head[v], height, tag)}
          /\ ds' = [ds EXCEPT ![v] = CheckAndUpdateDoomslugTip(@, head[v])]
          /\ UNCHANGED <<sent, store, saved_target>>
    BY Zenon DEF ProduceBlock
  <1>2. PICK tag \in Tags[height] : blocks' = blocks \cup {MakeBlock(head[v], height, tag)}
    BY <1>1
  <1>3. tag \in Nat /\ height \in Nat
    BY ConstantsAssumption DEF Heights
  <1>4. head[v] \in blocks /\ Height(head[v]) \in Nat /\ ds[v] \in DoomslugStates
    BY HeadHeight DEF IndInv, TypeOK
  <1>5. UNCHANGED <<sent, known, head, final_head, saved_target>>
    BY <1>1 DEF store
  <1>6. /\ latest_known' \in [Honest -> Nat] /\ latest_known'[v] = height
        /\ \A w \in Honest : latest_known[w] <= latest_known'[w]
    <2>1. latest_known \in [Honest -> Nat]
      BY DEF IndInv, TypeOK
    <2>2. latest_known' = [latest_known EXCEPT ![v] = height] /\ height > latest_known[v]
      BY <1>1
    <2> QED BY <1>3, <2>1, <2>2
  <1>7. Producer[height] = v /\ latest_known[v] < height /\ height <= latest_known'[v]
    <2>1. latest_known[v] \in Nat
      BY DEF IndInv, TypeOK
    <2> QED BY <1>1, <1>3, <1>6, <2>1
  <1> DEFINE d2 == CheckAndUpdateDoomslugTip(ds[v], head[v])
  <1>8. /\ d2 \in DoomslugStates /\ d2.tip = head[v]
        /\ d2.largest_target = ds[v].largest_target
        /\ d2.timer_height > Height(head[v])
    BY <1>4, TipFacts DEF IndInv, TipFollowsHead
  <1>9. ds' = [ds EXCEPT ![v] = d2]
    BY <1>1
  <1> HIDE DEF d2
  <1>10. /\ ds' \in [Honest -> DoomslugStates]
         /\ \A w \in Honest : /\ ds'[w].largest_target = ds[w].largest_target
                              /\ ds'[w].tip \in {NoBlock, head[w]}
                              /\ ds'[w].tip = head[w] => ds'[w].timer_height > Height(head[w])
    BY <1>8, <1>9 DEF IndInv, TypeOK, TipFollowsHead
  <1>11. EnoughApprovals(head[v], height)
    BY <1>1
  <1> QED BY <1>2, <1>3, <1>4, <1>5, <1>6, <1>7, <1>10, <1>11, NewBlockPreserves

\* A faulty producer's block, on any block, keeps the invariant.
LEMMA FaultyProduceBlockStep ==
  ASSUME IndInv, FaultyProduceBlock
  PROVE  IndInv'
  <1>1. PICK prev \in blocks, height \in Heights : \E tag \in Tags[height] :
          /\ Producer[height] \in Faulty
          /\ EnoughApprovals(prev, height)
          /\ blocks' = blocks \cup {MakeBlock(prev, height, tag)}
          /\ UNCHANGED <<sent, store, latest_known, saved_target, ds>>
    BY DEF FaultyProduceBlock
  <1>2. PICK tag \in Tags[height] : blocks' = blocks \cup {MakeBlock(prev, height, tag)}
    BY <1>1
  <1>3. tag \in Nat /\ Producer[height] \notin Honest
    BY <1>1, ConstantsAssumption DEF Honest
  <1>4. UNCHANGED <<sent, known, head, final_head, saved_target, latest_known, ds>>
    BY <1>1 DEF store
  <1>5. /\ latest_known' \in [Honest -> Nat]
        /\ \A w \in Honest : latest_known[w] <= latest_known'[w]
    BY <1>4 DEF IndInv, TypeOK
  <1>6. /\ ds' \in [Honest -> DoomslugStates]
        /\ \A w \in Honest : /\ ds'[w].largest_target = ds[w].largest_target
                             /\ ds'[w].tip \in {NoBlock, head[w]}
                             /\ ds'[w].tip = head[w] => ds'[w].timer_height > Height(head[w])
    BY <1>4 DEF IndInv, TypeOK, TipFollowsHead
  <1>7. EnoughApprovals(prev, height)
    BY <1>1
  <1> QED BY SMTT(30), <1>2, <1>3, <1>4, <1>5, <1>6, <1>7, NewBlockPreserves

=============================================================================
