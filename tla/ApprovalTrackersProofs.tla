----------------------- MODULE ApprovalTrackersProofs -----------------------
(***************************************************************************)
(* Proofs about ApprovalTrackers, for any accounts, blocks, stakes and     *)
(* horizon.  That the running sums are those of the witnesses rests on     *)
(* StakesAddUp, which says what a sum over a set of accounts is.           *)
(***************************************************************************)
EXTENDS ApprovalTrackers, TLAPS

TrackersInv ==
  /\ ds \in DoomslugTrackers(Int)
  /\ now \in Nat \ {0}
  /\ StakeCountedOnce
  /\ ReadyIsConsidered
  /\ TrackersInHorizon

\* The types of the constants are used throughout.
USE TrackerConstants

\* The state after a message or a new tip keeps the invariant's parts, stated for
\* an instance d rather than for the variable.
GoodInstance(d) ==
  /\ d \in DoomslugTrackers(Int)
  /\ \A h \in Targets, i \in Inners :
       LET t == d.trackers[h][i] IN
       /\ t.exists <=> t.witness # {}
       /\ \A a \in t.witness : d.last[h][a] = i
       /\ CountsItsWitness(t)
       /\ t.exists /\ HasEnoughStake(t) => h <= d.largest_threshold /\ t.since > 0
       /\ t.exists =>
            /\ h + MAX_HEIGHTS_BEFORE_TO_STORE_APPROVALS > BlockHeight[d.tip]
            /\ h <= BlockHeight[d.tip] + MAX_HEIGHTS_AHEAD_TO_STORE_APPROVALS

\* The invariant is that of the instance and the clock.
LEMMA InvOfInstance == TrackersInv <=> (GoodInstance(ds) /\ now \in Nat \ {0})
BY DEF TrackersInv, GoodInstance, StakeCountedOnce, ReadyIsConsidered, TrackersInHorizon

\* Stakes are numbers.
LEMMA StakeTypes ==
  ASSUME NEW b \in Blocks, NEW a \in Accounts
  PROVE  /\ StakeIn(StakeThisEpoch, b, a) \in Nat
         /\ StakeIn(StakeNextEpoch, b, a) \in Nat
BY DEF StakeIn

\* A tracker with no witness counts no stake.
LEMMA NoStake ==
  ASSUME NEW t, t.basis \in Blocks, t.witness = {}, t.this = 0, t.next = 0
  PROVE  CountsItsWitness(t)
<1>1. {} \in SUBSET Accounts
  OBVIOUS
<1>2. /\ WitnessStake(StakeThisEpoch, t.basis, {}) = 0
      /\ WitnessStake(StakeNextEpoch, t.basis, {}) = 0
  BY Zenon, <1>1, StakesAddUp
<1> QED
  BY Zenon, <1>2 DEF CountsItsWitness

\* Adding a witness keeps a tracker well typed and its sums those of its witness.
LEMMA AddWitnessFacts ==
  ASSUME NEW t \in TrackerType(Int), NEW a \in Accounts
  PROVE  /\ AddWitness(t, a) \in TrackerType(Int)
         /\ AddWitness(t, a).witness = t.witness \cup {a}
         /\ AddWitness(t, a).exists = t.exists
         /\ CountsItsWitness(t) => CountsItsWitness(AddWitness(t, a))
<1>1. t.basis \in Blocks
  BY DEF TrackerType
<1>2. /\ StakeIn(StakeThisEpoch, t.basis, a) \in Nat
      /\ StakeIn(StakeNextEpoch, t.basis, a) \in Nat
  BY <1>1, StakeTypes
<1>3. CASE a \in t.witness
  BY <1>3 DEF AddWitness
<1>4. CASE a \notin t.witness
  <2> DEFINE W == t.witness \cup {a}
             n1 == t.this + StakeIn(StakeThisEpoch, t.basis, a)
             n2 == t.next + StakeIn(StakeNextEpoch, t.basis, a)
             u == AddWitness(t, a)
  <2>1. u = [t EXCEPT !.witness = W, !.this = n1, !.next = n2]
    BY <1>4 DEF AddWitness, TrackerType
  <2>2. W \in SUBSET Accounts /\ n1 \in Int /\ n2 \in Int
    BY <1>2 DEF TrackerType
  <2>3. /\ W = t.witness \cup {a}
        /\ n1 = t.this + StakeIn(StakeThisEpoch, t.basis, a)
        /\ n2 = t.next + StakeIn(StakeNextEpoch, t.basis, a)
    OBVIOUS
  <2> HIDE DEF W, n1, n2, u
  <2>4. /\ u \in TrackerType(Int) /\ u.witness = W /\ u.exists = t.exists
        /\ u.this = n1 /\ u.next = n2 /\ u.basis = t.basis
    BY Zenon, <2>1, <2>2 DEF TrackerType
  <2>5. t.witness \in SUBSET Accounts
    BY DEF TrackerType
  <2>6. /\ WitnessStake(StakeThisEpoch, t.basis, W)
             = WitnessStake(StakeThisEpoch, t.basis, t.witness) + StakeIn(StakeThisEpoch, t.basis, a)
        /\ WitnessStake(StakeNextEpoch, t.basis, W)
             = WitnessStake(StakeNextEpoch, t.basis, t.witness) + StakeIn(StakeNextEpoch, t.basis, a)
    BY <1>1, <1>4, <2>3, <2>5, StakesAddUp
  <2>7. CountsItsWitness(t) => CountsItsWitness(u)
    BY <2>3, <2>4, <2>6 DEF CountsItsWitness
  <2> QED
    BY <2>3, <2>4, <2>7 DEF u
<1> QED
  BY <1>3, <1>4

\* Starting the waiting time of a tracker changes nothing else of it, and leaves
\* no tracker with enough stake without one.
LEMMA MarkReadyFacts ==
  ASSUME NEW t \in TrackerType(Int), now \in Nat \ {0}
  PROVE  /\ MarkReady(t) \in TrackerType(Int)
         /\ MarkReady(t).witness = t.witness
         /\ MarkReady(t).exists = t.exists
         /\ HasEnoughStake(MarkReady(t)) <=> HasEnoughStake(t)
         /\ HasEnoughStake(t) => MarkReady(t).since > 0
         /\ CountsItsWitness(t) => CountsItsWitness(MarkReady(t))
<1>1. CASE HasEnoughStake(t) /\ t.since = 0
  <2>1. MarkReady(t) = [t EXCEPT !.since = now]
    BY <1>1 DEF MarkReady
  <2>2. /\ MarkReady(t) \in TrackerType(Int)
        /\ MarkReady(t).witness = t.witness
        /\ MarkReady(t).exists = t.exists
        /\ MarkReady(t).this = t.this /\ MarkReady(t).next = t.next
        /\ MarkReady(t).basis = t.basis
        /\ MarkReady(t).since = now
    BY Zenon, <2>1 DEF TrackerType
  <2>3. HasEnoughStake(MarkReady(t)) <=> HasEnoughStake(t)
    BY <2>2 DEF HasEnoughStake
  <2>4. CountsItsWitness(t) => CountsItsWitness(MarkReady(t))
    BY <2>2 DEF CountsItsWitness
  <2> QED
    BY <2>2, <2>3, <2>4
<1>2. CASE ~(HasEnoughStake(t) /\ t.since = 0)
  <2>1. MarkReady(t) = t
    BY <1>2 DEF MarkReady
  <2>2. t.since \in Nat
    BY DEF TrackerType
  <2> QED
    BY <1>2, <2>1, <2>2
<1> QED
  BY <1>1, <1>2

\* A withdrawal removes the witness and never makes a tracker ready.
LEMMA WithdrawFacts ==
  ASSUME NEW t \in TrackerType(Int), NEW a \in Accounts
  PROVE  /\ WithdrawApproval(t, a) \in TrackerType(Int)
         /\ WithdrawApproval(t, a).witness = t.witness \ {a}
         /\ WithdrawApproval(t, a).exists = t.exists
         /\ WithdrawApproval(t, a).since = t.since
         /\ HasEnoughStake(WithdrawApproval(t, a)) => HasEnoughStake(t)
         /\ CountsItsWitness(t) => CountsItsWitness(WithdrawApproval(t, a))
<1> DEFINE w == WithdrawApproval(t, a)
<1>1. t.basis \in Blocks /\ t.this \in Int /\ t.next \in Int
  BY DEF TrackerType
<1>2. /\ StakeIn(StakeThisEpoch, t.basis, a) \in Nat
      /\ StakeIn(StakeNextEpoch, t.basis, a) \in Nat
  BY <1>1, StakeTypes
<1>3. CASE a \in t.witness
  <2>1. /\ w \in TrackerType(Int)
        /\ w.witness = t.witness \ {a} /\ w.exists = t.exists /\ w.since = t.since
        /\ w.basis = t.basis
        /\ w.this = t.this - StakeIn(StakeThisEpoch, t.basis, a)
        /\ w.next = t.next - StakeIn(StakeNextEpoch, t.basis, a)
    <3> DEFINE W == t.witness \ {a}
               n1 == t.this - StakeIn(StakeThisEpoch, t.basis, a)
               n2 == t.next - StakeIn(StakeNextEpoch, t.basis, a)
    <3>1. w = [t EXCEPT !.witness = W, !.this = n1, !.next = n2]
      BY <1>3 DEF WithdrawApproval, TrackerType
    <3>2. W \in SUBSET Accounts /\ n1 \in Int /\ n2 \in Int
      BY <1>2 DEF TrackerType
    <3> HIDE DEF W, n1, n2, w
    <3>3. /\ w \in TrackerType(Int)
          /\ w.witness = W /\ w.this = n1 /\ w.next = n2
          /\ w.exists = t.exists /\ w.since = t.since /\ w.basis = t.basis
      BY Zenon, <3>1, <3>2 DEF TrackerType
    <3> QED
      BY <3>3 DEF W, n1, n2
  <2> HIDE DEF w
  <2>2. w.this <= t.this /\ w.next <= t.next /\ w.this \in Int /\ w.next \in Int
    BY <1>1, <1>2, <2>1
  <2>3. HasEnoughStake(w) => HasEnoughStake(t)
    BY <1>1, <2>1, <2>2, TotalStakes DEF HasEnoughStake
  <2>4. /\ t.witness \ {a} \in SUBSET Accounts /\ a \notin t.witness \ {a}
        /\ (t.witness \ {a}) \cup {a} = t.witness
    BY <1>3 DEF TrackerType
  <2>5. /\ WitnessStake(StakeThisEpoch, t.basis, t.witness)
             = WitnessStake(StakeThisEpoch, t.basis, w.witness) + StakeIn(StakeThisEpoch, t.basis, a)
        /\ WitnessStake(StakeNextEpoch, t.basis, t.witness)
             = WitnessStake(StakeNextEpoch, t.basis, w.witness) + StakeIn(StakeNextEpoch, t.basis, a)
        /\ WitnessStake(StakeThisEpoch, t.basis, w.witness) \in Nat
        /\ WitnessStake(StakeNextEpoch, t.basis, w.witness) \in Nat
    <3> DEFINE W == t.witness \ {a}
    <3>1. W \in SUBSET Accounts /\ a \notin W /\ t.witness = W \cup {a} /\ w.witness = W
      BY Zenon, <2>1, <2>4
    <3> HIDE DEF W
    <3> QED
      BY <1>1, <3>1, StakesAddUp
  <2>6. CountsItsWitness(t) => CountsItsWitness(w)
    BY <1>2, <2>1, <2>5 DEF CountsItsWitness
  <2> QED
    BY <2>1, <2>3, <2>6 DEF w
<1>4. CASE a \notin t.witness
  BY <1>4 DEF WithdrawApproval, TrackerType
<1> QED
  BY <1>3, <1>4

\* Putting a well-typed tracker into an instance, at one height and inner.
PutTracker(d, h, i, t) == [d EXCEPT !.trackers[h][i] = t]

\* w is d with the tracker t there: field by field and tracker by tracker.
IsPut(w, d, h, i, t) ==
  /\ w \in DoomslugTrackers(Int)
  /\ w.tip = d.tip /\ w.last = d.last
  /\ w.largest_approval = d.largest_approval
  /\ w.largest_threshold = d.largest_threshold
  /\ w.trackers[h][i] = t
  /\ \A k \in Targets, j \in Inners :
       <<k, j>> # <<h, i>> => w.trackers[k][j] = d.trackers[k][j]

\* PutTracker does that.
LEMMA PutTrackerFacts ==
  ASSUME NEW d \in DoomslugTrackers(Int), NEW h \in Targets, NEW i \in Inners,
         NEW t \in TrackerType(Int)
  PROVE  IsPut(PutTracker(d, h, i, t), d, h, i, t)
<1> DEFINE w == PutTracker(d, h, i, t)
           tr == [d.trackers EXCEPT ![h][i] = t]
<1>1. d.trackers \in [Targets -> [Inners -> TrackerType(Int)]]
  BY DEF DoomslugTrackers
<1>2. /\ tr \in [Targets -> [Inners -> TrackerType(Int)]]
      /\ tr[h][i] = t
      /\ \A k \in Targets, j \in Inners : <<k, j>> # <<h, i>> => tr[k][j] = d.trackers[k][j]
  BY <1>1
<1>3. w = [d EXCEPT !.trackers = tr]
  BY DEF PutTracker, DoomslugTrackers
<1> HIDE DEF tr, w
<1>4. /\ w \in DoomslugTrackers(Int)
      /\ w.tip = d.tip /\ w.last = d.last
      /\ w.largest_approval = d.largest_approval
      /\ w.largest_threshold = d.largest_threshold
      /\ w.trackers = tr
  BY Zenon, <1>2, <1>3 DEF DoomslugTrackers
<1> QED
  BY <1>2, <1>4 DEF w, IsPut

\* What the invariant says of the tracker of a height and an inner.
GoodTracker(d, h, i, t) ==
  /\ t.exists <=> t.witness # {}
  /\ \A a \in t.witness : d.last[h][a] = i
  /\ CountsItsWitness(t)
  /\ t.exists /\ HasEnoughStake(t) => h <= d.largest_threshold /\ t.since > 0
  /\ t.exists =>
       /\ h + MAX_HEIGHTS_BEFORE_TO_STORE_APPROVALS > BlockHeight[d.tip]
       /\ h <= BlockHeight[d.tip] + MAX_HEIGHTS_AHEAD_TO_STORE_APPROVALS

\* An instance is good when all its trackers are.
LEMMA GoodByTracker ==
  ASSUME NEW d
  PROVE  GoodInstance(d) <=>
           /\ d \in DoomslugTrackers(Int)
           /\ \A h \in Targets, i \in Inners : GoodTracker(d, h, i, d.trackers[h][i])
BY DEF GoodInstance, GoodTracker

\* The parts of an instance and of an approval.
LEMMA InstanceFields ==
  ASSUME NEW d \in DoomslugTrackers(Int)
  PROVE  /\ d.tip \in Blocks /\ BlockHeight[d.tip] \in Nat
         /\ d.largest_approval \in Nat /\ d.largest_threshold \in Nat
         /\ \A h \in Targets, i \in Inners : d.trackers[h][i] \in TrackerType(Int)
         /\ \A h \in Targets, a \in Accounts : d.last[h][a] \in Inners \cup {None}
BY DEF DoomslugTrackers

\* An absent tracker is good anywhere.
LEMMA AbsentIsGood ==
  ASSUME NEW d, NEW h, NEW i
  PROVE  NoTracker \in TrackerType(Int) /\ GoodTracker(d, h, i, NoTracker)
<1>1. CountsItsWitness(NoTracker)
  BY NoStake DEF NoTracker
<1> QED
  BY <1>1 DEF NoTracker, TrackerType, GoodTracker

\* withdraw_approval of the account's last approval at the target height keeps the
\* instance good and leaves the account without any approval there.
LEMMA WithdrawLastGood ==
  ASSUME NEW d, GoodInstance(d), NEW a \in Approvals
  PROVE  LET w == WithdrawLast(d, a) IN
         /\ GoodInstance(w)
         /\ w.tip = d.tip /\ w.last = d.last
         /\ w.largest_approval = d.largest_approval
         /\ w.largest_threshold = d.largest_threshold
         /\ \A i \in Inners : a.account \notin w.trackers[a.target][i].witness
<1> DEFINE h == a.target
           v == a.account
           l == d.last[h][v]
           w == WithdrawLast(d, a)
<1>1. d \in DoomslugTrackers(Int) /\ \A k \in Targets, j \in Inners : GoodTracker(d, k, j, d.trackers[k][j])
  BY Zenon, GoodByTracker
<1>2. h \in Targets /\ v \in Accounts /\ l \in Inners \cup {None}
  BY Zenon, <1>1, InstanceFields DEF Approvals
<1> HIDE DEF h, v, l, w
<1>3. \A j \in Inners : j # l => v \notin d.trackers[h][j].witness
  <2> SUFFICES ASSUME NEW j \in Inners, v \in d.trackers[h][j].witness
               PROVE  j = l
    OBVIOUS
  <2>1. GoodTracker(d, h, j, d.trackers[h][j])
    BY <1>1, <1>2
  <2>2. d.last[h][v] = j
    BY <2>1 DEF GoodTracker
  <2> QED
    BY <2>2 DEF l
<1>4. CASE l = None \/ ~d.trackers[h][l].exists
  <2>1. w = d
    BY Zenon, <1>4 DEF WithdrawLast, h, v, l, w
  <2>2. ASSUME NEW j \in Inners, j = l PROVE v \notin d.trackers[h][j].witness
    <3>1. GoodTracker(d, h, j, d.trackers[h][j])
      BY <1>1, <1>2
    <3>2. ~d.trackers[h][j].exists
      BY <1>4, <2>2, TrackerConstants
    <3> QED
      BY <3>1, <3>2 DEF GoodTracker
  <2> QED
    BY <1>3, <2>1, <2>2 DEF h, v, w
<1>5. CASE ~(l = None \/ ~d.trackers[h][l].exists)
  <2> DEFINE t == WithdrawApproval(d.trackers[h][l], v)
             n == IF t.witness = {} THEN NoTracker ELSE t
  <2>1. l \in Inners /\ d.trackers[h][l] \in TrackerType(Int) /\ GoodTracker(d, h, l, d.trackers[h][l])
    <3>1. l \in Inners
      BY <1>2, <1>5
    <3>2. d.trackers[h][l] \in TrackerType(Int)
      BY <1>1, <1>2, <3>1, InstanceFields
    <3> QED
      BY <1>1, <1>2, <3>1, <3>2
  <2>2. /\ t \in TrackerType(Int) /\ t.witness = d.trackers[h][l].witness \ {v}
        /\ t.exists = d.trackers[h][l].exists /\ t.since = d.trackers[h][l].since
        /\ HasEnoughStake(t) => HasEnoughStake(d.trackers[h][l])
        /\ CountsItsWitness(d.trackers[h][l]) => CountsItsWitness(t)
    BY <1>2, <2>1, WithdrawFacts
  <2>3. w = PutTracker(d, h, l, n)
    BY Zenon, <1>5 DEF WithdrawLast, PutTracker, h, v, l, w
  <2> HIDE DEF t
  <2>4. n \in TrackerType(Int) /\ GoodTracker(d, h, l, n) /\ v \notin n.witness
    <3>1. CASE t.witness = {}
      BY Zenon, <3>1, AbsentIsGood DEF NoTracker
    <3>2. CASE t.witness # {}
      BY <1>5, <2>1, <2>2, <3>2 DEF GoodTracker
    <3> QED
      BY <3>1, <3>2
  <2> HIDE DEF n
  <2>5. IsPut(w, d, h, l, n)
    BY Zenon, <1>1, <1>2, <2>1, <2>3, <2>4, PutTrackerFacts
  <2>6. ASSUME NEW k \in Targets, NEW j \in Inners
        PROVE  GoodTracker(w, k, j, w.trackers[k][j])
    <3>1. /\ w.last = d.last /\ w.tip = d.tip /\ w.largest_threshold = d.largest_threshold
          /\ w.trackers[k][j] = IF k = h /\ j = l THEN n ELSE d.trackers[k][j]
      BY <2>5 DEF IsPut
    <3>2. GoodTracker(d, k, j, w.trackers[k][j])
      BY <1>1, <2>4, <3>1
    <3> QED
      BY <3>1, <3>2 DEF GoodTracker
  <2>7. \A j \in Inners : v \notin w.trackers[h][j].witness
    BY <1>2, <1>3, <2>4, <2>5 DEF IsPut
  <2> QED
    BY <2>5, <2>6, <2>7, GoodByTracker DEF w, h, v, IsPut
<1> QED
  BY <1>4, <1>5

\* The tracker an approval ends up in holds the account, and has begun to wait if
\* it has enough stake.
LEMMA ApprovedFacts ==
  ASSUME NEW d \in DoomslugTrackers(Int), NEW a \in Approvals, NEW parent \in Blocks,
         now \in Nat \ {0}
  PROVE  LET t == d.trackers[a.target][a.inner]
             r == Approved(d, a, parent)
         IN  /\ r \in TrackerType(Int)
             /\ r.exists
             /\ r.witness = (IF t.exists THEN t.witness ELSE {}) \cup {a.account}
             /\ HasEnoughStake(r) => r.since > 0
             /\ CountsItsWitness(t) => CountsItsWitness(r)
<1> DEFINE t == d.trackers[a.target][a.inner]
           s == IF t.exists THEN t ELSE NewTracker(parent)
           u == AddWitness(s, a.account)
<1>1. t \in TrackerType(Int) /\ a.account \in Accounts
  BY Zenon, InstanceFields DEF Approvals
<1>2. /\ NewTracker(parent) \in TrackerType(Int)
      /\ NewTracker(parent).exists /\ NewTracker(parent).witness = {}
      /\ CountsItsWitness(NewTracker(parent))
  BY NoStake DEF NewTracker, TrackerType
<1>3. /\ s \in TrackerType(Int) /\ s.exists /\ s.witness = IF t.exists THEN t.witness ELSE {}
      /\ CountsItsWitness(t) => CountsItsWitness(s)
  BY Zenon, <1>1, <1>2
<1>4. Approved(d, a, parent) = MarkReady(u)
  BY DEF Approved
<1> HIDE DEF t, s
<1>5. /\ u \in TrackerType(Int) /\ u.exists /\ u.witness = s.witness \cup {a.account}
      /\ CountsItsWitness(s) => CountsItsWitness(u)
  BY <1>1, <1>3, AddWitnessFacts
<1> HIDE DEF u
<1>6. /\ MarkReady(u) \in TrackerType(Int) /\ MarkReady(u).exists
      /\ MarkReady(u).witness = u.witness
      /\ HasEnoughStake(MarkReady(u)) => MarkReady(u).since > 0
      /\ CountsItsWitness(u) => CountsItsWitness(MarkReady(u))
  BY Zenon, <1>5, MarkReadyFacts
<1> QED
  BY Zenon, <1>3, <1>4, <1>5, <1>6 DEF t

\* on_approval_message keeps an instance good.
LEMMA OnApprovalMessageGood ==
  ASSUME NEW d, GoodInstance(d), NEW a \in Approvals, NEW parent \in Blocks,
         now \in Nat \ {0}
  PROVE  GoodInstance(OnApprovalMessage(d, a, parent))
<1> DEFINE h == a.target
           v == a.account
           i == a.inner
           w == WithdrawLast(d, a)
           r == Approved(w, a, parent)
           n == OnApprovalMessage(d, a, parent)
           big == LargestThreshold(d, a, parent)
           la == Higher(h, d.largest_approval)
<1>1. CASE ~InHorizon(d, h)
  BY <1>1 DEF OnApprovalMessage
<1>2. CASE InHorizon(d, h)
  <2>1. /\ GoodInstance(w)
        /\ w.tip = d.tip /\ w.last = d.last
        /\ w.largest_approval = d.largest_approval
        /\ w.largest_threshold = d.largest_threshold
        /\ \A j \in Inners : v \notin w.trackers[h][j].witness
    BY WithdrawLastGood
  <2>2. h \in Targets /\ v \in Accounts /\ i \in Inners /\ h \in Nat
    BY Zenon DEF Approvals
  <2>3. /\ w \in DoomslugTrackers(Int)
        /\ \A k \in Targets, j \in Inners : GoodTracker(w, k, j, w.trackers[k][j])
    BY Zenon, <2>1, GoodByTracker
  <2>4. w.tip \in Blocks /\ BlockHeight[w.tip] \in Nat /\ w.largest_threshold \in Nat /\ w.largest_approval \in Nat
    BY <2>3, InstanceFields
  <2>5. la \in Nat
    BY <2>1, <2>2, <2>4 DEF Higher
  <2>6. CASE v \notin Approvers[parent]
    <3>1. big = d.largest_threshold
      BY <2>6 DEF LargestThreshold, ReadyAfter
    <3>2. n = [w EXCEPT !.largest_approval = la, !.largest_threshold = w.largest_threshold]
      BY Zenon, <1>2, <2>1, <2>6, <3>1 DEF OnApprovalMessage, ProcessApproval
    <3> HIDE DEF w, n, la
    <3>3. /\ n \in DoomslugTrackers(Int) /\ n.tip = w.tip /\ n.last = w.last
          /\ n.trackers = w.trackers /\ n.largest_threshold = w.largest_threshold
      BY Zenon, <2>3, <2>4, <2>5, <3>2 DEF DoomslugTrackers
    <3>4. \A k \in Targets, j \in Inners : GoodTracker(n, k, j, n.trackers[k][j])
      BY <2>3, <3>3 DEF GoodTracker
    <3> QED
      BY <3>3, <3>4, GoodByTracker DEF n
  <2>7. CASE v \in Approvers[parent]
    <3>1. /\ r \in TrackerType(Int) /\ r.exists
          /\ r.witness = (IF w.trackers[h][i].exists THEN w.trackers[h][i].witness ELSE {}) \cup {v}
          /\ HasEnoughStake(r) => r.since > 0
          /\ CountsItsWitness(w.trackers[h][i]) => CountsItsWitness(r)
      BY <2>3, ApprovedFacts
    <3>2. big = IF HasEnoughStake(r) THEN Higher(h, w.largest_threshold) ELSE w.largest_threshold
      BY <2>1, <2>7 DEF LargestThreshold, ReadyAfter
    <3>3. big \in Nat /\ big >= w.largest_threshold /\ (HasEnoughStake(r) => h <= big)
      <4> HIDE DEF big, r, h, w
      <4> QED
        BY <2>2, <2>4, <3>2 DEF Higher
    <3>4. n = [w EXCEPT !.trackers[h][i] = r, !.last[h][v] = i,
                        !.largest_approval = la, !.largest_threshold = big]
      BY Zenon, <1>2, <2>1, <2>7 DEF OnApprovalMessage, ProcessApproval
    <3>5. h >= BlockHeight[w.tip] /\ h <= BlockHeight[w.tip] + MAX_HEIGHTS_AHEAD_TO_STORE_APPROVALS
      BY <1>2, <2>1 DEF InHorizon
    <3> HIDE DEF h, v, i, w, r, n, big, la
    <3> DEFINE q == PutTracker(w, h, i, r)
               lst == [w.last EXCEPT ![h][v] = i]
    <3>6. IsPut(q, w, h, i, r)
      BY <2>2, <2>3, <3>1, PutTrackerFacts
    <3>7. n = [q EXCEPT !.last = lst, !.largest_approval = la, !.largest_threshold = big]
      BY <2>3, <3>4 DEF PutTracker, DoomslugTrackers
    <3>8. /\ lst \in [Targets -> [Accounts -> Inners \cup {None}]]
          /\ lst[h][v] = i
          /\ \A k \in Targets, b \in Accounts : <<k, b>> # <<h, v>> => lst[k][b] = w.last[k][b]
      BY <2>2, <2>3 DEF DoomslugTrackers
    <3> HIDE DEF q, lst
    <3>9. /\ n \in DoomslugTrackers(Int) /\ n.tip = w.tip /\ n.last = lst
          /\ n.trackers = q.trackers /\ n.largest_threshold = big
      BY Zenon, <2>5, <3>3, <3>6, <3>7, <3>8 DEF DoomslugTrackers, IsPut
    <3>10. GoodTracker(n, h, i, r)
      <4> DEFINE t == w.trackers[h][i]
      <4>1. t \in TrackerType(Int) /\ GoodTracker(w, h, i, t)
        BY <2>2, <2>3, InstanceFields
      <4>2. r.witness \subseteq t.witness \cup {v} /\ v \in r.witness
        BY <3>1
      <4> HIDE DEF t
      <4>3. \A b \in r.witness : lst[h][b] = i
        BY ZenonT(30), <2>2, <3>8, <4>1, <4>2 DEF GoodTracker, TrackerType
      <4>4. r.exists <=> r.witness # {}
        BY <3>1, <4>2
      <4>5. /\ h + MAX_HEIGHTS_BEFORE_TO_STORE_APPROVALS > BlockHeight[n.tip]
            /\ h <= BlockHeight[n.tip] + MAX_HEIGHTS_AHEAD_TO_STORE_APPROVALS
        BY <2>2, <2>4, <3>5, <3>9
      <4>6. HasEnoughStake(r) => h <= n.largest_threshold /\ r.since > 0
        BY <3>1, <3>3, <3>9
      <4>7. CountsItsWitness(r)
        BY <3>1, <4>1 DEF GoodTracker, t
      <4> QED
        BY <3>9, <4>3, <4>4, <4>5, <4>6, <4>7 DEF GoodTracker
    <3>11. ASSUME NEW k \in Targets, NEW j \in Inners, <<k, j>> # <<h, i>>
           PROVE  GoodTracker(n, k, j, n.trackers[k][j])
      <4> DEFINE t == w.trackers[k][j]
      <4>1. n.trackers[k][j] = t /\ GoodTracker(w, k, j, t) /\ t \in TrackerType(Int)
        BY <2>3, <3>6, <3>9, <3>11, InstanceFields DEF IsPut
      <4>2. k = h => v \notin t.witness
        BY <2>1 DEF v, h, w
      <4> HIDE DEF t
      <4>3. \A b \in t.witness : lst[k][b] = w.last[k][b]
        BY <3>8, <4>1, <4>2 DEF TrackerType
      <4>4. k \in Nat
        OBVIOUS
      <4> QED
        <5>1. k <= w.largest_threshold => k <= n.largest_threshold
          BY <2>4, <3>3, <3>9, <4>4
        <5>2. \A b \in t.witness : n.last[k][b] = j
          BY <3>9, <4>1, <4>3 DEF GoodTracker
        <5> QED
          BY <3>9, <4>1, <5>1, <5>2 DEF GoodTracker
    <3>12. \A k \in Targets, j \in Inners : GoodTracker(n, k, j, n.trackers[k][j])
      BY <3>6, <3>9, <3>10, <3>11 DEF IsPut
    <3> QED
      BY <3>9, <3>12, GoodByTracker DEF n
  <2> QED
    BY <2>6, <2>7
<1> QED
  BY <1>1, <1>2

\* set_tip to a higher block keeps an instance good: it drops the trackers that
\* are out of the new horizon.
LEMMA SetTipGood ==
  ASSUME NEW d, GoodInstance(d), NEW b \in Blocks, BlockHeight[b] > BlockHeight[d.tip]
  PROVE  GoodInstance(SetTip(d, b))
<1> DEFINE n == SetTip(d, b)
           tr == [h \in Targets |-> IF ShouldRetainHeight(h, BlockHeight[b]) THEN d.trackers[h] ELSE Nothing]
           ls == [h \in Targets |-> IF ShouldRetainHeight(h, BlockHeight[b]) THEN d.last[h] ELSE Nobody]
<1>1. /\ d \in DoomslugTrackers(Int)
      /\ \A k \in Targets, j \in Inners : GoodTracker(d, k, j, d.trackers[k][j])
  BY GoodByTracker
<1>2. n = [d EXCEPT !.tip = b, !.trackers = tr, !.last = ls]
  BY <1>1 DEF SetTip, DoomslugTrackers
<1>3. NoTracker \in TrackerType(Int)
  BY DEF NoTracker, TrackerType
<1>4. tr \in [Targets -> [Inners -> TrackerType(Int)]]
  BY <1>1, <1>3 DEF Nothing, DoomslugTrackers
<1>5. ls \in [Targets -> [Accounts -> Inners \cup {None}]]
  BY <1>1 DEF Nobody, DoomslugTrackers
<1>6. \A k \in Targets, j \in Inners :
        /\ ShouldRetainHeight(k, BlockHeight[b]) => tr[k][j] = d.trackers[k][j] /\ ls[k] = d.last[k]
        /\ ~ShouldRetainHeight(k, BlockHeight[b]) => tr[k][j] = NoTracker
  BY DEF Nothing
<1> HIDE DEF tr, ls, n
<1>7. /\ n \in DoomslugTrackers(Int) /\ n.tip = b /\ n.trackers = tr /\ n.last = ls
      /\ n.largest_threshold = d.largest_threshold
  BY Zenon, <1>1, <1>2, <1>4, <1>5 DEF DoomslugTrackers
<1>8. ASSUME NEW k \in Targets, NEW j \in Inners
      PROVE  GoodTracker(n, k, j, n.trackers[k][j])
  <2>1. CASE ~ShouldRetainHeight(k, BlockHeight[b])
    BY <1>6, <1>7, <2>1, AbsentIsGood
  <2>2. CASE ShouldRetainHeight(k, BlockHeight[b])
    <3> DEFINE t == d.trackers[k][j]
    <3>1. n.trackers[k][j] = t /\ n.last[k] = d.last[k] /\ GoodTracker(d, k, j, t)
      BY <1>1, <1>6, <1>7, <2>2
    <3>2. /\ k + MAX_HEIGHTS_BEFORE_TO_STORE_APPROVALS > BlockHeight[b]
          /\ k <= BlockHeight[b] + MAX_HEIGHTS_AHEAD_TO_STORE_APPROVALS
      BY <2>2 DEF ShouldRetainHeight, Higher
    <3> HIDE DEF t
    <3> QED
      BY <1>7, <3>1, <3>2 DEF GoodTracker
  <2> QED
    BY <2>1, <2>2
<1> QED
  BY Zenon, <1>7, <1>8, GoodByTracker DEF n

\* The first instance has no trackers.
LEMMA InitTrackersInv == Init => TrackersInv
<1> SUFFICES ASSUME Init PROVE TrackersInv
  OBVIOUS
<1>1. NoTracker \in TrackerType(Int)
  BY DEF NoTracker, TrackerType
<1>2. ds \in DoomslugTrackers(Int)
  BY <1>1 DEF Init, NewTrackers, Nothing, Nobody, DoomslugTrackers
<1>3. \A h \in Targets, i \in Inners : ds.trackers[h][i] = NoTracker
  BY DEF Init, NewTrackers, Nothing
<1>4. ASSUME NEW h \in Targets, NEW i \in Inners
      PROVE  GoodTracker(ds, h, i, ds.trackers[h][i])
  <2>1. GoodTracker(ds, h, i, NoTracker)
    BY AbsentIsGood
  <2> QED
    BY <1>3, <2>1
<1>5. GoodInstance(ds)
  BY <1>2, <1>4, GoodByTracker
<1>6. now \in Nat \ {0}
  BY DEF Init
<1> QED
  BY <1>5, <1>6, InvOfInstance

\* Every step keeps the invariant.
LEMMA NextTrackersInv == TrackersInv /\ [Next]_trackerVars => TrackersInv'
<1> SUFFICES ASSUME TrackersInv, [Next]_trackerVars PROVE TrackersInv'
  OBVIOUS
<1>1. GoodInstance(ds) /\ now \in Nat \ {0}
  BY InvOfInstance
<1>2. SUFFICES GoodInstance(ds)' /\ (now \in Nat \ {0})'
  BY DEF TrackersInv, GoodInstance, StakeCountedOnce, ReadyIsConsidered, TrackersInHorizon
<1>3. CASE Receive
  <2>1. PICK a \in Approvals, parent \in Blocks : ds' = OnApprovalMessage(ds, a, parent)
    BY <1>3 DEF Receive, ParentsOf
  <2>2. GoodInstance(ds')
    BY <1>1, <2>1, OnApprovalMessageGood
  <2> QED
    BY <1>1, <1>3, <2>2 DEF Receive, GoodInstance
<1>4. CASE MoveTip
  <2>1. PICK b \in Blocks : BlockHeight[b] > BlockHeight[ds.tip] /\ ds' = SetTip(ds, b)
    BY <1>4 DEF MoveTip
  <2>2. GoodInstance(ds')
    BY <1>1, <2>1, SetTipGood
  <2> QED
    BY <1>1, <1>4, <2>2 DEF MoveTip, GoodInstance
<1>5. CASE Tick
  <2>1. ds' = ds /\ now' \in Nat \ {0}
    BY <1>1, <1>5 DEF Tick
  <2>2. GoodInstance(ds')
    BY Zenon, <1>1, <2>1
  <2> QED
    BY <2>1, <2>2 DEF GoodInstance
<1>6. CASE UNCHANGED trackerVars
  <2>1. ds' = ds /\ now' = now
    BY <1>6 DEF trackerVars
  <2>2. GoodInstance(ds')
    BY Zenon, <1>1, <2>1
  <2> QED
    BY <1>1, <2>1, <2>2 DEF GoodInstance
<1> QED
  BY <1>3, <1>4, <1>5, <1>6 DEF Next

\* The invariant holds always.
THEOREM TrackersInvariance == Spec => []TrackersInv
BY InitTrackersInv, NextTrackersInv, PTL DEF Spec

\* An account's stake backs one block per target height (withdraw_approval).
THEOREM OneApprovalPerAccount == Spec => []StakeCountedOnce
<1>1. TrackersInv => StakeCountedOnce
  BY DEF TrackersInv
<1> QED
  BY <1>1, TrackersInvariance, PTL

\* Trackers are backed, once per account, and near the tip.
THEOREM TrackersStayCurrent == Spec => []TrackersAreCurrent
<1>1. TrackersInv => TrackersAreCurrent
  BY DEF TrackersInv, TrackersAreCurrent
<1> QED
  BY <1>1, TrackersInvariance, PTL

\* Block production considers every height that has enough approvals.
THEOREM NoReadyHeightMissed == Spec => []ReadyIsConsidered
<1>1. TrackersInv => ReadyIsConsidered
  BY DEF TrackersInv
<1> QED
  BY <1>1, TrackersInvariance, PTL

\* Only heights near the tip have trackers.
THEOREM TrackersBounded == Spec => []TrackersInHorizon
<1>1. TrackersInv => TrackersInHorizon
  BY DEF TrackersInv
<1> QED
  BY <1>1, TrackersInvariance, PTL

=============================================================================
