------------------------- MODULE DoomslugTimerProofs -------------------------
(***************************************************************************)
(* Proofs about DoomslugTimer, for any delays that are at least 2x apart   *)
(* and any bound on the iterations.                                        *)
(***************************************************************************)
EXTENDS DoomslugTimer, TLAPS

\* A pending endorsement waits since before the timer of its height started: the
\* skip delay, which is no shorter than the endorsement delay, covers its delay.
TimerInv ==
  /\ TimerTypeOK
  /\ timer.endorsement_pending => timer.last_endorsement_sent <= timer.started

\* T is a number and at least twice the endorsement delay: the debug_assert on
\* skip_delay at the top of the loop.
LEMMA DelayBounds ==
  ASSUME NEW n \in Nat
  PROVE  GetDelay(n) \in Nat /\ GetDelay(n) >= 2 * EndorsementDelay
<1> DEFINE k == DelayStep * SaturatingSub(n, 2)
<1>1. SaturatingSub(n, 2) \in Nat
  BY DEF SaturatingSub
<1>2. k \in Nat
  BY <1>1, DelayAssumption
<1>3. GetDelay(n) = IF MinDelay + k < MaxDelay THEN MinDelay + k ELSE MaxDelay
  BY DEF GetDelay
<1> HIDE DEF k
<1> QED
  BY <1>2, <1>3, DelayAssumption

\* The skip delay of a timer.
LEMMA SkipDelayBounds ==
  ASSUME NEW t \in TimerRecords
  PROVE  SkipDelay(t) \in Nat /\ SkipDelay(t) >= 2 * EndorsementDelay
<1>1. SaturatingSub(t.height, t.largest_final) \in Nat
  BY DEF SaturatingSub, TimerRecords
<1> QED
  BY <1>1, DelayBounds DEF SkipDelay

\* The first half of an iteration leaves the timer where it is.
LEMMA AfterEndorsementFacts ==
  ASSUME TimerInv
  PROVE  LET t == AfterEndorsement(timer) IN
         /\ t \in TimerRecords
         /\ t.started = timer.started
         /\ t.last_endorsement_sent <= now
         /\ t.endorsement_pending =>
              /\ timer.endorsement_pending /\ ~EndorsementDue(timer)
              /\ t.last_endorsement_sent = timer.last_endorsement_sent
<1> DEFINE l == IF EndorsesTip(timer) THEN timer.tip + 1 ELSE timer.largest_target
           s == IF EndorsementDue(timer) THEN now ELSE timer.last_endorsement_sent
           p == timer.endorsement_pending /\ ~EndorsementDue(timer)
           t == AfterEndorsement(timer)
<1>1. /\ timer \in TimerRecords /\ now \in Nat /\ timer.last_endorsement_sent <= now
      /\ timer.tip \in Nat /\ timer.largest_target \in Nat /\ timer.last_endorsement_sent \in Nat
  BY DEF TimerInv, TimerTypeOK, TimerRecords
<1>2. l \in Nat /\ s \in Nat /\ p \in BOOLEAN /\ s <= now
  BY <1>1
<1>3. p => s = timer.last_endorsement_sent
  OBVIOUS
<1>4. t = [timer EXCEPT !.largest_target = l, !.last_endorsement_sent = s, !.endorsement_pending = p]
  BY <1>1 DEF AfterEndorsement, TimerRecords
<1> HIDE DEF l, s, t
<1>5. /\ t \in TimerRecords /\ t.started = timer.started
      /\ t.last_endorsement_sent = s /\ t.endorsement_pending = p
  <2> HIDE DEF p
  <2> QED
    BY Zenon, <1>1, <1>2, <1>4 DEF TimerRecords
<1> QED
  BY Zenon, <1>2, <1>3, <1>5 DEF t

\* The invariant implies the assertion in the loop.
LEMMA InvImpliesAssertion == TimerInv => NoSkipWhilePending
<1> SUFFICES ASSUME TimerInv, SkipDue(AfterEndorsement(timer)),
                    AfterEndorsement(timer).endorsement_pending
             PROVE  FALSE
  BY DEF NoSkipWhilePending
<1> DEFINE t == AfterEndorsement(timer)
<1>1. /\ t \in TimerRecords /\ t.started = timer.started
      /\ timer.endorsement_pending /\ ~EndorsementDue(timer)
  BY AfterEndorsementFacts
<1>2. SkipDelay(t) \in Nat /\ SkipDelay(t) >= 2 * EndorsementDelay
  BY <1>1, SkipDelayBounds
<1>3. now >= timer.started + SkipDelay(t)
  BY <1>1 DEF SkipDue
<1> HIDE DEF t
<1>4. /\ now \in Nat /\ timer.started \in Nat /\ timer.last_endorsement_sent \in Nat
      /\ timer.last_endorsement_sent <= timer.started
  BY <1>1 DEF TimerInv, TimerTypeOK, TimerRecords
<1>5. now >= timer.last_endorsement_sent + EndorsementDelay
  BY <1>2, <1>3, <1>4, DelayAssumption
<1> QED
  BY <1>1, <1>5 DEF EndorsementDue

\* Setting the tip.
LEMMA NewTipFacts ==
  ASSUME NEW t \in TimerRecords, NEW h \in Nat, NEW f \in Nat, now \in Nat
  PROVE  LET n == NewTip(t, h, f) IN
         /\ n \in TimerRecords /\ n.started = now
         /\ n.last_endorsement_sent = t.last_endorsement_sent
<1> DEFINE k == h + 1
           p == TRUE
           n == NewTip(t, h, f)
<1>1. k \in Nat /\ p \in BOOLEAN
  OBVIOUS
<1>2. n = [t EXCEPT !.tip = h, !.largest_final = f, !.height = k, !.started = now,
                    !.endorsement_pending = p]
  BY DEF NewTip
<1> HIDE DEF k, p, n
<1>3. n \in TimerRecords /\ n.started = now /\ n.last_endorsement_sent = t.last_endorsement_sent
  BY Zenon, <1>1, <1>2 DEF TimerRecords
<1> QED
  BY <1>3 DEF n

\* The first state.
LEMMA InitTimerInv == Init => TimerInv
<1> SUFFICES ASSUME Init PROVE TimerInv
  OBVIOUS
<1>1. PICK head \in 0..MaxTip, saved \in 0..MaxTip + 2 : \E last_final \in 0..head :
        timer = NewTip([tip |-> 0, largest_target |-> saved, largest_final |-> 0, height |-> 0,
                        started |-> 0, last_endorsement_sent |-> 0, endorsement_pending |-> FALSE],
                       head, last_final)
  BY Zenon DEF Init
<1>2. PICK last_final \in 0..head :
        timer = NewTip([tip |-> 0, largest_target |-> saved, largest_final |-> 0, height |-> 0,
                        started |-> 0, last_endorsement_sent |-> 0, endorsement_pending |-> FALSE],
                       head, last_final)
  BY <1>1
<1> DEFINE t0 == [tip |-> 0, largest_target |-> saved, largest_final |-> 0, height |-> 0,
                  started |-> 0, last_endorsement_sent |-> 0, endorsement_pending |-> FALSE]
<1>3. t0 \in TimerRecords /\ t0.last_endorsement_sent = 0
  BY DelayAssumption DEF TimerRecords
<1>4. timer = NewTip(t0, head, last_final)
  BY <1>2
<1> HIDE DEF t0
<1>5. head \in Nat /\ last_final \in Nat /\ now \in Nat /\ now = 0
  BY DelayAssumption DEF Init
<1>6. timer \in TimerRecords /\ timer.started = 0 /\ timer.last_endorsement_sent = 0
  BY Zenon, <1>3, <1>4, <1>5, NewTipFacts
<1> QED
  BY <1>5, <1>6, DelayAssumption DEF Init, TimerInv, TimerTypeOK

\* Every step keeps the invariant.
LEMMA NextTimerInv == TimerInv /\ [Next]_timerVars => TimerInv'
<1> SUFFICES ASSUME TimerInv, [Next]_timerVars PROVE TimerInv'
  OBVIOUS
<1>0. /\ now \in Nat /\ iter \in 0..MAX_TIMER_ITERS /\ timer \in TimerRecords
      /\ before \in TimerRecords /\ timer.started <= now /\ timer.last_endorsement_sent <= now
  BY DEF TimerInv, TimerTypeOK
<1>1. CASE SetTip
  <2>1. PICK h \in timer.tip + 1 .. MaxTip : \E f \in 0..h - 1 : timer' = NewTip(timer, h, f)
    BY <1>1 DEF SetTip
  <2>2. PICK f \in 0..h - 1 : timer' = NewTip(timer, h, f)
    BY <2>1
  <2>3. h \in Nat /\ f \in Nat
    BY <1>0, DelayAssumption DEF TimerRecords
  <2>4. /\ timer' \in TimerRecords /\ timer'.started = now
        /\ timer'.last_endorsement_sent = timer.last_endorsement_sent
    BY Zenon, <1>0, <2>2, <2>3, NewTipFacts
  <2> QED
    BY <1>0, <1>1, <2>4 DEF SetTip, TimerInv, TimerTypeOK
<1>2. CASE Tick
  BY <1>0, <1>2 DEF Tick, TimerInv, TimerTypeOK, TimerRecords
<1>3. CASE StartProcessTimer
  BY <1>0, <1>3, DelayAssumption DEF StartProcessTimer, TimerInv, TimerTypeOK
<1> DEFINE t == AfterEndorsement(timer)
<1>4. /\ t \in TimerRecords /\ t.started = timer.started /\ t.last_endorsement_sent <= now
      /\ t.endorsement_pending => /\ timer.endorsement_pending
                                  /\ t.last_endorsement_sent = timer.last_endorsement_sent
  BY AfterEndorsementFacts
<1>5. CASE IterateWithSkip
  <2>1. SkipDue(t) /\ timer' = AfterSkip(t)
    BY <1>5 DEF IterateWithSkip
  <2>2. SkipDelay(t) \in Nat
    BY <1>4, SkipDelayBounds
  <2>3. ~t.endorsement_pending
    BY <1>5, <2>1, InvImpliesAssertion DEF NoSkipWhilePending, IterateWithSkip
  <2> HIDE DEF t
  <2> DEFINE l == IF t.height + 1 > t.largest_target THEN t.height + 1 ELSE t.largest_target
  <2>4. l \in Nat /\ t.height + 1 \in Nat /\ t.started + SkipDelay(t) \in Nat
    BY <1>4, <2>2 DEF TimerRecords
  <2>5. timer' = [t EXCEPT !.largest_target = l, !.started = t.started + SkipDelay(t),
                           !.height = t.height + 1]
    BY <1>4, <2>1 DEF AfterSkip, TimerRecords
  <2> HIDE DEF l
  <2>6. /\ timer' \in TimerRecords /\ timer'.started = t.started + SkipDelay(t)
        /\ timer'.last_endorsement_sent = t.last_endorsement_sent
        /\ timer'.endorsement_pending = t.endorsement_pending
    BY Zenon, <1>4, <2>4, <2>5 DEF TimerRecords
  <2>7. timer'.started <= now
    BY <2>1, <2>6 DEF SkipDue
  <2>8. iter' \in 0..MAX_TIMER_ITERS /\ now' = now /\ before' = before
    BY <1>0, <1>5, DelayAssumption DEF IterateWithSkip
  <2> QED
    BY <1>0, <1>4, <2>3, <2>6, <2>7, <2>8 DEF TimerInv, TimerTypeOK
<1>6. CASE IterateAndBreak
  <2>1. timer' = t /\ iter' = 0 /\ now' = now /\ before' = before
    BY <1>6 DEF IterateAndBreak
  <2> HIDE DEF t
  <2> QED
    BY <1>0, <1>4, <2>1, DelayAssumption DEF TimerInv, TimerTypeOK
<1>7. CASE UNCHANGED timerVars
  BY <1>7 DEF timerVars, TimerInv, TimerTypeOK
<1> QED
  BY <1>1, <1>2, <1>3, <1>5, <1>6, <1>7 DEF Next, ProcessTimer

\* The invariant holds always.
THEOREM TimerInvariance == Spec => []TimerInv
BY InitTimerInv, NextTimerInv, PTL DEF Spec

\* The timer's state has its type and never runs ahead of the clock.
THEOREM TimerTypeCorrect == Spec => []TimerTypeOK
<1>1. TimerInv => TimerTypeOK
  BY DEF TimerInv
<1> QED
  BY <1>1, TimerInvariance, PTL

\* The debug assertion of process_timer holds: no skip overtakes an endorsement.
THEOREM TimerAssertionHolds == Spec => []NoSkipWhilePending
BY InvImpliesAssertion, TimerInvariance, PTL

=============================================================================
