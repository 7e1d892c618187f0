---------------------------- MODULE DoomslugTimer ----------------------------
(***************************************************************************)
(* Doomslug's timer with its clock: when endorsements and skips are due,   *)
(* and the loop of process_timer, one iteration per step, that catches up  *)
(* with the delays that have passed.  Only heights of blocks matter here.  *)
(* `now` is read once per call, so the clock stands still during a call.   *)
(*                                                                         *)
(* Doomslug abstracts from the clock; MatchesUntimed shows that each call  *)
(* does something that its untimed definitions allow.                      *)
(***************************************************************************)
EXTENDS Integers, Sequences

CONSTANTS
  EndorsementDelay,  \* min_block_production_delay
  MinDelay,          \* max_block_production_delay
  DelayStep,         \* max_block_production_delay / 10
  MaxDelay,          \* max_block_wait_delay
  MAX_TIMER_ITERS,
  MaxTip,            \* bound on the height of the tip
  MaxTime            \* bound on the clock

\* The configurations keep the two delays at least 2x apart (debug_assert in
\* process_timer).
ASSUME DelayAssumption ==
  /\ EndorsementDelay \in Nat /\ MinDelay \in Nat \ {0} /\ DelayStep \in Nat /\ MaxDelay \in Nat \ {0}
  /\ MinDelay >= 2 * EndorsementDelay /\ MaxDelay >= 2 * EndorsementDelay
  /\ MAX_TIMER_ITERS \in Nat \ {0} /\ MaxTip \in Nat /\ MaxTime \in Nat

VARIABLES
  now,       \* the clock
  timer,     \* the fields of Doomslug and DoomslugTimer
  iter,      \* iterations process_timer has left; 0 between calls
  ret,       \* the target heights of the approvals of this call, in order
  before,    \* `timer` at the start of this call (history)
  tip_time   \* when the tip was set (history)

timerVars == <<now, timer, iter, ret, before, tip_time>>

SaturatingSub(m, n) == IF m > n THEN m - n ELSE 0

GetDelay(n) ==
  LET d == MinDelay + DelayStep * SaturatingSub(n, 2) IN IF d < MaxDelay THEN d ELSE MaxDelay

SkipDelay(t) == GetDelay(SaturatingSub(t.height, t.largest_final))

NewTip(t, height, last_final) ==
  [t EXCEPT !.tip = height, !.largest_final = last_final, !.height = height + 1,
            !.started = now, !.endorsement_pending = TRUE]

\* A node comes up with the largest target it saved and sets its tip to the head.
Init ==
  /\ now = 0 /\ iter = 0 /\ ret = <<>> /\ tip_time = 0
  /\ \E head \in 0..MaxTip, saved \in 0..MaxTip + 2 : \E last_final \in 0..head :
       timer = NewTip([tip |-> 0, largest_target |-> saved, largest_final |-> 0, height |-> 0,
                       started |-> 0, last_endorsement_sent |-> 0, endorsement_pending |-> FALSE],
                      head, last_final)
  /\ before = timer

\* set_tip for a higher head, whose last final block may be any lower one.  (Bound:
\* not so late that the clock stops before its endorsement is due.)
SetTip ==
  /\ iter = 0
  /\ now + EndorsementDelay <= MaxTime
  /\ \E height \in timer.tip + 1 .. MaxTip : \E last_final \in 0..height - 1 :
       timer' = NewTip(timer, height, last_final)
  /\ tip_time' = now
  /\ UNCHANGED <<now, iter, ret, before>>

Tick ==
  /\ iter = 0 /\ now < MaxTime
  /\ now' = now + 1
  /\ UNCHANGED <<timer, iter, ret, before, tip_time>>

-----------------------------------------------------------------------------
StartProcessTimer ==
  /\ iter = 0
  /\ iter' = MAX_TIMER_ITERS /\ ret' = <<>> /\ before' = timer
  /\ UNCHANGED <<now, timer, tip_time>>

EndorsementDue(t) ==
  t.endorsement_pending /\ now >= t.last_endorsement_sent + EndorsementDelay

EndorsesTip(t) == EndorsementDue(t) /\ t.tip >= t.largest_target

AfterEndorsement_Mutant(t) ==
  [t EXCEPT !.largest_target = IF EndorsesTip(t) THEN t.tip + 1 ELSE @,
            !.last_endorsement_sent = IF EndorsementDue(t) THEN now ELSE @,
            !.endorsement_pending = @ /\ ~EndorsesTip(t)]

\* The first half of an iteration.
AfterEndorsement(t) ==
  [t EXCEPT !.largest_target = IF EndorsesTip(t) THEN t.tip + 1 ELSE @,
            !.last_endorsement_sent = IF EndorsementDue(t) THEN now ELSE @,
            !.endorsement_pending = @ /\ ~EndorsementDue(t)]

SkipDue(t) == now >= t.started + SkipDelay(t)

AfterSkip_Mutant(t) ==
  [t EXCEPT !.largest_target = IF t.height + 1 > @ THEN t.height + 1 ELSE @,
            !.started = now,
            !.height = @ + 1]

AfterSkipNoMax_Mutant(t) ==
  [t EXCEPT !.largest_target = t.height + 1,
            !.started = @ + SkipDelay(t),
            !.height = @ + 1]

\* The second half: the timer restarts from when it was due, not from `now`.
AfterSkip(t) ==
  [t EXCEPT !.largest_target = IF t.height + 1 > @ THEN t.height + 1 ELSE @,
            !.started = @ + SkipDelay(t),
            !.height = @ + 1]

Endorsed(t) == IF EndorsesTip(t) THEN <<t.tip + 1>> ELSE <<>>

IterateWithSkip ==
  /\ iter > 0
  /\ LET t == AfterEndorsement(timer) IN
     /\ SkipDue(t)
     /\ timer' = AfterSkip(t)
     /\ ret' = ret \o Endorsed(timer) \o <<t.height + 1>>
  /\ iter' = iter - 1
  /\ UNCHANGED <<now, before, tip_time>>

IterateAndBreak ==
  /\ iter > 0
  /\ ~SkipDue(AfterEndorsement(timer))
  /\ timer' = AfterEndorsement(timer)
  /\ ret' = ret \o Endorsed(timer)
  /\ iter' = 0
  /\ UNCHANGED <<now, before, tip_time>>

ProcessTimer == StartProcessTimer \/ IterateWithSkip \/ IterateAndBreak

Next == SetTip \/ Tick \/ ProcessTimer

Spec == Init /\ [][Next]_timerVars

\* The client calls process_timer every doomslug_step_period, and time passes: strong
\* fairness, since calls take no time in the model and disable the clock.
FairSpec == Spec /\ WF_timerVars(ProcessTimer) /\ SF_timerVars(Tick)

-----------------------------------------------------------------------------
TimerRecords ==
  [tip : Nat, largest_target : Nat, largest_final : Nat, height : Nat, started : Nat,
   last_endorsement_sent : Nat, endorsement_pending : BOOLEAN]

\* The timer's state has its type, and nothing in it lies in the future.
TimerTypeOK ==
  /\ now \in Nat /\ iter \in 0..MAX_TIMER_ITERS
  /\ timer \in TimerRecords /\ before \in TimerRecords
  /\ timer.started <= now /\ timer.last_endorsement_sent <= now

\* debug_assert!(!self.endorsement_pending): an iteration that skips has sent, or
\* given up, the endorsement of the tip.
NoSkipWhilePending ==
  iter > 0 /\ SkipDue(AfterEndorsement(timer)) => ~AfterEndorsement(timer).endorsement_pending

\* T of the paper, summed over the heights tip + 1 .. n.
DelayUpTo(n) ==
  LET sum[k \in timer.tip..n] ==
        IF k = timer.tip THEN 0 ELSE sum[k - 1] + GetDelay(SaturatingSub(k, timer.largest_final))
  IN  sum[n]

\* Calls that come late do not add up: the timer of a height starts exactly when
\* the delays of the heights before it, counted from when the tip was set, are over.
TimerDoesNotDrift == timer.started = tip_time + DelayUpTo(timer.height - 1)

-----------------------------------------------------------------------------
\* The instance as Doomslug sees it: only the height of the tip is looked at.
Untimed(t) ==
  [tip |-> <<[height |-> t.tip, tag |-> 0, last_ds_final |-> 0, last_final |-> 0]>>,
   timer_height |-> t.height, largest_target |-> t.largest_target,
   endorsement_pending |-> t.endorsement_pending]

U == INSTANCE Doomslug WITH
       Validators <- {}, Faulty <- {}, StakeThisEpoch <- <<>>, StakeNextEpoch <- <<>>,
       Producer <- <<>>, Tags <- <<>>, GenesisHeight <- 0, MaxHeight <- MaxTip + MaxTime + 2,
       Unreliable <- {}, NUM_PARENTS_TO_CHECK_FINALITY <- 0,
       blocks <- {}, sent <- <<>>, known <- <<>>, head <- <<>>, final_head <- <<>>,
       latest_known <- <<>>, saved_target <- <<>>, ds <- <<>>

Explained(endorse, skips) ==
  LET d == Untimed(before) IN
  /\ U!TimerFires(d, endorse, skips)
  /\ {ret[i] : i \in DOMAIN ret} = U!ApprovalTargets(d, endorse, skips)
  /\ Untimed(timer) = U!ProcessTimer(d, endorse, skips)

\* What an iteration of process_timer leaves is what the untimed definitions of
\* Doomslug allow: some choice of "the endorsement was due" and of a number of skips
\* explains the approvals so far and the state, and they come in order of targets,
\* as the crash in the middle of sending them assumes.
MatchesUntimed ==
  [][iter > 0 => /\ \E endorse \in BOOLEAN, skips \in 0..MAX_TIMER_ITERS : Explained(endorse, skips)'
                 /\ \A i, j \in DOMAIN ret' : i < j => ret'[i] < ret'[j]]_timerVars

\* The endorsement of a tip is sent or given up, unless a new tip replaces it.
EndorsementResolved == timer.endorsement_pending ~> ~timer.endorsement_pending

=============================================================================
