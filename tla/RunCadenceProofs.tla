--------------------------- MODULE RunCadenceProofs ---------------------------
(***************************************************************************)
(* Proofs about RunCadence for every cadence, every multiplier and every   *)
(* bound on the clock.                                                     *)
(***************************************************************************)
EXTENDS RunCadence, TLAPS

-----------------------------------------------------------------------------
(***************************************************************************)
(* The cadence                                                             *)
(***************************************************************************)

LEMMA TimeIsNat == Time \subseteq Nat /\ Never \notin Time
  BY CadenceConstants DEF Time

\* No tier is shorter than the hot one.
LEMMA TierBounds ==
  ASSUME NEW st
  PROVE  TierCadence(st) \in Nat /\ Hot <= TierCadence(st)
  BY CadenceConstants DEF TierCadence

LEMMA ScaleMonotone ==
  ASSUME NEW a \in Nat, NEW b \in Nat, a <= b, NEW multiplier \in Nat \ {0}
  PROVE  /\ a * multiplier \in Nat /\ b * multiplier \in Nat
         /\ a * multiplier <= b * multiplier
         /\ a <= a * multiplier
<1>1. PICK more \in Nat : b = a + more
  BY b - a \in Nat
<1>2. PICK less \in Nat : multiplier = 1 + less
  BY multiplier - 1 \in Nat
<1>3. b * multiplier = a * multiplier + more * multiplier
  BY <1>1
<1>4. a * multiplier = a + a * less
  BY <1>2
<1>5. /\ a * multiplier \in Nat /\ more * multiplier \in Nat /\ a * less \in Nat
  BY <1>1, <1>2
<1>6. QED
  BY <1>3, <1>4, <1>5

LEMMA ScaledCadence ==
  ASSUME NEW st, NEW multiplier \in Nat \ {0}
  PROVE  Cadence(st, multiplier) \in Nat /\ Hot * multiplier <= Cadence(st, multiplier)
  BY TierBounds, ScaleMonotone, CadenceConstants DEF Cadence

-----------------------------------------------------------------------------
(***************************************************************************)
(* The states and updates a sync can finish with                           *)
(***************************************************************************)

\* A runtime state whose run the current request may leave behind.
Orderly(st) ==
    /\ st \in Run
    /\ RunInOrder(st)

\* No update, or one that was made now.
Current(update) == update = Never \/ (update \in Told /\ update.at = now)

LEMMA ClampedTime ==
  ASSUME TypeOK, NEW stamp \in Time
  PROVE  /\ Clamped(stamp) \in Time /\ Clamped(stamp) \in Nat
         /\ Clamped(stamp) # Never /\ Clamped(stamp) <= now
<1>1. now \in Time /\ now \in Nat /\ stamp \in Nat
  BY TimeIsNat DEF TypeOK
<1>2. Clamped(stamp) \in Time /\ Clamped(stamp) <= now
  BY <1>1 DEF Clamped
<1>3. QED
  BY <1>2, TimeIsNat

LEMMA EntryOrderly ==
  ASSUME TypeOK, TimesInOrder, NEW lastActivity \in Time
  PROVE  Orderly(EntryAt(lastActivity))
<1>1. now \in Time /\ now \in Nat
  BY TimeIsNat DEF TypeOK
<1>2. \A stamp \in Time : Clamped(stamp) \in Time /\ Clamped(stamp) <= now
  BY ClampedTime
<1>3. CASE run # Never
  BY <1>3 DEF TypeOK, TimesInOrder, EntryAt, Orderly
<1>4. CASE run = Never /\ told # Never
  <2>1. told \in Told /\ told.at \in Time
    BY <1>4 DEF TypeOK, Told
  <2>2. Clamped(told.at) <= Clamped(told.at)
    BY <2>1, ClampedTime
  <2>3. QED
    BY <1>1, <1>2, <1>4, <2>1, <2>2, TimeIsNat
       DEF EntryAt, Orderly, RunInOrder, Run, Stamp, Told
<1>5. CASE run = Never /\ told = Never
  BY <1>1, <1>2, <1>5, TimeIsNat DEF EntryAt, Orderly, RunInOrder, Run, Stamp
<1>6. QED
  BY <1>3, <1>4, <1>5

\* What the steps of a sync do to the clocks keeps them in order.
LEMMA StepsOrderly ==
  ASSUME TypeOK, NEW st, Orderly(st)
  PROVE  /\ \A asleep \in BOOLEAN : Orderly([st EXCEPT !.asleep = asleep])
         /\ Orderly(Frozen(st))
         /\ Orderly(Stamped(st))
         /\ Orderly(Restarted(st))
         /\ Orderly(WokenState(st))
         /\ \A changed \in BOOLEAN : Orderly(AfterObjective(st, changed))
<1>1. now \in Time /\ now \in Nat
  BY TimeIsNat DEF TypeOK
<1>2. \A asleep \in BOOLEAN : Orderly([st EXCEPT !.asleep = asleep])
  BY DEF Orderly, RunInOrder, Run
<1>3. Orderly(Frozen(st))
  BY <1>1 DEF Frozen, Orderly, RunInOrder, Run, Stamp
<1>4. Orderly(Stamped(st))
  BY <1>1 DEF Stamped, Orderly, RunInOrder, Run, Stamp
<1>5. Orderly(Restarted(st))
  <2> DEFINE new == Restarted(st)
  <2>1. /\ new \in Run
        /\ new.started = now /\ new.finished = Never
        /\ new.stableSince = st.stableSince /\ new.lastCall = st.lastCall
    BY <1>1 DEF Restarted, Orderly, RunInOrder, Run, Stamp
  <2>2. QED
    BY <1>1, <2>1 DEF Orderly, RunInOrder
<1>6. Orderly(WokenState(st))
  <2> DEFINE restarted == Restarted(st)
             new == [restarted EXCEPT !.asleep = FALSE, !.stableSince = now,
                                      !.lastCall = Never, !.emitted = TRUE]
  <2>1. Orderly(restarted)
    BY <1>5
  <2>2. /\ new \in Run
        /\ new.started = restarted.started /\ new.finished = restarted.finished
        /\ new.stableSince = now /\ new.lastCall = Never
    BY <1>1, <2>1 DEF Orderly, Run, Stamp
  <2>3. Orderly(new)
    BY <1>1, <2>1, <2>2 DEF Orderly, RunInOrder
  <2>4. QED
    BY <2>3 DEF WokenState
<1>7. \A changed \in BOOLEAN : Orderly(AfterObjective(st, changed))
  <2> DEFINE base == IF st.hasObjective THEN Restarted(st) ELSE st
             new == [base EXCEPT !.stableSince = now, !.hasObjective = TRUE]
  <2>1. Orderly(base)
    BY <1>5
  <2>2. /\ new \in Run
        /\ new.started = base.started /\ new.finished = base.finished
        /\ new.stableSince = now /\ new.lastCall = base.lastCall
    BY <1>1, <2>1 DEF Orderly, Run
  <2>3. Orderly(new)
    BY <1>1, <2>1, <2>2 DEF Orderly, RunInOrder
  <2>4. QED
    BY <2>3 DEF AfterObjective, NewObjective
<1>8. QED
  BY <1>2, <1>3, <1>4, <1>5, <1>6, <1>7

LEMMA AnnounceCurrent ==
  ASSUME TypeOK, NEW st, Orderly(st),
         NEW kind \in {"sleeping", "clear", "passive", "prose"},
         NEW multiplier \in Nat \ {0}
  PROVE  Current(Announce(st, kind, multiplier))
<1>1. EligibleAt(st, multiplier) \in Nat
  <2>1. Cadence(st, multiplier) \in Nat
    BY ScaledCadence
  <2>2. now \in Nat /\ (st.lastCall # Never => st.lastCall \in Nat)
    BY TimeIsNat DEF TypeOK, Orderly, Run, Stamp
  <2>3. QED
    BY <2>1, <2>2 DEF EligibleAt
<1>2. now \in Time /\ exited \in BOOLEAN /\ st \in Run
  BY DEF TypeOK, Orderly
<1>3. Announce(st, kind, multiplier) \in Told
  BY <1>1, <1>2 DEF Announce, Told, Run
<1>4. Announce(st, kind, multiplier).at = now
  BY DEF Announce
<1>5. QED
  BY <1>3, <1>4 DEF Current
-----------------------------------------------------------------------------
(***************************************************************************)
(* Every sync finishes with such a state and such an update                *)
(***************************************************************************)

\* Only panes that stay as they are and engines that are merely replaced.
Uninterrupted == Interruptions \subseteq {"restart"}

SleepFrozen(st) == st.asleep <=> st.finished # Never

\* The last call after a sync: now if it called, and otherwise as before.
CallKept(st, before, calls) ==
    st.lastCall = IF calls THEN now ELSE before.lastCall

\* The update is the announcement of a live session.
Faithful(update) ==
    update # Never /\ ~exited => (update.stopped <=> update.asleep)

Outcome(before, st, update, calls, retimes) ==
    /\ Orderly(st)
    /\ Current(update)
    /\ Faithful(update)
    /\ calls \in BOOLEAN /\ retimes \in BOOLEAN
    /\ CallKept(st, before, calls)
    /\ Uninterrupted /\ ~exited /\ SleepFrozen(before) => SleepFrozen(st)
    /\ Finish(st, update, calls, retimes)

LEMMA AnnounceFaithful ==
  ASSUME NEW st, NEW kind, NEW multiplier
  PROVE  Faithful(Announce(st, kind, multiplier)) /\ Faithful(Never)
  BY DEF Announce, Faithful

LEMMA EntrySleepFrozen ==
  ASSUME TypeOK, RunMatchesSleep, ~exited, NEW lastActivity
  PROVE  SleepFrozen(EntryAt(lastActivity))
<1>1. CASE run # Never
  BY <1>1 DEF RunMatchesSleep, EntryAt, SleepFrozen
<1>2. CASE run = Never /\ told # Never
  <2>1. Clamped(told.at) # Never
    BY <1>2, ClampedTime DEF TypeOK, Told
  <2>2. QED
    BY <1>2, <2>1 DEF RunMatchesSleep, EntryAt, SleepFrozen
<1>3. CASE run = Never /\ told = Never
  BY <1>3 DEF EntryAt, SleepFrozen
<1>4. QED
  BY <1>1, <1>2, <1>3

\* Waking and a new objective of an awake session leave no frozen run.
LEMMA StepsSleepFrozen ==
  ASSUME NEW st, Orderly(st), SleepFrozen(st)
  PROVE  /\ SleepFrozen(WokenState(st)) /\ ~WokenState(st).asleep
         /\ SleepFrozen(Stamped(st))
         /\ \A changed \in BOOLEAN : ~st.asleep =>
               /\ SleepFrozen(AfterObjective(st, changed))
               /\ ~AfterObjective(st, changed).asleep
<1>1. st \in Run
  BY DEF Orderly
<1>2. SleepFrozen(WokenState(st)) /\ ~WokenState(st).asleep
  BY <1>1 DEF WokenState, Restarted, SleepFrozen, Run
<1>3. SleepFrozen(Stamped(st))
  BY <1>1 DEF Stamped, SleepFrozen, Run
<1>4. ASSUME NEW changed \in BOOLEAN, ~st.asleep
      PROVE  SleepFrozen(AfterObjective(st, changed)) /\ ~AfterObjective(st, changed).asleep
  <2> DEFINE base == IF st.hasObjective THEN Restarted(st) ELSE st
  <2>1. ~base.asleep /\ base.finished = Never
    BY <1>1, <1>4 DEF Restarted, SleepFrozen, Run
  <2>2. QED
    BY <1>1, <1>4, <2>1 DEF AfterObjective, NewObjective, Restarted, SleepFrozen, Run
<1>5. QED
  BY <1>2, <1>3, <1>4

LEMMA ObjectiveKeepsCall ==
  ASSUME NEW st, Orderly(st), NEW changed \in BOOLEAN
  PROVE  AfterObjective(st, changed).lastCall = st.lastCall
  BY DEF Orderly, AfterObjective, NewObjective, Restarted, Run

LEMMA SyncOutcome ==
  ASSUME TypeOK, TimesInOrder, NEW lastActivity \in Time, Sync(lastActivity)
  PROVE  \E st, update, calls, retimes :
           Outcome(EntryAt(lastActivity), st, update, calls, retimes)
<1> DEFINE before == EntryAt(lastActivity)
<1>1. Orderly(before) /\ before \in Run
  BY EntryOrderly DEF Orderly
<1>2. Current(Never) /\ Faithful(Never)
  BY AnnounceFaithful DEF Current
<1>3. ASSUME NEW st, Orderly(st),
             NEW kind \in {"sleeping", "clear", "passive", "prose"},
             NEW update \in Maybe(Announce(st, kind, Multiplier))
      PROVE  Current(update) /\ Faithful(update)
  BY <1>2, <1>3, AnnounceCurrent, AnnounceFaithful, CadenceConstants DEF Maybe
<1>4. CASE SyncExited(lastActivity)
  <2> DEFINE st == [before EXCEPT !.asleep = FALSE]
  <2>1. Orderly(st) /\ CallKept(st, before, FALSE)
    BY <1>1, StepsOrderly DEF CallKept, Run
  <2>2. PICK update \in Maybe(Announce(st, "clear", Multiplier)) :
          Finish(st, update, FALSE, FALSE)
    BY <1>4 DEF SyncExited
  <2>3. Current(update) /\ Faithful(update)
    BY <1>3, <2>1
  <2>4. QED
    BY <1>4, <2>1, <2>2, <2>3 DEF Outcome, SyncExited
<1>5. CASE SyncSleeping(lastActivity)
  <2> DEFINE frozen == Frozen(before)
             st == [frozen EXCEPT !.asleep = TRUE]
  <2>1. Orderly(frozen)
    BY <1>1, StepsOrderly
  <2>2. Orderly(st)
    BY <2>1, StepsOrderly
  <2>3. CallKept(st, before, FALSE) /\ SleepFrozen(st)
    BY <1>1, TimeIsNat DEF CallKept, SleepFrozen, Frozen, Run, TypeOK
  <2>4. PICK update \in Maybe(Announce(st, "sleeping", Multiplier)) :
          Finish(st, update, FALSE, FALSE)
    BY <1>5 DEF SyncSleeping
  <2>5. Current(update) /\ Faithful(update)
    BY <1>3, <2>2
  <2>6. QED
    BY <2>2, <2>3, <2>4, <2>5 DEF Outcome
<1>6. CASE SyncWithoutContext(lastActivity)
  <2>1. PICK update \in Maybe(Announce(before, "passive", Multiplier)) :
          Finish(before, update, FALSE, FALSE)
    BY <1>6 DEF SyncWithoutContext
  <2>2. Current(update) /\ Faithful(update)
    BY <1>1, <1>3
  <2>3. QED
    BY <1>1, <2>1, <2>2 DEF Outcome, CallKept
<1>7. ASSUME NEW changed \in BOOLEAN, SyncSuppressed(lastActivity, changed)
      PROVE  \E st, update, calls, retimes : Outcome(before, st, update, calls, retimes)
  <2> DEFINE st == AfterObjective(before, changed)
  <2>1. Orderly(st) /\ CallKept(st, before, FALSE)
    BY <1>1, StepsOrderly, ObjectiveKeepsCall DEF CallKept
  <2>2. ~before.asleep
    BY <1>7 DEF SyncSuppressed
  <2>3. SleepFrozen(before) => SleepFrozen(st)
    BY <1>1, <2>2, StepsSleepFrozen
  <2>4. PICK update \in Maybe(Announce(st, "passive", Multiplier)) :
          Finish(st, update, FALSE, changed)
    BY <1>7 DEF SyncSuppressed
  <2>5. Current(update) /\ Faithful(update)
    BY <1>3, <2>1
  <2>6. QED
    BY <2>1, <2>3, <2>4, <2>5 DEF Outcome
<1>8. ASSUME NEW changed \in BOOLEAN, SyncCalls(lastActivity, changed)
      PROVE  \E st, update, calls, retimes : Outcome(before, st, update, calls, retimes)
  <2> DEFINE woken == WokenState(before)
             ready == AfterObjective(woken, changed)
             st == Stamped(ready)
             retimes == changed \/ before.asleep
  <2>1. Orderly(woken)
    BY <1>1, StepsOrderly
  <2>2. Orderly(ready)
    BY <2>1, StepsOrderly
  <2>3. Orderly(st)
    BY <2>2, StepsOrderly
  <2>4. CallKept(st, before, TRUE)
    BY <2>2 DEF Orderly, CallKept, Stamped, Run
  <2>5. SleepFrozen(before) => SleepFrozen(st)
    <3>1. SUFFICES ASSUME SleepFrozen(before) PROVE SleepFrozen(st)
      OBVIOUS
    <3>2. SleepFrozen(woken) /\ ~woken.asleep
      BY <1>1, <3>1, StepsSleepFrozen
    <3>3. SleepFrozen(ready)
      BY <2>1, <3>2, StepsSleepFrozen
    <3>4. QED
      BY <2>2, <3>3, StepsSleepFrozen
  <2>6. PICK update \in {Announce(st, "prose", Multiplier),
                         Announce(woken, "clear", Multiplier),
                         Announce(st, "passive", Multiplier), Never} :
          Finish(st, update, TRUE, retimes)
    BY <1>8 DEF SyncCalls, Maybe
  <2>7. Current(update) /\ Faithful(update)
    BY <1>2, <2>1, <2>3, AnnounceCurrent, AnnounceFaithful, CadenceConstants
  <2>8. retimes \in BOOLEAN
    BY <1>1 DEF Run
  <2>9. QED
    BY <2>3, <2>4, <2>5, <2>6, <2>7, <2>8 DEF Outcome
<1>9. ASSUME NEW asleep \in BOOLEAN, SyncCarryForward(lastActivity, asleep)
      PROVE  \E st, update, calls, retimes : Outcome(before, st, update, calls, retimes)
  <2> DEFINE st == [before EXCEPT !.asleep = asleep]
  <2>1. Orderly(st) /\ CallKept(st, before, FALSE) /\ ~Uninterrupted
    BY <1>1, <1>9, StepsOrderly DEF CallKept, Run, SyncCarryForward, Uninterrupted
  <2>2. PICK update \in Maybe(Announce(st, "passive", Multiplier)) :
          Finish(st, update, FALSE, FALSE)
    BY <1>9 DEF SyncCarryForward
  <2>3. Current(update) /\ Faithful(update)
    BY <1>3, <2>1
  <2>4. QED
    BY <2>1, <2>2, <2>3 DEF Outcome
<1>10. CASE SyncDisabled(lastActivity)
  <2> DEFINE st == [before EXCEPT !.asleep = FALSE]
  <2>1. Orderly(st) /\ CallKept(st, before, FALSE) /\ ~Uninterrupted
    BY <1>1, <1>10, StepsOrderly DEF CallKept, Run, SyncDisabled, Uninterrupted
  <2>2. PICK update \in {Announce(st, "clear", 1), Never} :
          Finish(st, update, FALSE, FALSE)
    BY <1>10 DEF SyncDisabled, Maybe
  <2>3. Current(update) /\ Faithful(update)
    BY <1>2, <2>1, AnnounceCurrent, AnnounceFaithful
  <2>4. QED
    BY <2>1, <2>2, <2>3 DEF Outcome
<1>11. QED
  BY <1>4, <1>5, <1>6, <1>7, <1>8, <1>9, <1>10 DEF Sync
-----------------------------------------------------------------------------
(***************************************************************************)
(* Every step keeps the invariants                                         *)
(***************************************************************************)

LEMMA OutcomeKeepsClocks ==
  ASSUME TypeOK, TimesInOrder, NEW before,
         NEW st, NEW update, NEW calls, NEW retimes,
         Outcome(before, st, update, calls, retimes)
  PROVE  TypeOK' /\ RunInOrder(run)' /\ run' # Never
<1>1. st \in Run /\ now \in Time /\ now \in Nat
  BY TimeIsNat DEF TypeOK, Outcome, Orderly
<1>2. run' = [st EXCEPT !.emitted = st.emitted \/ update # Never]
  BY DEF Outcome, Finish
<1>3. /\ run' \in Run
      /\ run'.started = st.started /\ run'.finished = st.finished
      /\ run'.stableSince = st.stableSince /\ run'.lastCall = st.lastCall
  BY <1>1, <1>2 DEF Run
<1>4. told' \in Told \cup {Never}
  BY <1>1 DEF Outcome, Finish, Current, TypeOK
<1>5. history' \in History
  BY <1>1 DEF Outcome, Finish, TypeOK, History, Stamp
<1>6. TypeOK'
  BY <1>3, <1>4, <1>5 DEF TypeOK, Outcome, Finish
<1>7. RunInOrder(run)'
  BY <1>3 DEF Outcome, Finish, Orderly, RunInOrder
<1>8. QED
  BY <1>3, <1>6, <1>7, NeverApart

\* An engine that has a view but no state of its own is a replacement.
Resumed == run = Never /\ told # Never => history.restarted

LEMMA EntryAhead ==
  ASSUME TypeOK, TimesInOrder, Resumed, NEW lastActivity \in Time
  PROVE  AheadAsGiven(EntryAt(lastActivity))
<1>1. now \in Nat /\ (told # Never => told.at \in Nat)
  BY TimeIsNat DEF TypeOK, Told
<1>2. CASE run # Never
  BY <1>2 DEF TimesInOrder, EntryAt
<1>3. CASE run = Never /\ told # Never
  BY <1>1, <1>3 DEF Resumed, EntryAt, AheadAsGiven
<1>4. CASE run = Never /\ told = Never
  BY <1>1, <1>4 DEF EntryAt, AheadAsGiven
<1>5. QED
  BY <1>2, <1>3, <1>4

\* The model is called only when the cadence has caught up with both clocks, or
\* when they are set to the request.
LEMMA CallCatchesUp ==
  ASSUME TypeOK, NEW st, Orderly(st), AheadAsGiven(st), NEW changed \in BOOLEAN,
         NEW ready, ready = AfterObjective(WokenState(st), changed),
         ~HeldBack(ready, changed, st.asleep)
  PROVE  ready \in Run /\ ready.stableSince <= now
<1>1. now \in Nat /\ now \in Time /\ st \in Run
  BY TimeIsNat DEF TypeOK, Orderly
<1>2. Orderly(WokenState(st)) /\ WokenState(st) \in Run
  BY StepsOrderly DEF Orderly
<1>3. ready \in Run
  BY <1>2, StepsOrderly DEF Orderly
<1>4. CASE changed
  <2>1. ready.stableSince = now
    BY <1>2, <1>4 DEF AfterObjective, NewObjective, Restarted, Run
  <2>2. QED
    BY <1>1, <1>3, <2>1
<1>5. CASE ~changed /\ st.asleep
  <2>1. ready = WokenState(st)
    BY <1>5 DEF AfterObjective
  <2>2. ready.stableSince = now
    BY <1>1, <1>5, <2>1 DEF WokenState, Restarted, Run
  <2>3. QED
    BY <1>1, <1>3, <2>2
<1>6. CASE ~changed /\ ~st.asleep
  <2>1. ready = st /\ Due(st)
    BY <1>6 DEF AfterObjective, WokenState, HeldBack
  <2>2. st.stableSince \in Nat /\ (st.lastCall # Never => st.lastCall \in Nat)
    BY <1>1, TimeIsNat DEF Run, Stamp
  <2>3. /\ Cadence(st, Multiplier) \in Nat /\ Hot * Multiplier <= Cadence(st, Multiplier)
        /\ Hot * Multiplier \in Nat /\ Hot <= Hot * Multiplier /\ Hot > 0
    BY ScaledCadence, ScaleMonotone, CadenceConstants
  <2>4. st.lastCall # Never => st.lastCall < now
    BY <1>1, <2>1, <2>2, <2>3, CadenceConstants DEF Due, Elapsed
  <2>5. QED
    BY <1>1, <1>3, <2>1, <2>2, <2>4, TimeIsNat DEF AheadAsGiven, Run
<1>7. QED
  BY <1>3, <1>4, <1>5, <1>6 DEF Orderly, Run

LEMMA SyncAhead ==
  ASSUME TypeOK, TimesInOrder, Resumed, NEW lastActivity \in Time, Sync(lastActivity)
  PROVE  AheadAsGiven(run)'
<1> DEFINE before == EntryAt(lastActivity)
<1>1. Orderly(before) /\ before \in Run /\ AheadAsGiven(before)
  BY EntryOrderly, EntryAhead DEF Orderly
<1>2. now \in Nat /\ now \in Time /\ history.restarted \in BOOLEAN
  BY TimeIsNat DEF TypeOK, History
<1>3. ASSUME NEW st \in Run, NEW update, NEW retimes, Finish(st, update, FALSE, retimes),
             st.lastCall = before.lastCall,
             st.stableSince \in {before.stableSince, now}
      PROVE  AheadAsGiven(run)'
  <2>1. /\ run'.lastCall = before.lastCall /\ run'.stableSince = st.stableSince
        /\ history'.restarted = history.restarted /\ now' = now
    BY <1>2, <1>3 DEF Finish, Run
  <2>2. ~(now > now)
    BY <1>2
  <2>3. QED
    BY <1>1, <1>3, <2>1, <2>2 DEF AheadAsGiven
<1>4. \A asleep \in BOOLEAN :
        LET st == [before EXCEPT !.asleep = asleep]
        IN  st \in Run /\ st.lastCall = before.lastCall /\ st.stableSince = before.stableSince
  BY <1>1 DEF Run
<1>5. CASE SyncExited(lastActivity) \/ SyncDisabled(lastActivity)
  BY <1>3, <1>4, <1>5 DEF SyncExited, SyncDisabled
<1>6. CASE \E asleep \in BOOLEAN : SyncCarryForward(lastActivity, asleep)
  BY <1>3, <1>4, <1>6 DEF SyncCarryForward
<1>7. CASE SyncSleeping(lastActivity)
  <2> DEFINE st == [Frozen(before) EXCEPT !.asleep = TRUE]
  <2>1. st \in Run /\ st.lastCall = before.lastCall /\ st.stableSince = before.stableSince
    BY <1>1, <1>2 DEF Frozen, Run, Stamp
  <2> HIDE DEF st
  <2>2. QED
    BY <1>3, <1>7, <2>1 DEF SyncSleeping, st
<1>8. CASE SyncWithoutContext(lastActivity)
  BY <1>1, <1>3, <1>8 DEF SyncWithoutContext
<1>9. ASSUME NEW changed \in BOOLEAN, SyncSuppressed(lastActivity, changed)
      PROVE  AheadAsGiven(run)'
  <2> DEFINE st == AfterObjective(before, changed)
  <2>1. st \in Run /\ st.lastCall = before.lastCall
    BY <1>1, StepsOrderly, ObjectiveKeepsCall DEF Orderly
  <2>2. st.stableSince \in {before.stableSince, now}
    BY <1>1, <1>2 DEF AfterObjective, NewObjective, Restarted, Run
  <2> HIDE DEF st
  <2>3. QED
    BY <1>3, <1>9, <2>1, <2>2 DEF SyncSuppressed, st
<1>10. ASSUME NEW changed \in BOOLEAN, SyncCalls(lastActivity, changed)
       PROVE  AheadAsGiven(run)'
  <2> DEFINE ready == AfterObjective(WokenState(before), changed)
  <2>1. ready \in Run /\ ready.stableSince <= now
    BY <1>1, <1>10, CallCatchesUp DEF SyncCalls
  <2> HIDE DEF ready
  <2>2. PICK update : Finish(Stamped(ready), update, TRUE, changed \/ before.asleep)
    BY <1>10 DEF SyncCalls, ready
  <2>3. /\ run'.lastCall = now /\ run'.stableSince = ready.stableSince
        /\ now' = now /\ ready.stableSince \in Nat
    BY <1>2, <2>1, <2>2, TimeIsNat DEF Finish, Stamped, Run
  <2>4. QED
    BY <1>2, <2>1, <2>3 DEF AheadAsGiven
<1>11. QED
  BY <1>5, <1>6, <1>7, <1>8, <1>9, <1>10 DEF Sync

LEMMA ClocksInductive ==
  TypeOK /\ TimesInOrder /\ Resumed /\ [Next]_vars => TypeOK' /\ TimesInOrder' /\ Resumed'
<1> SUFFICES ASSUME TypeOK, TimesInOrder, Resumed, [Next]_vars
             PROVE  TypeOK' /\ TimesInOrder' /\ Resumed'
  OBVIOUS
<1>1. CASE Tick
  <2>1. now + 1 \in Time /\ now \in Nat
    BY <1>1, CadenceConstants DEF Tick, TypeOK, Time
  <2>2. TypeOK' /\ Resumed'
    BY <1>1, <2>1 DEF Tick, TypeOK, Resumed
  <2>3. run # Never => /\ run \in Run
                       /\ run.started \in Nat /\ run.stableSince \in Nat
                       /\ run.lastCall # Never => run.lastCall \in Nat
                       /\ run.finished # Never => run.finished \in Nat
    BY TimeIsNat DEF TypeOK, Run, Stamp
  <2>4. TimesInOrder'
    BY <1>1, <2>1, <2>3 DEF Tick, TimesInOrder, RunInOrder, AheadAsGiven
  <2>5. QED
    BY <2>2, <2>4
<1>2. CASE PaneExits \/ PaneRevives
  BY <1>2 DEF PaneExits, PaneRevives, TypeOK, TimesInOrder, RunInOrder, AheadAsGiven, Resumed
<1>3. CASE EngineRestarts
  <2>1. now' \in Time
    BY <1>3, CadenceConstants DEF EngineRestarts, TypeOK, Time
  <2>2. history' \in History
    BY <1>3 DEF EngineRestarts, TypeOK, History, Stamp
  <2>3. TypeOK'
    BY <1>3, <2>1, <2>2 DEF EngineRestarts, TypeOK
  <2>4. Resumed'
    BY <1>3 DEF EngineRestarts, Resumed, TypeOK, History
  <2>5. QED
    BY <1>3, <2>3, <2>4 DEF EngineRestarts, TimesInOrder
<1>4. ASSUME NEW lastActivity \in Time, Sync(lastActivity)
      PROVE  TypeOK' /\ TimesInOrder' /\ Resumed'
  BY <1>4, SyncOutcome, OutcomeKeepsClocks, SyncAhead DEF TimesInOrder, Resumed
<1>5. CASE UNCHANGED vars
  BY <1>5 DEF vars, TypeOK, TimesInOrder, RunInOrder, AheadAsGiven, Resumed
<1>6. QED
  BY <1>1, <1>2, <1>3, <1>4, <1>5 DEF Next

LEMMA InitClocks == Init => TypeOK /\ TimesInOrder /\ Resumed
<1> SUFFICES ASSUME Init PROVE TypeOK /\ TimesInOrder /\ Resumed
  OBVIOUS
<1>1. now \in Time
  BY CadenceConstants DEF Init, Time
<1>2. history \in History
  BY DEF Init, History, Stamp
<1>3. TypeOK
  BY <1>1, <1>2 DEF Init, TypeOK
<1>4. TimesInOrder /\ Resumed
  BY DEF Init, TimesInOrder, Resumed
<1>5. QED
  BY <1>3, <1>4

LEMMA RunMatchesSleepInductive ==
  ASSUME Uninterrupted, TypeOK, TimesInOrder, RunMatchesSleep, [Next]_vars
  PROVE  RunMatchesSleep'
<1>1. CASE Tick
  BY <1>1 DEF Tick, RunMatchesSleep
<1>2. CASE PaneExits
  BY <1>2 DEF PaneExits, RunMatchesSleep
<1>3. CASE PaneRevives
  BY <1>3 DEF PaneRevives, Uninterrupted
<1>4. CASE EngineRestarts
  BY <1>4 DEF EngineRestarts, RunMatchesSleep
<1>5. ASSUME NEW lastActivity \in Time, Sync(lastActivity)
      PROVE  RunMatchesSleep'
  <2> DEFINE before == EntryAt(lastActivity)
  <2>1. PICK st, update, calls, retimes : Outcome(before, st, update, calls, retimes)
    BY <1>5, SyncOutcome
  <2>2. exited' = exited
    BY <2>1 DEF Outcome, Finish
  <2>3. ASSUME ~exited PROVE run'.asleep <=> run'.finished # Never
    <3>1. SleepFrozen(st) /\ st \in Run
      BY <2>1, <2>3, EntrySleepFrozen DEF Outcome, Orderly
    <3>2. run' = [st EXCEPT !.emitted = st.emitted \/ update # Never]
      BY <2>1 DEF Outcome, Finish
    <3>3. QED
      BY <3>1, <3>2 DEF SleepFrozen, Run
  <2>4. ASSUME ~exited, told' # Never PROVE told'.stopped <=> told'.asleep
    BY <2>1, <2>4 DEF Outcome, Finish, Faithful, RunMatchesSleep
  <2>5. QED
    BY <2>2, <2>3, <2>4 DEF RunMatchesSleep
<1>6. CASE UNCHANGED vars
  BY <1>6 DEF vars, RunMatchesSleep
<1>7. QED
  BY <1>1, <1>2, <1>3, <1>4, <1>5, <1>6 DEF Next

LEMMA LastCallInductive ==
  ASSUME TypeOK, TimesInOrder, LastCallRemembered, [Next]_vars
  PROVE  LastCallRemembered'
<1>1. CASE Tick \/ PaneExits \/ PaneRevives
  BY <1>1 DEF Tick, PaneExits, PaneRevives, LastCallRemembered
<1>2. CASE EngineRestarts
  BY <1>2 DEF EngineRestarts, LastCallRemembered, TypeOK, History
<1>3. ASSUME NEW lastActivity \in Time, Sync(lastActivity)
      PROVE  LastCallRemembered'
  <2> DEFINE before == EntryAt(lastActivity)
  <2>1. PICK st, update, calls, retimes : Outcome(before, st, update, calls, retimes)
    BY <1>3, SyncOutcome
  <2>2. run' # Never
    BY <2>1, OutcomeKeepsClocks
  <2>3. run'.lastCall = st.lastCall
    BY <2>1 DEF Outcome, Orderly, Finish, Run
  <2>4. CASE calls
    BY <2>1, <2>2, <2>3, <2>4 DEF Outcome, CallKept, Finish, LastCallRemembered
  <2>5. CASE ~calls
    <3>1. /\ history'.calledAt = history.calledAt
          /\ history'.restarted = history.restarted
          /\ run'.lastCall = before.lastCall
      BY <2>1, <2>3, <2>5 DEF Outcome, CallKept, Finish, TypeOK, History
    <3>2. run # Never => before = run
      BY DEF EntryAt
    <3>3. QED
      BY <2>2, <3>1, <3>2 DEF LastCallRemembered
  <2>6. QED
    BY <2>4, <2>5
<1>4. CASE UNCHANGED vars
  BY <1>4 DEF vars, LastCallRemembered
<1>5. QED
  BY <1>1, <1>2, <1>3, <1>4 DEF Next

-----------------------------------------------------------------------------
(***************************************************************************)
(* The run of a session that sleeps                                        *)
(***************************************************************************)

\* Credentials that go away put a session to sleep without its run.
Credentialed == "carry" \notin Interruptions

\* Whoever is asleep has a finished run, and was announced as stopped: a new
\* engine finishes the run of a session that it finds asleep.
SleepIsFrozen ==
    /\ run # Never /\ run.asleep => run.finished # Never
    /\ told # Never /\ told.asleep => told.stopped

LEMMA EntryFrozen ==
  ASSUME TypeOK, SleepIsFrozen, NEW lastActivity, EntryAt(lastActivity).asleep
  PROVE  EntryAt(lastActivity).finished # Never
<1>1. told # Never => Clamped(told.at) # Never
  BY ClampedTime DEF TypeOK, Told
<1>2. QED
  BY <1>1 DEF EntryAt, SleepIsFrozen

\* Of the syncs with credentials only the sleeping one leaves a session asleep,
\* and it keeps a run that is finished already.
LEMMA SleepingKeepsRun ==
  ASSUME TypeOK, TimesInOrder, Credentialed,
         NEW lastActivity \in Time, Sync(lastActivity), run'.asleep
  PROVE  LET before == EntryAt(lastActivity)
         IN  /\ run'.finished # Never
             /\ before.finished # Never =>
                  run'.started = before.started /\ run'.finished = before.finished
<1> DEFINE before == EntryAt(lastActivity)
<1>1. before \in Run /\ Orderly(before) /\ now # Never
  BY EntryOrderly, TimeIsNat DEF Orderly, TypeOK
<1>2. CASE SyncSleeping(lastActivity)
  <2> DEFINE st == [Frozen(before) EXCEPT !.asleep = TRUE]
  <2>1. /\ st.started = before.started
        /\ st.finished = IF before.finished = Never THEN now ELSE before.finished
    BY <1>1 DEF Frozen, Run
  <2>2. run'.started = st.started /\ run'.finished = st.finished
    BY <1>1, <1>2 DEF SyncSleeping, Finish, Frozen, Run
  <2>3. QED
    BY <1>1, <2>1, <2>2
<1>3. CASE SyncExited(lastActivity) \/ SyncDisabled(lastActivity)
  <2>1. ~run'.asleep
    BY <1>1, <1>3 DEF SyncExited, SyncDisabled, Finish, Run
  <2>2. QED
    BY <2>1
<1>4. CASE SyncWithoutContext(lastActivity)
  <2>1. ~run'.asleep
    BY <1>1, <1>4 DEF SyncWithoutContext, Finish, Run
  <2>2. QED
    BY <2>1
<1>5. ASSUME NEW st, Orderly(st), ~st.asleep, NEW changed \in BOOLEAN
      PROVE  AfterObjective(st, changed) \in Run /\ ~AfterObjective(st, changed).asleep
  BY <1>5, StepsOrderly DEF AfterObjective, NewObjective, Restarted, Orderly, Run
<1>6. ASSUME NEW changed \in BOOLEAN, SyncSuppressed(lastActivity, changed)
      PROVE  FALSE
  <2> DEFINE st == AfterObjective(before, changed)
  <2>1. st \in Run /\ ~st.asleep
    BY <1>1, <1>5, <1>6 DEF SyncSuppressed
  <2>2. PICK update : Finish(st, update, FALSE, changed)
    BY <1>6 DEF SyncSuppressed
  <2>3. QED
    BY <2>1, <2>2 DEF Finish, Run
<1>7. ASSUME NEW changed \in BOOLEAN, SyncCalls(lastActivity, changed)
      PROVE  FALSE
  <2> DEFINE woken == WokenState(before)
             ready == AfterObjective(woken, changed)
  <2>1. Orderly(woken) /\ ~woken.asleep
    BY <1>1, StepsOrderly DEF WokenState, Restarted, Run
  <2>2. ready \in Run /\ ~ready.asleep
    BY <1>5, <2>1
  <2>3. PICK update : Finish(Stamped(ready), update, TRUE, changed \/ before.asleep)
    BY <1>7 DEF SyncCalls
  <2>4. QED
    BY <2>2, <2>3 DEF Finish, Stamped, Run
<1>8. QED
  BY <1>2, <1>3, <1>4, <1>6, <1>7 DEF Sync, SyncCarryForward, Credentialed

\* No update announces a session as asleep that it does not announce as stopped.
LEMMA AnnouncedStopped ==
  ASSUME SleepIsFrozen, NEW lastActivity, Sync(lastActivity), told' # Never, told'.asleep
  PROVE  told'.stopped
<1>1. \A st, kind, multiplier :
        Announce(st, kind, multiplier).asleep => Announce(st, kind, multiplier).stopped
  BY DEF Announce
<1>2. PICK update, st, calls, retimes :
        /\ Finish(st, update, calls, retimes)
        /\ update # Never /\ update.asleep => update.stopped
  BY <1>1 DEF Sync, SyncExited, SyncSleeping, SyncWithoutContext, SyncSuppressed,
              SyncCalls, SyncCarryForward, SyncDisabled, Maybe
<1>3. QED
  BY <1>2 DEF Finish, SleepIsFrozen

LEMMA SleepIsFrozenInductive ==
  ASSUME Credentialed, TypeOK, TimesInOrder, SleepIsFrozen, [Next]_vars
  PROVE  SleepIsFrozen'
<1>1. CASE Tick \/ PaneExits \/ PaneRevives \/ EngineRestarts \/ UNCHANGED vars
  BY <1>1 DEF Tick, PaneExits, PaneRevives, EngineRestarts, vars, SleepIsFrozen
<1>2. ASSUME NEW lastActivity \in Time, Sync(lastActivity)
      PROVE  SleepIsFrozen'
  BY <1>2, SleepingKeepsRun, AnnouncedStopped DEF SleepIsFrozen
<1>3. QED
  BY <1>1, <1>2 DEF Next

-----------------------------------------------------------------------------
(***************************************************************************)
(* The time that was announced and the next call                           *)
(***************************************************************************)

\* An announced time that has passed, or that the clocks of st keep waiting for.
Promise(eligible, st) ==
    \/ eligible <= now
    \/ st.lastCall # Never /\ eligible <= st.lastCall + Cadence(st, Multiplier)

\* While neither a wake nor a new objective went unannounced, the engine
\* keeps the clocks of what it announced; a new engine counts as unannounced.
AnnouncedNotLater ==
    told # Never /\ ~history.retimed => run # Never /\ Promise(told.eligible, run)

LEMMA PromiseOfClocks ==
  ASSUME NEW eligible, NEW st, NEW other,
         other.lastCall = st.lastCall, other.stableSince = st.stableSince
  PROVE  Promise(eligible, st) <=> Promise(eligible, other)
  BY DEF Promise, Cadence, TierCadence

\* The unmultiplied announcement of a disabled session promises less.
LEMMA AnnouncePromise ==
  ASSUME TypeOK, NEW st, Orderly(st), NEW kind, NEW multiplier \in {1, Multiplier}
  PROVE  Promise(Announce(st, kind, multiplier).eligible, st)
<1> DEFINE tier == TierCadence(st)
<1>1. tier \in Nat /\ Multiplier \in Nat \ {0}
  BY TierBounds, CadenceConstants
<1>2. now \in Nat /\ (st.lastCall # Never => st.lastCall \in Nat)
  BY TimeIsNat DEF TypeOK, Orderly, Run, Stamp
<1>3. /\ tier * 1 \in Nat /\ tier * Multiplier \in Nat
      /\ tier * multiplier <= tier * Multiplier
  BY <1>1, ScaleMonotone
<1>4. Announce(st, kind, multiplier).eligible =
        IF st.lastCall = Never THEN now ELSE st.lastCall + tier * multiplier
  BY DEF Announce, EligibleAt, Cadence
<1> HIDE DEF tier
<1>5. tier * multiplier \in Nat
  BY <1>3
<1>6. CASE st.lastCall = Never
  BY <1>2, <1>4, <1>6 DEF Promise
<1>7. CASE st.lastCall # Never
  <2>1. Announce(st, kind, multiplier).eligible <= st.lastCall + tier * Multiplier
    BY <1>2, <1>3, <1>4, <1>5, <1>7
  <2>2. QED
    BY <1>7, <2>1 DEF Promise, Cadence, tier
<1>8. QED
  BY <1>6, <1>7

\* What is due keeps nobody waiting any more.
LEMMA DuePromise ==
  ASSUME TypeOK, NEW st, Orderly(st), Due(st), NEW eligible \in Nat, Promise(eligible, st)
  PROVE  eligible <= now
<1>1. now \in Nat /\ (st.lastCall # Never => st.lastCall \in Nat)
  BY TimeIsNat DEF TypeOK, Orderly, Run, Stamp
<1>2. Cadence(st, Multiplier) \in Nat /\ Cadence(st, Multiplier) > 0
  BY ScaledCadence, ScaleMonotone, CadenceConstants
<1>3. CASE st.lastCall # Never
  <2>1. now - st.lastCall >= Cadence(st, Multiplier)
    BY <1>1, <1>2, <1>3 DEF Due, Elapsed
  <2>2. QED
    BY <1>1, <1>2, <1>3, <2>1 DEF Promise
<1>4. QED
  BY <1>3 DEF Promise

\* A stable objective is asked about less and less often.
LEMMA TierGrows ==
  ASSUME TypeOK, NEW st, Orderly(st), now' = now + 1, st' = st
  PROVE  TierCadence(st) <= TierCadence(st)'
<1>1. now \in Nat /\ st.stableSince \in Nat
  BY TimeIsNat DEF TypeOK, Orderly, Run
<1>2. Elapsed(st.stableSince, now) <= Elapsed(st.stableSince, now)'
  BY <1>1 DEF Elapsed
<1>3. Elapsed(st.stableSince, now) \in Nat /\ Elapsed(st.stableSince, now)' \in Nat
  BY <1>1 DEF Elapsed
<1>4. QED
  BY <1>2, <1>3, CadenceConstants DEF TierCadence

\* A sync makes an announcement that its clocks keep; or it leaves the last one
\* standing, and retimes the session, or keeps its clocks, or calls when due.
Announced ==
    told' # Never /\ Promise(told'.eligible, run')

Standing(before) ==
    /\ told' = told
    /\ \/ history'.retimed
       \/ /\ history'.retimed = history.retimed
          /\ run'.lastCall = before.lastCall /\ run'.stableSince = before.stableSince
       \/ history'.retimed = history.retimed /\ Due(before)

LEMMA FinishPromise ==
  ASSUME NEW st \in Run, NEW update, NEW calls \in BOOLEAN, NEW retimes \in BOOLEAN,
         Finish(st, update, calls, retimes), TypeOK,
         update # Never => Promise(update.eligible, st)
  PROVE  /\ run'.lastCall = st.lastCall /\ run'.stableSince = st.stableSince
         /\ update # Never => Announced
         /\ update = Never => /\ told' = told
                              /\ history'.retimed = (history.retimed \/ retimes)
<1>1. run'.lastCall = st.lastCall /\ run'.stableSince = st.stableSince
  BY DEF Finish, Run
<1>2. update # Never => Promise(update.eligible, run')
  BY <1>1, PromiseOfClocks
<1>3. QED
  BY <1>1, <1>2 DEF Finish, Announced, TypeOK, History

LEMMA SyncPromise ==
  ASSUME TypeOK, TimesInOrder, NEW lastActivity \in Time, Sync(lastActivity)
  PROVE  Announced \/ Standing(EntryAt(lastActivity))
<1> DEFINE before == EntryAt(lastActivity)
<1>1. Orderly(before) /\ before \in Run /\ history.retimed \in BOOLEAN
  BY EntryOrderly DEF Orderly, TypeOK, History
<1>2. ASSUME NEW st, Orderly(st), NEW kind, NEW multiplier \in {1, Multiplier},
             NEW update \in Maybe(Announce(st, kind, multiplier)),
             NEW retimes \in BOOLEAN, Finish(st, update, FALSE, retimes),
             retimes \/ (st.lastCall = before.lastCall /\ st.stableSince = before.stableSince)
      PROVE  Announced \/ Standing(before)
  <2>1. update # Never => Promise(update.eligible, st)
    BY <1>2, AnnouncePromise DEF Maybe
  <2>2. st \in Run
    BY <1>2 DEF Orderly
  <2>3. QED
    BY <1>1, <1>2, <2>1, <2>2, FinishPromise DEF Standing
<1>3. CASE SyncExited(lastActivity)
  <2> DEFINE st == [before EXCEPT !.asleep = FALSE]
  <2>1. Orderly(st) /\ st.lastCall = before.lastCall /\ st.stableSince = before.stableSince
    BY <1>1, StepsOrderly DEF Run
  <2>2. QED
    BY <1>2, <1>3, <2>1 DEF SyncExited
<1>4. CASE SyncSleeping(lastActivity)
  <2> DEFINE frozen == Frozen(before)
             st == [frozen EXCEPT !.asleep = TRUE]
  <2>1. Orderly(frozen)
    BY <1>1, StepsOrderly
  <2>2. Orderly(st) /\ st.lastCall = before.lastCall /\ st.stableSince = before.stableSince
    BY <1>1, <2>1, StepsOrderly DEF Frozen, Run
  <2>3. QED
    BY <1>2, <1>4, <2>2 DEF SyncSleeping
<1>5. CASE SyncWithoutContext(lastActivity)
  BY <1>1, <1>2, <1>5 DEF SyncWithoutContext
<1>6. ASSUME NEW changed \in BOOLEAN, SyncSuppressed(lastActivity, changed)
      PROVE  Announced \/ Standing(before)
  <2> DEFINE st == AfterObjective(before, changed)
  <2>1. Orderly(st) /\ (~changed => st = before)
    BY <1>1, StepsOrderly DEF AfterObjective
  <2>2. QED
    BY <1>2, <1>6, <2>1 DEF SyncSuppressed
<1>7. ASSUME NEW asleep \in BOOLEAN, SyncCarryForward(lastActivity, asleep)
      PROVE  Announced \/ Standing(before)
  <2> DEFINE st == [before EXCEPT !.asleep = asleep]
  <2>1. Orderly(st) /\ st.lastCall = before.lastCall /\ st.stableSince = before.stableSince
    BY <1>1, StepsOrderly DEF Run
  <2>2. QED
    BY <1>2, <1>7, <2>1 DEF SyncCarryForward
<1>8. CASE SyncDisabled(lastActivity)
  <2> DEFINE st == [before EXCEPT !.asleep = FALSE]
  <2>1. Orderly(st) /\ st.lastCall = before.lastCall /\ st.stableSince = before.stableSince
    BY <1>1, StepsOrderly DEF Run
  <2>2. QED
    BY <1>2, <1>8, <2>1 DEF SyncDisabled
<1>9. ASSUME NEW changed \in BOOLEAN, SyncCalls(lastActivity, changed)
      PROVE  Announced \/ Standing(before)
  <2> DEFINE woken == WokenState(before)
             ready == AfterObjective(woken, changed)
             st == Stamped(ready)
             retimes == changed \/ before.asleep
  <2>1. Orderly(woken) /\ Orderly(ready)
    BY <1>1, StepsOrderly
  <2>2. Orderly(st) /\ st \in Run /\ retimes \in BOOLEAN
    BY <1>1, <2>1, StepsOrderly DEF Orderly, Run
  <2>3. ~retimes => Due(before)
    <3>1. ~retimes => ready = before /\ before.asleep = FALSE /\ changed = FALSE
      BY <1>1 DEF AfterObjective, WokenState, Run
    <3>2. QED
      BY <1>9, <3>1 DEF SyncCalls, HeldBack
  <2>4. PICK update \in {Announce(st, "prose", Multiplier),
                         Announce(woken, "clear", Multiplier),
                         Announce(st, "passive", Multiplier), Never} :
          /\ Finish(st, update, TRUE, retimes)
          /\ update = Announce(woken, "clear", Multiplier) =>
               before.asleep \/ update \in {Announce(st, "prose", Multiplier),
                                            Announce(st, "passive", Multiplier), Never}
    BY <1>9 DEF SyncCalls, Maybe
  <2>5. before.asleep => Announce(woken, "clear", Multiplier).eligible = now
    BY <1>1 DEF WokenState, Restarted, Run, Announce, EligibleAt
  <2>6. now <= now
    BY TimeIsNat DEF TypeOK
  <2>7. update # Never => Promise(update.eligible, st)
    BY <2>2, <2>4, <2>5, <2>6, AnnouncePromise DEF Promise
  <2> HIDE DEF st, retimes
  <2>8. QED
    BY <1>1, <2>2, <2>3, <2>4, <2>7, FinishPromise DEF Standing
<1>10. QED
  BY <1>3, <1>4, <1>5, <1>6, <1>7, <1>8, <1>9 DEF Sync

LEMMA AnnouncedNotLaterInductive ==
  ASSUME TypeOK, TimesInOrder, AnnouncedNotLater, [Next]_vars
  PROVE  AnnouncedNotLater'
<1>1. CASE Tick
  <2>1. SUFFICES ASSUME told # Never, ~history.retimed
                 PROVE  run # Never /\ Promise(told.eligible, run)'
    BY <1>1 DEF Tick, AnnouncedNotLater
  <2>2. run # Never /\ run \in Run /\ Promise(told.eligible, run)
    BY <2>1 DEF AnnouncedNotLater, TypeOK
  <2>3. Orderly(run)
    BY <2>2 DEF TimesInOrder, Orderly
  <2>4. /\ now \in Nat /\ now' = now + 1 /\ run' = run /\ told' = told
        /\ told.eligible \in Nat
        /\ run.lastCall # Never => run.lastCall \in Nat
    BY <1>1, <2>1, <2>2, TimeIsNat DEF Tick, TypeOK, Told, Run, Stamp
  <2>5. TierCadence(run) \in Nat /\ TierCadence(run)' \in Nat
    BY CadenceConstants DEF TierCadence
  <2>6. TierCadence(run) <= TierCadence(run)'
    BY <2>3, <2>4, TierGrows
  <2>7. /\ Cadence(run, Multiplier) <= Cadence(run, Multiplier)'
        /\ Cadence(run, Multiplier) \in Nat /\ Cadence(run, Multiplier)' \in Nat
    BY <2>5, <2>6, ScaleMonotone, CadenceConstants DEF Cadence
  <2>8. QED
    BY <2>2, <2>4, <2>7 DEF Promise
<1>2. CASE PaneExits \/ PaneRevives
  BY <1>2 DEF PaneExits, PaneRevives, AnnouncedNotLater, Promise, Cadence, TierCadence
<1>3. CASE EngineRestarts
  BY <1>3 DEF EngineRestarts, AnnouncedNotLater, TypeOK, History
<1>4. ASSUME NEW lastActivity \in Time, Sync(lastActivity)
      PROVE  AnnouncedNotLater'
  <2> DEFINE before == EntryAt(lastActivity)
  <2>1. run' # Never /\ now' = now /\ TypeOK'
    <3>1. PICK st, update, calls, retimes : Outcome(before, st, update, calls, retimes)
      BY <1>4, SyncOutcome
    <3>2. QED
      BY <3>1, OutcomeKeepsClocks DEF Outcome, Finish
  <2>2. SUFFICES ASSUME told' # Never, ~history'.retimed
                 PROVE  Promise(told'.eligible, run')
    BY <2>1 DEF AnnouncedNotLater, Promise, Cadence, TierCadence
  <2>3. CASE Announced
    BY <2>3 DEF Announced
  <2>4. CASE Standing(before)
    <3>1. told' = told /\ told # Never /\ ~history.retimed
      BY <2>2, <2>4 DEF Standing
    <3>2. run # Never /\ before = run /\ Promise(told.eligible, before)
      BY <3>1 DEF AnnouncedNotLater, EntryAt
    <3>3. CASE run'.lastCall = before.lastCall /\ run'.stableSince = before.stableSince
      BY <3>1, <3>2, <3>3, PromiseOfClocks
    <3>4. CASE Due(before)
      <4>1. Orderly(before) /\ told.eligible \in Nat
        BY <1>4, <3>1, EntryOrderly DEF TypeOK, Told
      <4>2. told.eligible <= now
        BY <3>2, <3>4, <4>1, DuePromise
      <4>3. QED
        BY <3>1, <4>2 DEF Promise
    <3>5. QED
      BY <2>2, <2>4, <3>3, <3>4 DEF Standing
  <2>5. QED
    BY <1>4, <2>3, <2>4, SyncPromise
<1>5. CASE UNCHANGED vars
  BY <1>5 DEF vars, AnnouncedNotLater, Promise, Cadence, TierCadence
<1>6. QED
  BY <1>1, <1>2, <1>3, <1>4, <1>5 DEF Next

-----------------------------------------------------------------------------
(***************************************************************************)
(* The run that prose reports                                              *)
(***************************************************************************)

\* A step that answers with prose has woken the session and keeps its run open.
LEMMA ProseOfOpenRun ==
  ASSUME Uninterrupted, TypeOK, TimesInOrder, RunMatchesSleep, ProseReportsLiveRun,
         NEW lastActivity \in Time, Sync(lastActivity)
  PROVE  ProseReportsLiveRun'
<1> DEFINE before == EntryAt(lastActivity)
<1>1. \A st, kind, multiplier :
        /\ Announce(st, kind, multiplier).kind = kind
        /\ Announce(st, kind, multiplier).finished = st.finished
  BY DEF Announce
<1>2. ASSUME NEW update, NEW st, NEW calls, NEW retimes,
             Finish(st, update, calls, retimes),
             update # Never /\ update.kind = "prose" => update.finished = Never
      PROVE  ProseReportsLiveRun'
  BY <1>2 DEF Finish, ProseReportsLiveRun
<1>3. ASSUME NEW changed \in BOOLEAN, SyncCalls(lastActivity, changed)
      PROVE  ProseReportsLiveRun'
  <2> DEFINE woken == WokenState(before)
             ready == AfterObjective(woken, changed)
             st == Stamped(ready)
             retimes == changed \/ before.asleep
  <2>1. Orderly(before) /\ SleepFrozen(before)
    BY <1>3, EntryOrderly, EntrySleepFrozen DEF SyncCalls
  <2>2. Orderly(woken) /\ ~woken.asleep /\ SleepFrozen(woken)
    BY <2>1, StepsOrderly, StepsSleepFrozen
  <2>3. Orderly(ready) /\ ~ready.asleep /\ SleepFrozen(ready)
    BY <2>2, StepsOrderly, StepsSleepFrozen
  <2>4. st.finished = Never
    BY <2>3 DEF SleepFrozen, Stamped, Orderly, Run
  <2>5. PICK update \in {Announce(st, "prose", Multiplier),
                         Announce(woken, "clear", Multiplier),
                         Announce(st, "passive", Multiplier), Never} :
          Finish(st, update, TRUE, retimes)
    BY <1>3 DEF SyncCalls, Maybe
  <2>6. update # Never /\ update.kind = "prose" => update.finished = Never
    BY <1>1, <2>4, <2>5
  <2> HIDE DEF st, retimes
  <2>7. QED
    BY <1>2, <2>5, <2>6
<1>4. CASE ~\E changed \in BOOLEAN : SyncCalls(lastActivity, changed)
  <2>1. ASSUME NEW st, NEW kind \in {"sleeping", "clear", "passive"}, NEW multiplier,
               NEW update \in Maybe(Announce(st, kind, multiplier)), NEW retimes,
               Finish(st, update, FALSE, retimes)
        PROVE  ProseReportsLiveRun'
    <3>1. update # Never => update.kind # "prose"
      BY <1>1, <2>1 DEF Maybe
    <3>2. QED
      BY <1>2, <2>1, <3>1
  <2>2. CASE SyncExited(lastActivity) \/ SyncDisabled(lastActivity)
    BY <2>1, <2>2 DEF SyncExited, SyncDisabled
  <2>3. CASE SyncSleeping(lastActivity) \/ SyncWithoutContext(lastActivity)
    BY <2>1, <2>3 DEF SyncSleeping, SyncWithoutContext
  <2>4. CASE \E changed \in BOOLEAN : SyncSuppressed(lastActivity, changed)
    BY <2>1, <2>4 DEF SyncSuppressed
  <2>5. CASE \E asleep \in BOOLEAN : SyncCarryForward(lastActivity, asleep)
    BY <2>1, <2>5 DEF SyncCarryForward
  <2>6. QED
    BY <1>4, <2>2, <2>3, <2>4, <2>5 DEF Sync
<1>5. QED
  BY <1>3, <1>4

-----------------------------------------------------------------------------
(***************************************************************************)
(* Theorems                                                                *)
(***************************************************************************)

\* Clocks, runs and announcements keep their types through every sync.
THEOREM TypeCorrect == Spec => []TypeOK
  BY InitClocks, ClocksInductive, PTL DEF Spec

\* No run lies ahead of its request or ends before it starts, whatever interrupts
\* the session, and a clock of the cadence is ahead of the request only by the
\* stamp that a replaced engine was given, until that engine first calls.
THEOREM ClocksInOrder == Spec => []TimesInOrder
  BY InitClocks, ClocksInductive, PTL DEF Spec

\* Where only the engine may be replaced, a live session's run is finished
\* exactly while it sleeps; the cadence_run_timer run shows that the other
\* interruptions break this.
THEOREM RunsMatchSleep ==
  ASSUME Uninterrupted
  PROVE  Spec => []RunMatchesSleep
<1>1. Init => RunMatchesSleep
  BY DEF Init, RunMatchesSleep
<1>2. TypeOK /\ TimesInOrder /\ RunMatchesSleep /\ [Next]_vars => RunMatchesSleep'
  BY RunMatchesSleepInductive
<1>3. QED
  BY <1>1, <1>2, TypeCorrect, ClocksInOrder, PTL DEF Spec

\* Where only the engine may be replaced, prose comes with a running timer, as
\* the protocol says; each of the other interruptions alone can break this, and
\* the cadence_run_timer run shows how.
THEOREM ProseReportsOpenRuns ==
  ASSUME Uninterrupted
  PROVE  Spec => []ProseReportsLiveRun
<1>1. Init => ProseReportsLiveRun
  BY DEF Init, ProseReportsLiveRun
<1>2. ASSUME TypeOK, TimesInOrder, RunMatchesSleep, ProseReportsLiveRun, [Next]_vars
      PROVE  ProseReportsLiveRun'
  <2>1. CASE Tick \/ PaneExits \/ PaneRevives \/ EngineRestarts \/ UNCHANGED vars
    BY <1>2, <2>1
       DEF Tick, PaneExits, PaneRevives, EngineRestarts, vars, ProseReportsLiveRun
  <2>2. QED
    BY <1>2, <2>1, ProseOfOpenRun DEF Next
<1>3. TypeOK /\ TimesInOrder /\ RunMatchesSleep /\ ProseReportsLiveRun /\ [Next]_vars
        => ProseReportsLiveRun'
  BY <1>2
<1>4. QED
  BY <1>1, <1>3, TypeCorrect, ClocksInOrder, RunsMatchSleep, PTL DEF Spec

\* The engine forgets the last call of the model only when it is replaced.
THEOREM LastCallsRemembered == Spec => []LastCallRemembered
<1>1. Init => LastCallRemembered
  BY DEF Init, LastCallRemembered
<1>2. TypeOK /\ TimesInOrder /\ LastCallRemembered /\ [Next]_vars => LastCallRemembered'
  BY LastCallInductive
<1>3. QED
  BY <1>1, <1>2, TypeCorrect, ClocksInOrder, PTL DEF Spec

\* Two calls of the model are a multiplied hot cadence apart, unless one of
\* the code's exceptions applies.
THEOREM CallsAreSpaced == Spec => CallSpacing
<1> DEFINE Spaced ==
             called' /\ history.calledAt # Never =>
               \/ now - history.calledAt >= Hot * Multiplier
               \/ run # Never /\ run.asleep
               \/ Multiplier = 1 /\ run'.stableSince = now
<1>1. ASSUME TypeOK, TimesInOrder, LastCallRemembered,
             NEW lastActivity \in Time, NEW changed \in BOOLEAN,
             SyncCalls(lastActivity, changed)
      PROVE  Spaced
  <2> DEFINE ready == AfterObjective(run, changed)
  <2>1. SUFFICES ASSUME history.calledAt # Never, ~(run # Never /\ run.asleep)
                 PROVE  \/ now - history.calledAt >= Hot * Multiplier
                        \/ Multiplier = 1 /\ run'.stableSince = now
    OBVIOUS
  <2>2. run # Never /\ run.lastCall = history.calledAt /\ ~run.asleep /\ run \in Run
    BY <1>1, <2>1 DEF LastCallRemembered, TypeOK
  <2>3. EntryAt(lastActivity) = run /\ WokenState(run) = run
    BY <2>2 DEF EntryAt, WokenState
  <2>4. Orderly(ready) /\ ready.lastCall = history.calledAt
    <3>1. Orderly(run)
      BY <2>2, <2>3, EntryOrderly, <1>1
    <3>2. QED
      BY <1>1, <2>2, <3>1, StepsOrderly, ObjectiveKeepsCall
  <2>5. ~HeldBack(ready, changed, FALSE)
    BY <1>1, <2>2, <2>3 DEF SyncCalls, HeldBack
  <2>6. CASE Due(ready)
    <3>1. Elapsed(history.calledAt, now) >= Cadence(ready, Multiplier)
      BY <2>1, <2>4, <2>6 DEF Due
    <3>2. /\ Cadence(ready, Multiplier) \in Nat
          /\ Hot * Multiplier <= Cadence(ready, Multiplier)
      BY ScaledCadence, CadenceConstants
    <3>3. now \in Nat /\ history.calledAt \in Nat
      BY <1>1, <2>1, TimeIsNat DEF TypeOK, History, Stamp
    <3>4. Hot * Multiplier \in Nat /\ Hot <= Hot * Multiplier /\ Hot > 0
      BY ScaleMonotone, CadenceConstants
    <3>5. QED
      BY <3>1, <3>2, <3>3, <3>4, CadenceConstants DEF Elapsed
  <2>7. CASE ~Due(ready)
    <3>1. Multiplier = 1 /\ changed
      BY <2>5, <2>7, CadenceConstants DEF HeldBack
    <3>2. ready.stableSince = now /\ ready \in Run
      BY <2>2, <2>4, <3>1 DEF AfterObjective, NewObjective, Restarted, Run, Orderly
    <3>3. PICK update : Finish(Stamped(ready), update, TRUE, changed \/ run.asleep)
      BY <1>1, <2>3 DEF SyncCalls
    <3>4. run'.stableSince = now
      BY <3>2, <3>3 DEF Finish, Stamped, Run
    <3>5. QED
      BY <3>1, <3>4
  <2>8. QED
    BY <2>6, <2>7
<1>2. ASSUME TypeOK, TimesInOrder, LastCallRemembered, [Next]_vars
      PROVE  [Spaced]_vars
  <2>1. CASE Tick \/ PaneExits \/ PaneRevives \/ EngineRestarts
    BY <2>1 DEF Tick, PaneExits, PaneRevives, EngineRestarts
  <2>2. ASSUME NEW lastActivity \in Time, Sync(lastActivity)
        PROVE  Spaced
    <3>1. CASE \E changed \in BOOLEAN : SyncCalls(lastActivity, changed)
      BY <1>1, <1>2, <3>1
    <3>2. CASE ~\E changed \in BOOLEAN : SyncCalls(lastActivity, changed)
      <4>1. ~called'
        BY <2>2, <3>2 DEF Sync, SyncExited, SyncSleeping, SyncWithoutContext,
                          SyncSuppressed, SyncCarryForward, SyncDisabled, Finish
      <4>2. QED
        BY <4>1
    <3>3. QED
      BY <3>1, <3>2
  <2>3. QED
    BY <1>2, <2>1, <2>2 DEF Next
<1>3. TypeOK /\ TimesInOrder /\ LastCallRemembered /\ [Next]_vars => [Spaced]_vars
  BY <1>2
<1>4. QED
  BY <1>3, TypeCorrect, ClocksInOrder, LastCallsRemembered, PTL DEF Spec, CallSpacing

\* With credentials in place, the elapsed time of a sleeping session stands
\* still, however often it is disabled, revived or taken over.
THEOREM ElapsedTimesFreeze ==
  ASSUME Credentialed
  PROVE  Spec => ElapsedFrozen
<1> DEFINE Still ==
             run # Never /\ run' # Never /\ run.asleep /\ run'.asleep =>
               run'.started = run.started /\ run'.finished = run.finished
<1>1. Init => SleepIsFrozen
  BY DEF Init, SleepIsFrozen
<1>2. TypeOK /\ TimesInOrder /\ SleepIsFrozen /\ [Next]_vars => SleepIsFrozen'
  BY SleepIsFrozenInductive
<1>3. ASSUME TypeOK, TimesInOrder, SleepIsFrozen, [Next]_vars
      PROVE  [Still]_vars
  <2>1. CASE Tick \/ PaneExits \/ PaneRevives \/ EngineRestarts
    BY <2>1 DEF Tick, PaneExits, PaneRevives, EngineRestarts
  <2>2. ASSUME NEW lastActivity \in Time, Sync(lastActivity)
        PROVE  Still
    <3>1. SUFFICES ASSUME run # Never, run.asleep, run'.asleep
                   PROVE  run'.started = run.started /\ run'.finished = run.finished
      OBVIOUS
    <3>2. EntryAt(lastActivity) = run /\ run.finished # Never
      BY <1>3, <3>1 DEF EntryAt, SleepIsFrozen
    <3>3. QED
      BY <1>3, <2>2, <3>1, <3>2, SleepingKeepsRun
  <2>3. QED
    BY <1>3, <2>1, <2>2 DEF Next
<1>4. TypeOK /\ TimesInOrder /\ SleepIsFrozen /\ [Next]_vars => [Still]_vars
  BY <1>3
<1>5. QED
  BY <1>1, <1>2, <1>4, TypeCorrect, ClocksInOrder, PTL DEF Spec, ElapsedFrozen

\* As long as a session neither wakes nor changes its objective, the model is
\* not called before the time its consumer was told last, whatever tier,
\* multiplier or interruption came in between.
THEOREM AnnouncedTimesHold == Spec => EligibleIsLowerBound
<1> DEFINE NotEarly ==
             /\ called'
             /\ told # Never
             /\ ~history.retimed
             /\ run # Never /\ ~run.asleep /\ run'.stableSince # now
             => now >= told.eligible
<1>1. Init => AnnouncedNotLater
  BY DEF Init, AnnouncedNotLater
<1>2. TypeOK /\ TimesInOrder /\ AnnouncedNotLater /\ [Next]_vars => AnnouncedNotLater'
  BY AnnouncedNotLaterInductive
<1>3. ASSUME TypeOK, TimesInOrder, AnnouncedNotLater,
             NEW lastActivity \in Time, NEW changed \in BOOLEAN,
             SyncCalls(lastActivity, changed)
      PROVE  NotEarly
  <2> DEFINE ready == AfterObjective(run, changed)
  <2>1. SUFFICES ASSUME told # Never, ~history.retimed, run # Never, ~run.asleep,
                        run'.stableSince # now
                 PROVE  told.eligible <= now
    BY <1>3, TimeIsNat DEF TypeOK, Told
  <2>2. EntryAt(lastActivity) = run /\ WokenState(run) = run
    BY <2>1 DEF EntryAt, WokenState
  <2>3. Orderly(run) /\ Orderly(ready)
    BY <1>3, <2>2, EntryOrderly, StepsOrderly
  <2>4. ~changed
    <3>1. changed => ready.stableSince = now
      BY <2>3 DEF AfterObjective, NewObjective, Restarted, Orderly, Run
    <3>2. PICK update : Finish(Stamped(ready), update, TRUE, changed \/ run.asleep)
      BY <1>3, <2>2 DEF SyncCalls
    <3>3. run'.stableSince = ready.stableSince
      BY <2>3, <3>2 DEF Finish, Stamped, Orderly, Run
    <3>4. QED
      BY <2>1, <3>1, <3>3
  <2>5. Due(run)
    BY <1>3, <2>1, <2>2, <2>4 DEF SyncCalls, HeldBack, AfterObjective
  <2>6. Promise(told.eligible, run) /\ told.eligible \in Nat
    BY <1>3, <2>1 DEF AnnouncedNotLater, TypeOK, Told
  <2>7. QED
    BY <1>3, <2>3, <2>5, <2>6, DuePromise
<1>4. ASSUME TypeOK, TimesInOrder, AnnouncedNotLater, [Next]_vars
      PROVE  [NotEarly]_vars
  <2>1. CASE Tick \/ PaneExits \/ PaneRevives \/ EngineRestarts
    BY <2>1 DEF Tick, PaneExits, PaneRevives, EngineRestarts
  <2>2. ASSUME NEW lastActivity \in Time, Sync(lastActivity)
        PROVE  NotEarly
    <3>1. CASE \E changed \in BOOLEAN : SyncCalls(lastActivity, changed)
      BY <1>3, <1>4, <3>1
    <3>2. CASE ~\E changed \in BOOLEAN : SyncCalls(lastActivity, changed)
      <4>1. ~called'
        BY <2>2, <3>2 DEF Sync, SyncExited, SyncSleeping, SyncWithoutContext,
                          SyncSuppressed, SyncCarryForward, SyncDisabled, Finish
      <4>2. QED
        BY <4>1
    <3>3. QED
      BY <3>1, <3>2
  <2>3. QED
    BY <1>4, <2>1, <2>2 DEF Next
<1>5. TypeOK /\ TimesInOrder /\ AnnouncedNotLater /\ [Next]_vars => [NotEarly]_vars
  BY <1>4
<1>6. QED
  BY <1>1, <1>2, <1>5, TypeCorrect, ClocksInOrder, PTL DEF Spec, EligibleIsLowerBound
=============================================================================
