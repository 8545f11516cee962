----------------------------- MODULE RunCadence -------------------------------
(***************************************************************************)
(* When the emit engine may call the model for a session, and which run    *)
(* its updates report.                                                     *)
(*                                                                         *)
(* A session keeps three clocks: the time of the last model call, the time *)
(* since when its objective is stable (an old objective is asked about     *)
(* less often: hot, warm, cold), and the current run, which is frozen when *)
(* the session falls asleep and restarted when it wakes or its objective   *)
(* changes.  Every update announces the run and the next time at which the *)
(* model may be called.                                                    *)
(*                                                                         *)
(* The facts that put a session to sleep and the need for a passive update *)
(* are free choices here; SessionEmission derives them.                    *)
(*                                                                         *)
(* Source: src/src/emit/engine.rs.                                         *)
(***************************************************************************)
EXTENDS Integers

CONSTANTS
    Hot, Warm, Cold,   \* the cadences of the request's configuration
    Multiplier,        \* cadence multiplier of the backend (1: OpenRouter)
    MaxTime,           \* bound on the clock
    Interruptions,     \* what may happen besides visits, see below
    Never              \* no time stamp, no runtime state, no update

\* "disabled": the client switches emission off and on.  "carry": backend
\* credentials come and go.  "revived": an exited session id is seen alive
\* again before it was dropped.  "restart": the engine process is replaced.
ASSUME CadenceConstants ==
    /\ Hot \in Nat \ {0} /\ Warm \in Nat /\ Cold \in Nat
    /\ Hot <= Warm /\ Warm <= Cold
    /\ Multiplier \in Nat \ {0}
    /\ MaxTime \in Nat
    /\ Interruptions \subseteq {"disabled", "carry", "revived", "restart"}
    /\ Never \notin Int

VARIABLES
    now,       \* the clock of the requests; it goes back only with a new engine
    exited,    \* the pane has exited
    run,       \* the clocks of the session's runtime state
    told,      \* what the consumer was told last
    called,    \* the last step called the model
    history    \* for the properties only: earlier calls and changes

vars == <<now, exited, run, told, called, history>>

-----------------------------------------------------------------------------
Time == 0..MaxTime
Stamp == Time \cup {Never}

\* asleep stands for the thought state Sleeping, emitted for emission_seq > 0.
Run == [asleep : BOOLEAN, emitted : BOOLEAN, hasObjective : BOOLEAN,
        stableSince : Time, lastCall : Stamp, started : Time, finished : Stamp]

\* stopped says that the update's rest state is Sleeping or DeepSleep;
\* eligible is next_llm_eligible_at and may lie beyond MaxTime.
Told == [kind : {"sleeping", "clear", "passive", "prose"}, asleep : BOOLEAN,
         stopped : BOOLEAN, hasObjective : BOOLEAN, at : Time,
         finished : Stamp, eligible : Nat]

\* calledAt: the last model call of this engine; restarted: the engine is a
\* replacement that has not called yet; retimed: a wake, a new objective or a
\* new engine since the last update.
History == [calledAt : Stamp, restarted : BOOLEAN, retimed : BOOLEAN]

ASSUME NeverApart == Never \notin Run \cup Told

TypeOK ==
    /\ now \in Time
    /\ exited \in BOOLEAN
    /\ run \in Run \cup {Never}
    /\ told \in Told \cup {Never}
    /\ called \in BOOLEAN
    /\ history \in History

-----------------------------------------------------------------------------
(***************************************************************************)
(* Cadence                                                                 *)
(***************************************************************************)
Elapsed(from, to) == IF to > from THEN to - from ELSE 0

TierCadence(st) ==
    IF Elapsed(st.stableSince, now) >= Cold THEN Cold
    ELSE IF Elapsed(st.stableSince, now) >= Warm THEN Warm
    ELSE Hot

Cadence(st, multiplier) == TierCadence(st) * multiplier

Due(st) ==
    \/ st.lastCall = Never
    \/ Elapsed(st.lastCall, now) >= Cadence(st, Multiplier)

\* Fault: a session that was never asked about announces no time.
EligibleAtUnset(st, multiplier) ==
    IF st.lastCall = Never THEN Never ELSE st.lastCall + Cadence(st, multiplier)

\* Fault: the cadence is counted from the update.
EligibleAtFromNow(st, multiplier) ==
    IF st.lastCall = Never THEN now ELSE now + Cadence(st, multiplier)

EligibleAt(st, multiplier) ==
    IF st.lastCall = Never THEN now ELSE st.lastCall + Cadence(st, multiplier)

\* Only the unmultiplied cadence yields to a new objective; a session that
\* just woke is asked about at once.
HeldBack(st, objectiveChanged, woke) ==
    /\ ~woke
    /\ ~Due(st)
    /\ Multiplier > 1 \/ ~objectiveChanged

-----------------------------------------------------------------------------
(***************************************************************************)
(* The runtime state and the updates of one sync                           *)
(***************************************************************************)

\* Fault: a stamp that is ahead of the request is taken as it is.
Unclamped(stamp) == stamp

\* clamp_to_now
Clamped(stamp) == IF stamp > now THEN now ELSE stamp

\* A new state starts from the last update when the client sends its cached
\* fields back, and otherwise from the time the pane was last active.  The run
\* is clamped to the request; the other two clocks are not.
EntryAt(lastActivity) ==
    IF run # Never THEN run
    ELSE IF told # Never
         THEN [asleep |-> told.asleep, emitted |-> FALSE,
               hasObjective |-> told.hasObjective,
               stableSince |-> told.at, lastCall |-> told.at,
               started |-> Clamped(told.at),
               finished |-> IF exited \/ told.stopped THEN Clamped(told.at) ELSE Never]
         ELSE [asleep |-> FALSE, emitted |-> FALSE, hasObjective |-> FALSE,
               stableSince |-> now, lastCall |-> Never,
               started |-> Clamped(lastActivity),
               finished |-> IF exited THEN now ELSE Never]

\* Fault: every sleeping sync moves the end of the run.
FrozenAgain(st) == [st EXCEPT !.finished = now]

Restarted(st) == [st EXCEPT !.started = now, !.finished = Never]
Frozen(st) == [st EXCEPT !.finished = IF @ = Never THEN now ELSE @]

\* Fault: only the first call is stamped.
StampedOnce(st) == [st EXCEPT !.lastCall = IF @ = Never THEN now ELSE @]

Stamped(st) == [st EXCEPT !.lastCall = now]

\* Fault: waking leaves the run alone.
WokenStateFrozen(st) ==
    IF st.asleep
    THEN [st EXCEPT !.asleep = FALSE, !.stableSince = now, !.lastCall = Never,
                    !.emitted = TRUE]
    ELSE st

\* Waking restarts the run and forgets the last call.
WokenState(st) ==
    IF st.asleep
    THEN [Restarted(st) EXCEPT !.asleep = FALSE, !.stableSince = now,
                               !.lastCall = Never, !.emitted = TRUE]
    ELSE st

NewObjective(st) ==
    LET base == IF st.hasObjective THEN Restarted(st) ELSE st
    IN  [base EXCEPT !.stableSince = now, !.hasObjective = TRUE]

Announce(st, kind, multiplier) ==
    [kind |-> kind, asleep |-> st.asleep, stopped |-> st.asleep \/ exited,
     hasObjective |-> st.hasObjective, at |-> now,
     finished |-> st.finished, eligible |-> EligibleAt(st, multiplier)]

\* The end of a sync that leaves the state st and answers with update, or
\* with none.
Finish(st, update, calls, retimes) ==
    /\ run' = [st EXCEPT !.emitted = @ \/ update # Never]
    /\ told' = IF update = Never THEN told ELSE update
    /\ called' = calls
    /\ history' =
        [calledAt |-> IF calls THEN now ELSE history.calledAt,
         restarted |-> history.restarted /\ ~calls,
         retimed |-> update = Never /\ (history.retimed \/ retimes)]
    /\ UNCHANGED <<now, exited>>

\* Answer with an update or with none.
Maybe(update) == {update, Never}

-----------------------------------------------------------------------------
(***************************************************************************)
(* The ways a sync can treat the session                                   *)
(***************************************************************************)

\* The clear of an exited session leaves its clocks alone.
SyncExited(lastActivity) ==
    LET st == [EntryAt(lastActivity) EXCEPT !.asleep = FALSE]
    IN  /\ exited
        /\ \E update \in Maybe(Announce(st, "clear", Multiplier)) :
            /\ EntryAt(lastActivity).asleep => update # Never
            /\ Finish(st, update, FALSE, FALSE)

SyncSleeping(lastActivity) ==
    LET st == [Frozen(EntryAt(lastActivity)) EXCEPT !.asleep = TRUE]
    IN  /\ ~exited
        /\ \E update \in Maybe(Announce(st, "sleeping", Multiplier)) :
            /\ ~EntryAt(lastActivity).asleep => update # Never
            /\ Finish(st, update, FALSE, FALSE)

\* Too little context for a first thought: the objective is not looked at.
SyncWithoutContext(lastActivity) ==
    LET st == EntryAt(lastActivity)
    IN  /\ ~exited
        /\ ~st.asleep
        /\ ~st.emitted
        /\ \E update \in Maybe(Announce(st, "passive", Multiplier)) :
            Finish(st, update, FALSE, FALSE)

AfterObjective(st, changed) == IF changed THEN NewObjective(st) ELSE st

\* The cadence is not due, or the terminal has hardly changed.
SyncSuppressed(lastActivity, changed) ==
    LET before == EntryAt(lastActivity)
        st == AfterObjective(before, changed)
    IN  /\ ~exited
        /\ ~before.asleep
        /\ ~before.hasObjective => changed
        /\ HeldBack(st, changed, FALSE) \/ ~changed
        /\ \E update \in Maybe(Announce(st, "passive", Multiplier)) :
            Finish(st, update, FALSE, changed)

\* The model is called.  The call is stamped before it is made: a failed or
\* empty answer spends the cadence like a published one.  A session that
\* wakes has been sent the clear that withdraws its sleeping thought.
SyncCalls(lastActivity, changed) ==
    LET before == EntryAt(lastActivity)
        woken == WokenState(before)
        ready == AfterObjective(woken, changed)
        st == Stamped(ready)
    IN  /\ ~exited
        /\ ~before.hasObjective => changed
        /\ ~HeldBack(ready, changed, before.asleep)
        /\ \E update \in {Announce(st, "prose", Multiplier)}
                \cup IF before.asleep THEN {Announce(woken, "clear", Multiplier)}
                     ELSE Maybe(Announce(st, "passive", Multiplier)) :
            Finish(st, update, TRUE, changed \/ before.asleep)

\* Credentials are missing: a passive update at most, no clock is touched.
SyncCarryForward(lastActivity, asleep) ==
    LET before == EntryAt(lastActivity)
        st == [before EXCEPT !.asleep = asleep]
    IN  /\ "carry" \in Interruptions
        /\ ~exited
        /\ \E update \in Maybe(Announce(st, "passive", Multiplier)) :
            /\ asleep # before.asleep => update # Never
            /\ Finish(st, update, FALSE, FALSE)

\* Emission is disabled: what was shown is withdrawn, the clocks stay.
SyncDisabled(lastActivity) ==
    LET before == EntryAt(lastActivity)
        st == [before EXCEPT !.asleep = FALSE]
    IN  /\ "disabled" \in Interruptions
        /\ \E update \in Maybe(Announce(st, "clear", 1)) :
            /\ before.asleep => update # Never
            /\ Finish(st, update, FALSE, FALSE)

Sync(lastActivity) ==
    \/ SyncExited(lastActivity)
    \/ SyncSleeping(lastActivity)
    \/ SyncWithoutContext(lastActivity)
    \/ \E changed \in BOOLEAN : SyncSuppressed(lastActivity, changed)
    \/ \E changed \in BOOLEAN : SyncCalls(lastActivity, changed)
    \/ \E asleep \in BOOLEAN : SyncCarryForward(lastActivity, asleep)
    \/ SyncDisabled(lastActivity)

-----------------------------------------------------------------------------
(***************************************************************************)
(* The world                                                               *)
(***************************************************************************)
Tick ==
    /\ now < MaxTime
    /\ now' = now + 1
    /\ called' = FALSE
    /\ UNCHANGED <<exited, run, told, history>>

PaneExits ==
    /\ ~exited
    /\ exited' = TRUE
    /\ called' = FALSE
    /\ UNCHANGED <<now, run, told, history>>

PaneRevives ==
    /\ "revived" \in Interruptions
    /\ exited
    /\ exited' = FALSE
    /\ called' = FALSE
    /\ UNCHANGED <<now, run, told, history>>

\* The client holds a view of the session and sends it to the new engine.  Its
\* requests may carry an earlier clock than those the view was built from.
EngineRestarts ==
    /\ "restart" \in Interruptions
    /\ run # Never
    /\ told # Never
    /\ run' = Never
    /\ called' = FALSE
    /\ now' \in 0..now
    /\ history' = [history EXCEPT !.calledAt = Never, !.restarted = TRUE,
                                  !.retimed = TRUE]
    /\ UNCHANGED <<exited, told>>

Init ==
    /\ now = 0
    /\ exited = FALSE
    /\ run = Never
    /\ told = Never
    /\ called = FALSE
    /\ history = [calledAt |-> Never, restarted |-> FALSE, retimed |-> FALSE]

Next ==
    \/ Tick
    \/ PaneExits
    \/ PaneRevives
    \/ EngineRestarts
    \/ \E lastActivity \in Time : Sync(lastActivity)

Spec == Init /\ [][Next]_vars

-----------------------------------------------------------------------------
(***************************************************************************)
(* Properties                                                              *)
(***************************************************************************)

\* The reported run never lies ahead of the request or ends before it starts,
\* wherever its start came from.
RunInOrder(st) ==
    /\ st.started <= now
    /\ st.finished # Never => st.started <= st.finished /\ st.finished <= now

\* The clocks of the cadence can be ahead of the request, but only by the stamp
\* that a replaced engine was given, and only until its first call.
AheadAsGiven(st) ==
    /\ st.lastCall # Never /\ st.lastCall > now => history.restarted
    /\ st.stableSince > now => history.restarted /\ st.lastCall = st.stableSince

\* An elapsed time hides behind the saturation of saturating_elapsed_ms only in
\* an engine that was handed a view from the future and has not called since:
\* the run is clamped, and every other path sets its clocks to the request.
TimesInOrder == run # Never => RunInOrder(run) /\ AheadAsGiven(run)

\* The run of a live session is finished exactly while the session sleeps,
\* and that is what the consumer was told, so that a replaced engine can
\* rebuild the run from it.
RunMatchesSleep ==
    ~exited =>
        /\ run # Never => (run.asleep <=> run.finished # Never)
        /\ told # Never => (told.stopped <=> told.asleep)

\* The engine remembers its last call of the model, failed or not: nothing but
\* a wake, which calls at once, forgets it.
LastCallRemembered ==
    history.calledAt # Never =>
        run # Never /\ run.lastCall = history.calledAt

\* The elapsed time of a sleeping session stands still, however many syncs it
\* sleeps through.
ElapsedFrozen ==
    [][/\ run # Never /\ run' # Never
       /\ run.asleep /\ run'.asleep
       => run'.started = run.started /\ run'.finished = run.finished]_vars

\* Two calls that one engine makes for a session are at least the multiplied
\* hot cadence apart, failed calls counted, unless the session woke, or the
\* backend is unmultiplied and the objective has just changed.
CallSpacing ==
    [][/\ called'
       /\ history.calledAt # Never
       => \/ now - history.calledAt >= Hot * Multiplier
          \/ run # Never /\ run.asleep
          \/ Multiplier = 1 /\ run'.stableSince = now]_vars

\* The announced next_llm_eligible_at is a lower bound: as long as the
\* session does not wake and keeps its objective, the model is not called
\* before the time that the consumer was told last.
EligibleIsLowerBound ==
    [][/\ called'
       /\ told # Never
       /\ ~history.retimed
       /\ run # Never /\ ~run.asleep /\ run'.stableSince # now
       => now >= told.eligible]_vars

\* "present only after the run has stopped": prose about a session at work
\* comes with a running timer.
ProseReportsLiveRun ==
    told # Never /\ told.kind = "prose" => told.finished = Never
=============================================================================
