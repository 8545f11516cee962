--------------------------- MODULE SessionEmission ----------------------------
(***************************************************************************)
(* What the emit engine tells a consumer about one session.                *)
(*                                                                         *)
(* On every sync the engine derives the session's facts (rest state,       *)
(* commit candidate, action cues) from the pane snapshot of the request    *)
(* and the agent's transcript, compares them with what it told last, and   *)
(* answers with zero, one or two updates.  A consumer that applies the     *)
(* updates in order holds the view, and may send it back as the session's  *)
(* cached fields in the next request.                                      *)
(*                                                                         *)
(* Left to other modules: which transcript is read (TranscriptClaims),     *)
(* and the clock that decides when the model may be called and which run   *)
(* an update reports (RunCadence).  Here that decision is a free choice.   *)
(* Left out: prompts and the histories that only feed them, token counts,  *)
(* and the provenance label of a thought.                                  *)
(*                                                                         *)
(* Source: src/src/emit/engine.rs.                                         *)
(***************************************************************************)
EXTENDS Naturals

CONSTANTS
    Prose,         \* the texts the model may answer
    Question,      \* the text of an agent that waits for its user
    Signals,       \* the cue kinds a transcript's commit signal can give
    MaxActivity,   \* bound on the activity stamps of the pane
    MaxInput,      \* bound on the inputs a client delivers
    Clients,       \* the clients that may drive the engine, see client
    Nothing,       \* no thought, no stamp, no transcript, no update
    Unasked        \* no response: the last step was no sync

Kinds == {"awaiting_user", "commit_ready", "validation_missing",
          "dirty_check_missing"}

ASSUME EmissionConstants ==
    /\ Nothing \notin Prose \cup {Question}
    /\ Question \notin Prose
    /\ Signals \subseteq Kinds \ {"awaiting_user"}
    /\ MaxActivity \in Nat
    /\ MaxInput \in Nat
    /\ Clients \subseteq [echo : BOOLEAN, lossy : BOOLEAN]
    /\ Nothing \notin Nat \cup Kinds

VARIABLES
    client,       \* the client of this engine; it never changes
    pane,         \* the session as the next request will show it
    transcript,   \* what the session's transcript says, if it has one
    runtime,      \* the engine's runtime state of the session
    view,         \* the session's fields as the consumer holds them
    sent          \* the last update of the response, if the last step was a sync

vars == <<client, pane, transcript, runtime, view, sent>>

-----------------------------------------------------------------------------
RestState == {"active", "drowsy", "sleeping", "deep_sleep"}
ThoughtState == {"active", "holding", "sleeping"}
Thought == Prose \cup {Question, Nothing}

\* The part of an update a consumer replaces in its view.
Shown == [rest : RestState, commit : BOOLEAN, cues : SUBSET Kinds,
          thought : Thought, state : ThoughtState]

\* "idle" stands for Idle and Attention, "busy" for Busy and Error.  quiet
\* says that the pane shows no activity for DROWSY_AFTER_MS.  input counts
\* the delivered inputs; 0 means that the client never reported one.
Pane == [state : {"busy", "idle", "exited"}, quiet : BOOLEAN,
         activity : 0..MaxActivity, input : 0..MaxInput]

\* userTurn is the latest input the transcript has recorded as a user turn.
Transcript == [awaiting : {"no", "silent", "question"},
               signal : Signals \cup {Nothing}, userTurn : 0..MaxInput]

\* emitted says that emission_seq is above 0; activity is
\* last_emitted_activity_at.
Runtime == [shown : Shown, emitted : BOOLEAN, sleepingEmitted : BOOLEAN,
            activity : 0..MaxActivity \cup {Nothing}]

ASSUME NothingApart ==
    /\ Nothing \notin Shown \cup Transcript \cup Runtime
    /\ Unasked \notin Shown \cup {Nothing}

TypeOK ==
    /\ client \in Clients
    /\ pane \in Pane
    /\ transcript \in Transcript \cup {Nothing}
    /\ runtime \in Runtime \cup {Nothing}
    /\ view \in Shown
    /\ sent \in Shown \cup {Nothing, Unasked}

\* Requests carry the consumer's cached fields.
Echo == client.echo

\* The consumer may miss a response.
Lossy == client.lossy

Blank == [rest |-> "active", commit |-> FALSE, cues |-> {},
          thought |-> Nothing, state |-> "holding"]

Asleep(rest) == rest \in {"sleeping", "deep_sleep"}

-----------------------------------------------------------------------------
(***************************************************************************)
(* The request and the facts derived from it                               *)
(***************************************************************************)

\* The cached fields of the request: the consumer's view, or the defaults of
\* the tmux scanner.
Inbound == IF Echo THEN view ELSE Blank

\* Fault: the state is rebuilt without the cached fields of the request.
EntryWithoutCache ==
    IF runtime # Nothing THEN runtime
    ELSE [shown |-> Blank, emitted |-> FALSE, sleepingEmitted |-> FALSE,
          activity |-> Nothing]

\* The runtime state a sync works on, created from the request when missing.
Entry ==
    IF runtime # Nothing THEN runtime
    ELSE [shown |-> Inbound, emitted |-> FALSE,
          sleepingEmitted |-> Inbound.state = "sleeping" /\ Asleep(Inbound.rest),
          activity |-> Nothing]

Exited == pane.state = "exited"

\* The client delivered input that no recorded user turn covers yet.
Uncovered ==
    /\ transcript # Nothing
    /\ pane.input > 0
    /\ transcript.userTurn < pane.input

\* The transcript once input causality is enforced.
Context ==
    IF Uncovered
    THEN [transcript EXCEPT !.awaiting = "no", !.signal = Nothing]
    ELSE transcript

IdleRest ==
    IF pane.state = "idle" /\ pane.quiet THEN "drowsy" ELSE "active"

\* Fault: cached cues are trusted although input was delivered since.
UsesCachedCuesAlways == Context = Nothing

\* Cached cues stand in for a missing transcript, unless the client reports
\* input that could have answered them.
UsesCachedCues == Context = Nothing /\ pane.input = 0

\* Fault: an agent that waits without a text is not seen as waiting.
NextRestNeedsText ==
    IF Exited THEN "deep_sleep"
    ELSE IF \/ Context # Nothing /\ Context.awaiting = "question"
            \/ UsesCachedCues /\ "awaiting_user" \in Inbound.cues
         THEN "sleeping"
         ELSE IdleRest

NextRest ==
    IF Exited THEN "deep_sleep"
    ELSE IF \/ Context # Nothing /\ Context.awaiting # "no"
            \/ UsesCachedCues /\ "awaiting_user" \in Inbound.cues
         THEN "sleeping"
         ELSE IdleRest

NextCommit ==
    /\ ~Exited
    /\ \/ Context # Nothing /\ Context.signal = "commit_ready"
       \/ /\ UsesCachedCues
          /\ Inbound.commit \/ "commit_ready" \in Inbound.cues

\* Fault: the cue of a transcript without a signal is not left out.
NextCuesUnfiltered ==
    IF Exited \/ Context = Nothing THEN {}
    ELSE (IF Context.awaiting = "no" THEN {} ELSE {"awaiting_user"})
             \cup {Context.signal}

NextCues ==
    IF Exited THEN {}
    ELSE IF Context # Nothing
         THEN (IF Context.awaiting = "no" THEN {} ELSE {"awaiting_user"})
                  \cup ({Context.signal} \ {Nothing})
         ELSE IF UsesCachedCues THEN Inbound.cues ELSE {}

\* A view of the session that carries the current facts.
Facing(thought, state) ==
    [rest |-> NextRest, commit |-> NextCommit, cues |-> NextCues,
     thought |-> thought, state |-> state]

SameFacts(a, b) == a.rest = b.rest /\ a.commit = b.commit /\ a.cues = b.cues

-----------------------------------------------------------------------------
(***************************************************************************)
(* Work in progress of one sync: the runtime state and the latest update   *)
(***************************************************************************)
Work == [st : Runtime, update : Shown \cup {Nothing}]

Start == [st |-> Entry, update |-> Nothing]

\* Every update stamps the activity it was observed at.
Emit(work, shown) ==
    [st |-> [shown |-> shown, emitted |-> TRUE,
             sleepingEmitted |-> shown.state = "sleeping",
             activity |-> pane.activity],
     update |-> shown]

\* Fault: only a session that was never updated counts as freshly observed.
FreshObservationOnce(st) ==
    /\ Context # Nothing
    /\ Asleep(NextRest) \/ NextCommit \/ NextCues # {}
    /\ st.activity = Nothing

\* The transcript is newer than the last update and says something that a
\* consumer may have dropped on seeing that activity.
FreshObservation(st) ==
    /\ Context # Nothing
    /\ Asleep(NextRest) \/ NextCommit \/ NextCues # {}
    /\ st.activity = Nothing \/ pane.activity > st.activity

CurrentThought(st) ==
    IF st.shown.thought # Nothing THEN st.shown.thought ELSE Inbound.thought

\* Fault: leaving sleep keeps the thought state.
PassiveShownKeepsState(st) ==
    Facing(CurrentThought(st),
           IF Asleep(NextRest) THEN "sleeping" ELSE st.shown.state)

\* The thought state and the thought of an update without new prose.
PassiveShown(st) ==
    IF Asleep(NextRest) THEN Facing(CurrentThought(st), "sleeping")
    ELSE IF st.shown.state = "sleeping" THEN Facing(Nothing, "holding")
    ELSE Facing(CurrentThought(st), st.shown.state)

\* Fault: a change of the cues alone is not worth an update.
PassiveNeededIgnoresCues(st) ==
    \/ st.shown.rest # NextRest
    \/ st.shown.commit # NextCommit
    \/ FreshObservation(st)

PassiveNeeded(st) ==
    \/ ~SameFacts(st.shown, Facing(Nothing, "holding"))
    \/ /\ ~st.emitted
       /\ st.shown.thought = Nothing
       /\ NextCommit \/ NextCues # {}
    \/ FreshObservation(st)

Passive(work) ==
    IF PassiveNeeded(work.st) THEN Emit(work, PassiveShown(work.st)) ELSE work

\* The fields a clear leaves behind.
Cleared(rest) == [Blank EXCEPT !.rest = rest]

\* Fault: the consumer's cached fields are not looked at.
NeedsClearOfRuntime(st, rest) ==
    \/ st.shown.thought # Nothing
    \/ st.shown.state # "holding"
    \/ st.shown.rest # rest
    \/ st.shown.commit
    \/ st.shown.cues # {}

NeedsClear(st, rest) ==
    \/ st.shown.thought # Nothing
    \/ st.shown.state # "holding"
    \/ st.shown.rest # rest
    \/ st.shown.commit
    \/ st.shown.cues # {}
    \/ Inbound.thought # Nothing
    \/ Inbound.commit
    \/ Inbound.cues # {}

Clear(work, rest) ==
    IF NeedsClear(work.st, rest) THEN Emit(work, Cleared(rest)) ELSE work

\* The sleeping path carries the agent's question, else the last thought.
SleepingThought(st) ==
    IF Context # Nothing /\ Context.awaiting = "question" THEN Question
    ELSE CurrentThought(st)

\* Fault: a sleeping session is updated on every sync.
SleepingNeededAlways(st) == Asleep(st.shown.rest) \/ Asleep(NextRest)

SleepingNeeded(st) ==
    \/ FreshObservation(st)
    \/ ~st.sleepingEmitted
    \/ st.shown # Facing(SleepingThought(st), "sleeping")

\* Waking first withdraws the sleeping thought.
Woken(work) ==
    IF work.st.shown.state = "sleeping"
    THEN Emit(work, Facing(Nothing, "holding"))
    ELSE work

\* The response reaches the consumer, or a lossy one misses it.
Respond(work) ==
    /\ runtime' = work.st
    /\ sent' = work.update
    /\ \/ view' = IF work.update = Nothing THEN view ELSE work.update
       \/ Lossy /\ view' = view
    /\ UNCHANGED <<client, pane, transcript>>

-----------------------------------------------------------------------------
(***************************************************************************)
(* The ways a sync can treat the session                                   *)
(***************************************************************************)

\* Emission is disabled: everything shown is withdrawn.
SyncDisabled ==
    Respond(Clear(Start, IF Exited THEN "deep_sleep" ELSE IdleRest))

\* The backend client cannot be constructed: the sync returns at once.
SyncWithoutClient == Respond(Start)

\* An exited session is cleared, with or without backend credentials.
SyncExited ==
    /\ Exited
    /\ Respond(Clear(Start, "deep_sleep"))

\* Credentials are missing: facts are still refreshed, the model is not used.
SyncCarryForward ==
    /\ ~Exited
    /\ Respond(Passive(Start))

SyncSleeping ==
    /\ ~Exited
    /\ Asleep(NextRest)
    /\ Respond(IF SleepingNeeded(Entry)
               THEN Emit(Start, Facing(SleepingThought(Entry), "sleeping"))
               ELSE Start)

Awake == ~Exited /\ ~Asleep(NextRest)
WasAsleep == Entry.shown.state = "sleeping"

\* Nothing was said yet and there is too little to say anything about.  That
\* the pane text and the transcript are meagre is a free choice.
SyncWithoutContext ==
    /\ Awake
    /\ ~Woken(Start).st.emitted
    /\ Inbound.thought = Nothing
    /\ ~NextCommit /\ NextCues = {}
    /\ Respond(Passive(Woken(Start)))

\* The cadence is not due or the terminal has hardly changed; a session that
\* just woke is never held back by either.
SyncSuppressed ==
    /\ Awake
    /\ ~WasAsleep
    /\ Respond(Passive(Woken(Start)))

\* The model call fails, or its answer is empty.
SyncModelSilent ==
    /\ Awake
    /\ Respond(Passive(Woken(Start)))

\* The model repeats the thought that is already shown.
SyncModelRepeats ==
    /\ Awake
    /\ Woken(Start).st.shown.thought \in Prose
    /\ Respond(Passive(Woken(Start)))

\* New prose is published; the thought is active if the objective changed.
SyncPublishes(text, objectiveChanged) ==
    /\ Awake
    /\ text # Woken(Start).st.shown.thought
    /\ Respond(Emit(Woken(Start),
                    Facing(text, IF objectiveChanged THEN "active" ELSE "holding")))

\* The syncs that look at the session with emission enabled.
Visit ==
    \/ SyncExited
    \/ SyncCarryForward
    \/ SyncSleeping
    \/ SyncWithoutContext
    \/ SyncSuppressed
    \/ SyncModelSilent
    \/ SyncModelRepeats
    \/ \E text \in Prose, changed \in BOOLEAN : SyncPublishes(text, changed)

-----------------------------------------------------------------------------
(***************************************************************************)
(* The session, its client and the engine process                          *)
(***************************************************************************)
\* A step of the world; the next sync is seen even if it changes nothing.
Silently ==
    /\ sent' = Unasked
    /\ UNCHANGED client

PaneOutput ==
    /\ ~Exited
    /\ pane.activity < MaxActivity
    /\ pane' = [pane EXCEPT !.state = "busy", !.quiet = FALSE, !.activity = @ + 1]
    /\ Silently
    /\ UNCHANGED <<transcript, runtime, view>>

PaneSettles ==
    /\ pane.state = "busy"
    /\ pane' = [pane EXCEPT !.state = "idle"]
    /\ Silently
    /\ UNCHANGED <<transcript, runtime, view>>

PaneTurnsQuiet ==
    /\ ~Exited
    /\ ~pane.quiet
    /\ pane' = [pane EXCEPT !.quiet = TRUE]
    /\ Silently
    /\ UNCHANGED <<transcript, runtime, view>>

PaneExits ==
    /\ ~Exited
    /\ pane' = [pane EXCEPT !.state = "exited"]
    /\ Silently
    /\ UNCHANGED <<transcript, runtime, view>>

\* The client delivers input and advances last_input_started_at.
InputDelivered ==
    /\ ~Exited
    /\ pane.input < MaxInput
    /\ pane' = [pane EXCEPT !.input = @ + 1]
    /\ Silently
    /\ UNCHANGED <<transcript, runtime, view>>

TranscriptBecomes(next) ==
    /\ transcript' = next
    /\ Silently
    /\ UNCHANGED <<pane, runtime, view>>

\* The session gets a transcript (again), or loses it.
TranscriptAppears ==
    /\ transcript = Nothing
    /\ \E turn \in 0..pane.input :
        TranscriptBecomes([awaiting |-> "no", signal |-> Nothing, userTurn |-> turn])

TranscriptLost == transcript # Nothing /\ TranscriptBecomes(Nothing)

\* The agent records the user's input, stops to wait, or works on a change.
AgentRecordsTurn ==
    /\ transcript # Nothing
    /\ TranscriptBecomes([transcript EXCEPT !.awaiting = "no", !.userTurn = pane.input])

AgentWaits(how) ==
    /\ transcript # Nothing
    /\ transcript.awaiting # how
    /\ TranscriptBecomes([transcript EXCEPT !.awaiting = how])

AgentSignals(signal) ==
    /\ transcript # Nothing
    /\ transcript.signal # signal
    /\ TranscriptBecomes([transcript EXCEPT !.signal = signal])

\* The engine process is replaced while the consumer keeps what it holds.
EngineRestarts ==
    /\ Echo
    /\ runtime # Nothing
    /\ runtime' = Nothing
    /\ Silently
    /\ UNCHANGED <<pane, transcript, view>>

\* A request without the session: engine and consumer both forget it.
SessionDropped ==
    /\ runtime # Nothing
    /\ runtime' = Nothing
    /\ view' = Blank
    /\ Silently
    /\ UNCHANGED <<pane, transcript>>

World ==
    \/ PaneOutput
    \/ PaneSettles
    \/ PaneTurnsQuiet
    \/ PaneExits
    \/ InputDelivered
    \/ TranscriptAppears
    \/ TranscriptLost
    \/ AgentRecordsTurn
    \/ \E how \in {"silent", "question"} : AgentWaits(how)
    \/ \E signal \in Signals \cup {Nothing} : AgentSignals(signal)
    \/ EngineRestarts
    \/ SessionDropped

Init ==
    /\ client \in Clients
    /\ pane = [state |-> "busy", quiet |-> FALSE, activity |-> 0, input |-> 0]
    /\ transcript = Nothing
    /\ runtime = Nothing
    /\ view = Blank
    /\ sent = Unasked

Next ==
    \/ World
    \/ SyncDisabled
    \/ SyncWithoutClient
    \/ Visit

Spec == Init /\ [][Next]_vars

\* Both front ends sync again and again: the tmux daemon on its reconcile
\* deadline, a stdio client on its tick.
FairSpec == Spec /\ WF_vars(Visit)

-----------------------------------------------------------------------------
(***************************************************************************)
(* Properties                                                              *)
(***************************************************************************)

\* With every response delivered, the runtime state is what the consumer
\* holds: no path of a sync changes one without the other, and a state that
\* is rebuilt from the request after a restart is rebuilt exactly.
ViewAgrees ==
    ~Lossy /\ runtime # Nothing => view = runtime.shown

\* Rest state and thought state never contradict each other, for the consumer
\* or in the runtime state: the thought sleeps exactly while the session waits
\* for its user.
Matched(shown) == shown.rest = "sleeping" <=> shown.state = "sleeping"

RestMatchesThoughtState ==
    /\ Matched(view)
    /\ runtime # Nothing =>
        /\ Matched(runtime.shown)
        /\ runtime.sleepingEmitted <=> runtime.shown.state = "sleeping"

\* The question of a waiting agent is withdrawn together with the waiting,
\* whichever path notices that the wait is over.
QuestionOnlyWhileAsleep ==
    ~Lossy /\ view.thought = Question => view.state = "sleeping"

\* Whatever was emitted bears a stamp, and no stamp is ahead of the pane.
StampsInOrder ==
    runtime # Nothing =>
        /\ runtime.emitted => runtime.activity # Nothing
        /\ runtime.activity # Nothing => runtime.activity <= pane.activity

\* The invariants hold together: each path of a sync needs the others to keep
\* its own.  Without an echo, the engine and the consumer must start a session
\* from the same defaults.
EmissionInvariant ==
    /\ ~Echo /\ runtime = Nothing => view = Blank
    /\ ViewAgrees
    /\ RestMatchesThoughtState
    /\ QuestionOnlyWhileAsleep
    /\ StampsInOrder

\* With every response delivered: after every visit to a live session whose
\* transcript covers the delivered input, the consumer holds exactly what the transcript says, whether the
\* visit slept, woke, was suppressed, called the model, failed or published.
TranscriptFactsShown ==
    [][~Lossy /\ Visit /\ ~Exited /\ transcript # Nothing /\ ~Uncovered =>
        /\ view'.rest = "sleeping" <=> transcript.awaiting # "no"
        /\ view'.commit <=> transcript.signal = "commit_ready"
        /\ "awaiting_user" \in view'.cues <=> transcript.awaiting # "no"
        /\ view'.cues \ {"awaiting_user"} = {transcript.signal} \ {Nothing}]_vars

\* With every response delivered: once input was delivered that no recorded
\* user turn covers, the next sync leaves no cue, no commit candidate and no waiting in the consumer's view:
\* neither the transcript nor the consumer's own cached fields may keep an
\* answered question alive.
NoFactsBeforeInput ==
    [][/\ ~Lossy
       /\ Visit \/ SyncDisabled
       /\ pane.input > 0
       /\ transcript = Nothing \/ transcript.userTurn < pane.input
       => view'.cues = {} /\ ~view'.commit /\ view'.rest # "sleeping"]_vars

\* With every response delivered: an operational fact that a visit leaves
\* standing was delivered at the activity of that visit's request, so a consumer that drops cues on newer
\* output gets them back as soon as a request has seen that output.
FactsFreshlyStamped ==
    [][~Lossy /\ Visit /\ ~Exited /\ Context # Nothing
       /\ (view'.rest = "sleeping" \/ view'.commit \/ view'.cues # {})
       => runtime'.activity = pane.activity]_vars

\* With every response delivered, a session that has been told something
\* already is only updated again when the update changes the view or the pane
\* has been active since.
NoRedundantUpdate ==
    [][/\ ~Lossy
       /\ sent' \in Shown
       /\ runtime # Nothing
       /\ runtime.emitted
       => \/ view' # view
          \/ pane.activity > runtime.activity]_vars

\* A consumer that missed responses is still cleared if it sends its fields
\* back: after a disabled sync or the sync of an exited session whose response
\* arrives, it holds no thought, no commit candidate and no cue.
ClearReachesConsumer ==
    [][/\ Echo \/ ~Lossy
       /\ SyncDisabled \/ SyncExited
       /\ view' = IF sent' = Nothing THEN view ELSE sent'
       => view'.thought = Nothing /\ ~view'.commit /\ view'.cues = {}]_vars

\* An agent that keeps waiting, with nothing newer to answer, is eventually
\* shown as waiting to a client that misses nothing, and again after every disabled sync or restart.
Waiting ==
    /\ ~Lossy
    /\ ~Exited
    /\ transcript # Nothing
    /\ transcript.awaiting # "no"
    /\ ~Uncovered

WaitingIsShown == <>[]Waiting => []<>(view.rest = "sleeping")
=============================================================================
