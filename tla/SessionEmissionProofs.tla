------------------------ MODULE SessionEmissionProofs -------------------------
(***************************************************************************)
(* Proofs about SessionEmission for every set of answers and signals and   *)
(* every bound on activity and input.                                      *)
(***************************************************************************)
EXTENDS SessionEmission, TLAPS

-----------------------------------------------------------------------------
(***************************************************************************)
(* Types of the derived facts                                              *)
(***************************************************************************)

LEMMA BlankType == Blank \in Shown
  BY DEF Blank, Shown, RestState, ThoughtState, Thought, Kinds

LEMMA ContextType ==
  ASSUME TypeOK
  PROVE  Context \in Transcript \cup {Nothing}
  BY DEF TypeOK, Context, Uncovered, Transcript

LEMMA InboundType ==
  ASSUME TypeOK
  PROVE  Inbound \in Shown
  BY BlankType DEF TypeOK, Inbound

LEMMA EntryType ==
  ASSUME TypeOK
  PROVE  Entry \in Runtime
  BY InboundType DEF TypeOK, Entry, Runtime, Asleep

LEMMA FactTypes ==
  ASSUME TypeOK
  PROVE  /\ NextRest \in RestState
         /\ IdleRest \in {"active", "drowsy"}
         /\ NextCommit \in BOOLEAN
         /\ NextCues \in SUBSET Kinds
<1>1. IdleRest \in {"active", "drowsy"}
  BY DEF IdleRest
<1>2. NextRest \in RestState
  BY <1>1 DEF NextRest, RestState
<1>3. NextCommit \in BOOLEAN
  BY DEF NextCommit
<1>4. NextCues \in SUBSET Kinds
  <2>1. Inbound.cues \in SUBSET Kinds
    BY InboundType DEF Shown
  <2>2. Context # Nothing => {Context.signal} \ {Nothing} \subseteq Kinds
    BY ContextType, EmissionConstants DEF Transcript
  <2>3. "awaiting_user" \in Kinds
    BY DEF Kinds
  <2>4. QED
    BY <2>1, <2>2, <2>3 DEF NextCues
<1>5. QED
  BY <1>1, <1>2, <1>3, <1>4

LEMMA FacingType ==
  ASSUME TypeOK, NEW thought \in Thought, NEW state \in ThoughtState
  PROVE  /\ Facing(thought, state) \in Shown
         /\ Facing(thought, state).rest = NextRest
         /\ Facing(thought, state).state = state
         /\ Facing(thought, state).thought = thought
  BY FactTypes DEF Facing, Shown

\* Neither the thought nor its state is a fact.
LEMMA FacingFacts ==
  ASSUME NEW thought, NEW state
  PROVE  SameFacts(Facing(thought, state), Facing(Nothing, "holding"))
  BY DEF Facing, SameFacts

LEMMA CurrentThoughtType ==
  ASSUME TypeOK, NEW st \in Runtime
  PROVE  CurrentThought(st) \in Thought /\ SleepingThought(st) \in Thought
  BY InboundType DEF CurrentThought, SleepingThought, Runtime, Shown, Thought

\* A live session rests in none of the ways an exited one does.
LEMMA LiveRest ==
  ASSUME TypeOK, ~Exited
  PROVE  Asleep(NextRest) <=> NextRest = "sleeping"
  BY FactTypes DEF NextRest, Asleep

-----------------------------------------------------------------------------
(***************************************************************************)
(* The work of a sync, step by step                                        *)
(***************************************************************************)

\* What may be shown while the consumer gets every response.
Presentable(shown) ==
    /\ Matched(shown)
    /\ ~Lossy /\ shown.thought = Question => shown.state = "sleeping"

\* The stamp of a state that has been told something.
StampInOrder(st) ==
    /\ st.emitted => st.activity # Nothing
    /\ st.activity # Nothing => st.activity <= pane.activity

\* The state and the latest update of a work that keep the invariant when the
\* sync responds with them.
Sound(work) ==
    /\ work \in Work
    /\ work.st.shown = IF work.update = Nothing THEN Entry.shown ELSE work.update
    /\ Presentable(work.st.shown)
    /\ work.st.sleepingEmitted <=> work.st.shown.state = "sleeping"
    /\ StampInOrder(work.st)

\* The update, if any, tells a consumer that has been told of the session
\* something else, or was made on newer activity.
Novel(work) ==
    /\ ~Lossy
    /\ work.update # Nothing
    /\ runtime # Nothing /\ runtime.emitted
    => \/ work.update # Entry.shown
       \/ pane.activity > runtime.activity

\* There is something that a consumer may drop on seeing newer activity.
Operational ==
    Context # Nothing /\ (Asleep(NextRest) \/ NextCommit \/ NextCues # {})

\* What the sync has derived is shown, and stamped if that matters.
UpToDate(work) ==
    /\ SameFacts(work.st.shown, Facing(Nothing, "holding"))
    /\ Operational => work.st.activity = pane.activity

\* The state a sync starts from is what the consumer holds.
LEMMA EntryShown ==
  ASSUME TypeOK, EmissionInvariant
  PROVE  /\ ~Lossy => Entry.shown = view
         /\ Presentable(Entry.shown)
         /\ Entry.sleepingEmitted <=> Entry.shown.state = "sleeping"
         /\ StampInOrder(Entry)
<1>1. ~Lossy => Entry.shown = view
  BY DEF EmissionInvariant, ViewAgrees, Entry, Inbound
<1>2. Matched(Blank) /\ Blank.state # "sleeping"
  BY DEF Matched, Blank
<1>3. Matched(Inbound)
  BY <1>2 DEF Inbound, EmissionInvariant, RestMatchesThoughtState
<1>4. Matched(Entry.shown)
  BY <1>3 DEF Entry, EmissionInvariant, RestMatchesThoughtState
<1>5. Entry.sleepingEmitted <=> Entry.shown.state = "sleeping"
  <2>1. CASE runtime # Nothing
    BY <2>1 DEF Entry, EmissionInvariant, RestMatchesThoughtState
  <2>2. CASE runtime = Nothing
    BY <1>3, <2>2 DEF Entry, Matched, Asleep
  <2>3. QED
    BY <2>1, <2>2
<1>6. StampInOrder(Entry)
  BY DEF Entry, EmissionInvariant, StampsInOrder, StampInOrder
<1>7. QED
  BY <1>1, <1>4, <1>5, <1>6 DEF Presentable, EmissionInvariant, QuestionOnlyWhileAsleep

LEMMA StartSound ==
  ASSUME TypeOK, EmissionInvariant
  PROVE  Sound(Start) /\ Novel(Start) /\ Start.st = Entry /\ Start.update = Nothing
  BY EntryShown, EntryType DEF Start, Sound, Work, Novel

LEMMA EmitSound ==
  ASSUME TypeOK, NEW work, NEW shown \in Shown, Presentable(shown)
  PROVE  /\ Sound(Emit(work, shown))
         /\ Emit(work, shown).st.shown = shown
         /\ Emit(work, shown).st.activity = pane.activity
         /\ Emit(work, shown).st.emitted
         /\ Emit(work, shown).update = shown
<1>1. shown # Nothing
  BY NothingApart
<1>2. Emit(work, shown) \in Work
  BY DEF Emit, Work, Runtime, TypeOK, Pane
<1>3. pane.activity # Nothing /\ pane.activity <= pane.activity
  BY EmissionConstants DEF TypeOK, Pane
<1>4. QED
  BY <1>1, <1>2, <1>3 DEF Emit, Sound, StampInOrder

\* What the pane has been stamped with is not new to it.
LEMMA StampedNow ==
  ASSUME TypeOK, NEW st, st.activity = pane.activity
  PROVE  ~FreshObservation(st)
  BY EmissionConstants DEF TypeOK, Pane, FreshObservation

\* A clear leaves no fact behind.
LEMMA ClearSound ==
  ASSUME TypeOK, EmissionInvariant, NEW rest \in RestState \ {"sleeping"}
  PROVE  LET work == Clear(Start, rest)
         IN  /\ Sound(work) /\ Novel(work)
             /\ work.st.shown.rest = rest
             /\ work.st.shown.cues = {} /\ ~work.st.shown.commit
<1>1. /\ Cleared(rest) \in Shown
      /\ Cleared(rest).rest = rest
      /\ Cleared(rest).state = "holding"
      /\ Cleared(rest).thought = Nothing
      /\ Cleared(rest).cues = {} /\ ~Cleared(rest).commit
  BY BlankType DEF Cleared, Blank, Shown
<1>2. Presentable(Cleared(rest))
  BY <1>1, EmissionConstants DEF Presentable, Matched
<1>3. Sound(Start) /\ Novel(Start) /\ Start.st = Entry
  BY StartSound
<1>4. CASE NeedsClear(Entry, rest)
  <2> DEFINE work == Emit(Start, Cleared(rest))
  <2>1. Clear(Start, rest) = work
    BY <1>3, <1>4 DEF Clear
  <2>2. Sound(work) /\ work.st.shown = Cleared(rest) /\ work.update = Cleared(rest)
    BY <1>1, <1>2, EmitSound
  <2>3. ~Lossy => Cleared(rest) # Entry.shown
    <3>1. ~Lossy => Inbound = Entry.shown \/ Inbound = Blank
      BY EntryShown DEF Inbound
    <3>2. Blank.thought = Nothing /\ ~Blank.commit /\ Blank.cues = {}
      BY DEF Blank
    <3>3. QED
      BY <1>1, <1>4, <3>1, <3>2 DEF NeedsClear
  <2>4. QED
    BY <1>1, <2>1, <2>2, <2>3 DEF Novel
<1>5. CASE ~NeedsClear(Entry, rest)
  <2>1. Clear(Start, rest) = Start
    BY <1>3, <1>5 DEF Clear
  <2>2. Entry.shown.rest = rest /\ Entry.shown.cues = {} /\ ~Entry.shown.commit
    BY <1>5 DEF NeedsClear
  <2>3. QED
    BY <1>3, <2>1, <2>2
<1>6. QED
  BY <1>4, <1>5

\* Waking withdraws the thought; afterwards there is nothing left for a
\* passive update to say.
LEMMA WokenSound ==
  ASSUME TypeOK, EmissionInvariant, Awake
  PROVE  LET work == Woken(Start)
         IN  /\ Sound(work)
             /\ \/ work = Start /\ ~WasAsleep
                \/ /\ WasAsleep
                   /\ Passive(work) = work
                   /\ Novel(work) /\ UpToDate(work)
<1>1. Nothing \in Thought /\ "holding" \in ThoughtState
  BY DEF Thought, ThoughtState
<1>2. NextRest # "sleeping"
  BY DEF Awake, Asleep
<1>3. Presentable(Facing(Nothing, "holding"))
  BY <1>1, <1>2, FacingType, EmissionConstants DEF Presentable, Matched
<1>4. CASE Entry.shown.state = "sleeping"
  <2> DEFINE woken == Emit(Start, Facing(Nothing, "holding"))
  <2>1. Woken(Start) = woken
    BY <1>4, StartSound DEF Woken
  <2>2. /\ Sound(woken)
        /\ woken.st.shown = Facing(Nothing, "holding")
        /\ woken.st.activity = pane.activity
        /\ woken.st.emitted
        /\ woken.update = Facing(Nothing, "holding")
    BY <1>1, <1>3, FacingType, EmitSound
  <2>3. ~FreshObservation(woken.st)
    BY <2>2, StampedNow
  <2>4. ~PassiveNeeded(woken.st)
    BY <2>2, <2>3 DEF PassiveNeeded, SameFacts
  <2>5. Novel(woken)
    BY <1>1, <1>4, <2>2, FacingType DEF Novel
  <2>6. UpToDate(woken)
    BY <2>2 DEF UpToDate, SameFacts
  <2>7. QED
    BY <1>4, <2>1, <2>2, <2>4, <2>5, <2>6 DEF Passive, WasAsleep
<1>5. CASE Entry.shown.state # "sleeping"
  BY <1>5, StartSound DEF Woken, WasAsleep
<1>6. QED
  BY <1>4, <1>5

\* Without a fresh observation, whatever matters bears the latest stamp.
LEMMA UnfreshStamp ==
  ASSUME TypeOK, EmissionInvariant, ~FreshObservation(Entry), Operational
  PROVE  Entry.activity = pane.activity
<1>1. Entry \in Runtime /\ StampInOrder(Entry)
  BY EntryType, EntryShown
<1>2. pane.activity \in Nat /\ Nothing \notin Nat /\ MaxActivity \in Nat
  BY EmissionConstants DEF TypeOK, Pane
<1>3. Entry.activity # Nothing => Entry.activity \in Nat
  BY <1>1, <1>2 DEF Runtime
<1>4. QED
  BY <1>1, <1>2, <1>3 DEF Operational, FreshObservation, StampInOrder

LEMMA PassiveSound ==
  ASSUME TypeOK, EmissionInvariant, ~Exited
  PROVE  LET work == Passive(Start)
         IN  Sound(work) /\ Novel(work) /\ UpToDate(work)
<1>1. /\ Entry \in Runtime
      /\ Sound(Start) /\ Novel(Start) /\ Start.st = Entry
  BY EntryType, StartSound
<1>2. CurrentThought(Entry) \in Thought /\ Nothing \in Thought
  BY <1>1, CurrentThoughtType DEF Thought
<1>3. Entry.shown.state \in ThoughtState /\ {"sleeping", "holding"} \subseteq ThoughtState
  BY <1>1 DEF Runtime, Shown, ThoughtState
<1>4. ~Lossy /\ CurrentThought(Entry) = Question => Entry.shown.state = "sleeping"
  <2>1. SUFFICES ASSUME ~Lossy, CurrentThought(Entry) = Question
                 PROVE  Entry.shown.state = "sleeping"
    OBVIOUS
  <2>2. Entry.shown = view
    BY <2>1, EntryShown
  <2>3. Entry.shown.thought = Question \/ Inbound.thought = Question
    BY <2>1 DEF CurrentThought
  <2>4. Inbound.thought = Question => view.thought = Question
    BY EmissionConstants DEF Inbound, Blank
  <2>5. QED
    BY <2>1, <2>2, <2>3, <2>4 DEF EmissionInvariant, QuestionOnlyWhileAsleep
<1>5. /\ PassiveShown(Entry) \in Shown
      /\ Presentable(PassiveShown(Entry))
      /\ SameFacts(PassiveShown(Entry), Facing(Nothing, "holding"))
  <2>1. CASE Asleep(NextRest)
    BY <1>2, <1>3, <2>1, LiveRest, FacingType, FacingFacts
       DEF PassiveShown, Presentable, Matched
  <2>2. CASE ~Asleep(NextRest) /\ Entry.shown.state = "sleeping"
    BY <1>2, <1>3, <2>2, LiveRest, FacingType, FacingFacts, EmissionConstants
       DEF PassiveShown, Presentable, Matched
  <2>3. CASE ~Asleep(NextRest) /\ Entry.shown.state # "sleeping"
    BY <1>2, <1>3, <1>4, <2>3, LiveRest, FacingType, FacingFacts
       DEF PassiveShown, Presentable, Matched
  <2>4. QED
    BY <2>1, <2>2, <2>3
<1>6. CASE PassiveNeeded(Entry)
  <2> DEFINE work == Emit(Start, PassiveShown(Entry))
  <2>1. Passive(Start) = work
    BY <1>1, <1>6 DEF Passive
  <2>2. /\ Sound(work)
        /\ work.st.shown = PassiveShown(Entry)
        /\ work.st.activity = pane.activity
        /\ work.update = PassiveShown(Entry)
    BY <1>5, EmitSound
  <2>3. Novel(work)
    <3>1. SUFFICES ASSUME runtime # Nothing, runtime.emitted
                   PROVE  \/ PassiveShown(Entry) # Entry.shown
                          \/ pane.activity > runtime.activity
      BY <2>2 DEF Novel
    <3>2. Entry = runtime /\ runtime.activity # Nothing
      BY <3>1 DEF Entry, EmissionInvariant, StampsInOrder
    <3>3. CASE ~SameFacts(Entry.shown, Facing(Nothing, "holding"))
      BY <1>5, <3>3 DEF SameFacts
    <3>4. CASE FreshObservation(Entry)
      BY <3>2, <3>4 DEF FreshObservation
    <3>5. QED
      BY <1>6, <3>1, <3>2, <3>3, <3>4 DEF PassiveNeeded
  <2>4. UpToDate(work)
    BY <1>5, <2>2 DEF UpToDate
  <2>5. QED
    BY <2>1, <2>2, <2>3, <2>4
<1>7. CASE ~PassiveNeeded(Entry)
  <2>1. Passive(Start) = Start
    BY <1>1, <1>7 DEF Passive
  <2>2. UpToDate(Start)
    BY <1>1, <1>7, UnfreshStamp DEF PassiveNeeded, UpToDate
  <2>3. QED
    BY <1>1, <2>1, <2>2
<1>8. QED
  BY <1>6, <1>7

LEMMA PassiveWokenSound ==
  ASSUME TypeOK, EmissionInvariant, Awake
  PROVE  LET work == Passive(Woken(Start))
         IN  Sound(work) /\ Novel(work) /\ UpToDate(work)
  BY WokenSound, PassiveSound DEF Awake

\* The agent's question, or the last thought, of a session that sleeps.
LEMMA SleepingSound ==
  ASSUME TypeOK, EmissionInvariant, ~Exited, Asleep(NextRest)
  PROVE  LET work == IF SleepingNeeded(Entry)
                     THEN Emit(Start, Facing(SleepingThought(Entry), "sleeping"))
                     ELSE Start
         IN  Sound(work) /\ Novel(work) /\ UpToDate(work)
<1> DEFINE shown == Facing(SleepingThought(Entry), "sleeping")
<1>1. NextRest = "sleeping"
  BY LiveRest
<1>2. SleepingThought(Entry) \in Thought /\ "sleeping" \in ThoughtState
  BY EntryType, CurrentThoughtType DEF ThoughtState
<1>3. shown \in Shown /\ shown.state = "sleeping" /\ Presentable(shown)
  BY <1>1, <1>2, FacingType DEF Presentable, Matched
<1>4. SameFacts(shown, Facing(Nothing, "holding"))
  BY FacingFacts
<1>5. Sound(Start) /\ Novel(Start) /\ Start.st = Entry
  BY StartSound
<1>6. CASE SleepingNeeded(Entry)
  <2> DEFINE work == Emit(Start, shown)
  <2>1. /\ Sound(work)
        /\ work.st.shown = shown
        /\ work.st.activity = pane.activity
        /\ work.update = shown
    BY <1>3, EmitSound
  <2>2. UpToDate(work)
    BY <1>4, <2>1 DEF UpToDate
  <2>3. Novel(work)
    <3>1. SUFFICES ASSUME runtime # Nothing, runtime.emitted
                   PROVE  shown # Entry.shown \/ pane.activity > runtime.activity
      BY <2>1 DEF Novel
    <3>2. Entry = runtime /\ runtime.activity # Nothing
      BY <3>1 DEF Entry, EmissionInvariant, StampsInOrder
    <3>3. CASE FreshObservation(Entry)
      BY <3>2, <3>3 DEF FreshObservation
    <3>4. CASE ~Entry.sleepingEmitted
      BY <1>3, <3>4, EntryShown
    <3>5. QED
      BY <1>6, <3>3, <3>4 DEF SleepingNeeded
  <2>4. QED
    BY <1>6, <2>1, <2>2, <2>3
<1>7. CASE ~SleepingNeeded(Entry)
  <2>1. Entry.shown = shown /\ ~FreshObservation(Entry)
    BY <1>7 DEF SleepingNeeded
  <2>2. UpToDate(Start)
    BY <1>4, <1>5, <2>1, UnfreshStamp DEF UpToDate
  <2>3. QED
    BY <1>5, <1>7, <2>2
<1>8. QED
  BY <1>6, <1>7

\* New prose differs from what was shown.
LEMMA PublishSound ==
  ASSUME TypeOK, EmissionInvariant, Awake,
         NEW text \in Prose, NEW state \in {"active", "holding"},
         text # Woken(Start).st.shown.thought
  PROVE  LET work == Emit(Woken(Start), Facing(text, state))
         IN  Sound(work) /\ Novel(work) /\ UpToDate(work)
<1> DEFINE shown == Facing(text, state)
           work == Emit(Woken(Start), shown)
<1>1. text \in Thought /\ text # Question /\ state \in ThoughtState
  BY EmissionConstants DEF Thought, ThoughtState
<1>2. NextRest # "sleeping"
  BY DEF Awake, Asleep
<1>3. shown \in Shown /\ shown.thought = text /\ shown.state = state
  BY <1>1, FacingType
<1>4. Presentable(shown)
  BY <1>1, <1>2, FacingType DEF Presentable, Matched
<1>5. /\ Sound(work)
      /\ work.st.shown = shown
      /\ work.st.activity = pane.activity
      /\ work.update = shown
  BY <1>3, <1>4, EmitSound
<1>6. shown # Entry.shown
  <2>1. CASE WasAsleep
    BY <1>3, <2>1 DEF WasAsleep
  <2>2. CASE Woken(Start) = Start
    BY <1>3, <2>2, StartSound
  <2>3. QED
    BY <2>1, <2>2, WokenSound
<1>7. Novel(work)
  BY <1>5, <1>6 DEF Novel
<1>8. UpToDate(work)
  BY <1>5, FacingFacts DEF UpToDate
<1>9. QED
  BY <1>5, <1>7, <1>8

\* The response of a sound work keeps the types and the invariant, whether it
\* is delivered or missed.
LEMMA RespondSound ==
  ASSUME TypeOK, EmissionInvariant, NEW work, Sound(work), Respond(work)
  PROVE  TypeOK' /\ EmissionInvariant'
<1>1. /\ runtime' = work.st /\ work.st \in Runtime
      /\ sent' = work.update /\ work.update \in Shown \cup {Nothing}
      /\ UNCHANGED <<client, pane, transcript>>
  BY DEF Sound, Work, Respond
<1>2. view' = work.st.shown \/ (Lossy /\ view' = view)
  <2>1. CASE work.update = Nothing
    BY <2>1, EntryShown DEF Respond, Sound, EmissionInvariant
  <2>2. CASE work.update # Nothing
    BY <2>2 DEF Respond, Sound
  <2>3. QED
    BY <2>1, <2>2
<1>3. TypeOK'
  BY <1>1, <1>2 DEF TypeOK, Runtime
<1>4. runtime' # Nothing
  BY <1>1, NothingApart
<1>5. QED
  BY <1>1, <1>2, <1>3, <1>4
     DEF EmissionInvariant, ViewAgrees, RestMatchesThoughtState, StampsInOrder,
         StampInOrder, QuestionOnlyWhileAsleep, Sound, Presentable, Echo, Lossy

\* A consumer that misses nothing holds what the sync leaves behind.
LEMMA RespondDelivers ==
  ASSUME TypeOK, EmissionInvariant, ~Lossy, NEW work, Sound(work), Respond(work)
  PROVE  view' = work.st.shown
  BY EntryShown DEF Sound, Respond

-----------------------------------------------------------------------------
(***************************************************************************)
(* Every action keeps the invariant                                        *)
(***************************************************************************)

LEMMA InitInvariant == Init => TypeOK /\ EmissionInvariant
<1>1. Init => TypeOK
  BY BlankType, EmissionConstants DEF Init, TypeOK, Pane
<1>2. Init => EmissionInvariant
  BY EmissionConstants
     DEF Init, EmissionInvariant, ViewAgrees, RestMatchesThoughtState, Matched,
         QuestionOnlyWhileAsleep, StampsInOrder, Blank
<1>3. QED
  BY <1>1, <1>2

\* A visit responds with sound work that is novel and, for a live session, up
\* to date; an exited session is left without facts.
LEMMA VisitWork ==
  ASSUME TypeOK, EmissionInvariant, Visit
  PROVE  \E work :
           /\ Respond(work) /\ Sound(work) /\ Novel(work)
           /\ ~Exited => UpToDate(work)
           /\ Exited => /\ work.st.shown.rest # "sleeping"
                        /\ work.st.shown.cues = {} /\ ~work.st.shown.commit
<1>1. CASE SyncExited
  <2>1. "deep_sleep" \in RestState \ {"sleeping"}
    BY DEF RestState
  <2>2. QED
    BY <1>1, <2>1, ClearSound DEF SyncExited
<1>2. CASE SyncCarryForward
  BY <1>2, PassiveSound DEF SyncCarryForward
<1>3. CASE SyncSleeping
  BY <1>3, SleepingSound DEF SyncSleeping
<1>4. CASE SyncWithoutContext \/ SyncSuppressed \/ SyncModelSilent \/ SyncModelRepeats
  BY <1>4, PassiveWokenSound
     DEF SyncWithoutContext, SyncSuppressed, SyncModelSilent, SyncModelRepeats, Awake
<1>5. ASSUME NEW text \in Prose, NEW changed \in BOOLEAN, SyncPublishes(text, changed)
      PROVE  /\ ~Exited
             /\ \E work :
                  Respond(work) /\ Sound(work) /\ Novel(work) /\ UpToDate(work)
  <2> DEFINE state == IF changed THEN "active" ELSE "holding"
  <2>1. state \in {"active", "holding"}
    OBVIOUS
  <2>2. /\ Awake
        /\ text # Woken(Start).st.shown.thought
        /\ Respond(Emit(Woken(Start), Facing(text, state)))
    BY <1>5 DEF SyncPublishes
  <2> HIDE DEF state
  <2>3. QED
    BY <2>1, <2>2, PublishSound DEF Awake
<1>6. QED
  BY <1>1, <1>2, <1>3, <1>4, <1>5 DEF Visit

\* A disabled sync leaves no fact of the session behind.
LEMMA DisabledWork ==
  ASSUME TypeOK, EmissionInvariant, SyncDisabled
  PROVE  \E work :
           /\ Respond(work) /\ Sound(work) /\ Novel(work)
           /\ work.st.shown.rest # "sleeping"
           /\ work.st.shown.cues = {} /\ ~work.st.shown.commit
<1> DEFINE rest == IF Exited THEN "deep_sleep" ELSE IdleRest
<1>1. rest \in RestState \ {"sleeping"}
  BY FactTypes DEF RestState
<1>2. Respond(Clear(Start, rest))
  BY DEF SyncDisabled
<1> HIDE DEF rest
<1>3. QED
  BY <1>1, <1>2, ClearSound

LEMMA SyncInvariant ==
  ASSUME TypeOK, EmissionInvariant, SyncDisabled \/ SyncWithoutClient \/ Visit
  PROVE  TypeOK' /\ EmissionInvariant'
<1>1. CASE SyncDisabled
  BY <1>1, DisabledWork, RespondSound
<1>2. CASE SyncWithoutClient
  BY <1>2, StartSound, RespondSound DEF SyncWithoutClient
<1>3. CASE Visit
  BY <1>3, VisitWork, RespondSound
<1>4. QED
  BY <1>1, <1>2, <1>3

LEMMA WorldInvariant ==
  ASSUME TypeOK, EmissionInvariant, World
  PROVE  TypeOK' /\ EmissionInvariant'
<1> USE EmissionConstants, NothingApart
<1>1. ASSUME pane' \in Pane, pane.activity <= pane'.activity,
             transcript' \in Transcript \cup {Nothing}, Silently,
             UNCHANGED <<runtime, view>>
      PROVE  TypeOK' /\ EmissionInvariant'
  <2>1. TypeOK'
    BY <1>1 DEF TypeOK, Silently
  <2>2. StampsInOrder'
    <3>1. runtime # Nothing /\ runtime.activity # Nothing =>
            runtime.activity \in Nat /\ runtime.activity <= pane.activity
      BY DEF TypeOK, Runtime, EmissionInvariant, StampsInOrder
    <3>2. pane.activity \in Nat /\ pane'.activity \in Nat
      BY <1>1 DEF TypeOK, Pane
    <3>3. QED
      BY <1>1, <3>1, <3>2 DEF EmissionInvariant, StampsInOrder
  <2>3. QED
    BY <1>1, <2>1, <2>2 DEF EmissionInvariant, ViewAgrees, RestMatchesThoughtState,
                            QuestionOnlyWhileAsleep, Silently, Echo, Lossy
<1>2. CASE PaneOutput
  <2>1. pane \in Pane /\ pane.activity + 1 \in 0..MaxActivity
    BY <1>2 DEF PaneOutput, TypeOK, Pane
  <2>2. pane' \in Pane /\ pane'.activity = pane.activity + 1
    BY <1>2, <2>1 DEF PaneOutput, Pane
  <2>3. QED
    BY <1>1, <1>2, <2>1, <2>2 DEF PaneOutput, TypeOK, Pane
<1>3. CASE PaneSettles \/ PaneTurnsQuiet \/ PaneExits
  <2>1. pane \in Pane /\ pane.activity \in Nat
    BY DEF TypeOK, Pane
  <2>2. pane' \in Pane /\ pane'.activity = pane.activity
    BY <1>3, <2>1 DEF PaneSettles, PaneTurnsQuiet, PaneExits, Pane
  <2>3. QED
    BY <1>1, <1>3, <2>1, <2>2 DEF PaneSettles, PaneTurnsQuiet, PaneExits, TypeOK
<1>4. CASE InputDelivered
  <2>1. pane \in Pane /\ pane.input + 1 \in 0..MaxInput
    BY <1>4 DEF InputDelivered, TypeOK, Pane
  <2>2. pane' \in Pane /\ pane.activity <= pane'.activity
    BY <1>4, <2>1 DEF InputDelivered, Pane
  <2>3. QED
    BY <1>1, <1>4, <2>2 DEF InputDelivered, TypeOK
<1>5. ASSUME NEW next \in Transcript \cup {Nothing}, TranscriptBecomes(next)
      PROVE  TypeOK' /\ EmissionInvariant'
  <2>1. pane' = pane /\ pane \in Pane /\ pane.activity \in Nat
    BY <1>5 DEF TranscriptBecomes, TypeOK, Pane
  <2>2. QED
    BY <1>1, <1>5, <2>1 DEF TranscriptBecomes
<1>6. CASE TranscriptAppears
  <2>1. PICK turn \in 0..pane.input :
          TranscriptBecomes([awaiting |-> "no", signal |-> Nothing, userTurn |-> turn])
    BY <1>6 DEF TranscriptAppears
  <2>2. turn \in 0..MaxInput
    BY <2>1 DEF TypeOK, Pane
  <2>3. [awaiting |-> "no", signal |-> Nothing, userTurn |-> turn] \in Transcript
    BY <2>2 DEF Transcript
  <2>4. QED
    BY <1>5, <2>1, <2>3
<1>7. CASE TranscriptLost
  BY <1>5, <1>7 DEF TranscriptLost
<1>8. CASE AgentRecordsTurn
  BY <1>5, <1>8 DEF AgentRecordsTurn, TypeOK, Transcript, Pane
<1>9. ASSUME NEW how \in {"silent", "question"}, AgentWaits(how)
      PROVE  TypeOK' /\ EmissionInvariant'
  BY <1>5, <1>9 DEF AgentWaits, TypeOK, Transcript
<1>10. ASSUME NEW signal \in Signals \cup {Nothing}, AgentSignals(signal)
       PROVE  TypeOK' /\ EmissionInvariant'
  BY <1>5, <1>10 DEF AgentSignals, TypeOK, Transcript
<1>11. CASE EngineRestarts
  BY <1>11 DEF EngineRestarts, Silently, TypeOK, EmissionInvariant, ViewAgrees,
               RestMatchesThoughtState, QuestionOnlyWhileAsleep, StampsInOrder,
               Echo, Lossy
<1>12. CASE SessionDropped
  BY <1>12, BlankType
     DEF SessionDropped, Silently, TypeOK, EmissionInvariant, ViewAgrees,
         RestMatchesThoughtState, Matched, QuestionOnlyWhileAsleep, StampsInOrder,
         Blank
<1>13. QED
  BY <1>2, <1>3, <1>4, <1>6, <1>7, <1>8, <1>9, <1>10, <1>11, <1>12 DEF World

\* A step of the world is not a response.
LEMMA WorldSendsNothing ==
  ASSUME World
  PROVE  sent' = Unasked
  BY DEF World, PaneOutput, PaneSettles, PaneTurnsQuiet, PaneExits, InputDelivered,
         TranscriptAppears, TranscriptLost, AgentRecordsTurn, AgentWaits,
         AgentSignals, TranscriptBecomes, EngineRestarts, SessionDropped, Silently

LEMMA NextInvariant ==
  TypeOK /\ EmissionInvariant /\ [Next]_vars => TypeOK' /\ EmissionInvariant'
<1>1. ASSUME TypeOK, EmissionInvariant, UNCHANGED vars
      PROVE  TypeOK' /\ EmissionInvariant'
  BY <1>1 DEF vars, TypeOK, EmissionInvariant, ViewAgrees,
              RestMatchesThoughtState, QuestionOnlyWhileAsleep, StampsInOrder,
              Echo, Lossy
<1>2. QED
  BY <1>1, SyncInvariant, WorldInvariant DEF Next

-----------------------------------------------------------------------------
(***************************************************************************)
(* What the facts of a visit say                                           *)
(***************************************************************************)

\* A live visit shows the derived facts to a consumer that misses nothing.
LEMMA VisitShowsFacts ==
  ASSUME TypeOK, EmissionInvariant, ~Lossy, Visit, ~Exited
  PROVE  /\ view'.rest = NextRest /\ view'.commit = NextCommit /\ view'.cues = NextCues
         /\ Operational => runtime'.activity = pane.activity
<1>1. PICK work : Respond(work) /\ Sound(work) /\ UpToDate(work)
  BY VisitWork
<1>2. view' = work.st.shown /\ runtime' = work.st
  BY <1>1, RespondDelivers DEF Respond
<1>3. QED
  BY <1>1, <1>2 DEF UpToDate, SameFacts, Facing

\* A transcript that covers the delivered input speaks for the session.
LEMMA CoveredFacts ==
  ASSUME TypeOK, ~Exited, transcript # Nothing, ~Uncovered
  PROVE  /\ NextRest = "sleeping" <=> transcript.awaiting # "no"
         /\ NextCommit <=> transcript.signal = "commit_ready"
         /\ "awaiting_user" \in NextCues <=> transcript.awaiting # "no"
         /\ NextCues \ {"awaiting_user"} = {transcript.signal} \ {Nothing}
<1>1. Context = transcript /\ Context # Nothing
  BY DEF Context
<1>2. transcript.signal # "awaiting_user"
  BY EmissionConstants DEF TypeOK, Transcript, Kinds
<1>3. IdleRest # "sleeping"
  BY FactTypes
<1>4. QED
  BY <1>1, <1>2, <1>3 DEF NextRest, NextCommit, NextCues, UsesCachedCues

\* Neither the transcript nor the cached cues speak for a session whose input
\* no recorded turn covers.
LEMMA UncoveredFacts ==
  ASSUME TypeOK, ~Exited, pane.input > 0,
         transcript = Nothing \/ transcript.userTurn < pane.input
  PROVE  NextCues = {} /\ ~NextCommit /\ NextRest # "sleeping"
<1>1. pane.input # 0
  BY DEF TypeOK, Pane
<1>2. IdleRest # "sleeping"
  BY FactTypes
<1>3. ~UsesCachedCues
  BY <1>1 DEF UsesCachedCues
<1>4. Context # Nothing => Context.awaiting = "no" /\ Context.signal = Nothing
  BY DEF Context, Uncovered, TypeOK, Transcript
<1>5. Nothing # "commit_ready"
  BY EmissionConstants DEF Kinds
<1>6. QED
  BY <1>2, <1>3, <1>4, <1>5 DEF NextRest, NextCommit, NextCues

\* What a clear leaves in the consumer's view when its response arrives.
LEMMA ClearDelivered ==
  ASSUME TypeOK, EmissionInvariant, Echo \/ ~Lossy,
         NEW rest \in RestState, Respond(Clear(Start, rest)),
         view' = IF sent' = Nothing THEN view ELSE sent'
  PROVE  view'.thought = Nothing /\ ~view'.commit /\ view'.cues = {}
<1>1. CASE NeedsClear(Entry, rest)
  <2>1. sent' = Cleared(rest)
    BY <1>1 DEF Respond, Clear, Start, Emit
  <2>2. Cleared(rest) \in Shown
    BY BlankType DEF Cleared, Shown
  <2>3. view' = Cleared(rest)
    BY <2>1, <2>2, NothingApart
  <2>4. QED
    BY <2>3 DEF Cleared, Blank
<1>2. CASE ~NeedsClear(Entry, rest)
  <2>1. sent' = Nothing
    BY <1>2 DEF Respond, Clear, Start
  <2>2. view' = view
    BY <2>1
  <2>3. view = Inbound \/ view = Entry.shown
    BY EntryShown DEF Inbound
  <2>4. QED
    BY <1>2, <2>2, <2>3 DEF NeedsClear
<1>3. QED
  BY <1>1, <1>2

-----------------------------------------------------------------------------
(***************************************************************************)
(* Theorems                                                                *)
(***************************************************************************)

\* States, views and updates keep their types, and the invariant of the
\* engine and its consumer holds in every reachable state.
THEOREM InvariantHolds == Spec => [](TypeOK /\ EmissionInvariant)
  BY InitInvariant, NextInvariant, PTL DEF Spec

\* Engine state, consumer view and updates keep their types.
THEOREM TypeCorrect == Spec => []TypeOK
  BY InvariantHolds, PTL

\* With every response delivered the engine knows what the consumer holds,
\* through restarts, disabled syncs and lost credentials.
THEOREM ViewsAgree == Spec => []ViewAgrees
<1>1. EmissionInvariant => ViewAgrees
  BY DEF EmissionInvariant
<1>2. QED
  BY <1>1, InvariantHolds, PTL

\* A thought sleeps exactly while the session is shown waiting for its user,
\* also for a consumer that misses responses.
THEOREM RestAndThoughtAgree == Spec => []RestMatchesThoughtState
<1>1. EmissionInvariant => RestMatchesThoughtState
  BY DEF EmissionInvariant
<1>2. QED
  BY <1>1, InvariantHolds, PTL

\* The question of a waiting agent never outlives the waiting.
THEOREM QuestionsAreWithdrawn == Spec => []QuestionOnlyWhileAsleep
<1>1. EmissionInvariant => QuestionOnlyWhileAsleep
  BY DEF EmissionInvariant
<1>2. QED
  BY <1>1, InvariantHolds, PTL

\* With every response delivered, a visit of a live session leaves exactly what
\* the covering transcript says in the consumer's view.
THEOREM FactsShown == Spec => TranscriptFactsShown
<1>1. ASSUME TypeOK, EmissionInvariant, ~Lossy, Visit, ~Exited,
             transcript # Nothing, ~Uncovered
      PROVE  /\ view'.rest = "sleeping" <=> transcript.awaiting # "no"
             /\ view'.commit <=> transcript.signal = "commit_ready"
             /\ "awaiting_user" \in view'.cues <=> transcript.awaiting # "no"
             /\ view'.cues \ {"awaiting_user"} = {transcript.signal} \ {Nothing}
  BY <1>1, VisitShowsFacts, CoveredFacts
<1>2. QED
  BY <1>1, InvariantHolds, PTL DEF TranscriptFactsShown

\* With every response delivered, the sync after an input that no recorded turn
\* covers leaves no cue, no candidate and no waiting in the consumer's view.
THEOREM InputWithdrawsFacts == Spec => NoFactsBeforeInput
<1>1. ASSUME TypeOK, EmissionInvariant, ~Lossy, Visit \/ SyncDisabled, pane.input > 0,
             transcript = Nothing \/ transcript.userTurn < pane.input
      PROVE  view'.cues = {} /\ ~view'.commit /\ view'.rest # "sleeping"
  <2>1. CASE Visit /\ ~Exited
    BY <1>1, <2>1, VisitShowsFacts, UncoveredFacts
  <2>2. CASE Visit /\ Exited
    BY <1>1, <2>2, VisitWork, RespondDelivers
  <2>3. CASE SyncDisabled
    BY <1>1, <2>3, DisabledWork, RespondDelivers
  <2>4. QED
    BY <1>1, <2>1, <2>2, <2>3
<1>2. QED
  BY <1>1, InvariantHolds, PTL DEF NoFactsBeforeInput

\* With every response delivered, a fact that a visit leaves standing bears the
\* activity of that visit.
THEOREM FactsAreStamped == Spec => FactsFreshlyStamped
<1>1. ASSUME TypeOK, EmissionInvariant, ~Lossy, Visit, ~Exited, Context # Nothing,
             view'.rest = "sleeping" \/ view'.commit \/ view'.cues # {}
      PROVE  runtime'.activity = pane.activity
  BY <1>1, VisitShowsFacts DEF Operational, Asleep
<1>2. QED
  BY <1>1, InvariantHolds, PTL DEF FactsFreshlyStamped

\* With every response delivered, an update of a session that was told of
\* before changes the view or answers newer activity.
THEOREM UpdatesAreNews == Spec => NoRedundantUpdate
<1>1. ASSUME TypeOK, EmissionInvariant, ~Lossy, [Next]_vars, ~UNCHANGED vars,
             sent' \in Shown, runtime # Nothing, runtime.emitted
      PROVE  view' # view \/ pane.activity > runtime.activity
  <2>1. ~World
    BY <1>1, WorldSendsNothing, NothingApart
  <2>2. ~SyncWithoutClient
    BY <1>1, NothingApart DEF SyncWithoutClient, Respond, Start
  <2>3. PICK work : Respond(work) /\ Sound(work) /\ Novel(work)
    BY <1>1, <2>1, <2>2, VisitWork, DisabledWork DEF Next
  <2>4. work.update = sent' /\ sent' # Nothing
    BY <1>1, <2>3, NothingApart DEF Respond
  <2>5. view' = work.update /\ view = Entry.shown
    BY <1>1, <2>3, <2>4, RespondDelivers, EntryShown DEF Sound
  <2>6. QED
    BY <1>1, <2>3, <2>4, <2>5 DEF Novel
<1>2. QED
  BY <1>1, InvariantHolds, PTL DEF NoRedundantUpdate, Spec

\* A clear whose response arrives leaves no thought, no candidate and no cue in
\* the consumer's view; one that sends its cached fields back is cleared even
\* of what earlier, lost responses should have withdrawn.
THEOREM ClearsReachConsumer == Spec => ClearReachesConsumer
<1>1. ASSUME TypeOK, EmissionInvariant, Echo \/ ~Lossy, SyncDisabled \/ SyncExited,
             view' = IF sent' = Nothing THEN view ELSE sent'
      PROVE  view'.thought = Nothing /\ ~view'.commit /\ view'.cues = {}
  <2>1. PICK rest \in RestState : Respond(Clear(Start, rest))
    BY <1>1, FactTypes DEF SyncDisabled, SyncExited, RestState
  <2>2. QED
    BY <1>1, <2>1, ClearDelivered
<1>2. QED
  BY <1>1, InvariantHolds, PTL DEF ClearReachesConsumer
=============================================================================
