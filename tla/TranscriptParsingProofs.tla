------------------------ MODULE TranscriptParsingProofs ------------------------
(***************************************************************************)
(* Proofs about TranscriptParsing, for every set of calls, sessions,       *)
(* commands and time stamps.                                               *)
(***************************************************************************)
EXTENDS TranscriptParsing, SequenceTheorems, TLAPS

\* What the parsers take from TranscriptRecords is the same for both.
LEMMA SharedRecords ==
    /\ \A actions, act : Codex!Push(actions, act) = Push(actions, act)
    /\ \A actions, act : Claude!Push(actions, act) = Push(actions, act)
    /\ \A before, act : Codex!Doing(before, act) = Doing(before, act)
    /\ \A before, act : Claude!Doing(before, act) = Doing(before, act)
    /\ \A before : Codex!Resumed(before) = Resumed(before)
    /\ \A before : Claude!Resumed(before) = Resumed(before)
    /\ \A before, text : Codex!Asked(before, text) = Asked(before, text)
    /\ \A before, text : Claude!Asked(before, text) = Asked(before, text)
    /\ Codex!Parsed = Parsed /\ Codex!Time = Time /\ Codex!Signal = Signal
BY DEF Push, Codex!Push, Claude!Push, Doing, Codex!Doing, Claude!Doing, Resumed,
   Codex!Resumed, Claude!Resumed, Asked, Codex!Asked, Claude!Asked,
   HarnessMarkup, Codex!HarnessMarkup, Claude!HarnessMarkup,
   Parsed, Codex!Parsed, Time, Codex!Time, Signal, Codex!Signal,
   Text, Codex!Text, Act, Codex!Act

\* The window never grows past its limit.
LEMMA PushType ==
    ASSUME NEW actions \in Seq(Act), NEW act \in Act
    PROVE  Push(actions, act) \in Seq(Act) /\ Len(Push(actions, act)) <= MaxActions
<1> DEFINE all == Append(actions, act)
<1>1. all \in Seq(Act) /\ Len(all) = Len(actions) + 1 /\ Len(all) \in Nat
    BY AppendProperties, LenProperties
<1>2. CASE Len(all) <= MaxActions
    BY <1>1, <1>2, RecordConstants DEF Push
<1>3. CASE Len(all) > MaxActions
    <2> DEFINE first == Len(all) - MaxActions + 1
    <2>1. first \in 1..Len(all) + 1 /\ Len(all) - first + 1 = MaxActions
        BY <1>1, <1>3, RecordConstants
    <2>2. SubSeq(all, first, Len(all)) \in Seq(Act)
          /\ Len(SubSeq(all, first, Len(all))) = MaxActions
        BY <1>1, <2>1, RecordConstants, SubSeqProperties
    <2> QED
        BY <1>3, <2>2 DEF Push
<1> QED
    BY <1>1, <1>2, <1>3, RecordConstants

-----------------------------------------------------------------------------
(***************************************************************************)
(* Whose turn it is                                                        *)
(***************************************************************************)
\* The types of what both parsers keep.
RecordType ==
    /\ parsed \in Parsed
    /\ Len(parsed.actions) <= MaxActions
    /\ genuine \in Time \cup {Nothing}
    /\ misread \in BOOLEAN
    /\ latest \in Record

\* What holds of the records of either tool, by induction.
RecordInvariant ==
    /\ RecordType
    /\ QuestionIsOpen
    /\ UserTurnIsRead

\* The agent did something, and waits, goes on, or says neither.
AgentStep(actions, current) ==
    LET done == [parsed EXCEPT !.actions = actions, !.current = current]
    IN  /\ UNCHANGED <<genuine, misread>>
        /\ \/ parsed' = done /\ latest' = "unseen"
           \/ parsed' = Resumed(done) /\ latest' = "other"
           \/ \E text \in {"said", "markup", Nothing} :
                parsed' = Asked(done, text) /\ latest' = "final"

\* Such a step keeps the invariant: a question is shown when the agent waits.
LEMMA AgentStepKeeps ==
    ASSUME RecordInvariant, NEW actions \in Seq(Act), Len(actions) <= MaxActions,
           NEW current \in Act \cup {Nothing}, AgentStep(actions, current)
    PROVE  RecordInvariant'
<1> DEFINE done == [parsed EXCEPT !.actions = actions, !.current = current]
<1>1. /\ done \in Parsed /\ done.actions = actions
      /\ done.awaiting = parsed.awaiting /\ done.question = parsed.question
      /\ done.task = parsed.task /\ done.userTurn = parsed.userTurn
    BY DEF RecordInvariant, RecordType, Parsed
<1>2. genuine' = genuine /\ misread' = misread
    BY DEF AgentStep
<1> HIDE DEF done
<1> USE <1>1, <1>2, RecordConstants
        DEF RecordInvariant, RecordType, Record, QuestionIsOpen, UserTurnIsRead, UserTurnIsGenuine
<1>3. CASE parsed' = done /\ latest' = "unseen"
    BY <1>3
<1>4. CASE parsed' = Resumed(done) /\ latest' = "other"
    BY <1>4 DEF Resumed, Parsed
<1>5. ASSUME NEW text \in {"said", "markup", Nothing},
             parsed' = Asked(done, text), latest' = "final"
      PROVE  RecordInvariant'
    BY <1>5 DEF Asked, HarnessMarkup, Parsed, Text
<1> QED
    BY <1>3, <1>4, <1>5 DEF AgentStep, done

\* A record of the user's role: the watermark is the user's, or the parser has
\* misread something.
UserStep(bearing, task, at) ==
    /\ parsed' = [Resumed(parsed) EXCEPT
                    !.userTurn = IF bearing THEN at ELSE parsed.userTurn,
                    !.task = IF task = Nothing THEN @ ELSE task]
    /\ latest' = "other"
    /\ genuine' \in {at, genuine}
    /\ misread' \in BOOLEAN
    /\ misread' \/ genuine' = IF bearing THEN at ELSE parsed.userTurn

\* Such a record keeps the invariant: it ends the question.
LEMMA UserStepKeeps ==
    ASSUME RecordInvariant, NEW bearing \in BOOLEAN, NEW task \in {"typed", Nothing},
           NEW at \in Time, UserStep(bearing, task, at)
    PROVE  RecordInvariant'
BY RecordConstants
DEF RecordInvariant, RecordType, Record, Parsed, Text, QuestionIsOpen, UserTurnIsRead,
    UserTurnIsGenuine, UserStep, Resumed

\* The window as it is.
LEMMA ParsedWindow ==
    ASSUME RecordType
    PROVE  /\ parsed.actions \in Seq(Act) /\ Len(parsed.actions) <= MaxActions
           /\ parsed.current \in Act \cup {Nothing}
           /\ parsed = [parsed EXCEPT !.actions = parsed.actions, !.current = parsed.current]
BY DEF RecordType, Parsed

\* Steps that only concern the window, and those that also end a question.
LEMMA DoneKeeps ==
    ASSUME RecordInvariant, UNCHANGED <<genuine, misread>>,
           NEW act \in Act,
           \/ parsed' = Resumed(Doing(parsed, act)) /\ latest' = "other"
           \/ parsed' = Resumed(parsed) /\ latest' = "other"
           \/ parsed' = parsed /\ latest' = "unseen"
           \/ \E text \in {"said", "markup", Nothing} :
                parsed' = Asked(parsed, text) /\ latest' = "final"
    PROVE  RecordInvariant'
<1>1. RecordType
    BY DEF RecordInvariant
<1>2. Push(parsed.actions, act) \in Seq(Act) /\ Len(Push(parsed.actions, act)) <= MaxActions
    BY <1>1, ParsedWindow, PushType
<1>3. CASE parsed' = Resumed(Doing(parsed, act)) /\ latest' = "other"
    <2>1. AgentStep(Push(parsed.actions, act), act)
        BY <1>3 DEF AgentStep, Doing
    <2> QED
        BY <1>2, <2>1, AgentStepKeeps
<1>4. CASE \/ parsed' = Resumed(parsed) /\ latest' = "other"
           \/ parsed' = parsed /\ latest' = "unseen"
           \/ \E text \in {"said", "markup", Nothing} :
                parsed' = Asked(parsed, text) /\ latest' = "final"
    <2>1. AgentStep(parsed.actions, parsed.current)
        BY <1>1, <1>4, ParsedWindow DEF AgentStep
    <2> QED
        BY <1>1, <2>1, ParsedWindow, AgentStepKeeps
<1> QED
    BY <1>3, <1>4

\* No entry of a Codex rollout breaks what holds of the records.
LEMMA CodexKeepsRecords ==
    ASSUME RecordInvariant, CodexRecord
    PROVE  RecordInvariant'
<1> USE SharedRecords
<1>0. ASSUME NEW content \in Codex!Content
      PROVE  Codex!NextTask(content) \in {"typed", Nothing}
             /\ Codex!InputBearing(content) \in BOOLEAN
    BY RecordConstants
    DEF Codex!Content, Codex!NextTask, Codex!UserTaskText, Codex!InputBearing, Codex!HarnessMarkup
<1>1. ASSUME NEW content \in Codex!Content, NEW at \in Time, Codex!UserTurn(content, at)
      PROVE  RecordInvariant'
    <2>1. \/ Codex!InputBearing(content)
          \/ content.first = "markup" /\ ~content.image
        BY <1>1, RecordConstants
        DEF Codex!UserTurn, Codex!Content, Codex!InputBearing, Codex!UserTaskText,
            Codex!HarnessMarkup
    <2>2. UserStep(Codex!InputBearing(content), Codex!NextTask(content), at)
        BY <1>1, <2>1
        DEF Codex!UserTurn, Codex!UserRecord, Codex!Watermark, Codex!HarnessMarkup,
            Codex!Content, UserStep
    <2> QED
        BY <1>0, <2>2, UserStepKeeps
<1>2. ASSUME NEW content \in Codex!Content, NEW at \in Time, Codex!HarnessRecord(content, at)
      PROVE  RecordInvariant'
    <2>1. Codex!InputBearing(content) => content.first = "warning"
        BY <1>2
        DEF Codex!HarnessRecord, Codex!Content, Codex!InputBearing, Codex!UserTaskText,
            Codex!HarnessMarkup
    <2>2. UserStep(Codex!InputBearing(content), Codex!NextTask(content), at)
        BY <1>0, <1>2, <2>1
        DEF Codex!HarnessRecord, Codex!UserRecord, Codex!Watermark, UserStep,
            RecordInvariant, RecordType, UserTurnIsRead, UserTurnIsGenuine
    <2> QED
        BY <1>0, <2>2, UserStepKeeps
<1>3. ASSUME NEW text \in {"said", "markup", Nothing}, Codex!FinalAnswer(text)
      PROVE  RecordInvariant'
    BY <1>3, DoneKeeps DEF Codex!FinalAnswer, Act
<1>4. CASE Codex!TurnGoesOn
    BY <1>4, DoneKeeps DEF Codex!TurnGoesOn, Act
<1>5. CASE Codex!Work
    <2>1. /\ UNCHANGED <<genuine, misread>>
          /\ \/ \E act \in Act :
                  /\ parsed' \in {Resumed(parsed), Resumed(Doing(parsed, act))}
                  /\ latest' = "other"
             \/ parsed' = parsed /\ latest' = "unseen"
        BY <1>5 DEF Codex!Work, Codex!Reasoning, Codex!Edit, Codex!OtherCall, Codex!StrayOutput,
            Codex!UnseenItem, Codex!ExecCommand, Codex!WriteStdin, Codex!OutputGoesOn,
            Codex!Output, Codex!Progress, Act
    <2>2. "tool" \in Act
        BY DEF Act
    <2> QED
        BY <2>1, <2>2, DoneKeeps
<1> QED
    BY <1>1, <1>2, <1>3, <1>4, <1>5 DEF CodexRecord, Codex!Next, Codex!Messages, Codex!Time, Time

\* No entry of a Claude transcript does.
LEMMA ClaudeKeepsRecords ==
    ASSUME RecordInvariant, ClaudeRecord
    PROVE  RecordInvariant'
<1> USE SharedRecords
<1>1. ASSUME NEW content \in Claude!Content, NEW at \in Time,
             Claude!UserTurn(content, at) \/ Claude!HarnessRecord(content, at)
      PROVE  RecordInvariant'
    <2> DEFINE bearing == Claude!InputBearing(content)
    <2>1. UserStep(bearing, Claude!NextTask(content), at)
        BY <1>1, RecordConstants
        DEF Claude!UserTurn, Claude!HarnessRecord, Claude!UserRecord, Claude!Watermark,
            Claude!InputBearing, Claude!GenuineText, Claude!NextTask, Claude!HarnessMarkup,
            Claude!Content, UserStep, RecordInvariant, RecordType, UserTurnIsRead,
            UserTurnIsGenuine
    <2>2. Claude!NextTask(content) \in {"typed", Nothing} /\ bearing \in BOOLEAN
        BY RecordConstants DEF Claude!NextTask, Claude!GenuineText, Claude!HarnessMarkup,
           Claude!Content, Claude!InputBearing
    <2> QED
        BY <2>1, <2>2, UserStepKeeps
<1>2. ASSUME NEW text \in {"said", "markup", Nothing}, NEW short \in BOOLEAN,
             NEW calls \in BOOLEAN, NEW ended \in BOOLEAN,
             Claude!AssistantMessage(text, short, calls, ended)
      PROVE  RecordInvariant'
    <2> DEFINE turn == Claude!TurnAfter(text, calls, ended)
               said == Claude!Saying(turn, text, short)
               wide == IF text = Nothing \/ short THEN parsed.actions
                       ELSE Push(parsed.actions, "said")
               actions == IF calls THEN Push(wide, "tool") ELSE wide
               current == IF calls THEN "tool" ELSE parsed.current
    <2>1. wide \in Seq(Act) /\ Len(wide) <= MaxActions
        BY ParsedWindow, PushType DEF RecordInvariant, Act
    <2>2. actions \in Seq(Act) /\ Len(actions) <= MaxActions /\ current \in Act \cup {Nothing}
        BY <2>1, ParsedWindow, PushType DEF RecordInvariant, Act
    <2>3. AgentStep(actions, current)
        BY <1>2, RecordConstants
        DEF Claude!AssistantMessage, Claude!TurnAfter, Claude!Saying, AgentStep, Doing,
            Resumed, Asked, RecordInvariant, RecordType, Parsed
    <2> QED
        BY <2>2, <2>3, AgentStepKeeps
<1> QED
    BY <1>1, <1>2 DEF ClaudeRecord, Claude!Next, Claude!Time, Time

-----------------------------------------------------------------------------
\* The cue of a signal is the next step after what the signal has proved.
LEMMA CueIsNextStep ==
    ASSUME NEW sig \in Signal, NEW awaiting \in BOOLEAN
    PROVE  Codex!Cues(sig, awaiting) \ {"awaiting_user"}
             = Codex!Evidence!NextStep(sig.edited,
                  (IF sig.validated THEN {"validation"} ELSE {})
                     \cup (IF sig.dirtyChecked THEN {"dirtyCheck"} ELSE {})
                     \cup (IF sig.commitSeen THEN {"commit"} ELSE {}))
BY CodexConstants DEF Codex!Cues, Codex!CommitCue, Codex!Candidate,
   Codex!Evidence!NextStep, Signal

\* What the pending sets and the processes know about the calls.
CommitType ==
    /\ signal \in Signal
    /\ pending \in Codex!Pending
    /\ call \in [Call -> Codex!Running \cup {Nothing}]
    /\ process \in [Session -> Command \cup {"unused", "ended"}]

\* A call is pending only as what its command is good for; a poll is pending
\* exactly if its session is, which is why forgetting both together forgets
\* everything that began before an edit.
CallsTracked ==
    \A c \in Call :
        /\ c \in pending.validation =>
             call[c] # Nothing /\ Codex!ValidationCommand(call[c].command)
        /\ c \in pending.dirtyCheck =>
             /\ call[c] # Nothing /\ call[c].session = Nothing
             /\ Codex!DirtyCheckCommand(call[c].command)
        /\ c \in pending.commit =>
             /\ call[c] # Nothing /\ call[c].session = Nothing
             /\ Codex!CommitCommand(call[c].command)
        /\ call[c] # Nothing /\ call[c].session # Nothing =>
             /\ process[call[c].session] \in {call[c].command, "ended"}
             /\ c \in pending.validation <=> call[c].session \in pending.sessions

\* A session is pending only if it validates.
SessionsTracked ==
    \A s \in pending.sessions :
        \/ process[s] = "ended"
        \/ process[s] \in Command /\ Codex!ValidationCommand(process[s])

\* What holds of calls and processes, by induction.
CommitInvariant == CommitType /\ CallsTracked /\ SessionsTracked

\* No value is mistaken for an absent one.
LEMMA ConstantsApart ==
    /\ Nothing \notin Session
    /\ Nothing \notin Codex!Running
    /\ "unused" \notin Command /\ "ended" \notin Command
    /\ Nothing \notin Codex!Evidence!Kind
    /\ \A kind \in Codex!Evidence!Kind, fresh \in BOOLEAN, s \in Session \cup {Nothing} :
         [kind |-> kind, fresh |-> fresh, session |-> s] # Nothing
    /\ \A fresh \in BOOLEAN : [fresh |-> fresh] # Nothing
BY CodexConstants DEF Codex!Evidence!Task, Codex!Evidence!Process

\* Calls, polls, outputs and edits in any order keep the sets in line.
LEMMA CommitStep == CommitInvariant /\ [Next]_vars => CommitInvariant'
<1> SUFFICES ASSUME CommitInvariant, [Next]_vars PROVE CommitInvariant'
    OBVIOUS
<1> USE ConstantsApart, SharedRecords
        DEF CommitInvariant, CommitType, CallsTracked, SessionsTracked,
            Codex!Pending, Codex!Running
<1>1. CASE UNCHANGED commitVars
    BY <1>1 DEF commitVars
<1>2. CASE Codex!Edit
    BY <1>2 DEF Codex!Edit, Codex!Discarded, Codex!NonePending, Codex!NoSignal, Signal
<1>3. ASSUME NEW c \in Call, NEW command \in Command, Codex!ExecCommand(c, command)
      PROVE  CommitInvariant'
    <2> USE <1>3 DEF Codex!ExecCommand, Codex!Observed
    <2>1. CommitType'
        OBVIOUS
    <2>2. CallsTracked'
        BY <2>1
    <2>3. SessionsTracked'
        OBVIOUS
    <2> QED
        BY <2>1, <2>2, <2>3
<1>4. ASSUME NEW c \in Call, NEW s \in Session, Codex!WriteStdin(c, s)
      PROVE  CommitInvariant'
    <2> USE <1>4 DEF Codex!WriteStdin
    <2>1. CommitType'
        OBVIOUS
    <2>2. CallsTracked'
        BY <2>1
    <2>3. SessionsTracked'
        OBVIOUS
    <2> QED
        BY <2>1, <2>2, <2>3
<1>5. ASSUME NEW c \in Call, NEW s \in Session, Codex!OutputGoesOn(c, s)
      PROVE  CommitInvariant'
    <2> USE <1>5 DEF Codex!OutputGoesOn, Codex!Answered
    <2>1. CommitType'
        OBVIOUS
    <2>2. CallsTracked'
        BY <2>1
    <2>3. SessionsTracked'
        BY <2>1
    <2> QED
        BY <2>1, <2>2, <2>3
<1>6. ASSUME NEW c \in Call, NEW result \in Codex!Result, Codex!Output(c, result)
      PROVE  CommitInvariant'
    <2> USE <1>6 DEF Codex!Output, Codex!Answered
    <2>1. CommitType'
        BY DEF Signal
    <2>2. CallsTracked'
        BY <2>1
    <2>3. SessionsTracked'
        BY <2>1
    <2> QED
        BY <2>1, <2>2, <2>3
<1> QED
    BY <1>1, <1>2, <1>3, <1>4, <1>5, <1>6
    DEF Next, Find, Resolve, CodexRecord, ClaudeRecord, Codex!Next, Codex!Messages, Codex!Work,
        Codex!UserTurn, Codex!HarnessRecord, Codex!FinalAnswer, Codex!TurnGoesOn,
        Codex!Reasoning, Codex!OtherCall, Codex!UnseenItem, Codex!StrayOutput, Codex!commitVars,
        commitVars, vars

-----------------------------------------------------------------------------
(***************************************************************************)
(* Every record is a step of CommitEvidence, or nothing to it              *)
(***************************************************************************)
\* The cue and the proofs that a signal stands for, before and after a step.
LEMMA CueShown ==
    /\ signal \in Signal /\ parsed.awaiting \in BOOLEAN =>
         Codex!Cues(signal, parsed.awaiting) \ {"awaiting_user"}
           = Codex!Evidence!NextStep(signal.edited, Codex!Proved)
    /\ signal' \in Signal /\ parsed'.awaiting \in BOOLEAN =>
         Codex!Cues(signal', parsed'.awaiting) \ {"awaiting_user"}
           = Codex!Evidence!NextStep(signal'.edited, Codex!Proved')
BY CueIsNextStep DEF Codex!Proved

\* The kinds of evidence exclude each other.
LEMMA Kinds ==
    ASSUME NEW command, NEW session
    PROVE  /\ Codex!EvidenceKind(command, session) \in Codex!Evidence!Kind \cup {Nothing}
           /\ Codex!EvidenceKind(command, session) = "validation"
                <=> Codex!ValidationCommand(command)
           /\ Codex!EvidenceKind(command, session) = "dirtyCheck"
                <=> session = Nothing /\ Codex!DirtyCheckCommand(command)
           /\ Codex!EvidenceKind(command, session) = "commit"
                <=> session = Nothing /\ Codex!CommitCommand(command)
BY ConstantsApart DEF Codex!EvidenceKind, Codex!ValidationCommand,
   Codex!DirtyCheckCommand, Codex!CommitCommand, Codex!Evidence!Kind

\* What a call is evidence of.
CallEvidence(c) ==
    /\ CommitType /\ call[c] # Nothing =>
         \/ /\ Codex!EvidenceKind(call[c].command, call[c].session) = Nothing
            /\ Codex!RunningEvidence(c) = Nothing
         \/ \E kind \in Codex!Evidence!Kind :
            /\ Codex!EvidenceKind(call[c].command, call[c].session) = kind
            /\ Codex!RunningEvidence(c) # Nothing
            /\ Codex!RunningEvidence(c)
                 = [kind |-> kind, fresh |-> c \in pending[kind], session |-> call[c].session]
    /\ call[c] = Nothing => Codex!RunningEvidence(c) = Nothing

\* It follows from the definition of the mapping.
LEMMA EvidenceOfCalls == \A c \in Call : CallEvidence(c)
<1> SUFFICES ASSUME NEW c \in Call, CommitType, call[c] # Nothing,
                    NEW kind, kind = Codex!EvidenceKind(call[c].command, call[c].session),
                    kind # Nothing
             PROVE  /\ kind \in Codex!Evidence!Kind
                    /\ Codex!RunningEvidence(c) # Nothing
                    /\ Codex!RunningEvidence(c)
                        = [kind |-> kind, fresh |-> c \in pending[kind], session |-> call[c].session]
    BY DEF CallEvidence, Codex!RunningEvidence
<1>1. kind \in Codex!Evidence!Kind
    BY Kinds
<1>2. Codex!RunningEvidence(c)
        = [kind |-> kind, fresh |-> c \in pending[kind], session |-> call[c].session]
    BY DEF Codex!RunningEvidence
<1>3. call[c].session \in Session \cup {Nothing}
    BY SharedRecords DEF CommitType, Codex!Running
<1>4. (c \in pending[kind]) \in BOOLEAN
    OBVIOUS
<1> QED
    BY <1>1, <1>2, <1>3, <1>4, ConstantsApart

\* What a process is evidence of.
ProcessEvidence(s) ==
    IF process[s] \in Command /\ Codex!ValidationCommand(process[s])
    THEN /\ Codex!BackgroundEvidence(s) = [fresh |-> s \in pending.sessions]
         /\ Codex!BackgroundEvidence(s) # Nothing
    ELSE Codex!BackgroundEvidence(s) = Nothing

\* It follows from the definition of the mapping, too.
LEMMA EvidenceOfProcesses == \A s \in Session : ProcessEvidence(s)
<1> SUFFICES ASSUME NEW s \in Session PROVE ProcessEvidence(s)
    OBVIOUS
<1>1. (s \in pending.sessions) \in BOOLEAN
    OBVIOUS
<1> QED
    BY <1>1, ConstantsApart DEF ProcessEvidence, Codex!BackgroundEvidence

\* Both hold in every state, so also after a step.
LEMMA EvidenceAfter == (\A c \in Call : CallEvidence(c))' /\ (\A s \in Session : ProcessEvidence(s))'
BY EvidenceOfCalls, EvidenceOfProcesses, PTL

\* A call that is left alone, and stays as pending as it was, keeps its worth.
LEMMA SameEvidence ==
    ASSUME CommitType, CommitType', NEW c \in Call, call'[c] = call[c],
           \A kind \in Codex!Evidence!Kind : c \in pending'[kind] <=> c \in pending[kind]
    PROVE  Codex!RunningEvidence(c)' = Codex!RunningEvidence(c)
<1>0. CallEvidence(c) /\ CallEvidence(c)'
    BY EvidenceOfCalls, EvidenceAfter
<1>1. CASE call[c] = Nothing
    BY <1>0, <1>1 DEF CallEvidence
<1>2. CASE call[c] # Nothing /\ Codex!EvidenceKind(call[c].command, call[c].session) = Nothing
    BY <1>0, <1>2, ConstantsApart DEF CallEvidence
<1>3. ASSUME call[c] # Nothing, NEW kind \in Codex!Evidence!Kind,
             Codex!EvidenceKind(call[c].command, call[c].session) = kind
      PROVE  Codex!RunningEvidence(c)' = Codex!RunningEvidence(c)
    <2>1. (c \in pending'[kind]) = (c \in pending[kind])
        OBVIOUS
    <2>2. Codex!RunningEvidence(c)
            = [kind |-> kind, fresh |-> c \in pending[kind], session |-> call[c].session]
        BY <1>0, <1>3, ConstantsApart DEF CallEvidence
    <2>3. Codex!RunningEvidence(c)'
            = [kind |-> kind, fresh |-> c \in pending'[kind], session |-> call[c].session]
        BY <1>0, <1>3, ConstantsApart DEF CallEvidence
    <2> QED
        BY <2>1, <2>2, <2>3
<1> QED
    BY <1>1, <1>2, <1>3, Kinds

\* What a step that is not about the signal leaves alone.
LEMMA SameSignal ==
    ASSUME signal' = signal, signal \in Signal, parsed.awaiting \in BOOLEAN,
           parsed'.awaiting \in BOOLEAN
    PROVE  /\ Codex!Proved' = Codex!Proved
           /\ Codex!Cues(signal', parsed'.awaiting) \ {"awaiting_user"}
                = Codex!Cues(signal, parsed.awaiting) \ {"awaiting_user"}
<1>1. Codex!Proved' = Codex!Proved
    BY DEF Codex!Proved
<1> QED
    BY <1>1, CueShown

\* An edit makes everything that runs stale.
LEMMA EditEvidence ==
    ASSUME CommitInvariant, CommitInvariant', Codex!Edit, parsed'.awaiting \in BOOLEAN
    PROVE  Codex!Evidence!Edit
<1> USE SharedRecords
        DEF CommitInvariant, CommitType, Codex!Edit, Codex!Discarded, Codex!NonePending
<1>1. ASSUME NEW c \in Call
      PROVE  Codex!RunningEvidence(c)'
               = IF Codex!RunningEvidence(c) = Nothing THEN Nothing
                 ELSE [kind |-> Codex!RunningEvidence(c).kind, fresh |-> FALSE,
                       session |-> Codex!RunningEvidence(c).session]
    <2>0. CallEvidence(c) /\ CallEvidence(c)' /\ call' = call
        BY EvidenceOfCalls, EvidenceAfter
    <2>1. CASE call[c] = Nothing
        BY <2>0, <2>1 DEF CallEvidence
    <2>2. CASE call[c] # Nothing /\ Codex!EvidenceKind(call[c].command, call[c].session) = Nothing
        BY <2>0, <2>2, ConstantsApart DEF CallEvidence
    <2>3. ASSUME call[c] # Nothing, NEW kind \in Codex!Evidence!Kind,
                 Codex!EvidenceKind(call[c].command, call[c].session) = kind
          PROVE  /\ Codex!RunningEvidence(c) # Nothing
                 /\ Codex!RunningEvidence(c)' = [kind |-> kind, fresh |-> FALSE, session |-> call[c].session]
                 /\ Codex!RunningEvidence(c)
                     = [kind |-> kind, fresh |-> c \in pending[kind], session |-> call[c].session]
        <3>1. (c \in pending'[kind]) = FALSE
            BY DEF Codex!Evidence!Kind
        <3> QED
            BY <2>0, <2>3, <3>1, ConstantsApart DEF CallEvidence
    <2>4. CASE call[c] # Nothing /\ Codex!EvidenceKind(call[c].command, call[c].session) # Nothing
        <3>1. PICK kind \in Codex!Evidence!Kind :
                Codex!EvidenceKind(call[c].command, call[c].session) = kind
            BY <2>4, Kinds
        <3> QED
            BY <2>3, <2>4, <3>1
    <2> QED
        BY <2>1, <2>2, <2>4
<1>2. ASSUME NEW s \in Session
      PROVE  Codex!BackgroundEvidence(s)'
               = IF Codex!BackgroundEvidence(s) = Nothing THEN Nothing ELSE [fresh |-> FALSE]
    <2>1. (s \in pending'.sessions) = FALSE /\ process' = process
        OBVIOUS
    <2>2. ProcessEvidence(s) /\ ProcessEvidence(s)'
        BY EvidenceOfProcesses, EvidenceAfter
    <2> QED
        BY <2>1, <2>2 DEF ProcessEvidence
<1>3. signal'.edited = TRUE /\ Codex!Proved' = {}
    BY DEF Codex!Proved, Codex!NoSignal
<1>4. Codex!Cues(signal', parsed'.awaiting) \ {"awaiting_user"}
        = Codex!Evidence!NextStep(TRUE, {})
    BY <1>3, CueShown
<1> QED
    BY <1>1, <1>2, <1>3, <1>4 DEF Codex!Evidence!Edit

\* A command begins as evidence of one kind, or of none.
LEMMA ExecEvidence ==
    ASSUME CommitInvariant, CommitInvariant', parsed.awaiting \in BOOLEAN,
           parsed'.awaiting \in BOOLEAN,
           NEW c \in Call, NEW command \in Command, Codex!ExecCommand(c, command)
    PROVE  \/ \E kind \in Codex!Evidence!Kind : Codex!Evidence!Begin(c, kind)
           \/ UNCHANGED Codex!Evidence!vars
<1> USE SharedRecords DEF CommitInvariant, CommitType, Codex!ExecCommand
<1>1. \A d \in Call \ {c} : Codex!RunningEvidence(d)' = Codex!RunningEvidence(d)
    BY SameEvidence DEF Codex!Observed, Codex!Evidence!Kind, Codex!Pending
<1>2. \A s \in Session : Codex!BackgroundEvidence(s)' = Codex!BackgroundEvidence(s)
    BY DEF Codex!BackgroundEvidence, Codex!Observed, Codex!Pending
<1>3. /\ Codex!Proved' = Codex!Proved
      /\ Codex!Cues(signal', parsed'.awaiting) \ {"awaiting_user"}
           = Codex!Cues(signal, parsed.awaiting) \ {"awaiting_user"}
    BY SameSignal
<1>4. /\ Codex!RunningEvidence(c) = Nothing
      /\ call'[c] # Nothing /\ call'[c].command = command /\ call'[c].session = Nothing
      /\ CallEvidence(c)'
    BY EvidenceOfCalls, EvidenceAfter, ConstantsApart DEF CallEvidence, Codex!Running
<1>5. CASE Codex!EvidenceKind(command, Nothing) = Nothing
    <2>1. Codex!RunningEvidence(c)' = Nothing
        BY <1>4, <1>5, ConstantsApart DEF CallEvidence
    <2> QED
        BY <1>1, <1>2, <1>3, <1>4, <2>1 DEF Codex!Evidence!vars
<1>6. ASSUME NEW kind \in Codex!Evidence!Kind, Codex!EvidenceKind(command, Nothing) = kind
      PROVE  Codex!Evidence!Begin(c, kind)
    <2>1. (c \in pending'[kind]) = TRUE
        BY <1>6, Kinds DEF Codex!Observed, Codex!Evidence!Kind, Codex!Pending
    <2>2. Codex!RunningEvidence(c)' = [kind |-> kind, fresh |-> TRUE, session |-> Nothing]
        BY <1>4, <1>6, <2>1, ConstantsApart DEF CallEvidence
    <2> QED
        BY <1>1, <1>2, <1>3, <1>4, <2>2 DEF Codex!Evidence!Begin
<1> QED
    BY <1>5, <1>6, Kinds

\* A poll is as fresh as the process it polls.
LEMMA PollEvidence ==
    ASSUME CommitInvariant, CommitInvariant', parsed.awaiting \in BOOLEAN,
           parsed'.awaiting \in BOOLEAN,
           NEW c \in Call, NEW s \in Session, Codex!WriteStdin(c, s)
    PROVE  Codex!Evidence!Poll(c, s) \/ UNCHANGED Codex!Evidence!vars
<1> USE SharedRecords DEF CommitInvariant, CommitType, Codex!WriteStdin
<1>1. \A d \in Call \ {c} : Codex!RunningEvidence(d)' = Codex!RunningEvidence(d)
    BY SameEvidence DEF Codex!Evidence!Kind, Codex!Pending
<1>2. \A t \in Session : Codex!BackgroundEvidence(t)' = Codex!BackgroundEvidence(t)
    BY DEF Codex!BackgroundEvidence, Codex!Pending
<1>3. /\ Codex!Proved' = Codex!Proved
      /\ Codex!Cues(signal', parsed'.awaiting) \ {"awaiting_user"}
           = Codex!Cues(signal, parsed.awaiting) \ {"awaiting_user"}
    BY SameSignal
<1>4. /\ Codex!RunningEvidence(c) = Nothing
      /\ call'[c] # Nothing /\ call'[c].command = process[s] /\ call'[c].session = s
      /\ CallEvidence(c)' /\ ProcessEvidence(s) /\ s # Nothing
    <2>1. CallEvidence(c) /\ CallEvidence(c)' /\ ProcessEvidence(s)
        BY EvidenceOfCalls, EvidenceOfProcesses, EvidenceAfter
    <2>2. call'[c] = [command |-> process[s], session |-> s] /\ call'[c] \in Codex!Running
        BY DEF Codex!Running
    <2> QED
        BY <2>1, <2>2, ConstantsApart DEF CallEvidence
<1>5. CASE ~Codex!ValidationCommand(process[s])
    <2>1. Codex!EvidenceKind(process[s], s) = Nothing
        BY <1>4, <1>5 DEF Codex!EvidenceKind
    <2>2. Codex!RunningEvidence(c)' = Nothing
        BY <1>4, <2>1, ConstantsApart DEF CallEvidence
    <2> QED
        BY <1>1, <1>2, <1>3, <1>4, <2>2 DEF Codex!Evidence!vars
<1>6. CASE Codex!ValidationCommand(process[s])
    <2>1. (c \in pending'.validation) = (s \in pending.sessions)
        BY DEF CallsTracked, Codex!Pending
    <2>2. Codex!EvidenceKind(process[s], s) = "validation"
        BY <1>6, Kinds
    <2>3. Codex!RunningEvidence(c)'
            = [kind |-> "validation", fresh |-> s \in pending.sessions, session |-> s]
        <3> DEFINE kind == "validation"
        <3>1. kind \in Codex!Evidence!Kind
            BY DEF Codex!Evidence!Kind
        <3>2. (c \in pending'[kind]) = (s \in pending.sessions)
            BY <2>1
        <3>3. Codex!EvidenceKind(call'[c].command, call'[c].session) = kind
            BY <1>4, <2>2
        <3> HIDE DEF kind
        <3>4. Codex!RunningEvidence(c)' = [kind |-> kind, fresh |-> c \in pending'[kind], session |-> s]
            BY <1>4, <3>1, <3>3, ConstantsApart DEF CallEvidence
        <3> QED
            BY <3>2, <3>4 DEF kind
    <2>4. Codex!BackgroundEvidence(s) = [fresh |-> s \in pending.sessions]
          /\ Codex!BackgroundEvidence(s) # Nothing
        BY <1>4, <1>6 DEF ProcessEvidence
    <2>5. Codex!BackgroundEvidence(s).fresh = (s \in pending.sessions)
        BY <2>4
    <2>6. Codex!RunningEvidence(c)'
            = [kind |-> "validation", fresh |-> Codex!BackgroundEvidence(s).fresh, session |-> s]
        BY <2>3, <2>5
    <2> QED
        BY <1>1, <1>2, <1>3, <1>4, <2>4, <2>6 DEF Codex!Evidence!Poll
<1> QED
    BY <1>5, <1>6

\* A validation that goes on leaves its freshness with its process; any other
\* evidence that goes on is lost.
LEMMA GoesOnEvidence ==
    ASSUME CommitInvariant, CommitInvariant', parsed.awaiting \in BOOLEAN,
           parsed'.awaiting \in BOOLEAN,
           NEW c \in Call, NEW s \in Session, Codex!OutputGoesOn(c, s)
    PROVE  \/ Codex!Evidence!GoOn(c, s)
           \/ Codex!Evidence!End(c, FALSE)
           \/ UNCHANGED Codex!Evidence!vars
<1> USE SharedRecords DEF CommitInvariant, CommitType, Codex!OutputGoesOn, Codex!Answered
<1>1. \A d \in Call \ {c} : Codex!RunningEvidence(d)' = Codex!RunningEvidence(d)
    BY SameEvidence DEF Codex!Evidence!Kind, Codex!Pending
<1>2. \A t \in Session \ {s} : Codex!BackgroundEvidence(t)' = Codex!BackgroundEvidence(t)
    BY DEF Codex!BackgroundEvidence, Codex!Pending
<1>3. /\ Codex!Proved' = Codex!Proved
      /\ Codex!Cues(signal', parsed'.awaiting) \ {"awaiting_user"}
           = Codex!Cues(signal, parsed.awaiting) \ {"awaiting_user"}
    BY SameSignal
<1>4. /\ Codex!RunningEvidence(c)' = Nothing
      /\ call[c] # Nothing /\ call[c].command \in Command
      /\ process'[s] = call[c].command
      /\ CallEvidence(c) /\ ProcessEvidence(s) /\ ProcessEvidence(s)' /\ s # Nothing
    BY EvidenceOfCalls, EvidenceOfProcesses, EvidenceAfter, ConstantsApart
    DEF CallEvidence, Codex!Running
<1>5. CASE ~Codex!ValidationCommand(call[c].command)
    <2>1. Codex!BackgroundEvidence(s) = Nothing /\ Codex!BackgroundEvidence(s)' = Nothing
        BY <1>4, <1>5, ConstantsApart DEF ProcessEvidence, CallsTracked
    <2>2. CASE Codex!RunningEvidence(c) = Nothing
        BY <1>1, <1>2, <1>3, <1>4, <2>1, <2>2 DEF Codex!Evidence!vars
    <2>3. CASE Codex!RunningEvidence(c) # Nothing
        <3>1. PICK kind \in Codex!Evidence!Kind \ {"validation"} :
                /\ Codex!EvidenceKind(call[c].command, call[c].session) = kind
                /\ Codex!RunningEvidence(c)
                     = [kind |-> kind, fresh |-> c \in pending[kind], session |-> call[c].session]
            BY <1>4, <1>5, <2>3, Kinds DEF CallEvidence
        <3>2. call[c].session = Nothing
            BY <3>1, Kinds DEF Codex!Evidence!Kind
        <3>3. Codex!Evidence!NextStep(signal.edited, Codex!Proved)
                = Codex!Cues(signal', parsed'.awaiting) \ {"awaiting_user"}
            BY <1>3, CueShown
        <3>4. Codex!RunningEvidence(c).session = Nothing
            BY <3>1, <3>2
        <3>5. \A t \in Session :
                Codex!BackgroundEvidence(t)'
                  = IF t = Codex!RunningEvidence(c).session THEN Nothing
                    ELSE Codex!BackgroundEvidence(t)
            BY <1>2, <2>1, <3>4, ConstantsApart
        <3>6. [d \in Call |-> Codex!RunningEvidence(d)']
                = [[d \in Call |-> Codex!RunningEvidence(d)] EXCEPT ![c] = Nothing]
            BY <1>1, <1>4
        <3>7. signal' = signal
            OBVIOUS
        <3> QED
            BY <1>3, <2>3, <3>3, <3>5, <3>6, <3>7 DEF Codex!Evidence!End
    <2> QED
        BY <2>2, <2>3
<1>6. CASE Codex!ValidationCommand(call[c].command)
    <2>1. Codex!EvidenceKind(call[c].command, call[c].session) = "validation"
        BY <1>6, Kinds
    <2>2. /\ Codex!RunningEvidence(c) # Nothing
          /\ Codex!RunningEvidence(c)
               = [kind |-> "validation", fresh |-> c \in pending.validation,
                  session |-> call[c].session]
        <3> DEFINE kind == "validation"
        <3>1. kind \in Codex!Evidence!Kind
            BY DEF Codex!Evidence!Kind
        <3> HIDE DEF kind
        <3>2. /\ Codex!RunningEvidence(c) # Nothing
              /\ Codex!RunningEvidence(c)
                   = [kind |-> kind, fresh |-> c \in pending[kind], session |-> call[c].session]
            BY <1>4, <2>1, <3>1, ConstantsApart DEF CallEvidence, kind
        <3> QED
            BY <3>2 DEF kind
    <2>3. (s \in pending'.sessions) = (c \in pending.validation)
        BY ConstantsApart DEF CallsTracked, SessionsTracked, Codex!Pending, Codex!Running
    <2>4. Codex!BackgroundEvidence(s)' = [fresh |-> c \in pending.validation]
        BY <1>4, <1>6, <2>3 DEF ProcessEvidence
    <2>5. call[c].session = Nothing => Codex!BackgroundEvidence(s) = Nothing
        BY <1>4, ConstantsApart DEF ProcessEvidence
    <2>6. call[c].session # Nothing => call[c].session = s
        OBVIOUS
    <2>7. /\ Codex!RunningEvidence(c).fresh = (c \in pending.validation)
          /\ Codex!RunningEvidence(c).kind = "validation"
          /\ Codex!RunningEvidence(c).session = call[c].session
        BY <2>2
    <2>8. Codex!BackgroundEvidence(s)' = [fresh |-> Codex!RunningEvidence(c).fresh]
        BY <2>4, <2>7
    <2>9. [d \in Call |-> Codex!RunningEvidence(d)']
            = [[d \in Call |-> Codex!RunningEvidence(d)] EXCEPT ![c] = Nothing]
        BY <1>1, <1>4
    <2>10. [t \in Session |-> Codex!BackgroundEvidence(t)']
             = [[t \in Session |-> Codex!BackgroundEvidence(t)] EXCEPT
                  ![s] = [fresh |-> Codex!RunningEvidence(c).fresh]]
        BY <1>2, <2>8
    <2>11. signal' = signal
        OBVIOUS
    <2> QED
        BY <1>3, <2>2, <2>5, <2>6, <2>7, <2>9, <2>10, <2>11 DEF Codex!Evidence!GoOn
<1> QED
    BY <1>5, <1>6

\* A call that ends proves what it was fresh evidence of, and nothing else.
LEMMA OutputEvidence ==
    ASSUME CommitInvariant, CommitInvariant', parsed.awaiting \in BOOLEAN,
           parsed'.awaiting \in BOOLEAN,
           NEW c \in Call, NEW result \in Codex!Result, Codex!Output(c, result)
    PROVE  (\E well \in BOOLEAN : Codex!Evidence!End(c, well)) \/ UNCHANGED Codex!Evidence!vars
<1> USE SharedRecords DEF CommitInvariant, CommitType, Codex!Output, Codex!Answered
<1>1. \A d \in Call \ {c} : Codex!RunningEvidence(d)' = Codex!RunningEvidence(d)
    BY SameEvidence DEF Codex!Evidence!Kind, Codex!Pending
<1>2. \A t \in Session \ {call[c].session} :
        Codex!BackgroundEvidence(t)' = Codex!BackgroundEvidence(t)
    BY DEF Codex!BackgroundEvidence, Codex!Pending
<1>3. /\ Codex!RunningEvidence(c)' = Nothing
      /\ call[c] # Nothing
      /\ call[c].session \in Session \cup {Nothing}
      /\ CallEvidence(c)
    BY EvidenceOfCalls, EvidenceAfter, ConstantsApart DEF CallEvidence, Codex!Running
<1>4. \A t \in Session : t = call[c].session => Codex!BackgroundEvidence(t)' = Nothing
    BY EvidenceAfter, ConstantsApart DEF ProcessEvidence
<1>5. CASE Codex!EvidenceKind(call[c].command, call[c].session) = Nothing
    <2>1. ~Codex!ValidationCommand(call[c].command)
          /\ c \notin pending.validation /\ c \notin pending.dirtyCheck /\ c \notin pending.commit
        BY <1>5, Kinds, ConstantsApart DEF CallsTracked, Codex!Evidence!Kind
    <2>2. signal' = signal
        BY <2>1 DEF Signal
    <2>3. \A t \in Session : t = call[c].session => Codex!BackgroundEvidence(t) = Nothing
        BY <1>3, <2>1, EvidenceOfProcesses, ConstantsApart DEF ProcessEvidence, CallsTracked
    <2>4. Codex!RunningEvidence(c) = Nothing
        BY <1>3, <1>5, ConstantsApart DEF CallEvidence
    <2> QED
        BY <1>1, <1>2, <1>3, <1>4, <2>2, <2>3, <2>4, SameSignal DEF Codex!Evidence!vars
<1>6. ASSUME NEW kind \in Codex!Evidence!Kind,
             Codex!EvidenceKind(call[c].command, call[c].session) = kind
      PROVE  Codex!Evidence!End(c, result = "ok")
    <2>1. /\ Codex!RunningEvidence(c) # Nothing
          /\ Codex!RunningEvidence(c)
               = [kind |-> kind, fresh |-> c \in pending[kind], session |-> call[c].session]
        BY <1>3, <1>6, ConstantsApart DEF CallEvidence
    <2>2. /\ Codex!RunningEvidence(c).kind = kind
          /\ Codex!RunningEvidence(c).fresh = (c \in pending[kind])
          /\ Codex!RunningEvidence(c).session = call[c].session
        BY <2>1
    <2>3. \A other \in Codex!Evidence!Kind \ {kind} : c \notin pending[other]
        BY <1>6, Kinds DEF CallsTracked, Codex!Evidence!Kind
    <2>4. Codex!Proved' = IF result = "ok" /\ c \in pending[kind]
                          THEN Codex!Proved \cup {kind} ELSE Codex!Proved
        BY <2>3 DEF Codex!Proved, Codex!Successful, Codex!Evidence!Kind, Signal
    <2>5. signal'.edited = signal.edited
        BY DEF Signal
    <2>6. Codex!Cues(signal', parsed'.awaiting) \ {"awaiting_user"}
            = Codex!Evidence!NextStep(signal.edited, Codex!Proved')
        BY <2>5, CueShown
    <2>7. [d \in Call |-> Codex!RunningEvidence(d)']
            = [[d \in Call |-> Codex!RunningEvidence(d)] EXCEPT ![c] = Nothing]
        BY <1>1, <1>3
    <2>8. \A t \in Session :
            Codex!BackgroundEvidence(t)'
              = IF t = Codex!RunningEvidence(c).session THEN Nothing
                ELSE Codex!BackgroundEvidence(t)
        BY <1>2, <1>4, <2>2
    <2> QED
        BY <2>1, <2>2, <2>4, <2>5, <2>6, <2>7, <2>8 DEF Codex!Evidence!End
<1> QED
    BY <1>5, <1>6, Kinds

\* Whatever leaves calls and processes alone leaves the evidence alone.
LEMMA NoEvidence ==
    ASSUME CommitInvariant, CommitInvariant', parsed.awaiting \in BOOLEAN,
           parsed'.awaiting \in BOOLEAN, UNCHANGED commitVars
    PROVE  UNCHANGED Codex!Evidence!vars
<1> USE DEF CommitInvariant, commitVars
<1>1. \A c \in Call : Codex!RunningEvidence(c)' = Codex!RunningEvidence(c)
    BY SameEvidence
<1>2. \A s \in Session : Codex!BackgroundEvidence(s)' = Codex!BackgroundEvidence(s)
    BY DEF Codex!BackgroundEvidence
<1>3. /\ Codex!Proved' = Codex!Proved
      /\ Codex!Cues(signal', parsed'.awaiting) \ {"awaiting_user"}
           = Codex!Cues(signal, parsed.awaiting) \ {"awaiting_user"}
    BY SameSignal, SharedRecords DEF CommitType
<1> QED
    BY <1>1, <1>2, <1>3 DEF Codex!Evidence!vars

\* A call that begins or ends changes what runs behind it.
LEMMA CallStep ==
    ASSUME NEW c \in Call,
           \/ \E kind \in Codex!Evidence!Kind : Codex!Evidence!Begin(c, kind)
           \/ \E s \in Session : Codex!Evidence!Poll(c, s) \/ Codex!Evidence!GoOn(c, s)
           \/ \E well \in BOOLEAN : Codex!Evidence!End(c, well)
    PROVE  Codex!Evidence!Next
<1>1. ASSUME NEW s \in Session, Codex!BackgroundEvidence(s) # Nothing
      PROVE  \E fresh \in BOOLEAN : Codex!BackgroundEvidence(s) = [fresh |-> fresh]
    <2>1. Codex!BackgroundEvidence(s) = [fresh |-> s \in pending.sessions]
        BY <1>1 DEF Codex!BackgroundEvidence
    <2>2. (s \in pending.sessions) \in BOOLEAN
        OBVIOUS
    <2> QED
        BY <2>1, <2>2
<1>2. ASSUME NEW kind \in Codex!Evidence!Kind, Codex!Evidence!Begin(c, kind)
      PROVE  Codex!RunningEvidence(c)' # Codex!RunningEvidence(c)
    <2>1. Codex!RunningEvidence(c) = Nothing
        BY <1>2 DEF Codex!Evidence!Begin
    <2>2. Codex!RunningEvidence(c)' = [kind |-> kind, fresh |-> TRUE, session |-> Nothing]
        BY <1>2 DEF Codex!Evidence!Begin
    <2>3. [kind |-> kind, fresh |-> TRUE, session |-> Nothing] # Nothing
        BY ConstantsApart
    <2> QED
        BY <2>1, <2>2, <2>3
<1>3. ASSUME NEW s \in Session, Codex!Evidence!Poll(c, s)
      PROVE  Codex!RunningEvidence(c)' # Codex!RunningEvidence(c)
    <2>1. PICK fresh \in BOOLEAN : Codex!BackgroundEvidence(s) = [fresh |-> fresh]
        BY <1>1, <1>3 DEF Codex!Evidence!Poll
    <2>2. Codex!RunningEvidence(c) = Nothing
        BY <1>3 DEF Codex!Evidence!Poll
    <2>3. Codex!RunningEvidence(c)' = [kind |-> "validation", fresh |-> fresh, session |-> s]
        BY <1>3, <2>1 DEF Codex!Evidence!Poll
    <2> QED
        BY <2>2, <2>3, ConstantsApart DEF Codex!Evidence!Kind
<1>4. ASSUME \/ \E s \in Session : Codex!Evidence!GoOn(c, s)
             \/ \E well \in BOOLEAN : Codex!Evidence!End(c, well)
      PROVE  Codex!RunningEvidence(c)' # Codex!RunningEvidence(c)
    BY <1>4 DEF Codex!Evidence!GoOn, Codex!Evidence!End
<1> QED
    BY <1>2, <1>3, <1>4 DEF Codex!Evidence!Next

\* Every step of a transcript is a step of the abstract specification.
LEMMA EvidenceStep ==
    ASSUME CommitInvariant, CommitInvariant', RecordInvariant, RecordInvariant', [Next]_vars
    PROVE  [Codex!Evidence!Next]_(Codex!Evidence!vars)
<1>1. parsed.awaiting \in BOOLEAN /\ parsed'.awaiting \in BOOLEAN
    BY DEF RecordInvariant, RecordType, Parsed
<1>2. CASE UNCHANGED commitVars
    BY <1>1, <1>2, NoEvidence
<1>3. CASE Codex!Edit
    BY <1>1, <1>3, EditEvidence DEF Codex!Evidence!Next
<1>4. ASSUME NEW c \in Call, NEW command \in Command, Codex!ExecCommand(c, command)
      PROVE  [Codex!Evidence!Next]_(Codex!Evidence!vars)
    BY <1>1, <1>4, ExecEvidence, CallStep
<1>5. ASSUME NEW c \in Call, NEW s \in Session, Codex!WriteStdin(c, s)
      PROVE  [Codex!Evidence!Next]_(Codex!Evidence!vars)
    BY <1>1, <1>5, PollEvidence, CallStep
<1>6. ASSUME NEW c \in Call, NEW s \in Session, Codex!OutputGoesOn(c, s)
      PROVE  [Codex!Evidence!Next]_(Codex!Evidence!vars)
    BY <1>1, <1>6, GoesOnEvidence, CallStep
<1>7. ASSUME NEW c \in Call, NEW result \in Codex!Result, Codex!Output(c, result)
      PROVE  [Codex!Evidence!Next]_(Codex!Evidence!vars)
    BY <1>1, <1>7, OutputEvidence, CallStep
<1> QED
    BY <1>2, <1>3, <1>4, <1>5, <1>6, <1>7
    DEF Next, Find, Resolve, CodexRecord, ClaudeRecord, Codex!Next, Codex!Messages, Codex!Work,
        Codex!UserTurn, Codex!HarnessRecord, Codex!FinalAnswer, Codex!TurnGoesOn,
        Codex!Reasoning, Codex!OtherCall, Codex!UnseenItem, Codex!StrayOutput, Codex!commitVars,
        commitVars, vars

-----------------------------------------------------------------------------
(***************************************************************************)
(* Theorems                                                                *)
(***************************************************************************)
\* An empty transcript satisfies both invariants and promises nothing.
LEMMA Initially ==
    ASSUME Init
    PROVE  RecordInvariant /\ CommitInvariant /\ Codex!Evidence!Init
<1> USE SharedRecords, ConstantsApart, RecordConstants DEF Init, Codex!Init
<1>1. RecordInvariant
    <2>1. << >> \in Seq(Act) /\ Len(<< >>) = 0
        OBVIOUS
    <2>2. /\ parsed = Codex!Empty /\ genuine = Nothing /\ misread = FALSE
          /\ latest = "other"
          /\ parsed.actions = << >> /\ parsed.task = Nothing /\ parsed.userTurn = Nothing
          /\ parsed.question = Nothing /\ parsed.awaiting = FALSE
        BY DEF Codex!Empty
    <2>3. parsed \in Parsed
        BY <2>1 DEF Codex!Empty, Parsed
    <2>4. RecordType
        <3>1. Len(parsed.actions) = 0 /\ 0 <= MaxActions
            BY <2>1, <2>2
        <3> HIDE <2>2
        <3> QED
            BY <2>2, <2>3, <3>1 DEF RecordType, Record
    <2>5. QuestionIsOpen /\ UserTurnIsRead
        BY <2>2 DEF QuestionIsOpen, UserTurnIsRead, UserTurnIsGenuine
    <2> QED
        BY <2>4, <2>5 DEF RecordInvariant
<1>2. CommitInvariant
    BY DEF CommitInvariant, CommitType, CallsTracked, SessionsTracked, Codex!NonePending,
       Codex!Pending, Codex!NoSignal, Signal
<1>3. Codex!Evidence!Init
    <2>1. \A c \in Call : Codex!RunningEvidence(c) = Nothing
        BY DEF Codex!RunningEvidence
    <2>2. \A s \in Session : Codex!BackgroundEvidence(s) = Nothing
        BY DEF Codex!BackgroundEvidence
    <2>3. Codex!Proved = {} /\ ~signal.edited /\ signal.edited = FALSE
        BY DEF Codex!Proved, Codex!NoSignal
    <2>4. Codex!Cues(signal, parsed.awaiting) \ {"awaiting_user"} = {}
        BY DEF Codex!Cues, Codex!CommitCue, Codex!Candidate, Codex!NoSignal, Codex!Empty
    <2> QED
        BY <2>1, <2>2, <2>3, <2>4 DEF Codex!Evidence!Init
<1> QED
    BY <1>1, <1>2, <1>3

\* The records of either tool, or none, keep the first invariant, and so does
\* finding the file.
LEMMA RecordStep == RecordInvariant /\ [Next]_vars => RecordInvariant'
<1>1. CASE UNCHANGED <<parsed, turnVars>>
    BY <1>1
    DEF turnVars, RecordInvariant, RecordType, QuestionIsOpen, UserTurnIsRead, UserTurnIsGenuine
<1> QED
    BY <1>1, CodexKeepsRecords, ClaudeKeepsRecords DEF Next, Find, Resolve, vars

\* Both invariants hold in every state.
LEMMA Invariants == Spec => [](RecordInvariant /\ CommitInvariant)
<1>1. Init => RecordInvariant /\ CommitInvariant
    BY Initially
<1> QED
    BY <1>1, RecordStep, CommitStep, PTL DEF Spec

\* What the files hold, and the tool once it is known.
FoundType == Discovery!TypeOK /\ tool \in {"claude", "codex", Nothing}

\* The agents write lines of their own kind, and tools are what they are
\* resolved to.
LEMMA FoundStep == FoundType /\ [Next]_vars => FoundType'
<1> SUFFICES ASSUME FoundType, [Next]_vars PROVE FoundType'
    OBVIOUS
<1> USE DEF FoundType, Discovery!TypeOK
<1>1. ASSUME NEW f \in File, NEW line \in Discovery!Line(f), Discovery!Write(f, line)
      PROVE  Discovery!TypeOK'
    <2>1. Append(lines[f], line) \in Seq(Discovery!Line(f))
          /\ Append(lines[f], line) \in Seq(UNION {Discovery!Line(g) : g \in File})
        BY AppendProperties
    <2> QED
        BY <1>1, <2>1 DEF Discovery!Write
<1>2. ASSUME NEW f \in File, NEW line \in Discovery!Line(f), Discovery!Complete(f, line)
      PROVE  Discovery!TypeOK'
    <2> DEFINE longer == [lines[f] EXCEPT ![Len(lines[f])] = line]
    <2>1. longer \in Seq(Discovery!Line(f))
          /\ longer \in Seq(UNION {Discovery!Line(g) : g \in File})
        <3>1. Len(lines[f]) \in 1..Len(lines[f])
            BY <1>2, LenProperties DEF Discovery!Complete
        <3> QED
            BY <3>1, ExceptSeq
    <2>2. lines' = [lines EXCEPT ![f] = longer]
        BY <1>2 DEF Discovery!Complete
    <2> HIDE DEF longer
    <2> QED
        BY <2>1, <2>2
<1>3. ASSUME NEW f \in File, Discovery!Delete(f)
      PROVE  Discovery!TypeOK'
    BY <1>3 DEF Discovery!Delete
<1>4. CASE Find
    BY <1>1, <1>2, <1>3, <1>4 DEF Find, Discovery!Next
<1>5. CASE Resolve
    <2>1. Discovery!TypeOK'
        BY <1>5 DEF Resolve, Discovery!Unwritten
    <2>2. \A selection \in {"auto", "claude", "codex"}, cwd \in Cwd :
            \A resolved \in Discovery!Resolutions(selection, cwd) :
                resolved.tool \in {"claude", "codex"}
        BY DEF Discovery!Resolutions
    <2>3. \A selection \in {"auto", "claude", "codex"}, f \in File :
            \A resolved \in Discovery!InputResolutions(selection, f) :
                resolved.tool \in {"claude", "codex"}
        BY DEF Discovery!InputResolutions, Discovery!Inferred
    <2> QED
        BY <1>5, <2>1, <2>2, <2>3 DEF Resolve
<1> QED
    BY <1>4, <1>5 DEF Next, CodexRecord, ClaudeRecord, vars

\* So it is in every state.
LEMMA Found == Spec => []FoundType
<1>1. Init => FoundType
    BY DEF Init, FoundType, Discovery!TypeOK, Discovery!Init, Discovery!Unwritten
<1> QED
    BY <1>1, FoundStep, PTL DEF Spec

\* longer holds the lines of text, up to its last if that was none yet.
Continues(longer, text) ==
    /\ Len(longer) >= Len(text)
    /\ \A i \in 1..Len(text) :
        longer[i] = text[i] \/ (i = Len(text) /\ ~Discovery!IsEntry(text[i]))

\* A line that is written or completed leaves the entries before it where
\* they were read.
LEMMA StillNamed ==
    ASSUME NEW S, NEW text \in Seq(S), NEW longer \in Seq(S), Continues(longer, text)
    PROVE  /\ Discovery!Named(text) \subseteq Discovery!Named(longer)
           /\ text # << >> /\ Discovery!IsEntry(text[1]) => longer[1] = text[1]
<1>1. Len(longer) \in Nat /\ Len(text) \in Nat /\ (text # << >> => 1 \in 1..Len(text))
    BY LenProperties, EmptySeq
<1>2. ASSUME NEW i \in Discovery!Entries(text)
      PROVE  i \in Discovery!Entries(longer) /\ longer[i] = text[i]
    <2>1. /\ i \in 1..Len(text) /\ i \in 1..Len(longer)
          /\ Discovery!IsEntry(text[i]) /\ i \in Discovery!Reached(text)
        BY <1>1 DEF Discovery!Entries, Discovery!Reached, Continues
    <2>2. \A j \in 1..i : longer[j] = text[j]
        BY <1>1, <2>1 DEF Continues
    <2>3. {j \in 1..(i - 1) : Discovery!IsEntry(longer[j])}
            = {j \in 1..(i - 1) : Discovery!IsEntry(text[j])}
        BY <2>1, <2>2
    <2>4. i \in Discovery!Reached(longer)
        BY <2>1, <2>2, <2>3 DEF Discovery!Reached
    <2> QED
        BY <2>1, <2>2, <2>4 DEF Discovery!Entries
<1>3. Discovery!Named(text) \subseteq Discovery!Named(longer)
    BY <1>2 DEF Discovery!Named
<1> QED
    BY <1>1, <1>3 DEF Continues

\* The parsers keep well-formed snapshots, never more than max_actions recent
\* actions, and pending calls that are calls.
THEOREM TypeCorrect == Spec => []TypeOK
<1>1. RecordInvariant /\ CommitInvariant /\ FoundType => TypeOK
    BY SharedRecords DEF RecordInvariant, RecordType, Record, Codex!Record, CommitInvariant,
       CommitType, FoundType, TypeOK, Codex!TypeOK
<1> QED
    BY <1>1, Invariants, Found, PTL

\* last_user_turn_at is the time of the user's own last turn, unless the Codex
\* parser has misread that turn or a warning after it; the task is the user's
\* own in any case.
THEOREM GenuineTurns == Spec => []UserTurnIsRead
<1>1. RecordInvariant => UserTurnIsRead
    BY DEF RecordInvariant
<1> QED
    BY <1>1, Invariants, PTL

\* awaiting_user_input is set once the agent has ended its turn and outlasts
\* nothing but records no parser looks at; awaiting_user_text is shown only
\* with it.
THEOREM QuestionsOpen == Spec => []QuestionIsOpen
<1>1. RecordInvariant => QuestionIsOpen
    BY DEF RecordInvariant
<1> QED
    BY <1>1, Invariants, PTL

\* The commit signal and its cue implement CommitEvidence, for any number of
\* calls and background sessions.
THEOREM EvidenceImplemented == Spec => EvidenceSpec
<1>1. Init => Codex!Evidence!Init
    BY Initially
<1>2. ASSUME CommitInvariant, CommitInvariant', RecordInvariant, RecordInvariant', [Next]_vars
      PROVE  [Codex!Evidence!Next]_(Codex!Evidence!vars)
    BY <1>2, EvidenceStep
<1> QED
    BY <1>1, <1>2, Invariants, PTL
    DEF Spec, EvidenceSpec, Codex!EvidenceSpec, Codex!Evidence!Spec

\* A directory that a transcript has told is offered it from then on, and
\* alone as long as the transcript tells no other, for any limits and however
\* its agents go on writing.
THEOREM OwnersSettled == Spec => OwnerIsSettled
<1>1. ASSUME FoundType, [Next]_vars,
             NEW f \in File, NEW cwd \in Cwd,
             lines[f] # << >>, lines'[f] # << >>,
             cwd \in Discovery!OfferedTo(f),
             Writer[f] = "claude" => cwd \in Discovery!Named(lines[f])
      PROVE  /\ cwd \in Discovery!OfferedTo(f)'
             /\ Writer[f] = "codex" \/ Discovery!Named(lines'[f]) = {cwd}
                  => Discovery!OfferedTo(f)' = {cwd}
    <2>0. Continues(lines'[f], lines[f])
        <3>0. lines[f] \in Seq(Discovery!Line(f)) /\ lines'[f] \in Seq(Discovery!Line(f))
            BY <1>1, FoundStep DEF FoundType, Discovery!TypeOK
        <3>1. CASE lines'[f] = lines[f]
            BY <3>0, <3>1, LenProperties DEF Continues
        <3>2. ASSUME NEW g \in File, NEW line \in Discovery!Line(g), Discovery!Write(g, line)
              PROVE  Continues(lines'[f], lines[f])
            <4>1. CASE f = g
                <5>1. lines'[f] = Append(lines[f], line)
                    BY <1>1, <3>2, <4>1 DEF FoundType, Discovery!TypeOK, Discovery!Write
                <5> QED
                    BY <3>0, <4>1, <5>1, AppendProperties, LenProperties DEF Continues
            <4>2. CASE f # g
                BY <1>1, <3>1, <3>2, <4>2 DEF FoundType, Discovery!TypeOK, Discovery!Write
            <4> QED
                BY <4>1, <4>2
        <3>3. ASSUME NEW g \in File, NEW line \in Discovery!Line(g), Discovery!Complete(g, line)
              PROVE  Continues(lines'[f], lines[f])
            <4>1. CASE f = g
                <5>1. lines'[f] = [lines[f] EXCEPT ![Len(lines[f])] = line]
                      /\ ~Discovery!IsEntry(lines[f][Len(lines[f])])
                    BY <1>1, <3>3, <4>1 DEF FoundType, Discovery!TypeOK, Discovery!Complete
                <5>2. Len(lines'[f]) = Len(lines[f]) /\ Len(lines[f]) \in Nat
                    BY <3>0, <5>1
                <5> QED
                    BY <3>0, <5>1, <5>2 DEF Continues
            <4>2. CASE f # g
                BY <1>1, <3>1, <3>3, <4>2 DEF FoundType, Discovery!TypeOK, Discovery!Complete
            <4> QED
                BY <4>1, <4>2
        <3>4. ASSUME NEW g \in File, Discovery!Delete(g)
              PROVE  Continues(lines'[f], lines[f])
            BY <1>1, <3>1, <3>4 DEF FoundType, Discovery!TypeOK, Discovery!Delete
        <3>5. ~Resolve
            BY <1>1 DEF Resolve, Discovery!Unwritten
        <3> QED
            BY <1>1, <3>1, <3>2, <3>3, <3>4, <3>5
            DEF Next, Find, Discovery!Next, CodexRecord, ClaudeRecord, vars
    <2>1. /\ Discovery!Named(lines[f]) \subseteq Discovery!Named(lines'[f])
          /\ Discovery!IsEntry(lines[f][1]) => lines'[f][1] = lines[f][1]
        <3>1. lines[f] \in Seq(Discovery!Line(f)) /\ lines'[f] \in Seq(Discovery!Line(f))
            BY <1>1, FoundStep DEF FoundType, Discovery!TypeOK
        <3> QED
            BY <1>1, <2>0, <3>1, StillNamed
    <2>2. CASE Writer[f] = "claude"
        BY <1>1, <2>1, <2>2
        DEF Discovery!OfferedTo, Discovery!ClaudePaths, Discovery!CodexPaths,
            Discovery!MatchesOrLacks
    <2>3. CASE Writer[f] = "codex"
        <3>1. lines[f][1] \in Discovery!Line(f)
            BY <1>1, EmptySeq, LenProperties DEF FoundType, Discovery!TypeOK
        <3>2. lines[f][1].mark = "meta" => Discovery!IsEntry(lines[f][1])
            BY <2>3, <3>1, DiscoveryConstants
            DEF Discovery!Line, Discovery!Unread, Discovery!Entry, Discovery!IsEntry,
                Discovery!ConstantsOK
        <3> QED
            BY <1>1, <2>1, <2>3, <3>2
            DEF Discovery!OfferedTo, Discovery!ClaudePaths, Discovery!CodexPaths,
                Discovery!StartsIn
    <2> QED
        BY <2>2, <2>3, DiscoveryConstants DEF Discovery!ConstantsOK
<1>2. FoundType /\ [Next]_vars => [Discovery!Settled]_lines
    BY <1>1 DEF Discovery!Settled
<1> QED
    BY <1>2, Found, PTL DEF Spec, OwnerIsSettled, Discovery!OwnerIsSettled
=============================================================================
