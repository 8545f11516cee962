---------------------------- MODULE CodexTranscript ----------------------------
(***************************************************************************)
(* A Codex rollout and its parser: each action is the recording of one     *)
(* entry and all that CodexParseState::ingest does with it.                *)
(*                                                                         *)
(* Calls and their outputs interleave: the agent runs commands in          *)
(* parallel, moves long ones to background sessions, polls these, and      *)
(* edits files meanwhile.  A line the reader cannot parse is skipped: the  *)
(* output of a call may then never come, or the output of an unknown call. *)
(*                                                                         *)
(* Command lines are represented by a few that the classification tells    *)
(* apart.  The pending maps are sets, since the command they hold is used  *)
(* only to look again whether it validates.  Left out: token counts,       *)
(* details of actions, lengths, raw events.                                *)
(*                                                                         *)
(* Source: src/src/parsers/codex.rs, src/src/parsers/mod.rs.               *)
(***************************************************************************)
EXTENDS TranscriptRecords

CONSTANTS
    Call,       \* call ids; one stands for all that are not pending at a time
    Session,    \* session ids of background processes, never used twice
    Command     \* command lines

VARIABLES
    signal,     \* commit_signal
    pending,    \* the four pending_* maps
    call,       \* what runs behind each call id
    process     \* what runs behind each session id

commitVars == <<signal, pending, call, process>>
vars == <<parsed, commitVars, turnVars>>

-----------------------------------------------------------------------------
Pending ==
    [validation : SUBSET Call,   \* pending_validation_commands
     sessions : SUBSET Session,  \* pending_validation_sessions
     dirtyCheck : SUBSET Call,   \* pending_dirty_check_commands
     commit : SUBSET Call]       \* pending_commit_commands

NonePending ==
    [validation |-> {}, sessions |-> {}, dirtyCheck |-> {}, commit |-> {}]

Running == [command : Command, session : Session \cup {Nothing}]

\* What a call's output says: its command ended with code 0 or another, or
\* its header is no proof of either, whatever the command itself printed.
Result == {"ok", "failed", "unframed"}

TypeOK ==
    /\ parsed \in Parsed
    /\ Len(parsed.actions) <= MaxActions
    /\ signal \in Signal
    /\ pending \in Pending
    /\ call \in [Call -> Running \cup {Nothing}]
    /\ process \in [Session -> Command \cup {"unused", "ended"}]
    /\ genuine \in Time \cup {Nothing}
    /\ misread \in BOOLEAN
    /\ latest \in Record

\* The classification of command lines.  --dry-run is no commit, and --check
\* or an old revision no look at the dirty tree.
ValidationCommand(command) == command \in {"cargo test", "make check"}
DirtyCheckCommand(command) == command \in {"git status", "git diff"}
CommitCommand(command) == command \in {"git commit"}

Successful(result) == result = "ok"

-----------------------------------------------------------------------------
(***************************************************************************)
(* User and assistant messages                                             *)
(***************************************************************************)

\* What a record of the user's role holds: its first text that is not blank,
\* another one, and an image.
Content == {content \in [first : {"typed", "markup", "warning", Nothing},
                         second : {"typed", Nothing},
                         image : BOOLEAN] :
               content.first = Nothing => content.second = Nothing}

\* user_task_text, from either kind of user record: the first text or none.
UserTaskText(content) ==
    IF HarnessMarkup(content.first) THEN Nothing ELSE content.first

\* is_input_bearing_user_turn.
InputBearing(content) == UserTaskText(content) # Nothing \/ content.image

\* update_user_task: the known warning is no task.
NextTask(content) ==
    IF content.first = "warning" THEN Nothing ELSE UserTaskText(content)

\* The user types or sends an image, perhaps after something of the harness.
\* Behind markup, what is typed is not found.
UserTurn(content, at) ==
    /\ "typed" \in {content.first, content.second} \/ content.image
    /\ UserRecord(InputBearing(content), NextTask(content), at)
    /\ genuine' = at
    /\ misread' = (HarnessMarkup(content.first) /\ ~content.image)
    /\ UNCHANGED commitVars

\* The harness records something in the user's name.  Its warning is taken for
\* the user's turn.
HarnessRecord(content, at) ==
    /\ "typed" \notin {content.first, content.second} /\ ~content.image
    /\ UserRecord(InputBearing(content), NextTask(content), at)
    /\ misread' = (misread \/ content.first = "warning")
    /\ UNCHANGED <<genuine, commitVars>>

\* assistant_turn_state and its assignments: a final answer, with or without
\* text that may be shown, or commentary.
FinalAnswer(text) ==
    /\ parsed' = Asked(parsed, text)
    /\ latest' = "final"
    /\ UNCHANGED <<commitVars, genuine, misread>>

\* Commentary, or an aborted turn.
TurnGoesOn ==
    /\ parsed' = Resumed(parsed)
    /\ latest' = "other"
    /\ UNCHANGED <<commitVars, genuine, misread>>

-----------------------------------------------------------------------------
(***************************************************************************)
(* Tool calls and their outputs                                            *)
(***************************************************************************)

\* Fault: tool calls leave a question open.
ProgressUnseen(done) ==
    /\ parsed' = done
    /\ latest' = "other"
    /\ UNCHANGED <<genuine, misread>>

\* entry_signals_agent_progress, and the window of actions.
Progress(done) ==
    /\ parsed' = Resumed(done)
    /\ latest' = "other"
    /\ UNCHANGED <<genuine, misread>>

\* Reasoning, with a summary or without.
Reasoning ==
    /\ Progress(parsed) \/ Progress(Doing(parsed, "thinking"))
    /\ UNCHANGED commitVars

\* Fault: background validations survive an edit.
SessionsSurvive(p) == [NonePending EXCEPT !.sessions = p.sessions]

\* What is pending began before the edit, and what it finds is about the old
\* bytes.
Discarded(p) == NonePending

\* A completed apply_patch.
Edit ==
    /\ Progress(Doing(parsed, "tool"))
    /\ signal' = [NoSignal EXCEPT !.edited = TRUE]
    /\ pending' = Discarded(pending)
    /\ UNCHANGED <<call, process>>

\* A function_call or custom_tool_call that is neither a command, a poll nor a
\* completed edit.
OtherCall ==
    /\ Progress(Doing(parsed, "tool"))
    /\ UNCHANGED commitVars

\* The output of a custom tool call, or an item of a type unknown to the parser,
\* such as a web search: nothing is done with it.
UnseenItem ==
    /\ latest' = "unseen"
    /\ UNCHANGED <<parsed, commitVars, genuine, misread>>

\* observe_exec_command: a command can be of several kinds at once.
Observed(c, command) ==
    [pending EXCEPT
        !.validation = IF ValidationCommand(command) THEN @ \cup {c} ELSE @,
        !.dirtyCheck = IF DirtyCheckCommand(command) THEN @ \cup {c} ELSE @,
        !.commit = IF CommitCommand(command) THEN @ \cup {c} ELSE @]

ExecCommand(c, command) ==
    /\ call[c] = Nothing
    /\ call' = [call EXCEPT ![c] = [command |-> command, session |-> Nothing]]
    /\ Progress(Doing(parsed, "tool"))
    /\ pending' = Observed(c, command)
    /\ UNCHANGED <<signal, process>>

\* carry_pending_validation_to_call: a poll of a process that may still
\* validate.
WriteStdin(c, s) ==
    /\ call[c] = Nothing
    /\ process[s] \in Command
    /\ call' = [call EXCEPT ![c] = [command |-> process[s], session |-> s]]
    /\ Progress(Doing(parsed, "tool"))
    /\ pending' = [pending EXCEPT
                     !.validation = IF s \in pending.sessions THEN @ \cup {c} ELSE @]
    /\ UNCHANGED <<signal, process>>

\* update_command_output_signals: each set forgets the call, and a success
\* counts for each set that held it.
Answered(c) ==
    [pending EXCEPT !.validation = @ \ {c}, !.dirtyCheck = @ \ {c}, !.commit = @ \ {c}]

\* The output of a call whose command has ended.  If another poll has already
\* reported the end of a process, this one finds none.
Output(c, result) ==
    LET s == call[c].session
    IN  /\ call[c] # Nothing
        /\ s # Nothing /\ process[s] = "ended" => result # "ok"
        /\ call' = [call EXCEPT ![c] = Nothing]
        /\ process' = [t \in Session |-> IF t = s THEN "ended" ELSE process[t]]
        /\ Progress(parsed)
        /\ signal' = [signal EXCEPT
             !.validated = @ \/ (c \in pending.validation /\ Successful(result)),
             !.dirtyChecked = @ \/ (c \in pending.dirtyCheck /\ Successful(result)),
             !.commitSeen = @ \/ (c \in pending.commit /\ Successful(result))]
        /\ pending' = Answered(c)

\* The output of a call whose command goes on in a session.
OutputGoesOn(c, s) ==
    /\ call[c] # Nothing
    /\ IF call[c].session = Nothing THEN process[s] = "unused"
       ELSE call[c].session = s /\ process[s] # "ended"
    /\ call' = [call EXCEPT ![c] = Nothing]
    /\ process' = [process EXCEPT ![s] = call[c].command]
    /\ Progress(parsed)
    /\ pending' = [Answered(c) EXCEPT
                     !.sessions = IF c \in pending.validation THEN @ \cup {s} ELSE @]
    /\ UNCHANGED signal

\* A function_call_output of a call that is not pending, or whose own record
\* was unreadable.
StrayOutput ==
    /\ Progress(parsed)
    /\ UNCHANGED commitVars

-----------------------------------------------------------------------------
Init ==
    /\ parsed = Empty
    /\ signal = NoSignal
    /\ pending = NonePending
    /\ call = [c \in Call |-> Nothing]
    /\ process = [s \in Session |-> "unused"]
    /\ genuine = Nothing
    /\ misread = FALSE
    /\ latest = "other"

Messages ==
    \/ \E content \in Content, at \in Time :
         UserTurn(content, at) \/ HarnessRecord(content, at)
    \/ \E text \in {"said", "markup", Nothing} : FinalAnswer(text)
    \/ TurnGoesOn

Work ==
    \/ Reasoning
    \/ Edit
    \/ OtherCall
    \/ UnseenItem
    \/ StrayOutput
    \/ \E c \in Call :
        \/ \E command \in Command : ExecCommand(c, command)
        \/ \E s \in Session : WriteStdin(c, s) \/ OutputGoesOn(c, s)
        \/ \E result \in Result : Output(c, result)

Next == Messages \/ Work

Spec == Init /\ [][Next]_vars

-----------------------------------------------------------------------------
(***************************************************************************)
(* Properties                                                              *)
(***************************************************************************)

\* What a command is evidence for; what a poll finds counts if it validates.
EvidenceKind(command, session) ==
    IF ValidationCommand(command) THEN "validation"
    ELSE IF session # Nothing THEN Nothing
    ELSE IF DirtyCheckCommand(command) THEN "dirtyCheck"
    ELSE IF CommitCommand(command) THEN "commit"
    ELSE Nothing

\* A call that has not been forgotten is fresh.
RunningEvidence(c) ==
    LET kind == EvidenceKind(call[c].command, call[c].session)
    IN  IF call[c] = Nothing THEN Nothing
        ELSE IF kind = Nothing THEN Nothing
        ELSE [kind |-> kind, fresh |-> c \in pending[kind], session |-> call[c].session]

BackgroundEvidence(s) ==
    IF process[s] \in Command /\ ValidationCommand(process[s])
    THEN [fresh |-> s \in pending.sessions] ELSE Nothing

Proved ==
    (IF signal.validated THEN {"validation"} ELSE {})
        \cup (IF signal.dirtyChecked THEN {"dirtyCheck"} ELSE {})
        \cup (IF signal.commitSeen THEN {"commit"} ELSE {})

\* The commit signal implements CommitEvidence: forgetting pending calls is
\* as good as remembering for each command whether an edit came after its
\* start, however calls, outputs, polls and edits interleave; and the cue is
\* the next step that is really missing.
Evidence == INSTANCE CommitEvidence WITH
    running <- [c \in Call |-> RunningEvidence(c)],
    background <- [s \in Session |-> BackgroundEvidence(s)],
    edited <- signal.edited,
    proved <- Proved,
    cue <- Cues(signal, parsed.awaiting) \ {"awaiting_user"}

EvidenceSpec == Evidence!Spec
=============================================================================
