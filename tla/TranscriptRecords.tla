--------------------------- MODULE TranscriptRecords ---------------------------
(***************************************************************************)
(* What the two transcript parsers share: the snapshot they fill record by *)
(* record, the filter for text that a harness wrote, the window of recent  *)
(* actions, and the cues derived from a finished snapshot; and what the    *)
(* records say about whose turn it is.                                     *)
(*                                                                         *)
(* Texts are told apart by their writer only: "typed" by the user, "said"  *)
(* by the agent, or one of two things a harness records in the user's or   *)
(* the agent's name, "markup" (a wrapper such as <system-reminder>) and    *)
(* "warning" (codex.rs, internal_warning_text).                            *)
(*                                                                         *)
(* Source: src/src/parsers/mod.rs and the snapshot part of src/src/lib.rs. *)
(***************************************************************************)
EXTENDS Naturals, Sequences

CONSTANTS
    MaxActions,  \* ExtractOptions::max_actions
    Stamp,       \* time stamps; a record may repeat an older one
    Nothing,     \* an absent value
    Unknown      \* a time stamp that is missing or cannot be parsed

ASSUME RecordConstants ==
    /\ MaxActions \in Nat
    /\ Nothing \notin {"typed", "said", "markup", "warning"}
    /\ Nothing \notin Stamp \cup {Unknown}
    /\ Unknown \notin Stamp

VARIABLES
    parsed,     \* the snapshot so far
    genuine,    \* for a property only: the stamp of the user's last real turn
    misread,    \* for a property only: that turn, or a record after it, was misread
    latest      \* for a property only: what the latest record is

turnVars == <<genuine, misread, latest>>

\* The end of the agent's turn, something that the agent did and that no parser
\* looks at, or anything else.
Record == {"final", "unseen", "other"}

Text == {"typed", "said", "markup", "warning"}
Time == Stamp \cup {Unknown}

\* is_harness_markup.
HarnessMarkup(text) == text = "markup"

\* A thing the agent did, as far as cues and windows tell them apart.
Act == {"tool", "said", "thinking"}

\* The parser's part of a snapshot.
Parsed ==
    [task : Text \cup {Nothing},          \* user_task
     actions : Seq(Act),                  \* recent_actions, oldest first
     current : Act \cup {Nothing},        \* current_tool
     awaiting : BOOLEAN,                  \* awaiting_user_input
     question : Text \cup {Nothing},      \* awaiting_user_text
     userTurn : Time \cup {Nothing}]     \* last_user_turn_at

Empty ==
    [task |-> Nothing, actions |-> <<>>, current |-> Nothing,
     awaiting |-> FALSE, question |-> Nothing, userTurn |-> Nothing]

\* Fault: the window is never cut.
PushAll(actions, act) == Append(actions, act)

\* push_action: the window keeps the newest actions.
Push(actions, act) ==
    LET all == Append(actions, act)
    IN  IF Len(all) > MaxActions
        THEN SubSeq(all, Len(all) - MaxActions + 1, Len(all)) ELSE all

\* The agent did something: the window moves and it is the current tool.
Doing(before, act) ==
    [before EXCEPT !.actions = Push(@, act), !.current = act]

\* The turn is no longer the user's.
Resumed(before) == [before EXCEPT !.awaiting = FALSE, !.question = Nothing]

\* The agent has ended its turn; a wrapped text is not shown.
Asked(before, text) ==
    [before EXCEPT !.awaiting = TRUE,
                   !.question = IF HarnessMarkup(text) THEN Nothing ELSE text]

-----------------------------------------------------------------------------
(***************************************************************************)
(* Records of the user's role                                              *)
(***************************************************************************)
\* Fault: a stamp that is missing leaves the older one.
WatermarkKept(bearing, at) ==
    IF bearing /\ at # Unknown THEN at ELSE parsed.userTurn

\* last_user_turn_at: the stamp of the latest record that bears input, known
\* or not.
Watermark(bearing, at) == IF bearing THEN at ELSE parsed.userTurn

\* Ingesting a record of the user's role: the turn is the agent's again, even
\* if the record is not the user's own.
UserRecord(bearing, task, at) ==
    /\ parsed' = [Resumed(parsed) EXCEPT
                    !.userTurn = Watermark(bearing, at),
                    !.task = IF task = Nothing THEN @ ELSE task]
    /\ latest' = "other"

-----------------------------------------------------------------------------
(***************************************************************************)
(* Commit readiness and cues                                               *)
(***************************************************************************)
Signal == [edited : BOOLEAN, validated : BOOLEAN, dirtyChecked : BOOLEAN,
           commitSeen : BOOLEAN]

NoSignal == [edited |-> FALSE, validated |-> FALSE, dirtyChecked |-> FALSE,
             commitSeen |-> FALSE]

\* CommitSignal::finalize.
Candidate(signal) ==
    signal.edited /\ signal.validated /\ signal.dirtyChecked /\ ~signal.commitSeen

\* commit_signal_action_cue_kind: the next step towards a commit.
CommitCue(signal) ==
    IF Candidate(signal) THEN {"commit_ready"}
    ELSE IF ~signal.edited \/ signal.commitSeen THEN {}
    ELSE IF ~signal.validated THEN {"validation_missing_after_edit"}
    ELSE {"dirty_check_missing"}

\* action_cues_for_snapshot.
Cues(signal, awaiting) ==
    (IF awaiting THEN {"awaiting_user"} ELSE {})
        \cup (IF signal = Nothing THEN {} ELSE CommitCue(signal))

-----------------------------------------------------------------------------
(***************************************************************************)
(* Properties                                                              *)
(***************************************************************************)

\* "UTC timestamp of the latest genuine input-bearing user turn": neither does
\* a harness pass for the user, nor is the user taken for a harness.  The Codex
\* parser breaks this in two ways.
UserTurnIsGenuine == parsed.userTurn = genuine

\* Those two are all: last_user_turn_at is the time stamp of the user's own
\* last turn, unknown if that turn has none, unless the Codex parser has taken
\* a warning for a later turn or the turn for a reminder, which the next turn
\* that it reads makes good.  The task is the user's own in any case.
UserTurnIsRead ==
    /\ UserTurnIsGenuine \/ misread
    /\ parsed.task \in {"typed", Nothing}

\* A session is shown as waiting when its latest record ends the agent's turn,
\* and goes on being shown so at most through records that the parser does not
\* look at; it shows a question only then, in the agent's own words.
QuestionIsOpen ==
    /\ latest = "final" => parsed.awaiting
    /\ parsed.awaiting => latest \in {"final", "unseen"}
    /\ parsed.question # Nothing => parsed.awaiting /\ parsed.question = "said"
=============================================================================
