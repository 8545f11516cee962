--------------------------- MODULE ClaudeTranscript ----------------------------
(***************************************************************************)
(* A Claude Code transcript and its parser: each action is the recording   *)
(* of one entry and all that ClaudeParseState::ingest does with it.        *)
(*                                                                         *)
(* Entries of the user's role are turns of the user, reminders of the      *)
(* harness and results of tools; an entry of the assistant holds any of    *)
(* thinking, text and tool uses.  There is no commit signal.               *)
(*                                                                         *)
(* Source: src/src/parsers/claude.rs, src/src/parsers/mod.rs.              *)
(***************************************************************************)
EXTENDS TranscriptRecords

vars == <<parsed, turnVars>>

\* The content of an entry of the user's role: its first text and another
\* one, if it has any, and an image.
Content == [first : {"typed", "markup", Nothing},
            second : {"typed", Nothing},
            image : BOOLEAN]

GenuineText(text) == text # Nothing /\ ~HarnessMarkup(text)

\* is_input_bearing_user_turn: some text of the user's own, or an image.
InputBearing(content) ==
    GenuineText(content.first) \/ GenuineText(content.second) \/ content.image

\* update_user_task looks at the first text only.
NextTask(content) ==
    IF GenuineText(content.first) THEN content.first ELSE Nothing

\* The user types or sends an image, perhaps after a reminder of the harness.
UserTurn(content, at) ==
    /\ "typed" \in {content.first, content.second} \/ content.image
    /\ UserRecord(InputBearing(content), NextTask(content), at)
    /\ genuine' = at
    /\ UNCHANGED misread

\* A reminder, or the result of a tool, which has no text of its own.
HarnessRecord(content, at) ==
    /\ "typed" \notin {content.first, content.second} /\ ~content.image
    /\ UserRecord(InputBearing(content), NextTask(content), at)
    /\ UNCHANGED <<genuine, misread>>

\* update_awaiting_user_state: a tool use goes on, text ends the turn if that
\* is why the message stopped, and thinking alone tells nothing.
TurnAfter(text, tool, ended) ==
    IF tool THEN Resumed(parsed)
    ELSE IF text = Nothing THEN parsed
    ELSE IF ended THEN Asked(parsed, text)
    ELSE Resumed(parsed)

\* block_action: text is an action unless it is short, but no tool.
Saying(before, text, short) ==
    IF text = Nothing \/ short THEN before
    ELSE [before EXCEPT !.actions = Push(@, "said")]

AssistantMessage(text, short, tool, ended) ==
    LET said == Saying(TurnAfter(text, tool, ended), text, short)
    IN  /\ parsed' = IF tool THEN Doing(said, "tool") ELSE said
        /\ latest' = IF tool THEN "other"
                     ELSE IF text = Nothing THEN "unseen"
                     ELSE IF ended THEN "final" ELSE "other"
        /\ UNCHANGED <<genuine, misread>>

Init ==
    /\ parsed = Empty
    /\ genuine = Nothing
    /\ misread = FALSE
    /\ latest = "other"

Next ==
    \/ \E content \in Content, at \in Time :
         UserTurn(content, at) \/ HarnessRecord(content, at)
    \/ \E text \in {"said", "markup", Nothing}, short, tool, ended \in BOOLEAN :
         AssistantMessage(text, short, tool, ended)

Spec == Init /\ [][Next]_vars
=============================================================================
