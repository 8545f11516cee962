---------------------------- MODULE CommitEvidence -----------------------------
(***************************************************************************)
(* What commit readiness means, apart from how a parser finds it out.      *)
(*                                                                         *)
(* A command that bears evidence runs from its start to its end, and is    *)
(* fresh as long as no edit has happened since its start.  Evidence is     *)
(* what a fresh command has proved by ending well; an edit discards all    *)
(* of it.  A validation may go on in the background as a process, which is *)
(* polled until it ends.                                                   *)
(***************************************************************************)
CONSTANTS
    Call,       \* commands and polls
    Session,    \* background processes
    Nothing     \* no command, no process

VARIABLES
    running,    \* the evidence-bearing command or poll behind each call
    background, \* the evidence-bearing process behind each session
    edited,     \* an edit has happened
    proved,     \* what has been proved since the last edit
    cue         \* the next step towards a commit that the user is shown

vars == <<running, background, edited, proved, cue>>

Kind == {"validation", "dirtyCheck", "commit"}
Task == [kind : Kind, fresh : BOOLEAN, session : Session \cup {Nothing}]
Process == [fresh : BOOLEAN]

\* Nothing to do without an edit or after a commit; else the first that is
\* missing of a validation, a look at the tree, and the commit itself.
NextStep(hasEdit, evidence) ==
    CASE ~hasEdit \/ "commit" \in evidence -> {}
      [] hasEdit /\ "commit" \notin evidence ->
           IF "validation" \notin evidence THEN {"validation_missing_after_edit"}
           ELSE IF "dirtyCheck" \notin evidence THEN {"dirty_check_missing"}
           ELSE {"commit_ready"}

Init ==
    /\ running = [c \in Call |-> Nothing]
    /\ background = [s \in Session |-> Nothing]
    /\ edited = FALSE
    /\ proved = {}
    /\ cue = {}

\* Whatever runs or has been proved is about the bytes before the edit.
Edit ==
    /\ edited' = TRUE
    /\ proved' = {}
    /\ cue' = NextStep(TRUE, {})
    /\ running' = [c \in Call |->
                     IF running[c] = Nothing THEN Nothing
                     ELSE [kind |-> running[c].kind, fresh |-> FALSE,
                           session |-> running[c].session]]
    /\ background' = [s \in Session |->
                        IF background[s] = Nothing THEN Nothing ELSE [fresh |-> FALSE]]

Begin(c, kind) ==
    /\ running[c] = Nothing
    /\ running' = [running EXCEPT ![c] =
                     [kind |-> kind, fresh |-> TRUE, session |-> Nothing]]
    /\ UNCHANGED <<background, edited, proved, cue>>

Poll(c, s) ==
    /\ running[c] = Nothing
    /\ background[s] # Nothing
    /\ running' = [running EXCEPT ![c] =
                     [kind |-> "validation", fresh |-> background[s].fresh, session |-> s]]
    /\ UNCHANGED <<background, edited, proved, cue>>

\* A call ends and leaves its process running.
GoOn(c, s) ==
    /\ running[c] # Nothing
    /\ running[c].kind = "validation"
    /\ running[c].session = Nothing => background[s] = Nothing
    /\ running[c].session # Nothing => running[c].session = s
    /\ background' = [background EXCEPT ![s] = [fresh |-> running[c].fresh]]
    /\ running' = [running EXCEPT ![c] = Nothing]
    /\ UNCHANGED <<edited, proved, cue>>

\* A call ends, well or not, and the process it polled with it.  A command
\* that is neither fresh nor successful proves nothing.
End(c, well) ==
    /\ running[c] # Nothing
    /\ running' = [running EXCEPT ![c] = Nothing]
    /\ background' = [s \in Session |->
                        IF s = running[c].session THEN Nothing ELSE background[s]]
    /\ proved' = IF well /\ running[c].fresh
                 THEN proved \cup {running[c].kind} ELSE proved
    /\ cue' = NextStep(edited, proved')
    /\ UNCHANGED edited

\* A call that begins or ends changes what runs behind it, which is told first
\* since it is quickly refuted.
Next ==
    \/ Edit
    \/ \E c \in Call :
        /\ running'[c] # running[c]
        /\ \/ \E kind \in Kind : Begin(c, kind)
           \/ \E s \in Session : Poll(c, s) \/ GoOn(c, s)
           \/ \E well \in BOOLEAN : End(c, well)

Spec == Init /\ [][Next]_vars
=============================================================================
