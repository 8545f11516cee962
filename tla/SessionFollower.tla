---------------------------- MODULE SessionFollower ----------------------------
(***************************************************************************)
(* What a consumer of the session deltas is promised, apart from how a     *)
(* scan finds it out and from how the deltas are chosen.                   *)
(*                                                                         *)
(* Sessions open, change and close at any time.  The follower looks at all *)
(* of them at one moment and tells the consumer what it saw, all at once:  *)
(* the roster is never a mixture of two moments.  A session that the look  *)
(* did not find is shown as exited once, as it was shown last, and then    *)
(* leaves.  A stream may end; the next one starts from nothing.            *)
(***************************************************************************)
CONSTANTS
    Id,         \* sessions
    Command,    \* what a session can run
    Cwd,        \* directories
    Gone        \* no session

VARIABLES
    sessions,   \* the sessions as they are
    seen,       \* the sessions as the follower has seen and not yet told them
    stage,      \* "open", "looked" or "ended"
    roster      \* the sessions as the consumer knows them

vars == <<sessions, seen, stage, roster>>

Session == [command : Command, cwd : Cwd]

Nobody == [p \in Id |-> Gone]

Alive(p) == roster[p] # Gone /\ roster[p].state # "exited"

\* The states in which a session may be shown.  A program is always busy; what
\* the consumer does not know as alive has shown no activity yet, but an agent
\* that has just appeared counts as busy.
States(p) ==
    CASE seen[p].command = "program" -> {"busy"}
      [] seen[p].command # "program" /\ Alive(p) -> {"busy", "idle"}
      [] seen[p].command # "program" /\ ~Alive(p) ->
           IF seen[p].command = "agent" THEN {"busy"} ELSE {"idle"}

\* What the consumer may be told of a session.
Views(p) ==
    IF seen[p] # Gone
    THEN {[state |-> state, agent |-> seen[p].command = "agent", cwd |-> seen[p].cwd] :
            state \in States(p)}
    ELSE IF Alive(p) THEN {[roster[p] EXCEPT !.state = "exited"]}
    ELSE {Gone}

Init ==
    /\ sessions = Nobody
    /\ seen = Nobody
    /\ stage = "open"
    /\ roster = Nobody

\* Sessions open, close, and change what they run and where.
Become ==
    /\ UNCHANGED <<seen, stage, roster>>
    /\ sessions' \in [Id -> Session \cup {Gone}]

Look ==
    /\ stage = "open"
    /\ stage' = "looked"
    /\ seen' = sessions
    /\ UNCHANGED <<sessions, roster>>

Tell ==
    /\ stage = "looked"
    /\ roster' = [p \in Id |-> roster'[p]]
    /\ \A p \in Id : roster'[p] \in Views(p)
    /\ stage' = "open"
    /\ seen' = Nobody
    /\ UNCHANGED sessions

End ==
    /\ stage # "ended"
    /\ stage' = "ended"
    /\ seen' = Nobody
    /\ UNCHANGED <<sessions, roster>>

StartAnew ==
    /\ stage = "ended"
    /\ stage' = "open"
    /\ roster' = Nobody
    /\ UNCHANGED <<sessions, seen>>

Next ==
    \/ Become
    \/ Look
    \/ Tell
    \/ End
    \/ StartAnew

Spec == Init /\ [][Next]_vars
=============================================================================
