------------------------------- MODULE Programs --------------------------------
(***************************************************************************)
(* The two long-running programs of clawgs: any number of tmux-emit        *)
(* daemons on one notify socket, or an emit --stdio process of one client. *)
(* They share the engine and the model clients but no state, so one of the *)
(* two runs.                                                               *)
(***************************************************************************)
EXTENDS NotifySocket, StdioEngine

ASSUME ProgramConstants == EngineConstants

VARIABLE program    \* which of the two runs

TypesOK ==
    /\ program \in {"tmux-emit", "emit"}
    /\ SocketTypeOK
    /\ TypeOK

\* The program that does not run is in one of its initial states.
ProgramInit ==
    /\ program \in {"tmux-emit", "emit"}
    /\ SocketInit
    /\ Init
    /\ program = "emit" => file = Absent
    /\ program = "tmux-emit" =>
         env = [models |-> <<>>, key |-> FALSE, backend |-> Nothing, grok |-> FALSE]

TmuxEmit ==
    /\ program = "tmux-emit"
    /\ SocketNext
    /\ UNCHANGED <<program, vars>>

Emit ==
    /\ program = "emit"
    /\ Next
    /\ UNCHANGED <<program, socketVars>>

ProgramNext == TmuxEmit \/ Emit

ProgramSpec ==
    /\ ProgramInit
    /\ [][ProgramNext]_<<program, socketVars, vars>>
    /\ SocketProgress
    /\ Progress
=============================================================================
