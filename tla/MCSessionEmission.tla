-------------------------- MODULE MCSessionEmission ---------------------------
(***************************************************************************)
(* One session for TLC, with the clients that the engine has.              *)
(***************************************************************************)
EXTENDS SessionEmission, TLC

\* A stdio client that sends the fields it holds back.
StdioClient == {[echo |-> TRUE, lossy |-> FALSE]}

\* The tmux daemon, which sends none back and misses no response, and a stdio
\* client that misses some.
TmuxOrLossyClient == {[echo |-> FALSE, lossy |-> FALSE], [echo |-> TRUE, lossy |-> TRUE]}

Answers == Permutations(Prose)
=============================================================================
