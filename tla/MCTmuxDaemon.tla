---------------------------- MODULE MCTmuxDaemon ------------------------------
(***************************************************************************)
(* TLC instances of TmuxDaemon: the cfg files choose panes and texts.      *)
(***************************************************************************)
EXTENDS TmuxDaemon, TLC

Panes == Permutations(Id)
=============================================================================
