---------------------------- MODULE MCRunCadence ------------------------------
(***************************************************************************)
(* TLC instances of RunCadence: the cfg files choose small cadences.       *)
(***************************************************************************)
EXTENDS RunCadence
=============================================================================
