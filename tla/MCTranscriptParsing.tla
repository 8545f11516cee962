-------------------------- MODULE MCTranscriptParsing --------------------------
(***************************************************************************)
(* TLC instances of TranscriptParsing.                                     *)
(***************************************************************************)
EXTENDS TranscriptParsing, TLC

Calls == Permutations(Call)

\* One file of Claude's, in a folder that two directories share, and two
\* rollouts.
MCWriter == <<"claude", "codex", "codex">>
MCHome == <<"/a-b", "/a-b", "/a/b">>
MCSlug == [cwd \in Cwd |-> "-a-b"]

\* Every record is checked after every history of calls, but what follows a
\* misread or unstamped turn is explored only while no call is out and nothing
\* is edited or proved: no action reads both the turns and the commit signal.
TurnsBesideCalls ==
    \/ signal = NoSignal /\ call = [c \in Call |-> Nothing]
    \/ ~misread /\ genuine # Unknown
=============================================================================
