-------------------------- MODULE MCTranscriptClaims --------------------------
(***************************************************************************)
(* Two panes, two directories and three transcript files for TLC.          *)
(***************************************************************************)
EXTENDS TranscriptClaims, TLC

CONSTANTS claude, codex, home, lib, old, new, other

\* Two Claude transcripts compete in home, one lives in lib; Codex has none.
MCCandidates ==
    (claude :> (home :> {old, new} @@ lib :> {other}))
        @@ (codex :> (home :> {} @@ lib :> {}))

\* Both panes run Claude.
MCAgentOf == [s \in Session |-> claude]

Mirror == Permutations(Session)
=============================================================================
