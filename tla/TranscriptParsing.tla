--------------------------- MODULE TranscriptParsing ---------------------------
(***************************************************************************)
(* A transcript of either tool, as extract reads it: the file and its tool *)
(* are resolved once, from the command line, from the directory or from    *)
(* the first records, and the tool's parser ingests the records.  A        *)
(* snapshot may be taken after any record, since every reading starts at   *)
(* the beginning of the file.  The parser's records are those of           *)
(* CodexTranscript and ClaudeTranscript; discovery, which looks for less   *)
(* in them, has lines of its own, and forgets them.                        *)
(*                                                                         *)
(* Source: src/src/lib.rs.                                                 *)
(***************************************************************************)
EXTENDS TranscriptRecords

CONSTANTS
    Call, Session, Command,                          \* of CodexTranscript
    File, Writer, Home, Cwd, Slug,                   \* of TranscriptDiscovery
    ValidLimit, PhysicalLimit, InferLimit, MaxLines

VARIABLES
    lines,                          \* of the files that discovery reads
    tool,                           \* ResolvedInput::tool; Nothing before
    signal, pending, call, process  \* of a Codex rollout

commitVars == <<signal, pending, call, process>>
vars == <<lines, tool, parsed, turnVars, commitVars>>

Codex == INSTANCE CodexTranscript
Claude == INSTANCE ClaudeTranscript
Discovery == INSTANCE TranscriptDiscovery

ASSUME DiscoveryConstants == Discovery!ConstantsOK

\* Whatever may take the place of an absent value is none.
ASSUME CodexConstants ==
    /\ Nothing \notin Session \cup Signal \cup Codex!Running
    /\ Nothing \notin Codex!Evidence!Task \cup Codex!Evidence!Process
    /\ Nothing \notin Codex!Evidence!Kind
    /\ Command \cap {"unused", "ended"} = {}

TypeOK ==
    /\ Discovery!TypeOK
    /\ tool \in {"claude", "codex", Nothing}
    /\ Codex!TypeOK

Init ==
    /\ Discovery!Init
    /\ tool = Nothing
    /\ Codex!Init

Find ==
    /\ tool = Nothing
    /\ Discovery!Next
    /\ UNCHANGED <<tool, parsed, turnVars, commitVars>>

\* resolve_input.
Resolve ==
    /\ tool = Nothing
    /\ \E selection \in {"auto", "claude", "codex"} :
         \/ \E cwd \in Cwd : \E resolved \in Discovery!Resolutions(selection, cwd) :
                tool' = resolved.tool
         \/ \E f \in File : \E resolved \in Discovery!InputResolutions(selection, f) :
                tool' = resolved.tool
    /\ lines' = Discovery!Unwritten
    /\ UNCHANGED <<parsed, turnVars, commitVars>>

CodexRecord ==
    /\ tool = "codex"
    /\ Codex!Next
    /\ UNCHANGED <<lines, tool>>

ClaudeRecord ==
    /\ tool = "claude"
    /\ Claude!Next
    /\ UNCHANGED <<lines, tool, commitVars>>

Next == Find \/ Resolve \/ CodexRecord \/ ClaudeRecord

Spec == Init /\ [][Next]_vars

-----------------------------------------------------------------------------
\* The commit signal and its cue implement CommitEvidence.
EvidenceSpec == Codex!EvidenceSpec

\* A directory keeps the transcripts it has told for its own.
OwnerIsSettled == Discovery!OwnerIsSettled
=============================================================================
