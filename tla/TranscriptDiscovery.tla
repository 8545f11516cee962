-------------------------- MODULE TranscriptDiscovery --------------------------
(***************************************************************************)
(* Which transcript files discovery offers to a working directory, while   *)
(* the agents write them.                                                  *)
(*                                                                         *)
(* Claude keeps the transcripts of a directory in a folder named after it, *)
(* but directories can share such a name ("/a/b" and "/a-b"), so a file is *)
(* read from its start until a line tells its directory; one that tells    *)
(* none is offered to all directories of its folder.  Codex keeps all      *)
(* transcripts together, and each tells its directory in its first line.   *)
(*                                                                         *)
(* Files are numbered in the order of their names.  Modification times are *)
(* abstracted: any Claude file offered may be the newest, and either tool  *)
(* may have the newer file.  A reading sees a file as it is at one moment. *)
(*                                                                         *)
(* Source: src/src/lib.rs, from resolve_input to the end of discovery.     *)
(***************************************************************************)
EXTENDS Naturals, Sequences, FiniteSets

CONSTANTS
    File,           \* transcript files, by the order of their names
    Writer,         \* the tool that writes a file
    Home,           \* the directory in which the session of a file began
    Cwd,            \* working directories
    Slug,           \* the name of a directory's folder
    ValidLimit,     \* DISCOVERY_VALID_JSON_SCAN_LIMIT
    PhysicalLimit,  \* DISCOVERY_PHYSICAL_LINE_SCAN_LIMIT
    InferLimit,     \* lines that infer_tool_from_file reads
    MaxLines,       \* bound: lines in all files together
    Nothing

\* What TranscriptParsing assumes of them.
ConstantsOK ==
    /\ File \subseteq Nat
    /\ Writer \in [File -> {"claude", "codex"}]
    /\ Home \in [File -> Cwd]
    /\ {ValidLimit, PhysicalLimit, InferLimit} \subseteq Nat \ {0}
    /\ Nothing \notin Cwd \cup {"claude", "codex", "meta"}

VARIABLE lines      \* the lines of each file; none if it does not exist

\* A line, by what its reading finds: no text or no JSON object, or an entry,
\* which may tell a directory and its tool.  An agent can change its directory.
Unread == [form : {"undecodable", "garbled"}, cwd : {Nothing}, mark : {Nothing}]
Entry ==
    [claude |-> [form : {"json"}, cwd : Cwd \cup {Nothing}, mark : {"claude", Nothing}],
     codex |-> [form : {"json"}, cwd : Cwd, mark : {"meta"}]
                 \cup [form : {"json"}, cwd : {Nothing}, mark : {"codex"}]]

Line(f) == Unread \cup Entry[Writer[f]]

TypeOK ==
    /\ lines \in [File -> Seq(UNION {Line(f) : f \in File})]
    /\ \A f \in File : lines[f] \in Seq(Line(f))

-----------------------------------------------------------------------------
(***************************************************************************)
(* reader_matches_or_lacks_cwd                                             *)
(***************************************************************************)

IsEntry(line) == line.form = "json"

\* The first line that cannot be decoded ends the reading, and so do both
\* limits.
Reached(text) ==
    {i \in 1..Len(text) :
        /\ i <= PhysicalLimit
        /\ \A j \in 1..i : text[j].form # "undecodable"
        /\ Cardinality({j \in 1..(i - 1) : IsEntry(text[j])}) < ValidLimit}

Entries(text) == {i \in Reached(text) : IsEntry(text[i])}

\* Every directory that is told; the code stops at the one it looks for.
Named(text) == {text[i].cwd : i \in Entries(text)} \ {Nothing}

HitPhysicalLimit(text) ==
    /\ Len(text) > PhysicalLimit
    /\ Cardinality(Reached(text)) = PhysicalLimit
    /\ Cardinality(Entries(text)) < ValidLimit

\* Fault: the physical limit is a refusal even if the directory was told.
WithinLimit(text, cwd) ==
    /\ Entries(text) # {}
    /\ Named(text) = {} \/ cwd \in Named(text)
    /\ ~HitPhysicalLimit(text)

MatchesOrLacks(text, cwd) ==
    \/ cwd \in Named(text)
    \/ Entries(text) # {} /\ Named(text) = {} /\ ~HitPhysicalLimit(text)

\* codex_file_matches_cwd.
StartsIn(text, cwd) ==
    text # <<>> /\ text[1].mark = "meta" /\ text[1].cwd = cwd

-----------------------------------------------------------------------------
(***************************************************************************)
(* Discovery                                                               *)
(***************************************************************************)

\* discover_claude_paths and discover_codex_paths, as sets.
ClaudePaths(cwd) ==
    {f \in File : /\ Writer[f] = "claude"
                  /\ Slug[Home[f]] = Slug[cwd]
                  /\ MatchesOrLacks(lines[f], cwd)}

CodexPaths(cwd) ==
    {f \in File : Writer[f] = "codex" /\ StartsIn(lines[f], cwd)}

OfferedTo(f) == {cwd \in Cwd : f \in ClaudePaths(cwd) \cup CodexPaths(cwd)}

\* Dates and names sort alike, and the latest is first.
NewestRollouts(cwd) ==
    {f \in CodexPaths(cwd) : \A g \in CodexPaths(cwd) : g <= f}

\* infer_tool_from_file: unreadable lines are passed over.
Marked(text) == {i \in 1..Len(text) : i <= InferLimit /\ text[i].mark # Nothing}

Inferred(f) ==
    {IF lines[f][i].mark = "claude" THEN "claude" ELSE "codex" :
        i \in {j \in Marked(lines[f]) : \A k \in Marked(lines[f]) : j <= k}}

\* resolve_input: the tools whose parser may come to read, and what.
Resolutions(selection, cwd) ==
    ({[file |-> f, tool |-> "claude"] : f \in ClaudePaths(cwd)}
        \cup {[file |-> f, tool |-> "codex"] : f \in NewestRollouts(cwd)})
    \cap [file : File, tool : IF selection = "auto" THEN {"claude", "codex"} ELSE {selection}]

\* An explicit path; a tool that is named with it is the right one.
InputResolutions(selection, f) ==
    [file : {f}, tool : IF selection = "auto" THEN Inferred(f)
                        ELSE {selection} \cap {Writer[f]}]

-----------------------------------------------------------------------------
Unwritten == [f \in File |-> <<>>]

Init == lines = Unwritten

Total == Cardinality(UNION {{f} \X (1..Len(lines[f])) : f \in File})

Write(f, line) ==
    /\ Total < MaxLines
    /\ lines' = [lines EXCEPT ![f] = Append(@, line)]

\* A line that was read before it was written to its end is completed.
Complete(f, line) ==
    LET last == Len(lines[f])
    IN  /\ last > 0 /\ ~IsEntry(lines[f][last])
        /\ lines' = [lines EXCEPT ![f] = [@ EXCEPT ![last] = line]]

Delete(f) ==
    /\ lines[f] # <<>>
    /\ lines' = [lines EXCEPT ![f] = <<>>]

Next ==
    \E f \in File :
        \/ \E line \in Line(f) : Write(f, line) \/ Complete(f, line)
        \/ Delete(f)

-----------------------------------------------------------------------------
(***************************************************************************)
(* Properties                                                              *)
(***************************************************************************)

\* What a step does to the owners of the files it leaves in place.
Settled ==
    \A f \in File, cwd \in Cwd :
        /\ lines[f] # <<>> /\ lines'[f] # <<>>
        /\ cwd \in OfferedTo(f)
        /\ Writer[f] = "claude" => cwd \in Named(lines[f])
        => /\ cwd \in OfferedTo(f)'
           /\ Writer[f] = "codex" \/ Named(lines'[f]) = {cwd}
                => OfferedTo(f)' = {cwd}

\* A directory that a transcript has told in time keeps it, whatever is
\* written after that, and has it alone as long as the transcript tells no
\* other.  Discovery reads the file again and again while it grows, and stops
\* at limits and at lines that it cannot read.
OwnerIsSettled == [][Settled]_lines
=============================================================================
