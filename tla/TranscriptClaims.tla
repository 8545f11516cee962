--------------------------- MODULE TranscriptClaims ---------------------------
(***************************************************************************)
(* Which transcript file each session of the emit engine is read from.     *)
(*                                                                         *)
(* The engine pins a discovered JSONL file to a session (its claim) and    *)
(* keeps reading that file until the session's working directory changes   *)
(* or the file can no longer be read.  Two sessions with the same tool and *)
(* directory are ambiguous: neither may adopt a file while the other is    *)
(* there.  A sync visits the sessions of its request one after another;    *)
(* the agents create, damage and delete transcript files at any moment,    *)
(* also between two sessions of one sync.                                  *)
(*                                                                         *)
(* Source: src/src/emit/engine.rs, the claim half of sync,                 *)
(* process_session and carry_forward_sessions.                             *)
(***************************************************************************)
EXTENDS Naturals, FiniteSets

CONSTANTS
    Session,      \* session ids a request can carry
    Agent,        \* the agent tools with transcripts (Claude, Codex)
    Cwd,          \* working directories
    File,         \* transcript files the agents may write
    Candidates,   \* Candidates[tool][cwd]: the files discovery finds there
    AgentOf,      \* the agent that runs in a session
    ToolSwitch,   \* TRUE if a session may be seen with another agent than that
    None          \* no session, no tool, no file, no directory

ASSUME ClaimConstants ==
    /\ None \notin Agent \cup Cwd \cup File
    /\ Candidates \in [Agent -> [Cwd -> SUBSET File]]
    /\ AgentOf \in [Session -> Agent]
    /\ ToolSwitch \in BOOLEAN

VARIABLES
    disk,         \* the state of each transcript file
    seen,         \* the sessions of the request of the current or last sync
    pending,      \* the sessions of that request still to be visited
    claim,        \* claimed_jsonl_path of each session's runtime state
    claimedCwd    \* claimed_cwd of each session's runtime state

vars == <<disk, seen, pending, claim, claimedCwd>>

FileState == {"absent", "unreadable", "readable"}
Observed == [tool : Agent \cup {None}, cwd : Cwd, exited : BOOLEAN]
Request == [Session -> Observed \cup {None}]

TypeOK ==
    /\ disk \in [File -> FileState]
    /\ seen \in Request
    /\ pending \in SUBSET Session
    /\ \A s \in pending : seen[s] # None
    /\ claim \in [Session -> File \cup {None}]
    /\ claimedCwd \in [Session -> Cwd \cup {None}]
    /\ \A s \in Session : seen[s] = None => claim[s] = None /\ claimedCwd[s] = None

-----------------------------------------------------------------------------
Present(request) == {s \in Session : request[s] # None}
Live(s) == seen[s] # None /\ ~seen[s].exited

\* Two sessions of a request compete for one discovery key (tool, cwd).  The
\* engine counts the exited sessions of the request too.
SameGroup(s, t) ==
    /\ seen[s].tool # None
    /\ seen[s].tool = seen[t].tool
    /\ seen[s].cwd = seen[t].cwd

\* Fault: a competitor that was visited already is forgotten.
AmbiguousWithPending(s) == \E t \in pending \ {s} : SameGroup(s, t)

Ambiguous(s) == \E t \in Present(seen) \ {s} : SameGroup(s, t)

\* The claim that survives the directory check made before the lookup.
Moved(s) == claimedCwd[s] # None /\ claimedCwd[s] # seen[s].cwd

\* Fault: the directory check is missing.
CurrentClaimAnywhere(s) == claim[s]

\* Fault: a session gives its claim up as soon as it has a competitor.
CurrentClaimWhileAlone(s) == IF Moved(s) \/ Ambiguous(s) THEN None ELSE claim[s]

CurrentClaim(s) == IF Moved(s) THEN None ELSE claim[s]
CurrentCwd(s) == IF Moved(s) THEN None ELSE claimedCwd[s]

Readable(f) == f # None /\ disk[f] = "readable"
Discovered(s) ==
    {f \in Candidates[seen[s].tool][seen[s].cwd] : disk[f] # "absent"}

\* Fault: the state of a dropped session stays.
RetainedForever(request, held) == [s \in Session |-> held[s]]

\* The runtime state of the sessions a request no longer carries is dropped.
Retained(request, held) ==
    [s \in Session |-> IF request[s] = None THEN None ELSE held[s]]

\* What a client may send next.  A pane is only ever seen with its own agent
\* (or none) unless ToolSwitch, and a session reported as exited is reported
\* as exited until the client drops it.
MayFollow(request) ==
    \A s \in Present(request) :
        /\ ToolSwitch \/ request[s].tool \in {AgentOf[s], None}
        /\ seen[s] # None /\ seen[s].exited => request[s].exited

-----------------------------------------------------------------------------
Init ==
    /\ disk = [f \in File |-> "absent"]
    /\ seen = [s \in Session |-> None]
    /\ pending = {}
    /\ claim = [s \in Session |-> None]
    /\ claimedCwd = [s \in Session |-> None]

\* A request arrives.  Its sessions are visited unless emission is disabled or the
\* backend client cannot be constructed.
BeginSync(request, visits) ==
    /\ pending = {}
    /\ MayFollow(request)
    /\ seen' = request
    /\ pending' = IF visits THEN Present(request) ELSE {}
    /\ claim' = Retained(request, claim)
    /\ claimedCwd' = Retained(request, claimedCwd)
    /\ UNCHANGED disk

Visit(s, path, cwd) ==
    /\ pending' = pending \ {s}
    /\ claim' = [claim EXCEPT ![s] = path]
    /\ claimedCwd' = [claimedCwd EXCEPT ![s] = cwd]
    /\ UNCHANGED <<disk, seen>>

\* An exited session is handled before any claim is looked at.
SkipExited(s) ==
    /\ seen[s].exited
    /\ pending' = pending \ {s}
    /\ UNCHANGED <<disk, seen, claim, claimedCwd>>

\* The claimed file still exists and parses: it stays the session's file.
KeepClaim(s) ==
    /\ Live(s)
    /\ seen[s].tool # None
    /\ Readable(CurrentClaim(s))
    /\ Visit(s, CurrentClaim(s), seen[s].cwd)

\* Without a usable claim a session alone in its group takes the newest file
\* discovery finds; modification times are abstracted to "one of them".  The
\* path is kept even if the file turns out to be unreadable after that.
AdoptNewest(s) ==
    /\ Live(s)
    /\ seen[s].tool # None
    /\ ~Readable(CurrentClaim(s))
    /\ ~Ambiguous(s)
    /\ \E f \in Discovered(s) : Visit(s, f, seen[s].cwd)

\* The session runs no agent with transcripts.
ReadNoTranscript(s) ==
    /\ Live(s)
    /\ seen[s].tool = None
    /\ Visit(s, None, CurrentCwd(s))

\* No usable claim, and a competitor or nothing to discover: a file that
\* cannot be read may be found, or passed over.
DropClaim(s) ==
    /\ Live(s)
    /\ seen[s].tool # None
    /\ ~Readable(CurrentClaim(s))
    /\ Ambiguous(s) \/ \A f \in Discovered(s) : ~Readable(f)
    /\ Visit(s, None, CurrentCwd(s))

\* The agents' side: a file is written, damaged or deleted at any time.
FileChanges(f, state) ==
    /\ disk[f] # state
    /\ disk' = [disk EXCEPT ![f] = state]
    /\ UNCHANGED <<seen, pending, claim, claimedCwd>>

Next ==
    \/ \E request \in Request, visits \in BOOLEAN : BeginSync(request, visits)
    \/ \E s \in pending : SkipExited(s)
    \/ \E s \in pending : KeepClaim(s)
    \/ \E s \in pending : AdoptNewest(s)
    \/ \E s \in pending : ReadNoTranscript(s)
    \/ \E s \in pending : DropClaim(s)
    \/ \E f \in File, state \in FileState : FileChanges(f, state)

Spec == Init /\ [][Next]_vars

-----------------------------------------------------------------------------
(***************************************************************************)
(* Properties                                                              *)
(***************************************************************************)

\* Between syncs no two live sessions read the same transcript file: the
\* engine "avoids claiming a single transcript for more than one live
\* session" although claims are made one session at a time, outlive the
\* request that made them, and are not revisited by a disabled sync.
ClaimIsExclusive ==
    pending = {} =>
        \A s, t \in Session :
            Live(s) /\ Live(t) /\ s # t /\ claim[s] # None => claim[s] # claim[t]

\* Why that is so, also in the middle of a sync.  A claim is a file of the
\* session's own tool and of the directory it was made in; a live session
\* that this sync has visited holds its claim for the directory it is in; and
\* of two live sessions with one file, one has left the directory or the tool
\* and is still to be visited, where it loses the claim.
Stale(s) == seen[s].tool = None \/ Moved(s)

ClaimInvariant ==
    /\ \A s \in Session : seen[s] # None => seen[s].tool \in {AgentOf[s], None}
    /\ \A s \in Session : claim[s] # None =>
            claimedCwd[s] \in Cwd /\ claim[s] \in Candidates[AgentOf[s]][claimedCwd[s]]
    /\ \A s \in Session \ pending :
            pending # {} /\ Live(s) /\ claim[s] # None => ~Stale(s)
    /\ \A s, t \in Session :
            Live(s) /\ Live(t) /\ s # t /\ claim[s] # None /\ claim[s] = claim[t] =>
                (s \in pending /\ Stale(s)) \/ (t \in pending /\ Stale(t))

\* Discovery offers a file for one tool and one directory only.
DisjointCandidates ==
    \A a, b \in Agent, c, d \in Cwd :
        Candidates[a][c] \cap Candidates[b][d] # {} => a = b /\ c = d

\* The file a visit leaves with a live session is one that discovery offers
\* for the tool and directory the session has now, however old the claim is
\* and whatever the session did while emission was disabled.
ClaimFollowsDirectory ==
    [][\A s \in Session :
        s \in pending /\ s \notin pending' /\ Live(s) /\ claim'[s] # None =>
            claim'[s] \in Candidates[seen[s].tool][seen[s].cwd]]_vars

\* A session never trades a readable transcript for another one while it
\* stays where it is with its tool: a newer file in the same directory, or a
\* second session there, does not take its history away.
ClaimIsSticky ==
    [][\A s \in Session :
        claim[s] # None /\ claim'[s] # claim[s] =>
            \/ seen'[s] = None
            \/ Moved(s)
            \/ seen[s].tool = None
            \/ ~Readable(claim[s])]_vars
=============================================================================
