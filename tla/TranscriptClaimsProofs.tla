------------------------ MODULE TranscriptClaimsProofs ------------------------
(***************************************************************************)
(* Proofs about TranscriptClaims for every number of sessions, tools,      *)
(* directories and files.                                                  *)
(***************************************************************************)
EXTENDS TranscriptClaims, TLAPS

LEMMA InitTypeOK == Init => TypeOK
  BY ClaimConstants DEF Init, TypeOK, FileState, Request

\* A visit that leaves a session with a file (or none) and a directory (or
\* none) keeps the types.
LEMMA VisitTypeOK ==
  ASSUME TypeOK, NEW s \in pending,
         NEW path \in File \cup {None}, NEW cwd \in Cwd \cup {None},
         Visit(s, path, cwd)
  PROVE  TypeOK'
  BY DEF TypeOK, Visit

LEMMA NextTypeOK == TypeOK /\ [Next]_vars => TypeOK'
<1> SUFFICES ASSUME TypeOK, [Next]_vars PROVE TypeOK'
  OBVIOUS
<1> USE ClaimConstants
<1>1. ASSUME NEW request \in Request, NEW visits \in BOOLEAN,
             BeginSync(request, visits)
      PROVE  TypeOK'
  <2>1. pending' \in SUBSET Session /\ \A s \in pending' : seen'[s] # None
    BY <1>1 DEF BeginSync, Present
  <2>2. /\ claim' \in [Session -> File \cup {None}]
        /\ claimedCwd' \in [Session -> Cwd \cup {None}]
        /\ \A s \in Session :
              seen'[s] = None => claim'[s] = None /\ claimedCwd'[s] = None
    BY <1>1 DEF TypeOK, BeginSync, Retained
  <2>3. QED
    BY <1>1, <2>1, <2>2 DEF TypeOK, BeginSync
<1>2. ASSUME NEW s \in pending PROVE SkipExited(s) => TypeOK'
  BY DEF TypeOK, SkipExited
<1>3. ASSUME NEW s \in pending, KeepClaim(s) PROVE TypeOK'
  <2>1. s \in Session /\ seen[s] \in Observed
    BY DEF TypeOK, Request
  <2>2. CurrentClaim(s) \in File \cup {None} /\ seen[s].cwd \in Cwd
    BY <2>1 DEF TypeOK, CurrentClaim, Observed
  <2>3. QED
    BY <1>3, <2>2, VisitTypeOK DEF KeepClaim
<1>4. ASSUME NEW s \in pending, AdoptNewest(s) PROVE TypeOK'
  <2>1. s \in Session /\ seen[s] \in Observed
    BY DEF TypeOK, Request
  <2>2. seen[s].cwd \in Cwd /\ Discovered(s) \subseteq File
    BY <1>4, <2>1 DEF AdoptNewest, Discovered, Observed
  <2>3. QED
    BY <1>4, <2>2, VisitTypeOK DEF AdoptNewest
<1>5. ASSUME NEW s \in pending, ReadNoTranscript(s) \/ DropClaim(s) PROVE TypeOK'
  <2>1. CurrentCwd(s) \in Cwd \cup {None}
    BY DEF TypeOK, CurrentCwd
  <2>2. QED
    BY <1>5, <2>1, VisitTypeOK DEF ReadNoTranscript, DropClaim
<1>6. ASSUME NEW f \in File, NEW state \in FileState, FileChanges(f, state)
      PROVE  TypeOK'
  BY <1>6 DEF TypeOK, FileChanges
<1>7. CASE UNCHANGED vars
  BY <1>7 DEF TypeOK, vars
<1>8. QED
  BY <1>1, <1>2, <1>3, <1>4, <1>5, <1>6, <1>7 DEF Next

\* Claims and directories keep their types, a sync only visits sessions of
\* its request, and a session the request leaves out holds no claim.
THEOREM TypeCorrect == Spec => []TypeOK
  BY InitTypeOK, NextTypeOK, PTL DEF Spec

-----------------------------------------------------------------------------
(***************************************************************************)
(* Exclusive claims, for panes that keep their agent and a discovery that  *)
(* offers no file twice.                                                   *)
(***************************************************************************)

LEMMA InitClaimInvariant == Init => ClaimInvariant
  BY DEF Init, ClaimInvariant, Live

\* A new request starts with the claims of the sessions it keeps; nobody has
\* been visited yet, or nobody will be.
LEMMA BeginSyncClaimInvariant ==
  ASSUME ~ToolSwitch, TypeOK, ClaimInvariant,
         NEW request \in Request, NEW visits \in BOOLEAN,
         BeginSync(request, visits)
  PROVE  ClaimInvariant'
<1>1. ASSUME NEW s \in Session, seen'[s] # None
      PROVE  seen'[s].tool \in {AgentOf[s], None}
  BY <1>1 DEF BeginSync, MayFollow, Present
<1>2. ASSUME NEW s \in Session, claim'[s] # None
      PROVE  /\ claim'[s] = claim[s]
             /\ claimedCwd'[s] = claimedCwd[s]
             /\ request[s] # None
  BY <1>2 DEF BeginSync, Retained
<1>3. ASSUME NEW s \in Session, Live(s)', claim'[s] # None PROVE Live(s)
  <2>1. seen[s] # None /\ seen'[s] = request[s]
    BY <1>2, <1>3 DEF TypeOK, BeginSync
  <2>2. seen[s].exited => request[s].exited
    BY <1>2, <1>3, <2>1 DEF BeginSync, MayFollow, Present
  <2>3. QED
    BY <1>3, <2>1, <2>2 DEF Live
<1>4. ASSUME NEW s \in Session \ pending', pending' # {}, Live(s)' PROVE FALSE
  BY <1>4 DEF BeginSync, Present, Live
<1>5. ASSUME NEW s \in Session, NEW t \in Session, Live(s)', Live(t)', s # t,
             claim'[s] # None, claim'[s] = claim'[t]
      PROVE  FALSE
  BY <1>2, <1>3, <1>5 DEF ClaimInvariant, BeginSync
<1>6. QED
  BY <1>1, <1>2, <1>4, <1>5 DEF ClaimInvariant

\* A visit that leaves a live session without a file.
LEMMA DropVisitClaimInvariant ==
  ASSUME TypeOK, ClaimInvariant, NEW s \in pending, NEW cwd,
         Visit(s, None, cwd)
  PROVE  ClaimInvariant'
<1>1. s \in Session /\ claim'[s] = None /\ pending' = pending \ {s}
  BY DEF TypeOK, Visit
<1>2. ASSUME NEW t \in Session, t # s
      PROVE  /\ claim'[t] = claim[t] /\ (Stale(t)' <=> Stale(t))
             /\ claimedCwd'[t] = claimedCwd[t]
             /\ (t \in pending' <=> t \in pending)
  BY <1>2 DEF TypeOK, Visit, Stale, Moved
<1>3. seen' = seen /\ \A t : Live(t)' <=> Live(t)
  BY DEF Visit, Live
<1>4. QED
  BY <1>1, <1>2, <1>3 DEF ClaimInvariant

\* A visit that leaves a session of a tool with a file of the directory it is
\* in, provided that a rival with the same file is stale and still pending.
LEMMA FileVisitClaimInvariant ==
  ASSUME TypeOK, ClaimInvariant, NEW s \in pending, NEW f \in File,
         Live(s), seen[s].tool # None,
         f \in Candidates[seen[s].tool][seen[s].cwd],
         \A t \in Session : Live(t) /\ s # t /\ claim[t] = f => t \in pending /\ Stale(t),
         Visit(s, f, seen[s].cwd)
  PROVE  ClaimInvariant'
<1>1. /\ s \in Session
      /\ seen[s].cwd \in Cwd
      /\ seen[s].tool = AgentOf[s]
      /\ f # None
      /\ seen[s].cwd # None
  BY ClaimConstants DEF TypeOK, Request, Observed, Live, ClaimInvariant
<1>2. /\ claim'[s] = f
      /\ claimedCwd'[s] = seen[s].cwd
      /\ pending' = pending \ {s}
      /\ ~Stale(s)'
  BY <1>1 DEF TypeOK, Visit, Stale, Moved
<1>3. ASSUME NEW t \in Session, t # s
      PROVE  /\ claim'[t] = claim[t] /\ (Stale(t)' <=> Stale(t))
             /\ claimedCwd'[t] = claimedCwd[t]
             /\ (t \in pending' <=> t \in pending)
  BY <1>3 DEF TypeOK, Visit, Stale, Moved
<1>4. seen' = seen /\ \A t : Live(t)' <=> Live(t)
  BY DEF Visit, Live
<1>5. ASSUME NEW t \in Session, NEW u \in Session, Live(t)', Live(u)', t # u,
             claim'[t] # None, claim'[t] = claim'[u]
      PROVE  (t \in pending' /\ Stale(t)') \/ (u \in pending' /\ Stale(u)')
  <2>1. CASE t = s
    BY <1>2, <1>3, <1>4, <1>5, <2>1
  <2>2. CASE u = s
    BY <1>2, <1>3, <1>4, <1>5, <2>2
  <2>3. CASE t # s /\ u # s
    BY <1>3, <1>4, <1>5, <2>3 DEF ClaimInvariant
  <2>4. QED
    BY <2>1, <2>2, <2>3
<1>6. ASSUME NEW t \in Session \ pending', pending' # {}, Live(t)', claim'[t] # None
      PROVE  ~Stale(t)'
  BY <1>1, <1>2, <1>3, <1>4, <1>6 DEF ClaimInvariant
<1>7. ASSUME NEW t \in Session, claim'[t] # None
      PROVE  claimedCwd'[t] \in Cwd /\ claim'[t] \in Candidates[AgentOf[t]][claimedCwd'[t]]
  BY <1>1, <1>2, <1>3, <1>7 DEF ClaimInvariant
<1>8. QED
  BY <1>4, <1>5, <1>6, <1>7 DEF ClaimInvariant

LEMMA KeepClaimClaimInvariant ==
  ASSUME TypeOK, ClaimInvariant, NEW s \in pending, KeepClaim(s)
  PROVE  ClaimInvariant'
<1>1. /\ s \in Session
      /\ claim[s] # None
      /\ CurrentClaim(s) = claim[s]
      /\ ~Moved(s)
      /\ Live(s) /\ seen[s].tool # None
      /\ Visit(s, claim[s], seen[s].cwd)
  BY DEF TypeOK, KeepClaim, Readable, CurrentClaim
<1>2. claim[s] \in File
  BY <1>1 DEF TypeOK
<1>3. claimedCwd[s] \in Cwd /\ seen[s].tool = AgentOf[s]
  BY <1>1 DEF ClaimInvariant, Live
<1>4. claimedCwd[s] = seen[s].cwd
  BY <1>1, <1>3, ClaimConstants DEF Moved
<1>5. claim[s] \in Candidates[seen[s].tool][seen[s].cwd]
  BY <1>1, <1>3, <1>4 DEF ClaimInvariant
<1>6. \A t \in Session : Live(t) /\ s # t /\ claim[t] = claim[s] => t \in pending /\ Stale(t)
  BY <1>1 DEF ClaimInvariant, Stale
<1>7. QED
  BY <1>1, <1>2, <1>5, <1>6, FileVisitClaimInvariant

LEMMA AdoptNewestClaimInvariant ==
  ASSUME DisjointCandidates, TypeOK, ClaimInvariant, NEW s \in pending, AdoptNewest(s)
  PROVE  ClaimInvariant'
<1>1. PICK f \in Discovered(s) : Visit(s, f, seen[s].cwd)
  BY DEF AdoptNewest
<1>2. /\ s \in Session /\ Live(s)
      /\ seen[s] # None
      /\ seen[s].tool \in Agent
      /\ seen[s].tool = AgentOf[s]
      /\ seen[s].cwd \in Cwd
      /\ ~Ambiguous(s)
  BY DEF AdoptNewest, Live, TypeOK, Request, Observed, ClaimInvariant
<1>3. f \in Candidates[seen[s].tool][seen[s].cwd] /\ f \in File
  BY <1>1, <1>2, ClaimConstants DEF Discovered
<1>4. ASSUME NEW t \in Session, Live(t), s # t, claim[t] = f
      PROVE  t \in pending /\ Stale(t)
  <2>1. claim[t] # None /\ seen[t] # None
    BY <1>3, <1>4, ClaimConstants DEF Live
  <2>2. /\ AgentOf[t] \in Agent /\ claimedCwd[t] \in Cwd
        /\ f \in Candidates[AgentOf[t]][claimedCwd[t]]
    BY <1>4, <2>1, ClaimConstants DEF ClaimInvariant
  <2>3. AgentOf[t] = seen[s].tool /\ claimedCwd[t] = seen[s].cwd
    BY <1>2, <1>3, <2>2 DEF DisjointCandidates
  <2>4. seen[t].tool \in {AgentOf[t], None}
    BY <2>1 DEF ClaimInvariant
  <2>5. ~SameGroup(s, t)
    BY <1>2, <1>4, <2>1 DEF Ambiguous, Present
  <2>6. Stale(t)
    BY <1>2, <2>3, <2>4, <2>5, ClaimConstants DEF Stale, Moved, SameGroup
  <2>7. QED
    BY <1>4, <2>1, <2>6 DEF ClaimInvariant
<1>5. QED
  BY <1>1, <1>2, <1>3, <1>4, ClaimConstants, FileVisitClaimInvariant

LEMMA NextClaimInvariant ==
  ASSUME ~ToolSwitch, DisjointCandidates, TypeOK, ClaimInvariant, [Next]_vars
  PROVE  ClaimInvariant'
<1>1. ASSUME NEW s \in pending, SkipExited(s) PROVE ClaimInvariant'
  <2>1. /\ ~Live(s) /\ pending' = pending \ {s}
        /\ seen' = seen /\ claim' = claim /\ claimedCwd' = claimedCwd
    BY <1>1 DEF SkipExited, Live
  <2>2. \A t : (Live(t)' <=> Live(t)) /\ (Stale(t)' <=> Stale(t))
    BY <2>1 DEF Live, Stale, Moved
  <2>3. QED
    BY <2>1, <2>2 DEF ClaimInvariant
<1>2. ASSUME NEW s \in pending, ReadNoTranscript(s) \/ DropClaim(s)
      PROVE  ClaimInvariant'
  BY <1>2, DropVisitClaimInvariant DEF ReadNoTranscript, DropClaim
<1>3. ASSUME UNCHANGED <<seen, pending, claim, claimedCwd>> PROVE ClaimInvariant'
  BY <1>3 DEF ClaimInvariant, Live, Stale, Moved
<1>4. ASSUME NEW f \in File, NEW state \in FileState, FileChanges(f, state)
      PROVE  ClaimInvariant'
  BY <1>3, <1>4 DEF FileChanges
<1>5. CASE UNCHANGED vars
  BY <1>3, <1>5 DEF vars
<1>6. QED
  BY <1>1, <1>2, <1>4, <1>5, BeginSyncClaimInvariant, KeepClaimClaimInvariant,
     AdoptNewestClaimInvariant DEF Next

\* The claims of a sync in progress are as ClaimInvariant describes them.
THEOREM ClaimInvariantHolds ==
  ASSUME ~ToolSwitch, DisjointCandidates
  PROVE  Spec => []ClaimInvariant
<1>1. TypeOK /\ ClaimInvariant /\ [Next]_vars => ClaimInvariant'
  BY NextClaimInvariant
<1>2. QED
  BY <1>1, InitClaimInvariant, TypeCorrect, PTL DEF Spec

\* Between syncs no two live sessions read the same transcript, however many
\* sessions share a directory and whatever the requests and the files do in
\* the meantime.
THEOREM ClaimsAreExclusive ==
  ASSUME ~ToolSwitch, DisjointCandidates
  PROVE  Spec => []ClaimIsExclusive
<1>1. ClaimInvariant => ClaimIsExclusive
  BY DEF ClaimInvariant, ClaimIsExclusive
<1>2. QED
  BY <1>1, ClaimInvariantHolds, PTL

\* The file a visit leaves with a live session belongs to the tool and the
\* directory the session has now.
THEOREM ClaimsFollowDirectory ==
  ASSUME ~ToolSwitch, DisjointCandidates
  PROVE  Spec => ClaimFollowsDirectory
<1>1. ASSUME TypeOK, ClaimInvariant, [Next]_vars,
             NEW s \in Session, s \in pending, s \notin pending', Live(s),
             claim'[s] # None
      PROVE  claim'[s] \in Candidates[seen[s].tool][seen[s].cwd]
  <2>1. ASSUME NEW t \in pending, SkipExited(t) PROVE FALSE
    BY <1>1, <2>1 DEF SkipExited, Live
  <2>2. ASSUME NEW t \in pending, NEW path, NEW cwd, Visit(t, path, cwd)
        PROVE  t = s /\ claim'[s] = path
    BY <1>1, <2>2 DEF TypeOK, Visit
  <2>3. ASSUME NEW t \in pending, KeepClaim(t)
        PROVE  claim'[s] \in Candidates[seen[s].tool][seen[s].cwd]
    <3>1. t = s /\ claim'[s] = claim[s] /\ ~Moved(s) /\ seen[s].tool # None
      BY <1>1, <2>2, <2>3 DEF KeepClaim, CurrentClaim
    <3>2. seen[s].tool = AgentOf[s] /\ claimedCwd[s] = seen[s].cwd
      BY <1>1, <3>1, ClaimConstants DEF ClaimInvariant, Live, Moved
    <3>3. QED
      BY <1>1, <3>1, <3>2 DEF ClaimInvariant
  <2>4. ASSUME NEW t \in pending, AdoptNewest(t)
        PROVE  claim'[s] \in Candidates[seen[s].tool][seen[s].cwd]
    <3>1. PICK f \in Discovered(t) : Visit(t, f, seen[t].cwd)
      BY <2>4 DEF AdoptNewest
    <3>2. QED
      BY <2>2, <3>1 DEF Discovered
  <2>5. ASSUME NEW t \in pending, ReadNoTranscript(t) \/ DropClaim(t) PROVE FALSE
    BY <1>1, <2>2, <2>5 DEF ReadNoTranscript, DropClaim
  <2>6. ASSUME NEW request \in Request, NEW visits \in BOOLEAN,
               BeginSync(request, visits)
        PROVE  FALSE
    BY <1>1, <2>6 DEF BeginSync
  <2>7. CASE UNCHANGED pending
    BY <1>1, <2>7
  <2>8. QED
    BY <1>1, <2>1, <2>3, <2>4, <2>5, <2>6, <2>7 DEF Next, FileChanges, vars
<1>2. TypeOK /\ ClaimInvariant /\ [Next]_vars =>
        [\A s \in Session :
           s \in pending /\ s \notin pending' /\ Live(s) /\ claim'[s] # None =>
             claim'[s] \in Candidates[seen[s].tool][seen[s].cwd]]_vars
  BY <1>1
<1>3. QED
  BY <1>2, TypeCorrect, ClaimInvariantHolds, PTL DEF Spec, ClaimFollowsDirectory

\* A session gives a file up only with its directory or tool, or because the
\* file can no longer be read.  This needs no assumption on the panes.
THEOREM ClaimsAreSticky == Spec => ClaimIsSticky
<1>1. ASSUME TypeOK, [Next]_vars, NEW s \in Session,
             claim[s] # None, claim'[s] # claim[s],
             seen'[s] # None, ~Moved(s), seen[s].tool # None, Readable(claim[s])
      PROVE  FALSE
  <2>1. CurrentClaim(s) = claim[s]
    BY <1>1 DEF CurrentClaim
  <2>2. ASSUME NEW t \in pending, NEW path, NEW cwd, Visit(t, path, cwd)
        PROVE  t = s /\ claim'[s] = path
    BY <1>1, <2>2 DEF TypeOK, Visit
  <2>3. ASSUME NEW t \in pending, KeepClaim(t) PROVE FALSE
    BY <1>1, <2>1, <2>2, <2>3 DEF KeepClaim
  <2>4. ASSUME NEW t \in pending, AdoptNewest(t) \/ DropClaim(t) \/ ReadNoTranscript(t)
        PROVE  FALSE
    BY <1>1, <2>1, <2>2, <2>4 DEF AdoptNewest, DropClaim, ReadNoTranscript
  <2>5. ASSUME NEW request \in Request, NEW visits \in BOOLEAN,
               BeginSync(request, visits)
        PROVE  FALSE
    BY <1>1, <2>5 DEF BeginSync, Retained, TypeOK
  <2>6. CASE UNCHANGED claim
    BY <1>1, <2>6
  <2>7. QED
    BY <1>1, <2>3, <2>4, <2>5, <2>6 DEF Next, SkipExited, FileChanges, vars
<1>2. TypeOK /\ [Next]_vars =>
        [\A s \in Session :
           claim[s] # None /\ claim'[s] # claim[s] =>
             \/ seen'[s] = None
             \/ Moved(s)
             \/ seen[s].tool = None
             \/ ~Readable(claim[s])]_vars
  BY <1>1
<1>3. QED
  BY <1>2, TypeCorrect, PTL DEF Spec, ClaimIsSticky
=============================================================================
