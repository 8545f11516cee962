--------------------------- MODULE TmuxDaemonProofs ---------------------------
(***************************************************************************)
(* Proofs about TmuxDaemon for every number of panes, every queue and      *)
(* every set of commands, directories and texts.                           *)
(***************************************************************************)
EXTENDS TmuxDaemon, TLAPS

\* The state of the daemon between two steps.
DaemonInvariant == TypeOK /\ ScanIsComplete /\ RosterIsExact /\ NoNotificationLost

LEMMA QueueBounds ==
  /\ 0 \in 0..QueueMax
  /\ \A sent \in 0..QueueMax : sent < QueueMax => sent + 1 \in 0..QueueMax /\ sent + 1 > 0
  BY DaemonConstants

LEMMA NobodyType ==
  ASSUME NEW S
  PROVE  Nobody \in [Id -> S \cup {Gone}] /\ \A p \in Id : Nobody[p] = Gone
  BY DEF Nobody

-----------------------------------------------------------------------------
(***************************************************************************)
(* What a complete scan makes of one pane                                  *)
(***************************************************************************)

LEMMA SeenType ==
  ASSUME TypeOK, ScanIsComplete, phase = "syncing", NEW p \in Id, listed[p] # Gone
  PROVE  Seen(p) \in Look /\ listed[p] \in Meta /\ captured[p] \in Text
<1>1. listed[p] \in Meta /\ captured[p] \in Text
  BY DEF TypeOK, ScanIsComplete
<1>2. QED
  BY <1>1 DEF Seen, Meta, Look

LEMMA ScannedType ==
  ASSUME TypeOK, ScanIsComplete, phase = "syncing", NEW p \in Id
  PROVE  /\ Scanned(p) \in Facts \cup {Gone}
         /\ Scanned(p) = Gone <=> listed[p] = Gone /\ tracked[p] = Gone
         /\ Scanned(p) # Gone => (Scanned(p).state = "exited" <=> listed[p] = Gone)
<1>1. CASE listed[p] # Gone
  <2>1. listed[p] \in Meta /\ captured[p] \in Text
    BY <1>1, SeenType
  <2>2. Scanned(p) \in Facts /\ Scanned(p).state # "exited"
    BY <1>1, <2>1 DEF Scanned, Facts, Meta, State
  <2>3. QED
    BY <1>1, <2>2, GoneApart
<1>2. CASE listed[p] = Gone /\ tracked[p] # Gone
  <2>1. tracked[p] \in Look
    BY <1>2 DEF TypeOK
  <2>2. Scanned(p) \in Facts /\ Scanned(p).state = "exited"
    BY <1>2, <2>1 DEF Scanned, Facts, Look, State
  <2>3. QED
    BY <1>2, <2>2, GoneApart
<1>3. CASE listed[p] = Gone /\ tracked[p] = Gone
  BY <1>3 DEF Scanned
<1>4. QED
  BY <1>1, <1>2, <1>3

\* Applying the delta of a session leaves the consumer with its identity.
LEMMA AppliedIsScanned ==
  ASSUME TypeOK, ScanIsComplete, RosterIsExact, phase = "syncing", NEW p \in Id
  PROVE  Applied(p) = IF Scanned(p) = Gone THEN Gone ELSE IdentityOf(Scanned(p))
<1>1. roster[p] = IF observed[p] = Gone THEN Gone ELSE IdentityOf(observed[p])
  BY DEF RosterIsExact
<1>2. CASE Delta(p) \in {"none", "unchanged"}
  <2>1. Scanned(p) = observed[p]
    BY <1>2 DEF Delta, Changed
  <2>2. QED
    BY <1>1, <1>2, <2>1 DEF Applied
<1>3. CASE Delta(p) = "removed"
  BY <1>3 DEF Delta, Applied
<1>4. CASE Delta(p) \in {"exited", "started", "changed"}
  BY <1>4 DEF Delta, Applied
<1>5. QED
  BY <1>2, <1>3, <1>4 DEF Delta

LEMMA IdentityType ==
  ASSUME NEW facts \in Facts
  PROVE  IdentityOf(facts) \in Identity /\ IdentityOf(facts) # Gone
         /\ IdentityOf(facts).state = facts.state
<1>1. IdentityOf(facts) \in Identity /\ IdentityOf(facts).state = facts.state
  BY DEF IdentityOf, Identity, Facts
<1>2. QED
  BY <1>1, GoneApart

-----------------------------------------------------------------------------
(***************************************************************************)
(* Every step keeps the invariant                                          *)
(***************************************************************************)

LEMMA InitInvariant == Init => DaemonInvariant
<1> SUFFICES ASSUME Init PROVE DaemonInvariant
  OBVIOUS
<1>1. TypeOK
  <2>1. [p \in Id |-> FALSE] \in [Id -> BOOLEAN]
    OBVIOUS
  <2>2. QED
    BY <2>1, NobodyType, QueueBounds DEF Init, TypeOK, Phase
<1>2. RosterIsExact
  BY NobodyType DEF Init, RosterIsExact
<1>3. QED
  BY <1>1, <1>2 DEF Init, DaemonInvariant, ScanIsComplete, NoNotificationLost

LEMMA ReportInvariant ==
  ASSUME DaemonInvariant, Report
  PROVE  DaemonInvariant'
<1>1. /\ TypeOK /\ ScanIsComplete /\ RosterIsExact /\ phase = "syncing"
      /\ phase' = "waiting" /\ queue' = queue
  BY DEF DaemonInvariant, Report, QueueKept
<1>2. ASSUME NEW p \in Id PROVE NextTracked(p) \in Look \cup {Gone}
  BY <1>1, SeenType DEF NextTracked
<1>3. ASSUME NEW p \in Id PROVE Applied(p) \in Identity \cup {Gone}
  BY <1>1, ScannedType, AppliedIsScanned, IdentityType
<1>4. TypeOK'
  <2>1. tracked' \in [Id -> Look \cup {Gone}]
    BY <1>2 DEF Report
  <2>2. observed' \in [Id -> Facts \cup {Gone}]
    BY <1>1, ScannedType DEF Report
  <2>3. roster' \in [Id -> Identity \cup {Gone}]
    BY <1>3 DEF Report
  <2>4. QED
    BY <1>1, <2>1, <2>2, <2>3, NobodyType DEF TypeOK, Report, Phase
<1>5. RosterIsExact'
  <2>1. SUFFICES ASSUME NEW p \in Id
        PROVE  /\ roster'[p] = IF observed'[p] = Gone THEN Gone
                               ELSE IdentityOf(observed'[p])
               /\ tracked'[p] # Gone <=>
                    observed'[p] # Gone /\ observed'[p].state # "exited"
               /\ tracked'[p] # Gone =>
                    /\ roster'[p].agent <=> tracked'[p].command = "agent"
                    /\ roster'[p].cwd = tracked'[p].cwd
    BY DEF RosterIsExact
  <2>2. /\ roster'[p] = Applied(p)
        /\ observed'[p] = Scanned(p)
        /\ tracked'[p] = NextTracked(p)
    BY DEF Report
  <2>3. NextTracked(p) # Gone <=> listed[p] # Gone
    BY <1>1, SeenType, GoneApart DEF NextTracked
  <2>4. listed[p] # Gone =>
          /\ Scanned(p) # Gone
          /\ IdentityOf(Scanned(p)).agent = (NextTracked(p).command = "agent")
          /\ IdentityOf(Scanned(p)).cwd = NextTracked(p).cwd
    BY <1>1, ScannedType DEF Scanned, IdentityOf, NextTracked, Seen
  <2>5. QED
    BY <1>1, <2>2, <2>3, <2>4, AppliedIsScanned, ScannedType
<1>6. NoNotificationLost'
  BY <1>1 DEF DaemonInvariant, NoNotificationLost, Report
<1>7. QED
  BY <1>1, <1>4, <1>5, <1>6 DEF DaemonInvariant, ScanIsComplete

LEMMA NextInvariant == DaemonInvariant /\ [Next]_vars => DaemonInvariant'
<1> SUFFICES ASSUME DaemonInvariant, [Next]_vars PROVE DaemonInvariant'
  OBVIOUS
<1> USE DaemonConstants DEF DaemonInvariant
<1>1. ASSUME UNCHANGED <<tracked, observed, roster>> PROVE RosterIsExact'
  BY <1>1 DEF RosterIsExact
<1>2. CASE Wake
  BY <1>1, <1>2 DEF Wake, TypeOK, Phase, ScanIsComplete, NoNotificationLost
<1>3. CASE Drain
  BY <1>1, <1>3 DEF Drain, Drained, TypeOK, Phase, ScanIsComplete, NoNotificationLost
<1>4. CASE List
  <2>1. ASSUME NEW p \in Id, panes[p] # Gone
        PROVE  [command |-> panes[p].command, cwd |-> panes[p].cwd] \in Meta
    BY <2>1 DEF TypeOK, Look, Meta
  <2>2. listed' \in [Id -> Meta \cup {Gone}]
    BY <1>4, <2>1 DEF List
  <2>3. TypeOK'
    BY <1>4, <2>2, NobodyType DEF List, TypeOK, Phase
  <2>4. QED
    BY <1>1, <1>4, <2>3 DEF List, ScanIsComplete, NoNotificationLost
<1>5. ASSUME NEW p \in Id, Capture(p) \/ CaptureFails(p) PROVE DaemonInvariant'
  <2>1. PICK text \in Text : Captures(p, text)
    BY <1>5, DaemonConstants DEF Capture, CaptureFails, TypeOK, Look
  <2>2. captured' \in [Id -> Text \cup {Gone}]
    BY <2>1 DEF Captures, TypeOK
  <2>3. QED
    BY <1>1, <2>1, <2>2 DEF Captures, TypeOK, ScanIsComplete, NoNotificationLost
<1>6. CASE AllCaptured
  BY <1>1, <1>6 DEF AllCaptured, TypeOK, Phase, ScanIsComplete, NoNotificationLost
<1>7. CASE Report
  BY <1>7, ReportInvariant
<1>8. CASE Fail
  BY <1>1, <1>8, NobodyType, QueueBounds DEF Fail, TypeOK, Phase, ScanIsComplete, NoNotificationLost
<1>9. CASE Start
  <2>1. TypeOK'
    BY <1>9, NobodyType DEF Start, TypeOK, Phase
  <2>2. RosterIsExact'
    BY <1>9, NobodyType DEF Start, RosterIsExact
  <2>3. QED
    BY <1>9, <2>1, <2>2 DEF Start, ScanIsComplete, NoNotificationLost
<1>10. ASSUME NEW p \in Id, HookSends(p) PROVE DaemonInvariant'
  <2>1. queue' \in 0..QueueMax /\ ((queue' = queue /\ owed' = owed) \/ queue' > 0)
    BY <1>10, QueueBounds DEF HookSends, TypeOK
  <2>2. TypeOK'
    BY <1>10, <2>1 DEF HookSends, TypeOK
  <2>3. NoNotificationLost'
    BY <1>10, <2>1 DEF HookSends, NoNotificationLost
  <2>4. QED
    BY <1>1, <1>10, <2>2, <2>3 DEF HookSends, ScanIsComplete
<1>11. ASSUME NEW p \in Id, NEW look \in Look \cup {Gone}, NEW hooked \in BOOLEAN,
              PaneBecomes(p, look, hooked)
       PROVE  DaemonInvariant'
  BY <1>1, <1>11 DEF PaneBecomes, TypeOK, ScanIsComplete, NoNotificationLost
<1>12. CASE UNCHANGED vars
  BY <1>1, <1>12 DEF vars, TypeOK, ScanIsComplete, NoNotificationLost
<1>13. QED
  BY <1>2, <1>3, <1>4, <1>5, <1>6, <1>7, <1>8, <1>9, <1>10, <1>11, <1>12
     DEF Next, Daemon

-----------------------------------------------------------------------------
(***************************************************************************)
(* Every step is a step of SessionFollower, or nothing to it               *)
(***************************************************************************)

\* The panes as a listing shows them.
Sessions ==
    [p \in Id |-> IF panes[p] = Gone THEN Gone
                  ELSE [command |-> panes[p].command, cwd |-> panes[p].cwd]]

Stage ==
    IF phase = "stopped" THEN "ended"
    ELSE IF phase \in {"capturing", "syncing"} THEN "looked" ELSE "open"

\* A listed pane is told as it was listed; only its state is the tracker's.
LEMMA ListedIsShown ==
  ASSUME DaemonInvariant, phase = "syncing", NEW p \in Id, listed[p] # Gone
  PROVE  IdentityOf(Scanned(p)) \in Follower!Views(p)
<1> DEFINE state == IF Active(p) \/ BusyByCommand(p) THEN "busy" ELSE "idle"
<1>1. IdentityOf(Scanned(p)) =
        [state |-> state, agent |-> listed[p].command = "agent", cwd |-> listed[p].cwd]
  BY DEF Scanned, IdentityOf
<1>2. state \in Follower!States(p)
  <2>1. listed[p].command \in {"shell", "agent", "program"}
    BY SeenType, DaemonConstants DEF DaemonInvariant, Meta
  <2>2. tracked[p] # Gone <=> Follower!Alive(p)
    <3>1. observed[p] # Gone => observed[p] \in Facts
      BY DEF DaemonInvariant, TypeOK
    <3>2. QED
      BY <3>1, IdentityType DEF DaemonInvariant, RosterIsExact, Follower!Alive
  <2>3. QED
    BY <2>1, <2>2 DEF Follower!States, Active, BusyByCommand
<1>3. QED
  BY <1>1, <1>2 DEF Follower!Views

\* A pane that is missing is told as exited, as the consumer knew it, or is left
\* out.
LEMMA MissingIsShown ==
  ASSUME DaemonInvariant, phase = "syncing", NEW p \in Id, listed[p] = Gone
  PROVE  (IF Scanned(p) = Gone THEN Gone ELSE IdentityOf(Scanned(p))) \in Follower!Views(p)
<1>1. observed[p] # Gone => observed[p] \in Facts
  BY DEF DaemonInvariant, TypeOK
<1>2. tracked[p] # Gone <=> Follower!Alive(p)
  BY <1>1, IdentityType DEF DaemonInvariant, RosterIsExact, Follower!Alive
<1>3. CASE tracked[p] = Gone
  BY <1>2, <1>3 DEF Scanned, Follower!Views
<1>4. CASE tracked[p] # Gone
  <2>1. roster[p] \in Identity
    BY <1>2, <1>4 DEF DaemonInvariant, TypeOK, Follower!Alive
  <2>2. Scanned(p) # Gone
    BY <1>4, ScannedType DEF DaemonInvariant
  <2>3. IdentityOf(Scanned(p)) =
          [state |-> "exited", agent |-> tracked[p].command = "agent", cwd |-> tracked[p].cwd]
    BY <1>4 DEF Scanned, IdentityOf
  <2>4. roster[p].agent \in BOOLEAN /\ (roster[p].agent <=> tracked[p].command = "agent")
        /\ roster[p].cwd = tracked[p].cwd
    BY <1>4, <2>1 DEF DaemonInvariant, RosterIsExact, Identity
  <2>5. [roster[p] EXCEPT !.state = "exited"] =
          [state |-> "exited", agent |-> roster[p].agent, cwd |-> roster[p].cwd]
    BY <2>1 DEF Identity
  <2>6. QED
    BY <1>2, <1>4, <2>2, <2>3, <2>4, <2>5 DEF Follower!Views
<1>5. QED
  BY <1>3, <1>4

LEMMA ReportTells ==
  ASSUME DaemonInvariant, Report
  PROVE  Follower!Tell
<1>1. /\ phase = "syncing" /\ phase' = "waiting"
      /\ listed' = Nobody /\ panes' = panes
      /\ roster' = [p \in Id |-> Applied(p)]
  BY DEF Report
<1>2. ASSUME NEW p \in Id PROVE roster'[p] \in Follower!Views(p)
  <2>1. roster'[p] = IF Scanned(p) = Gone THEN Gone ELSE IdentityOf(Scanned(p))
    BY <1>1, AppliedIsScanned DEF DaemonInvariant
  <2>2. CASE listed[p] # Gone
    BY <1>1, <2>1, <2>2, ListedIsShown, ScannedType DEF DaemonInvariant
  <2>3. CASE listed[p] = Gone
    BY <1>1, <2>1, <2>3, MissingIsShown
  <2>4. QED
    BY <2>2, <2>3
<1>3. QED
  BY <1>1, <1>2 DEF Follower!Tell, Follower!Nobody, Nobody

LEMMA StepIsFollowed ==
  ASSUME DaemonInvariant, DaemonInvariant', [Next]_vars
  PROVE  [Follower!Next]_Follower!vars
<1>1. ASSUME UNCHANGED <<panes, listed, roster>>, Stage' = Stage
      PROVE  UNCHANGED Follower!vars
  BY <1>1 DEF Stage, Follower!vars
<1>2. CASE Wake \/ Drain \/ AllCaptured \/ UNCHANGED vars
  BY <1>1, <1>2 DEF Wake, Drain, AllCaptured, vars, Stage
<1>3. CASE List
  BY <1>3 DEF List, Follower!Next, Follower!Look
<1>4. CASE \E p \in Id : Capture(p) \/ CaptureFails(p)
  BY <1>1, <1>4 DEF Capture, CaptureFails, Captures, Stage
<1>5. CASE Report
  BY <1>5, ReportTells DEF Follower!Next
<1>6. CASE Fail
  BY <1>6 DEF Fail, Follower!Next, Follower!End, Follower!Nobody, Nobody
<1>7. CASE Start
  BY <1>7 DEF Start, Follower!Next, Follower!StartAnew, Follower!Nobody, Nobody
<1>8. CASE \E p \in Id : HookSends(p)
  BY <1>1, <1>8 DEF HookSends, Stage
<1>9. ASSUME NEW p \in Id, NEW look \in Look \cup {Gone}, NEW hooked \in BOOLEAN,
             PaneBecomes(p, look, hooked)
      PROVE  Follower!Next
  <2>1. Sessions' \in [Id -> Follower!Session \cup {Gone}]
    <3>1. ASSUME NEW q \in Id, panes'[q] # Gone
          PROVE  [command |-> panes'[q].command, cwd |-> panes'[q].cwd] \in Follower!Session
      BY <3>1 DEF DaemonInvariant, TypeOK, Look, Follower!Session
    <3>2. QED
      BY <3>1 DEF Sessions
  <2>2. UNCHANGED <<phase, listed, roster>>
    BY <1>9 DEF PaneBecomes
  <2>3. QED
    BY <2>1, <2>2 DEF Sessions, Follower!Next, Follower!Become
<1>10. QED
  BY <1>2, <1>3, <1>4, <1>5, <1>6, <1>7, <1>8, <1>9 DEF Next, Daemon

-----------------------------------------------------------------------------
(***************************************************************************)
(* Theorems                                                                *)
(***************************************************************************)

\* The daemon's state keeps its types, every sync sees a complete scan, the
\* consumer's roster is exact and no notification is lost.
THEOREM InvariantHolds == Spec => []DaemonInvariant
  BY InitInvariant, NextInvariant, PTL DEF Spec

\* The tracker's and the engine's tables keep their types, and the socket never
\* holds more than its queue.
THEOREM TypeCorrect == Spec => []TypeOK
<1>1. DaemonInvariant => TypeOK
  BY DEF DaemonInvariant
<1>2. QED
  BY <1>1, InvariantHolds, PTL

\* Deltas are enough to follow the sessions, whatever happens to the panes
\* between and during the scans.
THEOREM RostersAreExact == Spec => []RosterIsExact
<1>1. DaemonInvariant => RosterIsExact
  BY DEF DaemonInvariant
<1>2. QED
  BY <1>1, InvariantHolds, PTL

\* A listing follows every notification.
THEOREM NotificationsAreKept == Spec => []NoNotificationLost
<1>1. DaemonInvariant => NoNotificationLost
  BY DEF DaemonInvariant
<1>2. QED
  BY <1>1, InvariantHolds, PTL

\* Sessions are born alive, and exit for one scan before they leave.
THEOREM LifecyclesAreInOrder == Spec => LifecycleInOrder
<1>1. ASSUME DaemonInvariant, Report, NEW p \in Id
      PROVE  /\ roster[p] = Gone => ~ShownExited(roster'[p])
             /\ ShownExited(roster[p]) => ~ShownExited(roster'[p])
             /\ roster[p] # Gone /\ roster'[p] = Gone => ShownExited(roster[p])
  <2>1. TypeOK /\ ScanIsComplete /\ RosterIsExact /\ phase = "syncing"
    BY <1>1 DEF DaemonInvariant, Report
  <2>2. roster'[p] = IF Scanned(p) = Gone THEN Gone ELSE IdentityOf(Scanned(p))
    BY <1>1, <2>1, AppliedIsScanned DEF Report
  <2>3. ShownExited(roster'[p]) => listed[p] = Gone /\ tracked[p] # Gone
    BY <2>1, <2>2, ScannedType, IdentityType DEF ShownExited
  <2>4. roster'[p] = Gone => tracked[p] = Gone
    BY <2>1, <2>2, ScannedType, IdentityType
  <2>5. observed[p] \in Facts \cup {Gone}
    BY <2>1 DEF TypeOK
  <2>6. roster[p] # Gone /\ tracked[p] = Gone <=> ShownExited(roster[p])
    BY <2>1, <2>5, IdentityType DEF RosterIsExact, ShownExited
  <2>7. roster[p] = Gone => tracked[p] = Gone
    BY <2>1, <2>5, IdentityType DEF RosterIsExact
  <2>8. QED
    BY <2>3, <2>4, <2>6, <2>7
<1>2. DaemonInvariant /\ [Next]_vars =>
        [Report =>
           \A p \in Id :
             /\ roster[p] = Gone => ~ShownExited(roster'[p])
             /\ ShownExited(roster[p]) => ~ShownExited(roster'[p])
             /\ roster[p] # Gone /\ roster'[p] = Gone => ShownExited(roster[p])]_vars
  BY <1>1
<1>3. QED
  BY <1>2, InvariantHolds, PTL DEF Spec, LifecycleInOrder

\* Every response shows the panes as they were at the moment of one listing, and
\* in the order of their lives: the daemon implements SessionFollower.
THEOREM FollowerImplemented == Spec => FollowerSpec
<1>1. Init => Follower!Init
  BY DEF Init, Nobody, Follower!Init, Follower!Nobody
<1>2. DaemonInvariant /\ DaemonInvariant' /\ [Next]_vars => [Follower!Next]_Follower!vars
  BY StepIsFollowed
<1>3. QED
  BY <1>1, <1>2, InvariantHolds, PTL DEF Spec, FollowerSpec, Follower!Spec
=============================================================================
