------------------------------ MODULE TmuxDaemon ------------------------------
(***************************************************************************)
(* The tmux daemon: from the panes of a tmux server to the sessions its    *)
(* consumer knows.                                                         *)
(*                                                                         *)
(* The daemon waits for a datagram of a hook or for its reconcile          *)
(* deadline, drains the notify socket, lists all panes, captures their     *)
(* text one after another, compares each with what the last scan saw, and  *)
(* syncs the engine, which reports how each session differs from its own   *)
(* last observation.  Panes change and hooks send while all that happens.  *)
(*                                                                         *)
(* Left out: the thought updates of the sync (SessionEmission), the        *)
(* ownership of the socket path, and a clock: a time stamp is "now" or     *)
(* "as before".                                                            *)
(*                                                                         *)
(* Source: src/src/main.rs (tmux-emit), src/src/tmux.rs, and the session   *)
(* deltas of src/src/emit/engine.rs.                                       *)
(***************************************************************************)
EXTENDS Naturals

CONSTANTS
    Id,         \* tmux session ids (session, window, pane index and pane id)
    Command,    \* the kinds of foreground command a pane can run
    Cwd,        \* working directories
    Text,       \* what the screen of a pane can show
    Empty,      \* the text of a pane whose capture failed
    QueueMax,   \* datagrams the kernel queues on the notify socket
    Fallible,   \* TRUE if a scan or a write may fail, which ends the daemon
    Gone        \* no pane, no session

\* A shell rests, an agent is a tool the engine knows, a program is neither.
ASSUME DaemonConstants ==
    /\ Command \subseteq {"shell", "agent", "program"}
    /\ Empty \in Text
    /\ QueueMax \in Nat \ {0}
    /\ Fallible \in BOOLEAN

VARIABLES
    panes,      \* the live panes of the tmux server
    hook,       \* per pane, whether a hook process is trying to notify
    queue,      \* datagrams in the notify socket
    phase,      \* what the daemon is doing
    listed,     \* the panes of this scan: command and directory
    captured,   \* the texts captured so far in this scan
    tracked,    \* the tracker's sessions
    observed,   \* last_observed of the engine's runtime states
    roster,     \* the sessions as the consumer of the deltas knows them
    owed        \* for a property only: a hook sent since the last listing

vars == <<panes, hook, queue, phase, listed, captured, tracked, observed,
          roster, owed>>

-----------------------------------------------------------------------------
Meta == [command : Command, cwd : Cwd]
Look == [command : Command, cwd : Cwd, text : Text]

State == {"busy", "idle", "exited"}
Facts == [state : State, agent : BOOLEAN, cwd : Cwd, text : Text]
Identity == [state : State, agent : BOOLEAN, cwd : Cwd]

Phase == {"waiting", "draining", "listing", "capturing", "syncing", "stopped"}

ASSUME GoneApart == Gone \notin Text \cup Meta \cup Look \cup Facts \cup Identity

TypeOK ==
    /\ panes \in [Id -> Look \cup {Gone}]
    /\ hook \in [Id -> BOOLEAN]
    /\ queue \in 0..QueueMax
    /\ phase \in Phase
    /\ listed \in [Id -> Meta \cup {Gone}]
    /\ captured \in [Id -> Text \cup {Gone}]
    /\ tracked \in [Id -> Look \cup {Gone}]
    /\ observed \in [Id -> Facts \cup {Gone}]
    /\ roster \in [Id -> Identity \cup {Gone}]
    /\ owed \in BOOLEAN

Nobody == [p \in Id |-> Gone]

-----------------------------------------------------------------------------
(***************************************************************************)
(* What a scan makes of the panes                                          *)
(***************************************************************************)
Seen(p) ==
    [command |-> listed[p].command, cwd |-> listed[p].cwd, text |-> captured[p]]

\* A pane that looks different than in the last scan shows activity.
Active(p) == tracked[p] # Gone /\ Seen(p) # tracked[p]

\* An agent is busy when it is first seen, a program always.
BusyByCommand(p) ==
    \/ listed[p].command = "program"
    \/ listed[p].command = "agent" /\ tracked[p] = Gone

\* Fault: a session that is missing from the listing is not reported.
ScannedLiveOnly(p) ==
    IF listed[p] # Gone
    THEN [state |-> IF Active(p) \/ BusyByCommand(p) THEN "busy" ELSE "idle",
          agent |-> listed[p].command = "agent", cwd |-> listed[p].cwd,
          text |-> captured[p]]
    ELSE Gone

\* The session of the request: a listed pane, or for once the last sight of
\* a pane that is missing from the listing.
Scanned(p) ==
    IF listed[p] # Gone
    THEN [state |-> IF Active(p) \/ BusyByCommand(p) THEN "busy" ELSE "idle",
          agent |-> listed[p].command = "agent", cwd |-> listed[p].cwd,
          text |-> captured[p]]
    ELSE IF tracked[p] # Gone
    THEN [state |-> "exited", agent |-> tracked[p].command = "agent",
          cwd |-> tracked[p].cwd, text |-> tracked[p].text]
    ELSE Gone

\* last_activity_at moves with the first sight of a pane and its changes.
Stamped(p) == listed[p] # Gone /\ (tracked[p] = Gone \/ Active(p))

\* Fault: missing sessions stay tracked.
NextTrackedForever(p) == IF listed[p] # Gone THEN Seen(p) ELSE tracked[p]

\* Fault: the first sight of a pane is kept.
NextTrackedOnce(p) ==
    IF listed[p] = Gone THEN Gone
    ELSE IF tracked[p] # Gone THEN tracked[p] ELSE Seen(p)

NextTracked(p) == IF listed[p] # Gone THEN Seen(p) ELSE Gone

\* Fault: a session whose activity has ended has not changed.
ChangedOnlyByActivity(p) == Stamped(p)

\* Some field differs from the engine's last observation.
Changed(p) == Scanned(p) # observed[p] \/ Stamped(p)

Delta(p) ==
    IF Scanned(p) = Gone
    THEN IF observed[p] = Gone THEN "none" ELSE "removed"
    ELSE IF Scanned(p).state = "exited" THEN "exited"
    ELSE IF observed[p] = Gone THEN "started"
    ELSE IF Changed(p) THEN "changed"
    ELSE "unchanged"

IdentityOf(facts) == [state |-> facts.state, agent |-> facts.agent, cwd |-> facts.cwd]

\* A consumer keeps what it has of a session that is reported as unchanged.
Applied(p) ==
    CASE Delta(p) \in {"none", "unchanged"} -> roster[p]
      [] Delta(p) = "removed" -> Gone
      [] OTHER -> IdentityOf(Scanned(p))

-----------------------------------------------------------------------------
(***************************************************************************)
(* The daemon                                                              *)
(***************************************************************************)

\* A datagram arrived, or the reconcile deadline has passed.  A timeout
\* before the deadline waits again.
Wake ==
    /\ phase = "waiting"
    /\ \/ queue > 0 /\ phase' = "draining"
       \/ queue = 0 /\ phase' = "listing"
    /\ UNCHANGED <<panes, hook, queue, listed, captured, tracked, observed, roster, owed>>

\* Fault: the socket is only polled.
DrainedNothing(sent) == sent

\* Every datagram that is queued is read.
Drained(sent) == 0

Drain ==
    /\ phase = "draining"
    /\ queue' = Drained(queue)
    /\ phase' = "listing"
    /\ UNCHANGED <<panes, hook, listed, captured, tracked, observed, roster, owed>>

\* Command and directory of every pane, at one moment.
List ==
    /\ phase = "listing"
    /\ listed' = [p \in Id |->
                    IF panes[p] = Gone THEN Gone
                    ELSE [command |-> panes[p].command, cwd |-> panes[p].cwd]]
    /\ captured' = Nobody
    /\ owed' = FALSE
    /\ phase' = "capturing"
    /\ UNCHANGED <<panes, hook, queue, tracked, observed, roster>>

\* The text of one listed pane, later than the listing.
Captures(p, text) ==
    /\ phase = "capturing"
    /\ listed[p] # Gone
    /\ captured[p] = Gone
    /\ captured' = [captured EXCEPT ![p] = text]
    /\ UNCHANGED <<panes, hook, queue, phase, listed, tracked, observed, roster, owed>>

Capture(p) == panes[p] # Gone /\ Captures(p, panes[p].text)

\* The pane has gone since the listing, tmux fails to capture it, or its text
\* is missing from the answer of a batch: it counts as empty.
CaptureFails(p) == Captures(p, Empty)

\* Fault: the scan goes on without the text of some pane.
SomeCaptured ==
    /\ phase = "capturing"
    /\ phase' = "syncing"
    /\ UNCHANGED <<panes, hook, queue, listed, captured, tracked, observed, roster, owed>>

AllCaptured ==
    /\ phase = "capturing"
    /\ \A p \in Id : listed[p] # Gone => captured[p] # Gone
    /\ phase' = "syncing"
    /\ UNCHANGED <<panes, hook, queue, listed, captured, tracked, observed, roster, owed>>

\* Fault: datagrams that came during the scan are thrown away after it.
QueueAfterSync == 0

\* Datagrams that came during the scan stay for the next one.
QueueKept == queue

\* The engine syncs, which may take as long as the model calls take, and the
\* response is written.
Report ==
    /\ phase = "syncing"
    /\ tracked' = [p \in Id |-> NextTracked(p)]
    /\ observed' = [p \in Id |-> Scanned(p)]
    /\ roster' = [p \in Id |-> Applied(p)]
    /\ queue' = QueueKept
    /\ phase' = "waiting"
    /\ listed' = Nobody
    /\ captured' = Nobody
    /\ UNCHANGED <<panes, hook, owed>>

\* tmux fails otherwise than by having no server, or stdout is closed: the
\* daemon ends, and its socket with it.
Fail ==
    /\ Fallible
    /\ phase \in {"listing", "syncing"}
    /\ phase' = "stopped"
    /\ queue' = 0
    /\ owed' = FALSE
    /\ listed' = Nobody
    /\ captured' = Nobody
    /\ UNCHANGED <<panes, hook, tracked, observed, roster>>

\* A new daemon says hello with a new stream and scans at once.
Start ==
    /\ phase = "stopped"
    /\ phase' = "listing"
    /\ tracked' = Nobody
    /\ observed' = Nobody
    /\ roster' = Nobody
    /\ UNCHANGED <<panes, hook, queue, listed, captured, owed>>

Daemon ==
    \/ Wake
    \/ Drain
    \/ List
    \/ \E p \in Id : Capture(p)
    \/ \E p \in Id : CaptureFails(p)
    \/ AllCaptured
    \/ Report

-----------------------------------------------------------------------------
(***************************************************************************)
(* The panes and their hooks                                               *)
(***************************************************************************)

\* A pane opens, closes, or looks different; tmux or the agent may run a hook.
PaneBecomes(p, look, hooked) ==
    /\ panes[p] # look
    /\ panes' = [panes EXCEPT ![p] = look]
    /\ hook' = [hook EXCEPT ![p] = @ \/ hooked]
    /\ UNCHANGED <<queue, phase, listed, captured, tracked, observed, roster, owed>>

\* The hook's datagram is queued; without a daemon the hook gives up.
HookSends(p) ==
    /\ hook[p]
    /\ \/ /\ phase # "stopped"
          /\ queue < QueueMax
          /\ queue' = queue + 1
          /\ owed' = TRUE
       \/ /\ phase = "stopped"
          /\ UNCHANGED <<queue, owed>>
    /\ hook' = [hook EXCEPT ![p] = FALSE]
    /\ UNCHANGED <<panes, phase, listed, captured, tracked, observed, roster>>

\* The first scan follows the binding of the socket at once.
Init ==
    /\ panes = Nobody
    /\ hook = [p \in Id |-> FALSE]
    /\ queue = 0
    /\ phase = "listing"
    /\ listed = Nobody
    /\ captured = Nobody
    /\ tracked = Nobody
    /\ observed = Nobody
    /\ roster = Nobody
    /\ owed = FALSE

Next ==
    \/ Daemon
    \/ Fail
    \/ Start
    \/ \E p \in Id : HookSends(p)
    \/ \E p \in Id, look \in Look \cup {Gone}, hooked \in BOOLEAN :
         PaneBecomes(p, look, hooked)

Spec == Init /\ [][Next]_vars

\* The daemon's thread runs, its deadline passes, and a hook process whose
\* datagram can be queued gets to queue it sooner or later.
FairSpec ==
    /\ Spec
    /\ WF_vars(Daemon)
    /\ \A p \in Id : SF_vars(HookSends(p))

-----------------------------------------------------------------------------
(***************************************************************************)
(* Properties                                                              *)
(***************************************************************************)

\* A consumer that applies the deltas, and skips the sessions reported as
\* unchanged, knows state, tool and directory of exactly the sessions that
\* the engine observed last, and the tracker follows exactly those of them
\* that are alive, with the tool and the directory that the consumer knows.
RosterIsExact ==
    \A p \in Id :
        /\ roster[p] = IF observed[p] = Gone THEN Gone ELSE IdentityOf(observed[p])
        /\ tracked[p] # Gone <=> observed[p] # Gone /\ observed[p].state # "exited"
        /\ tracked[p] # Gone =>
             /\ roster[p].agent <=> tracked[p].command = "agent"
             /\ roster[p].cwd = tracked[p].cwd

\* A sync is made of panes that were listed and then captured.
ScanIsComplete ==
    phase = "syncing" => \A p \in Id : listed[p] # Gone => captured[p] # Gone

\* A session enters the roster alive and is shown as exited for exactly one
\* scan before it leaves: no consumer sees a session vanish or be born dead.
ShownExited(identity) == identity # Gone /\ identity.state = "exited"

LifecycleInOrder ==
    [][Report =>
        \A p \in Id :
            /\ roster[p] = Gone => ~ShownExited(roster'[p])
            /\ ShownExited(roster[p]) => ~ShownExited(roster'[p])
            /\ roster[p] # Gone /\ roster'[p] = Gone => ShownExited(roster[p])]_vars

\* The daemon implements a follower of its sessions: although the texts of the
\* panes are captured one after another while panes come and go, and although
\* only differences are reported, every response shows the panes as they were
\* at the one moment of the listing.
Follower ==
    INSTANCE SessionFollower
    WITH sessions <- [p \in Id |->
                        IF panes[p] = Gone THEN Gone
                        ELSE [command |-> panes[p].command, cwd |-> panes[p].cwd]],
         seen <- listed,
         stage <- IF phase = "stopped" THEN "ended"
                  ELSE IF phase \in {"capturing", "syncing"} THEN "looked" ELSE "open"

FollowerSpec == Follower!Spec

\* A notification is never lost: at every moment, a datagram that a hook has
\* sent since the panes were last listed is still queued, or a listing is
\* about to follow, however the sends fall between the wake, the drain, the
\* listing and the sync.
NoNotificationLost ==
    owed => queue > 0 \/ phase \in {"draining", "listing"}

\* The text that a scan takes of the pane is the pane's.
TextTaken(p) == captured[p] = Gone /\ captured'[p] # Gone => Capture(p)

\* A pane whose command is no foreign program and which stops changing is
\* eventually reported idle for good, whatever the other panes do, provided
\* that its captures fail no more: a failed one looks like a change, and so
\* does the next that succeeds.
QuietPaneTurnsIdle ==
    \A p \in Id :
        <>[](panes[p] # Gone /\ panes[p].command # "program")
            /\ <>[][panes'[p] = panes[p] /\ TextTaken(p)]_vars
        => <>[](roster[p] # Gone /\ roster[p].state = "idle")

\* A pane that stays closed eventually leaves the roster for good.
ClosedPaneLeaves ==
    \A p \in Id : <>[](panes[p] = Gone) => <>[](roster[p] = Gone)

\* A hook that tries to notify is eventually done.
HookReturns ==
    \A p \in Id : hook[p] ~> ~hook[p]
=============================================================================
