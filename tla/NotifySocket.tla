----------------------------- MODULE NotifySocket ------------------------------
(***************************************************************************)
(* Who owns the path of the notify socket.                                 *)
(*                                                                         *)
(* Any number of tmux-emit daemons may be started on one path.  A starting *)
(* daemon looks at the path, probes a socket that it finds, removes a dead *)
(* one and binds its own; an ending one removes what it takes for its own  *)
(* and then closes.  Each of these is a system call of its own, and no     *)
(* lock spans two of them.  A daemon that is killed removes nothing, so    *)
(* its socket file stays behind without a listener.                        *)
(*                                                                         *)
(* A probe is a datagram: it blocks while the listener's queue is full,    *)
(* and the listener empties its queue only between scans.                  *)
(*                                                                         *)
(* Source: src/src/main.rs.                                                *)
(***************************************************************************)
EXTENDS Naturals, FiniteSets

CONSTANTS
    Daemon,     \* processes that run tmux-emit, each again and again
    Absent,     \* no file at the path
    Foreign,    \* a file that is no socket
    Attempts    \* TMUX_SOCKET_PROBE_ATTEMPTS

ASSUME SocketConstants ==
    /\ Attempts \in Nat \ {0}
    /\ Absent # Foreign
    /\ {Absent, Foreign} \cap Daemon = {}

VARIABLES
    file,       \* what is at the path: a daemon's socket file, or none
    at,         \* where each daemon is in its start, run or end
    probes,     \* probes that each starting daemon has had answered
    open,       \* daemons that hold their bound socket
    full,       \* those among them whose queue takes no more
    overlapped, \* for a property only: two starts have overlapped
    disturbed   \* for a property only: starts that another start or end met

socketVars == <<file, at, probes, open, full, overlapped, disturbed>>

Starting == {"look", "kind", "probe", "remove", "bind"}
Ending == {"check", "unlink", "close"}
Place == {"off", "running"} \cup Starting \cup Ending

SocketTypeOK ==
    /\ file \in Daemon \cup {Absent, Foreign}
    /\ at \in [Daemon -> Place]
    /\ probes \in [Daemon -> 0..Attempts]
    /\ open \subseteq Daemon
    /\ full \subseteq open
    /\ overlapped \in BOOLEAN
    /\ disturbed \subseteq Daemon

\* A bound socket file whose daemon still holds the socket.
Live == file \in open

Goes(d, place) == at' = [at EXCEPT ![d] = place]

Others(d, places) == {e \in Daemon \ {d} : at[e] \in places}

-----------------------------------------------------------------------------
(***************************************************************************)
(* Starting: bind_tmux_socket                                              *)
(***************************************************************************)
StartDaemon(d) ==
    /\ at[d] = "off"
    /\ Goes(d, "look")
    /\ probes' = [probes EXCEPT ![d] = 0]
    /\ overlapped' = (overlapped \/ Others(d, Starting) # {})
    /\ disturbed' = (disturbed \ {d})
         \cup Others(d, Starting)
         \cup (IF Others(d, Starting \cup Ending) # {} THEN {d} ELSE {})
    /\ UNCHANGED <<file, open, full>>

StartStep(d, from, to) ==
    /\ at[d] = from
    /\ Goes(d, to)
    /\ UNCHANGED <<overlapped, disturbed>>

\* remove_existing_socket: nothing to do without a file.
Look(d) ==
    /\ StartStep(d, "look", IF file = Absent THEN "bind" ELSE "kind")
    /\ UNCHANGED <<file, probes, open, full>>

\* path_is_unix_socket: no socket, or no file any more, ends the start.
FileKind(d) ==
    /\ StartStep(d, "kind", IF file \in Daemon THEN "probe" ELSE "off")
    /\ UNCHANGED <<file, probes, open, full>>

\* Fault: the count of attempts is off by one.
OneMoreProbe(d) ==
    IF ~Live THEN "remove"
    ELSE IF probes[d] < Attempts THEN "probe"
    ELSE "off"

\* Fault: a probe that fails counts as an answer.
AnyFileIsBusy(d) ==
    IF Live /\ probes[d] + 1 < Attempts THEN "probe" ELSE "off"

\* Fault: a probe that fails is tried again.
AwaitsAnswer(d) ==
    IF Live /\ probes[d] + 1 = Attempts THEN "off" ELSE "probe"

\* unix_socket_has_listener: the first probe that fails finds the socket dead,
\* and the last that succeeds ends the start.
AfterProbe(d) ==
    IF ~Live THEN "remove"
    ELSE IF probes[d] + 1 < Attempts THEN "probe"
    ELSE "off"

Probe(d) ==
    /\ file \notin full
    /\ StartStep(d, "probe", AfterProbe(d))
    /\ probes' = [probes EXCEPT ![d] = IF Live THEN @ + 1 ELSE @]
    /\ UNCHANGED <<file, open, full>>

\* remove_file fails if there is nothing to remove, and asks nothing else.
Remove(d) ==
    /\ StartStep(d, "remove", IF file = Absent THEN "off" ELSE "bind")
    /\ file' = Absent
    /\ UNCHANGED <<probes, open, full>>

\* bind fails if there is a file.
Bind(d) ==
    /\ StartStep(d, "bind", IF file = Absent THEN "running" ELSE "off")
    /\ IF file = Absent
       THEN file' = d /\ open' = open \cup {d}
       ELSE UNCHANGED <<file, open>>
    /\ UNCHANGED <<probes, full>>

-----------------------------------------------------------------------------
(***************************************************************************)
(* Running and ending                                                      *)
(***************************************************************************)

\* Notifications, and probes, fill a queue while its daemon scans.
Fill(d) ==
    /\ d = file
    /\ d \in open \ full
    /\ full' = full \cup {d}
    /\ UNCHANGED <<file, at, probes, open, overlapped, disturbed>>

\* should_scan_tmux and drain_tmux_socket.
Drain(d) ==
    /\ at[d] = "running"
    /\ d \in full
    /\ full' = full \ {d}
    /\ UNCHANGED <<file, at, probes, open, overlapped, disturbed>>

\* An error ends the loop, and the guard is dropped.
Stop(d) ==
    /\ at[d] = "running"
    /\ Goes(d, "check")
    /\ disturbed' = disturbed \cup Others(d, Starting)
    /\ UNCHANGED <<file, probes, open, full, overlapped>>

\* Fault: the socket is closed before its file is removed.
ClosesFirst(d) ==
    /\ at[d] = "check"
    /\ Goes(d, IF file \in Daemon THEN "unlink" ELSE "close")
    /\ open' = open \ {d}
    /\ full' = full \ {d}
    /\ UNCHANGED <<file, probes, overlapped, disturbed>>

\* TmuxSocketGuard::drop: whose socket it is, is not asked.
DropCheck(d) ==
    /\ at[d] = "check"
    /\ Goes(d, IF file \in Daemon THEN "unlink" ELSE "close")
    /\ UNCHANGED <<file, probes, open, full, overlapped, disturbed>>

DropUnlink(d) ==
    /\ at[d] = "unlink"
    /\ Goes(d, "close")
    /\ file' = Absent
    /\ UNCHANGED <<probes, open, full, overlapped, disturbed>>

\* The process ends: its socket is closed.
Closed(d) ==
    /\ Goes(d, "off")
    /\ open' = open \ {d}
    /\ full' = full \ {d}
    /\ UNCHANGED <<file, probes, overlapped, disturbed>>

DropClose(d) == at[d] = "close" /\ Closed(d)

\* A signal or a crash, at any point: no destructor runs.
Kill(d) == at[d] # "off" /\ Closed(d)

-----------------------------------------------------------------------------
SocketInit ==
    /\ file \in {Absent, Foreign}
    /\ at = [d \in Daemon |-> "off"]
    /\ probes = [d \in Daemon |-> 0]
    /\ open = {}
    /\ full = {}
    /\ overlapped = FALSE
    /\ disturbed = {}

\* What a daemon does of itself once it was started or told to stop.
Proceed(d) ==
    \/ Look(d)
    \/ FileKind(d)
    \/ Probe(d)
    \/ Remove(d)
    \/ Bind(d)
    \/ Drain(d)
    \/ DropCheck(d)
    \/ DropUnlink(d)
    \/ DropClose(d)

\* What others, and accidents, do to it.
HappensTo(d) ==
    \/ StartDaemon(d)
    \/ Fill(d)
    \/ Stop(d)
    \/ Kill(d)

SocketNext == \E d \in Daemon : Proceed(d) \/ HappensTo(d)

SocketSpec == SocketInit /\ [][SocketNext]_socketVars

\* A process keeps running, and a sender that waits for a queue gets its turn
\* among the others; nothing makes a daemon start, stop or crash.
SocketProgress == \A d \in Daemon : WF_socketVars(Proceed(d)) /\ SF_socketVars(Probe(d))

SocketFairSpec == SocketSpec /\ SocketProgress

-----------------------------------------------------------------------------
(***************************************************************************)
(* Properties                                                              *)
(***************************************************************************)

\* As long as no two starts have overlapped, every running daemon owns the
\* path: notifications reach it, there is no other, and no start or end of
\* another has taken its file away, whatever crashed in between.
RunningOwnsPath ==
    ~overlapped => \A d \in Daemon : at[d] = "running" => file = d /\ d \in open

\* A start that no other start or end has met is refused only for a listener
\* that answers or a file that is no socket: what a crash leaves behind never
\* keeps the daemon from coming back.
RefusedForCause ==
    [][\A d \in Daemon :
         /\ FileKind(d) \/ Probe(d) \/ Remove(d) \/ Bind(d)
         /\ at'[d] = "off"
         => Live \/ file = Foreign \/ d \in disturbed]_socketVars

\* A start comes to an end, even if it probes a daemon that is busy or that
\* crashes with a full queue.
StartEnds ==
    \A d \in Daemon : at[d] \in Starting ~> at[d] \in {"running", "off"}
=============================================================================
