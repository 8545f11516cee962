-------------------------- MODULE NotifySocketProofs ---------------------------
(***************************************************************************)
(* Proofs about NotifySocket, for any number of daemons and probes.        *)
(*                                                                         *)
(* Exclusion is why starts that do not overlap are safe: a starting daemon *)
(* that is about to remove the file knows that nobody listens, since a     *)
(* running or ending daemon holds its socket until its file is gone, and   *)
(* one that is about to bind knows that there is no file.  Undisturbed is  *)
(* what a start knows, overlapped or not, that nothing else has crossed.   *)
(***************************************************************************)
EXTENDS NotifySocket, TLAPS

\* Without an overlap there is one starting daemon at most; the file is the
\* running daemon's, and an ending one's until it has removed it.
Exclusion ==
    ~overlapped =>
        /\ \A d, e \in Daemon : at[d] \in Starting /\ at[e] \in Starting => d = e
        /\ \A d \in Daemon :
             /\ at[d] \in {"running", "check", "unlink"} => file = d /\ d \in open
             /\ at[d] = "remove" => file \notin open
             /\ at[d] = "bind" => file = Absent

\* A start that nothing has crossed finds no other start or end under way, the
\* file it has seen still there, and the file it has removed still gone.
Undisturbed ==
    \A d \in Daemon :
        /\ at[d] \in Starting /\ d \notin disturbed => Others(d, Starting \cup Ending) = {}
        /\ at[d] \in {"kind", "probe", "remove"} /\ d \notin disturbed => file # Absent
        /\ at[d] = "bind" /\ d \notin disturbed => file = Absent

\* A start counts its probes from zero and uses up its attempts only by ending.
Counted ==
    \A d \in Daemon :
        /\ at[d] \in {"look", "kind"} => probes[d] = 0
        /\ at[d] = "probe" => probes[d] < Attempts

TypeInv == SocketTypeOK /\ Counted

SocketInvariant == TypeInv /\ Exclusion /\ Undisturbed

\* The sets of places and the constants, as the leaves below need them.
LEMMA Places ==
    /\ Absent # Foreign /\ Absent \notin Daemon /\ Foreign \notin Daemon
    /\ Attempts \in Nat /\ Attempts > 0
BY SocketConstants

-----------------------------------------------------------------------------
LEMMA InitInvariant == SocketInit => SocketInvariant
<1> SUFFICES ASSUME SocketInit PROVE SocketInvariant
    OBVIOUS
<1>1. \A d \in Daemon : at[d] = "off"
    BY DEF SocketInit
<1>2. SocketTypeOK
    <2>1. 0 \in 0..Attempts /\ "off" \in Place
        BY Places DEF Place
    <2>2. at \in [Daemon -> Place] /\ probes \in [Daemon -> 0..Attempts]
        BY <2>1 DEF SocketInit
    <2> QED
        BY <2>2 DEF SocketInit, SocketTypeOK
<1>3. Counted
    BY <1>1 DEF Counted
<1>4. Exclusion /\ Undisturbed
    BY <1>1 DEF Exclusion, Undisturbed, Starting
<1> QED
    BY <1>2, <1>3, <1>4 DEF SocketInvariant, TypeInv

\* Types and the count of probes are kept by every step.
LEMMA TypeStep == TypeInv /\ [SocketNext]_socketVars => TypeInv'
<1> SUFFICES ASSUME TypeInv, [SocketNext]_socketVars PROVE TypeInv'
    OBVIOUS
<1> USE Places DEF TypeInv, SocketTypeOK, Counted, Place, Starting, Ending, Goes, StartStep
<1>1. CASE UNCHANGED socketVars
    BY <1>1 DEF socketVars
<1>2. ASSUME NEW d \in Daemon, StartDaemon(d) PROVE TypeInv'
    BY <1>2 DEF StartDaemon, Others
<1>3. ASSUME NEW d \in Daemon, Look(d) \/ FileKind(d) PROVE TypeInv'
    <2>1. CASE Look(d)
        BY <2>1 DEF Look
    <2>2. CASE FileKind(d)
        BY <2>2 DEF FileKind
    <2> QED
        BY <1>3, <2>1, <2>2
<1>4. ASSUME NEW d \in Daemon, Probe(d) PROVE TypeInv'
    BY <1>4 DEF Probe, AfterProbe, Live
<1>5. ASSUME NEW d \in Daemon, Remove(d) \/ Bind(d) PROVE TypeInv'
    BY <1>5 DEF Remove, Bind
<1>6. ASSUME NEW d \in Daemon, Fill(d) \/ Drain(d) \/ Stop(d) PROVE TypeInv'
    BY <1>6 DEF Fill, Drain, Stop, Others
<1>7. ASSUME NEW d \in Daemon, DropCheck(d) \/ DropUnlink(d) PROVE TypeInv'
    BY <1>7 DEF DropCheck, DropUnlink
<1>8. ASSUME NEW d \in Daemon, DropClose(d) \/ Kill(d) PROVE TypeInv'
    BY <1>8 DEF DropClose, Kill, Closed
<1> QED
    BY <1>1, <1>2, <1>3, <1>4, <1>5, <1>6, <1>7, <1>8 DEF SocketNext, Proceed, HappensTo

\* Only a bind brings a listener to the path, and it binds its own.
LEMMA ExclusionStep == TypeInv /\ Exclusion /\ [SocketNext]_socketVars => Exclusion'
<1> SUFFICES ASSUME TypeInv, Exclusion, [SocketNext]_socketVars PROVE Exclusion'
    OBVIOUS
<1>1. CASE overlapped'
    BY <1>1 DEF Exclusion
<1>2. ASSUME ~overlapped', SocketNext PROVE Exclusion'
    <2> USE <1>2, Places DEF TypeInv, SocketTypeOK, Exclusion, Starting, Ending, Goes, StartStep
    <2>1. ASSUME NEW d \in Daemon, StartDaemon(d) PROVE Exclusion'
        BY <2>1 DEF StartDaemon, Others
    <2>2. ASSUME NEW d \in Daemon, Look(d) PROVE Exclusion'
        BY <2>2 DEF Look
    <2>3. ASSUME NEW d \in Daemon, FileKind(d) PROVE Exclusion'
        BY <2>3 DEF FileKind
    <2>4. ASSUME NEW d \in Daemon, Probe(d) PROVE Exclusion'
        BY <2>4 DEF Probe, AfterProbe, Live
    <2>5. ASSUME NEW d \in Daemon, Remove(d) PROVE Exclusion'
        BY <2>5 DEF Remove
    <2>6. ASSUME NEW d \in Daemon, Bind(d) PROVE Exclusion'
        BY <2>6 DEF Bind
    <2>7. ASSUME NEW d \in Daemon, Fill(d) \/ Drain(d) \/ Stop(d) PROVE Exclusion'
        BY <2>7 DEF Fill, Drain, Stop
    <2>8. ASSUME NEW d \in Daemon, DropCheck(d) PROVE Exclusion'
        BY <2>8 DEF DropCheck
    <2>9. ASSUME NEW d \in Daemon, DropUnlink(d) PROVE Exclusion'
        BY <2>9 DEF DropUnlink
    <2>10. ASSUME NEW d \in Daemon, DropClose(d) \/ Kill(d) PROVE Exclusion'
        BY <2>10 DEF DropClose, Kill, Closed
    <2> QED
        BY <2>1, <2>2, <2>3, <2>4, <2>5, <2>6, <2>7, <2>8, <2>9, <2>10
        DEF SocketNext, Proceed, HappensTo
<1>3. CASE UNCHANGED socketVars
    BY <1>3 DEF socketVars, Exclusion
<1> QED
    BY <1>1, <1>2, <1>3

\* Every step that could surprise a start marks it as disturbed.
LEMMA UndisturbedStep == TypeInv /\ Undisturbed /\ [SocketNext]_socketVars => Undisturbed'
<1> SUFFICES ASSUME TypeInv, Undisturbed, [SocketNext]_socketVars PROVE Undisturbed'
    OBVIOUS
<1> USE Places DEF TypeInv, SocketTypeOK, Undisturbed, Starting, Ending, Goes, StartStep, Others
<1>1. CASE UNCHANGED socketVars
    BY <1>1 DEF socketVars
<1>2. ASSUME NEW d \in Daemon, StartDaemon(d) PROVE Undisturbed'
    BY <1>2 DEF StartDaemon
<1>3. ASSUME NEW d \in Daemon, Look(d) PROVE Undisturbed'
    BY <1>3 DEF Look
<1>4. ASSUME NEW d \in Daemon, FileKind(d) PROVE Undisturbed'
    BY <1>4 DEF FileKind
<1>5. ASSUME NEW d \in Daemon, Probe(d) PROVE Undisturbed'
    BY <1>5 DEF Probe, AfterProbe, Live
<1>6. ASSUME NEW d \in Daemon, Remove(d) PROVE Undisturbed'
    BY <1>6 DEF Remove
<1>7. ASSUME NEW d \in Daemon, Bind(d) PROVE Undisturbed'
    BY <1>7 DEF Bind
<1>8. ASSUME NEW d \in Daemon, Fill(d) \/ Drain(d) \/ Stop(d) PROVE Undisturbed'
    BY <1>8 DEF Fill, Drain, Stop
<1>9. ASSUME NEW d \in Daemon, DropCheck(d) PROVE Undisturbed'
    BY <1>9 DEF DropCheck
<1>10. ASSUME NEW d \in Daemon, DropUnlink(d) PROVE Undisturbed'
    BY <1>10 DEF DropUnlink
<1>11. ASSUME NEW d \in Daemon, DropClose(d) \/ Kill(d) PROVE Undisturbed'
    BY <1>11 DEF DropClose, Kill, Closed
<1> QED
    BY <1>1, <1>2, <1>3, <1>4, <1>5, <1>6, <1>7, <1>8, <1>9, <1>10, <1>11
    DEF SocketNext, Proceed, HappensTo

LEMMA Inductive == SocketSpec => []SocketInvariant
<1>1. SocketInvariant /\ [SocketNext]_socketVars => SocketInvariant'
    BY TypeStep, ExclusionStep, UndisturbedStep DEF SocketInvariant
<1> QED
    BY InitInvariant, <1>1, PTL DEF SocketSpec

-----------------------------------------------------------------------------
\* Type correctness: in particular no start counts more probes than there are
\* attempts.
THEOREM TypeCorrect == SocketSpec => []SocketTypeOK
<1>1. SocketInvariant => SocketTypeOK
    BY DEF SocketInvariant, TypeInv
<1> QED
    BY Inductive, <1>1, PTL

\* As long as no two starts have overlapped, every running daemon owns the
\* path, whichever daemons ended or crashed in between (bind_tmux_socket and
\* the drop of its guard).
THEOREM OwnershipHolds == SocketSpec => []RunningOwnsPath
<1>1. SocketInvariant => RunningOwnsPath
    BY DEF SocketInvariant, Exclusion, RunningOwnsPath
<1> QED
    BY Inductive, <1>1, PTL

\* A start that nothing crosses is refused only for a listener that answers or
\* a file that is no socket (remove_existing_socket).
THEOREM RefusalsHaveCause == SocketSpec => RefusedForCause
<1> DEFINE Cause ==
      \A d \in Daemon :
         /\ FileKind(d) \/ Probe(d) \/ Remove(d) \/ Bind(d)
         /\ at'[d] = "off"
         => Live \/ file = Foreign \/ d \in disturbed
<1>1. SocketInvariant /\ [SocketNext]_socketVars => [Cause]_socketVars
    <2> SUFFICES ASSUME SocketInvariant, NEW d \in Daemon, at'[d] = "off",
                        FileKind(d) \/ Probe(d) \/ Remove(d) \/ Bind(d)
                 PROVE  Live \/ file = Foreign \/ d \in disturbed
        OBVIOUS
    <2> USE DEF SocketInvariant, TypeInv, SocketTypeOK, Undisturbed, StartStep, Goes
    <2>1. CASE FileKind(d)
        BY <2>1 DEF FileKind
    <2>2. CASE Probe(d)
        BY <2>2 DEF Probe, AfterProbe
    <2>3. CASE Remove(d)
        BY <2>3 DEF Remove
    <2>4. CASE Bind(d)
        BY <2>4 DEF Bind
    <2> QED
        BY <2>1, <2>2, <2>3, <2>4
<1> QED
    BY Inductive, <1>1, PTL DEF SocketSpec, RefusedForCause
=============================================================================
