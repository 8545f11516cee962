--------------------------- MODULE StdioEngineProofs ---------------------------
(***************************************************************************)
(* Proofs about StdioEngine and the calls it makes, for every set of       *)
(* models and any number of candidate models and sessions.                 *)
(***************************************************************************)
EXTENDS StdioEngine, SequenceTheorems, TLAPS

-----------------------------------------------------------------------------
(***************************************************************************)
(* One call                                                                *)
(***************************************************************************)
\* Every attempt but the last has failed, and while one is under way there is
\* a candidate for it.
CallInvariant ==
    /\ FirstSuccessAnswers
    /\ ~Calling => tried = <<>>
    /\ attempt # "text" => \A i \in 1..Len(tried) : ~tried[i]
    /\ attempt = "next" => Len(tried) <= Len(Candidates(client, override))
    /\ attempt \in {"asked", "askedAgain", "running", "cleaning"} => Untried

\* An attempt that could not be set up has no subprocess.
ChildInvariant ==
    /\ NothingLeftBehind
    /\ attempt = "cleaning" => child = "none"

\* There are finitely many candidates.
LEMMA CandidatesCounted ==
    ASSUME EngineConstants, CallTypeOK, NEW c, NEW model
    PROVE  Len(Candidates(c, model)) \in Nat
<1>1. env.models \in Seq(Model)
    <2>1. PICK n \in 0..Keys : env.models \in [1..n -> Model]
        BY DEF CallTypeOK, Environment
    <2>2. n \in Nat
        BY DEF EngineConstants
    <2> QED
        BY <2>1, <2>2, SeqDef
<1>2. Candidates(c, model) \in {<<>>, <<model>>, env.models, <<Standard>>}
    BY DEF Candidates
<1> QED
    BY <1>1, <1>2, LenProperties, EmptySeq

\* An attempt ends: the next candidate follows a failure.
LEMMA AttemptedKeeps ==
    ASSUME EngineConstants, CallTypeOK, CallInvariant,
           attempt \in {"asked", "askedAgain", "running", "cleaning"},
           NEW ok \in BOOLEAN, Attempted(ok), UNCHANGED <<env, client, override>>
    PROVE  /\ CallInvariant' /\ tried' \in Seq(BOOLEAN)
           /\ attempt' \in {"text", "next"}
<1> DEFINE n == Len(tried)
<1>1. /\ tried' \in Seq(BOOLEAN) /\ Len(tried') = n + 1 /\ n \in Nat
      /\ tried'[n + 1] = ok
      /\ \A i \in 1..n : tried'[i] = tried[i]
    BY AppendProperties, LenProperties DEF Attempted, CallTypeOK
<1>2. attempt' = (IF ok THEN "text" ELSE "next")
    BY DEF Attempted, AfterAttempt
<1>3. n < Len(Candidates(client, override)) /\ \A i \in 1..n : ~tried[i]
    BY DEF CallInvariant, Untried
<1>4. Candidates(client, override)' = Candidates(client, override)
    BY DEF Candidates
<1>5. Len(Candidates(client, override)) \in Nat
    BY CandidatesCounted
<1>6. \A i \in 1..Len(tried') : tried'[i] <=> i = n + 1 /\ ok
    BY <1>1, <1>3
<1> HIDE DEF n
<1>7. CASE ok
    <2>1. tried' # <<>>
        BY <1>1, EmptySeq
    <2>2. \A i \in 1..Len(tried') : tried'[i] <=> i = Len(tried')
        BY <1>1, <1>6, <1>7
    <2> QED
        BY <1>1, <1>2, <1>7, <2>1, <2>2 DEF CallInvariant, FirstSuccessAnswers, Calling
<1>8. CASE ~ok
    <2>1. \A i \in 1..Len(tried') : ~tried'[i]
        BY <1>6, <1>8
    <2>2. Len(tried') <= Len(Candidates(client, override)')
        BY <1>1, <1>3, <1>4, <1>5
    <2> QED
        BY <1>1, <1>2, <1>8, <2>1, <2>2 DEF CallInvariant, FirstSuccessAnswers, Calling
<1> QED
    BY <1>1, <1>2, <1>7, <1>8

\* What a call and its subprocess do keeps the invariants of the call.
LEMMA CallKeeps ==
    ASSUME EngineConstants, CallTypeOK, CallInvariant, ChildInvariant,
           CallSteps \/ SubprocessSteps
    PROVE  /\ CallTypeOK' /\ CallInvariant' /\ ChildInvariant'
           /\ Calling /\ Calling' /\ UNCHANGED <<env, client, override>>
<1> DEFINE count == Len(Candidates(client, override))
<1>1. UNCHANGED <<env, client, override>>
    BY DEF CallSteps, SubprocessSteps, AllFailed, Ask, Answer, Spawn, Poll, SetupFailed,
       Exit, TimePasses, PollFails
<1>2. Candidates(client, override)' = Candidates(client, override) /\ count \in Nat
    BY <1>1, CandidatesCounted DEF Candidates
<1>3. Len(tried) \in Nat
    BY LenProperties DEF CallTypeOK
<1> USE DEF ChildInvariant, NothingLeftBehind
<1>4. CASE AllFailed
    <2>1. Len(tried) = count
        BY <1>2, <1>3, <1>4 DEF AllFailed, Untried, CallInvariant
    <2> QED
        BY <1>1, <1>2, <1>4, <2>1
        DEF AllFailed, CallTypeOK, Attempt, CallInvariant, FirstSuccessAnswers, Calling
<1>5. CASE Ask
    BY <1>1, <1>2, <1>5
    DEF Ask, CallTypeOK, Attempt, CallInvariant, FirstSuccessAnswers, Calling, Untried
<1>6. ASSUME NEW reply \in {"error", "empty", "text"}, Answer(reply)
      PROVE  CallTypeOK' /\ CallInvariant' /\ ChildInvariant' /\ Calling /\ Calling'
    <2>1. CASE attempt = "asked" /\ reply = "empty"
        BY <1>1, <1>2, <1>6, <2>1
        DEF Answer, CallTypeOK, Attempt, CallInvariant, FirstSuccessAnswers, Calling, Untried
    <2>2. CASE ~(attempt = "asked" /\ reply = "empty")
        <3>1. (reply = "text") \in BOOLEAN /\ Attempted(reply = "text")
            BY <1>6, <2>2 DEF Answer
        <3>2. CallInvariant' /\ tried' \in Seq(BOOLEAN) /\ attempt' \in {"text", "next"}
            BY <1>1, <1>6, <3>1, AttemptedKeeps DEF Answer
        <3> QED
            BY <1>1, <1>6, <3>2 DEF Answer, CallTypeOK, Attempt, Calling
    <2> QED
        BY <2>1, <2>2
<1>7. ASSUME NEW created \in Created, Spawn(created)
      PROVE  CallTypeOK' /\ CallInvariant' /\ ChildInvariant' /\ Calling /\ Calling'
    BY <1>1, <1>2, <1>7
    DEF Spawn, Created, CallTypeOK, Attempt, File, CallInvariant, FirstSuccessAnswers, Calling, Untried
<1>8. ASSUME NEW ok \in BOOLEAN, Attempted(ok), attempt \in {"running", "cleaning"},
             child' = "none" \/ (attempt = "cleaning" /\ child' = child),
             files' = Dropped, UNCHANGED expired
      PROVE  CallTypeOK' /\ CallInvariant' /\ ChildInvariant' /\ Calling /\ Calling'
    <2>1. CallInvariant' /\ tried' \in Seq(BOOLEAN) /\ attempt' \in {"text", "next"}
        BY <1>1, <1>8, AttemptedKeeps
    <2> QED
        BY <1>1, <1>8, <2>1 DEF Dropped, CallTypeOK, Attempt, File, Calling
<1>9. CASE Poll
    BY <1>8, <1>9 DEF Poll, Terminated
<1>10. CASE PollFails
    BY <1>8, <1>10 DEF PollFails
<1>11. CASE SetupFailed
    BY <1>8, <1>11 DEF SetupFailed
<1>12. CASE TimePasses \/ \E how \in {"good", "empty", "bad"} : Exit(how)
    BY <1>1, <1>2, <1>12
    DEF TimePasses, Exit, CallTypeOK, CallInvariant, FirstSuccessAnswers, Calling, Untried
<1> QED
    BY <1>1, <1>4, <1>5, <1>6, <1>7, <1>9, <1>10, <1>11, <1>12 DEF CallSteps, SubprocessSteps

-----------------------------------------------------------------------------
(***************************************************************************)
(* Backends and lines                                                      *)
(***************************************************************************)
\* Every line of the client is a line.
LEMMA LinesType ==
    ASSUME EngineConstants, NEW l \in Lines
    PROVE  l \in Line
<1>1. Around(HotMin) \cup Around(HotMax) \cup Around(WarmMax) \cup Around(ColdMax)
        \cup {HotMin, HotMax, WarmMax} \subseteq Nat
    BY DEF Around, HotMin, HotMax, WarmMax, ColdMax
<1>2. /\ Sound.cadence \in Cadence
      /\ [hot : Around(HotMin) \cup Around(HotMax),
          warm : {HotMin, HotMax} \cup Around(WarmMax),
          cold : {HotMin, WarmMax} \cup Around(ColdMax)] \subseteq Cadence
    BY <1>1 DEF Sound, Cadence
<1>3. 0 \in 0..MaxSessions
    BY DEF EngineConstants
<1>4. CASE l \in CallingLines
    BY <1>2, <1>4 DEF CallingLines, Line
<1>5. ASSUME NEW text \in SUBSET {"undecodable", "garbled", "json"},
             NEW type \in SUBSET {"sync", "other", "absent", "number"},
             NEW id \in SUBSET {"text", "absent", "number"},
             NEW shaped \in SUBSET BOOLEAN, l \in LinesOf(text, type, id, shaped)
      PROVE  l \in Line
    BY <1>2, <1>3, <1>5 DEF LinesOf, Line
<1>6. ASSUME NEW backend \in SUBSET {"other", Nothing}, NEW fits \in SUBSET BOOLEAN,
             NEW cued \in SUBSET BOOLEAN, NEW cadence \in SUBSET Cadence,
             l \in SyncLinesOf(backend, fits, cued, cadence)
      PROVE  l \in Line
    BY <1>3, <1>6 DEF SyncLinesOf, Line
<1>7. {TRUE} \in SUBSET BOOLEAN /\ BOOLEAN \in SUBSET BOOLEAN
    BY Zenon
<1>8. {Sound.cadence} \in SUBSET Cadence
    BY <1>2
<1>9. CASE \/ l \in LinesOf({"undecodable", "garbled"}, {"sync"}, {"text"}, {TRUE})
           \/ l \in LinesOf({"json"}, {"sync", "other", "absent", "number"},
                            {"text", "absent", "number"}, BOOLEAN)
    BY <1>5, <1>7, <1>9
<1>10. CASE \/ l \in SyncLinesOf({"other", Nothing}, BOOLEAN, BOOLEAN, {Sound.cadence})
            \/ l \in SyncLinesOf({Nothing}, {TRUE}, {TRUE},
                     [hot : Around(HotMin) \cup Around(HotMax),
                      warm : {HotMin, HotMax} \cup Around(WarmMax),
                      cold : {HotMin, WarmMax} \cup Around(ColdMax)])
    BY <1>2, <1>6, <1>7, <1>8, <1>10
<1> QED
    BY <1>4, <1>9, <1>10, Zenon DEF Lines

\* A backend that was not detected resolves to one client only, the named one
\* if the environment names one.
LEMMA ResolvedOnce ==
    ASSUME EngineConstants, CallTypeOK
    PROVE  /\ Resolved \subseteq Backend
           /\ ~Detected => \A a, b \in Resolved : a = b
           /\ FromEnvValue(env.backend) # Nothing => Resolved = {FromEnvValue(env.backend)}
BY DEF EngineConstants, CallTypeOK, Environment, Resolved, Probes, FromEnvValue, Backend, Detected

\* Each client is filed under its own kind, unless detection changed its mind.
ClientsInvariant ==
    /\ phase = "starting" => \A b \in Backend : clients[b] = Nothing
    /\ phase = "creating" =>
         \A b \in Backend : clients[b] # Nothing => clients[b] = b /\ b \in Resolved
    /\ phase \in {"greeting", "reading", "handling", "syncing", "answering"} =>
         /\ default \in Resolved
         /\ \A b \in Backend : clients[b] \in {Nothing, b} \/ (Detected /\ b = default)

\* A call is made for an accepted request, with the client of its backend.
PhaseInvariant ==
    /\ Calling => /\ phase = "syncing" /\ left > 0
                  /\ client = clients[BackendFor(line)]
    /\ phase = "handling" => line.text # "undecodable"
    /\ phase = "syncing" => Accepted(line) /\ clients[BackendFor(line)] # Nothing

\* The parts together hold by induction.
EngineInvariant ==
    /\ TypeOK
    /\ CallInvariant /\ ChildInvariant
    /\ ClientsInvariant /\ PhaseInvariant
    /\ AnswerFitsLine

\* The backend of an accepted request is one of the two.
LEMMA BackendType ==
    ASSUME EngineConstants, NEW l \in Line, Accepted(l), default \in Backend
    PROVE  BackendFor(l) \in Backend
BY DEF EngineConstants, Line, Accepted, ConfigAccepted, BackendFor, FromEnvValue, Backend

\* The requests that the code accepts are those of the protocol.
LEMMA AcceptedAsSpecified ==
    ASSUME EngineConstants, NEW l \in Line
    PROVE  Accepted(l) <=>
             /\ l.text = "json" /\ l.type = "sync" /\ l.id = "text"
             /\ l.shaped /\ l.fits /\ l.cued
             /\ l.backend \in {"openrouter", "codex", Nothing}
             /\ Valid(l.cadence)
<1>1. CadencesAccepted(l.cadence) <=> Valid(l.cadence)
    <2> DEFINE c == l.cadence
    <2>1. c.hot \in Nat /\ c.warm \in Nat /\ c.cold \in Nat
        BY DEF Line, Cadence
    <2> HIDE DEF c
    <2>2. \A n, low, high \in Nat : n \in low..high <=> low <= n /\ n <= high
        OBVIOUS
    <2>. HotMin \in Nat /\ HotMax \in Nat /\ WarmMax \in Nat /\ ColdMax \in Nat
        BY DEF HotMin, HotMax, WarmMax, ColdMax
    <2>3. Valid(c) <=>
            /\ c.hot >= HotMin /\ c.warm >= HotMin /\ c.cold >= HotMin
            /\ c.hot <= HotMax /\ c.warm <= WarmMax /\ c.cold <= ColdMax
            /\ c.hot <= c.warm /\ c.warm <= c.cold
        BY DEF Valid
    <2>4. CadencesAccepted(c) <=> Valid(c)
        <3>1. CadencesAccepted(c) <=>
                /\ HotMin <= c.hot /\ c.hot <= c.warm /\ c.warm <= c.cold
                /\ c.hot <= HotMax /\ c.warm <= WarmMax /\ c.cold <= ColdMax
            BY <2>1, <2>2, Zenon DEF CadencesAccepted
        <3> QED
            BY <2>1, <2>3, <3>1 DEF HotMin, HotMax, WarmMax, ColdMax
    <2> QED
        BY <2>4 DEF c
<1>2. (l.backend # Nothing => FromEnvValue(l.backend) # Nothing)
        <=> l.backend \in {"openrouter", "codex", Nothing}
    BY DEF EngineConstants, Line, FromEnvValue, Backend
<1> QED
    BY <1>1, <1>2 DEF Accepted, ConfigAccepted

\* A refusal is an answer, bears the id of its line and is no result.
LEMMA RefusalFits ==
    ASSUME EngineConstants, NEW l \in Line, l.text # "undecodable"
    PROVE  /\ Refusal(l) \in [id : {"text", Nothing}, code : Code, failed : BOOLEAN]
           /\ Refusal(l).id = IF l.text = "json" THEN Given(l.id) ELSE Nothing
           /\ Refusal(l).code # "sync_result"
<1>1. l.text \in {"garbled", "json"} /\ l.type \in {"sync", "other", "absent", "number"}
    BY DEF Line
<1>2. PICK id \in {Nothing, Given(l.id)},
           code \in {"invalid_json", "invalid_request", "unknown_message_type", "invalid_config"} :
        /\ Refusal(l) = Error(id, code)
        /\ id = IF l.text = "json" THEN Given(l.id) ELSE Nothing
    BY <1>1 DEF Refusal, Headed
<1> QED
    BY <1>2 DEF Error, Given, Code

-----------------------------------------------------------------------------
(***************************************************************************)
(* The loop                                                                *)
(***************************************************************************)
\* Whatever leaves the call alone keeps what is known of it.
LEMMA CallUnchanged ==
    ASSUME CallTypeOK, CallInvariant, ChildInvariant, UNCHANGED <<env, callVars>>
    PROVE  /\ CallTypeOK' /\ CallInvariant' /\ ChildInvariant'
           /\ Calling' = Calling /\ Resolved' = Resolved /\ Detected' = Detected
BY DEF callVars, CallTypeOK, CallInvariant, ChildInvariant, FirstSuccessAnswers,
   NothingLeftBehind, Calling, Untried, Candidates, Resolved, Probes, Detected

\* Starting the process keeps the invariant.
LEMMA StartKeeps ==
    ASSUME EngineConstants, EngineInvariant,
           Start \/ \E b \in Backend : Build(b) \/ Create(b)
    PROVE  EngineInvariant'
<1> USE DEF EngineInvariant, TypeOK, AnswerFitsLine, ClientsInvariant, PhaseInvariant
<1>1. CASE Start
    <2>1. UNCHANGED <<env, callVars>>
        BY <1>1 DEF Start
    <2> QED
        BY <1>1, <2>1, CallUnchanged DEF Start, Backend
<1>2. ASSUME NEW b \in Backend, Build(b)
      PROVE  EngineInvariant'
    <2>1. UNCHANGED <<env, callVars>> /\ b \in Resolved /\ clients' \in [Backend -> Backend \cup {Nothing}]
        BY <1>2 DEF Build
    <2> QED
        BY <1>2, <2>1, CallUnchanged DEF Build
<1>3. ASSUME NEW b \in Backend, Create(b)
      PROVE  EngineInvariant'
    <2>1. UNCHANGED <<env, callVars>> /\ b \in Resolved /\ default' = b /\ phase' = "greeting"
        BY <1>3 DEF Create
    <2>2. PICK built \in Backend :
            /\ built \in Resolved
            /\ clients' = [d \in Backend |-> IF d = b THEN built ELSE Nothing]
        BY <1>3 DEF Create
    <2>3. built = b \/ Detected
        BY <2>1, <2>2, ResolvedOnce
    <2>4. ClientsInvariant'
        BY <2>1, <2>2, <2>3, CallUnchanged
    <2> QED
        BY <1>3, <2>1, <2>2, <2>4, CallUnchanged DEF Create
<1> QED
    BY <1>1, <1>2, <1>3

\* So does reading, refusing and writing.
LEMMA LineKeeps ==
    ASSUME EngineConstants, EngineInvariant,
           Write \/ Refuse \/ EndOfInput \/ \E l \in Lines : Read(l)
    PROVE  EngineInvariant'
<1> USE DEF EngineInvariant, TypeOK, AnswerFitsLine, ClientsInvariant, PhaseInvariant
<1>1. UNCHANGED <<env, callVars, clients, default, left>>
    BY DEF Write, Refuse, EndOfInput, Read
<1>2. CASE Write
    <2>1. Sound \in Line /\ NoAnswer \in [id : {"text", Nothing}, code : Code, failed : BOOLEAN]
        <3>1. Sound \in Line
            <4>1. HotMin \in Nat /\ 0 \in 0..MaxSessions
                BY DEF HotMin, EngineConstants
            <4> QED
                BY <4>1 DEF Sound, Line, Cadence
        <3> QED
            BY <3>1 DEF NoAnswer, Code
    <2> QED
        BY <1>1, <1>2, <2>1, CallUnchanged DEF Write
<1>3. CASE Refuse
    <2>1. line.text # "undecodable"
        BY <1>3 DEF Refuse
    <2>2. answer' = Refusal(line) /\ line' = line /\ phase' = "answering" /\ ~Accepted(line)
        BY <1>3 DEF Refuse, Answers
    <2>3. AnswerFitsLine'
        BY <2>1, <2>2, RefusalFits, AcceptedAsSpecified, Zenon
    <2> QED
        BY <1>1, <1>3, <2>1, <2>2, <2>3, RefusalFits, CallUnchanged DEF Refuse
<1>4. CASE EndOfInput
    BY <1>1, <1>4, CallUnchanged DEF EndOfInput
<1>5. ASSUME NEW l \in Lines, Read(l)
      PROVE  EngineInvariant'
    BY <1>1, <1>5, LinesType, CallUnchanged DEF Read
<1> QED
    BY <1>2, <1>3, <1>4, <1>5

\* A result bears its request's id.
LEMMA ResultFits ==
    ASSUME EngineConstants, NEW failed \in BOOLEAN, line \in Line, Accepted(line),
           answer' = Result(failed), line' = line
    PROVE  AnswerFitsLine' /\ answer' \in [id : {"text", Nothing}, code : Code, failed : BOOLEAN]
<1>1. answer'.id = "text" /\ answer'.code = "sync_result" /\ line.id = "text" /\ line.text = "json"
    BY DEF Result, Accepted
<1>2. AnswerFitsLine'
    BY <1>1, AcceptedAsSpecified DEF AnswerFitsLine, Given
<1> QED
    BY <1>1, <1>2 DEF Result, Code

\* So does a sync, call by call.
LEMMA SyncKeeps ==
    ASSUME EngineConstants, EngineInvariant, Sync \/ Pass \/ Finish
    PROVE  EngineInvariant'
<1> USE DEF EngineInvariant, TypeOK, ClientsInvariant, PhaseInvariant
<1>1. UNCHANGED <<env, callVars, default, line>>
    BY DEF Sync, Pass, Finish
<1>2. CASE Sync
    <2> DEFINE backend == BackendFor(line)
    <2>1. Accepted(line) /\ phase = "handling" /\ backend \in Backend
        BY <1>2, BackendType DEF Sync
    <2>2. CASE \E failed \in BOOLEAN : Answers(Result(failed)) /\ UNCHANGED <<clients, left>>
        BY <1>1, <2>1, <2>2, ResultFits, CallUnchanged DEF Answers
    <2>3. CASE /\ \/ clients[backend] # Nothing /\ UNCHANGED clients
                  \/ clients' = [clients EXCEPT ![backend] = backend]
               /\ phase' = "syncing" /\ left' = line.sessions /\ UNCHANGED answer
        <3>1. clients' \in [Backend -> Backend \cup {Nothing}]
            BY <2>1, <2>3
        <3>2. \A b \in Backend : clients'[b] \in {Nothing, b} \/ (Detected /\ b = default)
            BY <2>1, <2>3
        <3>3. clients'[backend] # Nothing
            BY <2>1, <2>3 DEF EngineConstants
        <3>4. BackendFor(line)' = backend
            BY <1>1 DEF BackendFor
        <3>5. left' \in 0..MaxSessions
            BY <2>3 DEF Line
        <3> QED
            BY <1>1, <2>1, <2>3, <3>1, <3>2, <3>3, <3>4, <3>5, CallUnchanged
            DEF AnswerFitsLine
    <2> QED
        BY <1>2, <2>2, <2>3 DEF Sync, EnsureClient, NoClient
<1>3. CASE Pass
    <2>1. left' \in 0..MaxSessions
        BY <1>3 DEF Pass, EngineConstants
    <2> QED
        BY <1>1, <1>3, <2>1, CallUnchanged DEF Pass, AnswerFitsLine, BackendFor
<1>4. CASE Finish
    <2>1. Accepted(line) /\ answer.failed \in BOOLEAN /\ answer' = Result(answer.failed)
          /\ phase' = "answering" /\ ~Calling
        BY <1>4 DEF Finish, Answers
    <2> QED
        BY <1>1, <1>4, <2>1, ResultFits, CallUnchanged DEF Finish
<1> QED
    BY <1>2, <1>3, <1>4

\* And the call.
LEMMA CallsKeep ==
    ASSUME EngineConstants, EngineInvariant,
           \/ Call \/ Return
           \/ (CallSteps \/ SubprocessSteps) /\ UNCHANGED engineVars
    PROVE  EngineInvariant'
<1> USE DEF EngineInvariant, TypeOK
<1>1. CASE Call
    <2> DEFINE backend == BackendFor(line)
    <2>1. phase = "syncing" /\ left > 0 /\ attempt = "none" /\ attempt' = "next" /\ tried = <<>>
          /\ Len(tried) = 0 /\ UNCHANGED <<env, tried, files, child, expired>>
          /\ client' = clients[backend] /\ override' = line.model /\ UNCHANGED engineVars
        BY <1>1, EmptySeq DEF Call, Complete, CallInvariant, Calling
    <2>2. backend \in Backend /\ clients[backend] \in Backend
        BY <2>1, BackendType DEF PhaseInvariant
    <2>3. CallTypeOK'
        BY <2>1, <2>2 DEF CallTypeOK, Attempt, Line
    <2>4. Len(Candidates(client, override))' \in Nat
        <3>1. Candidates(client, override)' = Candidates(client', override')
            BY <2>1 DEF Candidates
        <3> QED
            BY <3>1, CandidatesCounted
    <2>5. CallInvariant'
        BY <2>1, <2>4 DEF CallInvariant, FirstSuccessAnswers, Calling
    <2>6. ChildInvariant'
        BY <2>1 DEF ChildInvariant, NothingLeftBehind
    <2>7. PhaseInvariant' /\ ClientsInvariant' /\ AnswerFitsLine'
        BY <2>1 DEF PhaseInvariant, ClientsInvariant, AnswerFitsLine, engineVars, BackendFor,
           Resolved, Probes, Detected, Calling
    <2> QED
        BY <2>1, <2>3, <2>5, <2>6, <2>7 DEF engineVars
<1>2. CASE Return
    <2>1. Calling /\ phase = "syncing" /\ left > 0
        BY <1>2 DEF Return, Calling, PhaseInvariant
    <2>2. /\ attempt' = "none" /\ tried' = <<>> /\ Len(tried') = 0 /\ client' = "openrouter"
          /\ override' = Nothing /\ expired' = FALSE /\ left' = left - 1
          /\ UNCHANGED <<env, files, child, phase, clients, default, line>>
          /\ answer' = [answer EXCEPT !.failed = @ \/ attempt = "failed"]
        BY <1>2, EmptySeq DEF Return, Forgotten
    <2>3. CallTypeOK' /\ CallInvariant' /\ ChildInvariant' /\ ~Calling'
        <3>1. CallTypeOK' /\ ~Calling'
            BY <2>2, EmptySeq DEF CallTypeOK, Attempt, Backend, Calling
        <3>2. CallInvariant'
            BY <2>2 DEF CallInvariant, FirstSuccessAnswers, Calling
        <3>3. ChildInvariant'
            BY <1>2, <2>2 DEF Return, ChildInvariant, NothingLeftBehind
        <3> QED
            BY <3>1, <3>2, <3>3
    <2>4. left' \in 0..MaxSessions
        BY <2>1, <2>2 DEF EngineConstants
    <2>5. answer' \in [id : {"text", Nothing}, code : Code, failed : BOOLEAN]
        BY <2>2
    <2>6. PhaseInvariant' /\ ClientsInvariant' /\ AnswerFitsLine'
        BY <2>1, <2>2, <2>3 DEF PhaseInvariant, ClientsInvariant, AnswerFitsLine, BackendFor,
           Resolved, Probes, Detected
    <2> QED
        BY <2>2, <2>3, <2>4, <2>5, <2>6
<1>3. CASE (CallSteps \/ SubprocessSteps) /\ UNCHANGED engineVars
    <2>1. /\ CallTypeOK' /\ CallInvariant' /\ ChildInvariant'
          /\ Calling /\ Calling' /\ UNCHANGED <<env, client, override>>
        BY <1>3, CallKeeps
    <2>2. PhaseInvariant' /\ ClientsInvariant' /\ AnswerFitsLine'
        BY <1>3, <2>1 DEF PhaseInvariant, ClientsInvariant, AnswerFitsLine, engineVars,
           BackendFor, Resolved, Probes, Detected
    <2> QED
        BY <1>3, <2>1, <2>2 DEF engineVars
<1> QED
    BY <1>1, <1>2, <1>3

-----------------------------------------------------------------------------
(***************************************************************************)
(* Theorems                                                                *)
(***************************************************************************)
\* A process that has not been started satisfies the invariant.
LEMMA Initially ==
    ASSUME EngineConstants, Init
    PROVE  EngineInvariant
<1> USE DEF Init, CallInit
<1>1. CallTypeOK
    BY EmptySeq DEF CallTypeOK, Attempt, Backend
<1>2. CallInvariant /\ ChildInvariant
    BY EmptySeq DEF CallInvariant, FirstSuccessAnswers, Calling, ChildInvariant, NothingLeftBehind
<1>3. Sound \in Line
    <2>1. HotMin \in Nat /\ 0 \in 0..MaxSessions
        BY DEF HotMin, EngineConstants
    <2> QED
        BY <2>1 DEF Sound, Line, Cadence
<1>4. TypeOK
    <2>1. 0 \in 0..MaxSessions /\ NoAnswer \in [id : {"text", Nothing}, code : Code, failed : BOOLEAN]
        BY DEF EngineConstants, NoAnswer, Code
    <2> QED
        BY <1>1, <1>3, <2>1 DEF TypeOK, Backend
<1> QED
    BY <1>1, <1>2, <1>4 DEF EngineInvariant, ClientsInvariant, PhaseInvariant, AnswerFitsLine, Calling

\* Every step keeps it.
LEMMA NextKeeps ==
    ASSUME EngineConstants, EngineInvariant, [Next]_vars
    PROVE  EngineInvariant'
<1>1. CASE UNCHANGED vars
    <2>1. UNCHANGED <<env, callVars>> /\ UNCHANGED callVars /\ UNCHANGED engineVars
        BY <1>1 DEF vars
    <2>2. UNCHANGED <<client, attempt>>
        BY <2>1 DEF callVars
    <2>3. CallTypeOK' /\ CallInvariant' /\ ChildInvariant' /\ Calling' = Calling
          /\ Resolved' = Resolved /\ Detected' = Detected
        BY <2>1, CallUnchanged DEF EngineInvariant, TypeOK
    <2>4. ClientsInvariant' /\ PhaseInvariant' /\ AnswerFitsLine'
        BY <2>1, <2>2, <2>3 DEF EngineInvariant, ClientsInvariant, PhaseInvariant,
           AnswerFitsLine, engineVars, BackendFor
    <2> QED
        BY <2>1, <2>3, <2>4 DEF EngineInvariant, TypeOK, engineVars
<1> QED
    BY <1>1, StartKeeps, LineKeeps, SyncKeeps, CallsKeep DEF Next, Engine, Client, Subprocess

\* The loop, its clients and the call in progress keep their invariants through
\* any lines, failures and restarts.
THEOREM InvariantHolds ==
    ASSUME EngineConstants
    PROVE  Spec => []EngineInvariant
<1>1. Init => EngineInvariant
    BY Initially
<1>2. EngineInvariant /\ [Next]_vars => EngineInvariant'
    BY NextKeeps
<1> QED
    BY <1>1, <1>2, PTL DEF Spec

\* The answer to a line bears the id of the line, and is a result exactly for
\* the requests that the protocol allows, whatever their cadences.
THEOREM AnswersFit ==
    ASSUME EngineConstants
    PROVE  Spec => []AnswerFitsLine
<1>1. EngineInvariant => AnswerFitsLine
    BY DEF EngineInvariant
<1> QED
    BY <1>1, InvariantHolds, PTL

\* The backend that a request or the environment names is the one that is
\* called, unless it was detected.
THEOREM CallsFit ==
    ASSUME EngineConstants
    PROVE  Spec => []CallFitsRequest
<1>1. EngineInvariant => CallFitsRequest
    <2> SUFFICES ASSUME EngineInvariant, Calling, Named # Nothing, client # Named
                 PROVE  Detected /\ Named = default
        BY DEF CallFitsRequest
    <2>1. /\ client = clients[BackendFor(line)] /\ clients[BackendFor(line)] # Nothing
          /\ Accepted(line) /\ line \in Line /\ default \in Backend /\ CallTypeOK
          /\ default \in Resolved
          /\ \A b \in Backend : clients[b] \in {Nothing, b} \/ (Detected /\ b = default)
        BY DEF EngineInvariant, PhaseInvariant, ClientsInvariant, TypeOK
    <2>2. BackendFor(line) \in Backend
        BY <2>1, BackendType
    <2>3. Named = BackendFor(line)
        BY <2>1, ResolvedOnce DEF Named, BackendFor
    <2> QED
        BY <2>1, <2>2, <2>3
<1> QED
    BY <1>1, InvariantHolds, PTL

\* A call answers with the first candidate that succeeds and fails only after
\* all of them, for any number of candidates.
THEOREM FirstSuccessIsAnswered ==
    ASSUME EngineConstants
    PROVE  Spec => []FirstSuccessAnswers
<1>1. EngineInvariant => FirstSuccessAnswers
    BY DEF EngineInvariant, CallInvariant
<1> QED
    BY <1>1, InvariantHolds, PTL

\* No way out of an attempt leaves a temporary file behind, or a subprocess
\* that can still be reached.
THEOREM NothingIsLeftBehind ==
    ASSUME EngineConstants
    PROVE  Spec => []NothingLeftBehind
<1>1. EngineInvariant => NothingLeftBehind
    BY DEF EngineInvariant, ChildInvariant
<1> QED
    BY <1>1, InvariantHolds, PTL
=============================================================================
