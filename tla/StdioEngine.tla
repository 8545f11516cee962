------------------------------ MODULE StdioEngine ------------------------------
(***************************************************************************)
(* emit --stdio: the loop that reads requests and writes answers, and the  *)
(* choice of the backend client for each of them.                          *)
(*                                                                         *)
(* The engine's client writes any lines, and stops reading or writing at   *)
(* any time.  Lines vary in one part at a time: the envelope, the config,  *)
(* or what the sync has to do.  Which sessions of a sync call a model is   *)
(* decided elsewhere (SessionEmission, RunCadence); here any of them may.  *)
(*                                                                         *)
(* Source: src/src/main.rs (emit), src/src/emit/protocol.rs, and the       *)
(* clients of src/src/emit/engine.rs.                                      *)
(***************************************************************************)
EXTENDS ModelCall

CONSTANT MaxSessions    \* sessions in a request

\* An absent value is none.
EngineConstants ==
    /\ Keys \in Nat /\ MaxSessions \in Nat
    /\ Nothing \notin Backend \cup {"codex", "other", "text", "sync_result"}

VARIABLES
    phase,      \* where the process is in its start and its loop
    clients,    \* EmitEngine::clients, by the kind of client they hold
    default,    \* EmitEngine::default_backend
    line,       \* the line read last
    left,       \* sessions of the request not yet processed
    answer      \* what is written for the line

engineVars == <<phase, clients, default, line, left, answer>>
vars == <<env, callVars, engineVars>>

-----------------------------------------------------------------------------
(***************************************************************************)
(* Lines                                                                   *)
(***************************************************************************)
HotMin == 5000
HotMax == 300000
WarmMax == 600000
ColdMax == 1800000

Around(n) == {n - 1, n, n + 1}

Cadence == [hot : Nat, warm : Nat, cold : Nat]

Line ==
    [text : {"undecodable", "garbled", "json"},
     type : {"sync", "other", "absent", "number"},
     id : {"text", "absent", "number"},
     shaped : BOOLEAN,                              \* the request parses
     enabled : BOOLEAN,
     backend : {"openrouter", "codex", "other", Nothing},
     model : Model \cup {Nothing},
     fits : BOOLEAN,                                \* no text is too long
     cadence : Cadence,
     cued : BOOLEAN,                                \* every cue is valid
     sessions : 0..MaxSessions]

\* A line that holds a valid request for nothing.
Sound ==
    [text |-> "json", type |-> "sync", id |-> "text", shaped |-> TRUE,
     enabled |-> TRUE, backend |-> Nothing, model |-> Nothing, fits |-> TRUE,
     cadence |-> [hot |-> HotMin, warm |-> HotMin, cold |-> HotMin],
     cued |-> TRUE, sessions |-> 0]

\* The lines whose parts are among the given ones, all other parts being
\* those of Sound.
LinesOf(text, type, id, shaped) ==
    [text : text, type : type, id : id, shaped : shaped, enabled : {TRUE},
     backend : {Nothing}, model : {Nothing}, fits : {TRUE},
     cadence : {Sound.cadence}, cued : {TRUE}, sessions : {0}]

SyncLinesOf(backend, fits, cued, cadence) ==
    [text : {"json"}, type : {"sync"}, id : {"text"}, shaped : {TRUE}, enabled : {TRUE},
     backend : backend, model : {Nothing}, fits : fits, cadence : cadence,
     cued : cued, sessions : {0}]

CallingLines ==
    [text : {"json"}, type : {"sync"}, id : {"text"}, shaped : {TRUE},
     enabled : BOOLEAN, backend : {"openrouter", "codex", Nothing},
     model : Model \cup {Nothing}, fits : {TRUE}, cadence : {Sound.cadence},
     cued : {TRUE}, sessions : 0..MaxSessions]

Lines ==
    LinesOf({"undecodable", "garbled"}, {"sync"}, {"text"}, {TRUE})
    \cup LinesOf({"json"}, {"sync", "other", "absent", "number"},
                 {"text", "absent", "number"}, BOOLEAN)
    \cup SyncLinesOf({"other", Nothing}, BOOLEAN, BOOLEAN, {Sound.cadence})
    \cup SyncLinesOf({Nothing}, {TRUE}, {TRUE},
                     [hot : Around(HotMin) \cup Around(HotMax),
                      warm : {HotMin, HotMax} \cup Around(WarmMax),
                      cold : {HotMin, WarmMax} \cup Around(ColdMax)])
    \cup CallingLines

\* The header parses: both of its fields are texts or absent.
Headed(l) == l.type # "number" /\ l.id # "number"

\* Fault: the order of the cadences is not checked.
CadencesInRange(c) ==
    c.hot \in HotMin..HotMax /\ c.warm \in HotMin..WarmMax /\ c.cold \in HotMin..ColdMax

\* validate_cadences.
CadencesAccepted(c) ==
    c.hot \in HotMin..HotMax /\ c.warm \in c.hot..WarmMax /\ c.cold \in c.warm..ColdMax

\* ThoughtConfig::validate, of which fits stands for the lengths.
ConfigAccepted(l) ==
    /\ l.fits
    /\ l.backend # Nothing => FromEnvValue(l.backend) # Nothing
    /\ CadencesAccepted(l.cadence)

Given(id) == IF id = "text" THEN id ELSE Nothing

Error(id, code) == [id |-> id, code |-> code, failed |-> FALSE]

\* The refusals of sync_response_for_line, in their order: emit_header_error
\* looks for the id once more.
Refusal(l) ==
    CASE l.text = "garbled" -> Error(Nothing, "invalid_json")
      [] l.text = "json" /\ (~Headed(l) \/ l.type = "absent") ->
           Error(Given(l.id), "invalid_request")
      [] l.text = "json" /\ Headed(l) /\ l.type = "other" ->
           Error(Given(l.id), "unknown_message_type")
      [] l.text = "json" /\ Headed(l) /\ l.type = "sync" ->
           IF ~l.shaped \/ l.id = "absent" THEN Error(Given(l.id), "invalid_request")
           ELSE IF ~ConfigAccepted(l) THEN Error(Given(l.id), "invalid_config")
           ELSE Error(Given(l.id), "invalid_request")

Accepted(l) ==
    /\ l.text = "json" /\ l.type = "sync" /\ l.id = "text"
    /\ l.shaped /\ ConfigAccepted(l) /\ l.cued

Result(failed) == [id |-> line.id, code |-> "sync_result", failed |-> failed]

Code == {"invalid_json", "invalid_request", "unknown_message_type",
         "invalid_config", "sync_result", Nothing}

NoAnswer == [id |-> Nothing, code |-> Nothing, failed |-> FALSE]

-----------------------------------------------------------------------------
(***************************************************************************)
(* Starting                                                                *)
(***************************************************************************)

\* Its client starts the process, at first or once more.
Start ==
    /\ phase = "ended"
    /\ phase' = "starting"
    /\ clients' = [b \in Backend |-> Nothing]
    /\ default' = "openrouter"
    /\ UNCHANGED <<env, callVars, line, left, answer>>

\* build_model_client; building an HTTP client can fail.
Build(backend) ==
    /\ phase = "starting"
    /\ backend \in Resolved
    /\ \/ /\ phase' = "creating"
          /\ clients' = [clients EXCEPT ![backend] = backend]
       \/ /\ backend = "openrouter"
          /\ phase' = "ended"
          /\ UNCHANGED clients
    /\ UNCHANGED <<env, callVars, default, line, left, answer>>

\* EmitEngine::new resolves the backend once more, and files the client that
\* was built under what it finds now.
Create(backend) ==
    /\ phase = "creating"
    /\ backend \in Resolved
    /\ default' = backend
    /\ \E built \in Backend :
         /\ clients[built] # Nothing
         /\ clients' = [b \in Backend |-> IF b = backend THEN built ELSE Nothing]
    /\ phase' = "greeting"
    /\ UNCHANGED <<env, callVars, line, left, answer>>

\* The hello, or an answer, is written, unless nobody reads any more.
Write ==
    /\ phase \in {"greeting", "answering"}
    /\ phase' \in {"reading", "ended"}
    /\ answer' = NoAnswer
    /\ line' = Sound
    /\ UNCHANGED <<env, callVars, clients, default, left>>

-----------------------------------------------------------------------------
(***************************************************************************)
(* One line                                                                *)
(***************************************************************************)

\* The next line that is not blank.  One that is not UTF-8 ends the loop.
Read(l) ==
    /\ phase = "reading"
    /\ IF l.text = "undecodable" THEN phase' = "ended" /\ UNCHANGED line
       ELSE phase' = "handling" /\ line' = l
    /\ UNCHANGED <<env, callVars, clients, default, left, answer>>

EndOfInput ==
    /\ phase = "reading"
    /\ phase' = "ended"
    /\ UNCHANGED <<env, callVars, clients, default, line, left, answer>>

Answers(a) == answer' = a /\ phase' = "answering"

Refuse ==
    /\ phase = "handling"
    /\ ~Accepted(line)
    /\ Answers(Refusal(line))
    /\ UNCHANGED <<env, callVars, clients, default, line, left>>

\* Fault: the backend of the request is ignored.
AlwaysDefault(l) == default

\* backend_override.
BackendFor(l) == IF l.backend = Nothing THEN default ELSE FromEnvValue(l.backend)

\* ensure_client: a client that it has is kept, and one that it builds is too.
EnsureClient(backend) ==
    \/ clients[backend] # Nothing /\ UNCHANGED clients
    \/ /\ clients[backend] = Nothing
       /\ TRUE \in Credentials(backend)
       /\ clients' = [clients EXCEPT ![backend] = backend]

\* The credentials are missing, or building an HTTP client fails.
NoClient(backend) ==
    /\ clients[backend] = Nothing
    /\ FALSE \in Credentials(backend) \/ backend = "openrouter"
    /\ UNCHANGED clients

\* EmitEngine::sync: a disabled one clears the sessions, and one without a
\* client carries them forward if credentials are missing.
Sync ==
    LET backend == BackendFor(line)
    IN  /\ phase = "handling"
        /\ Accepted(line)
        /\ \/ /\ ~line.enabled
              /\ Answers(Result(FALSE))
              /\ UNCHANGED <<clients, left>>
           \/ /\ line.enabled
              /\ EnsureClient(backend)
              /\ phase' = "syncing"
              /\ left' = line.sessions
              /\ UNCHANGED answer
           \/ /\ line.enabled
              /\ NoClient(backend)
              /\ Answers(Result(TRUE))
              /\ UNCHANGED left
        /\ UNCHANGED <<env, callVars, default, line>>

\* A session that needs no model.
Pass ==
    /\ phase = "syncing"
    /\ left > 0
    /\ ~Calling
    /\ left' = left - 1
    /\ UNCHANGED <<env, callVars, phase, clients, default, line, answer>>

Call ==
    /\ phase = "syncing"
    /\ left > 0
    /\ Complete(clients[BackendFor(line)], line.model)
    /\ UNCHANGED engineVars

\* complete_session_thought: the first error is kept.
Return ==
    /\ attempt \in {"text", "failed"}
    /\ Forgotten
    /\ left' = left - 1
    /\ answer' = [answer EXCEPT !.failed = @ \/ attempt = "failed"]
    /\ UNCHANGED <<env, files, child, phase, clients, default, line>>

Finish ==
    /\ phase = "syncing"
    /\ left = 0
    /\ Answers(Result(answer.failed))
    /\ UNCHANGED <<env, callVars, clients, default, line, left>>

-----------------------------------------------------------------------------
Init ==
    /\ CallInit
    /\ phase = "ended"
    /\ clients = [b \in Backend |-> Nothing]
    /\ default = "openrouter"
    /\ line = Sound
    /\ left = 0
    /\ answer = NoAnswer

\* What the process does once it has a line, and while it starts.
Engine ==
    \/ \E backend \in Backend : Build(backend) \/ Create(backend)
    \/ Write
    \/ Refuse
    \/ Sync
    \/ Pass
    \/ Call
    \/ Return
    \/ Finish
    \/ CallSteps /\ UNCHANGED engineVars

Client ==
    \/ Start
    \/ \E l \in Lines : Read(l)
    \/ EndOfInput

Subprocess == SubprocessSteps /\ UNCHANGED engineVars

Next == Engine \/ Client \/ Subprocess

Spec == Init /\ [][Next]_vars

\* The process runs, requests over the network are answered or time out, and
\* time passes; a subprocess need not end, and the client need not write.
Progress ==
    /\ WF_vars(Engine)
    /\ WF_vars(TimePasses /\ UNCHANGED engineVars)

FairSpec == Spec /\ Progress

-----------------------------------------------------------------------------
(***************************************************************************)
(* Properties                                                              *)
(***************************************************************************)
TypeOK ==
    /\ CallTypeOK
    /\ phase \in {"starting", "creating", "greeting", "reading", "handling",
                  "syncing", "answering", "ended"}
    /\ clients \in [Backend -> Backend \cup {Nothing}]
    /\ default \in Backend
    /\ line \in Line
    /\ left \in 0..MaxSessions
    /\ answer \in [id : {"text", Nothing}, code : Code, failed : BOOLEAN]

\* The ranges and the order of references/emit-protocol-v2.md.
Valid(c) ==
    /\ \A n \in {c.hot, c.warm, c.cold} : n >= HotMin
    /\ c.hot <= HotMax /\ c.warm <= WarmMax /\ c.cold <= ColdMax
    /\ c.hot <= c.warm /\ c.warm <= c.cold

\* An answer bears the id of its line, if the line has a readable one, although
\* the line is parsed up to three times; and it is a result exactly for the
\* requests that the protocol allows.
AnswerFitsLine ==
    phase = "answering" =>
        /\ answer.id = IF line.text = "json" THEN Given(line.id) ELSE Nothing
        /\ answer.code = "sync_result" <=>
             /\ line.text = "json" /\ line.type = "sync" /\ line.id = "text"
             /\ line.shaped /\ line.fits /\ line.cued
             /\ line.backend \in {"openrouter", "codex", Nothing}
             /\ Valid(line.cadence)

\* The backend that a request names, or else CLAWGS_MODEL_BACKEND, is the one
\* that is called.  Only a backend that was detected may be another: detecting
\* it twice can give two results.
Named ==
    IF line.backend # Nothing THEN FromEnvValue(line.backend)
    ELSE FromEnvValue(env.backend)

Detected == FromEnvValue(env.backend) = Nothing /\ ~env.key /\ env.grok

CallFitsRequest ==
    Calling /\ Named # Nothing =>
        client = Named \/ (Detected /\ Named = default)

\* A line is answered, or the process ends: a subprocess that hangs, a model
\* that fails and a request that is refused all leave the loop running.
LineIsHandled ==
    phase = "handling" ~> phase \in {"reading", "ended"}
=============================================================================
