------------------------------- MODULE ModelCall -------------------------------
(***************************************************************************)
(* The clients of the model backends: which backend is chosen, which       *)
(* models a call asks, and what one call does.                             *)
(*                                                                         *)
(* A call tries its candidate models in turn.  An OpenRouter attempt is    *)
(* one request, and a second one without reasoning if the first comes back *)
(* empty.  A Grok attempt writes a prompt file, runs a subprocess with its *)
(* output in two more files, and polls it until it ends or its time is up. *)
(* The subprocess runs on its own: it ends at any time, or never.          *)
(*                                                                         *)
(* Left out: the contents of prompts and answers, arguments, permissions.  *)
(* A file is named by its use, since every attempt has names of its own    *)
(* (unique_stamp).                                                         *)
(*                                                                         *)
(* Source: src/src/emit/model_client.rs.                                   *)
(***************************************************************************)
EXTENDS Naturals, Sequences

CONSTANTS
    Model,      \* names of models
    Standard,   \* a backend's own default model
    Keys,       \* MODEL_ENV_KEYS, by their number
    Nothing     \* an absent or unknown value

VARIABLES
    env,        \* the process environment, and whether grok is installed
    client,     \* the kind of client that is called
    override,   \* the model the request names
    attempt,    \* what the call is doing
    tried,      \* which of the attempts so far have succeeded
    files,      \* temporary files of the attempt
    child,      \* the subprocess of the attempt
    expired     \* the time of the subprocess is up

callVars == <<client, override, attempt, tried, files, child, expired>>

Backend == {"openrouter", "grok"}
File == {"prompt", "stdout", "stderr"}

Environment ==
    [models : UNION {[1..n -> Model] : n \in 0..Keys},  \* SWIMMERS_THOUGHT_MODEL*
     key : BOOLEAN,                                   \* OPENROUTER_API_KEY
     backend : {"openrouter", "codex", "other", Nothing},  \* CLAWGS_MODEL_BACKEND
     grok : BOOLEAN]

Attempt == {"none", "next", "asked", "askedAgain", "running", "cleaning", "text", "failed"}

CallTypeOK ==
    /\ env \in Environment
    /\ client \in Backend
    /\ override \in Model \cup {Nothing}
    /\ attempt \in Attempt
    /\ tried \in Seq(BOOLEAN)
    /\ files \subseteq File
    /\ child \in {"none", "running", "good", "empty", "bad"}
    /\ expired \in BOOLEAN

-----------------------------------------------------------------------------
(***************************************************************************)
(* Backends and models                                                     *)
(***************************************************************************)

\* ModelBackend::from_env_value, with one legacy name for all.
FromEnvValue(name) ==
    CASE name = "openrouter" -> "openrouter"
      [] name \in {"grok", "codex"} -> "grok"
      [] name \notin {"openrouter", "grok", "codex"} -> Nothing

\* command_available: an installed program can be too slow for the probe.
Probes == IF env.grok THEN BOOLEAN ELSE {FALSE}

\* The backends that resolve_model_backend may find.
Resolved ==
    IF FromEnvValue(env.backend) # Nothing THEN {FromEnvValue(env.backend)}
    ELSE IF env.key THEN {"openrouter"}
    ELSE {IF found THEN "grok" ELSE "openrouter" : found \in Probes}

\* The outcomes of validate_backend_credentials.
Credentials(backend) == IF backend = "openrouter" THEN {env.key} ELSE Probes

\* candidate_models; without its key the OpenRouter client asks none.
Candidates(c, model) ==
    IF c = "openrouter" /\ ~env.key THEN <<>>
    ELSE IF model # Nothing THEN <<model>>
    ELSE IF env.models # <<>> THEN env.models
    ELSE <<Standard>>

-----------------------------------------------------------------------------
(***************************************************************************)
(* A call                                                                  *)
(***************************************************************************)
Calling == attempt # "none"

Complete(c, model) ==
    /\ attempt = "none"
    /\ client' = c
    /\ override' = model
    /\ attempt' = "next"
    /\ UNCHANGED <<env, tried, files, child, expired>>

\* Fault: the first failure is final.
GivesUp(ok) == IF ok THEN "text" ELSE "failed"

\* complete_with_models: the next candidate follows a failure.
AfterAttempt(ok) == IF ok THEN "text" ELSE "next"

Attempted(ok) ==
    /\ tried' = Append(tried, ok)
    /\ attempt' = AfterAttempt(ok)

Untried == Len(tried) < Len(Candidates(client, override))

AllFailed ==
    /\ attempt = "next"
    /\ ~Untried
    /\ attempt' = "failed"
    /\ UNCHANGED <<env, client, override, tried, files, child, expired>>

\* nonempty_openrouter_response.
Ask ==
    /\ attempt = "next" /\ Untried
    /\ client = "openrouter"
    /\ attempt' = "asked"
    /\ UNCHANGED <<env, client, override, tried, files, child, expired>>

\* An error of the first request fails the attempt, an empty answer asks
\* again, and an error then is as good as another empty answer.  The HTTP
\* client's own timeout is an error.
Answer(reply) ==
    /\ attempt \in {"asked", "askedAgain"}
    /\ IF attempt = "asked" /\ reply = "empty"
       THEN attempt' = "askedAgain" /\ UNCHANGED tried
       ELSE Attempted(reply = "text")
    /\ UNCHANGED <<env, client, override, files, child, expired>>

\* Private files are created in turn, and each can be the one that cannot be.
Created == {{}, {"prompt"}, {"prompt", "stdout"}, File}

\* complete_once until the subprocess is spawned, which can fail too.
Spawn(created) ==
    /\ attempt = "next" /\ Untried
    /\ client = "grok"
    /\ files' = created
    /\ \/ created = File /\ attempt' = "running" /\ child' = "running"
       \/ attempt' = "cleaning" /\ UNCHANGED child
    /\ expired' = FALSE
    /\ UNCHANGED <<env, client, override, tried>>

\* The subprocess exits, with output, without, or with an error.
Exit(how) ==
    /\ child = "running"
    /\ child' = how
    /\ UNCHANGED <<env, client, override, attempt, tried, files, expired>>

TimePasses ==
    /\ child = "running"
    /\ ~expired
    /\ expired' = TRUE
    /\ UNCHANGED <<env, client, override, attempt, tried, files, child>>

\* Fault: only a subprocess that ends is waited for.
NeverLate == FALSE

\* The timeout of wait_with_timeout.
OutOfTime == expired

\* kill and wait.
Terminated == "none"

\* Fault: only the prompt is removed.
PromptRemoved == files \ {"prompt"}

\* TempFileGuard::drop.
Dropped == {}

\* wait_with_timeout: the subprocess has exited and is reaped, or is out of
\* time and killed; else the thread sleeps.
Poll ==
    /\ attempt = "running"
    /\ \/ /\ child # "running"
          /\ Attempted(child = "good")
          /\ child' = "none"
       \/ /\ child = "running" /\ OutOfTime
          /\ Attempted(FALSE)
          /\ child' = Terminated
    /\ files' = Dropped
    /\ UNCHANGED <<env, client, override, expired>>

\* The poll itself fails: the subprocess is left to itself and never reaped.
PollFails ==
    /\ attempt = "running"
    /\ Attempted(FALSE)
    /\ child' = "none"
    /\ files' = Dropped
    /\ UNCHANGED <<env, client, override, expired>>

SetupFailed ==
    /\ attempt = "cleaning"
    /\ Attempted(FALSE)
    /\ files' = Dropped
    /\ UNCHANGED <<env, client, override, child, expired>>

\* What the calling thread, and the network on its behalf, does.
CallSteps ==
    \/ AllFailed
    \/ Ask
    \/ \E reply \in {"error", "empty", "text"} : Answer(reply)
    \/ \E created \in Created : Spawn(created)
    \/ Poll
    \/ SetupFailed

SubprocessSteps ==
    \/ \E how \in {"good", "empty", "bad"} : Exit(how)
    \/ TimePasses
    \/ PollFails

\* The call has returned.
Forgotten ==
    /\ attempt' = "none"
    /\ tried' = <<>>
    /\ client' = "openrouter"
    /\ override' = Nothing
    /\ expired' = FALSE

CallInit ==
    /\ env \in Environment
    /\ client = "openrouter"
    /\ override = Nothing
    /\ attempt = "none"
    /\ tried = <<>>
    /\ files = {}
    /\ child = "none"
    /\ expired = FALSE

-----------------------------------------------------------------------------
(***************************************************************************)
(* Properties                                                              *)
(***************************************************************************)

\* A call answers with the first candidate that succeeds, and fails only
\* after all of them have: no failure of one attempt, of whatever kind, hides
\* the models after it or replaces an answer.
FirstSuccessAnswers ==
    /\ attempt = "text" =>
         /\ tried # <<>>
         /\ \A i \in 1..Len(tried) : tried[i] <=> i = Len(tried)
    /\ attempt = "failed" =>
         /\ Len(tried) = Len(Candidates(client, override))
         /\ \A i \in 1..Len(tried) : ~tried[i]

\* Whichever way an attempt ends, no temporary file stays behind, and no
\* subprocess except one whose poll has failed.
NothingLeftBehind ==
    attempt \notin {"running", "cleaning"} => files = {} /\ child = "none"
=============================================================================
