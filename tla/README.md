# Verification of clawgs

clawgs watches coding agents (Claude Code, Codex) that run in terminal panes.
It reads their transcripts, derives deterministic facts ("waits for its user",
"ready to commit") and short model-written thoughts, and streams both to a
consumer as NDJSON. This directory holds TLA+ models of its stateful core, the
TLC configurations that check them, and TLAPS proofs about them.

Paths below are relative to the repository; `engine.rs`, `protocol.rs` and
`model_client.rs` are in `src/emit/`, `codex.rs` and `claude.rs` in
`src/parsers/`.

## 1. Inventory

| Component | State | Operations | Talks to |
|---|---|---|---|
| **Emit engine** (`engine.rs`) | `per_session`: one `SessionRuntimeState` per session id; clients per backend | `sync(request)` | called by the stdio loop and the tmux daemon; reads transcripts through discovery and the parsers; calls a model client |
| - transcript claims | `claimed_jsonl_path`, `claimed_cwd` | keep, adopt or drop a claim, per session of a sync | agents write the files at any time |
| - session emission | `thought`, `thought_state`, `rest_state`, `commit_candidate`, `action_cues`, `sleeping_emitted`, `last_emitted_activity_at`, `emission_seq` | the paths of a sync: disabled, no client, no credentials, exited, sleeping, waking, suppressed, failed, repeated, published | the consumer, which may send its cached fields back |
| - cadence and run | `last_call_at`, `objective_stable_since`, `run_started_at`, `run_finished_at` | due or not, stamp, freeze, restart, announce | the clock of the request |
| - session deltas | `last_observed` | `compute_session_deltas` | the consumer |
| **Tmux scan tracker** (`tmux.rs`) | `sessions`: the last sight of each pane | `scan`: list, capture, compare, report missing panes as exited | the tmux server |
| **tmux-emit daemon** (`main.rs`) | notify socket, reconcile deadline | wait, drain, scan, report | hooks (`tmux-notify`, `claude-hook-notify`) send datagrams |
| **Notify socket path** (`main.rs`) | the socket file, its listener and queue | look, probe, remove, bind, remove on drop | other daemons, crashes |
| **emit --stdio** (`main.rs`) | the engine and its clients | build a client, greet, one line in, one line out | a client such as a status reporter |
| **Protocol and configuration** (`protocol.rs`) | none | (de)serialise, validate cadences and cues | - |
| **Codex parser** (`codex.rs`) | snapshot, four maps of pending calls, commit signal | ingest an entry | read by `extract` and the engine |
| **Claude parser** (`claude.rs`) | snapshot; it has no commit signal | ingest an entry | same |
| **JSONL reader, discovery, extract, cues** (`lib.rs`, `parsers/mod.rs`) | none: every reading starts at the beginning of the file | visit lines, find the files of a directory, infer the tool, map signals to cues | the file system |
| **Model clients** (`model_client.rs`) | temporary files and a subprocess during a call | HTTP or subprocess call, fallback over models | backends |
| **Demo, defaults** (`demo.rs`, `main.rs`) | none | print fixed examples | - |

What is hard in it:

- *Ordering within a sync.* Sessions are visited one after another and share
  transcript files; the files change between two visits.
- *Many exits of one handler.* A sync of a session can end in ten ways, and each
  has to keep the same facts, the same timer and the same consumer view.
- *Two copies of the truth.* The engine's runtime state and the consumer's view
  are updated by the same response, which may be lost; after a restart the
  engine rebuilds its copy from the consumer's.
- *Facts older than the user's answer.* Transcripts and cached cues lag behind
  input.
- *Clocks.* Tiers, multipliers, failures, wakes and restarts decide about the
  next model call and about the run timer.
- *Commands that overlap edits.* A validation may run in parallel with other
  calls, in the background, across an edit, and its end may be reported by any
  poll, or never.
- *Files that are read while they grow.* A transcript says late, or never, whose
  it is, and folder names are ambiguous.
- *Steps between system calls.* Daemons look at, remove and bind one path, in
  turns and with crashes, and nothing locks it.
- *Many ways to fail one call.* Files, spawning, polling, time, empty answers,
  the next model.
- *A daemon that is busy.* While it scans and waits for a model, panes change and
  hooks fill a bounded queue.

What makes each part correct: claims are exclusive, current and sticky; the
consumer's view equals the engine's, says what the transcript says, and never
keeps an answered question; calls are spaced and announced times are kept; runs
stop exactly while a session sleeps; deltas suffice to follow the sessions; no
notification is lost and every pane's last state is reported eventually; the
path has one owner and a start is refused only for cause; a snapshot's turns and
questions are genuine, and its commit signal is what the commands since the last
edit have proved; a file stays with the directory it tells; every line has the
answer it deserves, from the backend it names, and a call fails only after all
its models.

## 2. Modules

| Module | Models | Checked by | Proved in |
|---|---|---|---|
| `TranscriptClaims` | claims of all sessions, one visit per step, file changes in between | `MCTranscriptClaims` | `TranscriptClaimsProofs` |
| `SessionEmission` | one session: pane, transcript, runtime state, consumer view | `MCSessionEmission` | `SessionEmissionProofs` |
| `RunCadence` | one session's clocks, run and announcements | `MCRunCadence` | `RunCadenceProofs` |
| `TmuxDaemon` | panes, hooks, queue, scan, tracker, deltas, consumer roster | `MCTmuxDaemon` | `TmuxDaemonProofs` |
| `SessionFollower` | abstract: what a consumer of the deltas is promised | refined by `TmuxDaemon` | |
| `TranscriptRecords` | the snapshot, the filters, the window and the cues that both parsers share | (below) | (below) |
| `CodexTranscript` | a Codex rollout and its parser, record by record | (below) | (below) |
| `ClaudeTranscript` | a Claude transcript and its parser, entry by entry | (below) | (below) |
| `TranscriptDiscovery` | files that agents write, and to whom discovery offers them | (below) | (below) |
| `CommitEvidence` | abstract: what commit readiness means | refined by `CodexTranscript` | |
| `TranscriptParsing` | discovery, resolution of the tool, then the parser of that tool | `MCTranscriptParsing` | `TranscriptParsingProofs` |
| `NotifySocket` | the daemons on one socket path | `Programs` | `NotifySocketProofs` |
| `ModelCall` | backends, candidate models, one call of either client | `Programs` | `StdioEngineProofs` |
| `StdioEngine` | `emit --stdio`: lines, refusals, clients, calls (extends `ModelCall`) | `Programs` | `StdioEngineProofs` |
| `Programs` | one of the two: the daemons of a path, or a stdio engine | `programs.cfg` | `ProgramsProofs` |

The models cut the program along its interfaces. `TmuxDaemon` produces the
requests whose sessions `TranscriptClaims` visits, as `StdioEngine` does for
another client; the files that `TranscriptClaims` may choose from are those that
`TranscriptDiscovery` offers; the transcript a visit ends up with, as
`TranscriptParsing` reads it, is the `transcript` of `SessionEmission`; the
decision whether the model may be called, a free choice in `SessionEmission` and
`StdioEngine`, is `HeldBack` in `RunCadence`; the outcome of a call, a free
choice in `SessionEmission` and `RunCadence`, is `ModelCall`; and whether a
session sleeps, a free choice in `RunCadence`, is `NextRest` in
`SessionEmission`. A free choice allows more than the code does, so what holds
with it holds in the code. Two compositions are modules of their own:
`TranscriptParsing` instantiates discovery and both parsers over one snapshot,
and `Programs` holds the two long-running programs, which share code and no
state, so that one model checks the properties of either.

Operators named "Fault: ..." are wrong variants of the definition that follows
them. No specification uses them; replacing the definition by its fault must
break the property it is paired with in `PROJECT.json`.

### TranscriptClaims

`BeginSync` is `EmitEngine::sync` up to its loop: states of sessions that are
no longer in the request are dropped, and sessions are visited only if emission is
enabled and a client exists. The other actions are the outcomes of
`process_session` for one pending session: `SkipExited` (`handle_exited_session`
returns before claims are touched), `KeepClaim` (`claimed_context_snapshot`),
`AdoptNewest` (`preferred_context_snapshot`), `ReadNoTranscript` (no supported
tool) and `DropClaim`. `CurrentClaim` is `invalidate_stale_claim`, which comes
first in each of them. A session is ambiguous if another one of the request has
the same tool and directory, live or not, as `compute_transcript_group_counts`
counts. Files are absent, unreadable or readable and change at any moment.

Discovery orders candidates by age; the model takes any of them. Requests obey
`MayFollow`: an exited session stays exited until it is dropped, which the
tracker guarantees, and, unless `ToolSwitch`, a pane is only seen with one agent.

### SessionEmission

`Respond` ends every sync: `runtime'` is what the engine keeps, `sent'` the last
update of the response, and the view takes it over unless the response is lost.
`sent` is `Unasked` after a step of the world, so that a sync that wrongly
changes nothing is still a step the action properties look at.
`Work` threads state and update through the calls of one handler, so that an
action is the whole path: waking emits a clear and the path goes on, a failed
call ends in `emit_passive_state_change_if_needed`, and so on. `Entry` is
`initialize_from_session`. `Context` is the transcript after
`enforce_input_causality`. `World` holds the client and the agent: output, rest,
exit, input, transcript records, an engine restart under a living consumer, and a
request without the session.

`client` says who drives the engine: whether it sends its cached fields back
(`Echo`, as stdio clients may and the tmux daemon does not) and whether responses
can be lost on the way to it (`Lossy`). A property that only some clients are
promised says so itself.

Abstractions: `Idle` and `Attention` are one state, so are `Busy` and `Error`
(no code of these paths tells them apart); a cue is its kind; texts are model
values; the input time stamp is a counter, and a user turn covers the input it
was recorded after. Left out are `thought_source`, `summary_history`,
`last_terminal_context`, token counts and prompt text.

### RunCadence

Time is the `now` of requests. `EntryAt` builds the clocks of a new state from
the cached update or from the pane's last activity, both of which may be ahead of
the request: the run is clamped (`Clamped`), `last_call_at` and
`objective_stable_since` are not. A replaced engine may be asked at an earlier time
than the one its client's view was built at. Within one engine's life request
times are assumed not to go back, since `freeze_run` and `restart_run` take the time
of a request as it is. `SyncCalls` covers all
outcomes of a call, because the stamp is set before the call. `Announce` is the
`timing` and `cues` part of an update. `Interruptions` switches on the paths that
are not plain visits.

### TmuxDaemon

`phase` is the program counter of `run_tmux_emit_loop` and `scan_with_bin`:
waiting, draining, listing, capturing, syncing. Panes change and hooks send in
every phase. `List` and each `Capture` see the panes at their own moment, so a
pane may be captured after it has closed or changed, and a capture may fail
(`CaptureFails`: the pane is gone, tmux refuses, or the answer of a batch lacks it),
which leaves an empty text. `Report` is the tracker's
update, the engine's deltas and the consumer's view of them. A time stamp is
"now" (`Stamped`) or "as before". `Fail` is a scan or write error, which ends the
daemon and its socket; `Start` is a new one. `owed` records for a property that a
hook has sent since the last listing.

### SessionFollower

The abstract specification knows no phases, captures, tracker, time stamps or delta
kinds. Sessions change at any time (`Become`); the follower looks at all of them at
one moment (`Look`), later tells the consumer the whole look at once (`Tell`), shows
what it no longer finds as exited for one time, and starts anew after its stream
has ended (`End`, `StartAnew`). `TmuxDaemon!FollowerSpec` maps the panes to what runs
in them, the listing to the look and the phases to open, looked and ended; a
capture is a stutter. The refinement says that a roster never mixes two moments,
although panes are captured one after another while others change, and although
only differences to the engine's last observation are sent. States are the one thing
the look does not decide: whether an agent or a shell is busy depends on its text, so
`Views` allows either, except where the code leaves no choice.

### TranscriptRecords, CodexTranscript, ClaudeTranscript

Each action is the recording of one entry by the agent's program and all that
`ingest` does with it. Texts are told apart by their writer: typed by the user,
said by the agent, or recorded by the harness in the name of either
(`HarnessMarkup`, and the apply_patch warning of `codex.rs`). `genuine`,
`misread` and `latest` are history for the properties: the stamp of the user's last
real turn, whether that turn or a record after it was misread, and whether the latest
record is the end of the agent's turn, one that no parser looks at, or another. A
time stamp may repeat an older one or be unreadable.

A record of the user's role has a first text, perhaps a second one and perhaps an
image. The two parsers differ in what they make of it: Claude's looks at both
texts for the watermark and at the first for the task; Codex's looks at the first
for either, so that what is typed behind a wrapper is not found.

`CodexTranscript` keeps what really runs behind a call id (`call`) and behind a
background session (`process`), which the parser does not know, next to what the
parser keeps (`pending`, `signal`). `Output`, `OutputGoesOn` and `StrayOutput`
are the outputs of a call that ended, that goes on in a session, and whose own
record was unreadable; `WriteStdin` is a poll; `UnseenItem` is the output of a custom
tool call or an item of a type that `entry_signals_agent_progress` does not name, with
which nothing is done. A few command lines stand for the
classes that `is_validation_command`, `is_dirty_check_command` and
`is_commit_command` distinguish, and an output is "ok", "failed" or "unframed", a
text whose header proves neither. The pending maps are sets, because the command
they hold is used only to classify it once more.

### CommitEvidence

The abstract specification knows neither pending maps nor an order of checks: a
command remembers whether it began before the last edit (`fresh`), evidence is
what fresh commands have proved, an edit discards it, and `cue` is the first step
that is missing. `CodexTranscript!EvidenceSpec` maps `running` and `background` to the
calls and processes with the parser's sets as their freshness. The refinement says
that forgetting what is pending at an edit is as good as remembering an edit for
every command, whatever the order of calls, outputs, polls and edits.

### TranscriptDiscovery and TranscriptParsing

A line is what its reading finds in it: undecodable, no JSON object, or an entry
that may tell a directory and its tool. `OfferedTo` is
`reader_matches_or_lacks_cwd` with both limits of the scan, `Resolutions` is
`discover_for_tool` and `discover_auto`, `Inferred` is `infer_tool_from_file`.
Modification times are a choice, names an order. Limits are constants.
`TranscriptParsing` lets the agents write, complete and delete files until an
`extract` resolves one (`Resolve`); then the records of its tool are ingested. The
lines, which discovery needs, and the records, which the parsers need, are two
views of one file; `Resolve` forgets the former.

### NotifySocket

One action per system call of `bind_tmux_socket`, `remove_existing_socket`,
`unix_socket_has_listener` and `TmuxSocketGuard::drop`, for any number of daemons
on one path. A probe is a datagram and so waits while the listener's queue is full
(`Probe`'s guard). `Kill` is a crash or a signal at any point: the kernel closes
the socket and the file stays. `overlapped` and `disturbed` are history for the
properties.

### ModelCall and StdioEngine

`Candidates` is `candidate_models`. `Ask` and `Answer` are an OpenRouter attempt
with its second request; `Spawn`, `Poll` and `SetupFailed` are a Grok attempt, each
of whose steps can fail, with `TempFileGuard::drop` at its end. `PollFails` is an
error of `try_wait`. The subprocess ends whenever it likes, or never. An installed
program may miss the deadline of `command_available`, so `Probes` may differ from
one time to the next.

`StdioEngine` starts the program (`Build`, `Create`, the hello), reads a line, and
refuses it or syncs. `Refusal` follows `sync_response_for_line` and
`emit_header_error` check by check; `ConfigAccepted` is `ThoughtConfig::validate`
with the code's numbers. `Lines` varies one part at a time, as it is built from
the sets of lines that exercise the envelope, the configuration, the cadences at
their boundaries and the calls.

## 3. Runs

| Run | Bounds | Shows |
|---|---|---|
| `claims_stable` | 2 panes, 2 directories, 3 files, 2 tools | types, exclusivity, directory, stickiness |
| `claims_tool_switch` | same, tools may change | **violation**: two live sessions on one file |
| `emission_echo` | 2 answers, 2 cue kinds, 2 activity stamps, 2 inputs, cached fields echoed | view, rest/thought agreement, facts shown, input causality, stamps |
| `emission_clients` | 1 answer, 1 cue kind, 3 activity stamps, no input; a client without echo, or one with echo whose responses may be lost | no redundant update, liveness of waiting; clears reach the consumer |
| `cadence_grok` | cadences 1/2/3 times 2, clock to 7, restarts | run matches sleep, frozen elapsed time, eligibility as lower bound |
| `cadence_openrouter` | cadences 1/2/3, clock to 5, all interruptions, views and activity from the future | clocks within the request but for those that were given, spacing of calls |
| `cadence_run_timer` | clock to 5, no restarts | **violation**: prose with a finished run |
| `daemon_roster` | 2 panes, 2 commands, 2 texts, queue of 1, failures | types, exact roster, kept notifications, refinement of `SessionFollower` |
| `daemon_progress` | 2 panes, 1 command, 2 texts, queue of 1, no failures | quiet panes turn idle, closed panes leave, hooks return |
| `transcripts` | 3 files of 3 lines in all, two directories of one slug, limits of 2; then 2 calls, 1 background session, 3 commands, a window of 1, 1 stamp; `TurnsBesideCalls` | turns and questions as they were read, refinement of `CommitEvidence`, settled owners |
| `codex_user_turn` | same, one call and one command | **violation**: a watermark that is not the user's |
| `programs` | 2 daemons, 3 probes; or 1 model, 2 environment keys, up to 2 sessions | one owner of the path, refusals with a cause, answers and calls that fit, fallback, nothing left behind, liveness of starts and lines |

Why the bounds are enough. Claims are compared in pairs, so two sessions meet in
every way that matters, and three files give a group two candidates and a session
a way to move. In `SessionEmission` two activity stamps tell "newer than the last
update" from "not newer", and two inputs let a second answer overtake the record
of the first. In `RunCadence` the clock passes all tiers and leaves room for a
call after the last of them. In `TmuxDaemon` the panes do not depend on each
other except through the queue and the phase, and a queue of one is full as soon
as it is used. In `transcripts` two calls are a command and a poll, or two commands
that overlap an edit, and one session suffices because polls of a session do not
look at another; the Claude file and the two rollouts with two directories of one
folder are the smallest instance with a newer and an older candidate and an
ambiguous slug; lines and limits let a scan end by each of its limits, by a directory
and by the end of the file. `TurnsBesideCalls` keeps `transcripts` from multiplying two
parts of the snapshot that no action reads together: every record is taken and
checked in every state of the calls, but what follows a turn that was misread or has
no stamp is explored only while no call is out and nothing is edited or proved. The
theorems do without it. In `programs` two daemons meet in every pair of
steps, and two keys give a call a first, a second and a repeated candidate. The proofs
remove these bounds for what they cover. `MaxTime`, `MaxActivity`, `MaxInput`,
`QueueMax`, `MaxLines` and `MaxSessions` are bounds of the models; `MaxActions`,
`Attempts`, `Keys` and the limits of discovery are constants of the code that a run
gives smaller values, except `Attempts`, which has the code's.

Deadlock is checked in every run.

### Fairness

`SessionEmission!FairSpec` assumes weak fairness of `Visit`, the syncs with
emission enabled: the daemon scans at its reconcile deadline without end, and a
stdio client polls. Disabled syncs, client failures and the world's steps have no
fairness. `TmuxDaemon!FairSpec` assumes weak fairness of the daemon's thread,
which never waits longer than a second before it looks at its deadline
(`tmux_socket_timeout`), and strong fairness of each hook's send: the kernel wakes
senders that wait for room in the queue, and a particular one must not be passed
over for ever. Panes have no fairness. `daemon_progress` excludes
failures, since a dead daemon makes no progress.

`NotifySocket!SocketProgress` assumes weak fairness of what each daemon does of itself,
since a process keeps running, and strong fairness of `Probe`, the blocked send
again. Nobody has to start, stop or crash. `StdioEngine!Progress` assumes weak
fairness of the process (its HTTP client has a timeout, so requests come to an
end) and of the passing of time, on which `wait_with_timeout` relies; the
subprocess need not end, and the client need not write a line.

### What the violations say

- `claims_tool_switch`: `references/emit-protocol-v2.md:157-159` says the engine
  "avoids claiming a single transcript for more than one live session". A claim
  remembers its directory but not its tool (`engine.rs:578`). One change of a pane's
  tool is enough: the session keeps its claim and reads the old file by its path, and
  since it has left its (tool, directory) group, a session of the old tool in that
  directory is no longer ambiguous and adopts the same file in the same sync.
- `cadence_run_timer`: line 161 of the same document says that
  `timing.run_finished_at` is "present only after the run has stopped". A session
  that leaves sleep in a sync without credentials keeps its finished run, and
  prose about the awake session reports it. The clear of a disabled sync and a
  revived session have the same effect.
- `codex_user_turn`: `references/schema-v2.md:34` calls `last_user_turn_at` the
  "UTC timestamp of the latest genuine input-bearing user turn" and says that "an
  older timestamp is never retained as evidence for that turn". The Codex parser
  looks at the first text of a record only (`codex.rs:535-548`), so a turn whose
  first text is a wrapper and whose second is typed keeps the older timestamp; and it
  filters the known apply_patch warning for the task but not for the watermark
  (`codex.rs:171-178`, `196-212`), so that warning, recorded in the user's name, moves
  it. `UserTurnIsRead` shows that these two are all.

### What else reading the code has shown

Not violations of a statement a run could check, but worth knowing:

- `timing.next_llm_eligible_at` (`references/emit-protocol-v2.md`) is only a
  lower bound: it is computed with the tier of the update (`engine.rs:1811`), and
  an objective that ages into a slower tier is held back longer.
  `EligibleIsLowerBound` shows that the model is never called earlier.
- `README.md:45` has hooks return "without blocking Claude", yet the send waits
  while the kernel's queue is full. `HookReturns` shows that it ends.
- If two starts overlap, the second can remove the socket the first has just
  bound; the first then runs on without notifications. `RunningOwnsPath` is stated,
  and proved, for starts that do not.
- `EmitEngine::new` resolves the backend a second time, so a client can be filed
  under another backend's name if detection gives two results (`CallFitsRequest`).
- A line on stdin that is not UTF-8 ends `emit --stdio` (`main.rs:330`).
- A subprocess whose poll fails is left running, and SIGKILL leaves temporary files.
- The pending set of validations alone is carried to background sessions: a commit
  or a dirty check that ends in one is never credited.
- Items that `entry_signals_agent_progress` does not name (the output of a custom tool
  call, a web search) leave a question open that the agent has gone on from
  (`QuestionIsOpen` allows just these).
- After an engine restart with a view from the future, `last_call_at` and
  `objective_stable_since` are ahead of the requests, and the model is not called until
  they catch up: `saturating_elapsed_ms` says that no time has passed.
- A pane whose capture fails now and then is seen to change each time, and does not
  turn idle (the premise of `QuietPaneTurnsIdle`).
- The `event_msg` twin of a final answer overwrites the awaiting text.
- A Claude turn's task is its first text block only.
- Automatic discovery compares the Claude file with the newest modification time
  with the Codex rollout with the newest name.
- A Claude transcript that does not tell its directory yet is offered to every
  directory of its folder.

## 4. Proofs

All theorems hold for every value of the constants that satisfies the named
assumptions of the modules (`ClaimConstants`, `EmissionConstants`,
`NothingApart`, `CadenceConstants`, `NeverApart`, `DaemonConstants`,
`GoneApart`, `RecordConstants`, `DiscoveryConstants`, `CodexConstants`,
`SocketConstants`), which TLC evaluates in the runs. The theorems about
`StdioEngine` have `EngineConstants` as a hypothesis, which TLC evaluates as
`ProgramConstants`.

**TranscriptClaims.** `TypeCorrect` and `ClaimsAreSticky` are unconditional.
Exclusivity is not inductive: between two visits of a sync two live sessions may
hold the same file, as long as one of them has moved and has its visit still to
come. `ClaimInvariant` says that, and that every claim is a file of its session's
agent and of the directory it was made in, and that visited sessions are
current. From it follow `ClaimsAreExclusive` and `ClaimsFollowDirectory`. The
assumptions are that panes keep their agent (`~ToolSwitch`; the violation run
shows that it is needed) and that no transcript belongs to two directories
(`DisjointCandidates`). Discovery filters Claude files by their recorded
directory; a file that records none can break the second assumption when two
directories have the same project slug.

**SessionEmission.** `EmissionInvariant` conjoins the view's agreement, the match
of rest and thought state, the withdrawal of questions, and stamps that are never
ahead of the pane's activity, together with the fact that without an echo an unknown
session is blank for its consumer. Each conjunct needs the others: a restart is
rebuilt from the view, so the runtime state is matched because the view is. The
proof shows that `Start`, `Emit`, `Passive`, `Clear` and `Woken` preserve a property
of work in progress, once, and every path of a sync is a composition of them.

The same compositions carry the action properties. `Sound` says what every path
keeps (an update shows what the engine then holds, and without one the view already
does), `VisitShowsFacts` that each of the paths of a live visit ends with
the facts of `Context`, and `Novel` that an update differs from what was shown or
answers newer activity. `FactsShown`, `InputWithdrawsFacts`, `FactsAreStamped` and
`UpdatesAreNews` follow. The properties themselves are about a consumer that gets
every response (`~Lossy`): a lost response leaves its view behind, and TLC finds a
counterexample to each of them without that condition. `ClearReachesConsumer` is the
one promise to a lossy consumer; it says `Echo \/ ~Lossy`, since only the fields the
consumer sends back tell the engine that there is still something to clear.

**RunCadence.** `ClocksInOrder`, `LastCallsRemembered`, `CallsAreSpaced` and
`AnnouncedTimesHold` hold under all interruptions. `RunsMatchSleep` and
`ProseReportsOpenRuns` need restarts to be the only one (`Uninterrupted`): the
violation run shows what the others do, and each of them alone breaks the
second. `ElapsedTimesFreeze` needs credentials alone (`Credentialed`): a sync without
them puts a session to sleep without its run. `CallsAreSpaced` follows
from the remembered call and from `TierCadence >= Hot`, which uses `Hot <= Warm <=
Cold`, the validation of `ThoughtConfig`.

`ClocksInOrder` says which clocks can be ahead of a request: none of the run, and of the
others only the stamp that a replaced engine was given, until its first call. The two
are proved together, since a call, a wake or a new objective is what ends it: the
stamp of a call is the request's, and from then on `history.restarted` is off.

Two of them need invariants of their own. `SleepIsFrozen` says that whoever sleeps
has a finished run, and was announced as stopped, from which a new engine rebuilds
it; so no path that meets a sleeping session finds a run to freeze again.
`AnnouncedNotLater` says that the time the consumer was told last has passed, or is
one for which the engine's clocks still wait, at the tier that the objective has by
now: stamps only go forward and tiers only grow while the objective stands, and what
retimes an announcement (a wake, a new objective, a new engine) is told apart by
`history.retimed`.

**TmuxDaemon.** `DaemonInvariant` adds `ScanIsComplete` to the exact roster and
the kept notifications: a delta is computed from a complete scan. `AppliedIsScanned`
is the heart of it: whatever the delta kind, applying it leaves the identity of
the scanned session. The roster's exactness includes that the tracker holds the tool
and directory that the consumer knows, because the refinement needs it: an exited
session is reported from the tracker's memory and must look as it was shown last.
`FollowerImplemented` maps `List` to `Look`, `Report` to `Tell`, `Fail` to `End`, `Start` to
`StartAnew`, changes of panes to `Become` and everything else to a stutter;
`ReportTells` splits a report into sessions that were listed (`ListedIsShown`) and those
that were not (`MissingIsShown`). `LifecyclesAreInOrder` (no session is born dead, none
leaves without one exit) follows from the same invariant.

**TranscriptParsing.** `RecordInvariant` (types, `QuestionIsOpen` and `UserTurnIsRead`)
is shared by both parsers: each of their actions is one of two forms, a record of the
user's role (`UserStep`: its watermark is the user's, or it is misread) or a step of
the agent (`AgentStep`: it ends its turn, goes on, or is not looked at). `GenuineTurns`
and `QuestionsOpen` follow for every record either parser can meet. `CommitInvariant` ties the pending sets to
what runs: a pending call is one that runs a command of its kind, and a pending
session is a validating process. With it `EvidenceImplemented` maps every step of
either parser, and of discovery, to a step of `CommitEvidence` or a stutter: an
edit to `Edit`, since it empties every set, an output to the end of a command whose
freshness is its membership. `OwnersSettled` holds because a line that tells a
directory stays within the limits of the scan once it is there, and lines are
only appended until a file is deleted.

**NotifySocket.** `SocketInvariant` is `Exclusion` and `Undisturbed`. Without an
overlap there is one start at most, what it has seen is still true when it acts on
it, and the file belongs to a daemon from its `bind` to its `unlink`, so that its
drop removes its own file: no other can have removed it, because its probe would
have been answered. `RefusalsHaveCause` uses the same for a single start that
nothing has met.

**StdioEngine.** `EngineInvariant` conjoins types, the accepted line of a sync and its
client (`PhaseInvariant`), where clients are filed (`ClientsInvariant`), the attempts so
far (`CallInvariant`), and files and subprocess (`ChildInvariant`). `AnswersFit` rests
on `AcceptedAsSpecified`: the chain of checks of the code accepts exactly the cadences
of the protocol.

**Programs.** Every step of either program is a step of its component and a stutter of
the other, and its fairness is theirs. So the composition implements
`SocketFairSpec` and `FairSpec` (`ProgramsImplementSocket`, `ProgramsImplementEngine`), and
`TypesCorrect` and `PromisesCompose` bring over what was proved of the components, with
the components' proofs as they are.

The inductive invariants, and with them `QuestionOnlyWhileAsleep` and
`LastCallRemembered`, appear only in proofs and in no run: a run's counterexample to
any of them would be a failed proof, and their consequences are what the runs
check. Neither does `LifecycleInOrder`, which `FollowerSpec` implies with more.

Only model-checked: liveness (`WaitingIsShown`, `QuietPaneTurnsIdle`,
`ClosedPaneLeaves`, `HookReturns`, `StartEnds`, `LineIsHandled`). It rests on fairness,
and so on ENABLED, which the prover does not handle. Every safety property and
action property of a passing run has a theorem.

## 5. Not modelled

- Text: construction of prompts, terminal deltas, duplicate detection, parsing of
  tmux output and of command lines, truncation. Their outcomes are free choices or
  representatives where they matter.
- In the parsers: token counts, details of actions, raw events.
- Encoding: field names and defaults of the wire format, which are not state;
  what makes a request acceptable is in `StdioEngine`.
- `emission_seq`, which starts again when a session was dropped and came back:
  the protocol makes no promise across sessions' lives.
- Modification times, which are free choices: the newest file may be any.
- The demo commands and printed defaults, which hold no state.

## 6. Plan

Done: claims, emission, cadence and daemon; transcripts (both parsers, discovery and
the refinement of `CommitEvidence`); the socket path, model calls and the stdio loop,
and their composition; the refinement of `SessionFollower`. All the safety and action
properties of the passing runs are proved.

Next theorems: which violations remain without `~ToolSwitch` in `TranscriptClaims`
(exclusivity for sessions whose panes kept their agent); a bound for
`OwnershipHolds` when starts overlap (one owner at most among the daemons whose
start met no other).

Next modules: a composition of `TmuxDaemon` and `SessionEmission` in which the
scans produce the pane facts.
