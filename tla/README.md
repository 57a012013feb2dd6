# A TLA+ development for akmon

akmon is a coding agent for the terminal that keeps a tamper-evident record of
what it did. Its promise has two halves: the *agent loop* runs tools only as the
policy and the user allow, and the *journal* holds, for every session, a hash
chain of events that was written before anybody acted on it and that a third
party can verify. The modules here model those two halves and the code around
them: what feeds the loop (providers, tools, the terminal), what is made of the
record (bundles, seals, replay, diff), and the files that outlive a process.
TLC checks them on small instances; TLAPS proves the main invariants of the
journal, the verifiers, a provider call, the agent loop, the terminal, the file
tools, the headless run and the configuration for every instance.

Paths below are relative to `src/crates/`.

## 1. Inventory

| Component | State it keeps | Operations | Why it is hard |
|---|---|---|---|
| Journal: `akmon-journal` | redb file: `objects` (hash → bytes), `session_heads`, `session_events` keyed by (session, sequence) | `put`, `open_new`, `reopen`, `append`, `history`, `verify`, import | an append is two read and one write transaction; crashes between transactions; objects and events are separate transactions |
| Emission: `akmon-query/journal.rs`, `akmon-tools/journaling.rs`, `akmon-models/journaling.rs` | `JournalHandle` (store, graph behind a mutex), `ended` flag | `emit_*`, `JournalingTool::execute`, `JournalingProvider::complete`, `end`, `drop` | several emitters share a graph; degraded emissions; end may be retried; resume |
| Provider call: `akmon-models` backends and `JournalingStream` | attempts collected, stream flags, a bounded channel | `complete`, the spawned task, `poll_next`, `finalize` | task and reader run in parallel; retries; dropped readers; late records |
| Wire decoding: the five reading loops of `akmon-models` | byte buffer, partial calls, usage | one frame after another | frames cut anywhere, calls in pieces, bodies that end early in several ways |
| Choice of the provider: `llm_connect.rs`, `provider_resolution.rs` | settings of command line, environment, file | `resolve`, `explain_provider_resolution` | nine branches in order; the explanation is computed apart from the choice |
| Agent loop: `akmon-query/session.rs` | `AgentState`, resume state, remaining tool count, remembered approvals, repeat counts | `run`, `dispatch_tool_calls_batch`, summarization, `prepare_for_new_user_turn` | every path must agree with a transition table; prompts, parallel tools, interrupts, closed channels |
| Context: `session.rs`, `context.rs`, `context_manager.rs`, `microcompact.rs` | the list of messages | compose, summarize, fold, trim, compact, save, restore | positions in one list used in another; calls and results that must stay together; four request formats |
| State machine: `akmon-core/fsm` | none | `validate_transition`, `next_state_after` | two tables that must agree with each other and with the loop |
| Policy: `akmon-core/policy.rs` | none | verdict per mode, tool and MCP rules | deny must win over allow, over remembered approvals, and over tool rules |
| File tools, git: `akmon-tools` | the user's files | `edit`, `write_file`, `apply_patch`, `patch`, automatic commit | calls of a batch side by side, with the person's editor, kills and power losses |
| Terminal UI: `akmon-tui` | modal state, channels, interrupt flag, session thread, snapshots | key handling, slash commands, reload, architect phases, forwarding | two threads and four channels; a session is replaced while its predecessor may wait |
| Headless run: `akmon-cli/main.rs` | transcript, session index, audit log, evidence | `--task`, `--session`, `--continue`, `--plan`, `--architect` | five files written one by one by several processes; only the journal has a lock |
| Bundles, seals: `akmon-bundle`, `akmon-cli` | files, journals | export, import, verify, sign, attest, redact, seal | several writes per command; verification without a store; older versions |
| OpenTelemetry import: `akmon-otel` | none | spans to events | spans arrive in any order and more than once |
| Replay, diff: `akmon-replay`, `akmon-diff` | cursors over recorded calls, divergences | playback provider and tools, comparison | a replay meets an agent loop that asks in its own order; two comparisons of the same events |
| Configuration: `akmon-config`, `config_cmd.rs` | `config.toml`, `config.toml.tmp` | load, change, save; reset, edit | no lock, one temporary file, keys of newer versions |
| Sandbox, secrets, reading tools, shell, MCP | files, processes | - | system calls and data |

How they interact. The CLI or the TUI resolves a provider, opens a
`JournalHandle` and builds an `AgentSession` around the provider, tools, a policy
and a sandbox. `AgentSession::new` emits SessionStart (unless the session is
resumed) and wraps the provider in a `JournalingProvider` and every tool in a
`JournalingTool`, all sharing the handle's graph mutex. `run` takes one user
turn: it composes the messages, polls the provider's stream, drives the state
machine with one event per observation, sends each event to the caller's
channel, gates each tool call with the policy, waits on the caller's verdict
channel where the mode says so, runs the calls of a message in parallel, and
journals the user turn, each permission gate and each assistant message itself.
`end` or `drop` emits SessionEnd. What a process leaves (journal, transcript,
index, audit log, evidence, bundles) is what the next one starts from.

What makes each modelled component correct:

* journal: the chain is linked and gap-free whatever emitters, errors and
  crashes interleave; what `append` acknowledged stays; an event's objects are
  stored before it; sessions in one file do not affect each other;
* verifiers: the journal's and the bundle's accept exactly the chains that
  appends produce, and a head hash that a reader kept determines the session;
* provider call: exactly one event, in the journal before the terminal item is
  seen, whose attempts were made for that call; what is delivered is what the
  model said, and what is recorded is what was delivered;
* agent loop: the tables are never left, no tool runs ungated or against the
  policy, every message is journaled, a run returns; what the model is sent is
  the whole conversation, each call with its result;
* terminal: a prompt is on the screen and gets its own answer, a submitted turn
  ends, a snapshot never loses turns;
* files: whole at every instant, reports true, work committed; transcript, index,
  log and evidence fit together; the configuration loses nothing;
* bundles: signatures survive what is added later, sealed sets verify, imports
  are whole, redacted content is gone;
* replay: an honest session replays, a replay that passes did the same, and diff
  agrees with it.

`PROJECT.json` lists the components with their status and, under `hazards`, the
lines where these could go wrong.

## 2. Modules

| Module | Models | Extends / uses |
|---|---|---|
| `JournalEvents` | event kinds, hashes, the wire form that is hashed, the verifier's checks (`event.rs`, `session_graph.rs`) | - |
| `SessionLog` | abstract: an append-only log of kinds per session | - |
| `SessionGraph` | the journal and its emitters, one step per redb transaction | `JournalEvents`, `SessionLog` (refined) |
| `SessionGraphProofs` | theorems about `SessionGraph` | `SessionGraph`, TLAPS |
| `BundleFile` | a bundle: assembled, read, verified, signed, attested, redacted; no state | `JournalEvents` |
| `VerifyReports` | what `session verify`, `bundle verify`, `agef-verify` and `prove-openssl` say: JSON, terminal, Markdown, exit codes; no state | `BundleFile` |
| `JournalVerify` | a written session, edits to what is stored, the two verifiers | `VerifyReports` |
| `EvidenceProofs` | theorems about `JournalVerify` and `BundleCommands` | both, TLAPS |
| `InspectViews` | what `inspect` shows of events and objects; no state | `BundleFile` |
| `OtelTrace` | how a span of an OTLP export is decoded, in the three forms of the conventions; no state | `JournalEvents` |
| `OtelPlan` | the plan an import makes of a trace export; no state | `OtelTrace` |
| `BundleCommands` | the commands over journals and bundle files, one step per write | `VerifyReports`, `OtelPlan`, `InspectViews` |
| `ProviderCall` | `JournalingProvider`, its stream, and the HTTP backend's task | - |
| `SubSequences` | parts of a sequence, by the positions of their elements; no state | - |
| `ProviderStream` | the body of one response, frame by frame, through five reading loops | `SubSequences` |
| `LlmSettings` | which provider the settings choose, and the account of it | - |
| `AgentFsm` | states, events, `validate_transition`, `next_state_after`; no state | - |
| `PolicyEngine` | policy modes, configured rules, tool and MCP rules; no state | - |
| `AgentSession` | `run` with its batch dispatch, prompts, summarization, limits | `AgentFsm`, `PolicyEngine` |
| `AgentSessionProofs` | theorems about `AgentSession` | `AgentSession`, TLAPS |
| `Conversation` | the messages a session keeps, folds, trims, saves and sends | `SubSequences` |
| `ModelRequestProofs` | theorems about `ProviderCall` and `Conversation` | both, TLAPS |
| `FileTools` | the calls of a batch on files, automatic commits | - |
| `TuiSession` | terminal thread, forwarding task and agent task | - |
| `TuiSessionProofs` | theorems about `TuiSession` | `TuiSession`, TLAPS |
| `HeadlessRun` | `akmon --task`: journal, transcript, index, audit log, evidence | - |
| `HeadlessRunProofs` | theorems about `HeadlessRun` and `LlmSettings` | both, TLAPS |
| `ConfigStore` | the commands that change `config.toml` | - |
| `StoredFilesProofs` | theorems about `FileTools` and `ConfigStore` | both, TLAPS |
| `SessionCompare` | what replay and diff compare; no state | - |
| `Replay` | a session that is recorded and then replayed | `SessionCompare`, `SubSequences` |
| `RecordReplayProofs` | theorems about `ProviderStream` and `Replay` | both, TLAPS |
| `MC*` | instances for TLC | the modules they name |

Some operators are named as mutants in their comment: each is a form the
operator below it would have with a plausible bug, and is used by no
specification; the mutants in `PROJECT.json` substitute them to show that the
property is sensitive to the code it is about.

Four of the MC modules check machines that share no state side by side: a
behaviour is one of the first machine (its next-state relation, the second at
rest) or one of the second, and the variable `part` says which. A run of such a
module is the sum of the runs of its parts.

### SessionGraph

`objects`, `heads` and `table` are the three redb tables and survive a `Crash`;
`handle`, `ended`, `closing`, `mutex`, `pc` and `job` die with the process. An
emission is `put ... put` (`Put`), the graph mutex (`Lock`), the read of the head
row (`ReadHead`), the read of the history's length (`ReadLen`), and the write
transaction with event and head (`Commit`); `Reject` is the early return of
`append` on a kind that is not allowed there, `PutFails` and `AppendFails` are
storage errors at each of those places. The agent loop's emitters give up when
an object cannot be stored; a tool goes on with the zero hash; a provider call
gives up, leaves the object out, or uses the zero hash, depending on the object
(`Degraded`). `OpenNew` and `Resume` are `open_or_resume_default_journal_handle`
with the constructor of the session; `End` and `Drop` share the `ended` flag. A
hash is the value it is computed from (collision-free); `WireEvent` drops the
sub-second part of a time because the wire encoding does.

Emissions of one session are futures polled on one task today, so the threads'
interleavings here are more than the program has; errors and crashes between
two transactions are real, and the mutex is there for the interleavings.

### JournalVerify, BundleFile and VerifyReports

`Write` produces a session by appends at the times of `Clock`, of the kinds of `Forms`: the tags, and for
a ProviderCall its attempts, well formed or as `append` refuses them. Then the
stored rows are lost, swapped, edited (`EditsOf`: one field of one event, its kind
by any other) or added, objects are lost or
overwritten, the head row is overwritten. The reference for the verifier's checks
is `Appended`: every prefix is what `append` makes of the one before it, from the
same kinds and times. The history is verified twice: by the journal
(`verify_history_against_store`) and, put into a bundle, by the stand-alone
checks of `agef-verify` and `akmon-bundle`. The two agree in every category but
one: only the bundle's verifier looks at the attempts of provider calls, and
`VerifiersAgree` says when that makes a difference (`KindsAccepted`). `VerifyReports` has what both tell
their readers; a rendering is the set of claims it makes, so that the properties
can say that none claims more than another.

### BundleCommands, OtelTrace, OtelPlan and InspectViews

A command is a sequence of steps over `files` and `journals`; `cmd` is the one
that runs and where it stands. `Export` and `Redact` create their file before
they write it; `Sign` and `Attest` go through a temporary file and `Rename`; a
seal assembles, signs, attests, verifies its own work, removes stale key files
and places up to three files; an import puts objects, opens the session and
imports the events in three kinds of transactions; a trace import emits the plan
of `OtelPlan` event by event. A signature is the key and the statement it was
made over. `OtelTrace` decodes the spans that the plan is made of: which
attributes and span events carry messages, in the three forms the conventions
have had. Where the oldest form gives a call no choice, the assistant messages of
its history are taken for its response; `TraceImportFaithful` compares the calls of
such a span with those of the other forms, and not its messages (`UnchosenIn`).
`InspectViews` is what `inspect` shows of a redacted bundle.

### ProviderCall and ProviderStream

`ProviderCall`: one `complete` after another. The backend's task (Anthropic and
OpenAI-compatible; they have the same structure) makes attempts, records each
with the collector that was installed when the task was spawned, and sends
stream items through a channel of bounded size; the stream wrapper stores each
chunk, and finalizes at Done, at an error, at the end of the inner stream or
when a chunk cannot be stored. `finalize` drains the collector and appends the
event in one step: after the drain nothing the task does can change the event.
The task outlives the call when the reader leaves (`DropStream`). A playback
provider (`akmon-replay`) answers with a script and records nothing. The item
`Ok(StreamEvent::Error)` is not modelled: no backend sends it, and playback only
for a chunk of unknown kind.

`ProviderStream`: what happens inside one successful attempt. The server says
frames, the network delivers them in parts, and the loop of each backend takes
complete frames, collects texts, calls in pieces and usage (`acc`), sends items
(`out`) and keeps what will be recorded (`kept`). A text is the position of the
frame that said it. `SaidCalls` and `DueCalls` say which calls are due at the
model's stop: every call of the answer, but at the length (`max_tokens`) a
half-said one comes with empty arguments from Anthropic and Bedrock, and OpenAI's
loop hands on none; of Ollama the last line with calls counts. `RecordedDone` is
what Ollama's loop records of the stop.

### AgentSession

`pc` is the place in `run` (or in `dispatch_tool_calls_batch`), `todo` the events
that the current step still has to apply: `apply_event` checks the transition,
changes the state and sends the event, one event per step, and ends the run when
the transition is not allowed or the receiver is gone. A completion is `Compose`
(with summarization rounds and budget stops), `Complete`, `StreamItem`s and
`StreamEnds`; a message with calls goes to `StartBatch`, `Gate` and `Permit` per
call and permission, `Confirm` or `ConfirmImpossible` for a prompt, `Dispatch`
and `Launch`, `ToolReturns` in any order, `CollectNext`, `Answer` for a follow-up
question, `AppendResults`, and `After` or `Interrupted`. A tool is the list of
permissions that `concrete_permissions` returns for it; a pattern list of the
policy is the set of subjects it matches; a call that is not `valid` stands for
failing argument validation. `Interrupt` and `CloseChannel` happen just before
the code looks at the flag or the channel, which no step could tell from
earlier. The verdict channel holds one reply per prompt, the contract that the
doc comments of `run` state for its caller; `TuiSession` is what must keep it.
`MessagesJournaled` counts emissions that were attempted: a failed one is only
warned about.

### Conversation

The rows of `AgentSession.context`, each a message by its number or a summary by
the messages it covers. A turn begins (`StartTurn`), makes requests (`Ask`, with
`FoldOrTrim` and `Microcompact` before it where the context manager
says so), and ends by an answer, a failure or at the head of the loop;
`OnWire` is the form each backend gives the rows. `RestoreHeadless`, `RestoreTui`
and `Clear` replace the context. The number of system rows that `compose` adds
beyond those the context manager counts is a choice (`extras`): it decides where
a fold begins. Sessions of a sub-agent, whose task rows come without the context,
are left out.

### FileTools

The calls of one assistant message side by side over files, one step per await
in which another call may run: look at the path, read, create the temporary
file, write, sync, rename. The person may save a file meanwhile, an operation may
fail, the process be killed, the power go. A file is a sequence of words, or
missing, binary, a link or a directory; a patch applies its segments one after
the other. A read may fail on a file that is there (`ReadFails`): `write_file` goes
on, the other tools return the error. A call that fails returns the error alone
(`Failed`), so a patch of several files drops the changes it has collected; what
was read is reported as text (`Shown`), empty where it was none. `writes` keeps, per
call, what it has renamed into place. The directory is not synced after the
rename, so a power loss may bring back the former version, whole. `GitAdd` and
`GitCommit` are the automatic commit, per collected result.

### TuiSession

Three tasks and their channels: the terminal thread (`Drain`, the keys and slash
commands), the task that forwards commands to the session (`Forward`), the task
that owns it (`AgentStep`: `Start`, `Rebuild`, `TakeTurn`, `Prompt`, `Question`,
`Finish`). What a turn does inside is reduced to prompting, asking and ending.

### HeadlessRun

One process per run: it resolves which session it continues (`Resolve`,
`LoadTranscript`), takes the journal (`OpenJournal`, refused while another holds
it), makes the turn, and writes audit log, evidence, transcript and index, each
created and then filled. `Kill` and `FileFails` happen between any two of those.

### LlmSettings, ConfigStore

`LlmSettings`: the settings of command line, environment and file are drawn from
small sets; `resolve` takes the nine branches in order, `explain_provider_resolution`
gives the account (`success_step`), and the user then supplies what is missing
(`Supply`). `MCHeadlessRun` extends it beside `HeadlessRun`.
`ConfigStore`: commands load, change and save `config.toml` through one temporary
name; files are inodes, so that a process can hold what another has renamed. Its
names (`StoreSpec`, `storeVars`, ...) are distinct from those of `FileTools`,
because `MCFileTools` extends both.

### SessionCompare, Replay

The recorded and the replayed session take the actions of one agent loop; the
first meets a model, tools, a user and a process that do as they like, the second
finds each answer in the record through `cursors`. `SessionCompare` has the two
comparisons of `akmon replay` and the one of `akmon diff`.

## 3. Runs

| Run | Question | Bounds, and why they are enough |
|---|---|---|
| `journal` | chain, durability, isolation of sessions, refinement of `SessionLog`, and that emissions return | two sessions, two wrappers and the agent, three emissions besides SessionEnd, two objects per emission, two lives per session, one error, one crash: any pair of emitters overlaps at any two steps, in either session, before and after a resume |
| `provider_call` | one event per call, before the terminal item, about its own attempts; stream and task end | two calls, one retry, a channel of two, one chunk, one write error: the task of the first call overlaps the second call, and the channel fills up |
| `agent_loop` | the loop against its tables and limits, over two turns; the run returns | two iterations, one continuation, one summarization round, repeat limit 2, write limit 1, five model calls, messages of at most three calls: each limit is hit and passed by one |
| `agent_gates` | no tool runs ungated or against the policy; and beside it, what the model is told of the conversation | one turn under all modes, with two configured rule sets and MCP servers, a tool with two permissions, two commands with one prefix, approvals for once, for a prefix, for all writes. The conversation: two turns, three requests, answers of up to two calls, one loss, limits of 2 or 3 rows: every place where a list is cut falls inside and at the edge of a batch |
| `tui` | prompts, snapshots and turns across reloads | two sessions, two turns, two prompts, two commands, three of these together, a bridge of one: a prompt meets every command, and the bridge is full whenever it can be |
| `evidence` | damaged histories against both verifiers; commands on bundles | three events of five kinds (a ProviderCall whose attempts `append` accepts and two that it refuses among them), two payloads, two edits, which may move a time into another second or within one: edits can cancel out or hide each other. Two commands over two paths and two journals, two keys, one redacted object, one fault, files of an older version |
| `replay` | does an honest session replay, and does a pass mean the same was done | two turns, four model calls, two kinds of deviation, two iterations, one continuation |
| `provider_stream` | is what is delivered and recorded what was said | two texts, two calls (of Ollama on one line or two), each half-said, said or cut at the length, one noise frame, one frame cut, one complete frame of lag |
| `file_tools` | whole files, true reports, committed work; and beside it, the configuration file | two calls of twelve kinds over two files, one save, one fault (a read, a write or a git command that fails, a kill, a power loss); four commands one after the other over one setting, server and unknown section, two faults |
| `headless` | what processes leave to each other; and beside it, the account of the provider | three processes of five kinds over two projects, one fault, symmetry over the processes; nine kinds of model names, two settings given, one stored |

Two runs show a disagreement between the code and what it says of itself:

| Run | What TLC finds |
|---|---|
| `headless_architect` | the implementation phase of `--architect` opens the journal while the planning phase still holds it, and redb refuses |
| `config_concurrent` | two saves share `config.toml.tmp`: one truncates the inode that the other renames into place |

Deadlock is not checked: sessions are closed, turns and calls run out, and the
systems then rest. Every bound is a constant whose comment says so; the code's
own limits (iterations, continuations, summaries, repeats, writes, retries,
channel sizes, rows kept) are constants too, given small values.

### Fairness

* `SessionGraph`: weak fairness of each emitter's `Step`. The executor polls what
  it was given, and the mutex is never held across an await. Nothing is assumed
  of errors, crashes, or of a session being opened or closed.
* `ProviderCall`: weak fairness of the reader's `Poll` and of each task's
  `TaskStep`. The runtime is multi-threaded and the HTTP client has timeouts, so
  a request or a stream that hangs fails. `DropStream` and new calls are free.
* `AgentSession`: weak fairness of the run's own steps and of returning tools
  (they have timeouts), strong fairness of `StreamEnds` (a stream that keeps
  sending items ends: it is limited by the maximum of tokens). `AttendedSpec`
  also assumes that the user replies; without that, a prompt waits for ever.
* `TuiSession.AttendedSpec`: weak fairness, while the terminal is open, of the
  agent task, the forwarding task, the drain at each tick of the terminal loop,
  and of a user who answers what is on the screen.

The other machines have safety properties only and no fairness.

## 4. Proofs

Eight modules prove theorems of the specifications that the runs check, for every
value of the constants. The bounds of section 3 are constants too, and the
theorems hold for all of them: any number of sessions, calls, edits, faults. Each
module follows one pattern: an inductive invariant, checked by TLC before it was
proved, one lemma for each action and each conjunct that the action can disturb,
and the run's properties as consequences.

### SessionGraphProofs

`TypeCorrect` (`TypeOK`), `Inductive` (`IndInv`), `ChainAlwaysLinked`
(`ChainLinked`), `JournalAppendOnly` (`AppendOnly`), `AcknowledgedIsDurable`
(`AckedDurable`), `WriterNeverBlamed` (`VerifyBlamesNoWriter`), and
`JournalImplementsLog` (`ImplementsLog`), the refinement of `SessionLog`.

Assumed: `AgentAssumption` (the agent is not one of the wrappers),
`PayloadListsAssumption` and `BoundsAssumption` (types of the constants).

`ChainLinked` is not inductive: a `Commit` writes the head and the length that the
emitter read two steps earlier. `ReadsCurrent` says that these are still the
current ones while the mutex is held; this needs that exactly the emitter inside
`append` holds the mutex (in `TypeOK`), and that the handle does not change under
it, which `AloneAtEnds` gives: SessionStart and SessionEnd, the only emissions
that may close the handle, are made while no wrapper works. The invariant is
`IndInv == TypeOK /\ ChainLinked /\ ReadsCurrent /\ AloneAtEnds`, proved in two
layers: `Shape == TypeOK /\ AloneAtEnds` first (`NextShape`), and given it the
rest (`NextChain`), where only `Commit` touches `table` and `LinkedExtend` says
that an event with the current head and length extends a linked table.
`VerifyBlamesNoWriter` needs `Referable` besides: whoever refers to an object
has stored it first, in every job and every event. For the refinement,
`CommitAppends` maps a `Commit` to an append of the abstract log, and
`OthersStutter` every other step to a stutter.

### EvidenceProofs

Of `JournalVerify`: `VerifyInductive` (`VerifyInv`), `CleanIsAppended` (`CleanIffAppended`),
`HeadCommitsAlways` (`HeadCommitsToSession`), `VerifiersAlwaysAgree`
(`VerifiersAgree`).

Assumed: `FormsAssumption` (a kind has a tag and a list of attempts) and
`VerifyBounds`. A hash is taken as injective, a signature as the key and the
statement it was made over (section 2).

The invariant is small: the session as written is linked, event by event, and
what is read back is a sequence of events with known kinds, whatever the edits.
The theorems are about what the verifiers compute from such a sequence.
`CleanMeans` reduces the report's eight fields to "linked, intact, ended once, at
the end", and `AppendedMeans` reduces the appends to the same. `HeadCommits` is
the classical argument that a hash chain commits to its past: of two chains with
the same last hash take the least distance from the end at which they differ, and
the event behind it names both predecessors (`LeastNumber` stands for the
induction). `SignedReport` and `ClaimsHold` follow the flags of a report through
its three renderings. For `VerifiersAgree`, `JsonCategories` and
`BundleCategories` compute the categories found by either verifier as a union of
the same terms, the bundle's with one more for the attempts of provider calls,
which is empty exactly when `append` accepts every kind; `Truncated` shows that an event stream with frames missing
contradicts the manifest's count.

Of `BundleCommands`: `BundlesInductive` (`BundleInv`), `SignaturesAlwaysSurvive`
(`SignaturesSurvive`), `SealedAlwaysVerifies` (`SealedSetVerifies`) and
`ImportsAreWhole` (`ImportIsWhole`).

Assumed: `OldAssumption`. Stored histories are sequences; a bundle that is there at
first was finished by an older version, so its entries were made over it as that
version wrote it, and where a key file stands beside it the two verify. TLC checks
it with `OldFiles` that carry older stamps, both kinds of entries and an old seal.

What the invariant says of a file is `Genuine`: each signature and attestation is
what its key makes over this very bundle. `StampGenuine`, `SignedOneMore` and
`AttestedOneMore` carry it through the version stamp, which is left alone once
anything covers the manifest, and through the entries added later; `OutcomesSay`
computes what the verifiers find in such a bundle, and `ProofsAgree` sets that
beside the statements that `prove-openssl` hands out. For seals, `SealPasses` is
the check a seal makes of its own work and `SealStays` says that one more entry
does not undo a seal. `SealOK` is the strengthening that the renames need: what is
placed already stands, the stale operator key is gone before the first rename, and
from the first rename to the last the path is not taken for sealed. For imports,
`ImportOK` and `ImportEventsOK` say which objects are in the target by now, and
`CleanImport` turns a clean bundle whose objects are all there into a clean
session. The history that a redaction rewrites is defined by recursion, so that
TLAPS knows nothing of it until a solution is shown to exist: `SolutionExists`
takes the least length that has none.

### ModelRequestProofs

`CallTypeCorrect` (`TypeOK`), `CallInductive` (`IInv`), `OneEventPerCall`
(`CallJournaledOnce`), `TerminalAlwaysJournaled` (`TerminalIsJournaled`),
`EventsHoldOwnAttempts` (`OwnAttempts`), of `ProviderCall`; `ConversationInductive`
(`TalkInv`), `NothingEverForgotten` (`NothingForgotten`), `CallsAlwaysAnswered`
(`CallsAnswered`), of `Conversation`.

Assumed: `ProviderCallAssumption` (types of the constants) and `ScriptsAssumption`
(a playback provider answers with items of a stream); `ConversationAssumption`
(types of the constants).

Of the provider call, none of the three is inductive: that `finalize` appends at most once needs that a
stream which is still polled has left no event (`Pending`) and that one past its
terminal item is finalized (`Closed`); that an event holds own attempts needs the
same of the collector it is drained from (`Own`); and a new call must find its
slot untouched (in `TypeOK`). `TaskFrame`, `FinalizeFrame` and `LeavingKeeps` say
what the three kinds of step (of the task, of the stream at its end, of a reader
that leaves) have to show; each action is then a few lines.

That a request forgets nothing is about four actors at one sequence: the turn that
appends, the manager that folds a range of positions, the trimming that drops one,
the request that selects. Neither property speaks of the context, so the invariant
does: `Talk` (summaries in front, messages in the order said, results behind their
calls, cleared results old enough) and `Account` (held, covered, trimmed and lost
messages are all that was said, each once, and what went was oldest). Every step
is one of six changes of a sequence of rows, each with a lemma for `Talk` and one
for `Account`: new texts or results at the end (`PushTexts`, `PushResults`), the
oldest replaced or dropped (`NewestTalk` with `FoldAccount` or `TrimAccount`), some
cleared (`SameRows`), texts picked out (`ThinnedRows`). `FoldIsFold` and
`TrimIsTrim` show that the code's arithmetic of positions does one of these: the
fold's place is computed from the composed request, and `BodyIs` is why the blocks
composed in front do not shift it. `AskedRequest` says what each wire format and the
short form keep of the rows. Parts of a sequence are taken by position
(`SubSequences`), and `Ranked`, `Placed` and `Place` say that the n-th of a set of
positions is what it seems (`LeastNumber` stands for the induction).

### AgentSessionProofs

`BatchInvariant` (`Inv`), `RunsGated` (`GatedExecution`), `PolicyHolds`
(`PolicyNeverOverridden`); `LoopInvariant` (`LoopInv`), `LoopSound`
(`LoopStateSound`), `TurnsJournaled` (`MessagesJournaled`).

Assumed: `ToolsAssumption`, `MessagesAssumption` (a message carries a list of
calls) and `SessionBounds`, all types of the constants.

That a running call was allowed each of its permissions is the last link of a
chain: calls are judged in order, one permission after another (`Judging`), what
lies behind the judge has its verdict (`Judged`), and from dispatch on only
approved calls are left (`Stages`). That approvals remembered from earlier prompts
never beat the policy needs that what is remembered was admissible when it was
asked, and that a prefix or a kind of write admits only what the policy asks for
(`RememberedAdmissible`).

That the transition tables are never left needs, for each place `pc` of `run`, the
state it is in and the events that are still to apply (`Stands`); how many calls
the state machine counts as outstanding (`Outstanding`); which state a
summarization goes back to (`Resumes`); and, for the results, that every call is
rejected, completed or among the approved ones ahead (`Slots`). The proof of a
step applies both tables to each event of `Stands` by cases.
`MessagesJournaled` follows from a count that the invariant carries along: one
message at most has no AssistantTurn yet, the one whose calls are being handled.

### TuiSessionProofs

`TuiTypeCorrect` (`TypeOK`), `TuiInductive` (`IInv`), `RepliesAlwaysMatch`
(`RepliesMatch`), `PromptAlwaysShown` (`PromptOnScreen`), `SnapshotsAlwaysGrow`
(`SnapshotsGrow`, an action property).

Assumed: `SessionAssumption` and `BoundAssumption` (types of the constants).

The prompt of a waiting run, or the one reply to it, is in exactly one of four
places: on the bridge, on the screen, among the commands, in the channel; and in
none when no run waits (`OneReply`, `NoReply`). A run waits only while the slot
holds the sender of its channel, which is what a rebuild could break. For the
snapshots, the transcript contains the file of the session it would be saved as.

### StoredFilesProofs

Of `FileTools`: `ToolsInductive` (`IInv`), `NoTornFile` (`WholeFiles`), `CallsReportTruly`
(`ReportsAreTrue`), `CommitHoldsWork` (`WorkIsCommitted`).

Assumed: `FileToolsAssumption` (types) and `ContentAssumption` (a missing file, a
binary one, a link and a directory are told apart from texts).

A call has collected one change for each segment behind it (`InCall`) and renamed
exactly those (`RenamesReported`, over the history variable `writes`, which keeps
the renames of each call); the temporary file that is renamed holds the whole new
content, synced (`TempComplete`); the commit starts when all calls have returned,
and what its cursor is past is in the index and in HEAD (`CommitKeepsUp`).

Of `ConfigStore`: `StoreInductive` (`StoreInv`), `ConfigAlwaysKept` (`ConfigKept`) and
`SavesAtomicAlone` (`SavesAreAtomic`), all for `~Overlap`: commands one after the
other. With overlapping commands they fail, which is what the run
`config_concurrent` shows.

Assumed: `StoreAssumption` (finitely many processes).

Inodes are taken from what is free, so the proof counts: while one command runs,
four inodes suffice (`Enough`). At each place of a command, what it will write is
the file as it found it with its change (`Pending`).

### HeadlessRunProofs

Of `HeadlessRun`: `FilesInductive` (`EvidenceInv`), `EvidenceStands` (`EvidenceHolds`),
`ContinueHolds` (`ContinueFindsLast`), `ResumeHolds` (`ResumeIsComplete`).

Assumed: `HeadlessRunAssumption` (the constants' types, and that the values for
"none" are no others).

Processes are ordered by when they opened the journal. The lock makes at most one
of them active, and it is the last (`Exclusive`); so what a run wrote stands until
a later run of the same session or path opens its own (`Filed`). The index is
written by its runs in that order, each with the entries it read (`Indexing`). A
resumed run has read the transcript of its predecessor, which by the same
invariant held the whole conversation (`Whole`, `UpToDate`).

Of `LlmSettings`: `SettingsInductive` (`SettingsInv`) and `AlwaysExplainedAsResolved`
(`ExplainedAsResolved`).

Assumed: `ModelAssumption` (what the heuristics say of a model is true or false, and
no server is named "none", the model's mark for a branch that fails). The run has
nine kinds of models, at most two settings given and one stored; the theorem has any.

Exactly one branch decides (`SomeDecides`, `OneDecides`). The account infers that
branch from the provider's name: it is found again (`Seen`) unless a custom server
is named after a provider, which is why the property makes that exception. Each of
the nine rows is eligible only in the state "matched" and failed only in the state
"failed_here" (`EligibleOnly`, `FailedOnly`), and the row of the deciding branch is
so (`DecidedRow`, `FailedRow`). What the failed row asks for leaves every earlier
branch as it was (`RemedyHelps`), so that branch decides again, now with a provider.

### RecordReplayProofs

Of `ProviderStream`: `DeliverInductive` (`DeliverInv`), `AlwaysDeliveredAsSaid`
(`DeliveredAsSaid`) and `RecordsAreDelivered` (`RecordedIsDelivered`).

Assumed: `ProviderStreamAssumption` (the constants' types).

A task that still reads has recorded nothing, and has kept what it delivered while
the reader was there (`Collecting`); from that each way to end gives one record
that matches: `StopRecorded` at the model's stop, where record and delivery differ
in the last item at most (`StopKept`, `LastChanged`), `EndRecorded` at a body that
ends without one, `FailRecorded` at an error. `DeliveredAsSaid` relates what was told to what was said, so its
invariant has two halves. `Served`: what the server has said so far keeps to the
protocol of its backend (a call is opened once, then come its two pieces in order,
then its end; nothing follows a stop). `Tasked`: the frames in `buf` are those
after the first `Behind`, the texts told are the texts of those first frames, and
the locals of the loop hold of each call exactly its pieces among them
(`Knows`, `Accumulated`). The server's steps keep `Served` (`ServerKeeps`) and do
not touch the task (`FrameComes`, `RestComes`); taking a frame extends what is
known by that frame (`Accumulates`, `FrameKept`); and at the stop, with all frames
taken, the calls that are parsed are those due (`EventCalls`, `LineCallsAre`): of
Ollama the ones of the last line with calls, which the loop holds while it reads
(`LastCalls`).

Of `Replay`: `ReplayInductive` (`ReplayInv`) and `VerdictsAlwaysRight`
(`VerdictsAreRight`).

Assumed: `ReplayInputs` (a response carries a list of calls, no tool is named
"model", an imported session begins with its configuration).

That a replay which passed did all the recorded session did is not said by any one
step. `ReplayInv` holds what the two sides have in common: the recorded session is
a history of the agent's own, or an import (`SourceSide`); the replay was refused
(`Refused`), goes on (`Running`), broke off without an end (`BrokenOff`) or was
compared (`Compared`). As long as it has reported no divergence, its cursors count
what it has played, for the model and for each tool (`Synced`). A replay that
passed has in the place of every recorded event one that differs at most where the
mode allows it, so its calls are as many, and by `Synced` nothing recorded is left
unplayed. `ComparisonsAgree` is about the comparisons of replay and diff alone,
field by field of a pair of events.

### Only model-checked

* Liveness (`EmissionsReturn`, `CallReturns`, `RunReturns`, `TurnsFinish`): it needs
  fairness and ENABLED, which the prover does not handle.
* `RedactionHides` and `TraceImportFaithful` (`BundleCommands`): the views of a
  redacted session and the plan of a trace come from operators that fold over a
  sequence, of which the provers know nothing. `ReplayReproduces`
  (`Replay`): that an honest session passes needs that every tool and answer of
  the record is found again, for all ways in which the loop goes on.
* The violations of section 3.

## 5. What is not modelled

* Message contents, token counts and wire formats. Whether a summarization is
  needed is a choice.
* The sandbox and the derivation of concrete permissions from arguments: paths
  and system calls; a tool is the list of its permissions.
* The tools that read, run commands, search, fetch or speak MCP: their effect is
  outside akmon. A call of one is a success, an error or a question.
* What only renders: terminal drawing, reports, tables, log lines, the detection
  of languages and project files, exported report formats.
* `archive/`, which the workspace does not build.
* In bundle commands: two commands at once (they lock the journal, not the
  files), what a crash leaves of a temporary file, and the files that `--proof-dir`
  writes and renames besides.
* In `ConfigStore`, the lost update: `ConfigKept` is about commands one after the
  other. Of two that overlap, the second to save writes what it loaded before the
  first (section 6).

The lines a map entry names are those its definition stands for. Roughly 27
thousand of the lines in the implementation's files are their unit tests.

## 6. Known defects and divergences

Found while modelling; the models do what the code does. Two have a run (section
3). The others, by file:

Journal and session:

* `journal.rs:124`: a session whose head row was written but not its SessionStart
  resumes, skips SessionStart and refuses every event
  (`docs/src/releases/v2.1.0.md:25` promises a resume).
* `session_graph.rs:405`: close, resume, close leaves two SessionEnd events, so
  `akmon verify` fails on a session nobody touched (`docs/src/reference/verify.md:53`).
* `session.rs:525-537, 887`: a rate limit or the iteration limit leaves the state
  Planning or Thinking, and every later turn is refused (the doc at 808 says the
  session is ready for the next).
* `session.rs:1111` against 852: the branch for a message truncated in its tool
  calls does not read the interrupt flag after the batch.
* `akmon-bundle/verify.rs:365, 438-461` checks the attempts of provider calls and
  `session_graph.rs:92-183` does not: a session with malformed attempts, put there
  past `append`, is clean for `session verify` while its bundle is refused.
* `session.rs:2029` against `fsm/config.rs:20`: a prompt waits without the
  configured timeout.
* Two parallel edits of one file in a batch: the last rename wins.

Providers:

* `anthropic.rs:1123/1178`, `openai_compat.rs:1318/1373`, `journaling.rs:235`:
  Done is sent before the successful attempt is recorded, so after a retry the
  event may show only the rate-limited attempts, and a replay finds no answer.
* `openai_compat.rs:1222`: a keep-alive comment ends the completion.
* `anthropic.rs:649-706` and the same loop in `bedrock.rs`: at `max_tokens` a call
  whose arguments are half said is delivered with `{}`, and `session.rs:1087-1128`
  executes it (a comment there: "execute what we have, then continue").
* `ollama.rs:471`: a later line with calls replaces those of an earlier one.
  `ollama.rs:1083, 1100-1114`: the recorded response has the calls of the done line
  only, so calls announced on an earlier line are run but not recorded, and a
  replay does not make them.
* Errors inside a body are ignored or read as its end; usage that arrives late is
  reported as zero; a finish of "stop" with calls drops them; characters cut
  between chunks are replaced.
* `provider_resolution.rs:33`: for a custom server whose host's slug is a known
  provider, the explanation marks the wrong branch or none as the winner.
  `llm_connect.rs:176` checks Claude before Bedrock, unlike `resolve`.
  `explain-provider`, `doctor` and the JSON summary ignore the configuration's
  default model; an explicit `--model llama3.2` gives way to it.

Context:

* `session.rs:301, 2523`: `fixed_system_messages` counts one or two rows while
  `compose` adds more, so a fold is always refused and history is trimmed by a
  fifth instead; trimming leaves results without their calls at the front and may
  drop the task.
* A failed batch, or a headless transcript that is restored, leaves calls without
  results (`session.rs:2331`); a plain answer that is JSON with `tool_calls` is
  taken for calls; Ollama keeps one system row, so summaries are not sent
  (`session.rs:165` says all leading system messages are kept).

Terminal and headless:

* `agent.rs:343/201/136`: a rebuild of the session replaces the verdict sender
  before the steps that may fail (`journal_errors.rs:4`).
* The audit log is rewritten by each run of a session, so earlier events are lost;
  a failed audit write still reports a valid chain; `--plan` that cannot save
  exits before audit, evidence, transcript and SessionEnd; `--session` from
  another directory overwrites the transcript with the new turn only; the TUI
  never updates the index; a transcript is read before the journal's lock is
  taken; a torn index loses the entries of all projects.
* `patch.rs:309, 322`: a patch of several files that fails on a later one returns an
  error that does not say which files it has replaced already.
* `write_file.rs:259-279`: an old file that is not UTF-8 or cannot be read is
  reported as an empty one, so the diff shows every line as added.
* `git.rs:216`: an automatic commit takes the whole index, also after a dry run.

Bundles, replay, configuration:

* A crash or an error in export or redact leaves a partial file that blocks the
  retry; `seal_cmd.rs:26-28` against `--force`.
* `engine.rs:1109`: a replay denies every permission, so a session with gates does
  not replay (`docs/src/tutorials/local-first-ollama.md:83`).
* `divergence.rs:34-37`: diff after a faithful replay always finds a difference.
* The configuration object of an imported trace depends on the export's order.
* `content.rs:279`: in a span of the legacy form without a choice, an assistant
  message of the history counts as the response, so the three routes do not give
  the same objects (`content.rs:12` says they do). The answer also counts as
  captured, so the evidence may say "full" where another form says "partial".
* `config reset` and `config edit` refuse an invalid file; the editor may leave
  one; unknown nested keys are dropped; `mcp add` and the wizard hold what they
  loaded across the network and the keyboard.

## 7. Plan

Done: journal, verifiers and proofs; provider call, stream and settings; the
agent loop with its gates, proofs and conversation; terminal, headless run, file
tools, bundles, trace import, replay, diff, configuration; their safety
properties for all values of the constants, but for the list that ends section 4.

Next, proofs: that the redacted bundle of a clean session verifies, over
`RewrittenIsSeq` of `EvidenceProofs`; `ReplayReproduces` of `Replay`, over the
invariant of `VerdictsAlwaysRight`.
