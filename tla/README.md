# mcp-coder in TLA+

`mcp-coder` is an MCP server (`src/server/mcp_server.py`, `src/core/`) through
which a host such as Cursor delegates coding work to an executor (Aider).  One
tool call, `delegate_to_agent`, compiles the context, passes a few gates, runs
the executor in a loop that a `SupervisorAgent` supervises (a reviewer pass after
each turn, reruns, escalations to the host), and logs what happened.  A call that
needs the host's input ends with a *paused state* on disk, and a later call picks
it up.

## Inventory

| Component | State | Operations | Hard behaviours | What makes it correct |
|---|---|---|---|---|
| Delegation handler (`server/mcp_server.py`) | the locals of a call, the registry of agents | `delegate_to_agent`, `_handle_resume` | exceptions at any stage, crashes, several processes on one project key | every envelope closes, log and replies agree, every call returns |
| SupervisorAgent (`core/engine/supervisor_agent.py`) | turn counter, decisions, loop and lifecycle flags, cached project state | `begin_delegation`, `begin`, `begin_turn`, `complete_turn`, `finish`, `resume`, lifecycle emitters | one object serves many delegations | nothing leaks from a delegation to the next, turns are bounded |
| Paused states (`core/state/supervisor_state.py`) | one file per pause | `create`/`save`, `find_latest`, abandon, expiry | stale reads, expiry between question and answer | an answer reaches the question it answers |
| Project state, checkpoint (`core/state/`) | decisions, risks; the agent's identity | load, save, rehydrate | lost updates, restarts | memory is durable |
| Logs and traces (`core/logging`, `core/observability/trace.py`) | `delegations.jsonl`, trace files | append, then touch the session and the mirrors | a process dies, or a step after the row raises | each trace ends with a record of its delegation |
| Human gate (`core/engine/question_registry.py`, `supervised_io.py`) | pending question per delegation | post, answer, wait with timeout, pop | late and duplicate answers, zombie executor threads | an acknowledged answer is the one acted on |
| Workspace history (`core/workspace/`) | SQLite snapshots, deltas, blobs | begin, commit, mark, reconcile, finalize, revert | crash and reconcile, timeouts, reruns, a second process | the history explains the workspace |
| Executor loop, stall retry (`server/mcp_server.py`, `core/engine/aider_engine.py`) | steps, timeouts | bounded loop, one auto-retry | timeouts with a thread still running | bounded, attributed |
| Pre-loop gates (`server/mcp_server.py`, `core/context/helper_llm_pipeline.py`, `core/specs/write.py`) | the Q&A section of the spec, blocked rounds in the log of the session | validate the spec, check clarity, dispatch to the sub-agent, pause | rounds of several delegations, the host edits the same section | asking ends, an answer is never lost |
| Helper passes (`core/engine/*_llm.py`) | none | validator, clarity, planner, builder, reviewer | every kind of bad reply | a bad reply is a verdict, never an exception |
| Context pipeline (`server/mcp_server.py`, `core/pipeline/phases.py`) | the phase recorder, the brief, the audit block | the stages, the executor prompt, reviews, reruns | an exception in any stage | prompt and record agree |
| Context compiler (`core/context/`) | the package | picker, assembly, capability rules, budget, translation | files that change between the reads, a budget that cannot be met | the contract is what can be edited; what is taken is named |
| Executor runs (`core/engine/aider_engine.py`, `stdio_isolation.py`, `server/mcp_server.py`) | worker threads, the stdout of the process, the result | run with a limit and a grace, delete, classify, automatic retry, rerun | workers that outlive their run | no edit is kept back, no failure called a success |
| Confirm supervisor (`core/engine/supervised_io.py`, `supervisor.py`, `supervisor_tool_runner.py`) | the conversation of an evaluation, decisions and counters | risk, evaluation with tools, decision, escalation | replies that do not parse, calls left open, endless tool calls | a yes has its grounds, an evaluation ends |
| Progress bridge (`server/mcp_server.py`) | a queue, a flag and a thread per delegation | notify, heartbeat, close | slow hosts, a loop held by its own caller | order, no gap, nobody waits for it |
| Server lifecycle (`core/server/singleton.py`, `src/main.py`) | pid files, the process table | start, list, terminate, register, sweep, kill | starts at once, reused pids, commands beside servers | one server serves a workspace |
| Sessions (`core/session/`, `core/host/`) | `project.json`, `session.json` | register, acquire, hint, stamp | two processes rewrite the files, crashes tear them | a delegation runs in the session of its conversation |
| Executor cache (`core/session/executor_cache.py`) | cached coders | get or create, drop | stale coder | a coder is reused only for its own work |
| Model-call capture (`core/observability/litellm_callback.py`, `observable_model.py`, `gateway.py`, `context.py`) | counted calls per key, owned streams, trace lines | helper calls, streams, callbacks, the record's usage | callbacks on other threads and late | each call counted once, at home |
| Trace file and comparison (`core/observability/trace.py`, `core/cli/compare.py`) | the lines of a delegation | append, header, annotate; pair proxy and backend lines | threads without a lock | no line lost, each in one row |
| Data retention (`core/cli/maintenance.py`) | package blobs, traces, exports | store, export, collect | a collection beside delegations, an interrupted one | what may be replayed stays |
| Retrieval index (`core/rag/`) | rows per file and per delegation, their words by row number | index a workspace, the end of a delegation, `rag index`, search | a file changes between its hash and its text, two indexers, interrupted runs | after a full run the index has what the workspace has |
| Idle keep-alive, configuration and model registry, host adapters | none or caches | - | - | see *Not modelled* |

How they interact.  The handler runs in the process of a stdio server or of
`mcp-coder delegate`; both share one directory per project key (paused states,
checkpoint, project state, log, traces) and one history database per workspace,
and nothing else.  Inside a process the handler owns one `SupervisorAgent` per
project key, for the life of the process, and one cached Aider coder per session.
Every executor run is a thread of its own that the handler waits for with a
timeout; the thread calls back into `SupervisedIO.confirm_ask`, which may post a
question to the process-wide registry and wait, and a second tool call,
`answer_delegation_question`, sets its event.  The handler brackets a run with a
snapshot and a commit of the workspace history, and afterwards reverts
out-of-scope edits from what the commit recorded.  A starting server kills its
predecessor and reconciles the rows that have no end.  Before the executor a
delegation passes the gates, the stages that build its prompt and the compiler
of its context; beside it run the threads of the progress bridge, LiteLLM's
callbacks and the local proxy, which share with it a store of counted calls and
its trace file.

The parts are separate models: what couples them is thin (a delegation id, the
fact that a run returned, raised or timed out, the answer a gate gave), and each
has hard behaviours of its own.

## Modules

| Module | Models | Extends |
|---|---|---|
| `SupervisorAgent` | the agent object, as operators from its state to its next state and the events it emits | Integers |
| `PausedStates` | the directory of paused states, as operators | Integers |
| `Delegation` | one project key and the processes that delegate on it; composes the two above | both |
| `DelegationLedger` | abstract: what the log and the traces promise together | - |
| `WorkspaceHistory` | the history database, executor runs, reconciliation, the strict gateway | Integers, FiniteSets |
| `HumanGate` | question registry, executor threads, answer calls, the cached coder | Integers |
| `HelperPasses` | what each helper pass makes of every kind of reply, as operators | - |
| `PreloopGates` | validation, clarity rounds, the sub-agent, the Q&A section, over the delegations of a session | `HelperPasses` |
| `ContextPipeline` | the stages of one delegation, its prompt, reviews, reruns and phase record | `HelperPasses` |
| `ContextCompiler` | the context package from the picker to the executor's request | Naturals, Functions |
| `ExecutorRun` | the runs of one delegation: worker threads, limits, stdout, deletions, retry, rerun, answer | Naturals |
| `ConfirmSupervisor` | what happens to a question of the running coder | Naturals, Sequences |
| `ProgressBridge` | the bridges of successive delegations, with and without an event loop | Naturals, Sequences |
| `CallCapture` | who counts a model call, under which key | Naturals, Sequences |
| `TracePairing` | the loops that pair the proxy and backend lines of a trace | Naturals, Sequences, FiniteSets |
| `TraceFile` | a trace several threads append to and the handler rewrites | Naturals, Sequences |
| `ServerLifecycle` | servers, commands, pid files and the process table of a machine | Naturals, FiniteSets |
| `Retention` | blobs, traces, exports and `maintenance gc` beside running delegations | Naturals, FiniteSets |
| `Sessions` | project and session files that several processes rewrite | Naturals, Sequences |
| `MCDelegation`, `MCWorkspaceHistory`, `MCHumanGate` | the values of the constants in the `.cfg` files | the module they check |
| `RetrievalIndex` | the index of files and the index of delegations, with all that write them | Naturals, FiniteSets, FiniteSetsExt |
| `MCPipeline`, `MCExecution`, `MCServices` | three, three and seven of the modules above, side by side | those modules |
| `DelegationProofs`, `DelegationRecordProofs` | theorems about `Delegation`: types, memory and pauses; records, ledger, turns and envelopes | `Delegation` |
| `WorkspaceHistoryProofs`, `HumanGateProofs` | theorems about `WorkspaceHistory`, about `HumanGate` | the module they are about |
| `PipelineProofs`, `ExecutionProofs` | theorems about the modules of `MCPipeline` and `MCExecution` | these |
| `ServicesProofs` | theorems about `Retention`, `ServerLifecycle`, `Sessions` | these |
| `RecordsProofs` | theorems about `CallCapture`, `TraceFile`, `RetrievalIndex`, and all of `MCServices` together | `MCServices`, `ServicesProofs` |

The side-by-side modules save runs, not work: a variable `component` says which
of the components a behaviour is one of, and the others stay in one initial state.
The states of a run are therefore the sum of those of its components, not the
product, and a property of a component is checked on all of its behaviours.

`PROJECT.json` gives the source lines of every definition.

### Delegation

A process is in one of the `Labels`.  A step ends where the code has written to
disk, calls an LLM or the executor, or may raise, so that another process, a crash
or the expiry of a pause can come between any two of them.

| Steps | Code |
|---|---|
| `Arrive`, `Route...` | the head of `delegate_to_agent`: `find_latest`, then resume, reminder, abandonment or clarity re-entry by what was read *before* |
| `OpenEnvelope` ... `CloseForClarity`, `EnterLoop` | the preloop and its early returns (invalid spec, review targets, clarity gate) |
| `ExecutorReturns`, `FirstTurnRaises`, `RetryRaises`, `CompleteTheTurn` | supervised turns and the rerun loop |
| `SavePause`, `EndTheLoop`, `SaveProjectState`, `SaveCheckpoint`, `CheckpointNotSaved` | `SupervisorAgent.finish`, in its order |
| `StartPostloop` ... `Return` | postloop, the record, the result; `AppendRecord` is the row, `TouchSession` the rest of `append_delegation_record`, which may raise before the handler has noted that the row is there |
| `ResumedTurn` ... `CloseResume` | `_handle_resume` |
| `DelegateRaises`, `ResumeRaises` | an exception out of any stage of `FaultStages` that `Faults` allows, and what the handlers and the `finally` block then do |
| `Crash`, `Expire`, `PlannerRecords` | the process dies (memory lost, disk kept); `expires_at` passes; the planner tool saves the project state |

Abstractions.  A process serves one call at a time.  The row of an interrupted
record in the `finally` block is written; what raises after it is swallowed.  A pause expires in the order of its
`paused_at` (all have the same time to live), and tokens are numbered in that
order.  Traces are counts of events by kind; project state, checkpoint and agents
hold *whose* decisions and reviewer verdicts they carry, not the texts.  A stalled
executor that needs input is an executor that did not succeed.  The reviewer's
verdicts are `clean` (lgtm, skipped, error) or `issues`, and issues are always
noted.

### WorkspaceHistory

Each SQLite transaction is a step, each walk of the workspace is a step, each
write of an executor thread, an editor or the gateway is one.  A file's content
stands for its hash.  The walk after a run and the transaction that stores it are
one step (what happens between them changes only the text of a stored diff), as
are the list of orphans and the walk at start.  The walk *before* a run is separate
from its transaction, since the latter reads the files again for the blobs.

| Steps | Code |
|---|---|
| `Start`, `Reconcile`, `Ready` | `reconcile_orphan_snapshots` at server start; a command-line process skips it |
| `Delegate`, `WalkBefore`, `BeginSnapshot` | `begin_delegation_snapshot`; `INSERT OR IGNORE` for the row, `INSERT OR REPLACE` for the manifest |
| `ExecutorWrites`, `ExecutorReturns`, `...Aborts`, `...Raises`, `...TimesOut`, `GraceEnds`, `ZombieEnds` | `_execute_delegation`: outcomes, immediate marks, the grace period, a thread that cannot be cancelled |
| `CommitSnapshot`, `CommitFails` | `commit_snapshot` (one transaction), and its failure on the primary key of `file_deltas`, retried once by the outermost handler |
| `Rerun`, `EnterGateway`, `RevertPath`, `Finalize` | another turn, or `apply_post_delegation_gateway`, `revert_to_before` path by path, `finalize_checkpoint_metadata` |
| `HostWrites`, `Crash` | the environment |

Not in the model: size limits and binary files, retention, database errors other
than a key collision, and the automatic retry of a stalled run, which is one more
run.  Other stdio servers are killed at start, so `Servers` has one process.  The
deterministic deletions the handler does by itself count as writes of the run.

### HumanGate

One session and its cached coder.  `Submit` starts a thread with the cache token of
the delegation (a rerun passes no context package, so it has another token than
the first run); `GetCoder` is `get_or_create_coder`, whose hit keeps the I/O object,
and so the delegation id, of the run that made the coder.  `Ask`, `WaitEnds` and
`CloseGate` are the gate of `confirm_ask`; `LookUp` and `SetAnswer` the two halves of
`QuestionRegistry.answer`; `CleanUp` the `finally` block of `_execute_delegation`;
`Return` drops the coder of an escalated delegation.  Which question is risky, what
the supervisor decides without the gate and whether an answer means yes are part
of the thread's work.  A call resumed from a pause, which also drops the coder, is
not modelled here.  Answer calls are assumed to be served while a delegation
runs, as the tool's description asks of the host.

### Before the executor: PreloopGates, ContextPipeline, ContextCompiler

`PreloopGates` runs one delegation of a session after the other.  `ValidateSpec` and
`CheckClarity` take any reply of their model; `Dispatch` is the cap and the record of
the round, `Resolve` the sub-agent, `Pause` the early return, `ReachExecutor` the end of
the gates; `HostAnswers` edits the section between two delegations, `NewSession`
starts the count afresh.  A question is a member of a set and its place in the
spec is one of absent, open, answered by host, by agent; `AppendQA` is
`append_clarity_qa` with its test for a question that is there already.

`ContextPipeline` has one action per stage, in the order of the handler, for the
three ways a prompt is built (`DelegationKinds`: a package, the legacy prompt, a
review-only delegation).  A brief is the sequence of its parts.  `RaiseInStage` and
`EndAndRaise` are an exception before and after the phase ended, `BuilderRaises` one
between the two; `ReviewerRaises` is one that nothing catches, the end of the call.  The recorder is
the pair `started`, `phases`: `Start`, `Ended` and `Mark` are its three methods.

`ContextCompiler` takes the contract of a spec as a role per path and lets every
read find any weight, or fail, since the helper passes lie between the reads.
`PickFiles`, `Assemble`, `Adjust`, the loops `ShrinkEntry`, `ExcerptEntry`, `DropEntry` of
the budget, one entry a step, and `Translate`.  Ranking and the search for excerpts
are a choice; the estimate of tokens is a sum of weights plus one for each line of
the list of dropped paths.

### While it runs: ExecutorRun, ConfirmSupervisor, ProgressBridge

`ExecutorRun` is one delegation, its handler and the worker threads of all its
runs.  `Joined`, `TimeOut`, `GraceOver` are the wait for a worker; a worker enters and
leaves the isolated stdio by itself (`Enter`, `Leave`), writes, and ends in one of
`Endings` (complete, asks for files, a question, an error, aborted, raised).
`Delete` is the deterministic deletion and `Attribute` the classification after it,
which sees in `dirty` that the workspace is not what it was at the run's start: by the
worker, by `Delete`, or by a worker left behind.  `Retry` is the automatic retry of a request for files, `Rerun` a turn the supervisor wants,
`Reply` the result.

`ConfirmSupervisor` starts at a question with the paths it names and says whether
the rules find it safe; `Complete` is one completion of the model with any of the
`Replies` (a verdict, calls of tools, both, neither, nothing), `RunTools`, `Recover` and
`CompleteLast` the loop of the tool runner, `Decide` the verdict, `HumanAnswers` and
`GateTimesOut` the escalation, whose registry is `HumanGate`'s.

`ProgressBridge` has a handler that opens one bridge after the other (`Notify`,
`RaiseFlag`, `QueueStop`, `Join`, `NextCall`) and the thread of each, split where the other
can come between: `FindEmpty` is the `Empty` of the queue, `LookAtFlag` what follows.
`onLoop` says that an event loop exists: `HandOver` then waits for `Send`, a step of
the loop that nothing promises, and `StopWaiting` is the timeout of that wait.

### Around it: CallCapture, TracePairing, TraceFile, ServerLifecycle, Retention, Sessions, RetrievalIndex

`CallCapture`: the kinds of call are helper, turn, stream and probe.  A call is
sent (`Complete`, `Send`, `Probe`), answered (`ReturnHelper`, `ReturnTurn`, `Deliver`), and a
stream is finished, dropped or collected; each answer queues a `Callback` that may
run at any later time, with the context of the call or an empty one.  `Report` is
the overlay of usage on the record.  Tokens are the set of the calls behind them.
Which helper calls a record has is a choice (`HelperRecord`): a record that brings
tokens is left as it is (`litellm_callback.py:667`), and those may be of its last call
(`helper_llm_pipeline.py:632`), of the last review (`mcp_server.py:3747`) or without the
evaluations that did not parse (`supervisor.py:247`); a role without a record is not
filled (`mcp_server.py:1186`).

`TracePairing` records lines (`RecordBackend`, `RecordProxy`), then runs the comparison
as the code does, a row at a time: `StartPairing` takes all lines, `PairByKey` pops the
two queues of a key, `PairByStep` chooses for a proxy line without call index, by
model and then by order, and `LeaveRest` files the backend lines left over.  The
code visits keys and steps sorted; they share no line, so the model visits them
in any order.

`TraceFile`: the look at the size, the header and the line of an append are three
steps of a thread; the rewriting is read, truncate, write.  `Torn` is the rest of a
line that the copy ends in.

`ServerLifecycle`: a process is a server, a command, a report or another program;
`ServerLine` is what the probes take for a server, which includes a report whose
subcommand is missing in their list.  `List`, `Terminate`, `Register`, `Sweep`, `Reconcile`
are a start; a pid may be given to another process (`MaxLives`), may be hidden from
the probes or refuse to end.  With two pids, at most one is odd in that way.

`Retention`: `ReadRows`, `ReadTraces`, `ReadBlobs` and the deletions are steps of the
command, between which delegations store, end and crash; `FinishGc` is also the
dry run and the interruption.  A delegation that an exception ends (`InterruptJob`), or
whose trace could not be annotated with its package, has a row that names none.

`Sessions`: registration, acquisition (`Reuse`, `CreateFolder`) and the two rewrites of
`session.json`, each as read, truncate, write; a crash between the last two leaves a
torn file.  `Resume` is the path of a paused delegation, which runs in the acquired
session and never writes the host's id (`mcp_server.py:2021`); `Return` its end, or the
reminder.  `Raise` is an exception, whose interrupted row touches the session once
more, and `Swallow` that touch finding it torn.

`RetrievalIndex`: an indexer (the end of a delegation, or `index-workspace` beside it)
hashes all files in `Walk`, decides in `Compare` which to take, reads and summarises one
in `ReadSource`, writes it in `Upsert` and at the end of a full run deletes what the walk
has not seen; editors come between any two of these and `Interrupt` after any.  A
text stands for its hash and its summary.  `words` are FTS entries under row numbers:
`INSERT OR REPLACE` gives a new number and leaves the old words, a deletion takes those
of the row as it is.  The second half has the handler's filing of a delegation
beside the backfill of `rag index`.

## Runs

All checks are of `tla/*.cfg`; `PROJECT.json` names the properties of each and, for
each property, a mutation of a modelled definition that TLC finds to break it.

| Run | Question | Instance | States |
|---|---|---|---|
| `DelegationHistory` | do answers reach their question, turns stay bounded | 1 process, 3 calls, 2 turns, every LLM decision | 4 140 000 |
| `DelegationFaults` | do envelopes close, is memory kept, does every call return | 1 process, 2 calls, exceptions at every stage, 1 crash, decisions by policy, fairness | 209 000 |
| `DelegationTwo` | do log and replies agree; the log implements `DelegationLedger` | 2 processes, 2 calls, late exceptions, 1 crash, decisions by policy | 1 676 000 |
| `HistoryExplained` | do the deltas replay to the workspace | 2 delegations, interruptions, 2 crashes, 2 files, 2 contents | 210 000 |
| `HistoryStrict` | does the gateway restore the start; no limbo; deltas frozen | 1 delegation, 3 runs, zombies, editor, 2 crashes, 2 files | 1 450 000 |
| `Gate` | can the question asked be answered | 2 delegations, 3 runs, 3 questions, 1 answer | 3 170 000 |
| `GateLive` | do calls return and entries drain | the same with 2 runs and 2 questions, fairness | 34 000 |
| `Pipeline` | from the call to the prompt: does asking end and keep its answers, do prompt and record agree, is the package what it says | 2 questions, cap 2; 3 kinds, 3 turns; 3 paths, weights to 3, budget 4; fairness of the gates | 285 000 |
| `Execution` | while it runs: stdout, edits and answers under limits; grounds of a yes; order of notifications; no wait without end | 2 turns, automatic retry, 1 file; 3 rounds, 2 calls, 3 questions; 2 calls, 2 messages, 2 beats; fairness below | 286 000 |
| `Services` | around it: counting, pairing, the trace file, servers, collection, sessions, indexes | 2 delegations, 2 model calls; traces of 4 lines of one step; 3 writers, 3 lines; 2 pids twice, 2 workspaces; 2 jobs, 2 hashes; 2 processes, 2 conversations, 2 folders; 2 files, 2 texts, 2 writes, 1 edit; 2 delegations filed | 792 000 |
| `ResolvedAnswers`, `RetryFiles` | divergences, below | small | violation |

Why the bounds are enough.  *Calls*: a mistaken route needs a pause, something
filed over it and an answer: three calls.  *Turns*: two give a rerun and a last turn;
the resumed turn adds one.  *Processes* share only the disk, so two, each free to
stand still, show every pairwise race.  *Crashes*: one crash loses a memory, the
second one dies in, or before, the repair of the first.  *Files*: one in the scope
and one out of it, since files do not interact in the tables; *contents* are only
compared and copied, so two and "absent" give created, modified, deleted and
restored (in `HistoryStrict` one content and "absent").  *Runs*: the third of a
delegation meets the rows of the first after the second failed to replace them.
*Questions and threads*: two threads and a third run that follows them.

In `Pipeline`, two questions let a round ask one that is there and one that is
not, and a cap of 2 is reached with a delegation of another spec in between; three
turns repeat a rerun; three paths are one to edit, one to read and one found, with
a budget of 4 below the sum of their weights, so that each step of the budget
is entered, left early and exhausted.  In `Execution`, two turns with a retry each
make four runs, so a worker left behind meets a later one in every order; three
rounds of up to two calls leave a call open before, in and at the last round.  In `Services`, two calls under one
stream key are all the ownership rule is about; a pairing of four lines has a
competitor for each side at once, and further steps share no line with the first; a pid that was given away once is as good as one given
away often; two jobs share a package or do not; two processes on one file of which
each reads before and after the other show every lost update.  An index of two
files with a limit of one or two is cut short or not; two writes are a row and its
replacement, or one row by each indexer, and an edit comes before, between or after.
The bounds are guards of the environment's actions (a new call, delegation, run,
question or crash), never of the code's own steps.

Symmetry is used where it is sound: the processes of `DelegationTwo` (no
temporal property but a refinement, which treats them alike) and the contents in
`HistoryExplained`.  `CHECK_DEADLOCK FALSE` in the runs: a host may
stop calling, a delegation ends, a trace is complete.

Fairness.  In `Delegation` a process that is in a call takes its next step
(`WF(Step(p))`): the executor and every LLM call have timeouts and nothing else
blocks; calls, crashes and expiry are never forced.  In `HumanGate` the handler
takes its next step, since each of its waits has a timeout, and a thread *at the
gate* wakes up or times out and then leaves it (`_GATE_TIMEOUT_S`).  Nothing is
assumed of an executor thread otherwise: it may hang for ever.  The gates and the
handler of `ExecutorRun` run in a thread that only waits with time limits
(`GatesNext`, `Handler`); `Working` is the worker in the supervisor's code, whose
completions have a timeout; `Handling` is the handler closing a bridge, `Draining(d)`
the bridge's thread when it has a loop, whose waits have one too, and without a
loop it is not assumed to go on; `StartsUp(p)` is a starting server.  The coder, the host, the
event loop and LiteLLM's threads promise nothing.

### What the properties say

- `AnswerReachesItsQuestion`, `ClarityPauseIsNewest`: the tokens the host has seen
  and the files the router reads stay in step, through abandonment, reminders,
  clarity rounds and expiry.
- `TurnsBounded`: over first turns, reruns and resumes.
- `EnvelopesClose`: lifecycle and phase events of a delegation pair up on each of
  the ways out of the handler, on an agent object used many times.
- `ProjectMemoryKept`: no save shrinks the project state, in one process.
- `RepliesMatchRecords`, `LedgerKept`: a delegation that was answered has its complete
  record and no interrupted one, by whichever gate, pause or turn the answer came,
  and the `finally` block forgets none that raised.  `LedgerKept` is the refinement of
  `DelegationLedger`.
- `EveryCallReturns`, `CallReturns`, `RegistryDrains`: liveness.
- `HistoryExplains`, `NoLimbo`, `DeltasFrozen`: the tables against the disk, and
  against their own past.
- `RevertsToStart`, `ScopeHolds`: the gateway works from deltas, and what it leaves
  is the workspace from before the delegation.
- `GateReachable`, `RegistryClean`, `AnswersStayInDelegation`: the registry has one
  slot per delegation, while several threads and a coder with an old id use it.

- `RegistrySafe`, `FirstRunStands`, `GateEnds` join the properties above that are
  claimed together: type, reachability and cleanness of the registry; frozen deltas
  and the restored start; return of the call and end of its entries.
- `ClarityHolds`, `AskingIsFruitful`: the cap holds over delegations with and without
  a spec, nothing passes unanswered, no answer is replaced, and unless the host
  keeps starting sessions it is some day no longer asked.
- `PhasesAccountFor`, `PromptIsAudited`: record and prompt after an exception in any
  stage and after any number of reruns.
- `PackageIsSound`, `EditTextsKept`: the compiler's four rewrites of one package.
- `StdoutIsolated`, `AnswerIsTrue`: workers that outlive their limit, the handler's own
  deletions, the retry and the rerun, against the one process they share and the one answer they give.
- `EvaluationsClose`, `NothingUnasked`: the conversation with the supervisor's model
  stays well formed whatever it replies; a yes and a deletion have their grounds.
- `BridgeKeepsOrder`, `WaitsEnd`: a host that stops reading holds nothing up.
- `CountsHold`, `LeftForLater`: one store, one registry of streams, callbacks at any
  time, delegations one after another; the record is charged with calls of its own
  only, and the session keeps its conversation.
- `TracesAreFaithful`: `PairingIsSound`, the comparison of every trace of up to four
  lines against what a pairing is, and `TraceKept`, appends without a lock and the rewriting.
- `OneServes`, `StartsBehave`: starts at once, given-away pids, processes that hide or
  do not end.
- `IndexIsSound`: a full run mirrors the workspace whatever interrupted runs have left,
  no summary is of another text than its hash unless the file was edited under an
  indexer, a file is found by its own text, and a filed delegation by its outcome.
- `CollectionSpares`, `HostsApart`: a collection beside delegations that end in every
  way, as far as their rows name what they need; two processes on one session, where a
  resumed delegation may be in one that names no conversation, never in another's.

A conjunction is claimed and refuted as a whole; its conjuncts are definitions of
their own, with their comments, in the module.  `PROJECT.json` lists a mutation for
each property a run names, so for one or two of its conjuncts.

`HistoryExplains` is claimed without a strict scope, because the gateway reverts
after the commit and the deltas keep the reverted change, and for one run per
delegation (see `CommitTwice`).  The history variables `meddled` (somebody other
than a run wrote), `torn` (a process died between a mark and a commit) and
`overran` (a thread has outlived its run) name the cases a property leaves out.

## Divergences

With a run (`PROJECT.json`, "findings"):

- `ResolvedAnswers`: a question that an earlier round left open keeps its
  placeholder although the sub-agent answered it, and the delegation proceeds
  (`write.py:339`; `docs/PHASE15_MVP.md:342`).
- `RetryFiles`: the automatic retry merges the files the executor asked for into
  new variables and calls the step function of the first attempt, which still
  reads the old ones (`mcp_server.py:719`; `docs/guide/env-vars.md:109`).

Without a run; each is a property of its module, and TLC refutes it with the
constants named (no faults, crashes, interruptions or host edits unless it says so;
the MC modules have the values):

| Property | Shown by | What the code does |
|---|---|---|
| `RecordsUnique` | 1 call, 1 turn, a fault of `"touch"` | the row is written, then `session.json` and the mirrors; if one of these raises, as on a file another process has just truncated, the `finally` block appends an interrupted row of the same delegation (`mcp_server.py:4369`; `docs/PHASES.md:101`) |
| `PauseConsumedOnResume` | 2 calls, 1 turn | a successful resume leaves the paused file, so the next call is reminded of an answered question (`mcp_server.py:1674`) |
| `LoopsEnd` | 1 call, 2 turns, executor faults | after a first turn that raised before the engine was made, the rerun reads the unbound local `engine`; `loop_start` stays without `loop_end` (`mcp_server.py:3612`) |
| `FreshStartIsFresh` | 3 calls, 1 turn | `start_fresh` removes the newest pause only (`mcp_server.py:1987`) |
| `ReviewerResultIsOwn` | 2 calls, 1 turn | a reviewer verdict outlives its delegation (`supervisor_agent.py:391`) |
| `CheckpointContextSurvives` | 2 calls, 1 crash | `begin_delegation` clears what `rehydrate_from` has just read (`supervisor_agent.py:393`) |
| `MaxTurnsMeansExhausted` | 1 call, 3 turns | a rerun that raises pauses as `max_turns_reached` (`mcp_server.py:3744`) |
| `ProjectMemoryKept` | 2 processes, 3 calls | a server overwrites what a CLI delegation saved (`supervisor_agent.py:675`) |
| `HistoryExplains` | 2 runs | a rerun that changes a file of the first run collides with the primary key of `file_deltas`; its edits are recorded nowhere (`history_db.py:268`) |
| `ScopeAlwaysHolds` | 2 runs | the gateway sees the files of the last run only (`mcp_server.py:3720`) |
| `EveryOrphanBackfilled` | 1 crash | a row of an empty workspace is taken for a legacy one (`snapshot.py:236`) |
| `HistoryAlwaysExplains` | `{"abort"}`, 1 crash | the mark hides a row from reconciliation (`aider_engine.py:766`) |
| `HistoryExplains` | `{"overrun"}` | a thread writes after the walk (`aider_engine.py:170`) |
| `InterruptedIsNotRunning` | server and CLI, no crash | a running CLI delegation is reconciled (`history_db.py:607`) |
| `DeltasFrozen` | server and CLI | a row committed since the list was made is overwritten (`snapshot.py:214`) |
| `OutcomeKept` | 2 runs, interruptions | `mark_outcome` has no condition on `timestamp_end` (`history_db.py:495`) |
| `GateReachable` | 2 delegations, a reused coder | it posts its question under the earlier delegation's id, where no answer finds it (`executor_cache.py:38`) |
| `LateAnswerNotFound` | 2 runs, 2 questions | a late answer decides the next question of the same delegation (`question_registry.py:36`) |
| `GateAlwaysReachable` | 2 runs, 2 questions | a zombie's entry displaces the live one (`supervised_io.py:667`) |
| `RegistryAlwaysClean` | 1 run, 1 question | a thread posts after the clean-up (`aider_engine.py:1043`) |
| `CoderNotShared` | 3 runs | a rerun takes the coder a zombie still drives (`executor_cache.py:38`) |
| `BlockedNeverRuns` | 1 delegation | a blocked validation is recorded and stops nothing (`mcp_server.py:2515`; `helper_llm_pipeline.py:24`) |
| `RecordShowsLastReview` | 2 turns | record and reply show the first review only (`mcp_server.py:3522`) |
| `QuestionsPassOverEdits` | 1 turn | the files the handler deleted itself count as changed, so a run whose executor only asked is answered as a success and its question is dropped (`aider_engine.py:946`, the comment at 944; 871-903) |
| `OneRetry` | 2 turns | each turn may retry, and the mark is of the last (`mcp_server.py:3697`) |
| `StallIsOfLastRun` | 2 turns | a request of an earlier turn is still shown after one that was through (`mcp_server.py:3711`) |
| `HitsAreOwn` | 2 files, 3 writes, 3 edits | words of a replaced row stay under its number and come back when, after a deletion, the number is given again (`workspace_db.py:64`; `docs/notes/archive/rag-gap-analysis.md:263`) |
| `OnlyOldPackagesGo` | 1 delegation, 1 package | the row of a delegation that ended in an exception has an empty context (`mcp_server.py:4474`), and a collection deletes the package it has stored, however fresh (`maintenance.py:295`; `docs/PHASE9_MVP.md:193`) |
| `EntriesAreFinal` | 1 delegation | an open row that `rag index` read is filed without outcome, over the handler's entry or for ever (`rag/index.py:177`) |

Met while modelling, without a property of their own; the models do as the code:

- *Supervision.*  The supervisor's `_decision_log` is read and never appended to
  (`supervisor.py:160`).  Answers in the Q&A section reach neither the planner's nor
  the executor's prompt, which the comment at `mcp_server.py:2647` expects
  (`planner_prompt.py:16`).  A clarity check passed by the cap is recorded as an error
  (`delegation_log.py:54`).
- *Runs.*  A run started beside a worker left behind shares the process's stdout with
  it, and the last to leave restores the other's buffer (`stdio_isolation.py:24`).  The
  reply's lists of files are of the last run.  The total timeout is looked at between
  steps, and the handler asks for one step, so it never fires (`mcp_server.py:425`).
  A deletion that fails leaves the run a success.
- *Stages.*  A reviewer's pass that raises is caught nowhere: the delegation, whose files
  are changed, ends as interrupted (`mcp_server.py:3478`, 3779).
- *Bridge.*  A message queued between the worker's look into the empty queue and at
  the flag is lost (`mcp_server.py:246`).  The tool runs on the loop's thread, so what
  the bridge hands to the loop waits for the delegation to end
  (`docs/PHASE15_ISSUES.md:48`).
- *Servers.*  `cost`, `ps`, `status` and `kill` are not in the list of subcommands, so they
  look like servers to a start (`singleton.py:19`).  A server without `--mcp` is seen by a
  start and not by `mcp-coder kill` (`mcp_process.py:68`).  Two starts at once may end
  each other.  A pid file left behind may name another program (`singleton.py:192`).
- *Capture.*  A callback that runs after its stream was closed counts it once more
  (`mcp_server.py:1199`); a second stream of equal messages takes the first one's
  ownership with it when it ends (`context.py:64`); a late callback recreates the
  counts of an ended delegation; the indexes of proxy and backend lines need not be of
  one numbering (`litellm_callback.py:486`).  The usage of the helpers in a record may be
  incomplete in the ways listed under `CallCapture` (`litellm_callback.py:667`).
- *Trace and retention.*  Lines appended while the header is rewritten are lost
  (`trace.py:209`).  A collection deletes the package of a delegation that has stored it
  and has no row yet (`maintenance.py:295`), or whose row names none as its trace could
  not be annotated (`mcp_server.py:3340`); one that is interrupted after its traces
  leaves blobs to the next.
- *Sessions.*  A torn `project.json` makes every later delegation raise
  (`project_registry.py:29`); a torn `session.json` the one that reads it
  (`apply.py:37`).  Two processes may each create a session of one conversation
  (`store.py:155`), a crash before the hint leaves a session nobody finds, and the time
  of the last delegation may be lost.  A delegation that is resumed runs in a session
  without its conversation's name when the session is new (`mcp_server.py:2021`).
- *Index.*  A file whose summary failed is kept under its hash, so `--changed-only` never
  tries it again (`workspace_indexer.py:82`); a file deleted by a delegation keeps its
  row until the next full run; a file edited between its walk and its reading has
  the summary of one text under the hash of another (`workspace_indexer.py:94`).

## Proofs

Every safety invariant and action property the runs check, and the refinement of
`DelegationLedger`, is also a theorem that TLAPS proves for every value of the
constants; what stays with TLC is listed at the end.  A theorem follows from an
inductive invariant, most often much stronger than the property, that is proved to
hold initially and to be kept by each action (one lemma per action or group of
actions, `...Step` or `...IsInductive` joins them).  The temporal step is the last one.

### Delegation

For any finite set of processes and any bounds, with exceptions at any set of stages:

- `TypeCorrect`.  `TypeOK` is not inductive: that a step's result has its type depends
  on where the process is (an index `trace[call[p].id]` needs an id).  `TypeInv` adds
  `CallKinds`, which ties each label to the kind of the call, to a delegation id and,
  near the record, to an outcome that is final.
- `RepliesAreRecorded`.  `RecordInv`: every id in use or recorded was handed out, two
  processes never delegate under one id, a delegation in progress has no record up to
  the step that writes its row and its complete record alone from there on.
- `LedgerIsKept`, the refinement.  `LedgerInv` says what a step needs to be one of the
  ledger's: nothing is traced before the routing has passed, a returning call
  has its record, nobody works on a delegation that is lost, and a resume that has
  logged writes only to the trace of a recorded delegation.  Then each step opens,
  records or loses one delegation or changes nothing of the ledger's
  variables (`LedgerVars`), and so implements `Open`, `Record`, `Lose` or a stutter.
- `TurnsStayBounded`.  `TurnInv`: in a loop the agent's counter runs ahead of the turns
  in the trace by the loops announced (`Turns + 1 <= cur + Loops`) and stays within
  its limit; an id that was not handed out has no turns.
- `EnvelopesAreClosed`.  `EnvelopeInv`: the starts in a delegation's trace are its ends and
  as many as there are calls *inside* its envelope, for lifecycles and for
  phases, and the flags of the agent say which it is.  The numbers are cardinalities
  of sets of processes, hence `IsFiniteSet(Procs)`.

With one process under the project key (`OneProcess`; TLC refutes
`ProjectMemoryKept` without it, see *Divergences*):

- `ProjectMemoryIsKept`.  `MemoryInv`: the copy of an agent that is loaded, as it is in
  every loop, contains all that the file holds.
- `ClarityPauseStaysNewest`, `AnswersReachTheirQuestion`.  `PauseInv`: tokens are fresh; the
  token of the host's last reply, and of the call in progress, is the one the
  next `find_latest` returns, or has expired; past the routing no clarity pause is live.

### WorkspaceHistory

- `HistoryTypes` needs only that an active process has an id.
- `NoRowInLimbo`.  `LimboInv`: each row without end that has its manifest is *attended*
  by a process that runs it, is down, or has it on its list of orphans.
  Hypothesis `ServersOnly` (`Procs \subseteq Servers`): a command-line process comes up
  without reconciling.
- `ScopeIsHeld`, `FirstRunIsKept`, for `OneProcess` and any number of runs and
  crashes.  `KeysInv` (one delta per delegation and path) and `StandInv`: until the
  delegation's second commit fails on the key, its deltas are those of its
  first run and explain the difference between its start and the disk, and as the
  gateway works its list off, what is done is as it was at the start.
- `HistoryIsExplained`.  `CalmInv` and `TellInv`: at each label the content that the deltas
  lead to (`Story`) is the disk, or the start of the run in progress, or the manifest
  of the one row that is still open.  That a new delegation's deltas are the last in
  the replay needs the least-number principle on their ids.  Hypothesis `Calm`:
  one server, one run per delegation, no strict scope, no other editor, no thread
  that overruns.  A second run or an overrun refutes the property in TLC
  (*Divergences*); the gateway of a strict scope and another editor change files
  beside the deltas, by design.

### HumanGate

`GateTypes` for every cache; `RegistryIsSafe` and `AnswersAreKept` for `OwnTokens`: no two
delegations of the session have a cache token in common, as when each has files or
a context of its own.  (With a token in common `GateReachable` is refuted, see
*Divergences*.)  `GateInv`: a coder was made under its user's token, so by a run of
the same delegation (`Coders`); hence a registered question was asked by a run of
the delegation it is filed under (`Entries`), and so is the one an answer call has
found (`Answered`); until a thread outlives its run the registry holds the
question of the handler's thread while it is at the gate, and nothing else (`OneThread`).

### Before the executor

`PipelineProofs`:

- `GatesAreSound`, `AnswersAreNotReplaced`.  `GatesInv`: questions are asked below the
  cap only, and none is absent from the spec when the delegation runs.
- `PhasesAddUpAlways`, `PromptIsAsRecorded`.  `PipelineInv`: each phase was recorded as
  often as the stages passed require (`OnceEach`, `RunsCounted`), the one that
  raised, or the review that did, is all that is open (`OneOpen`), and the brief is the sections of the stages that applied,
  in order, with what a rerun replaces (`BriefGrows`).
- `PackagesHold`, `TextsToEditStay`.  `CompilerInv`: each entry is what its role, its
  tier and its source allow (`EntrySound`), whatever the loops of the budget have
  passed has been treated (`LoopsBehind`), and an estimate above the budget is warned
  of once all was tried (`FitsOrWarned`).
- `PipelineTypes`, `PipelineHolds`.

### While it runs

`ExecutionProofs`:

- `BridgeIsOrdered`.  `BridgeInv`: the queue goes on where the thread has handed over, up
  to the last notification told or the stop mark (`GoesOn`); a thread that may still
  send a heartbeat has sent none after its flag (`BeatsOnce`).
- `StdoutIsIsolated`, `AnswersAreTrue`.  `RunInv`: runs never outnumber the attempts
  (`RunsCounted`), a worker that is in alone has saved the protocol's stdout
  (`StdoutKept`), the result tells of the last run what it did (`ResultTold`), and a
  workspace that changed since its start was changed by one of three (`DirtyIsCaused`).
- `EvaluationsAreClosed`.  `EvaluationInv` (`TalkGoesOn`: the calls among the messages have
  their results, but for those being run; `CompletionsCounted`) and `DecisionsKept`.
- `NothingIsUnasked`, `ExecutionTypes`, `ExecutionHolds`.

### Around it

`ServicesProofs` and `RecordsProofs`:

- `CollectionsAreCareful`.  `RetentionInv`: traces and packages that are *due* exist at
  every step of a collection, it knows the package of each delegation but those it
  overlooked, and never wants to delete one that is due.
- `OneServerServes`, `StartsHarmNobody`.  `LifecycleInv`: of two servers of a workspace that
  see each other, the second to list has the first as a target (`Targeted`), the pid
  file names the one that registered (`Named`), rows belong to a process that lives or
  to none (`RowsKnown`).
- `ConversationsAreApart`, `ConversationsAreKept`.  `SessionsInv`: the file of a process's
  session names its conversation, or none before it wrote the name (`Owns`), and
  processes that share a session are of one conversation (`Shared`).
- `CountsAreRight`, `WhatIsLeftIsOwn`.  `CaptureInv`: a helper call is stored when it has
  returned, once (`HelpersStored`); the key of a stream is owned until one of that key is
  over (`StreamsOwned`); only streams linger (`CallsAgree`).
- `TracesStayWhole`.  `TraceInv`: the header is first in the file unless it is being
  rewritten, and in the copy that will be written; each line appended is in both or
  among the lost ones (`Surviving`).
- `PairingsAreSound`, for traces of any length.  The property says what no row may be;
  `PairingInv` adds what the loops hold on to between two rows: who is in a row waits
  no longer (`RowsAgree`, `RowsApart`), what a lone line lacked is gone for good
  (`NobodyLeft`, from which `GapsDiffer`), and the proxy lines of a step go in file order
  (`ProxiesInOrder`), so a line of the right model that is not free was taken by an
  earlier call.  `NoLineIsSkipped` says that the loops do not stop short: while a line
  waits a row can be made, and each row takes at least one that waited.
- `IndexIsFaithful`.  `FilesInv`: what an indexer holds of a file nobody edited meanwhile is
  so (`Holding`), row numbers grow (`NumbersGrow`), an undisturbed full run has each file
  in the index or still to do (`SeesAll`).  `EntriesInv`: what is filed has ended, what
  `rag index` holds of an open row is of one it overtook.
- `ComponentsRunAlone`, `ServicesTypes`, `ServicesHold`.

`PipelineHolds`, `ExecutionHolds` and `ServicesHold` say that what is proved of each
component alone is true of the side-by-side specification that the runs check.

### On what they rest

The named assumptions on the constants (`BoundsAssumption`, `ModesAssumption`,
`HistoryAssumption`, `GateAssumption`, ...), each in the module that declares them and
evaluated by its runs: bounds are naturals, markers such as `NoPid` or `Absent` are
no members of the sets they stand beside, 0 is no cache token (it means an empty
cache).  Everything else a theorem needs is a hypothesis in its statement
(`OneProcess`, `ServersOnly`, `Calm`, `OwnTokens`); the instances of the runs satisfy
them.

Four definitions were given a form that can be reasoned about, with the same
meaning: `Risk` (`ConfirmSupervisor`), `Compare` (`RetrievalIndex`), `Entries`
(`ContextPipeline`) and `Over` (`ContextCompiler`).  `TracePairing` steps through the loops of
`pair_dual_capture_events` rather than folding a trace at once: a fold computes its
result by induction over data, a loop has an invariant.

What stays with TLC:

- Liveness, which the prover cannot do under fairness: `EveryCallReturns`, `GateEnds`,
  `WaitsEnd`, and the parts `AskingEnds` of `AskingIsFruitful` and `StartsEnd` of
  `StartsBehave`, whose other parts are proved.
- What a property says beyond a hypothesis above; that is either refuted
  (*Divergences*) or a case the runs do not have.

## Not modelled

- *Idle keep-alive*: a periodic notification of the event loop; nothing reads its
  state.
- *Configuration and model registry*: look-ups without state; what they switch is a
  constant or a choice.
- *Host adapters*: they score the host's transcripts; the conversation they find, or
  none, is the input of `Sessions`.
- The viewers of the command line, prices and summaries of usage, the forwarding of
  the proxy and the text of prompts compute from their input or only read; the ranking of hits and the choice of those
  that go into a prompt are of that kind.

What an LLM answers is always a choice over all it could decide.  The note of each
component in `PROJECT.json` says what of a modelled part is left out.

## Plan

The core and the properties of the runs are modelled, checked and, liveness apart,
proved.  What is left:

1. Hypotheses that could be weaker: `ClarityPauseStaysNewest` for two processes of which
   one asks nothing; `HistoryIsExplained` for further runs that touch other files.
2. The automatic retry's second run in `WorkspaceHistory`, and retention there.
3. The context package cache of the compiler, and the call resumed from a pause in
   `HumanGate`.
