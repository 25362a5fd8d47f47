# allCode: TLA+ models, model checking and proofs

allCode is a coding agent for the terminal, written in Python with asyncio
(`src/src/allCode/`). A user's prompt starts a *turn*: the prompt is routed,
a model is called in *rounds*, each round's reply is text or tool calls, and a
gate decides whether the turn may report success. This directory models the parts
whose correctness depends on the order of events, checks them with TLC on small
instances, and proves what matters most with TLAPS for all of them.

Paths below are relative to `src/src/allCode/`.

## Inventory

| Component | State | Operations | Talks to | Hard behaviour | Modules |
| --- | --- | --- | --- | --- | --- |
| **Event bus** `core/event_bus.py` | bounded queue, subscribers, `_closed`, `_dropped_count`, worker task | `publish`, `subscribe`, `close(drain)`, `_run`, `_deliver` | loop and tools publish; logger and UI subscribe; `runtime.py` closes | full queue, blocked `put`, failing handlers, worker death, cancelled `close` | `EventBus` |
| **Round loop** `agent/loop.py`, `agent/round_*.py`, `validation_controller.py`, `phase_gate*.py`, `turn_completion.py` | `RoundRuntime` flags, `RecoveryTracker` counters, `CompletionEvidence` | one handler per kind of reply, validation control, injected `run_tests`, completion gate | model stream, tool gate, event bus | long sequences of legal replies; retry budgets; flags read a round later | `RoundLoop` |
| **Tool gate** `agent/tool_call_processor.py`, `tool_orchestrator.py`, `policy.py`, `tools/executor.py`, `tools/approval.py` | observation cache, loop guard windows, budgets, grants | gate and execute each call, prefetch read-only batches | round loop, tools, hooks, checkpoints | stale cache, prefetch before gating, grants for a session | `ToolGuards`, `ToolApproval` |
| **Turn lifecycle** `runtime.py`, `agent/steering.py`, `agent/session_state.py`, `memory/` | session snapshot, conversation, steering queue | start, hooks, run, persist, close; capture of lines | every other component | cancellation, torn files, restarts, late steering | `TurnSession`, `Steering` |
| **Checkpoints** `workspace/checkpoint_store.py` | numbered groups of copies and `meta.json` | `begin_turn`, `snapshot`, `restore_latest`, prune | executor before each mutation, `/rewind` | failed copies, crashes between file operations, pruning | `Checkpoints` |
| **Model stream** `agent/stream_collector.py`, `llm/response_parser.py`, `llm/adapters/openai_compatible.py` | buffers per call, events so far | connect, retry, collect, time out, parse, repair | round loop | breaks, cut-off arguments, missing ids | `ModelStream` |
| **Requests and answers** `agent/prompt_builder.py`, `context_condensation.py`, `finalization.py`, `completion_gate.py` | messages of the turn, evidence, text | condense, final request; fifteen gates over the answer | round loop | budgets; gates that undo each other | `ModelRequests`, `FinalAnswer` |
| **Inspection** `agent/inspect_staging.py`, `grounding.py`, `source_answer_guard.py` | evidence paths, budgets, retries | stage of a round, automatic reads, guards over the answer | round loop, tools | too early and too late both fail | `Inspection` |
| **Routing** `agent/router.py`, `model_router*.py`, `route_validator.py`, `preflight.py` | none beyond the decision | classify, merge, validate, cross-check, preflight | loop | later steps give back what earlier ones forbid | `Routes` |
| **Generation workflow** `agent/workflow*.py`, `project_planner.py`, `completion_checker.py`, `generation/` | plan, files, results, attempts | plan, write, validate, two repair loops, report | models, shell | repairs after a pass; paths rewritten in one place only | `GenerationWorkflow`, `ProjectPlans` |
| **MCP clients** `tools/mcp/` | request ids, lock, child process, manager thread | bootstrap, requests, `close` | registry of tools, a server process | late answers, cancelled callers, close during a request | `McpServers`, `RpcContract` |
| **Parallel tasks** `agent/parallel_orchestrator.py` | worktrees, branches, outcomes | prepare, run concurrently, integrate, clean up | sub-agents, git | one task failing, conflicts, cleanup | `ParallelTasks` |
| **Built-in tools** `tools/builtin/`, `tools/web_provider.py` | files; jobs with buffers and cursors; pages of results | read, write, patch, replace, delete, edit lists; run, poll, kill; search, fetch | executor | rollback, exit racing the readers, pages that fail | `FileTools`, `ShellCommands`, `WebSearch` |
| **Terminal** `tui/` | text, cursor, elements, undo stacks, pastes, history, completion | one per key | user, runtime | two lists that must agree after every key | `Composer`, `Steering` |
| **Stores** `memory/usage_store.py`, `telemetry/` | JSON files | load, add, save | runtime | lost updates between processes | none |

Configuration, the encoding of model requests, rendering of the terminal and source
analysis (`workspace/source_intelligence`) are pure functions or I/O without a state that
a property is about.

What makes each correct:

- *Event bus*: order per publisher, no drop forgotten, a draining close delivers
  what was queued, close returns and leaves no worker behind.
- *Round loop*: every turn ends; success needs evidence; a change that must be
  validated is; repair before retest; artifacts before validation; the model always
  has the tool it is asked to use.
- *Tool gate*: nothing runs that policy, approval or a rule denies; a cached
  observation is one a fresh call would give; after an edit by `write_file`, `patch_file` or
  `delete_path` the guards let go.
- *Turn lifecycle*: one last result event per turn that was let begin, what was saved survives, a message
  steers the turn it was typed into, in order and once.
- *Checkpoints*: `/rewind` gives back the files as they were before the turn.
- *Model stream*: a call is put together from its own fragments; half a file is not written.
- *Requests and answers*: calls and results stay together, the last prompt is there; the
  answer does not claim what the evidence denies.
- *Inspection*: an answer is accepted after what it is about was read.
- *Routing*: nothing the prompt forbids is routed, offered or done first.
- *Generation workflow*: success is of files as tested; obligations follow the files.
- *MCP clients*: a caller is given the result of its own call, once, and a call is carried
  out once at most.
- *Parallel tasks*: the integration branch holds the applied tasks and nothing of the
  others, as far as git does what it is told; nothing reported as preserved is deleted.
- *Built-in tools*: a failed edit is undone where the disk allows it; output is read once, in
  order and to the end; a failing page costs no evidence.
- *Terminal*: a prompt is sent with its pastes where they were made.

`PROJECT.json` lists the hazards line by line with the properties that cover them.

## Modules

| Module | Models | Checked by | Proofs |
| --- | --- | --- | --- |
| `EventBus` | `core/event_bus.py` | `MCEventBus` | `EventBusProofs` |
| `RoundLoop` | one turn of `agent/loop.py` after routing | `MCRoundLoop` | `RoundLoopProofs` |
| `Checkpoints` | `workspace/checkpoint_store.py` with its callers | `MCCheckpoints` | `CheckpointsProofs` |
| `ToolGuards` | `tool_call_processor.py`, `tool_orchestrator.py`, `recovery.py` | `MCSession` | `SessionProofs` |
| `Steering` | steering queue, capture thread, approvals | `MCSession` | `SessionProofs` |
| `TurnSession` | `runtime.py`, session state, conversation | `MCSession` | `SessionProofs` |
| `ModelRequests` | history and condensation | `MCSession` | `SessionProofs` |
| `FinalAnswer` | `turn_completion.py`, `finalization.py` | `MCSession` | `SessionProofs` |
| `ToolApproval` | `executor.py`, `approval.py`, `policy.py` | `MCTools` | `ToolCallProofs` |
| `McpServers` | `tools/mcp/`; implements `RpcContract` | `MCTools` | `McpServersProofs` |
| `ParallelTasks` | `parallel_orchestrator.py` | `MCTools`, alone | `ParallelTasksProofs` |
| `WebSearch` | `web_provider.py`, `web.py`, `web_finalization.py` | `MCTools` | `ToolCallProofs` |
| `FileTools` | `file_ops.py`, `file_common.py`, `ast_edit.py` | `MCTools` | `ToolCallProofs` |
| `ShellCommands` | `background_jobs.py`, `shell.py` | `MCTools` | `ToolCallProofs` |
| `ModelStream` | `openai_compatible.py`, `stream_collector.py`, `response_parser.py` | `MCDecisions` | `DecisionProofs` |
| `GenerationWorkflow` | `workflow*.py`, `completion_checker.py` | `MCDecisions` | `DecisionProofs` |
| `ProjectPlans` | `project_planner.py`, `project_plan_quality.py` | `MCDecisions` | `DecisionProofs` |
| `Routes` | routers, validator, preflight, policy | `MCDecisions` | `DecisionProofs` |
| `Composer` | `terminal_text_area.py`, `terminal_input.py`, `terminal_paste.py` | `MCDecisions` | `DecisionProofs` |
| `Inspection` | `inspect_staging.py`, `grounding.py`, answer guards | `MCDecisions` | `DecisionProofs` |

`MCTools`, `MCSession` and `MCDecisions` each check several components that share no
variables. They are *sums*: `active` names the component that this behaviour explores,
`Init` chooses it, and every action belongs to one component. The components are
EXTENDed: they keep their own variables, which do not move while another component is
active, and their properties are checked under their own names; so the definitions a
theorem is about are those that TLC checks, and what they would otherwise share is prefixed
(`McpInit`, `ShellNext`, `approvalVars`). The states of a sum are those of its parts, added
and not multiplied. Where components do interact, the interaction is in
one module: edits by others in `ToolGuards` and `Checkpoints`, two threads and the turn in
`Steering`, the worker, the publishers and `close()` in `EventBus`, agents, manager and
server in `McpServers`. The sums have every step of each part as a disjunct of their own.

### EventBus

A task is switched only at an `await`, so one action is everything a task does
between two of them. `publish()` has no await before `put()`; it is one action with
three outcomes (dropped, blocked in `put()`, queued), and `PutResumes` is the rest of
a blocked one. The worker is `WorkerTakes` / `Deliver` / `WorkerFinishes` /
`WorkerStops`; `Deliver` is one handler of the snapshot, called in any order, and
may fail. `close()` is cut at its awaits into `CloseDrains` or `CloseDiscards`,
`JoinReturns`, `PutReport`, `JoinReportReturns`, `PutStop`, `CloseReturns`;
`owner` says at which of them it waits. `join()` is modelled with asyncio's counter
of unfinished tasks and the signal that wakes the waiter.

The environment may cancel the owner at any await of `close()` (`CancelClose`;
`run_agent_turn` then closes again) and a worker (`WorkerDies`: a `CancelledError`
inside a handler is no `Exception`). The history variables record what was queued,
seen, lost and reported.

### RoundLoop

The state keeps the names of the code: `runtime` is `RoundRuntime`, `recovery`
`RecoveryTracker`, `evidence` `CompletionEvidence`, `outcome` `LoopOutcome`.
`pc` names where the turn is; a round is `Control` (steering has no effect on control
state), then possibly `Inject`, then the model's reply, then for tool calls one step
per call, `RecordBatch`, and one of `ChangeComplete`, `PhaseBlocked`, `Proceed`.
Every reply of `response_parser.py` has an action: `ToolCalls`, `EmptyResponse`,
`ReasoningOnly`, `PseudoToolCall`, `MalformedToolCall`, `LengthCutoff`, `TextAnswer`,
and `StreamTimeout` for none. After the rounds come `AutoValidate` and `Finalize`;
`Abort` is a cancellation or an exception at any point inside the `try`.

Abstractions:

- Tools are known by family, files by the obligation they meet (source, test).
- Which reply comes, what a tool returns, whether a call is refused and why, and
  whether an answer passes the guards are nondeterministic.
- Inspection and web evidence are not kept; that enough was read (`ready`) or the
  inspection budget is spent (`spent`, not in the first round) is a choice in `Control`.
- `revalidation_required` offers the tools of `validation_required` and is not told
  apart from it. `mutation_succeeded_after_failed_validation` is written by the code,
  but the second condition of `validation_controller.py:82-97` holds whenever it
  matters, so it is left out. `is_final` is set by no tool.
- The tool policy is that of the unified loop, the default; the `no_shell` flag of a
  request is not told apart.
- The family `rewrite` is `replace_symbol`, `apply_edits` and `delegate_task`: they
  change files and report them as evidence, but are not in `MUTATION_TOOL_NAMES`, so
  `RecordBatch` does not notice (`unseen` remembers it until the next control). What
  `run_command` or a failed `delegate_task` changes leaves no evidence in the code, so
  the model does not see it either.

### Checkpoints

`disk` is the workspace, `groups` the directory `.allCode/checkpoints`: per number a
`meta.json` (missing, readable or torn), its entries (did the file exist?) and the
copies. `current` and `recorded` are `CheckpointStore._current` and `_recorded`; a
store lives for a turn (`BeginTurn`). A call of `write_file`, `patch_file` or
`delete_path` is `Call`, then `Open` (`_ensure_current`, with `_prune`), `Copy`,
`WriteMeta`, then `Edit`: one step per file operation, because the process may die
between two of them (`Crash`) or one may fail; `ToolExecutor` swallows what
`snapshot()` raises (`SnapshotFails`). `/rewind` is `Rewind`, one `RestoreEntry` per
file and `RestoreEnds` with its `rmtree`, whole or cut short. Between turns the plain
interface takes it; the Textual one takes it at an await of a running turn (`Textual`).
`OthersEdit` is every change that is not checkpointed.

Abstractions: the entries are restored in any order; the target is a file of the
workspace (a directory, or a path outside, which `snapshot()` skips, is not modelled);
crashes, failing operations and the edits of others share the bound `MaxFaults`. The
history remembers what a file held when the turn began (`began`, and `past` per
group), with `Unknown` where somebody else changed it first.

### ToolGuards

`Reply` is a reply with a batch of calls; `Prefetched` runs first when all calls are
read-only. Then each call is, in the order of the `if`s of `execute`, denied (`Deny`), answered
from the cache (`Reuse`), answered with a request for another strategy (`AskStrategy`), suppressed
(`SuppressOverBudget`, `SuppressLoop`) or run (`Execute`). `Execute` takes every outcome its tool may
have and makes all that follows: invalidation, storing, the patch record, the guard's
windows. `due` holds the calls that an edit by `write_file`, `patch_file` or `delete_path` has
made worth repeating; `apply_edits` resets nothing in the code and adds nothing to it.
`OthersEdit` is a change by tools the cache does not know of, or by the user. The content of a file is the number of the edit that wrote it.

### ToolApproval

`slot` holds the calls in flight (a batch prefetches two at once); each goes through
`Submit`, `PolicyDenies`, `Check` (rules, mode, grants), `Approve` / `AllowSession` / `Refuse` when the
user is asked, `Hooks` and `Run`. `Configure` starts a session with any mode and at most one
rule and one configured grant; `NextTurn` makes the new `ApprovalManager` of `runtime.py:119`, which
forgets the grants of the session. `Extends` says which command has another as its prefix. A target is
the text that the approval reads; for the printed form of a list (`Printed`) the shell runs another,
which `Executed` gives. Only a prefetched call can have a list, because the others are validated first.

### Steering

The turn (`main`), the capture thread (`thread`, and `left` when `stop()` gave up waiting) and the
question of an approval read one terminal. `Polls`, `Checks`, `Reads`, `Gets`, `Pushes` are the lines
of `_loop` between which the other thread may run; of a thread that was left, blocked in `readline`,
`LeftGets` and `LeftPushes` are the rest, and between the two the new thread may read and push a newer line.

### TurnSession

`run_agent_turn` from `BeginTurn` over the hooks (`HooksPass`, `HookBlocks`), `Rounds`, the events that end it
(`Announces`, `Cancelled`, `Raises`, `Fails`) and the stop hooks to `Saves` and `Appends`; `Crash`,
`Interrupted` and `Resume` may come in between.
The snapshot is `none`, `torn` or `saved`. A conversation is a sequence of lines. An append may be cut
short anywhere (`Pieces`), inside of a character too, and what is appended to the open rest is part of
it (`Merged`). A text may hold one of the separators at which `splitlines` splits (`Forms`). `Loadable`
says whether `load` returns at all, `Replayed` what it returns.

### ModelRequests and FinalAnswer

`ModelRequests` builds the history message by message (prompt, calls, results, nudges, drained lines)
(`Begin`, `Drain`, `CallTools`, ...) and makes of it the three requests of `round_runner.py`: ordinary, final
answer, plan (`AskModel`). Sizes are numbers; the summary keeps `Listed` texts and may be cut. The two loops of
`context_condensation.py`, which rebuilds a history call by call (`Rebuilt`) and drops blocks until the rest
fits (`Bounded`), are recursive functions over the length done. `FinalAnswer` starts with any evidence
the rounds can leave, then `Finalize`, `Answer` and the fifteen gates of `Policy` in their order. A text is the set
of words that the gates look for; which of them the model wrote is any set.

### Inspection

`Decide` is `apply_inspect_stage` (with the budgets of the round), a call of the model is `Overview`, `Search`, `List`,
`Read`, `Probe`, `CallBlocked` or `CallDenied`; the loop then reads a candidate by itself (`GroundRead`,
`GroundProbe`, `GroundRefused`) or not (`GroundNothing`). A read that fails is recorded like any other, a probe may
find line ranges, none, or no file (`Probes`), and a call may raise (`CallFails`). `probed` holds the files whose
lines are known, `anchored` that some are: only then are the paths of an answer looked up, unless the route is
a broad one or an overview was made. A text is rejected (`AnswersEarly`, `AnswersUnobserved`,
`AnswersDependency`, `AnswersBeyondScope`) or accepted (`Answers`). Paths are known by file and form, because
`read_file` records absolute paths, `source_probe` relative ones, and the two do not match.

### Routes

Two extractors with different dictionaries read the prompt, `ModelRoutes` or `RuleRoutes` proposes, `Merged`, `Validated`
and `AnswerPolicy` repair, `CrossCheck` replaces, `Target` and `Preflight` go on. A prompt is the set of the kinds
of words in it, up to two. What the model may answer is the constant `Decisions`, of which is assumed that the
schema admits it (`Schema`); the proof is of every such set, TLC takes 192 replies (see the bounds). Routes that
the fallback or `CrossCheck` makes have another source, and `ModelIsBound` does not speak of them.

### GenerationWorkflow and ProjectPlans

A file of the workflow has a symbol that it defines, uses or mentions, or is broken; `Generated` and
`Repaired` give any content that the editor's own checks let through. Validation and completion check
have a repair loop each, with one count of attempts. `ProjectPlans` is what `_sanitize_plan` makes of
an answer, path by path, and the judgement that accepts it or takes the strategy's plan. Whether its tests use
enough of the public names (`_weak_test_errors`) is an input of the judgement.

### McpServers and RpcContract

A request is `Ask`, `Send`, `Drain` and `Receive`, cut at the awaits of `_request`; it holds the lock
from `Send` on. `Timeout`, `Cancel`, `ConnectionClosed` end it. The server is external: it reads, carries out, answers
late or in any order, sends long lines and requests of its own, and dies. `RpcContract` is
what a caller may rely on (one outcome; an answer only after the call was carried out, once at
most, and the one to that call). `served` counts how often the server has carried a call out, a line of the pipe
says of which call it is the result, and `got` holds the calls whose results a caller was given, so that a
call carried out twice, or answered with the result of another, is a step that `RpcContract` has not.
`ImplementsRpc` is the refinement, with the status of a call computed from `nextId` and `endOf`.

### ParallelTasks

The git commands of a call of `parallel_tasks` in their order, the runners concurrently (`Concurrency`
at a time), the merges one by one; `Overlaps` says which tasks conflict. A mishap is a
git command that fails or is cut off by its timeout, perhaps after it has done its work, a cancelled turn or the
death of the process. No command is exempt: `worktree add` may leave a worktree and a branch that
nobody tracks, `merge --abort` may leave the merge open for the next task, and each command of the cleanup
may fail unnoticed. `astray` and `litter` remember for which tasks that has happened.

### FileTools, ShellCommands, WebSearch

`FileTools` has one action per tool and one per file for `apply_edits`. A write may fail before or after it has
emptied its file, and so may each write of the rollback, which then goes on with the next (`RolledBack`).
`ShellCommands` is a process that writes lines, may fork a child that keeps the pipe, and exits; `Pump` is the
reader thread, `PumpFails` its end over an undecodable byte or a broken pipe, a poll is `Poll`, `Joins`, `ReadsNew`, `Asks`. `WebSearch` is the paging with retries, the instant answers, and what a turn does with
the evidence.

### ModelStream

The provider sends fragments of several calls, alternating, with or without ids; `TransportError`, `TimesOutEmpty`
and `Stops` are the ways to end early. A buffer remembers where in the JSON text it stands: in a string, behind
one, behind the comma or the name of the next field, or at the end. `Salvaged` is the set of what the repairs in
`append` and in `repair_to_tool_call` may make of it, for every content and order of the fields.

### Composer

One action per command of `terminal_keymap.py`. A text is a sequence of cells, a large paste one
placeholder of three cells (or more, with its number), an element that the area moves with the
text; `pending` is the list of `terminal_paste.py`. The cells are a constant: those of a placeholder are no
line breaks and no pastes, and the numbers of two pastes differ (`ComposerAssumption`). A paste is one cell, so
its text never spells a placeholder (see below). A cursor beyond the text is possible (see below) and modelled.

## Runs

| Run | Question | Result |
| --- | --- | --- |
| `EventBus` | safety of the bus and termination of `close()` | passes, 1.2 million states |
| `EventBusLateEvent` | does a draining close deliver every accepted event? | no: see findings |
| `RoundLoop` | evidence, order, no lock-out and termination, six kinds of task | passes, 596 thousand states |
| `RoundLoopFreshValidation` | is a reported success validated after its last edit? | no |
| `RoundLoopDiscoveryHasTools` | does the discovery phase offer a tool? | no |
| `RoundLoopOpenScopeProposalSucceeds` | does an open-scope proposal succeed? | no |
| `Session` | guards, steering, session state, requests, final answer | passes, 1.5 million states |
| `Tools` | approval, MCP, parallel tasks, web, files, shell | passes, 899 thousand states |
| `Decisions` | stream, workflow, plans, routes, composer, inspection | passes, 1.8 million states |
| `ParallelTasksConflicts` | is the branch of a conflicting task kept? | no |
| `Checkpoints` | is a turn undoable, does a rewind restore it, do rewinds step back? | passes, 3.3 million states |
| `CheckpointsKeepFiles` | does a rewind delete only what was not there? | no |

What the properties of the sums say:

| Property | Component | Says |
| --- | --- | --- |
| `CacheIsCurrent` | `ToolGuards` | a cached observation shows every file as it is, save what other tools have changed |
| `EditsReopenCalls` | `ToolGuards` | after an edit by `write_file`, `patch_file` or `delete_path` no guard answers or holds back a call that the edit calls for |
| `FedInOrder`, `SteersItsTurn` | `Steering` | lines are fed once, to the turn they were typed into and in the order typed, but for one that an earlier turn's thread has in hand |
| `RepairIsKnown` | `TurnSession` | a turn knows of the last failed validation, over restarts |
| `ResultAnnounced` | `TurnSession` | one result event, the last one, of every turn that no hook blocks |
| `ConversationKept` | `TurnSession` | an answer once written stays in the file and is read back, unless its text was split or something written makes `load` raise |
| `RequestsAreWhole` | `ModelRequests` | calls stay with their results; the prompt and the last request are there (the request for a plan is not checked) |
| `AnswerIsHonest` | `FinalAnswer` | failures and missing validation are told; JSON and tables, and a route without validation whose verdict an edit erased, are exempt |
| `DestructiveNeedsConsent` | `ToolApproval` | what the shell runs, if destructive, has the user's or a rule's consent, but for a list that `run_tests` is given in a prefetched batch |
| `ImplementsRpc` | `McpServers` | refinement of `RpcContract`: carried out once at most, answered with its own result |
| `AppliedIsIntegrated` | `ParallelTasks` | the integration branch is exactly the applied tasks, off by no more than the merges that went astray |
| `SearchKeepsEvidence` | `WebSearch` | what was found is delivered, each once; retries end |
| `FailedEditsUndone` | `FileTools` | a failed call leaves each file as it was, save one whose own write or rollback failed |
| `TailIsReported` | `ShellCommands` | each line once, and none left behind by a poll that found the process ended |
| `HeardAsSaid`, `NoHalfFile` | `ModelStream` | calls are whole; a file is written as meant or not at all, unless it breaks off between two of its fields |
| `SuccessIsTested` | `GenerationWorkflow` | success is of the files as last validated |
| `ObligationsFollow` | `ProjectPlans` | without a package layout, an obliged file is a file of the plan |
| `ModelIsBound` | `Routes` | a route made of a reply of the model respects the prompt; those of the fallback and of the cross-check are exempt |
| `PastesArrive` | `Composer` | a prompt is sent with its pastes in their places, unless the cursor strayed, something was undone or a placeholder is spelled before its place |
| `AnswerIsGrounded` | `Inspection` | an accepted answer comes after what the prompt names was asked for, and claims nothing of files that no probe has opened |

### Bounds

`EventBus`: a queue of one slot makes every second event meet a full queue, so
blocked puts, drops and a blocked report or stop mark all occur; two publishers, one
with two events, are the fewest that compete and have an order; two workers allow one
to die and be replaced; two `close()` calls are what `run_agent_turn` makes. One
handler is enough for TLC because handlers do not interact; the proofs cover any
number.

`RoundLoop`: the code's limits are 40 rounds (configurable), 4 mutation requests
(6 for artifacts), 3 validation repairs against 2 controller attempts, 2 phase blocks
and 4 malformed replies. The runs keep their order with 1 (2), 2 against 1, 1 and 1,
so that every budget can be used up within four rounds. The last two rounds, in which
validation is injected, are different from the first two. Batches of two calls
(`MaxCalls`) reach every combination of two results; they occur in one round of a turn
(`BatchRounds`), the others have one call, as all rounds of the `violation` runs have. A
fifth round was tried once and changed nothing but the time.

`Checkpoints`: two files make a group with a recorded and an unrecorded file, and a
restore that is half done; two contents tell a copy from the turn's own work; room for
two groups and three turns make pruning, and the reuse of a number that a rewind has
freed, happen. One mishap (`MaxFaults`) at any step: what two crashes in one restore do
is not covered by the run. Files and contents are symmetric, and no liveness is checked.

`Session`. Guards: one file, batches of up to two calls, four calls and two edits, so
that a call is cached, made stale and asked again, and repeated until the guard holds it
back. Steering: five lines over three turns, so that a thread that outlives its
turn meets the next one. Turns: three, with one mishap (crash, interruption or failing
write) at any step, and two symbols for a repair context that is replaced. Requests: eight messages,
of which two are kept and two are listed; a budget of 14 is exceeded by two long ones (4),
by the prompt alone, or by neither. Final answer: no bound; the evidence is any.

`Tools`. Approval: one path, a harmless command that has a destructive one as extension (`MCExtends`),
two calls at once, two turns. MCP: two callers and the bootstrap, pipes of one line, one
request of the server: with two callers a late answer meets the request of the other. Parallel:
three tasks of which the first conflicts with both others, two at a time, two calls, one mishap (of any
command, the abort and the cleanup included; the proofs have any number).
Web: three attempts per page (the code's number), two pages, two rows, two searches. Files: two
files with texts of two letters; two operations and two faults, so that a write fails and then its rollback. Shell: three lines, three polls, one line shown.

`Decisions`. Stream: plans of up to two calls, one retry. Workflow: two symbols, of which one is an obligation,
two repairs (5 in the code) and two kinds of failure, so that a failure comes
back or changes. Plans: two files of a set of paths with and without each root. Routes: two kinds of
words in a prompt; each constraint is met by each intention. Of the replies that the schema admits TLC takes 192
(`MCReplies`): each kind with each of six sets of capabilities and one of eight remarks that `Merged` tells apart
(unsure, read-only, validates, external, a target, a hint); the proof takes them in any combination. Composer: five keys, of which
two pastes, a move and a deletion are the fewest that disturb an order; its cells are those that these keys
can bring into a text (`MCCells`), a number is one digit (`MCNumber`). Inspection: two files, three
rounds with two inspections and two retries each.

`CHECK_DEADLOCK FALSE` appears where the system may stop: a closed bus has nothing
left to do, a call of `parallel_tasks`, a stream, a workflow or a route has an end, and the sums inherit
it from their parts. A turn that has ended stutters explicitly, so deadlock of the round loop
and of the checkpoints is checked.

### Fairness

`EventBus`: weak fairness of each worker, of a put that has room, and of the steps of
`close()`: asyncio runs every ready task, and handlers are assumed to return. No fairness
for publishing, subscribing, closing, cancelling or dying.

`RoundLoop`: weak fairness of `Next`: the turn is one task whose awaits all end,
because the model stream and the tools have timeouts. The environment is not
fair: it may give the same reply for ever, and `EveryTurnEnds` holds all the same.

The other modules state safety only. Two of them could not promise more: `drain()` of the MCP
client waits without a limit, and a shell command whose child keeps the pipe is read
as long as the child lives.

## Findings

1. *A blocked publish outlives the drain* (`EventBusLateEvent`). `put()` resumes behind
   the stop mark; the event is neither delivered nor counted.
2. *A stale pass counts* (`RoundLoopFreshValidation`). An edit does not withdraw
   `validation_passed`, so tests that passed before it satisfy the gate.
3. *Discovery without tools* (`RoundLoopDiscoveryHasTools`). `only_validation` and the
   phase gate are intersected to nothing; the phase asks for a search the model
   cannot call.
4. *Open-scope proposals fail* (`RoundLoopOpenScopeProposalSucceeds`). The exemption in
   `turn_completion.py` is undone by the validator of `TurnResult`.
5. *A rewind deletes a file* (`CheckpointsKeepFiles`). When `copy2` fails, the file is
   recorded as absent; `/rewind` then removes it although it was there all the time.
6. *A preserved branch is deleted* (`ParallelTasksConflicts`). The report says that the
   branches of conflicting tasks are preserved; the cleanup before it has deleted them.

### Also observed

Met while modelling; the modules have this behaviour, no run is about it.

- *Approval*: "a: session" is forgotten with the next turn, which has a new
  `ApprovalManager` (`tools/approval.py:62`, `runtime.py:119`). The rules for reading tools and
  `run_tests`, `apply_edits` and `replace_symbol` are never consulted. A call that a deny
  rule forbids is put to the user all the same, and runs when approved, although the reason
  shown says it was not carried out. The approval classifies `str(command)` (`tools/executor.py:222`), the
  shell runs the words of a list joined (`tools/builtin/shell.py:340-345`); the prefetch does not validate
  arguments, so for `run_tests` in a prefetched batch the two may differ.
- *Guards*: `apply_edits`, `replace_symbol`, `run_command` and the user invalidate no cached
  observation, and the first two reset no guard: after them a cached read is reused and `run_tests` may stay
  suppressed, although the docstring of `reset_after_mutation` (`agent/recovery.py:50`) speaks of any edit. The key of the cache has the query in lower case. A prefetched call
  has run even when it is suppressed afterwards.
- *Steering*: a line typed while an approval is being asked may be read by the capture
  thread, contrary to the docstring at `tui/terminal.py:51-55`. A thread that was left pushes the line it has
  read after newer ones of the next turn (`tui/terminal.py:104-109`).
- *Turn*: an exception between `TurnStarted` and the `try` of `agent/loop.py:291` leaves no
  result event; when the snapshot cannot be saved, the conversation and the commit are skipped for a
  turn whose answer the user has seen; what is appended to a torn line is lost. A line torn inside of a character, or a text
  with a line separator such as U+2028 next to a JSON value, makes `load` raise and the whole conversation unreadable
  (`memory/conversation_store.py:68`); a text with a separator alone is skipped. A turn that a hook blocks returns
  a result and publishes `TurnFinalized` only (`runtime.py:181-193`). The hook context rebuilds the
  prompt and drops the directive of the plan mode (`runtime.py:197-199`).
- *Final answer*: `FinalAnswerReady` is published before the policy that rewrites it. The
  JSON and table gates can drop the caveat of a failure; one gate's note suppresses another's; on a route
  without validation no gate tells of a verdict that an edit has erased.
- *Requests*: a final request with a history of tools sends the first and the last message of
  the user only; a truncated summary loses texts it has listed.
- *Stream*: `finish_reason` "length" next to text is taken for a complete answer
  (`llm/adapters/openai_compatible.py:204`; compare `plan/04_llm_loop_plan.md:105`). A patch cut between two
  of its edits is salvaged as the shorter patch. A file that breaks off between the comma behind its content and the
  colon of the next field is salvaged with an end that is guessed by a scan backwards for a quote
  (`llm/tool_argument_repair.py:145-159`): it may be half of the content, against the comment at
  `llm/response_parser.py:117-123`. Ids that begin with "tool-" count as missing (`llm/adapters/openai_compatible.py:56`).
- *Inspection*: `read_file` records absolute paths and `source_probe` relative ones, so an answer may be
  rejected for a file that was read. A read that failed and a probe that found no file count as inspected
  (`tools/executor_evidence.py:129-132`, `agent/tool_evidence.py:41-48`), and on a broad route the paths of an answer
  are not looked up (`agent/source_answer_guard.py:118-125`). Missing targets are asked for before any budget is looked at
  (`agent/inspect_staging.py:82`): such a turn rejects every answer until its rounds are used up, where
  `plan/33_source_analysis_depth_hardening_plan.md:320` has it end in a summary.
- *Routes*: the rule router that replaces a route knows eleven read-only phrases fewer than
  the detector of constraints.
- *Workflow*: the package layout moves files and not the obligations that name them
  (`agent/project_planner.py:423-432`). Repairs may rewrite the tests, which a comment calls a fixed
  contract. No event tells the end after an exception. The workflow commits what the user
  had not, and `/undo` discards it.
- *MCP*: a server whose bootstrap fails is in no list and never closed; a request of the server with the id
  of a waiting call is taken for its answer; a timeout of `prompts/list` fails the bootstrap.
- *Parallel tasks*: a resolver's word is not verified; a second call on the same base deletes
  an integration branch that nobody has merged. The return codes of `merge --abort` (line 293) and of the cleanup
  (lines 168-178) are ignored: a merge that stays open makes the next one fail, or be concluded in its place, and a
  worktree or branch may be left, which the docstring at `agent/parallel_orchestrator.py:15` rules out.
- *Shell*: the status is asked after the read, so a job may be reported as ended with its tail unread until the
  next poll, and output that cannot be decoded ends the reader for good (`tools/builtin/background_jobs.py:59-60`);
  the comments at `background_jobs.py:45-48` and `shell.py:108` promise the tail with the exit. A timeout kills the shell and not its children; a cancelled turn leaves the command
  running.
- *Files*: in `apply_edits` the file whose own write fails is not rolled back, a rollback write that fails
  is passed over (`tools/builtin/ast_edit.py:207-214`), and rollback overwrites what the user has written meanwhile;
  lines 7-8 and 124-126 of that file say that all files are rolled back.
- *Composer*: `set_text` clamps the cursor by the elements of the old text
  (`tui/terminal_text_area.py:52-57`); the cursor may end up beyond the text, where a word command raises an
  `IndexError`. Undo brings a placeholder back whose paste has been forgotten; the first of two
  pastes of one size has a placeholder that is a prefix of the second's. A
paste whose own text contains the placeholder of a later one has it replaced there
(`tui/terminal_paste.py:52-56`: one pass per paste, over what the one before has written).

## Proofs

`EventBusProofs` proves for every number of publishers, handlers and workers, every queue
size and any bounds:

| Theorem | Says |
| --- | --- |
| `TypeCorrect` | `Spec => []TypeOK` |
| `ControlCorrect` | one live worker; what close() holds at each of its stages |
| `DropsAccountedCorrect` | `Spec => []DropsAccounted` |
| `CloseStopsWorkerCorrect` | `Spec => []CloseStopsWorker` |
| `InOrderCorrect` | `Spec => []InOrder` |
| `DrainDeliversCorrect` | `Spec => []DrainDelivers` |

Assumed are only `NoOneAssumption` (the null value is no publisher and no worker) and
`BoundAssumption` (the bounds are naturals, the queue has room for one item).

None of the last three is inductive by itself. `ControlInv` adds that only the worker
named by `self._worker` may be alive, and what holds at each stage of `close()`.
`OrderInv` adds that events are in order along the whole way of an event: what is
seen is ahead of what the worker holds, that is ahead of what is queued, and an event not
yet queued has a larger number than all of them (`Issued`). `DeliveryInv` adds that
the count of unfinished items is the length of the queue plus what the worker holds, and that an
accepted event is in the queue, in the worker's hands for a handler, or seen by it;
when `join()` has returned the first two are empty.
Each theorem has one lemma per action, then the temporal step.

`RoundLoopProofs` proves for every set of tasks that the router may produce and every
value of the limits:

| Theorem | Says |
| --- | --- |
| `TypeCorrect` | `Spec => []TypeOK`: the rounds, repair requests, malformed retries and phase blocks keep their budgets |
| `SuccessIsBackedCorrect` | `Spec => []SuccessIsBacked` |
| `EditsAreValidatedCorrect` | `Spec => []EditsAreValidated` |
| `RoundsValidateEditsCorrect` | `Spec => []RoundsValidateEdits` |
| `RepairBeforeRetestCorrect` | `Spec => []RepairBeforeRetest` |
| `ValidationWaitsForArtifactsCorrect` | `Spec => []ValidationWaitsForArtifacts` |
| `NotLockedOutCorrect` | `Spec => []NotLockedOut` |

Assumed are `TaskAssumption` (what `route_validator.py` and plan mode let through) and
`LimitAssumption` (naturals; at least two rounds and one call). `TypeOK` is not inductive:
`StateOK` adds that a round is left wherever one is under way, and that the rounds
have returned a status before the turn is finalized. The next two follow from
`Sound`, whose parts say why: a verdict is only recorded with its commands and after
`run_tests` was asked for (`VerdictsAreAsked`); when the model is called, an
unvalidated change of a complete turn is pending (`ChangeIsPending`), which is what
keeps `TextAnswer` from accepting an answer too early; and every success that leaves
the rounds is of a validated change, or of a turn that needs none
(`OutcomeIsTried`). The last four are about the order of things and follow together from `Ordered`, which holds
of all the rounds and not only of the moment a property speaks of: a validation that is
pending, or a batch that has edited, belongs to a change that is resolved
(`PendingIsResolved`) and whose artifacts are there, but for a source file that a failed
validation found missing (`PendingHasArtifacts`); after a failed validation a retest is due
only once an edit has made the verdict stale, or nothing else may be done
(`RetestFollowsEdit`); and in the last two rounds a change that can be validated is injected
before the model is asked (`LastRoundsSee`).
`ValidationWaitsForArtifacts` once had no exception for a file that was asked for. Its proof failed at
the retest after a failed run, because `awaiting_revalidation` outlives the run and the source file that
it found missing, which no task of the run meets. The property now names that exception.
`StateOK`, `Sound` and `Ordered` were checked by TLC before they were proved.

`CheckpointsProofs` proves for any finite set of files, any contents, any limit of groups
(`_prune`), both interfaces, and any number of turns, crashes, failing operations and edits by others:

| Theorem | Says |
| --- | --- |
| `CheckpointsTypeCorrect` | `Spec => []TypeOK` |
| `UndoableCorrect` | `Spec => []Undoable` |
| `RewindRestoresCorrect` | `Spec => []RewindRestores` |
| `RewindStepsBackCorrect` | `Spec => RewindStepsBack`, an action property |

Assumed is `ConstantsAssumption`: the null values are no files and no contents, and
`Keep` is at least 1 (it is 20 in the code; a limit of 0 would prune the group just made).
The invariant `IInv` says where each part of a group stands at each file operation: the
numbers of groups are not larger than those given, and a larger number belongs to a later
turn (`NumbersGrow`); what no tool of the turn has touched is as it was when the turn began
(`UntouchedAsBefore`); a file that was touched stands in the group of the turn
(`GroupOfTheTurn`), and its copy is made before the edit (`CopiesAreMade`); every entry of every
group tells what the file held when that turn began (`GroupsTellThePast`); and a restore
has put back what it has come to (`RestoredSoFar`). The newest group is a maximum of a set of numbers; that
there is one is the least-number principle, from the well-foundedness of `<`.

The other five modules prove the components of the sums for all constants. What they assume of the
constants is one named assumption of the component, which TLC evaluates in the runs
`Session`, `Tools` and `Decisions`: bounds are natural numbers, and a setting of servers, tasks or
sizes is one that the code can have.

| Component (module) | Theorems | Assumes | Invariant and why |
| --- | --- | --- | --- |
| `TurnSession` (`SessionProofs`) | `ResultAnnouncedCorrect`, `RepairIsKnownCorrect`, `ConversationKeptCorrect` | `TurnAssumption` | `EventsInv`: before the result is announced no event is one; `RepairInv`: the snapshot is what the last saved turn knew, or was cut; `KeptInv`: the exchanges that were written are lines of the file, and an append, whole or cut short anywhere, leaves those lines as they are; as long as nothing written was unreadable, every line can be loaded |
| `Steering` (`SessionProofs`) | `FedInOrderCorrect`, `SteersItsTurnCorrect` | `SteeringAssumption` | `SteerInv`: lines stand in the order of typing along their whole way, terminal, hand of the thread, queue, model, except those that a thread that was left has in hand or has pushed (`late`), and none is there twice; a steering line that waits is of the running turn; at most one reader holds the terminal |
| `ToolGuards` (`SessionProofs`) | `CacheIsCurrentCorrect`, `EditsReopenCallsCorrect` | `GuardAssumption` | `GuardInv`: results fetched ahead are those of the disk as it is, as long as the batch only reads (`FetchedIsCurrent`); a call that an edit has made due is in no cache, window, budget or record of failures (`DueIsForgotten`) |
| `ModelRequests` (`SessionProofs`) | `RequestsAreWholeCorrect` | `RequestsAssumption` | `RequestsInv`: each message of the history that calls tools is followed by all their results (`Conversation`), and what the turn has drained is in it (`Heard`). A request keeps this through its rebuilding, where n results are still due (`Paired`), and through the cuts, which take whole blocks and spare those of the user; what is left out is the oldest, so that the list has as many texts as it may |
| `FinalAnswer` (`SessionProofs`) | `AnswerIsHonestCorrect` | `FinalAssumption` | `FinalInv`: a failed turn reaches the gates with its caveat and without an answer that is ready; `ToldAfter`: what the first n gates have left. The gates before "failed" add none of its words, so when it finds them said, the model has said them |
| All five (`SessionProofs`) | `SessionTypeCorrect`: `MCSession!Spec => []TypeOK` | the five above | `SessionTypes`: the types, with the invariants of the parts whose types are not inductive alone: the length of the batch and of the window (`GuardBounds`), the words and loads between the gates (`FinalTypes`), the number of messages up to a request and within it (`RequestsTypeOK`). A step of the sum is a step of one part and a stutter of the others (`ComponentSteps`) |
| `ToolApproval` (`ToolCallProofs`) | `DestructiveNeedsConsentCorrect`, `ReadOnlyTurnsCorrect` | `ApprovalAssumption` | `ApprovalInv`: a call that got past the policy and the approval still has their consent, because within a turn lists only grow and no call outlives its turn; and what the manager allows, the configuration or the user has allowed |
| `ShellCommands` (`ToolCallProofs`) | `TailIsReportedCorrect` | `ShellAssumption` | `ShellInv`: when the reader has ended, and not failed, nothing can write any more and all is pumped; a poll that found the exit and did not give up waiting is one whose reader has ended or failed |
| `FileTools` (`ToolCallProofs`) | `FailedEditsUndoneCorrect` | nothing (`FilesAssumption` for its types) | `FilesInv`: the property holds while a list of edits is under way, not only after its failure: a file that differs from the one before the list is written by it, or changed by others. The rollback (`RollsBack`) puts the former back, whatever order the list had, but for the files of which a write fails |
| `WebSearch` (`ToolCallProofs`) | `SearchKeepsEvidenceCorrect` | `WebAssumption` | `WebInv`: between pages a search holds exactly what they offered, each once, and has room for more (`Holding`); its requests are at most those of the pages behind it and the attempts at this one (`Counting`) |
| `McpServers` (`McpServersProofs`) | `ImplementsRpcCorrect`: `McpSpec => ImplementsRpc` | `McpAssumption` | `RpcInv`: requests under way have different ids, none with an outcome; an id that was not sent is unknown to the server, one on its way is in the pipe once; an answer on its way was carried out and is the one to its id; nothing is carried out twice, because an id is in the pipe once; ids are as many as callers and bootstrap stages have asked for, so that none is beyond `Ids` |
| `ParallelTasks` (`ParallelTasksProofs`) | `AppliedIsIntegratedCorrect`, `NothingLeaksCorrect` | `ParallelAssumption` | `TasksInv`: the integration branch is the applied tasks among those that had their turn, but for those whose merge went astray, each of which may have cost one later task its own; git knows of no worktree and branch but those of tasks that `usable` lists or `litter` remembers |
| All six (`ToolCallProofs`) | `ToolTypeCorrect`: `MCTools!Spec => []TypeOK` | the six before it | `ToolTypes`: the invariants of the parts with their types. What needs an argument: the queue of the lock names each request once and only such as are under way, so that the end of one takes exactly its place out (`LockOK`, `RemovedAt`); a slot that is taken has a call, and one that asks a call the user can be asked about (`Taken`); the tasks in use are those of the call that runs (`TaskPlaces`); a search turns a page and tries again only below its limits; the references a fallback answer may cite are those of the observations, item by item (`ItemsAreReferences`) |
| `GenerationWorkflow` (`DecisionProofs`) | `SuccessIsTestedCorrect`, `RepairsEndCorrect`, `EndsCleanCorrect` | `WorkflowAssumption` | `WorkflowInv`: the stages at which the last validation is one of the files as they are; a repeated failure is no pass; no step runs between the stages. That the repairs end (`RepairsEnd`) is a step of a measure, `ToGo`: four times the attempts left, and the way to the end of the loop; an attempt pays for the longest way |
| `ModelStream` (`DecisionProofs`) | `HeardAsSaidCorrect`, `NoHalfFileCorrect` | nothing (`StreamAssumption` for its types) | `StreamInv`: a buffer holds the fragments of its call that were sent in this connection, in order; a fragment without an id has an index that leads to its call; as long as nothing was produced, and only then is the connection tried again, no call has begun |
| `ProjectPlans` (`DecisionProofs`) | `ObligationsFollowCorrect` | nothing | inductive by itself; the proof is that files and obligations lose the same root, as long as no package layout moves the files |
| `Routes` (`DecisionProofs`) | `ModelIsBoundCorrect` | nothing on the words; `RoutesAssumption`: the schema admits the replies | `RouteInv`: for every reply of the schema, from `Merged` on a route of the model is `Honest` to the words of the prompt, and no later step that keeps the route gives anything back |
| `Inspection` (`DecisionProofs`) | `AnswerIsGroundedCorrect` | `InspectionAssumption` | `InspectInv`: whenever the model may answer with nobody having asked for it, and whenever the gate asks, what the prompt names was asked for (`Grounded`); what a probe has opened stays so, and line ranges once seen are not forgotten (`AnchoredStays`) |
| `Composer` (`DecisionProofs`) | `PastesArriveCorrect` | `ComposerAssumption` | `ComposerInv`: unless the prompt has strayed, each element shows its label at its place, no two share a cell and the cursor is in none, in the area and in every snapshot of the two stacks (`InForm`); every pending paste has an element, with a label that has been given out, and until something is undone every element has its one paste (`Matched`). Then `Expand` is followed paste by paste: the first place where a placeholder is found, in a text of which other pastes are put back already, is its element (`FirstIs`), because what stands before it is changed by whole elements only; so each round puts back one element more (`OneMoreIs`), in whatever order the elements stand |
| All six (`DecisionProofs`) | `DecisionTypeCorrect`: `MCDecisions!Spec => []TypeOK` | `WorkflowAssumption`, `StreamAssumption`, `RoutesAssumption`, `InspectionAssumption`, `ComposerAssumption` | `DecisionTypes`: the invariants of the parts with their types. What needs an argument: what is written over the files of a plan is again content of theirs (`Over`); the calls of a stream are listed once each, in the order of their first fragments (`InOrder`); a round of the inspection has one call of the model and one of the loop (`Paced`), so that it ends within two actions a round; a route keeps its shape through every step of the validation, which takes capabilities away or gives those that exist; the snapshots of the editor are as many as the keys that made them (`Stacked`) |

`ReadOnlyTurns`, `NothingLeaks`, `RepairsEnd` with `RepeatsEnd`, and `EndsClean` are proved and in no run, and so are
the type invariants of `EventBus`, `RoundLoop` and `Checkpoints`.
`ImplementsRpcCorrect` maps each step of the client, its manager and the server to a step of
`RpcContract` or to a stutter.

Some helpers are recursive functions over numbers: `Links`, `Distinct` and `Items` of `WebSearch`, `Gated` of
`FinalAnswer`, `Rebuilt` and `Bounded` of `ModelRequests`, `Filtered`, `Expand` and `PutBack` of `Composer`. What the proofs need of them for every length is shown by induction stated of a
set: a set of numbers that has 0, and with each number the next, has them all (`AllNumbers`,
again from the well-foundedness of `<`). The existence of the function is shown the same way
(`LinksExist`, `DistinctExists`, `ItemsExist`, `GatesExist`, `RebuiltExists`, `CutsExist`).

Model-checked only:

- `CloseTerminates` and `EveryTurnEnds`: liveness under fairness is out of the prover's reach.
  Every invariant that a passing run checks is stated by a theorem.

## Plan

Done, in the order of what matters most: the bus and the round loop with their proofs; the
checkpoints; the gate, the approval and the session of a turn; the external parties (MCP, parallel
tasks, shell, web, files); the decisions before and after a turn; then the proofs of every safety
property of all of these.

What would come next:

1. An abstract `UndoStack` (a stack of file states, pushed by a turn, popped by a rewind) that
   `Checkpoints` implements as long as nothing fails; `IInv` is the invariant it needs.
2. `TurnContract` (start, then at most one terminal event, then the result) over
   `TurnSession`, `RoundLoop` and `EventBus` together.
3. A second MCP server and the HTTP transport.

## Not modelled, and why

- *Stores* (`memory/usage_store.py`, `telemetry/`): a file is loaded, added to and saved; the
  last of two processes wins (`memory/usage_store.py:29`). No other component reads them.
- *Configuration*: parsing and defaults, read once.
- *Workspace analysis* (`workspace/source_intelligence/`, search, indexing): pure functions of
  the files; what they return is an input of `Inspection` and `ToolGuards`.
- *Adapters*: the encoding of requests and the probing of capabilities are conversions without state.
- *MCP over HTTP*: a request is one exchange without shared pipes.
- *Rendering*: colours, layout and wording of the terminal and of prompts.
- *Classification of text*: which words a prompt or an answer contains is an input; what is
  done with them is modelled.
- *The non-unified tool policy*: it differs by the set of tools that are offered. The generation
  workflow is modelled although it is reached only with `config.agent.unified_loop` off.
