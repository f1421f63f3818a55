# Verification of luca: the agent runtime, its client and its tools

This directory holds TLA+ modules that model `luca`: the agent runtime
(`luca/agent/core`), the wire formats and streams of the provider client
(`luca/client`), and the plugins and the terminal over the runtime that keep
state (`luca/agent/contrib`). With them are the TLC configurations that check
the models and theorems about them that TLAPS proves. Paths below are relative
to the repository root; a bare line number refers to
`luca/agent/core/runner.py`.

## 1. The system

`luca` has three layers: a provider client, an agent runtime, and plugins and a
terminal interface over the runtime. The runtime carries the program's own
protocol. It is a set of coroutines on **one event loop**: there is no
preemption, so between two awaits (or yields, where the consumer holds an event)
a coroutine runs alone, and everything hard happens at the awaits. Tools add
threads and processes, which do not stop when the coroutine that waits for them
is cancelled.

### 1.1 Components

| Component | State it keeps | Operations | What must be true of it |
|---|---|---|---|
| Conversation path (`models.py`, `ledger.py`) | durable, append-only `nodes`; the entries, of which only tool executions are ever updated | append, persist an execution, derived reads: open turn, pending cancel, status | brackets never nest; status is a function of the path; a terminal execution is never rewritten |
| Turn drive loop (`_drive`, `_drive_loop`, 3012-3770) | token, `polled`, `announced_gates`, `last_seen` of one drive | birth, decide, dispatch, gate, park, model call, close, wind-down | no body without ALLOW or under a cancel; no close over a live call or over an unread post; a deferral is not polled for free; every cancelled run ends |
| Doors (`post_message` 1245, `cancel` 1550, `notify` 584, `run`/`start`) | `_recheck`, the run's token | append and wake | accepted or refused from the durable path alone |
| Cancellation race (`_race_cancellation`, `_kill`, 5452-5553) | grace deadline, detached tasks | race an await with the token | the token wins within the grace; a killed task is never taken for an answer |
| Worker pool (1905-2043) | `_waiters`, `_working`, admission errors | request, grant, release, pump, acquire | at most `subagents_max_workers` work; no waiter starves; a parked parent holds no slot |
| Subagents (3774-4350) | links (`ChildConversation`), handles of the tree | spawn, start, stop, resolve, flush, settle, cascade, redrive | every link is resolved exactly once; a parent never closes over a live child |
| Compaction, transition, rewind (1396-1490, 2631-3010) | compaction bracket, snapshot, archived conversations | schedule, run the plan, commit, discard, cut a path | a plan is committed only for the path it was made from; no entry is dropped; an archived path is frozen |
| Run handle and fan-in (`AgentRun`, 343-1010) | inbox, engine, task, children | lazy pull, eager pump, finalise, join | Spawned before Started before a child's events; no event lost or delivered twice; every pull answered; a finalised run leaves nothing registered (3.3 has the exception) |
| History (`projection.py`, context manager, middleware, transports) | the path; the setting a call is made with | project, adopt and restore native calls, prune, build a request | one output per call; what a provider signed goes back to it whole and to nobody else; the cached prefix stays one |
| Streams (`luca/client/transports/*/streamer.py`) | the message under construction, the read in flight | pull, deadline, cancel, exit | one start, one terminal, bracketed blocks, nothing missing from what finished |
| File tools and native editors (`contrib/shell`) | files, read marks, locks, threads | read, edit, write, delete, patch, move | read before write, one writer, approved files only |
| Persistent shells and commands (`session.py`, `tools.py`, `native`) | processes, working directory | run, restart, close, timeout, kill | what is said of a shell is so; no killed command passes for a success; a call ends with its shell reaped |
| Tool registry (`simple_tool_registry`) | routes per conversation, in memory | survey, create, decide, prepare | a call runs where it is offered and was decided |
| Resource permissions | ordered rules, verdicts of calls | decide, answer, change mode | an ALLOW is somebody's, a refusal stays one, prompts converge |
| Questions, checkpoints, memory (`contrib`) | a sidecar, a shadow git repository, a todo list | ask and answer; take, restore, rewind; update, re-key | an answer reaches the model as given; files and conversation move together; the list follows the agent |
| Terminal (`contrib/tui/app.py`) | drive worker, dock, future, session file | submit, approve, cancel, overlays, reopen | what is due is driven, once |

### 1.2 How they interact

The application posts a message and calls `run()` (lazy: it pulls events) or
`start()` (eager: a task pulls them). The handle drives `_drive`, which opens the
turn, recovers orphans and loops. Each pass asks the registry for births, asks
`decide()` for approvals, dispatches what is allowed, handles the subagents,
then stops at a gate or calls the model. A model call projects the path into
messages, a transport builds the request and a streamer reads the response. The
doors are called by any other callback while the drive is suspended; they write
to the same path and set the recheck flag, the wake event or the token. Subagents
are drives of their own, admitted through the pool, that wake their parent when
they end. The terminal is one such application: a worker drives the session and,
between runs, waits for the user's answers to approvals and questions, which it
stores with the permission strategy and the questions plugin and then notifies
the run of.

### 1.3 The hard behaviours

- A door is called at any await: a post under the model call whose answer would
  close the turn, a cancel between `prepare()` and the body, a notify while the
  drive decides to park.
- Values read before an await are used after it: `last_seen`, `undecided`,
  `ready`, the token, a compaction's snapshot, the session's active
  configuration, a shell's working directory.
- The process dies, or the consumer walks away, at any point; only the path (and
  what plugins save beside it) survives, and the next run starts from it.
- Deferred tools and gates are polled by a loop that other events also turn.
- Ten routes close a turn, and each has to settle what is still live.
- Cancel has a durable half (the entry) and a live half (the token).
- A killed call leaves a thread or a process behind that still writes.
- A history made with one model is sent to another, over another wire.

`PROJECT.json` lists each of these at its line, with the properties that cover it.

## 2. Modules

| Module | What it is |
|---|---|
| `Conversation` | the path, the reads derived from it and the writes several components share |
| `TurnContract` | what a conversation promises about turns and calls, without a drive |
| `Turn` | the drive of one conversation, its doors, suspension and crash; its properties; the refinement mapping to `TurnContract` |
| `SubagentTree` | what is durable of a tree of conversations: turns, links, cancels, the derived status, and the writes that touch more than one conversation |
| `Subagents` | the drives of that tree, the worker pool they share and their doors; its properties |
| `Compaction` | the main conversation replaced by a compaction or a rewind under runs, posts and cancels |
| `RunHandle` | the handles of a run: held step, inbox, fan-in, eager task, approvals queue |
| `Race` | `_race_cancellation` and `_kill` at the grain of the event loop |
| `Wire` | pure: what four transports parse out of a response and build out of messages |
| `History` | the path on its way to the model and back, over `Wire`: projection, native tools, pruning |
| `Streamer` | a streamed completion over four wires: read task, deadline, cancel, block assembly |
| `Edits` | pure: the hunk appliers and replacers of the editing tools, beside what they should do |
| `Files` | file tools over shared files, with locks, read marks and threads |
| `Shells` | the persistent shell of a conversation lineage |
| `Commands` | one-shot commands and their process groups |
| `Processes` | the two together: nothing a tool started outlives whoever owns it |
| `Approvals` | the permission strategy and the user who answers it |
| `Routing` | the proxy over child tool registries, and restarts |
| `Questions` | the deferring question tool, its dock, its sidecar |
| `Terminal` | the drive worker of the terminal and the handlers beside it |
| `Checkpoints` | snapshots of the workspace in a shadow repository, restore and rewind |
| `Memory` | the todo list and the id it is filed under |
| `MCTurn`, `MCSubagents`, `MCRuntime`, `MCEffects`, `MCParts` | the instances TLC runs |
| `TurnProofs`, `ContractProofs` | theorems about `Turn`, the second module on top of the first |
| `SubagentsProofs`, `CompactionProofs`, `HandleProofs` | theorems about `Subagents`, `Compaction` and `RunHandle` |
| `EffectsProofs` | theorems about `Race`, `Processes` (`Shells`, `Commands`) and `Approvals` |
| `PartsProofs` | theorems about `Terminal`, `Routing`, `Files`, `Memory`, `Checkpoints` and `Questions` |
| `StreamerProofs` | a theorem about `Streamer` |

### 2.1 Conversation

A path is the list `conversation.nodes` with every id resolved to its entry.
Executions are updated in place at their position, as `_persist_entry` does. No
derived fact is stored: `HasOpenTurn`, `PendingCancel`, the execution sets and
`Status` are operators over the path, one for each function of `models.py` and
`ledger.py` they translate. An execution keeps its status, its approval and its
attempt list; text, usage, timestamps, specs and errors are left out. An
assistant message keeps how the model stopped and a ghost `seen`, the number of
entries its projection contained.

### 2.2 Turn

`pc` says where the coroutine is. The locations of `Suspended` are its awaits
and yields, and only there (and when there is no drive) may a door be called. The
locations of `Running` separate steps that no other callback can interleave with;
they exist to keep each action as small as one block of the source. A `Crash` may
hit anywhere.

| Source | Actions |
|---|---|
| `_begin_run`, `start()` | `Begin(eager)` |
| `_drive`: `_ensure_open_turn`, `_recover_orphans` | `Drive` |
| loop top: cancel check, recheck flag | `LoopTopCancelled`, `LoopTop` |
| 1a `_birth_executions` | `Birth`, `BirthLost` |
| 1 `decide()` gather and its writes | `Decide` |
| 2 `_dispatch_batch`, `_dispatch_one`, `_run_tool_body` | `Select`, `NextCall`, `PrepareFails`, `PrepareCancelled`, `StartBody`, `BodyEnds`, `BodyDefers`, `BodyKilled` |
| 3, 3b, 3b' gate and park | `GateCancelled`, `Gate`, `GatePassed`, `GateRechecked`, `Park`, `NotBlocked` |
| 4 limit, projection, model call | `HardLimit`, `Resume`, `Project`, `ToolsCollected`, `ModelLost` |
| response, pause, answer, failure | `ModelCalls`, `ModelPauses`, `ModelAnswers`, `ModelFails` |
| closes whose events are yielded first | `SettleThenClose`, `CloseSettled`, `Ending` |
| doors | `Post`, `Cancel`, `Notify`, `Suspend` |
| an exception nothing catches | `ApplicationRaises` |

The token is a variable beside the durable cancel because they really are two
things: `cancel()` writes the entry whoever is driving and trips the token only
of a live run, and the loop top reads the entry while the awaits race the token.

What a registry, a tool body or `cancel()` may say is a constant set
(`BirthStatuses`, `PrepareFailures`, `BodyOutcomes`, `CancelOutcomes`), bounded by
`TurnAssumption` to what the source accepts. A birth leaves the approval unset, as
`ToolExecution` documents (`models.py` 777-782).

### 2.3 TurnContract

The abstract specification: a turn is open or closed; a call goes from asked to
waiting, running, parked and done, and each start of its body counts one try; no
body starts once a cancel was asked for; a close finds every call done, starts
nothing, and does not say completed if a cancel was asked for. `TurnRefinement`
checks that every step of the drive, of the doors and of a crash is one of these
steps or changes nothing the contract can see.

### 2.4 SubagentTree and Subagents

One conversation of the tree is small here, because `Turn` has its details: its
turn (`none`, `seeded` with a message, `open`, or how it closed), whether a
cancel is pending, its link in the parent's path (`unborn`, `open`, `result`,
`cancelled`), the calls and the gate of its open turn, and the spawn and stop
calls it has yet to act on. `Status` is
derived as `models.py` 2012-2089 does, over the whole tree. `Parent` says who may
spawn whom.

A conversation has at most one drive. `pc` is a location of the engine or of the
run around it: `created` (a task that has not begun), `returned` (the engine is
done and the run waits for the children it forwards), `raised`. A synchronous
block of the engine, say the loop top, is one action and nothing interleaves with
it. Where such a block reaches into the pool (a release pumps the queue, a grant
restarts a subtree, which requests slots, which grants...) the pending rest is
`todo`, and the pool finishes it in the order of the nested calls before
anything else may move. The flags of a drive are those of `AgentRun` and of the
runner's tables: token, wake event, recheck, progress; `runs` and `under` say
which handle `_runs` and the parent's `_children` hold, since a later run
replaces the handles of queued children while their old requests are still in
the queue; `stir` is the event the fan-in sleeps on.

| Source | Actions |
|---|---|
| `_pump_slots`, `_request_slot`, `_ensure_driven` | `Pump`, `RequestSlot`, `EnsureDriven` |
| `_grant`: a start, a redrive, a resume, a start that raises | `GrantStart`, `GrantRedrive`, `GrantResume`, `GrantFails` |
| `start()`, `cancel()` with its cascade, `notify()`, the process dies | `StartRun`, `Cancel`, `Answer`, `Crash` |
| `_drive`, loop top, progress test | `TakeOff`, `TopCancelled`, `TopAdmissionError`, `Top`, `Again` |
| births, decide and dispatch as one await | `Dispatched`, `Reasked`, `ToolsLost`, `ToolsRaise` |
| `_spawn_children`, `_stop_children`, `_flush_cancelled_children`, `_resolve_children` | `Spawn`, `StopChildren`, `Flush`, `FlushYielded`, `Resolve`, `Resolved`, `ResolveLost`, `ResolvedAll` |
| gate, `_await_subtree`, `_acquire_slot` | `GateCancelled`, `Gated`, `Announced`, `Ungated`, `Park`, `Woken`, `AcquireLost` |
| limit and model call | `HardLimit`, `ModelLost`, `ModelCalls`, `ModelAnswers`, `ModelFails` |
| `_settle_children`, `_wind_down_async`, the closes behind them | `SettleAwaits`, `ChildSettled`, `SettleEnds`, `SettleYielded`, `CloseSettled` |
| end of the engine, fan-in, `_end_run` | `Ending`, `FanIn`, `RunRaises` |

### 2.5 Compaction

Entries have identities here, because a transition carries some of them into the
next conversation. `nodes[c]` is the path of the c-th main conversation and the
last one is main. `plan` is what the awaited `compact()` came back with; the
snapshot it was made from is compared when it returns (`_check_snapshot`, 2781).
The plan itself is `select_keep` of the summarizing manager
(`simple_context_manager/manager.py`). A turn is reduced to its model call. The
doors (`Post`, `Cancel`, `Schedule`, `Rewind`, `Begin`) are called at every await
and while `CompactionFinished` is held; a drive that skips the step yields nothing
and is not interrupted (`skipped`).

### 2.6 RunHandle

A handle has an engine whose step it holds (`step`), an inbox its children put
into, and, if eager, a task. `FanIn` is `_pump` (732-870): it takes what the inbox
holds, else the held step, else sleeps. What an engine yields is left open, since
`Turn` and `Subagents` say it. Two histories frame the way of an event: `story` is
what was said of each handle, kind by kind (its spawn and starts when they are
announced, its own events when its engine yields them, its ends), and `stream` what
came out of the root, split by the handle an event is about. An event carries its
place in the story, which no action reads. Handles form a finite tree: the code makes
a child under a handle that exists.

### 2.7 Race

`inner` is the task, `racer` the drive that waits for it. The drive finds out
about a token or a timer only when it is resumed (`Drives`), so several things can
have happened by then; that is what the code's order of tests decides. One
module covers the three users: a registry hook, a tool body with grace and
deadline, and the chunks of a stream under one shared window.

### 2.8 Wire and History

`Wire` has `Parse`, `EffectiveMessages` and `Build` as pure operators over blocks
that are records of their kind, their identity and whatever the transports look
at. `History` writes a path the way the drive does and asks, in every state, what
each target would be sent. It abstracts a response to its blocks, an execution to
PENDING, gated, done, failed or cancelled, and a setting to a provider, a model, a
wire and a set of native tools.

### 2.9 Streamer

`server` is what the provider has said so far and can say next on its wire; a
pull reads a chunk of it on a task (`reading`), the wire's handlers turn the
chunk into blocks (`msg`) and public events (`pending`, then `told`). Deadline,
`cancel()` and the cancellation of the consumer's task all end a read, and the
flags `expired`, `cancelled`, `interrupted` tell them apart.

### 2.10 Files, Edits, Shells, Commands

A call of `Files` is a task that checks, takes the path's lock, and hands its body
to a thread; `KillCall` frees the lock and leaves the thread. A file is the set of
marks written into it, so a lost update is visible. `Edits` gives the four
algorithms over lines: text with the whitespace on either side, so that exact,
trimmed and normalised matches differ. `edit` and `str_replace` search the file as one
sequence of pieces (`Joined`), so a string is also found inside another line. `Shells` follows one lineage: a session in
the pool, its process, and calls that queue, drive, read and are answered;
`Close` takes no lock, as `aclose` does not. `Commands` has a process group: its leader (running,
quiet, exited, reaped), a child left in the background, which holds the pipe or is
redirected, and a child that left the group with the pipe. `_kill_process_group` is a
no-op once the leader has its return code, so `KillGroup` is too.

### 2.11 Approvals and Routing

`Approvals` resolves the (permission, resource) pairs of a call against verdicts
and rules as `strategy.py` does, and the prompt answers what `pending_requests`
shows. `Routing` has the survey of children, one await at a time, the route a
round stored, and a restart that forgets routes and keeps calls.

### 2.12 Questions, Terminal, Checkpoints, Memory

`Questions` keeps two copies of the question set, the view's and the app's, and
the messages between them. A handler works on the question that is active when it runs,
as the code's do. Two variables are the reader's: `meant` is what the user did on each
question (the pick, the pick that typing struck out, the ticks, the text), `rushed` the
kinds of the messages a key was pressed over. The text the model reads is the set of its
paragraphs, each with the question and the entry it shows. `Terminal` keeps what `AgentApp` looks at before it
starts a worker or touches the dock. `Checkpoints` takes every git command as a
step of a thread that may fail or die; a position in the conversation is a
bracket of a turn. `Memory` keeps a list for every id the main conversation has
had.

### 2.13 Composition

`Turn` and `Compaction` are built on `Conversation`, `Subagents` on the coarser
`SubagentTree`. `Turn` and `Subagents` are checked on their own. The other parts are checked together in
three modules: `MCRuntime` (Compaction, RunHandle), `MCEffects` (what a drive
waits for outside) and `MCParts` (the rest). Their variable `part` says which
part moves. The parts **share no state there**, so this is a way to check several
instances in one run and no claim about their interplay; a part that does not
move rests in a state without a step that fairness would demand. Where parts do
interact in the code, the interaction is inside one module: post, cancel and
notify with the drive (`Turn`), drives with the pool and with each other
(`Subagents`), transitions with runs (`Compaction`), children's events with the
consumer (`RunHandle`), restore with the conversation (`Checkpoints`), answers
with the run (`Terminal`).

## 3. Runs

| Run | Asks |
|---|---|
| `outcomes` | two calls in one response, every outcome of births, preparations, bodies and cancels: is anything dispatched under a cancel, was every body allowed, does the attempt list agree with the status, is the model called over a call that could still move, is a terminal call rewritten, does the drive park only when the status says stopped and no notify is waiting, and does every step refine the contract? |
| `posts` | posts at every await, also past a gate and under the model call: is a turn closed COMPLETED over a post the model was not shown, or over a cancel, and is a parked call polled without a run, a notify or a post that asked for it? |
| `restarts` | three runs over one path with suspensions and crashes: do brackets nest, does a close leave a live call behind, does a cancelled run end when nobody outside answers, and every run when everybody does? |
| `tree` | two siblings on one slot, two runs, a cancel of anyone at any await, a crash, a start or tool that raises: does the cap hold, is a slot ever held by a run that is over, is a link resolved twice, does a turn close over an unresolved child? |
| `tree_ends` | a subagent of a subagent on one slot, with two gates: do slots, parks and drives agree (`DrivesAgree`: everybody who works holds a slot and nobody who waits does, no child is resolved that is not over, no parent parks on work nobody does), does the run end? |
| `tree_cancel_ends` | is a cancelled subagent of the main conversation, running, queued, gated or winding down, wound down while the run lasts? |
| `runtime` | a compaction under posts, cancels, a schedule, a rewind and a fault: do brackets nest, is every replaced entry carried or folded, does a cancel of the main conversation reach its drive, is an archived path frozen, is a cancelled compaction closed; and does the consumer of a chain of handles always get its answer? |
| `effects` | what a drive waits for: files, shells, commands, the race, approvals and the stream. Does each end (`EffectsEnd`), does the race leave nothing running and record its signal, is an ALLOW granted and a refusal kept, is what is said of shells and commands true? |
| `parts` | safety of ten parts: history over four wires, handles, streams, files, edits, routing, questions, terminal, checkpoints, memory |
| `wedge`, `lost_cancel`, `provenance` | statements of the repository the code does not keep; see 3.3 |

The three composed runs check the conjunction of a part's properties under one
name. What is in it:

| Property | Conjuncts |
|---|---|
| `CompactionSound`, `CompactionMoves` | types, `BracketsNeverNest`, `CancelReachesTheDrive`, `FoldedOrCarried`, `ModelCallHasInput`; `ArchivesAreFrozen`, `CancelledCompactionCloses` |
| `HandleSound`, `ConsumerServed` | types, `StreamInOrder`, `NothingLost`, `Announced`, `NoWorkAfterEnd`, `SentinelLast`; a pull is answered, and unless a subagent outlives the engine of a lazy run (`Outlived`) none is refused and a consumer who leaves leaves the run unregistered (`Dismissed`) |
| `RaceSound` | types, `NoOrphans`, `SignalIsRecorded` |
| `HistoryIsAccepted` | types, `CallsAnswered` (one output per call), `NothingRefused` (a request can be built for every target), `AttestationsStayHome` (a signature goes only to who made it) |
| `HistoryIsKept` | `ReplayIsFaithful`, `EffectiveIsSent`, `PrunedStaysPruned`, `PrefixStable` |
| `StreamerSound` | types, `OneStartOneTerminal`, `BlocksAreBracketed`, `FinishedIsWhole`, `FinishHasReason`, `NothingLeaks` |
| `EditorsSound` | `UpdateIsAnEdit`, `ExactPatchApplies`, `PatchersAgree`, `UniqueWindowIsEdited`, `EditorsAgree` |
| `FilesSound` | types, `FailedPatchChangesNothing`, `OnlyTheHolderWrites`, `NoBlindOverwrite`, `OnlyApprovedFiles` |
| `ProcessesSound` | `OneCommandPerShell`, `NoticeIsTrue`, `CwdIsReal`, `NoShellOutlivesClose`; `SuccessIsReal`, `NoShellLeft` |
| `ApprovalsSound` | types, `AllowedIsGranted`, `RefusalIsPinned` |
| `RoutingSound` | `WithheldIsNeverRun`, `UnroutedNeverRuns`, `OfferedIsFound` |
| `QuestionsSound` | `ViewsAgree`, `SentIsMeant`, `ConfirmsAll`, `EveryAnswerShown`, `NoAnswerStolen`, `AnsweredIsKept` |
| `TerminalSound` | `DueIsDriven`, `DrivingIsTrue`, `CancelledIsNotAsked` |
| `CheckpointsSound` | types, `SnapshotIsAMoment`, `RestoredTogether`, `RefusedIsUndone` |
| `MemorySound` | `NumbersAreItems`, `PlanFollows` |
| `EffectsEnd` | `CallsEnd`, `ShellCallsReturn`, `CommandsEnd`, `CancelledRaceEnds`, `PromptsConverge`, `PullAnswered` |
| `CompletedIsAnswered` | `AnsweredBeforeComplete`, `CancelNeverCompletes` |

### 3.1 Bounds

Every unbounded input has a named bound: `MaxCalls` per response, `MaxPosts`,
`MaxNotifies`, `MaxRuns`, and `HardMaxSteps`, the program's own limit on model
calls in a turn (with `HardMaxSteps = 0`, the limit disabled, `MaxSteps` bounds
the exploration instead).

- Two calls (`outcomes`) are enough for one to be gated or parked beside one
  that runs, and for the token to stop a batch between them; one is enough where
  a property speaks of one call and the loop (`posts`, `restarts`). The limit of
  model calls is 1 in `outcomes`, so that both calls of one response can go
  through every combination of outcomes.
- Two posts (`posts`) put one under a model call and one past a gate. A post is
  also what opens a second turn.
- Three runs (`restarts`) allow a crash inside a recovery from a crash.
- Two model calls in a turn allow a call, its result, and an answer; the hard
  limit is reached with a call still gated or parked because every post past a
  gate costs one.
- In the tree `MaxRuns`, `MaxCancels`, `MaxGates`, `MaxFailures` and `MaxCrashes`
  bound `start()`, `cancel()`, the calls an approval policy gates, the raises of
  application code and the crashes. The cap is 1 (`MaxWorkers = 0` stands for the
  uncapped `Inf`): with one slot every wait for a slot that can go wrong does.
  Two siblings compete for it; in a chain of three a subagent is itself a parent,
  the only position from which a drive gives its slot up and re-acquires it.
- `tree_ends` has no cancel and `tree` no gate: the state spaces of both together
  leave the five minutes a run should take. A gate beside a cancel is in
  `tree_cancel_ends` and `lost_cancel`.
- What a configuration leaves out is part of what its run says. In the tree the
  properties that do not hold everywhere are checked where they do: `TreeRunEnds`
  holds for the first run over a chain and not for the second (`wedge`),
  `CancelledChildEnds` for children of the main conversation and not deeper
  (`lost_cancel`), `ClosedTurnsOwnNothing` for siblings under cancels and crashes
  and not for a gated parent that is cancelled, `DrivesAgree` under a cap of one,
  without a cancel and where no application code raises (3.3 has all of these).
- `runtime`: two posts and two begins give a compaction before and after a turn;
  `KeepTurns = 1` keeps the last bracket and folds what is before it; `Grace` lets
  a cancelled `compact()` still finish; `Held = FALSE` lets posts, cancels and
  rewinds come while `CompactionFinished` is held, and excludes the two calls of 3.3. The chain of
  three handles is the least in which an event is forwarded twice; its engines
  announce, spawn, fail and end but yield nothing more here (`parts` gives the
  deepest one an event). `DeepRestarts = FALSE` excludes the case of 3.3.
- `effects` and `parts`: two calls over two files, with a read history; in `parts`
  every tool and the moves in both directions. Two shells, two processes and two
  calls let a second call queue, and a shell be replaced, under the first. A window of
  two units and one chunk held separate a window shared from one started again.
  Six raw events (four where liveness is checked) in two blocks reach every
  handler of every wire, a block left open included.
- `History`: five settings over the four wires, two model calls, two other events
  (post, switch, pruning, compaction). Two calls are what a history of one model
  sent to another needs.
- `Edits`: all files of up to three lines over an alphabet with an indented, a
  typographic and an escaped form, over one of blank lines and of lines that hold another
  line's text, and of three lines with gaps; patches of one hunk of up to two lines with
  anchors and end-of-file marks, or of two hunks of one line; three lines of
  `old_string`. Every matching pass and every replacer of the chain decides some input.
- `Questions`: five keys over two questions, one with several picks. `Ahead = 1`: a key
  may be pressed over one message the app has not handled, of whatever kind. The same
  holds with six keys and `Ahead = 2` and `3` (a million states each).
- `Checkpoints`: two operations, two files, one turn, two writes, one failing
  command; `Memory`: three ids, three updates; `Terminal`: three posts, two overlays,
  two failing runs; `Routing`: two children, two conversations, one restart;
  `Approvals`: two calls, one with two requests, and one answer made up by the user.

`CHECK_DEADLOCK FALSE` stands in every configuration because a conversation may
rest: nobody has to post, and the bounds are exhausted in the end.

### 3.2 Fairness

`Spec` has none. `Turn` adds weak fairness of `Engine` (a drive that is pulled
executes its next synchronous step; for a lazy run this is the consumer pulling,
for an eager one the task) and of `TokenWins` (`_race_cancellation` gives every
raced await to a tripped token within its grace). `CancelledRunEnds` needs only
these: no tool, registry or provider has to answer. `AnsweredRunEnds` takes weak
fairness of `Answers` as its hypothesis.

`Subagents` adds weak fairness of the pool and of `Step(c)` of every
conversation: the event loop runs every ready task, and tools and model calls
return in the end (`Dispatched`, `Resolved` and `ModelAnswers` are steps).

The parts of `runtime` and `effects` have, each only weak fairness:

- `Compaction`: the steps of a drive, whose awaits a tripped token ends;
- `RunHandle`: the fan-in, the engines and unwinding tasks of every handle (the
  event loop runs what is ready), the grants of the pool, and the reader of an
  eager run;
- `Race`: the drive is resumed, time passes, and a task that was told to stop ends
  (a stream's or a hook's task awaits it; a body that stays deaf is detached
  instead). That a body ends by itself is not assumed;
- `Files`: a lock that is free is taken, a thread runs to its end;
- `Shells`: the steps of a call, of which the timeout is one; a command is not
  assumed to end;
- `Commands`: the steps of the call, the delivery of a cancellation, the notice of an
  exit, and the unwinding of a killed task, at the latest when the pipe is closed (some
  versions of asyncio wait for that in `process.wait`). A process is not assumed to end;
- `Approvals`: the runner asks again and the user answers what is shown;
- `Streamer`: the event loop resumes a reader whose read ended and fires its
  deadline. The provider is not assumed to answer.

Doors, crashes and exceptions are never fair, in any module.

### 3.3 Where the repository says something else

Three runs refute a statement of the repository:

- `wedge`: "cannot deadlock at any cap (`subagents_max_workers=1` is legal at any
  depth ... and never wedges)" (`docs/agent/13-subagents.md` 197). When a run
  starts over a tree whose grandchild waits at a gate, the child is granted the
  only slot and its restart queues the grandchild. The child finds nothing below
  it that can advance (4220-4242: a BLOCKED child with no run) and returns, and
  its fan-in counts the queued grandchild as live (820-839), so the run that
  holds the slot waits for one that waits for the slot.
- `lost_cancel`: "Cancelling a conversation always ENDS it" (same file, 354). The
  cancel of a child that has no drive wakes its parent to flush it (1886). If the
  parent's engine has returned and its run has not ended, it has neither a wake
  event nor a finished task, and the wake is dropped. The child stays CANCELLING,
  the main conversation parks on its BUSY parent, and nobody drives that.
- `provenance`: "a routed turn recording the configured config would make
  provenance lie" (`models.py` 1982-1986). `session.llm_config` is one attribute,
  stamped before a call (3473) and read again when its answer is recorded (3659).
  Another drive of the same tree whose model a middleware routes elsewhere may
  stamp its own in between, and the answer is recorded under a model that did not
  give it; a thinking signature is then replayed to the wrong model.

The models below leave out, or state around, the following, which were met while
they were written. No run is given to them: each is one state of one module.

In the turn and the tree:

- "An unconsumed cancel controls EVERY close of the turn" (1567, `models.py` 893):
  the hard-limit close (3425-3427) and the failed-call close (3635-3638) yield the
  events of the settle and then write the close. A cancel made while such an event
  is held is accepted and the turn closes ERRORED or TIMED_OUT. `CancelNeverCompletes`
  is about COMPLETED only.
- "The wind-down happens at the engine's next step boundary (live run)" (1565): a
  cancel made while `ApprovalRequired` is held (3286) comes after the gate's own
  check; `_await_subtree` asks whether the subtree can advance (4199) before it
  looks at the token (4201), so the drive returns and the conversation stays
  CANCELLING until another run.
- "A BUSY child is working" (4222): a subagent's drive that raises leaves its turn
  open with calls pending, which derives BUSY, and the parent parks on it.
- "no close may leave an unresolved subagent behind, so that state is corruption"
  (`docs/agent/10-projection.md` 239): `_flush_cancelled_children` (4340) closes a
  cancelled child without settling the children that child has.
- A failed call is said to leave the conversation "retry-ready PENDING" (5378,
  3461), and the status derives IDLE (`models.py` 2084-2089).
- A `notify()` in the same window as `lost_cancel`'s wakes nobody either (4192). With a
  cap of two, or none, the gate of a grandchild may be answered in that window: the
  grandchild runs, its end wakes nobody, the run of its parent ends with a BUSY child, and
  the main drive waits for a conversation nobody drives.
- The spawn handshake (3217) starts a child after a cancel that landed while the
  batch ran, outside the cascade, and the wind-down waits for that child's whole run.
- `_cascade_cancel` (1621) reaches a finished child whose link is still unresolved
  and opens a new turn on it, which is why `ResolvedIsOver` allows a pending cancel.

In the runtime:

- A cancel that lands while `compact()` finishes has written to the path, so the
  snapshot check (2781) rejects the plan before the cancel is looked at (2802): the
  bracket closes ERRORED, not cancelled, and a drive that compacts by policy goes on
  with a tripped token. 2799, 3026 and `docs/agent/13-subagents.md` 354 say otherwise.
- While `CompactionFinished` (2827) is held the new conversation has no registered
  run until `_rebind_run` (3041). A second handle can begin on it, and both drives
  go on: "one engine per CONVERSATION" (1763) is broken and a cancel reaches one of
  them. And a compaction scheduled in that moment leaves its bracket open on a
  drive that is past its compaction step, so that the model is called inside it
  without input, which 3043-3048 rules out. `Held = FALSE` excludes both; with
  `TRUE`, `ModelCallHasInput` fails, and with two handles and `KeepTurns = 0`
  `CancelReachesTheDrive` does.
- An unanswered user message may be folded into a summary
  (`simple_context_manager/manager.py` 198-201).
- A grandchild that is driven again after its own parent parked is not among what
  the root counts as live (837): the stream ends while it runs, against 755 and
  `docs/agent/04-runner.md` 549. `DeepRestarts = FALSE` excludes it; with `TRUE`,
  `NothingLost` fails.
- A lazy run whose own engine is exhausted while a subagent is at work (restarted by a
  `notify` behind the last step, or still being torn down) hands on one event of the
  subagent, and at the next pull finds no engine (717) and begins its own run again:
  `_begin_run` refuses it because it is registered itself (1766-1769, "another run is
  already active"), against 755-758 ("Terminates only when the whole SUBTREE is
  settled"). `__aexit__` then has no engine to close and skips `_end_run` (671), so no run
  of that conversation is accepted any more, against `docs/agent/04-runner.md` 486-489.
  `Pull` and `Leave` do both (`client = "refused"`); `ConsumerServed` promises an answered
  pull and a free conversation in every behaviour without such a moment (`Outlived`), and
  `[]Dismissed` alone fails after four pulls.
- An external cancellation of a lazy pull (732) unregisters the run while its held
  step still runs, which is why `NoWorkAfterEnd` is about eager handles.
- An external cancellation of a drive that awaits the teardown of a killed task is
  swallowed; a body that returned in the tick of the grace timer is recorded FAILED
  (5518-5520 beside the docstring at 5463-5467); a deadline in the tick of the
  answer is recorded TIMED_OUT.
- A private result-tool execution that lands after a paused response hides the pause
  from `_paused_response_awaiting_replay` (5289): ResponsePaused has no
  ResponseResumed.

In the client, the tools and the terminal:

- A consumer's own cancellation is swallowed when the deadline or `cancel()` ends the
  same read (`transports/streamer.py` 527-532, against 16-17).
- The end-of-file mark of a pure insertion means another place to `patch.py` (216)
  than to V4A, and V4A's mark is ignored on a file that ends in a newline. `edit`
  may edit an ambiguous `old_string` (`replace.py` 212-224, against `tools.py` 836). A
  candidate counts wherever it is a substring of the file (217-219): with the lines
  "foobar" and "foo", an `old_string` of "foo" is ambiguous although one line reads like
  it, and with "foo bar" and "  foo", "foo " edits the first line. `UniqueWindowIsEdited`
  is about text that occurs in one window and inside no other line.
- The existence and read checks of the file tools precede the lock (`tools.py`
  1071-1079); `apply_patch` takes none; a killed task frees the lock while its thread
  writes on; two native moves onto each other's source lose both files
  (`native/openai.py` 148). The properties of `Files` name these exceptions.
- `aclose` during the start of a shell leaks it (`session.py` 201); a shell that died
  keeps its stale directory and is not "fresh" (44-46, 161-169); an approval is
  computed before an earlier call's `cd`.
- After a command's output ended, `process.wait()` has no timeout (`tools.py` 1621,
  `native/openai.py` 388), so `CommandsEnd` bounds only the wait for output.
- `_kill_process_group` signals nobody once the shell has its return code (`tools.py`
  188-191), and a call waits for its output and its shell alone (1619-1625). So a
  background child with redirected output outlives a completed call, against the reading
  one makes of `docs/agent/contrib/shell/README.md` 49 ("timeout + cancellation kill the
  process group"); and after `sleep 1000 &`, whose shell is gone, a timeout or a cancel
  kills nothing and reads on until the child lets go of the pipe. `NoShellLeft` is about
  the shell, and about the whole group only when it was killed under a live shell;
  `CommandsEnd` leaves out a pipe that is held for good.
- An "unrouted" ALLOW that survives a restart with one child more runs without that
  child's policy being asked (`registry.py` 321-327): `UnroutedNeverRuns` is about
  one process.
- The terminal's answer to a stored request without resources covers nothing and the
  prompt comes back for ever (`tui/approvals.py` 92-112, against `approvals.py` 15);
  `PromptsConverge` leaves such requests out.
- Of the questions dock. "Typing into it clears any picked option" (`app.py` 705-706):
  `on_question_set_view_custom_changed` (739-758) clears nothing, so a pick typed over is
  sent along with the text; `SentIsMeant` takes such a pick as struck out by the user
  and sent all the same. A key pressed over an unhandled Answered lands on the question
  the handler has moved on to; tab, space and tab again, pressed before the first Moved
  is handled, tick on another question, because `on_question_set_view_moved` (774-807)
  reads the view as it is by then; text typed before the Moved that took up the field is handled is in the app's
  set and gone from the screen. `ViewsAgree` and `SentIsMeant` leave out exactly the
  sets on which a key was pressed over an Answered or a Moved (`SentIsMeant` over a
  Moved only where more than one message may be ahead), and claim every other hurry.
  Enter with no tick on a multiple-select question shows "chat about this" (`shells.py` 753) and the
  model reads "No answer".
- ctrl+p opens the palette over an approval prompt (`app.py` 1147, 1275-1278), against
  `specs/0008-post-message-blocked-conversation/prd.md` 371-375.
- A safety snapshot that failed leaves the files of a refused rewind at the
  checkpoint (`checkpoints/service.py` 106-110); a git command that dies disables the
  store for good (25-27). `RefusedIsUndone` is about rewinds without a git failure.
- `rewind_to` gives the main conversation a new id and nobody moves the todo list
  there (`tui/commands.py` 278-295 beside `app.py` 1038): after /undo the list is
  empty and numbering restarts. `PlanFollows` stops at a rewind (`adrift`).

## 4. Proofs

The theorems hold for every value of the constants that a module's assumption
allows: any number of calls, posts, notifies, runs, conversations, handles or
children. The runs check the same properties on small instances.

| Module | Theorem | Property |
|---|---|---|
| `TurnProofs` | `TypeCorrect` | `TypeOK` |
| `TurnProofs` | `AttemptsAudited` | `AttemptAudit` |
| `TurnProofs` | `BodiesAreApproved` | `ApprovalBeforeBody` |
| `TurnProofs` | `ModelCallsAreQuiet` | `NothingLiveAtModel` |
| `TurnProofs` | `ClosesAreSettled` | `SettledBehindClose` |
| `TurnProofs` | `OutcomesAreFinal` | `TerminalIsFinal` |
| `TurnProofs` | `CancelStopsDispatch` | `NoDispatchUnderCancel` |
| `TurnProofs` | `ParkedIsStopped` | `ParksOnlyWhenBlocked` |
| `TurnProofs` | `CompletionsAreAnswers` | `CompletedIsAnswered` |
| `TurnProofs` | `BracketsHold` | `WellBracketed` |
| `ContractProofs` | `DriveImplementsContract` | `TurnRefinement` |
| `ContractProofs` | `PollsAreAskedFor` | `PollsArePaidFor` |
| `SubagentsProofs` | `CapHolds` | `WithinCap` |
| `SubagentsProofs` | `TypesHold` | `TypeOK` |
| `SubagentsProofs` | `NoSlotStranded` | `NoStrandedSlot` |
| `SubagentsProofs` | `SlotsFollowWork` | `WorkNeedsSlot`, `ParkedHoldsNoSlot` |
| `SubagentsProofs` | `LinksResolvedOnce` | `LinksResolveOnce` |
| `SubagentsProofs` | `ClosesHold` | `ClosesInv`: what `ClosedTurnsOwnNothing` becomes in a tree of any depth |
| `SubagentsProofs` | `ClosedOwnNothing` | `ClosedTurnsOwnNothing`, where subagents spawn none |
| `SubagentsProofs` | `ResultsAreOver` | `ResolvedIsOver` (in `DrivesAgree`), under a cap |
| `CompactionProofs` | `CompactionIsSound` | `CompactionSound` |
| `CompactionProofs` | `ReplacedIsFrozen` | `ArchivesAreFrozen` |
| `HandleProofs` | `HandlesAreSound` | `HandleSound`, where a subagent is restarted only under a driving parent |
| `HandleProofs` | `StreamsAreOrdered` | `HandleSound` without `NothingLost`, whatever is restarted |
| `EffectsProofs` | `RaceIsSound` | `RaceSound` |
| `EffectsProofs` | `ProcessesAreSound` | `ProcessesSound` |
| `EffectsProofs` | `ApprovalsAreSound` | `ApprovalsSound` |
| `PartsProofs` | `TerminalIsSound` | `TerminalSound` |
| `PartsProofs` | `RoutingIsSound` | `RoutingSound` |
| `PartsProofs` | `FilesAreSound` | `FilesSound` |
| `PartsProofs` | `MemoryIsSound` | `MemorySound` |
| `PartsProofs` | `CheckpointsAreSound` | `CheckpointsSound` |
| `PartsProofs` | `QuestionsAreSound` | `QuestionsSound`, where a key overtakes nothing but typing, a confirmation or a request to chat |
| `PartsProofs` | `AnswersAreShown` | `QuestionsSound` without `ViewsAgree` and `SentIsMeant`, however many keys are ahead |
| `StreamerProofs` | `StreamsAreSound` | `StreamerSound` |

With these, every safety property of `Turn` that a run checks is proved, the
refinement of its abstract specification included.

### 4.1 The invariant of the drive (`TurnProofs`)

None of these is inductive alone. They follow from `IInv` (`Inductive`), whose
parts are:

- `CallsSound`: each call's attempt list agrees with its status, a started call
  was allowed, a received call has no approval. It is what makes the audit and
  the approval survive an arbitrary dispatch.
- `BatchInv`: the batch holds allowed calls that are not running, but for the one
  whose body the engine is in. Without it a dispatch could start a terminal call.
- `RunningInv`: a RUNNING call is the one being run, or nobody drives. This is why
  a settle, which skips RUNNING, never leaves one behind.
- `TokenInv`: the token is tripped only over a durable cancel, and past the loop
  top a durable cancel has tripped it.
- `OpenInv`: past its start a drive has an open turn, until its close.
- `QuietInv`: from births to the gate, what is left to move shrinks: nothing
  received after births, everything undispatched in the batch, nothing but gated
  or parked calls at the model. Unless the token stopped the batch, and then
  the pass made progress and loops.
- `PolledInv`: what a drive has polled was allowed and is not still waiting.
- `SettledBehindClose` itself.

`IInvNext` has one lemma per group of actions that write alike (`ClosedStep` for
every close, `StoppedStep` for every stop, `MovedStep` for steps that only move
the engine, `CallStep` for a settled call, `SpokenStep` for a recorded response).
The lemmas about paths (`ExtendOpenTurn`, `RewriteOpenTurn`, `AppendStart`,
`AppendFinish`) say what the only two kinds of write, an append and an in-place
update, do to the open turn.

### 4.2 Steps of the drive (`TurnProofs`)

What a step may do to the path is classified once. `Kept` says the path grew at
its leaf and only live executions were rewritten, `NoneStarts` that no call
became RUNNING, and `Gentle` is both. `StepGentle`: every step of the drive and
of the doors is gentle, or is the start of the current call's body. A terminal
outcome is final (`OutcomesAreFinal`) because of `Kept`; nothing is dispatched
under a cancel (`CancelStopsDispatch`) because only `StartBody` is not gentle, and
its guard on the token, read again after `prepare()`, meets `TokenInv`. Between
the gate and the decision to park something is gated or parked (`GateInv`), whatever
a door does meanwhile; with `QuietInv` that makes the derived status BLOCKED or
CANCELLING when the drive parks (`ParkedIsStopped`).

A completion is written by one action (`OnlyAnswersComplete`). `ClosingInv`
(a close behind a settle is never COMPLETED) excludes the other routes to a close,
and `CompletesAnswered` shows that where an answer closes the turn no cancel is
pending and every post lies before the mark of its projection.

Brackets: `Grows` lists what a step other than a post may add to a path (nothing,
a start where no turn is open, or entries of the open turn of which a finish is the
last) and `BracketsKept` that what is added so keeps the brackets.

### 4.3 The contract (`ContractProofs`)

`TurnRefinement` maps a path to the contract's state: whether a turn is open and
how the last one closed, whether a cancel is pending, and each call's stage and
tries. `CallsOf` and the mapping are functions of the path alone, so a lemma per
kind of write is enough: what an append of a message, a start, a cancel or a
response with calls does (`SaidMark`, `OpenedMark`, `CancelledMark`, `CalledMark`), an
in-place rewrite that moves calls forward (`RewrittenMark`), and a settle with a
close behind it (`ClosedMark`). Each is a step of the contract or a stutter, and
`StepMark` brings every action under one of them. `DriveImplementsContract` adds the
initial state.

### 4.4 Polls are paid for (`ContractProofs`)

The property bounds the starts of a body by runs, notifies and posts behind the
call. It is not inductive: a fresh drive, or a set flag, owes starts that have not
happened. `PollInv` adds them up: the starts so far, the one in hand (the call is in
the batch and its body has not started) and those that are due (the recheck flag, or
a call this drive has not polled) are at most what was paid. `Due` counts the flag
and the unpolled call once where the loop top is next, since it makes one poll of
both, and separately anywhere else. A quiet step (`StepQuietly`: every step but six)
adds nothing to that sum; a run, a notify and a post pay one and owe one; the loop
top turns the flag into polls, the selection what is due into what is in hand, and
`StartBody` what is in hand into a start.

### 4.5 The tree (`SubagentsProofs`)

`CapHolds` needs only the cap and the finiteness of `working`. There is one door to
a slot: `Pump` adds one conversation at a time (`GrantTakesOne`) after `PumpReady` has
looked at the cap; a request that needs no slot is granted at once and takes none;
every other step leaves `working` as it is or takes from it (`ReleaseKeepsCap`).

The rest follows from `TreeInv`, for every forest of conversations, cap and bound:

- `FineInv`, for each conversation by itself. `Placed`: a drive is registered exactly
  while it is somewhere, and is in a place its session allows. `Slotted`: the
  locations that work hold a slot, those that wait hold none, and a loop that goes on
  without one has been cancelled and winds down.
- `FamilyInv`: what a parent is about to spawn does not exist, and what it is about
  to resolve has an open link. Without it a second drive of the parent could resolve
  a link again.
- `QueueInv`: slots are asked for subagents that exist, and a request to resume
  belongs to a drive that waits for it, is made once, and is handled before anything
  else happens. This is why a grant of a resume finds the drive where it left it.

A step has one actor. `Own` says what a step may do to the session, drive and slot of
the conversation that moves, `Other` what it may do to any other (cancel it, create
it, wake it, flush it or grant it a slot), and a lemma per step shows that it stays
within both. `NoStrandedSlot` and `WorkNeedsSlot` are then `Slotted` read at one
conversation. The nested grants of `_pump_slots` are a sequence of requests handled from its
head; the lemmas about `todo` need its head and tail, and no induction over it.

Two more invariants stand on `TreeInv`.

- `ClosesInv`: a drive in its loop has its turn open; one that has settled its children,
  and a turn that ended by its own drive (`OwnEnds`), own no unresolved child. It needs
  the first part because links become open below an open turn only, and it excepts a
  subagent closed as "cancelled": `_flush_cancelled_children` closes a child without a
  look at what that child owns, so `ClosedTurnsOwnNothing` itself is a theorem only where
  a child owns nothing (`ClosedOwnNothing`: every subagent is a child of the main
  conversation; any number of them, any cap, gates, failures and crashes).
- `ResultsInv`: a result is on a link, or being computed for one, only of a child that is
  over or was told to be (`OverIn`). It is kept because such a child never opens its turn
  again, and that is the pool's doing: a drive that starts has an unfinished turn
  (`Slotted`), as `_still_wants_slot` drops a waiter whose turn is over. Without a cap
  `_request_slot` grants at once and asks nobody, so `ResultsAreOver` assumes a cap.

Both follow from what one step does to the tree: its actor closes as it should (`Closes`)
and delivers as it should (`Delivers`), and everybody else stands `Aside`.

### 4.6 Compaction (`CompactionProofs`)

`CompactionInv` holds for any number of runs, posts, cancels, faults, schedules and
rewinds. Its parts are:

- `PathsOK`: on every path starts and finishes alternate; on the main path no model
  answers inside a compaction's bracket (`CompactionsAreMute`), an open compaction has no
  summary and only cancels behind it (`OpenCompactionIsBare`), and an open turn
  that nobody cancelled has input no answer has seen (`TurnHasInput`). With the third
  a post or a fault cannot make an open compaction look like a turn.
- `FoldsOK`: a successor that begins with its predecessor's compaction entry has the
  summary and accounts for all that was before the bracket. `FoldedOrCarried` is read
  off it, and `Frozen` keeps it: a step writes to the main conversation only.
- `Budget`: every conversation was paid for by a rewind or a compaction's bracket, and
  an open bracket still has its successor to come, so `_commit` and `rewind_to` find
  an id. Without it the successor's id could lie outside the model's slots.
- `OneDrive` and `DrivesOK`: at most one drive, either `At` the main conversation,
  which its registration then protects from Begin and from a rewind, or `Behind` it,
  finished with a conversation it replaced and about to follow. At the model call
  `At` says that the answers so far were seen before the call's mark (`SeenBy`),
  that there is input, and that a pending cancel has tripped the token.

The first half of the module is about paths: what an append, a commit and a rewind
make of the open turn, the brackets and the input (`IsSegment`, `Fronted`). The second
has one lemma per step of the runner and meets the first through `Before` and `Known`,
which name the conversation and its path.

Both theorems assume `Held = FALSE`: nobody begins a run or schedules a compaction from a
subscriber of `CompactionFinished` while the consumer holds that event (3.3). With
`Held = TRUE` the brackets do nest.

### 4.7 The handles (`HandleProofs`)

The theorems are about every finite tree of handles, a lazy or an eager root, and any
number of events, failures, cancellations and restarts. Beside the types, `HandleInv` has five parts.

- `LifeInv`: an eager handle is registered exactly while its task runs, its engine is
  on only then, and a result belongs to a root that is over. `NoWorkAfterEnd` is read
  off it.
- `ApprovalsInv`: a root that is over has closed its approvals stream, once.
- `SaidInv`: what was said of a subagent last tells where it is (unborn,
  queued, driving, ended), and what follows what in its story. `Announced` is this, seen
  through the stream.
- `FlowInv`: the stream of a handle is a prefix of its story. To keep it, every event
  said of a handle and not yet out must be where its turn comes. While the root runs
  (`InFlight`), such an event is the step in hand or in the inbox of an ancestor
  (`Complete`), what is in an inbox is about a handle below and not yet out (`Located`),
  and the inboxes from a handle to the root are one queue, the nearer to the root the
  earlier (`OrderedIn`). That order is kept because a fan-in hands on what its inbox holds
  before its own step. When the root is over, inboxes may keep what will not come out, so
  the promise is only about a root that runs.
- `EndInv`: a handle that ended well has an empty inbox and no child that drives or is
  queued (`SettledInv`), and so nothing can be put there again. At the root's stop the
  ancestors of a handle in a branch are all settled, their inboxes empty, and `Complete`
  leaves only the stream for what was said: `NothingLost`. A subagent restarted under a
  settled parent would put into a box nobody empties, hence the hypothesis of
  `HandlesAreSound`, the case of 3.3; `StreamsAreOrdered` does without it.

Ancestors are a least fixed point (`Above`), not a recursion: `AboveUnfolds`,
`AboveIsStrict` (by a depth, which a finite tree has), `AboveIsALine` and `RootAbove` are
all that the proofs use of it. What a put or a take does to the boxes is in `PutSlots`
and `TailSlots`, and what each kind of move does to the flow in `FlightSays`,
`FlightYields`, `FlightHandsUp`, `FlightMovesUp`, `FlightOut` and `FlightOwnOut`.

### 4.8 Race, processes, approvals (`EffectsProofs`)

`RaceIsSound`: `RaceInv` adds to `NoOrphans` that a window is open, and a drive waits
in it, only when the token is tripped and the signal is on record (`WindowInv`), that
what is being killed has been told so and for which reason (`KillInv`), and that a
stream may deliver only what its buffer has room for (`HeldInv`). For every window,
grace and number of chunks.

`ProcessesAreSound`: for the shells, `ShellsInv` says who holds a session (`LockInv`), that
what is in use was created (`BornInv`), that a live process is its session's and a call
at work is in its session's process unless that was killed under it (`ProcInv`), that the
notice and the directory are right in every session, of the pool or not (`FreshInv`,
`CwdInv`), and that a process outside the pool is owned by a call that was waiting when
its session closed (`RacedInv`). The properties speak of the session in the pool; they
are not inductive because a call may still be at work in one that left it. For the
commands, `GroupInv`: a group that was killed under a live shell is gone, with a nonzero
code, and the shell is reaped between two commands and at the end.

`ApprovalsAreSound`: `RulesInv` says that the rules are a list without repetition, each
with a decision. Then the last match exists, is unique (`GreatestPosition`), and the
verdict of the list is that of its last match, which an appended rule changes only for
what it matches. It assumes of the constants that requests are finite and that no rule
is twice in a rulebook.

### 4.9 Terminal, routing, files, memory, checkpoints, questions (`PartsProofs`)

`TerminalIsSound`: `TerminalInv` adds that only a blocked session waits for somebody
(`HoldsInv`, also of the saved session) and that an unresolved future is awaited by
the worker (`FutureInv`), so that whoever resolves it lets the worker go on.

`RoutingIsSound`: `RoutingInv` relates what a survey has collected so far
(`SurveyInv`), the routes stored for a conversation (`RouteInv`), what a call was
decided by (`RoutedCallInv`) and the calls under way (`LiveInv`). It is needed because a
survey awaits child after child and another conversation's survey, or a restart,
falls between two of them.

`FilesAreSound`: `FilesInv` says what a task and its thread are doing together
(`FileTaskInv`), that a body under way fits its request and that what it has yet to
unlink is there (`WritingInv`), that what its tool found when it looked still holds
(`LookedInv`), and that a body that failed halfway failed for a reason (`FailedInv`). Each
of the last three has the exception the properties name: another call wrote in between
(`disturbed`), or two operations of one patch share a file (`Shared`). It assumes
patches of one or two operations.

`MemoryIsSound`: ids are distinct and below the next one (`Numbered`), and while an event
of the transition is under way the list is still under the id the conversation left
(`FollowInv`).

`CheckpointsAreSound`: `PlaceInv` says where an operation is, that it holds the lock exactly
at a git command, and which of its commits exist; `SnapshotInv` that the snapshot being
made is the workspace as it was when it was added; `RestoreInv` how much of a checkpoint
is back after each command of an undisturbed restore. For any number of operations,
files, writes and faults; it assumes that the mark of a free lock is not an operation.

`QuestionsAreSound` and `AnswersAreShown`: `ShapeInv` types the two sets and the messages
and says that only an answered set is confirmed; `StoreInv` that a set is in the dock only
while the slot has no answer, and that an answer in the sidecar is the slot's. Both hold
however far the keys are ahead of the app. `MeaningInv` says what the messages on their
way promise, however many: first come texts, each of which the view shows already and of
which the last one counts (`Texted`); behind them what one more key posted, at most two
messages of which the first moves the caret, and the app's tab, once changed as the last
one says, is what the user meant (`Owed`, `Awaited`). A key that finds only texts keeps
this (`Quiet`), and a set that is about to end owes nothing more. With a key over an
Answered or a Moved it is false of the code (3.3); over a tick, or over the esc of the
confirmation, it is checked (`ViewsAgree`, `SentIsMeant`) and not proved. What
the model reads is proved of every sequence of entries any driver may store, of any
length and with any titles: the pairing is one to one (`PairOnce`), so each entry
has one paragraph (`ShownOnce`); and a question without an entry of its name has as many
namesakes before it as there are entries of that name, each of which claimed one
(`RankExists`, `NoneLeft`), so that a fallback by position steals nothing.

### 4.10 Streams (`StreamerProofs`)

`StreamsAreSound` holds for any set of the four wires and of the two clients, for any
number of raw events and blocks, and wherever a read is cut off. It assumes no more
than that the two bounds are numbers. The argument has three layers.

- A block and what was said about it (`Narrates`). Nothing was said about a block that
  does not exist. An open block was opened by the first event about it, and there is
  one event more about it for each piece of its text; a closed one has one more, its end,
  behind all others. A handler opens, adds, closes, or closes everything, and each of
  these carries the agreement on (`OpenCarries`, `DeltaCarries`, `EndCarries`,
  `ClosesCarry`, `ResultCarries`), whatever was said before. The ends of all open blocks
  are a list without repetition because the positions of a finite set of numbers are a
  bijection (`Ranked`).
- The provider and the wire's maps (`InStep`, one definition per wire). The key of the
  block the provider is in, where the wire has one for it, leads to a block that is
  still open; and on three wires every open block is that one or one the wire's maps know
  of. Each wire needs its own: `messages` keeps one text run over several blocks, `chat`
  interleaves blocks by key and holds fragments of unnamed calls, `responses` may
  repeat a done and closes at its end whatever is open, `converse` opens a block by its
  first delta.
  `Comes` says what a provider may send next, and one lemma per handler and wire that an
  event which may come leaves the two in step, ends the response with every block
  closed, or raises. This is where `FinishedIsWhole` comes from: without it a delta
  could reach a closed block and a finish could leave an open one.
- What was said, told and still pending in one (`SpeechInv`): it begins with its one start,
  has no terminal while the stream goes on, and then one at its end. While a read is
  under way the message is in step with the provider; once the read has brought a
  chunk, which the provider has said and the handlers have not seen, it is in step with
  where the provider was before (`ReadInv`). A deadline, `cancel()` or an interrupt falls
  into that window, and the terminal they cause needs no step, since only a finish
  promises a whole message.

### 4.11 Only model-checked

- Liveness under fairness and ENABLED, out of reach of TLAPS 1.4.5:
  `CancelledRunEnds`, `AnsweredRunEnds`, `TreeRunEnds`, `CancelledChildEnds`, `EffectsEnd`,
  `ConsumerServed`, and `CancelledCompactionCloses`, which is the other half of
  `CompactionMoves`.
- `BusyChildIsDriven`, the part of `DrivesAgree` that is left, is not a theorem: it fails
  where a wake-up falls into the window of `lost_cancel` (3.3). TLC finds this on a
  chain of three with a cap of two or with none, one gate and no cancel, and under a cap
  of one with a cancel beside the gate. It is checked under a cap of one without cancels.
- `ResolvedIsOver` without a cap: `ResultsAreOver` assumes one.
- `ClosedTurnsOwnNothing` in deeper trees, where it does not hold in general: a cancel
  that closes a gated parent leaves its own children's links open (3.3). `ClosesHold` is
  what holds there.
- `HistoryIsAccepted` and `HistoryIsKept` speak of what folds over data compute.
- `EditorsSound` and the operators of `Wire` compute over data by recursion, whose results
  for all inputs the installed provers cannot state.

## 5. Not modelled

In the drive and the tree: soft limits and doom-loop flags, which only restrict
the `tool_choice` of a request; middleware that rewrites values the models abstract
away; streaming deltas (yields inside the model call at which the same doors are
open, so `llm` stands for them); posts to a subagent, deferred tools and gated
result tools in the tree, a subagent the application drives
(`autostart_subagents=False`), `wake_parent_on_subagent_completion=False`. A cascade of
cancels is one step, as `cancel()` has no await. Of handles, event callbacks that
raise into the buffer of a child the application owns.

Around the conversation: the filing of tool specs and usage records, the token
arithmetic of the context managers, the text of a summary or of a prompt, skills
(directory discovery), the payloads of the subagent tools, the wiring of plugins,
the formatting utilities. `Approvals`, `Routing` and `Turn` take the tool registry
protocol as their interface.

Of the tools: what read, glob and grep print, truncation, scratch directories. Of
the plugins: two checkpoint processes on one repository, a crash between two git
commands, the statuses and the scratchpad of the memory plugin. Of the terminal:
rendering, session switching, text editing, mentions and images.

Of the client: blocking completions, embeddings, HTTP and JSON, usage, credentials,
addresses and the model catalog.

Between modules: the models meet at their interfaces and not in one state space
(2.13). `Turn` has no subagents and `Subagents` no posts; a compaction under a live
tree, a shell under a parked call or a checkpoint under a compaction are not
explored.

## 6. What is left

1. The options of section 5 in the tree, and an abstract specification of the pool
   (requests, grants, releases) that `Subagents` implements.
2. `BusyChildIsDriven` as a theorem with the condition it needs: no cancel and no answer
   falls between a parent's engine and the end of its run.
3. `Terminal` over `RunHandle` and `Approvals`, so that a prompt, its answer and the
   notified run are one behaviour.
4. Checkpoints with a crash between two git commands and a second process.
