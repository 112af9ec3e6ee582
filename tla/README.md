# Durable runs of the fastaiagent SDK, in TLA+

This directory specifies the part of the SDK whose correctness a test can hardly
establish: what becomes of a run that is saved step by step, pauses for a human,
dies, and is resumed, perhaps twice at once; how it is stopped from outside; what
becomes of its checkpoints in the store and on the way to the connected plane; and how a
runner takes commands from that plane. Every definition is translated from the Python under
`src/fastaiagent/`; `PROJECT.json` gives the lines. `tlc -config X.cfg M` runs a
model, `tlapm MProofs.tla` checks the proofs.

## The system

| Part | State | Operations | Talks to |
|---|---|---|---|
| Chain (`chain/chain.py`, `executor.py`, `checkpoint.py`) | nodes and edges; per call: position, activated nodes, state | `aexecute`, `resume`, `afork`; the node loop, routing, run-end markers | checkpointer, run control, agents, tools |
| HITL (`chain/interrupt.py`) | resume value in a ContextVar, `pending_interrupts` row | `interrupt`, the claim | checkpointer |
| `@idempotent` (`chain/idempotent.py`) | `idempotency_cache` rows | look up, run, store | checkpointer |
| Checkpointers (`checkpointers/sqlite.py`, `postgres.py`) | tables `checkpoints`, `pending_interrupts`, `idempotency_cache` | put, get_last, list, record_interrupt, claim, fetch_unsynced, marks, delete, prune | SQLiteHelper, replica |
| Replica (`checkpointers/platform_replica.py`) | registry, one lock per checkpointer, `synced` and quarantine columns | kick, drain, bisect, restore | checkpointers, the plane over HTTP |
| Connection (`client.py`) | `_connection`, exporters | connect, disconnect | replica, exporters |
| Run control (`agent/run_control.py`) | registry of running runs, reason per run | cancel, timeout, check_stopped | chain, agent loop |
| Agent, team, swarm (`agent/`) | messages, turn checkpoints | arun, aresume, tool loop, hand-over | LLM, tools, checkpointer |
| Runner (`runner/`) | in-flight commands, semaphore | register, poll, heartbeat, drain | the plane, chains, agents |
| SQLiteHelper (`_internal/storage.py`) | connection per thread, in-flight count | execute, exclusive, close | every store |
| Exporters (`trace/`, `eval/`) | buffers with bounds, pauses | export, flush | the plane |
| The rest (LLM clients, guardrails, tools and MCP, knowledge bases, prompts, optimisation, integrations, UI, CLI) | mostly none, or data | pure decisions, I/O, formatting | — |

A chain run is a coroutine that alternates between local work and accesses of the
store. Several tasks, threads or processes may call `resume` for one execution id:
two clicks on Approve, a retrying worker, a cron job. Every checkpoint written also
starts a daemon thread that posts the un-acked rows to the plane.

**What is hard.** A crash between any two store accesses; two resumes that overlap; a
claim that succeeds and a step that then fails; routing decisions that are in no row;
an end marker that is best-effort; lost answers, a plane that refuses a row, a lock
that is not waited for, a connection torn down under a drain; a tool whose result is in no
row yet; a statement that fails and leaves its transaction open; a stop that meets a run
between two tasks; a runner the plane believes dead. `PROJECT.json` lists 40 such hazards at
their lines, with the properties that cover them.

**What makes each part correct.** *Chain*: a run that saved a step can be brought to its
end, runs every node that was routed to and no other, loses no output, repeats no
finished step, and a finished run stays finished; a halt inside a cycle halts all of it.
*Agent*: the model never sees an unanswered tool call, a saved tool call is not run
again, a gated tool runs only after a yes to that very call. *HITL*: one approval lets one step
through, its own, once. *Idempotency*: a side effect happens once but for a crash in
its middle. *Store and replica*: a row leaves the outbox only if it arrived or can
never arrive, one bad row holds up nobody, a drain ends, a written row is delivered.
*Run control*: a stop lands, once, for the right reason. *Runner*: every command
taken is reported or queued again, once, and runs in one place. *SQLiteHelper*: close
frees nothing in use, and no failed operation keeps a lock (one does, see below).

## Modules

| Module | Models |
|---|---|
| `Approval` | abstract: the life of a request for approval, `open → granted → spent or lost` |
| `ChainRun` | one execution of a chain: its rows, its calls, faults; implements `Approval` |
| `MCChainRun` | small chains (`Line`, `Fork`, `Branches`) for the runs of `ChainRun` |
| `ChainRunProofs` | theorems about `ChainRun`: types, approvals, that it implements `Approval` |
| `ChainResumeProofs` | theorems about what the resumes of a run repeat, skip, keep and leave |
| `CheckpointOutbox` | replication of checkpoints; its constants are small sets, so TLC runs it directly |
| `CheckpointOutboxProofs` | theorems about it |
| `AgentRun` | one durable run of an agent: the tool loop, its rows, its resumes; implements `Approval` |
| `MCAgentRun` | the symmetry of the callers for the run of `AgentRun` |
| `AgentRunProofs` | theorems about `AgentRun`, among them that it implements `Approval` |
| `ChainCycle` | a cyclic edge of a chain as a stack of `execute_chain` frames |
| `ChainCycleProofs` | theorems about it |
| `CheckpointStore` | the checkpoint tables by statement, lock and transaction; close of a helper |
| `CheckpointStoreProofs` | theorems about it |
| `RunControl` | how one run is stopped by threads, a timer or its caller |
| `RunControlProofs` | theorems about it |
| `RunnerDaemon` | a runner, its jobs and the plane that feeds it |
| `RunnerDaemonProofs` | theorems about it |

Each module speaks of one component and abstracts its neighbours to what they may do to
it: `ChainRun` and `AgentRun` take the claim as one step, and `CheckpointStore` shows that
its statements and locks amount to that; `ChainRun` leaves out cyclic edges, and
`ChainCycle` leaves out what happens to rows; a cancel is a raise in `AgentRun`, and
`RunControl` says when there is one. Broken variants of some definitions, named for what
they get wrong, stand before them; no action uses them.

### ChainRun

The store is `log` (the `checkpoints` table in insertion order), `pending` (the
`pending_interrupts` row) and `cache` (the keys of `idempotency_cache`). `call` holds
the locals of each caller. An action is one store access and the local work around
it, which is the grain at which the calls of different processes interleave and at
which a crash can be observed:

| Code | Actions |
|---|---|
| `Chain.aexecute`, `Chain.resume` | `Execute`, `Resume` |
| `latest_resumable` | `ReadLatest` (`get_last`), `ReadHistory` (`list`) |
| the three branches of `resume` | `Claim`, `Refuse`, `Continue`; each enters `execute_chain` by `EnterRun` |
| the loop of `execute_chain` | `EnterNode`, `Commit`, `Complete` |
| `@idempotent` | `LookUp`, `RunBody`, `SaveResult` |
| `interrupt()` and `record_interrupt` | `Pause`, and `PauseConflict` when the primary key refuses |
| an inline gate | `Reject`, `NoHandler`, or `Commit` |
| `write_run_end` | `MarkEnd`, or `LoseMarker` (its put raised and was logged) |
| an exception or a cancel; the process dies | `Fail`; `Crash` |

A node is its position in `_topological_sort`, and the state is the set of nodes whose
output it holds, which is all the properties need to tell states apart. Routing
(`Selections`) yields every outcome `_select_outgoing_edges` has over the results a
node may return. `approvedBy`, `pauses`, `effects`, `torn`, `routed` and `mixed` are
history: no action reads them.

Assumed or left out: rows are ordered by insertion (`created_at` never goes back);
fewer than 500 rows and 500 steps; an execution id is started once; reading and
writing the end marker is one step; the claim is one step, as `db._lock` makes it in
a process. Not modelled: cyclic edges, parallel nodes, fork, `modified_state`,
`auto_approve` gates, `start` nodes with incoming edges, restored `node_results`,
prune and delete, rows written by agents nested in a node.

### CheckpointOutbox

A row is its rowid; `status` is `buffered` (`synced = 0`), `synced` or `parked`
(quarantined). Each store in `Stores` is a checkpointer object with its own lock over
the same table; `kicks` counts its threads that have not reached the lock, and `drain`
holds the locals of the one that has it, among them the stack of batches of
`_isolate_refused_batch`. A plane may answer a batch with a poison row in three ways:
name the row (`Accepted`), refuse the batch (`Refused`, which bisects), or fail
(`RetryLater`, whose answer may be lost after the plane kept the rows). `MarkSynced`
and `MarkQuarantined` are two steps with a crash in between.

Left out: project scoping, the egress opt-out, retries within one post (their outcome
is one answer), checkpointers without `mark_quarantined` (both shipped ones have it),
restore. The thread of `drain_all_async`, which visits the checkpointers in turn, is
one kick of each.

### AgentRun

`log` and `pending` are as in `ChainRun`, with three kinds of row: a turn row, written
before the model is asked, a tool row, written before a tool is dispatched, and the end
marker. A history of messages is the set of tool calls it declares and the set it answers,
which is all that a provider's refusal, a resume and a policy depend on.

| Code (`agent/agent.py`, `agent/executor.py`) | Actions |
|---|---|
| `arun`, `aresume` | `Run`, `Resume` |
| the latest row, the history, the refusal of a suspended run | `ReadLatest`, `ReadHistory` |
| the claim, and the interrupted row behind it | `Claim`, `ReadPause` |
| turn row; model; tool row | `PutTurn`; `AskTools`, `Answer`, `PausedReply`; `PutTool` |
| a call whose kind needs an approval | `Pause`, `Deny` |
| a tool's body, a `StopAgent` in it, a hook that stops the run | `RunTool`, `StopTool`, `StopRun` |
| the last turn used up | `Exhaust` |
| behind the loop: the boundary row and the markers | `PutLoopEnd`, `LoseLoopEnd`, `Complete`, `MarkFailed` |
| an exception, a cancel; the process dies | `Fail`, `FailBehindLoop`; `Vanish` |

The agent is the outermost runner of its execution id and has a checkpointer, so its tool
calls run one after another. Of overlapping calls only answers to a pause are modelled:
`ChainRun` has the others. Left out: streaming, memory, structured re-asks, fork.

What the model made visible, beside its properties: a tool that ran and whose result is in
no row is run again by a resume, also when what came between is a cancel at the top of the
loop and not a crash (`Tear` excuses these runs in `ToolRunsOnce`); after the claim, a
tool that no longer exists or an input guardrail that raises leaves the run without a
marker (agent.py:2705); and a `before_run` hook that stops a resume with a call still to
re-invoke lets a later failure save a history with an unanswered call (`cut` excuses it in
`HistoryBalanced`). Of a run that was `cut`, `ToolRunsOnce` says nothing either: in the model
the loop may then dispatch the old call with the next reply's, where the code dispatches
those of the reply only (executor.py:1306). The proof showed that the proviso is needed for the
model: the row behind the loop is written at one past the last turn with a recorded call
(`past`, `_loop_end_turn`), which lags behind the loop after provider-side pauses, and a
later resume may then take a row that still wants a result.

### ChainCycle

A cyclic edge is followed by calling `execute_chain` again from its target to the end of
the chain; `stack` holds those calls, each with its own state and counter. `FollowCycle`
and `ReturnFromCycle` are the call and the merge of its result, `LeaveCycle` and
`CycleLimit` the exit condition and the limit, `Interrupt`, `Reject`, `Raise` what ends all
frames at once, `Resume` the fresh frame a resume makes. A node's output is the number of
the run that made it, so that a lost or an overwritten output is seen.

What follows from the recursion: counters start afresh in every call, so a
`max_iterations` above 1 is never reached (finding `CycleUnbounded`), and neither is
`max_total_steps`, which is left out; the exit condition is evaluated on the context
from before the node (executor.py:531), so a loop runs once more than its routing
condition says; and the nodes behind the cycle run once per frame.

### CheckpointStore

One execution in one file, used by threads of one or several helpers (a helper is a
`SQLiteHelper` and its process). `tx` is the transaction on a thread's connection and
whether its snapshot is stale, `writer` SQLite's write lock, `lock` the `_write_lock` of a
helper, `state` how far its `close()` is.

| Code (`checkpointers/sqlite.py`, `_internal/storage.py`) | Actions |
|---|---|
| `_statement`, `_write_lock`, `_get_conn` on a closed helper | `Begin`, `Count`, `TakeLock`, `Closed` |
| one auto-committed statement; `delete_execution`'s three | `Read`, `Put`; `Wipe` |
| `record_interrupt` | `InsertRow`, `InsertPending`, `CommitTx` |
| the claim | `SelectPending`, `DeletePending`, `CommitTx` |
| a statement that fails as locked, with and without a rollback | `InsertTimesOut`, `BeginFails`; `ExecuteFails` |
| a row that a constraint refuses | `PutRefused` |
| `close()` and its timeout; what a thread then meets | `Close`, `Free`, `LeaveOpen`; `ConnectionGone` |
| a process dies; a helper is made anew | `Crash`; `Reopen` |

What the model made visible: `execute` (storage.py:267) does not roll back a statement that
failed, so the transaction Python opened for it stays; a later read on that thread pins a
snapshot, and its next write fails until a `BEGIN` fails and rolls back. When it was a
constraint that refused the row (`put` is a plain INSERT, and a row restored from the plane
may be there already, platform_replica.py:748), that transaction holds SQLite's write lock
besides: the connection is idle, and all other writers, of this process and others, fail as
locked until its thread writes again, closes or dies. `LocksComeBack` has this as its one
exception; every other lock comes back, and no pause is lost (`PauseWhole`). `record_interrupt` and the
claim hold `db._lock` but are not counted as in flight, so `close()` may free their
connection (`ConnectionGone`); the transaction is then rolled back, whole. Left out: the race
of two first calls of `_conn()`, which makes two helpers; `exclusive()`, migrations, what
`prune` deletes. Only `put` is refused: the other insert of `execute` replaces what it finds,
and `record_interrupt` rolls back.

### RunControl

`pc` is where the run is and whether the event loop is free there; a sync tool holds the
loop. `thread` holds each `cancel()` between its look at the registry and its return,
`causes` who tried to stop the run. `CheckStopped` is the test at the top of every turn,
`TimerFires` the timeout, `Deliver` the cancellation the loop hands to the task, `Return`
the verdict of `controlled`. A stream has no task but while a tool runs (`stoppable`).

What the model made visible: the reason is tested and set without a lock
(run_control.py:90), so with two causes the marker and the answer may name different
ones (`StopIsTold` speaks of one cause, of which both tell the same); a cancellation by
the caller is answered like a stop when there is a reason to stop already, where
docs/agents/index.md:315 has it propagate; and a cancel between `add(control)` and
`control.task = ...` finds no task to cancel, so that the run goes on to its next check
(`missed`).

### RunnerDaemon

`main` is `run()` and its poll loop, `beat` the heartbeat task, `jobs` the commands in
their tasks, `free` the semaphore. `known`, `order` and `verdict` are the plane's: it is
external and modelled from `channel.py` and the daemon's use of it, among them that it queues
again what a lapsed or "stopping" runner was given. `Poll`, `GetSlot`, `Execute`, `Report`,
`Drained`, `DrainTimeout` and `SayStopping` are the way of a command; `LosePoll`,
`LoseReport`, `FailStopping`, `Lapse` and `Kill` its faults; `Register`, `BeatRegister`,
`PollUnknown`, `ReportUnknown` the re-registrations.

What the model made visible: the heartbeat ends with the stop, so the registration may
lapse while jobs drain, and "draining" is never sent; a drain that times out cancels its
jobs, which then report nothing, though the log says they are still running; commands
that were polled and found no slot are dropped by a stop (daemon.py:113) and come back
only because of "stopping"; and a poll loop that
has a command in hand and waits for a slot (daemon.py:112) is not woken by a stop: with every
slot at a job that does not end, the daemon does not end either, though
docs/deployment/runner.md:81 has a stop drain the jobs and go. `StopEnds` has this as
its one exception (`HeldUp`).

## Runs

| Run | Bounds | Shows |
|---|---|---|
| `ChainCrash` | 1 caller, 3 nodes, 4 calls, 3 faults | under any three crashes, raises or lost markers, resumes finish the run (`Recovers`), skip no routed node, lose no output, and repeat a node only after the last one had its row |
| `ChainPauses` | 2 callers, a gate, 2 pauses, 3 calls, 3 answers, 2 faults | with calls overlapping at every access: one approval, one step; answers take turns; the idempotent body runs once; a finished run stays finished; a run that saved a step stays resumable; `Approval` is implemented |
| `ChainBranches` | 8 nodes: fan-out, default, condition, join; strict | routing runs every routed node and one branch of a condition |
| `OutboxFaults` | 2 stores, 3 rows, 1 of them poison, batches of 2, 1 fault | rows are settled rightly, drains end, a row the plane refuses strands no other |
| `AgentRuns` | 2 callers, 2 turns, 2 tool calls per reply, 3 in all, of every kind; 3 calls, 3 answers, 2 faults | the model never gets an unbalanced history; a tool whose result was saved is not run again; an answer resumes the pause it claimed; a gated tool runs after a yes to it; a run that saved a row stays resumable, a finished one finished; `Approval` is implemented |
| `Cycles` | 4 nodes, edge 3 → 2, limits 1 and 3, 4 frames, 2 pauses | no output is lost on the way into and out of frames and pauses; a halt stops every frame |
| `Store` | 2 threads, 2 helpers, 2 pauses, 4 operations, 1 fault | one claim per pause; a pause is whole; close spares counted statements; every lock comes back but that of a refused row |
| `Stops` | 2 cancelling threads, 3 steps, with timeout, caller's cancel, task and stream | a reason to stop is heeded at the next step, told truthfully, and the run ends |
| `Runner` | 2 commands, 2 slots, 1 fault | one job per command, one verdict, no command given and forgotten if jobs end, a stop ends whether they do or not, unless a slot is awaited |

Three nodes are the fewest with a first, an inner and a last one; two pauses and two
callers are the fewest with which an approval could reach the wrong pause or the wrong
caller, and three answers let one be left over. Two faults fit a fault of a repair of
a fault; in `ChainCrash`, calls exceed faults by one, so that exhausted calls never
explain a run that does not end. Three rows in batches of two need a second batch, and the
poison row shares the first with a good one, so that it is split. A reply of two tool
calls is the least that can be half answered; a third call needs a second turn. A
cycle of two nodes with one before and one behind has every kind of place a pause can be
at; four frames nest deeper than the larger limit. Two threads are one helper or two, as
`home` is any function; four operations are two pauses and two claims, or one pause, two
claims and a delete. Three steps of a run leave one after a missed cancel and one after
that. Two commands fill two slots or, with one of them run twice, more.

All bounds are constants named in the modules (`Max...`, `Last`, `Limit`, `Width`,
`Length`), and the runs stop when they are used up, hence `CHECK_DEADLOCK FALSE`.

`FinishedIsFinal`, `AnswersTakeTurns` and `IdempotentBodyOnce` carry the proviso
`~mixed`: only answers to a pause overlap other answers. Nothing in the code
serialises a plain `resume` with another call, so two of them run every node twice;
the docs do not promise otherwise. `IdempotentBodyOnce` excuses the crash between body and
store as well (`torn`): what it shows is that nothing else repeats a side effect.
`StaysResumable` speaks of runs that saved a step, and excuses one that lost an approval: the
claim deletes the pending row, and what fails before the next row cannot be answered again.
`OneAtATime` and `OneVerdict` excuse commands of a registration that
lapsed, since the plane may then rightly run them elsewhere, and `OneVerdict` those of which
an answer was lost, since a report that arrived and then raised is followed by one of failure.
`CloseWaits` is about counted statements; what becomes of a transaction that is not counted
when `close()` frees its connection is in `PauseWhole`. Time-outs of `CheckpointStore` are no
faults: a wait for SQLite's lock may end with one at any time.

### Where the code and its words part

Three runs check what a doc says and find it violated:

| Run | Said | Done |
|---|---|---|
| `StaleAnswer` | the claim is "the safety net against double-clicking an "Approve" button" (docs/chains/hitl.md:138) | the second click can claim the *next* pause, with the state of the first: the row is read before the claim, which names no pause. `aresume` of an agent claims first, and `AnswerResumesItsPause` holds there |
| `ResumedOffBranch` | a node no branch routes to is skipped (docs/chains/index.md:115) | a resume activates the next node in topological order, on whichever branch |
| `CycleUnbounded` | `max_iterations` is the "upper bound on loop count" (docs/chains/cyclic-workflows.md:34) | every recursive call counts from zero, so that the limit of 2 is passed |

Others, read in the code and followed by hand, have no run of their own:

* "a run that raised stays resumable" (docs/durability/durability-boundaries.md:247; line 249
  says the same of a stopped one, chain/checkpoint.py:207 of both): not when the answered
  step raised (chain.py:604). The pending row is gone and the row behind the marker is the
  pause. Nor when the run raised or was stopped before it saved its first step: behind the
  failed marker there is no row (chain/checkpoint.py:239), and the resume is refused with
  `ChainCheckpointError` (chain.py:583; the agent's likewise). `StaysResumable` has both as
  its hypotheses, and nothing else.
* `busy_timeout` "can only turn an immediate error into a short wait" because writers overlap
  briefly (_internal/storage.py:193): not behind a row that a constraint refused, see
  `CheckpointStore`.
* a resume restarts "at the next node after the last committed one"
  (docs/durability/concepts.md:140): after the last node there is none, and the chain is
  replayed from the top (chain.py:646). `RerunOnlyAfterLastNode` says that this is the
  only case.
* a running drain "will see the freshly-written rows" (platform_replica.py:560): not once
  it has fetched a short batch (line 530); the row waits for the next write.
* disconnect flushes pending replications (client.py:590): it skips a checkpointer whose
  drain is running (platform_replica.py:559) and tears the connection down.
* a `fail_fast` parallel node is said to cancel its siblings (executor.py:826): `gather`
  lets them run on.
* `prune` spares suspended runs, but not their idempotency rows nor their earlier steps
  (sqlite.py:406).

## Fairness

`ChainRun!FairSpec`: a call that started is scheduled until it returns (asyncio runs a
ready task, the database answers), and somebody goes on calling `resume` — the worker
or cron job the durability docs describe. It is used for `Recovers` alone. Nothing has
to crash, fail or be answered. `CheckpointOutbox!FairSpec`: a thread that was started
runs until it ends (a post has a timeout and a bounded number of attempts). There is
no fairness on writes, connects or disconnects: they are the application's choice.
`RunControl!FairSpec`: the loop and the threads go on, and a sync tool returns; an await
may last for ever, which is what a stop is for. `RunnerDaemon!FairSpec`: ready tasks run,
requests end (all have a timeout), a drain times out, and a registration without heartbeats
lapses. Nothing is assumed of jobs, since nothing in the daemon bounds one: `GivenIsSettled`
names that they end (`JobsEnd`) as its hypothesis, `StopEnds` does without.
`CheckpointStore!FairSpec`: a thread is scheduled while it can take a step, and SQLite's
waits end, with the lock or with a timeout. Helpers need not close, processes need not die,
and a thread whose row was refused need not write again.

## Proofs

`tlapm` checks 38 theorems in eight modules, each for every value of the constants: every
chain, agent, cycle, set of callers, threads, stores, rows and commands, and every bound.
The assumptions are those of the modules, which TLC evaluates in the runs:
`ChainAssumption` and `CycleAssumption` (an edge leads to a later node, as the topological
sort of the non-cyclic edges gives it, and the cyclic edge leads back), `OutboxAssumption`
(a batch holds a row), `AgentAssumption`, `StoreAssumption`, `ControlAssumption` and
`RunnerAssumption` (bounds are numbers, there are finitely many commands and at least one
turn and one slot, and the stand-ins for "nobody" are nobody). Each safety
theorem follows one line: an invariant `Inv` that contains the property or implies it,
`Init => Inv`, and one lemma per part of `Inv` with a case per action. An invariant was
checked by TLC on the runs before it was proved.

### Chain runs and their approvals (`ChainRunProofs`)

* `TypeCorrect`: `TypeOK` is inductive.
* `GatedStepsApproved`: `EveryGatedStepApproved` alone is not inductive, since it says
  nothing of approvals that are on their way. `ApprovalInOneHand` does: an approval is
  in the pending row, held by one call that is bound for the very node that asked, or
  spent on one row. Most actions write no row and at most let a call
  drop its approval (`QuietStep`); the other cases are `RowStep`, `PauseStep`,
  `ClaimStep` and `EnterNodeStep`. What carries the last one is that an answer activates
  one node only, so the node entered is the one that asked.
* `ApprovalsStayInOneHand`: the second conjunct, as a theorem of its own.
* `PendingRowImplementsApproval`: `Spec` implements `Approval` under the mapping of each
  pause to its `Phase`. A step that leaves holders and rows alone stutters
  (`KeepingStutters`), dropping an approval spends or loses it (`DroppingSpendsOrLoses`),
  a claim grants (`ClaimGrants`), a pause asks (`PauseAsks`).

### What resumes do to a chain run (`ChainResumeProofs`)

* `AnswersRunInTurn`. `TakingTurns`: while only answers overlap, a call that runs nodes, or
  will without an answer, saw the pending row deleted; what keeps it is that the newest row
  is the pause that wrote the pending row, so a plain resume that reads the log refuses it.
* `CompletedIsFinal`. `Over`: behind the completed marker no call is in the loop and none
  that is not an answer is past its first read. It rests on `TakingTurns`: the call that
  writes the marker was the only one that could be further.
* `IdempotentBodiesOnce`. `Bodies` adds what a call between body and store owes, and that a
  call whose lookup missed is right about the cache, which is so because calls take turns.
* `RunsStayResumable`, with any overlap. `SpentBehind`: the row that spent an approval comes
  behind the row of its pause and is of the same node, so the row a resume finds is a pause
  only if its approval was lost or is open. `SomeLast`: once a step is saved, there is a row
  to find behind failed markers.
* `RerunsOnlyAfterLastNode` and, for calls one at a time, `AloneRerunsOnlyAfterLastNode`.
  `Ahead`: as long as the last node has no row, a call, a pause and the row a resume runs on
  from are at the front of what has finished, in whatever branch.
* `NoneSkippedInOneGo`, `OneBranchInOneGo`: any chain, as long as nobody resumed the run.
  `InOneGo` ties the activated nodes of the one call to `routed` and to its place. With a
  resume both are false in a chain with branches, as `ResumedOffBranch` shows.
* `OutputsKeptWhileNodesRunOnce`: any chain, calls one at a time. `Saved`: the state of the
  call, the newest row and the row a resume would find hold the same outputs, those of all
  nodes with a checkpoint. A node that runs twice ends it (see below), hence `~Repeated`.
* `LinearLosesNoOutput`, `LinearSkipsNoNode`: a chain whose nodes follow one another, as in
  `ChainCrash`, needs no such proviso. `InLine`: what has finished is a prefix of the line,
  and all calls, pauses and rows continue where it ends, or replay it with its outputs.

The theorems about outputs need their hypothesis `~Overlap`: an overlapping answer may take
up the next pause with an older state (`StaleAnswer`).

### The agent (`AgentRunProofs`)

One invariant with thirteen parts, and a description of each action in its terms
(`StepDoes`), so that a part has a case per kind of step and not per action.

* `ModelSeesEveryAnswer` (`HistoryBalanced`): turn rows, and calls wherever the model may be
  asked next, are balanced (`RestsBalanced`); only rows of tool calls, which a resume
  re-invokes before it asks, hold a half answered history.
* `ToolsRunOnce`: the result of a tool call that ran is in a row or with the call that ran
  it (`RunsAreTold`), and rows that still wait for a result are of one turn, before all
  rows that hold it, in the order of insertion as well as in that of `list()`
  (`ResultsComeLater`): no resume, whichever row it takes, finds it unanswered again.
* `AnswersReachTheirPause`: the last pause is the last interrupted row (`PauseIsLast`), and
  no row behind it has an earlier turn (`TurnsPassPauses`).
* `RunsStayResumable`, `CompletedRunsAreOver`, `GatedToolsNeedApproval`,
  `AgentImplementsApproval`: as for chains, from `SpentIsBehind` and `SomeLast`,
  `FinishedForGood` and `OneWorks`. `AgentTypeCorrect` is the type invariant.

### Cycles, store, outbox, control, runner

* `LatestOutputsAreSeen`, `HaltsStopEveryFrame` (`ChainCycleProofs`): an outer frame waits
  at the end of the edge with the state it had, and the merge of an inner result overwrites
  it. `NoIterationIsCounted`: every visit of the edge is its frame's first
  (`FreshCounters`), which is why `CycleUnbounded` finds what it does for every limit
  above 1.
* `PausesAreClaimedOnce`, `PausesAreWhole` (`CheckpointStoreProofs`): the write lock is with
  an operation that has written (`OneWriter`), its draft follows from what is committed
  (`DraftFollows`), and a claim between its two statements holds a snapshot that is stale
  or true (`SnapshotHolds`); this is what lets `ChainRun` and `AgentRun` take the claim as
  one step. `ConnectionsOutliveStatements` (`CloseWaits`) needs only the types, which
  `StoreTypeCorrect` states.
* `OutboxTypeCorrect`, `OutboxSettlesRightly`: with `AnswersAreRight` (the answers a
  drain holds and has not marked are right ones) `SettledRightly` is inductive.
* `StopsLandAtTheNextStep`, `StopsAreTold` (`RunControlProofs`): at most one step begins
  late, and nothing looks away from a reason once it is there (`LateIsLast`); a reason, a
  posted cancellation and an ending each have a cause (`ReasonHasCause`, `EndHasCause`).
  `ControlTypeCorrect` is the type invariant.
* `CommandsRunInOneJob`, `CommandsAreToldOnce` (`RunnerDaemonProofs`): while no registration
  lapsed there was at most one (`RegisteredOnce`), and what waits or runs here is down as
  given, once (`HeldHere`, `ReportedIsOver`). `RunnerTypeCorrect` includes that slots are
  free or at a job, for which copies of a job are told apart (`CopiesDiffer`).

### What is only model-checked

* The liveness properties (`Recovers`, `DrainEnds`, `PoisonStrandsNobody`, `StopLands`,
  `GivenIsSettled`, `StopEnds`, `LocksComeBack`) need fairness and `ENABLED`, which are out
  of the prover's reach.
* `NoOutputLost` and `NoRoutedNodeSkipped` are not theorems of every chain, because they are
  false of some. A resume activates one node, so that a chain that fans out may skip the
  other branch. And when the last node has its row and the marker was lost, the run is
  replayed from the top; if its condition then takes the other branch and a node fails, the
  next resume finds the *old* row of the last node behind the failed marker (`list()` orders
  by node), runs on with its state, and the output of the other branch is lost (TLC finds it
  with `Fork`, four calls and three faults). What is proved instead is above: all chains up
  to that point, and all chains whose nodes follow one another.
* `EveryVisitIsTheFirst` and the inductive invariants are proved and are not properties of a
  run. `OnlyRoutedNodesRun`, the property of `ResumedOffBranch`, and `AnswerResumesItsPause`
  of `ChainRun`, that of `StaleAnswer`, are violated.

## Not modelled

* Parallel nodes: decisions over a `gather`, whose one hazard is told above.
* Fork and restore: both start a run from a given row; restore brings no idempotency rows,
  so what ran before the pause may run again elsewhere (platform_replica.py:722).
* `prune`, migrations, `exclusive()`; PostgreSQL, where the claim is one statement.
* Supervisor, team and swarm, whose hops write rows beside the agent's own, and the
  streaming form of the tool loop.
* The trace and evaluation exporters: bounded best-effort buffers that may lose spans by
  design.
* Pure I/O and data (LLM clients, tools and MCP, knowledge bases, prompts, formatting,
  framework adapters); guardrails, whose effect on a run is the pause and the refusal
  that `AgentRun` has; the UI and the CLI, which only call what is modelled. They are most
  of the repository's lines, so the modules stand for a small share of it.

## Plan

Of the proofs, what is left:

1. `NoRoutedNodeSkipped` and `NoOutputLost` for chains that branch and are resumed, under
   the weakest condition on their edges with which they hold.
2. `PendingRowImplementsApproval` with the claim in two statements, as a refinement between
   `CheckpointStore` and `ChainRun`.
3. Safety halves of the liveness properties, such as that a stop is never forgotten and a
   given command is always at a job, in a batch or due to be queued again.

4. `ToolRunsOnce` without its proviso, once a call of `AgentRun` knows the reply it serves.

Of the model, restore composed with `ChainRun` and parallel nodes would come next.
