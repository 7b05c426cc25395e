# M2Harness in TLA+

M2Harness runs mathematical-modelling work as durable workflows: language-model
agents model, code and review a question, and everything that happens is kept in
SQLite and in files, so that a process may die at any moment. This directory holds
specifications of the parts of it that are hard to test, translated from the
Python under `src/src/m2harness`, with TLC configurations and TLAPS proofs.

Paths below are relative to `src/src/m2harness` unless they start with `src/`.

## 1. The system

### Components

| Component | State it keeps | Operations | Talks to |
|---|---|---|---|
| Question store (`store.py`) | tables `questions`, `activities`, artifacts, event log | lease acquire / renew / release, `transition`, `get_or_create_activity`, `claim_`, `renew_`, `complete_`, `fail_activity` | called by workflow, heartbeat |
| Single-question workflow (`workflow.py`) | locals of `run_step`, heartbeat thread | `run_step`, `run_until_terminal` | store, executor |
| Activity executors (`executor.py`) | a workspace per activity | `execute` | called by workflow |
| Artifact store, publication gate (`artifacts.py`, `publication.py`, `infrastructure/db/sqlite_artifacts.py`) | files by digest, the runtime's registry | `put_bytes`, `register`, validators | workflow, add-question |
| Main Harness (`application/main_harness.py`, `infrastructure/db/main_harness.py`) | one row per run: plan, task statuses, reports, decisions, version | `start`, `dispatch`, `publish`, `generate_paper`, `rollback`, `replan` | tool runtime, report store, repository |
| LangGraph driver (`application/langgraph_main_harness.py`) | a copy of the run, steps taken | dispatch node, compose node, route | Main Harness, command line |
| Task tables (`domain/dag.py`) | none | validator, topological order, canonical tables | Main Harness, workflow |
| Tool runtime (`application/tools.py`, `infrastructure/db/tool_runs.py`) | result cache of the process, table `m2_tool_runs` | `execute`, `lookup`, `reserve`, `complete` | handlers, audit chain |
| Workflow engine (`application/workflow_engine.py`, `workflows/`, `infrastructure/db/sqlite_events.py`, `sqlite_workflows.py`) | saved state, event stream, outbox | `start`, `apply_activity_result`, `pause`, `resume`, `cancel`, `append_domain`, `mark_published` | publisher |
| Solve-problem loop (`application/solve_problem.py`) | context, iterations, archived exchange files | `solve` with its stages and control checkpoints | agents, code harness, human control |
| Human control (`human_control.py`) | append-only command file; cursors are its readers' | `_append`, `pending`, `is_interrupted`, `publish_status` | solve loop, sandboxes, operator |
| Report store, run workspace (`application/report_store.py`, `run_workspace.py`) | report files, question packages | `persist`, `persist_publication` | Main Harness |
| Local tools, python jobs (`application/local_tools.py`, `infrastructure/local_sandbox.py`) | registry of jobs, their processes, workspace files | start / wait / continue / cancel, write / edit | Code Agent |
| Code harnesses (`infrastructure/*code_harness.py`) | source held back from execution; JSON-RPC table of requests, notifications | proposal, acceptance run, evidence; requests, reader threads | solve loop |
| Context, skills, knowledge, media; command line, bundles, adapters | configuration and caches | pure functions, I/O | everything |

### How they interact

Processes never call each other. They share SQLite rows, guarded in one of three
ways: a *lease* that expires (questions, activities, tool reservations), a *version*
compared on save (Main Harness, workflow engine), or an *insert that must be the
first* (activities, runs). Each of the three has the same weak point: what was read
before the guard is used after it.

### What is hard, and what must hold

* **Question workflow.** Workers stall, crash, lose their leases and come back with a
  late answer; a commit and the transition it earns are two transactions. It must
  hold that a commit is permanent, that no stage is skipped, that an approval has
  committed evidence of its own revision, and that stale attempts are fenced off.
  That every question ends is not up to the code: a worker ends at its first
  conflict, failure or crash, and an operator has to start another.
* **Artifacts of a question.** Bytes, two indexes and the commit are written one after
  the other, by attempts that share a sandbox directory. Every record must have its
  bytes, and the rows must be those of the attempt that committed.
* **Tool runtime.** A handler may outlive its reservation or its timeout. One result
  per key must be recorded, for good, and at most one handler must run per lease.
* **Main Harness and its drivers.** Drivers work on copies while others roll back,
  replan and publish. The row must go through the operations of a single driver,
  keep its reports and decisions, never reopen a published run, and never be left
  with a task that nothing will unlock. Only a replan may leave a completed task over
  one that is not. A driver that ends must have a reason that is true of the run.
* **Workflow engine.** State and event are written by two transactions; outbox
  delivery is at least once. The log must be a beginning of the history, and be
  delivered in order.
* **Solve loop, human control.** Interrupts and suggestions arrive between any two
  calls, attempts are repeated after a crash. No command that was numbered in turn
  may be lost and none given twice, no stage may read a file that another call left,
  nothing but a script may change a saved package, and an interrupt must end the call
  whatever its scripts and agents do.
* **Jobs, code harnesses.** Completion races cancellation; jobs outlive the harness
  that started them; answers and notifications of an earlier proposal arrive in a
  later one.

`PROJECT.json` lists the hazards at their lines, with the properties that would
catch each of them.

## 2. Modules

| Module | What it is | Extends or uses |
|---|---|---|
| `QuestionStates` | states, stages and answers of a question | |
| `QuestionLifecycle` | abstract: what the workflow promises, without workers or time | `QuestionStates` |
| `QuestionWorkflow` | `run_step`, its heartbeat, and the store's transactions, by several processes | implements `QuestionLifecycle` |
| `StageArtifacts` | blobs, rows and registry of a question; add-question; the sandboxed run of an answer | |
| `ToolRuntime` | `ToolRuntime.execute` over the SQLite store | |
| `RunStates` | the state of a Main Harness run and each operation as a function of it | |
| `RunLifecycle` | abstract: a run with one driver | `RunStates` |
| `MainHarness` | drivers with copies, the repository's version check, the tool table by key | implements `RunLifecycle` |
| `LangGraphHarness` | the command's driver of a run, with an operator beside it | implements `RunLifecycle` |
| `TaskGraph` | the validator and the order of task tables, as pure operators | |
| `WorkflowStates` | the definition of the single-question workflow: stages, events, `reduce`, `plan` | |
| `WorkflowLifecycle` | abstract: a workflow moved by one event at a time | `WorkflowStates` |
| `WorkflowEngine` | the engine's callers, its state table, event log and outbox | implements `WorkflowLifecycle` |
| `HumanControl` | the command file of a run | |
| `CodeLane` | a code agent, its tools and python jobs, the acceptance run and its evidence | `HumanControl` |
| `SolveProblem` | a task of a run: the solve loop, its archive, and what is persisted of it | `CodeLane` |
| `DshRuntime` | a session of the DSH code agent: requests, reader threads, the runtime process | |
| `*Proofs` | theorems and lemmas about the module they are named after; `MainHarnessProofs` also those about `TaskGraph` | |
| `MC*` | what TLC needs: definitions of constants, symmetry; `MCMainHarness` also the small task tables | |

### QuestionWorkflow

`question` and `activity` are the rows of the two tables. `pc`, `mem`, `beat` are
where each process is in `run_step`, its local variables and its heartbeat thread.
*Every transaction is one action, and so is every read that the code makes outside
one*: `acquire_question_lease` is `Acquire` followed by `ReadQuestion`, because the
method opens a second connection to return the row, and `transition` is
`EnterStage` followed by `Reread` for the same reason. `Claim`, `Complete`, `Fail`
are the store's activity methods with all their branches, including the two that
return a succeeded row without an error. `ExecutorAnswers` stands for the executor
and the files of its answer, `Decide` and `Advance` for `_complete_stage`.

Time is in ticks of the heartbeat period. A lease is the ticks left; 0 is the
instant of expiry, where `>` and `>=` differ in the code. Transactions sample the
clock *before* `BEGIN IMMEDIATE` and may wait for the write lock, so every
comparison is made with a `wait` of up to `MaxLockWait` ticks (`busy_timeout`).

`QuestionLifecycle` has `state`, `revision` and the committed answers only.
`ImplementsLifecycle` maps the rows to them. Its constant `Faithful` says whether
the transition out of review must follow the committed verdict; the workflow gives
it the value of `IdempotentExecutor`, because an executor that answers a repeated
key differently can have its second answer obeyed and its first one committed.

Left out: artifact bytes and digests, the text of claims and evidence, the event
log. The heartbeat's `join(5)` is taken to succeed. A DAG task table is taken to be
there already. An executor's workspace is not modelled.

### ToolRuntime

`runs` is the table, `cache` the dictionary of each process, `handling` says that a
handler is running in the pool thread, which a timeout does not stop. A call holds
the runtime's lock from `Lookup` to `Reserve`, hence `Unlocked`. `CacheResult`,
`Record`, `Withdraw` are the three statements after the handler: the result enters
the cache, then the store, and leaves the cache again if the store refuses it.
`age` is the time since a reservation, up to the first tick that counts as lapsed.

Left out: a runtime without a store, the hash chain of the audit sink, schema
validation and result budgets.

### MainHarness

`saved` is the row, `held[d]` the copy a driver works on, `call[d]` its dispatch in
progress. Every operation is a function from state to state in `RunStates`
(`Reported` is everything `dispatch` does with a report: the attempt, the report,
and the unlocking of dependents; `RolledBack`, `Replanned`, `Published` likewise)
followed by `Save`, which is `_commit` and the repository's conditional `UPDATE`. A
refused save raises a conflict and leaves the driver with its old copy.

`dispatch` takes four actions, since the tool runs for as long as it likes between
the read of the copy and the save: `Dispatch` (the guards and the runtime's
lookup), `Reserve`, `SolveEnds`, `Conclude`. The tool table is the one of
`ToolRuntime`, by key: a driver makes one call at a time, so the cache of its
process never differs from the table. The key holds the attempt number.

A report is its task, its outcome and its `basis`: which reports of its
dependencies it was given as context. The abstract run in `RunLifecycle` takes each
operation on the current state, one version at a time.

Plans are functions from tasks to a node, which is its dependencies and one value
for the rest. `IsPlan` is what the operations need of a plan. `REVISION_REQUIRED`
reports are `failed`, as in the code. Left out: report files (see `SolveProblem`),
the paper's contents, the composer.

### TaskGraph

`DAGTaskTable` with lists where the code has lists: a dependency named twice counts
twice in the indegree, ids may be repeated, dependencies unknown. `Ordered` is the
loop of `topological_order`, `Accepted` the conjunction of the validator's checks in
its order, `Canonical` the chains of `canonical_main_harness_dag`. The references
are `Acyclic` (by subsets) and `IsLeast` (among all linear extensions).
`OnlySolvesFinish` says that what the validator accepts has what `IsPlan` and
`AcyclicAssumption` ask for, and can be finished (`CanFinish`) exactly if every task
before the paper is a `solve_problem`: the validator takes the other kinds too, and
`dispatch` refuses them (`application/main_harness.py:178`). That a table is accepted
and can never be finished is seen in the code and no document speaks against it.

### LangGraphHarness

`run` is the row, `copy` the state that goes round in the graph, `phase` the node the
graph is at or how it ended, `steps` what LangGraph counts against
`recursion_limit`. `Dispatch` is `dispatch_node`: it takes the first ready task *of
the copy* in the order of the table and commits; a conflict is an exception that
ends the graph. `Decide` is an operator's rollback or replan from the row, between
any two steps. The tool's part in a dispatch is one step here, since the reservation
and the races about it are `MainHarness`'. A driver that ended is not started
again: `create` refuses a run that exists, and the command that resumes one starts
a run of its own.

### StageArtifacts

Contents are records of a kind and of the program they come from, so that a log "of"
another source than the one beside it can be told. `Put` is `put_bytes`, whose rename
makes it one step; a row, and the same record in the runtime's registry, are written
after it, each by an action. `AddStep` is add-question, one write at a time (the
question with its problem's row, then the runtime's record of the problem, then the
table), with a crash possible between any two. `CheckTable` and `MaterializeTable` are
`_ensure_valid_dag_task_table`. The sandbox directory is one variable, because its
name has the activity and not the attempt; `Prepare`, `StartProcess`, `EndProcess` and
`RemoveWorkspace` are the steps of `execute` that another attempt may come between.
`home` says whether a child's working directory still exists.

The leases are those of `QuestionWorkflow` without a clock: `Lapse` may happen at any
time, to the question's lease or to both. The stages are one that runs a program
(`coding`) and one that has a publication gate (`finalize`).

### WorkflowEngine

An operation is `Get`, `Save` and `AppendEvent`, or a conflict in either of the last
two; any caller may crash in between. `history` is a ghost variable: the events that
made the versions of the state. `log` is the event table, `outbox` the marks,
`sending` and `delivered` the publisher. Activities are planned after the append,
as `_plan` is called there. A result is matched by its stage alone, as in the code,
so a result planned for an earlier revision is taken in a later one, and a paused
workflow takes the results of what was planned before.

### SolveProblem, CodeLane, HumanControl

`stage` is where a call of `solve` is: at a control checkpoint, in a provider call, in
the code harness, or in `persist` and the save of the record after it. `ctx` is
`SolveProblemContext` as far as it matters here: the cursor, the batches of
instructions, and the exchange files named to the next stage. `round` is the
iteration in progress, `rounds` the snapshots. `archive` maps the path of an
exchange file, which has the attempt, the iteration and a name, to the call that
wrote it last; two calls may have the same attempt number, when the first one's
save was lost. `results` is the tool table of the attempts.

`CodeLane` is what happens while the loop waits for the code harness. `source` and
`outputs` are files of a lane (the directory of an attempt and iteration); `jobs` are
processes, `known` as long as the harness process has them in its registry. The code
passes no working directory to a job (`application/local_tools.py:532`), so it runs in
the shared root of the workspace (`infrastructure/local_sandbox.py:157`), and nothing
confines what it writes: `Script` lets any job or acceptance run that is alive change
the outputs of any lane, the source of any lane that has one, and any exchange file.
`held` is the rewrite gate: `python_execute` is refused on the source its last failure
was seen with. A handoff may name a script of an earlier lane.

`HumanControl` has `Submit`, `Pending` and `IsInterrupted`. A console numbers its
command after those it has read, under a lock of its own process, so two consoles may
issue one number or append out of order; `seen` is how much of the file the one that
appends has read. `InTurn` says that a command has a number above all before it, as
every command of a lone console has.

A review asks for the code, or for `modeling` (the targets `model` and `full`), which
the loop turns into the code (`application/solve_problem.py:652`). `asked` keeps what
it asked for; the loop never reads it.

### DshRuntime

One action per statement of the caller that other threads can come between: the
registration of a request, its write, the wait, each notification of `run`. `waiter`
is the queue of each request, `notifications` the one queue of the session. `Fail`
is `_fail`, called by both reader threads. The runtime itself is not in the
repository: it is taken to answer each request once and to send, for a turn, a
receipt, a message and an idle state, and it may hang or exit at any time. Its
definitions are named `Session...`, so that `RuntimeProofs` can extend both runtimes.

## 3. Runs

| Run | Module | Instance |
|---|---|---|
| `core` | QuestionWorkflow | two workers that may stall between any two statements, an executor that answers as it likes, one revision |
| `retry` | QuestionWorkflow | two attempts, one crash, an idempotent executor |
| `artifacts` | StageArtifacts | add-question and two workers, two attempts, one crash |
| `record` | ToolRuntime | two calls of one process and one of another, two keys, timeouts, one crash or SQLite error |
| `drivers` | MainHarness, TaskGraph | two drivers, three plans, one rollback or replan, one crash; all small task tables |
| `graph` | LangGraphHarness | two plans, outcomes of all kinds, two decisions, one crash |
| `engine` | WorkflowEngine | two callers, versions up to 11 (a revision included), two commands, one crash |
| `rounds` | SolveProblem | one call of up to two iterations, two commands of one or two consoles, a resumed start, fairness |
| `calls` | SolveProblem | two attempts and calls of one iteration, two sources, one write of a script, crashes |
| `dsh` | DshRuntime | two proposals in one session, fairness |
| `evidence` | StageArtifacts | the instance of `artifacts`; a statement of the code that the code does not keep |
| `exhaust` | QuestionWorkflow | two workers, one attempt, waits for the lock; a promise of `src/README.md` that the code does not keep |

### What the passing runs say

* `core`: `ApprovalHasEvidence`, `OwnerIsCurrent` (a process that the row still names
  as owner has a current copy, though its lease may have lapsed and come back),
  `NothingIsSkipped`, `ImplementsLifecycle`.
* `retry`: `AttemptsAreExclusive`, `CommittedIsPermanent`, `ImplementsLifecycle` with
  `Faithful`.
* `artifacts`: `RecordsHaveBlobs` (the bytes of every record of both indexes are
  there, whatever crashed), `RowsAreOfTheCommit`, `WorkHasTable`.
* `record`: `StoredIsRecorded`, `OneHandlerPerLease`, `CompletedIsImmutable`.
* `drivers`: `CopiesAreCurrent`, `OrderLostByReplanOnly` (a completed task comes to
  stand over one that is not by a replan only, which changed that one),
  `NothingIsStranded`, `HistoryIsKept`, `ImplementsRun`; `OrderIsLeast` and
  `OnlySolvesFinish` of the task tables, evaluated in the initial state.
* `graph`: `EndsForAReason` (a driver that stops short leaves a failed task, one cut by
  the recursion limit a blocked report, and one that renders has the published row),
  `DecisionsStand`.
* `engine`: `LogIsAPrefix`, `ReplayRebuildsState`, `DeliveredInOrder`,
  `ImplementsLifecycle`.
* `rounds`: `InstructionsOnce`, `SuggestionsHeard` (a stage that starts after a
  checkpoint has every command that was numbered in turn), `ArchivedBeforeNext`,
  `ClosedByReview`, `InterruptStopsWork`, `InterruptEndsTheCall`. `ClosedByReview`
  agrees with the comment at `application/solve_problem.py:652` that no review reopens
  the contract, and so disagrees with `src/README.md:23` (see `SolveProblem_revision.cfg`
  below).
* `calls`: `OneResultPerAttempt`, `SavedFilesStand` (only a script changes what a saved
  package lists), and `ArchivedBeforeNext` where an earlier call of the same attempt has
  left files of its own.
* `dsh`: `WaiterIsKnown`, `AnswersItsPrompt`, `ExitIsNoticed`.

`core` and `rounds` check `TypeOK` too. The type invariants of the other modules are
proved (section 4).

### Bounds

Two processes and one resource are enough for each of these races: a holder that
lost its guard and the one that took it over. `core` has one revision, so a worker
can be a whole revision behind; `retry` has two attempts, so that a stale and a
current attempt coexist; leases are one or two ticks, so that they lapse between
any two statements and the instant of expiry occurs. `MaxLockWait` is 0 in both,
since waiting makes `core` too large; the theorems hold for any value of it, and in
`exhaust` it is 1.

`artifacts` has two attempts, the one that is late and the one that replaced it, and
two programs, so that a log can be of the other one. `record` has three calls: two
that share a cache and a lock and one that does not. `drivers` has five versions,
enough to solve both questions of a chain and publish with one decision in between, or
to be blocked, roll back and solve again; its three plans share questions, and one
changes the statement of a question above another that it keeps. The task tables are
lists of up to three nodes of three kinds, with any terminal marks and at most one
dependency each (lists of up to two may repeat an id), and four-node graphs with up to
two dependencies, one named twice. `graph` has tables of three tasks, for which the
recursion limit is 32, its least value: blocked reports reach it, completed ones do
not. In `engine` eleven versions take a workflow through a revision to its end, with
two commands on the way. `rounds` has two iterations: the second is the last and goes
through everything that depends on there having been one before, and its two commands
come from two consoles or one. It has no writes of scripts, which `calls` has, with a
second call of the same attempt, but one iteration, no commands and reviews that
approve only; what they check together, commands and writes over several calls and
rounds, is left to the theorems. `dsh` has two proposals: the second may meet
everything the first left behind.

`Reviews` says what reviews may decide (anything, but for `calls`). `MaxCrashes`,
`MaxFaults`, `MaxVersion`, `MaxDecisions`, `MaxCommands`, `MaxCalls`, `MaxWrites`,
`MaxDelivered` and `MaxProposals` bound counters and inputs.

Deadlock is checked where the system goes on for ever or ends in an explicit step. It
is not in `artifacts`, `graph`, `engine`, `rounds`, `calls` and `dsh`, which stop when
the question is committed, the driver has ended, or a bound is reached.

### Fairness

`QuestionWorkflow` states none. `run_until_terminal` catches nothing
(`workflow.py:225-231`) and the command calls it once (`cli.py:284`, `314`): a worker is
over at its first conflict, failed execution or crash, and nothing in the code starts
another. That every question ends would rest on an operator.

`rounds` assumes `WF` of the loop's own steps, since providers answer or raise, and of
the ends of waits, which have a soft checkpoint. The step in which the code side
notices an interrupt has `SF`: the agent's stream is looked at between any two of its
states and the acceptance run is polled, but a tool call in between disables the
step for a while. Nothing makes an agent hand off or a script end, so only a call
that is told to stop must stop.

`dsh` assumes `WF` of the provider's threads. The runtime owes nothing: it may hang. So
`ExitIsNoticed` is about a runtime that has exited.

The other modules state no fairness: a run of the Main Harness need not end, because
a task whose report says blocked is unlocked at once and may be dispatched for ever
(one driver is stopped by its recursion limit, which is a part of `EndsForAReason`).

### The violation runs

* `evidence`: the sandbox directory has the name of the activity. With a lapsed lease a
  second attempt overwrites `model.py` before the first has started it, finds the
  first's outputs among its own, and loses its files to the first's `rmtree`; so the
  attempt that commits may record a source with the log or outputs of another
  (`EvidenceIsOfItsSource`), while `executor.py:96` calls the wrapper "the evidence
  boundary". `RowsAreOfTheCommit`, checked on the same instance, holds: the rows are
  those of one attempt, it is what they say that may not be its own.
* `exhaust`: `complete_activity` reads the clock and then waits for the lock, up to 30 s
  (`store.py:373`, `126`). Meanwhile its lease ends and the claim of another worker finds
  the attempts spent; the completion commits all the same, and the question fails with
  an answer committed (`ExhaustionLosesNothing`), of which `src/README.md:33` promises
  the recovery.

### Configurations to run by hand

Each of these checks one property that the code does not keep, on an instance as
small as the counterexample allows: `tlc -config X.cfg MCModule`. They are not in the
list of runs.

* `QuestionWorkflow_replay.cfg` (`CommittedIsNotReexecuted`): `run_step` reads the
  activity's status before it claims it and executes a row that was committed in
  between; `src/docs/executor-protocol.md:27` promises that recovery performs "only
  the missing state transition".
* `QuestionWorkflow_review.cfg` (`ApprovalReviewedItsCoding`): `_enter_stage` chooses the
  stage before `transition` re-reads the row. With a lapsed lease the row may be of
  the next revision, whose review is then executed, and committed, before its
  coding; the question is later approved by it.
* `ToolRuntime_cached.cfg` (`CachedAgreesWithRecord`): a result that the store will
  refuse is given to the next caller of the process, while
  `infrastructure/db/tool_runs.py:21` promises byte-for-byte returns of the recorded
  one.
* `MainHarness_stale.cfg` (`BuiltOnCurrentReports`): the attempt number in the
  idempotency key counts saved attempts only. When a rollback overtakes a dispatch,
  the next dispatch of the task repeats its key and gets the answer built on the
  rolled back report; `src/README.md:18` says that rollback invalidates downstream
  state.
* `MainHarness_replan.cfg` (`CompletedInOrder`): `replan` keeps a completed task whose
  own node is unchanged though a task above it changed (`application/main_harness.py:395`);
  the same line says that replan invalidates downstream state.
* `SolveProblem_revision.cfg` (`RevisionReopensModeling`): a review that asks for the model
  is followed by a round that keeps the contract; `src/README.md:23` says that
  "model/full revisions repeat exploration and synthesis".
* `SolveProblem_consoles.cfg` (`EveryCommandHeard`): of two consoles that append at once,
  one numbers its command at or below the cursor, and no checkpoint ever reads it
  (`human_control.py:155-157`).
* `WorkflowEngine_log.cfg` (`LogIsComplete`): a caller whose append is overtaken by a
  later one's is refused and the event is lost, though its state is saved;
  `src/README.md:34` names the envelope, the versions and the outbox as one.
* `StageArtifacts_table.cfg` (`OneTable`): two workers, or a worker and add-question, both
  find no task table and both write one; `run_step` accepts no question that has two.

## 4. Proofs

Nothing is bounded in the theorems: they hold for any sets of processes, plans and
keys, any lease length and any values of the bounds. They assume the named
assumptions of the modules (`None` is no answer, budgets are naturals, plans are
plans), which TLC evaluates in every run, and what is stated below.

**QuestionWorkflow.** `TypeCorrect` stands alone. `HandsInv` says that what a
process holds agrees with the rows (the answer it decides on belongs to its stage,
a decision follows a committed activity, an outcome is one its answer earns);
`CommittedForGood` follows from it. `OwnerInv` adds that an owner's copy is current
and of the stage the row is in. It needs `DistinctWorkers`: `WorkerOf` is one to
one. Processes started with the same `--worker-id` share a lease and pass each
other's checks; that hazard is listed and is the reason for the assumption.
`ProgressInv` is `NothingIsSkipped`, `ApprovalHasEvidence` and what the first
revision needs; neither is inductive without `OwnerInv`, since a step is only
justified by the copy that it was decided on. `WorkflowImplementsLifecycle` is by
cases on the actions, each a lifecycle step or a stutter; `OneAnswer`, a part of
its argument, says that an idempotent executor makes the answer in hand the
committed one. `AttemptsExclusive` needs `AttemptInv` (nobody has an attempt number the
row has not reached) and no assumption on worker ids.

**ToolRuntime.** `RunsStay` says that a row changes only in a reservation or a
recording, and never once it is completed; `CompletedForGood` follows. `StoredForGood`
adds that the call that stored a result was the one whose token the row had.
`HandlersTakeTurns` rests on `HandlerHolds`: the reservation of a running handler has
lapsed, or the row still has the token of its call, and two calls cannot both
have it.

**MainHarness.** `RunStatesProofs` proves of each operation, for any plan and state,
what it does to every field, and that it keeps `IsRun`, `NoneStranded`, `AllDone` (in
a published run all tasks are completed) and the history, and that a replan alone adds
to `OutOfOrder`, the tasks completed over one that is not. The rollback lemma is the
interesting one: the affected set is closed under dependence and each of its members
but the first depends on another of them, so that blocked tasks have something to wait
for. `MainHarnessProofs` then shows that drivers only ever do this to the current row:
its invariant `Inv` says that a copy with the version of the row is the row, that a
call in progress is for a ready task of the copy and for its next attempt, and that
every `basis` consists of reports in the row. `SaveKeeps` is the heart of it: a save
is an operation on the row or nothing. `HarnessImplementsRun`,
`HarnessStrandsNothing`, `HarnessKeepsHistory`, `HarnessCopiesAreCurrent` and
`HarnessLosesOrderByReplanOnly` need no assumption.

**TaskGraph.** These theorems are in `MainHarnessProofs`. They are for any list of
nodes whose dependencies are tasks (`IsTable`, `AllKnown`), with dependencies named
twice where they are. `LoopInv` is the invariant of the loop in `topological_order`:
the order so far has each task once and after its dependencies (`Sound`), no such
order of all tasks comes before it (`Leads`), the indegree counts the dependencies
that are not taken yet, and `ready` is the open tasks, sorted. `Leads` is why the
smallest open task is the right one: another order must put an open task in its place,
which is larger. When nothing is open, the tasks left over wait for each other. Hence
`TaskOrder`: the order is complete exactly for a table without cycles, and is then the
least of its linear extensions. `OrderByNames` follows: the order does not depend on
how the table lists its tasks. `AcceptedIsPlan` says that what the validator accepts
has `IsPlan` and is acyclic, whatever the kinds of its nodes; `FinishesIfItSolves`
that it can then be finished exactly if it has `solve_problem` nodes only, and
`HarnessAccepts` that the canonical table of any number of questions is accepted and
can be finished. The loops are recursive functions over a bounded number of turns;
that a turn keeps the invariant is carried to all of them by looking at the least turn
that would not. `Sorted` chooses the increasing list of a set, because the prover
cannot look into the sorting operators of the library.

**StageArtifacts.** `ArtifactsHaveBlobs`, `ArtifactsAreOfTheCommit` and
`ArtifactWorkHasTable` hold for any workers, programs, attempts and crashes. Their
invariant adds to them what a process is about to record: past `put` the bytes are
in the store, at the commit the records are in the registry, and past the check
there is a table, which stays, because rows only grow. So what a worker saw is still
true when it claims, and an activity that has an attempt has a table. A commit is by
the attempt the row counts, and no row has an attempt number before it, which is
why `ArtifactsAreOfTheCommit` is a part of its own invariant.

**WorkflowEngine.** The invariant has three parts. Every version of the state has its
event in the history, and the log agrees with the history as far as it goes. A
caller's copy is the current state or older, and the event a caller is about to
append is the one that made the version after its copy. What is marked or under way
was handed over, and everything before it. The log grows only at its end
(`append_domain` compares versions), hence by the event of that very place:
`EngineLogIsAPrefix`. `EngineImplementsLifecycle` is by cases: a save that succeeds is
a `Move`, since a copy of the current version is the current state. `EngineReplays` needs
one fact more, `ReplayInv`: the whole history, replayed, is the state. A save adds its
event to both. That an event more moves the replay by one reduction
(`ReplayAppend`) is shown of the fold, a recursive function, from the least place at
which the folds of a log and of the longer one could differ.

**LangGraphHarness.** For any tables without cycles and any decisions,
`DriverInvariant` says that the copy is the row or an earlier version of it, that
its plan is one the driver was given, and that, until a report says blocked, the
steps taken are at most the tasks that have ended. Hence `DriverEndsForAReason`: a run
cut by the recursion limit, which is more than the number of tasks, has a blocked
report; a run stopped short has no ready task, so by `AcyclicAssumption` the first
task that is not completed waits for nothing and must have failed.
`DriverKeepsDecisions` is the version check; `DriverImplementsRun` refines
`RunLifecycle` by the lemmas of `RunStatesProofs`, and is proved without a run.

**SolveProblem.** For any jobs, sources, commands, attempts, calls and crashes, and
any number of iterations the code accepts. The types are proved one kind of step at a
time (checkpoints, model calls that go on or return, the agent, jobs, `persist`), and
what a saved record may say needs `PlaceInv`: while a stage works its attempt is
*reserved*, and from `persist` on it is *recorded*. Hence `SolveTypes`, and
`AnsweredOnce`: only a working call returns, and only an attempt that is not recorded
is dispatched. `HeardInv` says that the cursor is the number of a command and that a
working stage has passed no interrupt numbered in turn. A command given later in turn
has a number above all before it, hence above the cursor, whatever other consoles
append, so the next checkpoint sees it: `InterruptObeyed`. `RoundInv` follows the
rounds: those ended are unapproved, consecutive and under the contract of the call,
the last of them just before the round in progress, until `Unify` closes them on an
approved or a last round: `ClosesByReview`. `FileInv` says which exchange files the
rounds ended and the round in progress have; a call never drops a file from its list,
and the files on it stay its own or a script's since no other call runs:
`ArchivedFirst`. `ListInv` follows the batches of instructions. `Collected`: every
batch of commands is of places with numbers up to the cursor, no place is in two,
because what a checkpoint takes is above the cursor, and every command numbered in
turn up to the cursor is in one. `Told`: the revisions among the batches are those of
the rounds of the call, in order. `InstructedOnce` and `CommandsHeard` follow. For
`SavedStand`, `LaneInv`, `OwnInv` and `ReportInv` say that lanes with a source, files
and evidence belong to the attempt in progress or an earlier one, and those of a
report to its own. An attempt that is saved is not the one that works, so the agent,
who writes in the lane it was begun in only, cannot write there, and no call archives
there; `Script` is what is left. The parts of this invariant were checked by TLC
first, on two attempts.

**DshRuntime.** For any number of proposals, with threads that fail and a runtime that
hangs or exits at any point. `SessionInv` is the types, `CountInv` (a
proposal makes two requests, so their numbers do not run out) and `TableInv`: a request in
the table has got nothing yet, and the one that is being made is in the table or has
got something, since an answer and `_fail` take out of the table what they put in a
queue. `NoAnswerMissed` is a part of
it. `ResponseAnswersItsPrompt` needs two parts more. `FrameInv`: what is in a pipe
or a queue under a request's number is the request's own, since numbers are never used
twice. `StreamInv` is about the notifications handed over and those still in the pipe,
as one stream: from the receipt of a prompt to the next idle state, every message answers
that prompt, and there is no idle state before a message. So a proposal that has
found its own receipt may take the first message, whatever an earlier proposal left
in the queue. The lemmas beneath say that taking the head of a stream, moving it from
the pipe to the queue, and adding or leaving out frames that are neither receipts,
messages nor idle states keep this. What the runtime sends is what the module takes it to
send: it is external.

**Assumptions on constants.** `AcyclicAssumption` is what `AcceptedIsPlan` proves of every
table that the validator accepts. `DriverAssumption` says that there are finitely many
tasks, all of them listed, and that `max_iterations` is in the range the code accepts.
The others say that budgets are naturals and that `None` and the like are no values.

**Only model-checked.** The liveness properties `InterruptEndsTheCall` and
`ExitIsNoticed`, which stand on fairness; the prover has no
rule for them. Every invariant and every action property of the passing runs is a
theorem, and so are the refinements, under the assumptions named above.
The violations are, of course, instances.

## 5. Not modelled

* **What is said.** Answers of models, prompts, context budgets, skills, knowledge, media,
  the contents of reports, claims and papers. Where an answer matters it is any
  member of a small set.
* **The composer** (`PaperComposerPort`), which is given every report of the run and whose
  paper is published or refused; and the tool call that renders it.
* **Edits of files** by local tools (`application/local_tools.py:328`): each reads, changes
  and replaces a file; an agent calls its tools one at a time.
* **Chains of digests** of the event log, the event store and the audit sink: what a
  tampered file would show.
* **The status side of human control.**
* **Some writes of scripts**: one that makes a source, an exchange file or another file
  where there was none, and the acceptance run of a harness that was killed, which may
  go on as an orphan.
* **The wire**: JSON framing, HTTP, bounds on outputs, argument and path checks of the
  sandbox.
* **Command line, bundles, adapters**, but for the commands whose order of writes
  or whose end matters (`add-question`, the Main Harness command).

Seen while modelling and not stated as a property, because no document says what
should hold: a commit records as evidence of its claims all artifacts the question
has by then (`store.py:390`); an answer to the engine is matched by its stage only
(`application/workflow_engine.py:73`); the graph keeps the first composer it was
built with (`application/langgraph_main_harness.py:51`); a published run whose
rendering failed is not rendered again; a code agent may hand off a script of an
earlier lane (`infrastructure/deepagents_code_harness.py:105`).
