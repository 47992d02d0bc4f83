# Setuper: a TLA+ verification project

Setuper captures a macOS development workspace as a *setup* (a YAML manifest of
resources), stores its metadata in SQLite, and launches it again: it plans the
resources, orders them by their dependencies, starts them through adapters,
waits until they are ready, and records what happened.

Paths below are relative to `src/src/setuper/`.

## 1. Inventory

| Component | State it keeps | Operations | What makes it correct |
|---|---|---|---|
| Scheduler (`application/scheduler.py`) | locals of `run_scheduled`: `remaining`, `results`, `ready_ids`; the asyncio tasks and the semaphore | a pass over the graph, starting a wave, `gather`, blocking, the stall error | dependencies first, bounded concurrency, an entry for every resource, blocked only for a cause, always ends |
| Launch service and recorder (`application/launch_service.py`, `launch_recorder.py`) | `_launch`, `_resource_record_ids`; where each `run_resource` is | `start_launch`, attempts, `record_resource_outcome`, `finalize_launch` | rows before processes, rows that agree with the in-memory results, a final status that agrees with the rows |
| Launch rows (`infrastructure/launch_repository.py`) | tables `launches`, `resource_runs` | one transaction per write, `require_row` | final states stay, a vanished row is an error |
| Retry and readiness (`infrastructure/retry.py`, `readiness_checks.py`, `domain/policies.py`) | attempt counter, deadlines, threads of probes | attempts under `wait_for`, probes, polling, backoff | READY is earned by the attempt it is given to, a bounded time, always an outcome |
| Setup service (`application/setup_service.py`, `infrastructure/manifests.py`, `hashing.py`, `editor.py`) | a manifest file and a `setups` row per setup | init, import, edit, clone, rename, update, save, delete, export | file and row describe the same revision, failures roll back, nothing is lost to a concurrent command |
| Setup and trust repositories (`infrastructure/setup_repository.py`, `trust_repository.py`) | tables `setups`, `trust_approvals` | create, update, delete (cascade), approve, revoke | unique names and ids, approval of one revision |
| Database (`infrastructure/database.py`, `migrations/`) | schema, `schema_migrations` | connect, run migrations | each migration once, all or nothing |
| Dependency graph (`domain/graph.py`) | none | build, cycle detection, topological order | accepts exactly the acyclic graphs |
| Launch plan (`application/launch_plan.py`, `domain/variables.py`, `domain/readiness.py`) | none | select, interpolate, validate | a plan is closed under dependencies |
| Subprocess supervision (`infrastructure/subprocesses.py`) | the process, its group, its exit code | start, wait, stop | stop returns, ends the process and (when it kills) its group, and signals nobody else |
| Capture (`application/capture_service.py`, `domain/diff.py`, `adapters/identity.py`) | findings and issues of one inspection | inspect, filter, build, diff | nothing invented, nothing that was there lost, distinct ids, an exact diff |
| Adapters (`adapters/`) | what their queries have said so far | detect (one or several queries each), capture; launch is an external contract | a torn or failed query costs no more than it must |
| Bounded commands (`infrastructure/commands.py`), browser messages (`adapters/browser_protocol.py`) | none | run with a timeout and a bound on output; one framed request | every way to fail is an issue, or an empty answer |
| Manifest models, errors (`domain/models.py`, `enums.py`, `errors.py`) | none | validation | resource ids are unique |
| Paths and JSON output (`infrastructure/paths.py`, `cli/json_output.py`) | none | directories, rendering | - |
| CLI (`cli/app.py`) | one process and one connection per command | dispatch, prompts, `asyncio.run` | errors mapped to exit codes |

How they interact: a CLI command opens the database, migrates it and calls one
service. `launch` reads a setup's row and file, builds a plan, and runs
`LaunchService.launch` under `asyncio.run`; the service hands the scheduler a
`run_resource` coroutine which calls the adapter, the readiness checks and the
retry policy, and writes each outcome through the recorder before it returns.
Commands share nothing but the files and the SQLite database.

**Where it is hard.** One process is concurrent inside (`launch`: asyncio tasks, a
semaphore, timeouts, cancellation by Ctrl-C), several processes are concurrent
with each other on one database and one directory, a manifest and its row are
two stores that no transaction spans, and an inspection asks a machine that goes on
changing, query after query. `PROJECT.json` lists each such hazard at its
line, with the properties that watch it.

## 2. Plan

| # | Module | Models | State |
|---|---|---|---|
| 1 | `LaunchOrder` | what a launch promises of order and blocking, abstractly | done |
| 2 | `Scheduler`, `SchedulerProofs` | `run_scheduled`; implements `LaunchOrder` | done, proved |
| 3 | `LaunchEngine`, `LaunchEngineProofs` | a whole launch with its rows; composes `Scheduler` | done, proved |
| 4 | `SetupStore`, `SetupStoreProofs` | the commands that change setups, over files and rows | done, proved |
| 5 | `RetryReadiness`, `RetryReadinessProofs` | one `run_with_retry` with the clock: `wait_for` against `wait_until_ready`, backoff delays, probes left in threads | done, proved |
| 6 | `DependencyGraph`, `LaunchPlan`, `LaunchPlanProofs` | depth-first cycle detection and Kahn's order against "acyclic" and "topological"; selection and validation of a plan | done, proved |
| 7 | `ProcessSupervisor`, `ProcessSupervisorProofs` | start, wait, stop of a process group against its own exits and the reuse of its pid | done, proved |
| 8 | `Migrations`, `MigrationsProofs` | concurrent starts of processes of several releases on one database | done, proved |
| 9 | `Adapters`, `Capture`, `CaptureProofs` | what each adapter reports and names; inspect, save, update and diff on a changing machine | done, proved |
| 10 | `ResourceRun` | what the run of one resource promises, abstractly; `LaunchEngine` and `RetryReadiness` implement it | done, proved |

Every invariant and action property that a passing run checks is stated by a theorem. A
refinement still worth stating: that the last step of `Capture` (the manifest is stored, or is
not) is what a save or an update of `SetupStore` comes to when no other process is there.

## 3. The modules and the code

### `LaunchOrder`: the promise
A resource waits, runs, becomes ready or failed, is blocked or cancelled; the launch
is open, complete or aborted. A resource starts only when it is admissible (its
dependencies are ready, or merely settled under the override), is blocked only
when a dependency failed or is blocked, and the launch completes only when all are
settled. It says nothing of passes, permits or tasks.

### `Scheduler`: `application/scheduler.py`
`remaining`, `results` and `readyIds` are the locals of `run_scheduled`, `deps` its
graph, `override` is `continue_on_dependency_failure`. `task[r]` is the asyncio task
of `r`: not created, `queued` at the semaphore, `running` inside `run_resource`,
`ended`, or `dead` (raised or cancelled). `pc` is where `run_scheduled` itself is.

* `Dispatch`, `BlockOnly`, `Stall` and `Return` are one pass of the `while` loop each.
  A pass has no `await` before `gather`, so it is one step.
* `Start`, `Finish` and `Raise` are `run_one`. The semaphore wakes its waiters in the
  order in which they asked, and a wave is created in sorted order; `Start` lets the
  first queued task in when a permit is free.
* An exception comes out of `gather` at once while its siblings live on until
  `asyncio.run` cancels them (`Raise`, then `Cancel`, `Unwound`). Between the two,
  siblings still start and finish, and the model lets them.
* `Interrupt` is Ctrl-C under `asyncio.run`.

### `LaunchEngine`: `launch_service.py`, `launch_recorder.py`, `launch_repository.py`, `retry.py`
It EXTENDS `Scheduler`, whose `Start`, `Finish` and `Raise` become the ends of a
coroutine `run_resource` with steps of its own (`step[r]`, `attempt[r]`).
`CreateLaunch`, `CreateRow`, `RowsCreated` are `start_launch`, one transaction per row.
`AdapterStarts`, `AdapterReturns`, `ProbeSucceeds`, `AttemptFails`, `NextAttempt` are an attempt
and `run_with_retry`, whose failure is final after the last attempt and also when the delay before
the next one overflows; `Record` writes the outcome and returns it, or raises when the write
fails or the row is gone. `Aggregate` and `FinalizeLaunch` end the launch.
`setupRow`, `launchRow`, `rows`, `rowPid` are the database, `procs` the processes that
adapters started: `<<r, a>>` is what attempt `a` of `r` started. A pid in a row is the
number of its attempt, 0 stands for NULL; `result[r]` holds the pid, if any, of the
`LaunchResult` once the adapter has returned in the current attempt. Around it, `WriteFails`, `DeleteSetup` (another process, with
the cascade to these rows), `CtrlC` and `Kill` may happen at any point.

No adapter in the repository implements `launch` yet; what one may do is the contract the
engine's code is written against: start a process or none, and then return its pid, return no
pid (`LaunchResult.pid` is optional, and the fake adapter of `test_launch_service.py` makes a
resource READY with none), raise, or not return before the timeout. So a process may be left by
an attempt that never returned, and a READY row may name none: `ReadyNamesLastProcess` says that
the row holds what the adapter returned in the last attempt, and `ProcessesAreRecorded`, whose
run is to be violated, speaks only of pids that were returned. `LaunchResult.status` is never read by the engine and
does not appear.

### `ResourceRun`: the promise of one run
What `_run_one` comes to with neither clock nor database nor other resources: attempts in turn,
each launching and then, where there is a readiness condition, waiting; none beyond the last;
READY out of the attempt under way and after its own launch; one outcome, or none when the launch
around it is given up or the outcome could not be recorded. The same code appears twice in detail,
in `LaunchEngine` among other resources and rows (`Run(r)`, one instance for each resource) and in
`RetryReadiness` against the clock (`Run`); both implement this module.

### `SetupStore`: `setup_service.py`, `manifests.py`, `hashing.py`, `setup_repository.py`
`rows` is table `setups`, `files` the manifest at each path, `cmd[p]` the command that
process `p` runs with the locals it has so far (`rec` is the row it read, `old` the
manifest it loaded, `new` the one to be written, `hash` what it hashed). A managed
manifest lies at a path named by its id, so paths are ids and project directories.
Every command is cut where another process can come in between: reading the row,
loading the file, each check, the write (one step, by `os.replace`), the hash, the
row, the undo, the unlink. Each can fail in the ways its code handles or does not
handle, and `Kill` may come between any two.

* `LoadToChange` stands for `edit` and `update`: load, change, and (for `edit`) compare
  the identity with the manifest loaded here; both end in the write of `new`.
* `NewRow` and `ChangedRow` are the records the services build; `ChangedRow` replaces
  fields of the record read at the start, as `dataclasses.replace` does.
* `StoreFails` leads to `Undo` for save, clone, import, rename and update only; `init` and
  `edit` leave their file, `StoreFindsNothing` and `HashFails` leave it too.
* `LoadToLaunch` and `RecordLaunch` are the launch command as a reader: it records the
  hash of the row and runs the manifest of the file. An imported setup is never
  launched: it needs a trust approval and no command gives one.

`excuses` is a ghost. It remembers the paths at which file and row may have been left
apart, and why: `overlap` (two commands that write were at one setup together), `read`
(one of them was a launch), `failure` (killed after its write, or it could not
finish). No action reads it; the two properties that use it say what holds *without*
those three, and `store_rollback` shows one thing that happens with them.

### `DependencyGraph`: `domain/graph.py`
One call of `build_dependency_graph`. `Call` takes the resources and their dependencies;
`CheckEdges` refuses an edge to a resource that was not given. `path` and `color` are those of
`_detect_cycle`, and `path` is also the call stack of `visit`: `EnterRoot`, `EnterDependency`,
`FindCycle` and `Leave` are the moments of the search. A tuple `depends_on` is modelled as a
set, so the search looks at dependencies in any order an author may have written.
`BeginOrder`, `TakeReady` and `EndOrder` are `_topological_order`; its list `ready`, which the
code sorts after each turn, is a set of which the least is taken. Resources are numbered in
the order of their ids. The interpreter's recursion limit, which a chain of about a thousand
resources would meet, is left out.

### `LaunchPlan`: `launch_plan.py`, `variables.py`, `readiness.py`
One call of `build_launch_plan`; `request` is what it is given. `Select` applies `enabled`,
`--only` and `--skip`. It does not add dependencies: a plan is closed under them because
`CheckEdges` refuses the others. `UnknownProfile` and `ResolveValues` give the variables their
values from declarations, profile and command line; `PlanResource`, `UnresolvedReference` and
`MalformedProbe` are the loop over the selected resources; `BuildGraph` calls the graph
builder, which runs (`GraphTurn`) and whose verdict ends the call. Texts are abstracted to the
names they refer to and a value to whether there is one: a variable that is declared with
neither a default nor `required` and given nothing has none, and neither has one whose override is null.
What an adapter says of a resource is recorded in `invalid` and does not end the call.

### `Migrations`: `infrastructure/database.py`
`pc[p]`, `seen[p]` (`applied_versions`) and `at[p]` (the loop variable) are `run_migrations` in
process `p`; `history` and `effects` what is committed, `writers` who is inside `BEGIN
IMMEDIATE`, `executed[p]` how far its transaction has come. `Begin`, `Execute`, `Commit` and
`Fails` are `_apply_migration`; `Busy` is the lock timeout. `Restart` kills a process at any
point, or ends its command, and another comes. Statements that fail are those that find
what they create already there, among others; `Fails` allows it at any of them, and `Execute`
also allows them to pass, so that only the primary key of the history row keeps a
migration from being applied twice.

### `RetryReadiness`: `retry.py`, `readiness_checks.py`, `policies.py`, `launch_service.py`
One call of `_run_one`, from the first attempt to the outcome it records, on a clock
that counts in whole units. `due` is the timeout of `wait_for` around an attempt,
`deadline` and `wake` are those of `wait_until_ready` and of the current sleep.
`AdapterReturns` and `AdapterRaises` end the launch of an attempt; then probes
(`ProbeAnswers`, `ProbeTimesOut`) and sleeps (`NotReady`, `PollAgain`) alternate until
`BecomesReady`, `ProbeRaises` or `TimesOut`. `AttemptFails` is both `except` clauses with
what follows them: the last attempt's failure leaves the loop, and so does an
`OverflowError` of `compute_retry_delay`. HTTP and command probes run under
`asyncio.to_thread`: when their attempt is cancelled they stay in `threads` and may end at
any time, or, an HTTP answer that keeps dripping, never. The service that is probed turns
`down`, `starting` or `up` as it likes; a server that has half started may answer with
something that is not HTTP, which no `except` of `_check_http` covers.

Time passes (`Tick`) only when nothing is due (`Urgent`), and things due at one instant
happen in any order. Delays are integers and the power of a backoff is a constant operator
with a bound `MaxFloat` above which it overflows, so the instance can overflow early.

### `ProcessSupervisor`: `infrastructure/subprocesses.py`
`leader` is the process as the kernel sees it, `members` its living children,
`noticed` whether the event loop has its exit code: between `Reap`, by asyncio's watcher
thread, and `Notice` the pid is free and `is_running` still says yes. `stranger` is another
process that gets the pid (`PidReused`, once no group bears it). A call of `stop` is cut at its
awaits and, because the kernel runs on, between `getpgid` (`Aims`: whose group it is) and
`killpg` (`Signal`, `Hit`), where `LoopIsFree` keeps the event loop itself from doing
anything else. `GraceEnds` is the timeout of `wait_for`; the rest of the call runs in a later
turn of the loop (`Escalate`). Who ignores SIGTERM (`stubborn`) and who runs as another user
(`privileged`: a setuid program, `sudo`) is chosen at the start. No signal of ours lands on the
latter, SIGKILL neither: `killpg` then raises the `PermissionError` that `_send_signal` suppresses.

### `Adapters` and `Capture`: `adapters/`, `capture_service.py`, `diff.py`, `cli/app.py`
`Adapters` has no variables: which of the things a machine shows each adapter leaves out
(`Skipped`, `Recent`), and the resource id it gives to the others (`ResourceId`, through
`resource_slug`, which many texts share). A thing is a record of what can be seen of it
for as long as it is there; `rev` is what changes of it meanwhile. Two things may look alike, as two
instances of an application or two windows of one title: a field `nth` tells them apart, and what
goes into a manifest is without it (`Seen`). An editor's storage is a list of URIs and what each
opens: a URI that comes again is dropped (`Fresh`), one path under two URIs is not.

`findings` is the list of `inspect` as the set of its items. An item is known by what it came from, the
thing and, for editors, the place in the storage, so nothing is merged that the code keeps apart:
two items may say the same, and have the same id, and `IdsAreUnique` refuses them as the schema does.
The order of the list is left out; nothing but the choice among items of one id depends on it, and
`Diffs` makes that choice freely.

In `Capture`, `shown`, `rev` and `tool` are the machine, which changes between any two queries
(`Appears`, `Vanishes`, `Turns`, `ToolTurns`). `Begin` takes a command up; `todo` are the
adapters `inspect` has yet to run, in the order of their names, and `part` what the current one
knows from its first queries: Docker's list before its inspection, the ports before the
processes, a repository's root before its fields, an editor's storage before each path.
A tool answers, exits with an error (which every adapter but the browser's takes for "nothing
there"), cannot be run (an issue), or prints what is not text (`Raises`: an exception nobody
expects, which ends the command). `Selected` is `filter_findings`; `Refused`, `ManifestRaises`,
`Previews`, `Stores` and `StoreFails` are how save and update go on; `Diffs` is `diff`, which
has read its manifest *before* it inspects. That the manifest is stored in one step, with one
setup name, is the abstraction: `SetupStore` is where storing is taken apart.

`watch` and `origin` are ghosts: what the machine was during this command (the things seen, those
there all the time, the states each was in, the tools that failed), and what it showed
when the stored manifest was captured. No action of the code reads them.

## 4. Runs

| Run | Instance | What it shows |
|---|---|---|
| `scheduler` | every directed graph on 3 resources (cyclic ones too), 2 permits, both overrides | types, dependencies first, the bound on `run_resource`, blocking only for a cause and from a real failure, a complete result, no stall for an acyclic graph, refinement of `LaunchOrder`, termination |
| `launch` | every acyclic graph on 3 resources, one retried once, two probed, one possibly invalid, 2 permits | rows before processes, and starts only after READY is on disk; rows agree with results in every state a crash could freeze; the row of a ready resource holds the pid, or the none, that its last attempt returned, and no other row a pid; final status agrees with rows; history is final; the launch ends |
| `launch_blocked` | every acyclic graph on 2 resources, one retried once, both probed, none invalid, 4 permits | a blocked resource stays `pending` on disk (finding) |
| `launch_pids` | as `launch_blocked` | a process whose pid was returned survives a failed attempt, and no row names it (finding) |
| `store` | 2 processes, 2 ids of uuid4, 1 carried id, 1 project, 2 names, 2 revisions, any store in sync at the start | without overlap or failure at a path, its file and row agree and no managed file lacks a row; a row of a uuid4 id always has its file; project files stay; a launch ran what its row names |
| `store_rollback` | same | a rollback removes a registered manifest (finding) |
| `plan` | every graph on 3 resources, 4 selections, 3 texts, 1 declared variable and 1 undeclared name, every declaration and override | the search finds a cycle exactly when there is one and names a real one; the order is topological, complete and the smallest-first one; a plan is what was asked for, closed under dependencies and resolved |
| `migrations` | 3 processes, one of a release that knows 1 migration, the others 2, of 2 statements each; any number of restarts | each migration on record took effect once and whole, others not, with no gap in the history; a command that goes on has its schema; a start ends |
| `attempts` | one resource under several policies (1 to 3 attempts; delays capped and not; a power that overflows), with no probe and each kind of probe, 3 turns of the service | READY is earned by the attempt, with a probe of its own, in time; FAILED only at the end or by overflow; the whole keeps its budget; an outcome is recorded, whatever hangs |
| `supervisor` | 2 stops, up to 2 children; the process, children, both or neither ignoring SIGTERM, and likewise running as another user | when stop returns the process is gone, and its group if that obeys the signal and may be sent it; nobody else is signalled, but for the race named below; stop returns, unless it waits for a process of another user |
| `capture` | 21 things that are easily confused, 8 registries, one of them of two adapters, 6 commands, 2 of them given, 2 changes of the machine | an inspection reports what was there, in states it was in, and omits only what its tool or a rule of the adapter hides; a manifest holds what the machine showed, once per id; a diff is exact on a machine that held still |
| `capture_traceback` | same, without changes | a save of two things of one resource id (two windows whose titles have one slug, two instances of an application) ends in a traceback (finding) |

**Bounds.** Three resources give every shape that matters to the scheduler: chains
(blocking over two passes), diamonds' halves, an independent sibling in a wave, a
cycle with a resource that waits for it, and with two permits a queue at the
semaphore. One retried resource is enough for an attempt that leaves a process
behind, because resources do not share attempts. Two processes give every pairwise
overlap of commands on the store; ids of uuid4 and carried ids differ in whether two
commands can hold one. With three processes and fewer ids (3.7 million states, about six
minutes, too long to keep as a run) nothing new came up. Each process runs one command,
so counters need no cap; `attempt` is bounded by the code. Three resources also give the
search everything it can meet: a cycle of each length, a cycle off the first root's
path, a node reached twice, and both ways to order a node's dependencies. Three
processes let one hold the lock, one wait for it and one start with a history that has
grown since another read it; two migrations are the fewest that can be applied out of order.

Time in `attempts` is bounded by the code (`EndsInTime`), the turns of the service by a constant:
three let it half start, come up and go down. Its timeouts are longer than a probe's or as
long, so each of the deadlines is the first at times. Two children let one outlive the other, two stops let a forced one meet a graceful one at
each of its steps. In `capture` one registry of two adapters, the others of one, are enough because adapters share
nothing but the list they add to, and two changes are the least that tear a query in three
(Git's root, branch, commit) or let a process go and another take its pid. Two commands are a
save and what may follow it: an update, a diff, a second save. One container fits into the bound
on output, two places into `MAX_WORKSPACES`, so both bounds are crossed. The storages hold a URI
twice, a URI that is no path, one path under two URIs, two paths of one directory name and a path
too many; an application runs twice, and a third has its slug.

**Deadlock** is not checked, except in `migrations`, where a process can always start
again: launches end, calls return, processes are gone and commands are all over, and those
states have no successor.

**Symmetry** is used in `store` over processes, the two uuid4 ids and revisions, for
invariants and an action property, all symmetric in them.

**Fairness.** `Scheduler` assumes weak fairness of its next-state relation and
`LaunchEngine` of `ServiceStep`: the event loop runs whatever can run, and every
`run_resource` comes back because each attempt is under `asyncio.wait_for` and their
number is bounded. `RetryReadiness` assumes that of the event loop (`Loop`) and of the clock, and
nothing of adapters, probes, threads and the service; `ProcessSupervisor` of the watcher's `Reap`,
of `Notice` and of each call's own steps, and nothing of the process and its children; and
`Migrations` of each process's own steps once it is started: SQLite
gives up waiting for a lock after `busy_timeout`, so no step waits for another process.
Nothing is assumed of Ctrl-C, kills, deletions and failures, and
`LaunchPlan`, `SetupStore` and `Capture` have no fairness.

**What the properties exclude, and why.** `SparesStrangers` lets a signal go astray before the
loop knows of the exit, and once more when the graceful time runs out in the same turn as the
exit: `stop` does not ask `is_running` again before SIGKILL. `StopIsFinal` promises no end of
children unless the signal was aimed at the group while its leader ran, and all of it obeys: when
the leader obeys SIGTERM and a child does not, `stop` returns and the child stays; so does a
child of another user, which even a forced stop leaves alone. `StopReturns` promises nothing while
the process itself is another user's and runs: `stop` has suppressed the `PermissionError` and
waits without a limit. `DiffIsExact` leaves out machines on
which two things have one id. `ReportIsHonest` gives a process the ports of another that had its pid
during the command, unless it was there all the time; asks of Git's fields only that each was so
at some time, not that all were so together; and lets a repository that Git could not be asked
about, or that went, count as clean. It also lets a tool that failed hide what it knows,
without an issue: docs/idea.md:40 says "Unsupported resources are reported, never silently
ignored", and an `update` while Docker is down drops its containers from the manifest. Each of
these is what the code does.

## 5. Theorems

All for every value of the constants, from the assumptions stated beside them
(resources are a finite set, graphs map resources to resources; `None` is no path,
content or row; carried ids are ids and ids are not project directories; a registry lists a type
once, a URI in an editor's storage opens a workspace of that editor or nothing, the same wherever
it stands, and what a machine shows at the start is finite).

**Scheduler.** The inductive invariant `IInv` is the type, the bookkeeping of the locals
(a task has ended exactly when it left a result; what left `remaining` has a result and
no live task; what is still in it has a task only if the current `gather` waits for it),
and the safety properties themselves. Bookkeeping is what makes them inductive: without
it a task could start of which the pass knows nothing. `NoStall` follows from
`StallMeansCycle`: what remains at a stall is a set in which each waits for another.
`SchedulerImplementsOrder` maps each action to a step of `LaunchOrder` or a stutter.

**LaunchEngine.** Every step of the engine is a step of `Scheduler` or leaves its variables
alone (`EngineImplementsScheduler`), so `IInv` carries over. `EngineInv` adds how the steps
of `run_resource` match the tasks, the processes the steps, the phase the
scheduler's `pc`, the rows the results, and the final status the aggregate. From it
follow all the safety properties of the `launch` run. What an adapter has returned (`result`) is
nothing before the first attempt and in each new one, and a pid in it is that of a process of this
attempt, which gives `RowsNameProcesses`. Each step of a resource is a step of its `ResourceRun`, or
the start of a process, which that does not see; every other step leaves it alone
(`EngineImplementsRuns`).

**SetupStore.** `StoreInv` adds to the type: the shape of a command at each of its steps
(what it has read, and that its path is its id or a project's); that rows point to
their own managed file or to a project's; and ownership: an id of uuid4 belongs
to the one command that drew it, until it has a row, and nobody else can remove its
file, and once its row is deleted the id has none again. That is why `RowHasFile` holds
of those ids through every overlap, failure and kill, and why it cannot hold of ids
that manifests carry (`store_rollback`).

`SyncInv` is what the agreement of file and row needs. Commands that meet are excused at their
paths, whichever came first (`MeetingsExcused`), so a writer at a path without an excuse has its
setup to itself, and what it has checked, read or written is still so when it uses it
(`WritersKnow`): a creator's path is unregistered and, at the write, empty; a changer's row is the
record it read and its old content that row's; from the write to the end the file is what it
wrote. A row moves to another path only by a delete and a new registration, which meet
(`RowsStayPut`). Then a path at which nobody is between its first write and its last has file and row in
agreement (`SettledAgree`), and a launch that met nobody has read one revision (`ReadersKnow`).
That gives `FilesAndRowsAgree` and `LaunchesAreExact`.

**LaunchPlan.** `GraphInv` follows the graph builder. `OnPath`: the path is a chain of
dependencies without repetition, and the gray nodes are those on it. `BlackIsAcyclic`: the
dependencies of a black node are black, and every nonempty set of black nodes has a member
that depends on no member of it. `Kahn`: a degree counts the dependencies not yet in the
order, and `ready` holds exactly those that may come next. From it: no cyclic graph gets through
and the error names a real cycle (`CyclesAreFound`), the order is
topological, complete and smallest-first (`OrderIsRight`). Every step of the
planner is a step of the builder or leaves it alone (`PlanImplementsGraph`), so all this
holds of plans, and `PlansAreSound` and `PlansAreAcyclic` add that a plan is what was asked
for and acyclic, which is the premise under which `NeverStalls` excludes the scheduler's
stall.

**Migrations.** What each process knows (`LoopIsInOrder`): the versions it has read stay in the
history, and so does everything before the migration its loop is at, because the loop
passes one only when it was read or when the process has committed it itself. The
primary key makes a commit that of a new version, and with both each safety property is
kept by every step.

**RetryReadiness.** What each step of an attempt knows of its timers: while it runs, its timeout
is `due` and no later than its share of the budget, which is what earlier attempts and delays at
their maximum may have used; a sleep ends within the budget of the next attempt; time stops at
whatever is due, so it cannot pass them. That gives `AttemptsEndInTime`. A probe awaited belongs to
the attempt and began after its launch returned, which gives `OutcomesAreEarned`. Without the clock,
each step is one of `ResourceRun` (`RunIsImplemented`).

**ProcessSupervisor.** The exit code is known only of a reaped process, a stranger exists only
when the leader is reaped and no child is left, and a call remembers what it aimed at: a group that
was ours when `getpgid` returned is ours until `killpg` or empty, and children are started by a
running leader only, so a signal that the group obeys and may be sent (`Obeyed`), aimed while the
leader ran, leaves nobody (`StopsAreFinal`).

**Capture.** `InspectInv` says what the running adapter has learned from the queries behind it
(`Knows`): Docker's list holds every container that was there all the time; the ports are those
of a process that had the pid, the fields of a repository were so when they were asked for, and
both are those of the machine if it held still; an editor still has a place to look at for every
workspace of its own that it has not found. A finding was there, is reported by the rules of its
adapter and says what was so (`FoundTrue`; that a process which was there all the time has no
other's ports is that nothing which was seen excludes it, `WatchInv`); what was there all the time is found when its adapter is
done, unless a rule hides it or its tool failed (`NothingMissed`); an issue has a fault behind it
(`IssuesTrue`); on a machine that held still every finding is what a perfect look would give
(`Exact`). `InspectionsAreHonest` and `StoredIsThere` follow from it. `DiffsAreExact` needs one
thing more, over several commands: the manifest describes exactly the looks it was made of,
with an id each (`OriginInv`), so that comparing manifests by id compares the two looks. If looks have an id each, items of one id say
the same, so it does not matter which of them the dictionary keeps (`OneOfEach`).

Only model-checked: liveness (`Terminates`, `LaunchEnds`, `StartEnds`, `Ends`, `StopReturns`), which
is out of the proof system's reach, as is ENABLED. Four refinements are proved and not run:
`EngineImplementsScheduler`, `PlanImplementsGraph`, `RunIsImplemented` and `EngineImplementsRuns`.
A run of the first three would ask again what the proofs answer, at a larger cost; the last is an
instance for each resource under a quantifier, which TLC does not take as a property.

## 6. Disagreements of code and documents

Four are runs: `launch_blocked`, `launch_pids`, `store_rollback`, `capture_traceback`. Others were met
while modelling; each follows from a line of the code, and no run is spent on it:

* `gather` holds a ready dependent back until its whole wave has ended (`scheduler.py:60`), where
  docs/architecture.md:109 says "Schedule ready nodes with bounded concurrency."
* `edit_setup` compares the edited identity with the manifest it loaded before the editor ran, so a
  rename in between is reverted (`setup_service.py:243`; docs/decisions.md:107).
* `show_setup` reads the row and then the file: a launch may record the hash of one revision and run
  another (`cli/app.py:481`; docs/database.md:60). `LaunchIsExact` says that nothing else does.
* `ready_when` is not interpolated (`launch_plan.py:92`), while docs/idea.md:121 shows a reference in one.
* An update replaces all resources by what was captured, and with them the dependencies, probes and
  retries that an edit has added (`setup_service.py:511`); it also takes no filter, so it brings back
  the types a save was told to leave out (`cli/app.py:450`).

## 7. Not modelled

Timestamps, error codes and texts, exit codes, rendering and JSON output; directories
(`paths.py`); the queries `list` and `show`, and `export`, whose destination is the user's own; temporary
files; the trust repository, whose writes have no caller; parsing and validation of YAML (what it admits
is the input here); the parsing, redaction and warnings of adapters, which are data that no property
looks at; capture on other platforms, where every adapter reports itself unsupported; the bytes of browser
messages; the interpreter's recursion limit, which `visit` of `domain/graph.py` meets with a chain of about
a thousand resources.
