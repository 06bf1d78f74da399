# Verification of StepUp Core

TLA+ modules, TLC configurations and TLAPS proofs for the director of StepUp Core.
Paths below are relative to `src/stepup/core/` unless they start with `src/`.

- [The system](#the-system)
- [Modules and how they correspond to the code](#modules-and-how-they-correspond-to-the-code)
- [Runs](#runs)
- [Proofs](#proofs)
- [What does not hold](#what-does-not-hold)
- [Not modelled](#not-modelled)
- [Plan](#plan)

`PROJECT.json` lists the components, the runs, the mutants that each property must catch,
the source lines of every definition, the hazards and the main theorems.

## The system

One **director** process owns an SQLite database, `.stepup/graph.db`. It is a single asyncio event loop:
code between two `await`s is not interleaved, and a transaction (`async with db:`) is atomic and
isolated from other transactions, but a job consists of several transactions with file hashing
and subprocesses in between, and jobs of different steps overlap. Commands of steps talk back
to the director over RPC. A user edits files at any time, and the director may die at any time.

| Component | Sources | State | Operations | Talks to | Module |
| --- | --- | --- | --- | --- | --- |
| Graph | `trellis.py`, `file.py`, `static_tree.py` | tables `node` (creator, `detached`), `dependency` | create, try_recycle, detach, reattach, add_source, del_sources, delete_detached | calls back into nodes (`after_recycle`, `after_lost_product`) | `Trellis` |
| Step rows | `step.py`, `stepinfo.py` | state, deferred, defer count, need, `_safe`, `_ready`, `_after` columns and their `_check_` flags, `step_hash`, `_holding` | reset_for_rerun, mark_completed, amend helpers, hold, release, triggers | graph; read by the scheduler | `SafeMeta`, `NeedMeta`, `Build` |
| Workflow | `workflow.py` | file states and hashes, static trees, globs | define_step, amend_step, declare and supply files, register trees and globs, update_file_hashes, mark_step_pending, initialize_boot, delete_detached | steps, graph | `Claims`, `Build`, `NeedMeta` |
| Scheduler | `scheduler.py` | temporary tables, draining, start and stop times of runs | pop_next_job, metadata updates, record_run_started, record_run_stopped, ran_concurrently | reads step columns, hands jobs to the builder | `SafeMeta`, `NeedMeta`, `Build` |
| Executor, jobs | `executor.py`, `job.py`, `outcome.py` | one task per job | try_skip_job, validate_dynamic_job, execute_job, hash jobs, interrupt | workflow, hash thread, subprocess | `Build`, `JobLoop`, `Phases` |
| Hashing | `hash.py`, `hash_queue.py` | queue of hash jobs, claims, promoted jobs | submit, claim, promote, shutdown, gather_hashes | builder runs them, results to the workflow | `JobLoop` |
| Builder | `builder.py` | running and done tasks, wake-up event | job_loop, handle_done_tasks, stop, finalize | scheduler, executor, hash queue | `JobLoop`, `Phases` |
| Startup | `startup.py` | none | reset_interrupted_steps, rescan files and globs | workflow, hash queue | `Build`, `Claims` |
| Watcher | `watcher.py` | updated and deleted paths, phase events | record_change, run_once | inotify, workflow, director | `Phases`, `Claims` |
| Director | `director.py` | phases, RPC handler | build_loop, watch_first_loop, start_build_phase, amend_step, drain, shutdown, interrupt, ... | all of the above | `Phases`, `JobLoop` |
| RPC | `rpc.py`, `asyncio.py` | pending calls per connection, tasks of the server | call, reply, cancel, time out, close, stop | director and clients | `Rpc`, `RpcCalls` |
| Database wrapper | `sqlite3.py` | one connection, a lock, the schema | transactions, autocommit contexts, apply_schema, wipe | everything | `Session` |
| End of build | `finalize.py`, `pending.py`, `clean.py` | none | revert optional steps, remove outdated files, explain what is pending | workflow | `NeedMeta`, `Claims` |
| Globs | `nglob.py` | the matches of registered patterns | extend, reduce, will_change | workflow, watcher | `Claims` |
| Child processes | `run.py`, `call.py`, `cgroups.py`, `usage.py` | running commands | launch, interrupt, kill | executor | `JobLoop`, `Phases` |
| API | `api.py`, `script.py`, ... | none | static, glob, step, amend, ... | director, over RPC | `Claims` |

The rest (configuration, TUI, reports, tests) keeps no state that the director's correctness depends on;
see *Not modelled*.

### What is hard

1. **Incremental bookkeeping.** `detached`, `_safe`, `_ready`, `_implied_need`, `_tail_time` and the step hashes are
   stored, not computed. Every operation must leave the right flags, in any order of creating,
   detaching, recycling and taking over nodes.
2. **Overlapping jobs.** A job reads hashes, awaits, hashes files, awaits and writes its result,
   while other jobs report changes of the same files and `mark_step_pending` ignores steps that
   have a job.
3. **Amended inputs.** A command finds out about inputs when it may have read them already. A step
   whose amended inputs are missing is deferred and must be woken up; a step that waits for hash
   jobs occupies a job slot that these jobs may need.
4. **Claims that come and go.** A path may be declared static, covered by a tree, matched by a pattern,
   built by a step or used before any of these, and plans that run again redo their claims in
   another order than before.
5. **Phases.** Two loops, remote calls and signals set and clear the same few events, and
   changes of files arrive in every phase.
6. **Messages.** Calls, responses, cancellations and closed connections interleave on one stream, from
   both ends.
7. **Crashes.** Everything in the database survives; jobs, holds and draining do not. A start may
   be cut short between two statements of the schema.
8. **Termination.** A rejected, deferred or validated step becomes PENDING again and must not
   be handed out for ever; nobody may wait for an event that is set no more.

### What makes each part correct

- Graph: the detached flag agrees with the creator chain and is reachable from the root; the
  dependencies stay acyclic; a stored hash vouches for products that still exist; clean-up removes
  what nothing needs, and nothing else.
- Step metadata and scheduler: no step is handed out against its creator chain; a hold ends with the command that
  opened it; stored needs cover those of the consumers; stored readiness is the truth.
- Workflow, executor, builder: outputs of a SUCCEEDED step are made from its present inputs; BUILT
  files belong to SUCCEEDED steps; nobody rebuilds an input under a running step; a step left PENDING
  has a root cause; a build ends; a clean build is complete.
- Declarations: a tree owns what is under it, an output has one maker, a static file has the hash
  of what is on disk, and a pattern has the matches that there are.
- Job loop and hash queue: one thread hashes a path; the loop never sleeps on work; steps that wait in every
  slot still end.
- Watcher and director: no change is lost between phases; phases exclude one another and
  alternate; Ctrl-C and shutdown end.
- RPC: a call runs at most once, an answer comes from a call that ended and reaches its caller, and nobody
  waits for ever.
- Database: transactions are whole and isolated, and the director only works on a complete schema of its own.

## Modules and how they correspond to the code

`MCX` extends `X` and gives its constants their values; `XProofs` holds its theorems, `DatabaseProofs` those of `Trellis` and `Session`.

### `Trellis` — the graph

`node`, `creator`, `detached` and `dependency` are the two tables. `hashed` holds the steps with a row
in `step_hash`, which `Node.after_lost_product` deletes. `recorded` and `redeclared` are history
variables: the products of a step when its hash was stored, and whether the step was declared
anew since. They occur in no guard.

The layer is that of the graph methods: an action is one call of such a method or the group of calls
that its one caller makes with it, and any order of actions is allowed. A `Workflow` transaction is a
sequence of these actions, so what holds here also holds inside transactions. Callers restrict the
order further; `MayCreate` keeps the restriction on kinds of creators, and `RegisterTree` the one that
a step with a hash does not run. Recursive SQL queries are least closed sets (`AllProducts`,
`SourcesAcyclic`) and the clean-up loop is a largest fixed point (`Survivors`), which keeps
the module free of recursion.

### `SafeMeta` — may a step be queued?

Columns `state`, `_holding`, `_safe`, `_safe_ignoring_hold` and `_check_safe`, with the triggers on them.
`Parent` fixes which plan declares which step, since the question is about chains of creators.
`UpdateMetaSafe` is the statement FILL_SAFE_UPDATE: seeds of the flagged steps from the stored columns of their
creators, propagation to the products, MIN over all ways a product is reached. Jobs are cut
down to the transactions that write the columns (`Pop`, `Begin`, `NoSkip`, `StillValid`, `Succeed`,
`Fail`, `Defer`); `begun` and `blocks` stand for the running command and the `hold()` blocks it is in.
A step may at any time be unready for other reasons, so `Pop` may always pass over it.

### `NeedMeta` — is a step needed, and is it ready?

The record `db` has the columns `_implied_need` (`impl`), `_tail_time` (`tail`), `_check_after`, `_ready`, `_check_ready`, need,
states, initial (`inp`) and amended (`dyn`) inputs, and the states of outputs. Each step has one output, named after it.
`Commit(d, e)` ends every transaction from d to e: it is what the triggers add, computed from what the two differ in.
`Iterate` is one round of `_update_meta_after`, which goes from consumers to makers until no value changes, and
`UpdateMetaReady` the query RECOMPUTE_READY. One plan declares all steps, and it may declare a step with another need and
other inputs each time it runs (`BeginPlan` detaches, `Define` and `Recycle` bring back, `EndPlan` completes or fails).
`Pop` selects by need, readiness, resources and priority; `EndBuild` is `Builder.finalize` with the reverting of
optional steps, the removal of what is detached, and the new durations; `mode` is then *clean* or *unclean*, as `report_unbuilt` found
the build, and *watch* once the user has lost an output (`Lose`). `NextBuild`, which like the code puts the attached
FAILED steps back to PENDING (`director.py:1125`), and `Restart` (perhaps with other targets) are the user, too.

### `Claims` — who declares which path

`db` has the creators, the file rows and hashes, the step states, the edges (`inp`, `dyn`, `out`, `dynOut`) and the registered
patterns `reg`. The column `detached` is replaced by what it stands for, `Attached`; `Trellis` is about the column.
Operators go from a database to a database and set `ok` to FALSE where the code raises; an action commits
only what is `ok`. A running command makes any of the calls it may make, in any order and as often as it likes
(`DeclareStatics`, `DeclareGlob`, `Define`, `Amend`, `Answer`), because a script that is edited makes others when it
runs again. A call submits files to hash (`checks`), which `HashDone` applies at any later time; `Amend` waits for those it
asked about. `changes` are the paths that the watcher holds, `queue` the files that clean-up may delete:
`EndBuild` commits `delete_detached`, and `RemoveFile` deletes one file at a time in phase `remove`. The user edits between builds.
The end of a watch phase is as in `Watcher.run_once`: `EndWatch` puts the FAILED steps back to PENDING and compares the changed files with
their hashes, `Update` applies the job of one changed file in a transaction of its own (phase `update`, jobs in any order, a stop or a crash
between any two), and `StartBuild` lets the patterns follow. `Stop` and `Restart` are a crash or stop and the next start, and `Clean` the command
`stepup clean`. `raised` says that `update_file_hashes` was given a combination that it has no transition for. `unnoticed` is a history variable, in no
guard: the files that `EndWatch` found to be back unchanged, until they change again or a director starts.

`Ready` is STEP_DISPATCH_WHERE with `Blocked` for UNAVAILABLE_INPUT_WHERE: the initial inputs must be there, while an amended input that nobody is
going to make lets the step start. What then happens to a step with a stored hash is cut down to two outcomes, `Skip` and `NoSkip`: a step that
`validate_dynamic_job` puts back is one that does not start, and the defer count, which only `Build` and `NeedMeta` have, is a choice between
the two ends of `EndFailure`.

### `Build` — jobs, hashes and phases

`db` is a record with the persistent columns: step states, the deferred flag, the defer count,
amended inputs, step hashes, file states and file hashes. A transaction is an operator from such
a record to another one (`UpdateHashes`, `MarkPending`, `MarkSucceeded`, `MarkUnsuccessful`,
`ResetForRerun`, ...). `disk` is the file system. `job[s].at` is the place of a job between two awaits:

```
Pop -> verify -> reject -> giveup -> (none, draining is due)
            \--> noskip | valid | outs -> (none)            a CHECKING step
             \-> reset -> run -> collect -> hash -> settle -> (none)   a RUNNING step
```

`Verify` is the comparison of inputs on disk with recorded hashes, `Collect` the transaction in which
`_compute_full_step_hash` reads the rows, `HashFiles` the thread that hashes, `Settle` the last
transaction. `Read`, `Amend`, `Write` and `Stumble` are the command. `overlap[s]` abstracts the
start and stop times of `Scheduler.ran_concurrently` to what is asked of them. `Edit` is the user
and the watcher's `record_change`. `EndWatch` is the end of a watch phase, with changes or without, which puts attached FAILED steps
back to PENDING (`director.py:1125`); `Rescan` then applies the changes, as it does at startup (one transaction per file, in any
order). `Restart` is a crash or stop followed by `reset_interrupted_steps`.

A hash is identified with the content it was computed from. The content that a command writes is a
function of the step and of the content it read, which is what makes "made from the present inputs"
expressible. The steps, their initial inputs and outputs are constants: declarations are the subject of `Trellis` and
`Claims`, and steps in this module are attached and allowed by their creators, which is `SafeMeta`'s.

### `JobLoop` — one build phase, task by task

An action ends where the code awaits. `loop` is the place of `Builder.job_loop`: `poll` (handle done tasks, start hash jobs
with priority), `pop` (the scheduler's `pop_next_job`, a transaction, so it awaits), `parked` (waiting for `wake_job_loop`), and its
three ends. `at[s]` is the place of the task of a step; a command declares static files, defines steps and amends
itself in any order. `job` is the sequence of hash jobs: queued, in a thread (`hashing`), waiting to write the
result (`apply`), with the future that is resolved after the write; `queue` is a set of their numbers, which are in the order of submission. `Amend` is `DirectorHandler.amend_step` up to
its first await, `Promote` claims the jobs that the step waits for and runs them beside the job slots, and `AmendReturns` reads the file
states again. A thread may fail (`HashFails`) and the task of a step may raise, which ends in `Stop`.

### `Phases` — the loops of the director

`build`, `watch` and `first` are the places of `build_loop`, `Watcher.loop` and `watch_first_loop`; `ev` holds the
events `resume`, `stop`, `start`, `busy`, `done` and `end` of builder, watcher and handler. `mode` is one of no
watcher, `--watch` and `--watch-first`. Clients call `start_build_phase`, `wait_for_idle`, `wait_for_update`, `drain` and
`shutdown`; `intr` is the task that a first Ctrl-C starts, and a second Ctrl-C kills. A step goes through
`starting` (before its run has a worker, which is what `Executor.interrupt` reaches) to `running`. The content of a file is a
version number: `queue` and `changed` are what the watcher was told and what it recorded.

### `RpcCalls` and `Rpc` — remote calls

`RpcCalls` is the promise: a call runs at most once, only a call that ran to its end is answered, a caller gets one outcome,
and what breaks takes open calls and running handlers along. `Rpc` is the code on both sides of one connection:
the asynchronous client (a shared connection attempt, `_pending`, the receive loop, closing) or the
blocking one (`_broken` after a timeout), the two streams, and the server (receive loop, one task per call, send
loop, `stop`). Both ends wait in `drain()` and `wait_closed()` while more than `Buffer` messages are unread by the other (`Flushed` for the
server's side). Either process may die at any moment. Its refinement of the promise maps the place of a
caller to `outcome` and the state of the server's task for its call id to `effect`.

### `Session` — the database

`file` is what is committed, `tx` the open transaction, `held` and `opened` are the fields of `DBSession._held`, `queue` the tasks
that wait for the lock. A transaction adds one to every row, one statement at a time, so that a transaction that is torn,
lost or shared shows in the rows. A start goes through `apply_schema` statement by statement, in autocommit mode, with a
crash possible between any two, and through the transaction of `Trellis.initialize`.

### How they fit

The modules share columns. `Trellis` says which rows exist and what a hash vouches for, `Claims` which declarations lead to these
rows, `SafeMeta` when the creator chain allows a dispatch, `NeedMeta` when needs and inputs ask for and permit it, and
`Build` what a job does after it. `JobLoop` shows the tasks in which the transactions of these modules run, `Phases` the loops
around it, `Rpc` how the calls arrive, and `Session` that a transaction may be taken as atomic.
Operations that touch several of them occur in each module with the part that it
has: `Step.mark_completed` is `MarkFailed`/`MarkSucceeded` in `Trellis`, `Succeed`/`Fail`/`Defer` in
`SafeMeta` and `NeedMeta`, `MarkSucceeded`/`MarkUnsuccessful` in `Build` and `EndSuccess`/`EndFailure` in `Claims`. `reset_for_rerun`,
`try_recycle`/`create`, `mark_step_pending` and `reset_interrupted_steps` are split the same way, and
`DirectorHandler.amend_step` is its waiting in `JobLoop`, its inputs in `Build` and `NeedMeta`, and its claims in `Claims`.
Only `MCX` and `XProofs` modules extend others, and `Rpc` instantiates `RpcCalls`: a product of two of these
modules would have too many states to be checked.

## Runs

| Run | Instance | States | Shows |
| --- | --- | --- | --- |
| `trellis` | 2 steps, 1 file, 1 tree, with symmetry | 35,201 | `Consistent` (flags, reachability, who may lose products), `DependencyAcyclic`, `RecordComplete`, `DeletesExactly` |
| `safe_meta` | chain of 3 creators, 2 nested holds | 73,838 | `SafeIsSound`, `HoldOwned`, `DispatchIsSafe` |
| `need` | make → mid → use, each optional or not, changing inputs and targets, 1 unit of a resource | 614,166 | `NeedCovers`, `ReadyAgrees`, `PendingExplained`, `CleanIsComplete` |
| `claims` | plan, sub-plan and step, 3 files, 1 tree, 1 pattern | 635,147 | `OneOwner`, `StaticsCurrent`, `GlobsCurrent`, `SucceededBuilt` |
| `build_chain` | p → a → c → b → d, d amends b; the static file edited or restarts, 4 times | 8,740 | `UpToDate`, `InputsStay` |
| `build_edits` | 3 steps, two static files, one shared; edits during the build | 326,093 | `PendingHasCause`, `BuiltBySucceeded`, `DeferredIsBlocked` |
| `build_ends` | p and c at the same time, c amends p's output; any file edited; with fairness | 730 | `BuildEnds` |
| `job_loop` | a plan and 3 steps on 2 slots, 2 declared files and 2 of a tree | 141,572 | `HashedOnce`, `NoLostWake`, `AmendSeesState`, `PhaseEnds` |
| `phases` | all three modes, 2 clients, 2 steps, 1 file | 220,562 | `Exclusive`, `EditsKept`, `PhasesAlternate`, `StopEnds` |
| `rpc` | 2 callers, either kind of client | 177,257 | `NoneLost`, `InStep`, `Implements`, `AllEnds` |
| `session` | 3 tasks, 2 rows, 2 tables, 3 starts | 15,297 | `Isolated`, `UpIsComplete`, `ForeignUntouched`, `WaitersServed` |
| `claims_raise` | as `claims` | | a counterexample, see *What does not hold* |

Where a run has no `TypeOK`, the type invariant is part of the property that is named first.

**Bounds.**

- `trellis`: two steps already allow creators in a cycle, take-overs and recycling of one by the other. The theorems show
  the safety properties of all passing runs for every size.
- `safe_meta`: three creators are the shortest chain in which a flagged step, its flagged product and a product of that one
  differ, which is what the MIN in FILL_SAFE_UPDATE is about. `MaxHold` = 2 distinguishes inner and outer `hold()`.
- `need`: three steps in a row let a need pass through a step whose own need is lower. `make` and `mid` are optional, `use` may be
  optional and may declare or amend the output of `mid`, or neither. One unit of the resource makes `mid` and `use` exclude
  each other, `DeferCap` = 1 is exceeded, one further build phase (`MaxEvents`) is enough to change the declarations, the targets
  and the needs of what was built, and one output is lost in each watch phase. All runs take longer than estimated (`Durations`),
  so tail times change.
- `claims`: the plan may declare the tree, with or without the pattern, call `glob()` and define a sub-plan and a
  step; the sub-plan may declare a file in the tree and a volatile output of the other step's path, the step may amend itself with a
  file of the tree. So two of the claims compete for each file. The user edits and removes two of the three files, and
  three events allow an edit, a build and another edit or restart. A file that returns unnoticed (item 16) takes seven events: the theorem
  `GlobsCurrentAlways`, which is for any number of them, covers that case, and the run the shorter histories.
- `Build`: `NJob` = 2 lets any two jobs overlap, three steps let a change pass through a step in the middle, `DeferCap` = 2 is
  exceeded in `build_edits`, and `MaxEvents` bounds edits and restarts (4, 2 and 1), which are the only things that go on for ever.
  `WatchEdits` and `BuildEdits` select the files the user touches.
- `job_loop`: two slots, and two steps that may block both while they wait for a file they share and others of their own;
  one file is gone, one may be unreadable, one step may raise. The third step starts only when a file of the tree is confirmed.
- `phases`: one step that ends by itself and one that does not; one edit, two shutdown calls (the second kills) and two signals.
- `rpc`: two callers share the counter, the pending entries and the stream; the result of the second cannot be pickled,
  and as a blocking caller it has no timeout. `Buffer` = 0 makes `drain()` wait on either side for every message.
- `session`: one task holds, one waits, one comes in between; two rows tear a transaction; three crashes or stops
  cut a wipe, the start after it, and the one after that.

Steps and files of `Trellis` are interchangeable, hence the symmetry. The topologies of the other modules are not
symmetric, or liveness is checked, which symmetry would make unsound.

**Which edits.** `UpToDate` and `InputsStay` do not hold for every edit (see below). `build_chain` therefore says under
which edits they do: when the user edits source files between builds. That is also the hypothesis of their theorems. Edits during the
build are in `build_edits`.

**Fairness.** Users, clients and crashes are never fair. What is:

- `build_ends`: `WF_vars(Progress)`, the event loop goes on while a job, the job loop or draining can do something.
- `job_loop`: `WF_vars(Next)`, since all its actions are those of the event loop, commands and hash threads.
- `phases`: weak fairness of each loop, of each step that is not stubborn, of the resumption, of every remote call that
  has begun, and of the task that ends the process. They are separate tasks, so fairness of their union
  would let one starve.
- `rpc`: `WF_vars(Progress)`, the event loops, the handlers and the socket go on. That the peer goes on reading is not assumed: a blocking
  call may have been timed out, or a receive loop may have failed, hence the exception `Deaf` in `StopsEnd`.
- `session`: `WF_vars(Serve)` and `WF_vars(Proceed)`, the lock wakes its first waiter and the body of a context ends.

asyncio runs every ready task, its locks are first in, first out, hash threads end, and commands are assumed to end, except the
stubborn one of `phases`, for which `StopEnds` makes the exception explicit. Strong fairness is not needed: none of these
actions is switched off again and again by others for ever.

**Deadlock.** `trellis` and `safe_meta` are checked for it. The others really stop: the director ends or an exception takes it
down, a build phase is over, each caller makes one call, or the bound on events is reached. Their configurations switch the
check off; the liveness properties, `NoLostWake` and `PendingExplained` say what a stop on the way would violate.

**Mutants.** Definitions marked *Mutant* are the code with one plausible bug: a missing trigger, a dropped
guard, an update that is not propagated, a flag that is not set. Each property has one that it catches in its own run.

## Proofs

### `DatabaseProofs`

It is about the two layers of the database, `Trellis` and `Session`, which it extends; `Session` has its own names for what both
have (`SessionSpec`, `SessionTypeOK`, ...).

For all sets of steps, files and trees, every property of `Trellis`:

| Theorem | Property |
| --- | --- |
| `TypeCorrect` | `[]TypeOK` |
| `FlagsAgree` | `[]DetachedAgrees` |
| `CreatorsExist` | `[]CreatorExists` |
| `OnlyRecordersLose` | `[]LostByRecorder` |
| `AttachedAreReached` | `[]AttachedReachable` |
| `ConsistentAlways` | `[]Consistent`, the conjunction of three of these |
| `DependenciesAcyclic` | `[]DependencyAcyclic` |
| `RecordsComplete` | `[]RecordComplete` |
| `DeletionIsComplete`, `DeletionIsSafe` | `DeletesToFixedPoint`, `NeverDeletesNeeded` |
| `DeletionIsExact` | `DeletesExactly`, both of them |

Assumptions: `KindsDisjoint` (a label of one kind is not one of another) and `RootIsNoNode`. Finiteness is
not needed.

The argument. `TypeOK` is not inductive: that `detached` stays within the table depends on
creators having rows, since the flag is propagated along creators. `RowInv == TypeOK /\ CreatorKinds` is
inductive, with `CreatorKinds` saying that only rows have creators and which kinds these are. On
top of `RowInv`:

- `DetachedAgrees` is inductive, because `DetachAll` and recycling write whole subtrees, and the subtree of a
  node is closed and contains only nodes whose creator is in it (`ProductsClosed`, `ProductsInside`).
- `AttachedReachable` uses `DetachedAgrees`: what is re-attached hangs below an attached creator, and a
  detached node has no attached product that could lose its path.
- `DependencyAcyclic`: a batch of edges S × {n} is acyclic when none of S is reached from n in the old
  graph; a cycle through the new edges would contain n and one of S (`BatchStaysAcyclic`).
- The survivors of the clean-up are the largest set in which every detached node is held
  (`SurvivorsAreHeld`, `HeldSurvives`), from which both deletion theorems follow.

Each invariant has a step lemma with one case per action; the temporal theorem combines it
with the initial state by PTL.

The properties of `Session`, for any tasks, rows, tables and bounds:

| Theorem | Property |
| --- | --- |
| `IsolatedAlways` | `[]Isolated` |
| `UpIsCompleteAlways` | `[]UpIsComplete` |
| `ForeignIsUntouched` | `ForeignUntouched` |

Assumptions: `NodeTableType`, `NoneIsNoTask` and `BoundType`.

The argument. That committed rows count the contexts left without an exception says nothing about the open
transaction. `TxInv` adds what that one has done: its rows are ahead of the committed ones by one exactly where its
body has been, all other bodies are unstarted, and nobody holds the connection unless the director is up (`Counts`).
`SchemaInv` says what every file looks like that a start may find after any number of starts that were cut short: a file that
claims to be of this version has no older table, since the version is written after the wipe; one of another
application has all its tables; and each phase of the start has what the earlier ones made. The queue stays without
repetition because a task enters it only when it is not in it (`AppendInjectiveQueue`) and removing one
entry keeps the others apart (`RemoveInjective`).

### `SafeMetaProofs`

| Theorem | Property |
| --- | --- |
| `TypeCorrect` | `[]TypeOK` |
| `HoldsAreOwned` | `[]HoldOwned` |
| `ColumnsAreSound` | `[]SafeIsSound` |
| `DispatchesAreSafe` | `DispatchIsSafe` |

Assumptions: `ParentType`, `MaxHoldType` and `ParentAcyclic`: a plan is declared before the steps that it
declares. FILL_SAFE_UPDATE follows creator edges without a guard against cycles and relies on the same.

The argument. `TypeOK` and `HoldOwned` are proved together (`RowInv`): the bound on `holding` comes from the blocks
of the running command. `SafeIsSound` speaks of all creators of a step and is not inductive: a flag that is
cleared in the middle of a chain would say nothing about the part below it. `ChainInv` is: an unflagged step with
an unflagged parent is safe only if its parent is safe and lets its products be queued (`Local`). Every
transaction keeps it as long as it flags the steps that it links, stops or clears (`FlaggingSuffices`),
and the update makes it hold without exception (`UpdateIsRight`): if the parent was reached by the
recursion then every chain through the parent continues to the step, and MIN over the longer chains is at most
MIN over the shorter ones; if only the step was, it was seeded from the parent's column, which was right. Along a
chain without flags the local condition adds up to `SafeIsSound` (`LocalAddsUp`).

This is one direction only. A column does not always say *safe* when the chain permits it; see *What does not hold*.

### `PhasesProofs`

| Theorem | Property |
| --- | --- |
| `ExclusiveAlways` | `[]Exclusive` |
| `EditsKeptAlways` | `[]EditsKept` |

For any steps, files and clients, and any number of edits, shutdown calls and signals. Assumptions: `ModesAssumption` and
`BoundsAssumption`, the types of the constants.

The argument. `Exclusive` compares two loops that never look at each other; they are kept apart by events. `Handover` says
that there is one permission to start a phase, which is passed on: `build_loop` has it while it builds, the watcher from
`start_watching` to `done_watching`, then a caller that `start_build_phase` let through, then the event `resume`. Once the stop
event is set a second permission may appear, but `build_loop` ends instead of using it. `Kept` follows an edit of
a file through the watcher: queued, recorded in `changed`, or among the files still to be compared. It holds in every phase, since
an edit while a hash is computed puts the file into the queue again.

### `RpcProofs`

| Theorem | Property |
| --- | --- |
| `NoneLostAlways` | `[]NoneLost` |
| `InStepAlways` | `[]InStep` |
| `ImplementsPromise` | `Implements`: `Spec` implies `RpcCalls!Spec` under the refinement mapping |

For any callers and any size of the buffer. Assumptions: `ConnectionAssumption` and `CallersAssumption`, the types of the constants.

The argument. `IInv` has seven parts. `Types` has the shapes of the streams. `Numbered` relates the client's counter, the requests
on the stream and the number of the last request that the server took: while the server reads, what is on the stream continues
its numbering without a gap. `Identified` gives every call its own id, and `Honest` says that a reply, wherever it is, belongs to a
call that ran to its end. `Awaited` (an asynchronous call without an outcome has its entry and a receive loop) is `NoneLost`.
`Blocking` and `OneAtATime` are what keeps a blocking client in step: it has one call in transit at most, which is its last one,
and none while it is not marked broken. `InStep` alone is not inductive, since it only speaks of the response that is read.

For the refinement, `Outcome` gives the abstract outcome of a caller and `Effect` that of its call at the server. Each action of
the client, the server and the environment changes them as one action of the promise does or not at all, with one lemma per group of
actions; `Identified` is what makes the step of one caller leave the others alone.

### `BuildProofs`

| Theorem | Property |
| --- | --- |
| `TypeOKAlways` | `[]TypeOK` |
| `BuiltBySucceededAlways` | `[]BuiltBySucceeded` |
| `DeferredIsBlockedAlways` | `[]DeferredIsBlocked` |
| `PendingHasCauseAlways` | `[]PendingHasCause` |
| `UpToDateAlways` | `[]UpToDate`, if `SourceEdits` |
| `InputsStayAlways` | `[]InputsStay`, if `SourceEdits` |

For every workflow, number of slots and bound. Assumptions: `GraphType` (every file has a maker or is static, no step uses its own
output, initial and amended inputs are disjoint) and `UseType`. That the graph has no cycle is not needed.

The argument. `IInv` is `Good(db, {})`, about the database, and `Jobs`, `Modes`, `Changes` and `Present`, about what is in
flight. `Good(d, X)` has the types (`Tables`), the CHECK constraints (`Files`), `Agree` (an output is BUILT if and only if its step is
SUCCEEDED), `Known` (a hash is there in the states that need one, and never records the absence of an output) and `Blocked` (a
deferred step lacks an input that it amended). X is the step whose transaction is under way: inside
`mark_completed`, between the update of its outputs and that of its state, `Agree` does not hold for it.
None of the properties is inductive by itself. An output is declared BUILT at the end of a job because the step's hash has a
digest for it, so the invariant has to say what `Collect` and `HashFiles` found (`Jobs`); the rescan applies `_HASH_TRANSITIONS` to what
was recorded earlier, so what is recorded must still have a transition when it is applied (`Changes`); an output
that is gone is known to be, or is yet to be rescanned (`Present`). Each operator on databases has a lemma for `Good`, and each
action applies those it is composed of. `PendingHasCause` follows from `Agree`, `Blocked` and
`Modes`: after a build that was not drained nothing is eligible.

`UpToDate` and `InputsStay` are proved under the hypothesis `SourceEdits`: the user edits static files only, and only between
builds. This is how they are checked in `build_chain`, and without it neither holds: items 1, 2 and 5 below are counterexamples, each
with an edit of an output or one during the build. Restarts, failures, deferrals and amendments are not restricted. `TrueInv`, which is
inductive under the hypothesis (`TrueInvAlways`), adds to `IInv` what a hash says of the past. `OnRecord`: sources and BUILT outputs are on disk
as recorded, up to changes that are yet to be rescanned. `HashTrue`: a stored step hash, whichever state the step is in, tells what the command makes of
all its inputs. `HashCurrent`: that of a SUCCEEDED step is about the hashes that its files have now; it is suspended for the steps
that a transaction is about to mark (the second argument of `Truth`). `JobTrue` follows a job from one await to the next: its inputs stay
available with the hashes that it took from the rows, and what the command has read is on disk still. The one exception is an input that it had yet to amend while
its maker was made again (`Remade`): then `amend_step` finds it unavailable, or too new (`Scheduler.ran_concurrently`), and the job ends
without success.

### `JobLoopProofs`

| Theorem | Property |
| --- | --- |
| `HashedOnceAlways` | `[]HashedOnce` |
| `NoLostWakeAlways` | `[]NoLostWake` |
| `AmendSeesStateAlways` | `[]AmendSeesState` |

For any steps, any finite set of files and any number of slots. Assumptions: `PhaseAssumption`, `FilesAssumption` and
`RequestsAssumption`, the types of the constants (job numbers are not steps).

The argument. That one thread hashes a path follows from `OneInFlight` (the queue has one job without an outcome for a path) and
`ClaimedOnce` (a job that is hashed has one runner, the loop or a step), neither of which is about paths being hashed; both must
survive submission, claims by the loop, promotion by a step, and cancellation. `Slots` has the bound of one less while the
scheduler is asked for a step, since a slot is free then. `Awake` is what the loop has seen when it goes on to the scheduler or
to sleep: unless `wake_job_loop` is set since, no task is done and no job can be claimed. `Settled` says that a result was
written before its future was resolved, and `Awaited` what an amending step waits for.

### `NeedMetaProofs`

| Theorem | Property |
| --- | --- |
| `NeedCoversAlways` | `[]NeedCovers` |
| `ReadyAgreesAlways` | `[]ReadyAgrees` |
| `PendingExplainedAlways` | `[]PendingExplained` |
| `CleanIsCompleteAlways` | `[]CleanIsComplete` |

For any finite set of steps, resources, durations and targets. Assumptions: `DeclarationType`, `NumberType`, `StepsFinite` and
`DeclarationsAcyclic`: no set of steps in which each may use an output of another one in the set. The code rejects a declaration
that closes a cycle (`DependencyAcyclic` in `Trellis`); the assumption excludes it for all that a step may declare.

The argument has four parts.

- *Flags.* `Covers` is `NeedCovers` restricted to unflagged steps, and `Exact` is `ReadyExact` written for any database. Both are about the state before
  the flags are processed. A transaction from d to e may break them in places that the triggers see. `Keeps(d, e)` says that it breaks
  nothing else, and `Committed` that the flags which `Commit` adds then restore both. Every action has a lemma that
  its transaction is one of these.
- *Rounds.* `UpdateMetaAfter` iterates until nothing is left to do, a recursive function over rounds. What a round hands to the next one are
  steps with a consumer among those it went over. Without a cycle these are among fewer steps each time (`LeftShrinks`), so nothing is left after as
  many rounds as there are steps: this is where finiteness and acyclicity come in. Each round leaves a step that it has processed with a need that covers those of its consumers, until a
  consumer changes and hands the step to the next round (`FirstIteration`, `LaterIteration`). The induction over rounds and the one over the
  size of a set of steps use the least number that is a counterexample (`NatMin`, `Induct`).
- *Rows.* `Sound` has what the other parts take for granted of rows, edges, deferred and SUCCEEDED steps. That a step without a row has
  neither edges nor an output, and the reverse, needs `DeleteDetached` to keep what attached steps use.
- *End of a build.* With nothing in flight and no step eligible, exact readiness and covering needs explain each
  PENDING step (`NothingInUse`, `RootsExplain`, `LeftWaits`): it is blocked by a file with a cause or by another PENDING step, and acyclicity
  ends the chain. If none is PENDING or FAILED, all needed steps are SUCCEEDED with BUILT outputs, and neither the reverting of
  optional steps nor the removal of detached ones takes an output that is used (`CleanBuilt`, `EndIsComplete`).

The attempt to prove `CleanIsComplete` showed that the property judged the columns as they are after `build_completed`, which changes tail times
and with them flags, whereas the report is made before. `mode` now has the verdict of the end of the build, *clean* or *unclean*.

### `ClaimsProofs`

| Theorem | Property |
| --- | --- |
| `TypeCorrect` | `[]TypeOK` |
| `OneMakerAlways` | `[]OneMaker`, a part of `OneOwner` |
| `SucceededBuiltAlways` | `[]SucceededBuilt` |
| `OneOwnerAlways` | `[]OneOwner`, if `TreesOfPlan` |
| `StaticsCurrentAlways` | `[]StaticsCurrent`, if `TreesOfPlan` |
| `GlobsCurrentAlways` | `[]GlobsCurrent` |

For any steps, files, directories and patterns, any calls that the steps may make, and any number of events. Assumptions: the types of the
constants (`LayoutType`, `CallType`, `BoundType`, `PlanIsStep`), `KindsDiffer` (a step is no path), `FiniteKinds`, and `DirectoriesNest`: two
directories that share a file are one inside the other, which is what paths are like.

`TreesOfPlan` says that steps other than the root plan declare no static tree, as in the run. Without it neither property holds, and TLC
finds counterexamples of about ten steps: a sub-plan that is recycled brings its trees back without the checks of `register_static_tree`
(item 18 below), after others have claimed paths under them, and the files of its trees come back with the states and hashes that they had
(items 15 and 20). The other theorems do not need it.

The argument. `IInv` is `TypeOK`, `Sound(db)`, `checks = {}` outside the phases build and update, and `PlanCurrent`. `Sound` says of every file that
has a creator, attached or not, that it has a row and exactly the edges that go with it (`Claimed`); that it must speak of detached files too
is what makes it survive recycling, which attaches whole subtrees at once. `Recorded` says that `hash` agrees with the states CONFIRMED
and MISSING, and `TreesClaimed` that attached trees are apart. All of this holds for databases that are `ok`: an operator that raises may leave
anything behind, and nothing of it is committed. `PlanCurrent` is `StaticsCurrent` for the files of the plan and its trees, together with a pending
job for each that is UNCONFIRMED; in phase update, a changed file has its job or was found to be unchanged (`Unseen`).

An action composes many operators, so each operator has a lemma, in one of three forms. `Keeps(d, e)`: e is sound, and no static file of the plan
in e is new or changed. `Follows(d, e)`: the same, apart from files that are submitted for hashing, which is what declarations do. `Rehash(d, e, F)`:
the hashes of F are renewed, and what depends on them is outdated. The three are closed under composition (`KeepsTrans`, `FollowsTrans`,
`RehashTrans`), so the lemma of an action puts together those of its operators. Two constructions needed work of their own.
`FoldSet` runs through a set in an order given by CHOOSE: `FoldExists` shows that the function it computes exists, and `SubsetInduct` does the induction over
subsets. The chains in `Attached`, `MarkPending` and `Deleted`, functions on 0 .. n, exist by `IterationsExist`, and `Induct` goes along them.

`GlobsCurrent` has an invariant of its own next to `IInv`. `GInv` adds `FoundMatches` (a pattern has only files on record that match it), `SourcesFree` (no
step has a source as an output) and `SourcesQuiet` (the director holds no change of a source while it builds or is down, and clean-up only deletes files
whose rows are gone). The last two say why an edit is never lost with the changes that are dropped between phases: a step only writes its
outputs, and what clean-up deletes is attached no more, so that a change of it is relevant if a pattern of the plan matches it (`SourceRelevant`). Every operator on databases has one
more lemma: it `Tidies(d, e)`, giving no step a source and registering patterns with what they match now. `TidiedGlobs` is then enough for each action that leaves the disk alone and
forgets no change, `MemoryStep` for those that leave the database alone; `StartBuild` and `Restart`, which match patterns anew, have their own
argument (`RematchFound`).

### What the proofs leave to TLC

- Liveness (`BuildEnds`, `PhaseEnds`, `PhasesAlternate`, `StopEnds`, `AllEnds`, `WaitersServed`), which the prover cannot do.
- The least and largest sets in `Trellis` and `NeedMeta` (`Kept`, `Explained`, `Needed`) are defined without recursion; that SQLite's recursive queries and the
  clean-up loops compute them, an induction over the data, is not proved. Nor is it in `SafeMeta`.

## What does not hold

`claims_raise` ends in a counterexample to a comment. `workflow.py:226–228` says that the keys of `_HASH_TRANSITIONS` are the
combinations that can occur. A file that some step uses and nobody declares any more is UNDECLARED; when it matches an
attached pattern, `change_is_relevant` lets its creation in a watch phase through, and `Watcher.run_once` hands it to
`update_file_hashes`, which has no transition from UNDECLARED. The ConsistencyError takes the director down.

The following was seen while modelling. The passing runs exclude it by their instances, by an exception in the property, or by
leaving the step out, as noted; counterexamples were found by TLC for most of them with other configurations.

Jobs and hashes:

1. A step amends itself with a BUILT input whose maker is found outdated only later; it ends as SUCCEEDED with an output
   made from the old input (against `src/docs/advanced_topics/dynamic_dependencies.md:50`). Needs edits of files other than sources;
   `build_chain` edits the source.
2. A shared static file is edited while two commands use it; the first to finish reports the change, the second finds nothing
   to compare with and succeeds (`executor.py:416`). `UpToDate` is checked without edits during the build.
3. Two jobs find a shared file removed; the second report is a combination that `_HASH_TRANSITIONS` does not have
   (`workflow.py:183`, 226).
4. A validated step whose amended input is MISSING is eligible again at once (`executor.py:254–267`).
5. When an output in the middle of a chain is edited between builds, `handle_updated_file` marks only its
   maker, so the end of the chain may start on an input that is rebuilt while it runs; `InputsStay` is
   checked with edits of static files.
6. `Builder.stop` cancels the tasks of hash jobs without resolving their futures (`hash_queue.py:60` says they are always
   resolved or cancelled); an `amend_step` that waits for one waits for ever. It only happens while the director goes down.
7. When a step promotes a hash job, the files it confirms do not set `wake_job_loop`, although `builder.py:95–97` lists this as one of its
   uses; a step that the files make ready waits until the task of the promoting step ends, which sets it.

Metadata:

8. With two flagged steps on one chain the lower one is seeded from a stale column, MIN keeps it, and the step is not
   handed out although its creators allow it (`scheduler.py:101–103`).
9. `_implied_need` can stay too high when a consumer is detached or changes its inputs in certain orders, so that an optional step is
   executed that nobody needs (`step.py:247`, `enums.py:214`). `NeedCovers` is the other direction.
10. A detached RUNNING step that is declared again with other inputs gets a fresh PENDING row while its job is in flight
    (`scheduler.py:580`). `SafeMeta.Create`, `NeedMeta.Define` and `Claims.Define` leave it out.
11. A SUCCEEDED consumer that is recycled stays SUCCEEDED with an input that is detached (`trellis.py:979–981`); hence the restriction
    to attached inputs in `CleanIsComplete`.
12. `Trellis.create` over a detached step detaches its products while `Step.initialize_row` keeps its hash, so
    `RecordComplete` needs the exception for steps that were declared anew.
13. `Step.after_recycle` resets `_holding` although a detached step may still run inside `hold()`;
    `HoldOwned` therefore bounds the count by the open blocks instead of equating them.

Declarations:

14. A SUCCEEDED step whose hash was deleted because it lost a product, and that is recycled, stays SUCCEEDED and does not run again,
    although `step.py:805` says that it does.
15. A static file that a detached sub-plan declared, and that is edited while the sub-plan is detached, comes back
    CONFIRMED with the old hash (`workflow.py:1185–1188`). `StaticsCurrent` is stated for files of the root plan and of trees.
16. A file that is removed and created again with the same content is dropped from the watcher's `updated`, since it has its stored hash, before
    `process_nglob_changes` sees it (`watcher.py:217`). When it was removed while no director ran and its row is detached, which `rescan_files`
    passes over, the pattern has lost it at startup and does not get it back; the step that registered the pattern stays SUCCEEDED, although
    `api.py:275–277` says that it "becomes pending when the match set changes". It takes seven edits, phases, stops and starts to get there. `GlobsCurrent` makes exactly these files the
    exception (`unnoticed`), and is proved for histories of any length.
17. A file of the user that was CONFIRMED and is then declared as an output: when that step fails, the file is hashed as OUTDATED
    and clean-up may delete it, against `enums.py:110–111`.
18. Recycling skips the checks of claims, trees, patterns and volatile files that a new declaration passes.
19. Whether a declaration conflicts with a pattern depends on the order of the two calls, against `workflow.py:2345–2346`. When a pattern matches
    an output, it may lack it once it is detached, since changes of attached outputs are not recorded: `GlobsCurrent` is about sources.
20. A file that is UNCONFIRMED when the director dies, while its declarer is detached, stays so when the declarer is recycled.
21. A hash job that ends after its file became UNDECLARED or PLANNED raises ConsistencyError.
22. A crash between `delete_detached` and `remove_deletable_files` leaves files that no row knows of.
23. Only the patterns of attached steps follow the files (`workflow.py:2212`), and recycling does not match them anew (`step.py:845–877`). A sub-plan that
    ended as SUCCEEDED after its plan had failed, and that is recycled after files came or went, stays SUCCEEDED with the old matches, against
    `api.py:275–277` as well. `GlobsCurrent` is about the patterns of the root plan.

Phases, calls and the database:

24. `watch_first_loop` waits for `busy_watching` without looking at the stop event (`director.py:731`): a shutdown during the first build
    phase leaves it waiting. `StopEnds` makes the exception `first = "busy"`.
25. `Executor.interrupt` skips runs without a worker: a step between the hashing of its inputs and its launch escapes SIGINT, and with a second
    Ctrl-C even the kill.
26. Changes of outputs that the user makes while the watcher still drains the queue of the build phase are dropped as the build's own
    (`watcher.py:187`). `EditsKept` is about static files.
27. An error of a hash job in a watch phase sets draining, which `start_build_phase` resets.
28. A caller that is cancelled while it waits in `writer.drain()` removes its pending entry although the request is in the buffer;
    the response with an unknown id ends the receive loop, and with it the other calls.
29. Cancelling one caller while the client connects cancels the connection attempt that all callers share. Both stay within
    `RpcCalls`, whose `Break` allows them.
30. A crash of the first start between the schema and the transaction that creates the root node leaves a database that every later start
    takes for an existing one; `_check_consistency` then fails on the missing root (`trellis.py:645–686`) until `graph.db` is removed.
    `UpIsComplete` holds because that start fails.
31. A blocking client whose call was timed out, or an asynchronous one whose receive loop failed, reads no more. While its side stays open, the responses that the
    server still writes fill the socket, and `stop` waits in `drain()` and `wait_closed()` (`rpc.py:647`, 650 and 713), although `rpc.py:585–586`
    says of `stop` that the server "does not have to wait for a peer that keeps its side open". `StopsEnd` makes the exception `Deaf`.

## Not modelled

- Configuration, command line, paths, `cattrs`: parsing and path arithmetic without shared state.
- TUI, reporter, browser, tracebacks, wording of the pending analysis: presentation.
- Processes, pipes, cgroups and usage accounting: operating system calls. What counts for the director, that a command
  starts, ends, is interrupted or killed, is in `JobLoop` and `Phases`.
- Encoding of messages, and which handler a call names: `Rpc` is about who gets an answer.
- Glob matching over strings: a pattern is the set of files that it matches.
- In the modelled parts: environment variables, subprocess records and outcomes of steps, digests (a hash is the content, or who
  wrote it), inotify and the set of watched directories, suspension of the director, and a step that is declared anew while its
  job is in flight.
- SQLite itself: a transaction that `COMMIT` ends is taken as durable, also across a crash of the machine, and a full disk is left out.
- Several clients of one RPC server: connections share no state but the handler, whose order of calls `Phases` and `Claims` leave open.

## Plan

All components that the inventory names as modelled have their modules and their proofs. What remains:

1. A model of declarations by running plans together with job identities (item 10), which may compose `Claims` with the jobs of
   `JobLoop`.
2. Environment variables as inputs of steps, which take part in the step hash like files.
