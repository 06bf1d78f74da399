-------------------------------- MODULE NeedMeta --------------------------------
(***************************************************************************)
(* Which steps are needed, and which are ready: the columns _implied_need, *)
(* _tail_time, _check_after, _ready and _check_ready of the step table,    *)
(* and the dispatch and the end of a build phase that rely on them         *)
(* (core/scheduler.py, core/step.py, core/workflow.py, core/finalize.py,   *)
(* core/pending.py).                                                       *)
(*                                                                         *)
(* One plan declares all steps, differently each time it runs.  Each step  *)
(* has one output, named after the step, so Inputs are sets of steps.      *)
(* Static files are always there, and declarations that would close a      *)
(* cycle (CyclicError) are left out.  `db` holds the database; Commit adds *)
(* what the triggers write.                                                *)
(***************************************************************************)
EXTENDS Integers, FiniteSets, FiniteSetsExt

CONSTANTS Step,
          Needs,        \* Needs[s]: the need levels the plan may give to s
          Inps,         \* Inps[s]: the sets of inputs the plan may give to s
          Amends,       \* Amends[s]: the sets of inputs the command may amend
          Units,        \* Units[s]: units of the resource that s requires
          Available,    \* units of the resource that there are
          Durations,    \* durations that a run of a command may take
          DeferCap,     \* defer_cap
          TargetSets,   \* the targets that the user may build
          MaxEvents     \* bound on further build phases and restarts

\* Need, by its order.  The plan itself has the fourth level.
OPTIONAL == 1
DEFAULT == 2
TARGET == 3

ASSUME DeclarationType ==
  /\ Needs \in [Step -> SUBSET {OPTIONAL, DEFAULT}]
  /\ Inps \in [Step -> SUBSET SUBSET Step] /\ Amends \in [Step -> SUBSET SUBSET Step]
ASSUME StepsFinite == IsFiniteSet(Step)
ASSUME NumberType ==
  /\ Units \in [Step -> Nat] /\ {Available, DeferCap, MaxEvents} \subseteq Nat
  /\ Durations \subseteq Nat \ {0} /\ TargetSets \subseteq SUBSET Step
\* No set of steps in which each uses an output of another.
ASSUME DeclarationsAcyclic ==
  \A S \in SUBSET Step :
    (\A s \in S : \E I \in Inps[s] \cup Amends[s] : I \cap S # {}) => S = {}

VARIABLES
  db,       \* the database: see TypeOK
  run,      \* run[s]: what the job of s does, "none" without one
  plan,     \* the state of the plan, "STARTED" while RUNNING before its reset
  took,     \* took[s]: Scheduler.new_durations, 0 without a measurement
  mode,     \* "build", right after it "clean" or "unclean", as was reported, or "watch"
  targets,  \* the targets of this director
  events    \* the number of build phases after the first

vars == <<db, run, plan, took, mode, targets, events>>

Threshold == IF targets = {} THEN OPTIONAL ELSE DEFAULT

Inputs(d, s) == d.inp[s] \cup d.dyn[s]
Consumers(d, S) == {t \in Step : Inputs(d, t) \cap S # {}}
Busy(d) == {s \in Step : d.state[s] \in {"CHECKING", "RUNNING"}}
Completed(d) == {s \in Step : d.state[s] \in {"SUCCEEDED", "FAILED"}}
Built(d) == {f \in Step : d.out[f] = "BUILT"}

\* Mutant: without the trigger on detached nodes.
FlippedQuiet(d, e) == {f \in Step : d.out[f] # e.out[f]}

\* The files whose state or detached column differs, which triggers
\* step_file_check_ready and step_node_check_ready_detached notice.
Flipped(d, e) ==
  {f \in Step : d.out[f] # e.out[f] \/ (f \in d.attached) # (f \in e.attached)}

\* The transaction from d to e, with the triggers on dependencies, dynamic
\* dependencies, files, nodes and durations.
Commit(d, e) ==
  LET rewired == {s \in Step : d.inp[s] # e.inp[s] \/ d.dyn[s] # e.dyn[s]}
      slower == {s \in Step : d.dur[s] # e.dur[s]}
  IN [e EXCEPT !.checkAfter = @ \cup rewired \cup slower,
               !.checkReady = @ \cup rewired \cup Consumers(e, Flipped(d, e))]

Set(d, S, st) == [d EXCEPT !.state = [s \in Step |-> IF s \in S THEN st ELSE @[s]]]
SetOut(d, F, st) == [d EXCEPT !.out = [f \in Step |-> IF f \in F THEN st ELSE @[f]]]

\* Workflow.mark_step_pending of S, detached steps and consumers included.
Marked(d, S) ==
  LET idle == Step \ Busy(d)
      closed == {T \in SUBSET idle :
                   /\ S \cap idle \subseteq T
                   /\ Consumers(d, T \cap Completed(d) \cap Built(d)) \cap idle \subseteq T}
  IN {s \in idle : \A T \in closed : s \in T}

MarkPending(d, S) ==
  LET marked == Marked(d, S)
  IN [SetOut(Set(d, marked, "PENDING"), marked \cap Completed(d) \cap Built(d), "OUTDATED")
        EXCEPT !.deferred = @ \ marked]

\* Workflow.mark_file_outdated of the files in F that are BUILT.
MarkOutdated(d, F) ==
  LET built == F \cap Built(d)
  IN MarkPending(SetOut(d, built, "OUTDATED"), Consumers(d, built))
-----------------------------------------------------------------------------
(***************************************************************************)
(* UPDATE_CHECK_AFTER, for one step: its own need, TARGET when its output  *)
(* is one, and the needs of the attached steps that use its output.        *)
(***************************************************************************)
BaseNeed(d, s) == IF s \in targets /\ d.need[s] < TARGET THEN TARGET ELSE d.need[s]

Sinks(d, s) == Consumers(d, {s}) \cap d.attached

NewNeed(d, s) == Max({BaseNeed(d, s)} \cup {d.impl[t] : t \in Sinks(d, s)})
NewTail(d, s) == d.dur[s] + Max({0} \cup {d.tail[t] : t \in Sinks(d, s)})

\* SEED_CHECK_AFTER: detached steps are passed over.
Seeded(d) == d.checkAfter \cap d.attached

\* Mutant: the first iteration is no different.
IterateChanged(r, k) ==
  LET d == r.d
      e == [d EXCEPT !.impl = [s \in Step |-> IF s \in r.todo THEN NewNeed(d, s) ELSE @[s]],
                     !.tail = [s \in Step |-> IF s \in r.todo THEN NewTail(d, s) ELSE @[s]]]
      changed == {s \in r.todo : e.impl[s] # d.impl[s] \/ e.tail[s] # d.tail[s]}
  IN [d |-> e, todo |-> {m \in d.attached : Sinks(d, m) \cap changed # {}}]

\* The k-th iteration, over `todo`: all of it counts as changed in the first, later
\* only the steps whose values change.  PROPAGATE_CHECK_AFTER: next come the
\* attached makers of what the changed steps use.
Iterate(r, k) ==
  LET d == r.d
      e == [d EXCEPT !.impl = [s \in Step |-> IF s \in r.todo THEN NewNeed(d, s) ELSE @[s]],
                     !.tail = [s \in Step |-> IF s \in r.todo THEN NewTail(d, s) ELSE @[s]]]
      changed == {s \in r.todo : k = 1 \/ e.impl[s] # d.impl[s] \/ e.tail[s] # d.tail[s]}
  IN [d |-> e, todo |-> {m \in d.attached : Sinks(d, m) \cap changed # {}}]

\* Scheduler._update_meta_after.  Without cycles, no more iterations than steps
\* are needed; the flags of detached steps are cleared too.
UpdateMetaAfter(d) ==
  LET iter[k \in 0 .. Cardinality(Step)] ==
        IF k = 0 THEN [d |-> d, todo |-> Seeded(d)] ELSE Iterate(iter[k - 1], k)
  IN [iter[Cardinality(Step)].d EXCEPT !.checkAfter = {}]

\* UNAVAILABLE_INPUT_WHERE: f blocks s.
Blocks(d, f, s) ==
  \/ f \in d.inp[s] /\ (f \notin d.attached \/ d.out[f] # "BUILT")
  \/ f \in d.dyn[s] /\ f \in d.attached /\ d.out[f] \in {"PLANNED", "OUTDATED"}

IsReady(d, s) == \A f \in Inputs(d, s) : ~Blocks(d, f, s)

\* RECOMPUTE_READY
UpdateMetaReady(d) ==
  [d EXCEPT !.ready = {s \in Step : IF s \in d.checkReady THEN IsReady(d, s) ELSE s \in @},
            !.checkReady = {}]

UpdateMeta(d) == UpdateMetaReady(UpdateMetaAfter(d))
-----------------------------------------------------------------------------
(***************************************************************************)
(* SELECT_NEXT_STEP and STEP_DISPATCH_WHERE.  The plan is the creator of   *)
(* all steps: they are safe while it is RUNNING or SUCCEEDED.              *)
(***************************************************************************)
UnitsInUse(d) == FoldSet(LAMBDA s, n : Units[s] + n, 0, {s \in Step : d.state[s] = "RUNNING"})

HasResources(d, s) == Units[s] = 0 \/ UnitsInUse(d) + Units[s] <= Available

Safe == plan \in {"STARTED", "RUNNING", "SUCCEEDED"}

Eligible(d, s) ==
  /\ d.state[s] = "PENDING" /\ s \in d.attached
  /\ Safe /\ s \notin d.deferred /\ s \in d.ready
  /\ d.impl[s] > OPTIONAL /\ d.impl[s] > Threshold
  /\ s \in d.hashed \/ HasResources(d, s)

\* t goes before s: to be checked only, or the longer tail per defer.
Before(d, t, s) ==
  \/ t \in d.hashed /\ s \notin d.hashed
  \/ (t \in d.hashed <=> s \in d.hashed) /\ d.tail[t] * (1 + d.count[s]) > d.tail[s] * (1 + d.count[t])

Init ==
  /\ db = [state |-> [s \in Step |-> "NONE"], attached |-> {},
           need |-> [s \in Step |-> OPTIONAL], impl |-> [s \in Step |-> OPTIONAL],
           inp |-> [s \in Step |-> {}], dyn |-> [s \in Step |-> {}],
           out |-> [s \in Step |-> "UNDECLARED"],
           deferred |-> {}, hashed |-> {}, count |-> [s \in Step |-> 0],
           dur |-> [s \in Step |-> 1], tail |-> [s \in Step |-> 1],
           checkAfter |-> {}, ready |-> {}, checkReady |-> {}]
  /\ run = [s \in Step |-> "none"]
  /\ plan = "PENDING"
  /\ took = [s \in Step |-> 0]
  /\ mode = "build"
  /\ targets \in TargetSets
  /\ events = 0

KeepUser == UNCHANGED <<mode, targets, events>>
KeepRun == UNCHANGED <<run, took>>

\* Scheduler.pop_next_job hands out the plan: nothing else is safe.
PopPlan ==
  /\ mode = "build" /\ plan = "PENDING"
  /\ db' = UpdateMeta(db)
  /\ plan' = "STARTED"
  /\ KeepRun
  /\ KeepUser

\* Step.detach of all steps, by the plan that created them: the makers of what
\* they use are among them (RECURSIVE_CHECK_WITH_PRODUCTS).
DetachAll(d) == [d EXCEPT !.attached = {}, !.checkAfter = @ \cup d.attached]

\* Step.reset_for_rerun of the plan, and its command starts.
BeginPlan ==
  /\ mode = "build" /\ plan = "STARTED"
  /\ db' = Commit(db, DetachAll(db))
  /\ plan' = "RUNNING"
  /\ KeepRun
  /\ KeepUser

\* Step.initialize_row and the edges of a declaration.  The stored hash stays.
NewRow(d, s, n, I) ==
  [d EXCEPT !.state[s] = "PENDING", !.deferred = @ \ {s}, !.count[s] = 0,
            !.need[s] = n, !.impl[s] = n, !.dur[s] = 1, !.tail[s] = 1,
            !.inp[s] = I, !.dyn[s] = {},
            !.attached = @ \cup {s}, !.ready = @ \ {s},
            !.checkAfter = @ \cup {s}, !.checkReady = @ \cup {s}]

\* Workflow.define_step with other inputs than the detached step had, or of a
\* new step: a fresh row, and an output that is not BUILT any more.  A step with
\* a job in flight is left out.
Define(s) ==
  /\ mode = "build" /\ plan = "RUNNING"
  /\ s \notin db.attached \cup Busy(db)
  /\ \E n \in Needs[s], I \in Inps[s] :
       /\ db.state[s] # "NONE" => I # db.inp[s]
       /\ LET row == NewRow(db, s, n, I)
              declared == IF db.out[s] = "UNDECLARED" THEN SetOut(row, {s}, "PLANNED") ELSE row
          IN db' = Commit(db, MarkOutdated(declared, {s}))
  /\ UNCHANGED plan
  /\ KeepRun
  /\ KeepUser

\* Workflow.define_step for a detached step with the same inputs: Step.reattach
\* and Step.after_recycle.
Recycle(s) ==
  /\ mode = "build" /\ plan = "RUNNING"
  /\ s \notin db.attached /\ db.state[s] # "NONE"
  /\ db.inp[s] \in Inps[s]
  /\ \E n \in Needs[s] :
       LET back == [db EXCEPT !.attached = @ \cup {s}, !.checkAfter = @ \cup {s}, !.need[s] = n]
       IN db' = Commit(db, IF db.state[s] = "FAILED" THEN MarkPending(back, {s}) ELSE back)
  /\ UNCHANGED plan
  /\ KeepRun
  /\ KeepUser

\* Step.mark_completed of the plan; when it failed, _detach_created_steps.
EndPlan ==
  /\ mode = "build" /\ plan = "RUNNING"
  /\ \/ plan' = "SUCCEEDED" /\ UNCHANGED db
     \/ plan' = "FAILED" /\ db' = Commit(db, DetachAll(db))
  /\ KeepRun
  /\ KeepUser
-----------------------------------------------------------------------------
\* Scheduler._derive_job: a dynamic input that is gone is to be validated.
JobOf(d, s) ==
  IF s \notin d.hashed THEN "run"
  ELSE IF \A f \in Inputs(d, s) : f \in d.attached /\ d.out[f] = "BUILT" THEN "check"
  ELSE "validate"

\* Scheduler.pop_next_job, which may find nothing.
Pop ==
  /\ mode = "build" /\ plan # "PENDING"
  /\ LET d == UpdateMeta(db)
         eligible == {s \in Step : Eligible(d, s)}
     IN \/ /\ eligible = {} /\ db' = d
           /\ UNCHANGED run
        \/ \E s \in eligible :
             /\ \A t \in eligible : ~Before(d, t, s)
             /\ db' = Set(d, {s}, IF s \in d.hashed THEN "CHECKING" ELSE "RUNNING")
             /\ run' = [run EXCEPT ![s] = JobOf(d, s)]
  /\ UNCHANGED <<plan, took>>
  /\ KeepUser

\* Step.reset_for_rerun
Reset(d, s) == MarkOutdated([d EXCEPT !.dyn[s] = {}], {s})

EndJob(s, d) ==
  /\ db' = Commit(db, d)
  /\ run' = [run EXCEPT ![s] = "none"]
  /\ UNCHANGED plan
  /\ KeepUser

\* Executor.execute_job: the command starts.
Begin(s) ==
  /\ run[s] = "run"
  /\ db' = Commit(db, Reset(db, s))
  /\ run' = [run EXCEPT ![s] = "begun"]
  /\ UNCHANGED <<plan, took>>
  /\ KeepUser

\* Workflow.amend_step: what is an initial input already stays so.  A command
\* that misses an input waits for it: it asks to be deferred, and ends.
Amend(s) ==
  /\ run[s] = "begun"
  /\ \E I \in Amends[s] :
       /\ db' = Commit(db, [db EXCEPT !.dyn[s] = I \ db.inp[s]])
       /\ run' = [run EXCEPT ![s] =
            IF I \subseteq db.attached \cap Built(db) THEN "amended" ELSE "waits"]
  /\ UNCHANGED <<plan, took>>
  /\ KeepUser

\* Step.mark_completed with a hash.
Succeeded(d, s) ==
  LET done == [Set(d, {s}, "SUCCEEDED") EXCEPT
                 !.hashed = @ \cup {s}, !.count[s] = 0, !.deferred = @ \ {s}]
  IN IF d.out[s] = "BUILT" THEN done
     ELSE MarkPending(SetOut(done, {s}, "BUILT"), Consumers(d, {s}))

\* Mutant: deferred whatever has become available since.
DeferredBlind(d, s) ==
  LET again == [SetOut(d, {s} \cap Built(d), "OUTDATED") EXCEPT
                  !.count[s] = @ + 1, !.hashed = @ \ {s}]
  IN IF again.count[s] <= DeferCap
     THEN [Set(again, {s}, "PENDING") EXCEPT !.deferred = @ \cup {s}]
     ELSE Set(again, {s}, "FAILED")

\* Step.mark_completed of a step that wants to be deferred.
Deferred(d, s) ==
  LET again == [SetOut(d, {s} \cap Built(d), "OUTDATED") EXCEPT
                  !.count[s] = @ + 1, !.hashed = @ \ {s}]
      blocked == d.dyn[s] \ Built(d) # {}
  IN IF again.count[s] <= DeferCap
     THEN [Set(again, {s}, "PENDING") EXCEPT !.deferred = IF blocked THEN @ \cup {s} ELSE @ \ {s}]
     ELSE [Set(again, {s}, "FAILED") EXCEPT !.deferred = @ \ {s}]

\* The command has ended with success.
Succeed(s) ==
  /\ run[s] = "amended" \/ (run[s] = "begun" /\ {} \in Amends[s])
  /\ EndJob(s, Succeeded(db, s))
  /\ \E t \in Durations : took' = [took EXCEPT ![s] = t]

\* The command has failed: the amended inputs stay.
Fail(s) ==
  /\ run[s] \in {"begun", "amended"}
  /\ EndJob(s, [Set(SetOut(db, {s} \cap Built(db), "OUTDATED"), {s}, "FAILED") EXCEPT
                  !.hashed = @ \ {s}, !.deferred = @ \ {s}])
  /\ UNCHANGED took

Defer(s) ==
  /\ run[s] = "waits"
  /\ EndJob(s, Deferred(db, s))
  /\ UNCHANGED took

\* Executor.try_skip_job finds the inputs and outputs of the stored hash.
Skip(s) ==
  /\ run[s] = "check"
  /\ EndJob(s, Succeeded(db, s))
  /\ UNCHANGED took

\* Executor.validate_dynamic_job finds the inputs of the stored hash.
StillValid(s) ==
  /\ run[s] = "validate"
  /\ EndJob(s, Set(db, {s}, "PENDING"))
  /\ UNCHANGED took

\* Either finds something else: Executor._reset_step_to_pending.
Mismatch(s) ==
  /\ run[s] \in {"check", "validate"}
  /\ EndJob(s, [Set(Reset(db, s), {s}, "PENDING") EXCEPT !.hashed = @ \ {s}])
  /\ UNCHANGED took
-----------------------------------------------------------------------------
\* The steps that this build had to complete.
Required(d) == {s \in d.attached : d.impl[s] > Threshold}

PendingSteps(d) == {s \in Required(d) : d.state[s] = "PENDING"}

\* report_unbuilt returns zero, or warnings only.
IsClean(d) ==
  /\ plan = "SUCCEEDED"
  /\ \A s \in d.attached : d.state[s] # "FAILED"
  /\ PendingSteps(d) = {}

\* Mutant: only the files are reverted.
RevertFiles(d) ==
  LET unneeded == {s \in d.attached : d.impl[s] = OPTIONAL}
  IN SetOut(d, {f \in unneeded : d.out[f] \in {"BUILT", "OUTDATED"}}, "PLANNED")

\* revert_optional_steps
RevertOptional(d) ==
  LET unneeded == {s \in d.attached : d.impl[s] = OPTIONAL}
  IN SetOut(Set(d, unneeded, "PENDING"),
            {f \in unneeded : d.out[f] \in {"BUILT", "OUTDATED"}}, "PLANNED")

\* Trellis.delete_detached: what an attached step uses, directly or not, is kept.
Kept(d) ==
  LET closed == {T \in SUBSET Step :
                   /\ d.attached \subseteq T
                   /\ \A s \in T : Inputs(d, s) \subseteq T}
  IN {s \in Step : \A T \in closed : s \in T}

DeleteDetached(d) ==
  LET gone == Step \ Kept(d)
  IN [SetOut(Set(d, gone, "NONE"), gone, "UNDECLARED") EXCEPT
        !.hashed = @ \ gone, !.deferred = @ \ gone, !.ready = @ \ gone,
        !.checkAfter = @ \ gone, !.checkReady = @ \ gone,
        !.need = [s \in Step |-> IF s \in gone THEN OPTIONAL ELSE @[s]],
        !.impl = [s \in Step |-> IF s \in gone THEN OPTIONAL ELSE @[s]],
        !.inp = [s \in Step |-> IF s \in gone THEN {} ELSE @[s]],
        !.dyn = [s \in Step |-> IF s \in gone THEN {} ELSE @[s]],
        !.count = [s \in Step |-> IF s \in gone THEN 0 ELSE @[s]],
        !.dur = [s \in Step |-> IF s \in gone THEN 1 ELSE @[s]],
        !.tail = [s \in Step |-> IF s \in gone THEN 1 ELSE @[s]]]

\* Scheduler.build_completed, without the threshold of 10% on durations.
BuildCompleted(d) ==
  LET e == [d EXCEPT !.dur = [s \in Step |->
              IF d.state[s] # "NONE" /\ took[s] # 0 THEN took[s] ELSE @[s]]]
  IN UpdateMetaAfter(Commit(d, e))

\* The job loop has returned: Builder.finalize.
EndBuild ==
  /\ mode = "build" /\ plan \in {"SUCCEEDED", "FAILED"}
  /\ Busy(db) = {}
  /\ LET d == UpdateMeta(db)
         cleaned == Commit(d, DeleteDetached(Commit(d, RevertOptional(d))))
     IN /\ \A s \in Step : ~Eligible(d, s)
        /\ db' = BuildCompleted(IF IsClean(d) /\ targets = {} THEN cleaned ELSE d)
        /\ mode' = IF IsClean(d) THEN "clean" ELSE "unclean"
  /\ took' = [s \in Step |-> 0]
  /\ UNCHANGED <<run, plan, targets, events>>

UserMay == mode # "build" /\ events < MaxEvents /\ events' = events + 1

\* In the watch phase the user changes or removes the output of s; a removed
\* one makes its consumers pending too.  One loss per watch phase is a bound.
Lose(s) ==
  /\ mode \in {"clean", "unclean"}
  /\ db.out[s] \in {"BUILT", "OUTDATED"}
  /\ \E S \in {{s}, {s} \cup Consumers(db, {s})} :
       db' = Commit(db, MarkPending(SetOut(db, {s}, "PLANNED"), S))
  /\ mode' = "watch"
  /\ UNCHANGED <<run, plan, took, targets, events>>

\* What failed runs again.
RetryFailed(d) == Commit(d, MarkPending(d, {s \in d.attached : d.state[s] = "FAILED"}))
PlanMayChange == plan' \in {IF plan = "FAILED" THEN "PENDING" ELSE plan, "PENDING"}

\* The next build phase (DirectorHandler.start_build_phase); the user may have
\* changed the plan.
NextBuild ==
  /\ UserMay
  /\ db' = RetryFailed(db) /\ PlanMayChange
  /\ mode' = "build"
  /\ UNCHANGED <<run, took, targets>>

\* A new director, perhaps with other targets: reset_interrupted_steps, then
\* Workflow.reconcile_targets.
Restart ==
  /\ UserMay
  /\ targets' \in TargetSets
  /\ LET raised == {s \in Step : db.impl[s] = TARGET}
     IN db' = [RetryFailed(db) EXCEPT
                 !.checkAfter = @ \cup raised \cup (targets' \cap db.attached)]
  /\ PlanMayChange
  /\ mode' = "build"
  /\ UNCHANGED <<run, took>>

StepNext(s) ==
  \/ Define(s) \/ Recycle(s)
  \/ Begin(s) \/ Amend(s) \/ Succeed(s) \/ Fail(s) \/ Defer(s)
  \/ Skip(s) \/ StillValid(s) \/ Mismatch(s)
  \/ Lose(s)

Next ==
  \/ PopPlan \/ BeginPlan \/ EndPlan \/ Pop
  \/ EndBuild \/ NextBuild \/ Restart
  \/ \E s \in Step : StepNext(s)

Spec == Init /\ [][Next]_vars
-----------------------------------------------------------------------------
\* Type invariant, with the CHECK constraints of the step table.
TypeOK ==
  /\ db.state \in [Step -> {"NONE", "PENDING", "CHECKING", "RUNNING", "SUCCEEDED", "FAILED"}]
  /\ db.out \in [Step -> {"UNDECLARED", "PLANNED", "OUTDATED", "BUILT"}]
  /\ \A s \in db.attached : db.state[s] # "NONE" /\ db.out[s] # "UNDECLARED"
  /\ db.need \in [Step -> {OPTIONAL, DEFAULT}]
  /\ db.impl \in [Step -> OPTIONAL .. TARGET]
  /\ \A s \in Step : Inputs(db, s) \subseteq Step /\ db.inp[s] \cap db.dyn[s] = {}
  /\ db.deferred \subseteq {s \in Step : db.state[s] = "PENDING"}
  /\ db.count \in [Step -> Nat]
  /\ \A s \in Step : run[s] # "none" <=> s \in Busy(db)
  /\ mode # "build" => Busy(db) = {}

(***************************************************************************)
(* No step is left behind: once the flags are processed, the stored        *)
(* _implied_need of an attached step is at least its own need and the      *)
(* stored need of every attached step that uses its output                 *)
(* (Scheduler._update_meta_after).                                         *)
(***************************************************************************)
NeedCovers ==
  db.checkAfter = {} => \A s \in db.attached : db.impl[s] >= NewNeed(db, s)

\* An unflagged _ready is the truth: none of the triggers that flag _check_ready
\* is missing, neither for attached nor for detached steps.
ReadyExact ==
  \A s \in Step \ db.checkReady : db.state[s] # "NONE" => (s \in db.ready <=> IsReady(db, s))

(***************************************************************************)
(* Pending.py: at the end of a build that was not drained, each required   *)
(* step that is still PENDING has a root cause: a file that nobody makes,  *)
(* a resource that there is not enough of, a step or a plan that failed.   *)
(* None is "runnable", "deferred" without a cause, or in a cycle.          *)
(***************************************************************************)
FileBlocks(f, s) ==
  Blocks(db, f, s) \/ (s \in db.deferred /\ f \in db.dyn[s] /\ db.out[f] # "BUILT")

HasRoot(s) ==
  \/ Units[s] > Available
  \/ ~Safe
  \/ \E f \in Inputs(db, s) :
       FileBlocks(f, s) /\ (db.state[f] = "FAILED" \/ f \notin PendingSteps(db))

Explained ==
  LET closed == {T \in SUBSET PendingSteps(db) :
        \A s \in PendingSteps(db) :
          HasRoot(s) \/ (\E f \in T : FileBlocks(f, s)) => s \in T}
  IN {s \in Step : \A T \in closed : s \in T}

PendingExplained == mode \in {"clean", "unclean"} => PendingSteps(db) \subseteq Explained

\* The needs as they should be: s is needed when it or a step that uses its
\* output, directly or not, has a need above the threshold.
Needed ==
  LET closed == {T \in SUBSET db.attached :
        \A s \in db.attached : BaseNeed(db, s) > Threshold \/ Sinks(db, s) \cap T # {} => s \in T}
  IN {s \in Step : \A T \in closed : s \in T}

(***************************************************************************)
(* After a clean build, whatever is needed is up to date, and no SUCCEEDED *)
(* step uses an output that was reverted or is still to be built.          *)
(***************************************************************************)
CleanIsComplete ==
  mode = "clean" =>
    /\ \A s \in Needed : db.state[s] = "SUCCEEDED" /\ db.out[s] = "BUILT"
    /\ \A s \in db.attached : s \in Needed \/ (db.state[s] = "SUCCEEDED" /\ targets = {}) =>
         Inputs(db, s) \cap db.attached \subseteq Built(db)

\* The types, and the stored readiness.
ReadyAgrees == TypeOK /\ ReadyExact
=============================================================================
