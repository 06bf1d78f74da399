-------------------------------- MODULE Build --------------------------------
(***************************************************************************)
(* Build phases: the scheduler hands out jobs, the executor carries them   *)
(* out, and the workflow database records the outcome, while the user      *)
(* edits files, the watcher notices and the director may crash.            *)
(*                                                                         *)
(* The steps and their declared inputs and outputs are fixed and attached. *)
(* A command may amend further inputs while it runs.  `db` holds what is   *)
(* persistent; one transaction is one function from database to database.  *)
(* Everything between two awaits of a job is one action.                   *)
(***************************************************************************)
EXTENDS Naturals, FiniteSets

CONSTANTS Step, File,
          Static,        \* the creator of static files
          Maker,         \* Maker[f]: the step that outputs f, or Static
          Inp,           \* Inp[s]: the initial inputs of s
          Dyn,           \* Dyn[s]: the inputs that the command of s amends
          NJob,          \* --jobs
          DeferCap,      \* defer_cap
          WatchEdits,    \* the files that the user edits in a watch phase
          BuildEdits,    \* the static files that the user edits during a build
          MaxEvents      \* bound on edits, removals and restarts

ASSUME GraphType ==
  /\ Maker \in [File -> Step \cup {Static}] /\ Static \notin Step
  /\ Inp \in [Step -> SUBSET File] /\ Dyn \in [Step -> SUBSET File]
  /\ \A s \in Step : Inp[s] \cap Dyn[s] = {} /\ \A f \in Inp[s] \cup Dyn[s] : Maker[f] # s
ASSUME UseType ==
  /\ WatchEdits \subseteq File /\ BuildEdits \subseteq {f \in File : Maker[f] = Static}
  /\ NJob \in Nat \ {0} /\ DeferCap \in Nat /\ MaxEvents \in Nat

VARIABLES
  db,       \* the database: see TypeOK
  disk,     \* disk[f]: the content of file f
  job,      \* job[s]: the job of step s, see NoJob
  mode,     \* "build", "watch", "rescan", or "raised" after an exception
  draining, \* Scheduler.draining
  due,      \* a job that is about to set draining
  overlap,  \* overlap[s]: the steps that ran successfully until after s started
  changed,  \* Watcher.updated and deleted, or the files yet to be rescanned
  events    \* the number of edits, removals and restarts so far

vars == <<db, disk, job, mode, draining, due, overlap, changed, events>>

Outputs(s) == {f \in File : Maker[f] = s}
StaticFiles == {f \in File : Maker[f] = Static}

\* Content.  A hash is the content it was computed from: absent is unknown.
Absent == <<"absent">>
Typed(n) == <<"user", n>>
Made(s, inputs) == <<"made", s, inputs>>

NoHash == <<>>
NoJob == [at |-> "none", inp |-> <<>>, read |-> <<>>, bad |-> {}, out |-> <<>>,
          fresh |-> {}, amended |-> FALSE, ok |-> TRUE, wait |-> FALSE]

Available(d, f) == d.fstate[f] \in {"CONFIRMED", "BUILT"}
DynInputs(d, s) == IF s \in d.dynamic THEN Dyn[s] ELSE {}
Inputs(d, s) == Inp[s] \cup DynInputs(d, s)
Consumers(d, F) == {s \in Step : Inputs(d, s) \cap F # {}}
Busy(d) == {s \in Step : d.state[s] \in {"CHECKING", "RUNNING"}}
Completed(d) == {s \in Step : d.state[s] \in {"SUCCEEDED", "FAILED"}}

\* The recorded hashes of the available inputs of s.
Recorded(d, s) ==
  [f \in {g \in Inputs(d, s) : Available(d, g)} |-> d.fhash[f]]
-----------------------------------------------------------------------------
(***************************************************************************)
(* Workflow.mark_step_pending of the steps S.  Steps with a job in flight  *)
(* are ignored.  A completed step takes its BUILT outputs and, through     *)
(* them, the steps that use these along: mark_file_outdated.               *)
(***************************************************************************)
BuiltOutputs(d, S) == {f \in File : Maker[f] \in S /\ d.fstate[f] = "BUILT"}

Marked(d, S) ==
  LET idle == Step \ Busy(d)
      closed == {T \in SUBSET idle :
                   /\ S \cap idle \subseteq T
                   /\ Consumers(d, BuiltOutputs(d, T \cap Completed(d))) \cap idle \subseteq T}
  IN {s \in idle : \A T \in closed : s \in T}

SetFiles(d, F, st) == [d EXCEPT !.fstate = [f \in File |-> IF f \in F THEN st ELSE @[f]]]
SetStates(d, S, st) == [d EXCEPT !.state = [s \in Step |-> IF s \in S THEN st ELSE @[s]]]

\* Mutant: the outputs of the steps stay BUILT.
MarkPendingKeepOutputs(d, S) ==
  LET marked == Marked(d, S)
  IN [SetStates(d, marked, "PENDING") EXCEPT !.deferred = @ \ marked]

MarkPending(d, S) ==
  LET marked == Marked(d, S)
      outdated == BuiltOutputs(d, marked \cap Completed(d))
  IN [SetFiles(SetStates(d, marked, "PENDING"), outdated, "OUTDATED")
        EXCEPT !.deferred = @ \ marked]

MarkOutdated(d, F) == MarkPending(SetFiles(d, F, "OUTDATED"), Consumers(d, F))

(***************************************************************************)
(* _HASH_TRANSITIONS, without UNCONFIRMED files:                           *)
(* <<cause, old state, hash known, new state, action>>.                    *)
(***************************************************************************)
Transitions ==
  {<<"EXTERNAL", old, TRUE, "CONFIRMED", "updated">> : old \in {"CONFIRMED", "MISSING"}}
  \cup {<<"EXTERNAL", "CONFIRMED", FALSE, "MISSING", "deleted">>}
  \cup {<<"EXTERNAL", old, TRUE, "PLANNED", "updated">> : old \in {"BUILT", "OUTDATED"}}
  \cup {<<"EXTERNAL", old, FALSE, "PLANNED", "deleted">> : old \in {"BUILT", "OUTDATED"}}
  \cup {<<"SUCCEEDED", old, TRUE, "BUILT", "completed">> : old \in {"PLANNED", "OUTDATED"}}
  \cup {<<"FAILED", "CONFIRMED", TRUE, "CONFIRMED", "updated">>,
        <<"FAILED", "CONFIRMED", FALSE, "MISSING", "deleted">>,
        <<"FAILED", "BUILT", TRUE, "OUTDATED", "updated">>,
        <<"FAILED", "BUILT", FALSE, "PLANNED", "deleted">>}
  \cup {<<"FAILED", old, TRUE, "OUTDATED", "none">> : old \in {"PLANNED", "OUTDATED"}}
  \cup {<<"FAILED", old, FALSE, "PLANNED", "none">> : old \in {"PLANNED", "OUTDATED"}}

Applies(d, new, cause, f) ==
  {t \in Transitions : t[1] = cause /\ t[2] = d.fstate[f] /\ t[3] = (new[f] # Absent)}

\* Otherwise update_file_hashes raises ConsistencyError.
Expected(d, new, cause) == \A f \in DOMAIN new : Applies(d, new, cause, f) # {}

\* Mutant: a file that is built does not wake up the steps that wait for it.
ActsOnConsumersQuiet(act, st) == act = "deleted" \/ (act = "updated" /\ st = "CONFIRMED")

\* The follow-ups that call mark_consuming_steps_pending.
ActsOnConsumers(act, st) ==
  act \in {"deleted", "completed"} \/ (act = "updated" /\ st = "CONFIRMED")

\* Mutant: without the trigger.
StoredHashKept(st, hash) == hash

\* Trigger file_clear_hash drops the hash of a PLANNED or MISSING file.
StoredHash(st, hash) == IF st \in {"PLANNED", "MISSING"} THEN Absent ELSE hash

Rules(d, new, cause) == [f \in DOMAIN new |-> CHOOSE t \in Applies(d, new, cause, f) : TRUE]

StoreHashes(d, new, rule) ==
  [d EXCEPT
     !.fstate = [f \in File |-> IF f \in DOMAIN new THEN rule[f][4] ELSE @[f]],
     !.fhash = [f \in File |-> IF f \in DOMAIN new THEN StoredHash(rule[f][4], new[f]) ELSE @[f]]]

\* handle_updated_file, handle_deleted_file and mark_consuming_steps_pending.
FollowUps(d, rule) ==
  LET toCreator == {f \in DOMAIN rule : rule[f][5] \in {"updated", "deleted"}
                                        /\ rule[f][4] \in {"PLANNED", "OUTDATED"}}
      toConsumers == {f \in DOMAIN rule : ActsOnConsumers(rule[f][5], rule[f][4])}
  IN ({Maker[f] : f \in toCreator} \cap Step) \cup Consumers(d, toConsumers)

\* Workflow.update_file_hashes: states and hashes first, then the follow-ups.
UpdateHashes(d, new, cause) ==
  LET rule == Rules(d, new, cause)
  IN MarkPending(StoreHashes(d, new, rule), FollowUps(d, rule))

\* Step.reset_for_rerun: the amended inputs are dropped, BUILT outputs outdated.
ResetForRerun(d, s) ==
  LET cut == [d EXCEPT !.dynamic = @ \ {s}]
  IN MarkOutdated(cut, BuiltOutputs(d, {s}))

\* Mutant: the hash stays, so the same mismatch is found again.
ResetToPendingKeepHash(d, s) == SetStates(ResetForRerun(d, s), {s}, "PENDING")

\* Executor._reset_step_to_pending: also without hash, and PENDING.
ResetToPending(d, s) ==
  [SetStates(ResetForRerun(d, s), {s}, "PENDING") EXCEPT !.hash[s] = NoHash]

\* Step.mark_completed with a new step hash.
MarkSucceeded(d, s, newHash) ==
  LET outs == {f \in Outputs(s) : d.fstate[f] = "OUTDATED"}
      done == [SetFiles(SetStates(d, {s}, "SUCCEEDED"), outs, "BUILT")
                 EXCEPT !.hash[s] = newHash, !.count[s] = 0, !.deferred = @ \ {s}]
  IN MarkPending(done, Consumers(d, outs))

\* Step.mark_completed without a step hash: FAILED, or deferred at most
\* defer_cap times in a row; how far the count exceeds the cap is left out.  A
\* step that has all its amended inputs by now is not blocked again.
MarkUnsuccessful(d, s, wantsDefer) ==
  LET defers == wantsDefer /\ d.count[s] < DeferCap
      blocked == \E f \in DynInputs(d, s) : ~Available(d, f)
      back == SetFiles(d, BuiltOutputs(d, {s}), "OUTDATED")
  IN [SetStates(back, {s}, IF defers THEN "PENDING" ELSE "FAILED") EXCEPT
        !.hash[s] = NoHash,
        !.count[s] = IF wantsDefer /\ @ <= DeferCap THEN @ + 1 ELSE @,
        !.deferred = IF defers /\ blocked THEN @ \cup {s} ELSE @ \ {s}]
-----------------------------------------------------------------------------
Init ==
  /\ db = [state    |-> [s \in Step |-> "PENDING"],
           deferred |-> {},
           count    |-> [s \in Step |-> 0],
           dynamic  |-> {},
           hash     |-> [s \in Step |-> NoHash],
           fstate   |-> [f \in File |-> IF f \in StaticFiles THEN "CONFIRMED" ELSE "PLANNED"],
           fhash    |-> [f \in File |-> IF f \in StaticFiles THEN Typed(0) ELSE Absent]]
  /\ disk = db.fhash
  /\ job = [s \in Step |-> NoJob]
  /\ mode = "build"
  /\ draining = FALSE
  /\ due = FALSE
  /\ overlap = [s \in Step |-> {}]
  /\ changed = {}
  /\ events = 0

At(s, phase) == mode = "build" /\ job[s].at = phase

KeepBuild == UNCHANGED <<mode, draining, changed, events>>
KeepTimes == UNCHANGED <<due, overlap>>

\* Mutant: OUTDATED initial inputs are good enough.
ReadyOutdated(d, s) ==
  /\ \A f \in Inp[s] : d.fstate[f] \notin {"PLANNED", "MISSING"}
  /\ \A f \in DynInputs(d, s) : d.fstate[f] \notin {"PLANNED", "OUTDATED"}

\* UNAVAILABLE_INPUT_WHERE, negated.
Ready(d, s) ==
  /\ \A f \in Inp[s] : Available(d, f)
  /\ \A f \in DynInputs(d, s) : d.fstate[f] \notin {"PLANNED", "OUTDATED"}

\* STEP_DISPATCH_WHERE; the creators of the steps are SUCCEEDED.
Eligible(d, s) == d.state[s] = "PENDING" /\ s \notin d.deferred /\ Ready(d, s)

\* Scheduler.pop_next_job, called by Builder.job_loop for a free slot: steps
\* with a hash come first.  Executor.execute_job starts with record_run_started.
Pop(s) ==
  /\ mode = "build" /\ ~draining
  /\ Cardinality({t \in Step : job[t].at # "none"}) + (IF due THEN 1 ELSE 0) < NJob
  /\ Eligible(db, s)
  /\ db.hash[s] # NoHash \/ \A t \in Step : Eligible(db, t) => db.hash[t] = NoHash
  /\ db' = SetStates(db, {s}, IF db.hash[s] # NoHash THEN "CHECKING" ELSE "RUNNING")
  /\ job' = [job EXCEPT ![s] = [NoJob EXCEPT !.at = "verify", !.inp = Recorded(db, s)]]
  /\ overlap' = [overlap EXCEPT ![s] = {}]
  /\ UNCHANGED <<disk, due>>
  /\ KeepBuild

\* Executor._compute_inp_step_hash: the inputs on disk against the hashes that
\* were recorded when the job was made.
Verify(s) ==
  /\ At(s, "verify")
  /\ LET bad == {f \in DOMAIN job[s].inp : disk[f] # job[s].inp[f]}
         to == IF bad # {} THEN "reject"
               ELSE IF db.state[s] = "RUNNING" THEN "reset"
               ELSE IF job[s].inp # db.hash[s][1] THEN "noskip"
               ELSE IF DOMAIN job[s].inp # Inputs(db, s) THEN "valid" ELSE "outs"
     IN job' = [job EXCEPT ![s].at = to, ![s].bad = bad,
                           ![s].read = [f \in bad |-> disk[f]]]
  /\ UNCHANGED <<db, disk>>
  /\ KeepTimes
  /\ KeepBuild

\* An exception in a job: its transaction is rolled back, and
\* Builder.handle_done_tasks takes the director down.
Raise ==
  /\ mode' = "raised"
  /\ UNCHANGED <<db, disk, job, draining, due, overlap, changed, events>>

\* Executor._new_run after unexpected input changes: the new hashes first.
Reject(s) ==
  /\ At(s, "reject")
  /\ LET new == [f \in job[s].bad |-> job[s].read[f]]
     IN IF ~Expected(db, new, "FAILED") THEN Raise
        ELSE /\ db' = UpdateHashes(db, new, "FAILED")
             /\ job' = [job EXCEPT ![s].at = "giveup"]
             /\ UNCHANGED disk
             /\ KeepTimes
             /\ KeepBuild

\* Executor._finalize_failed_run; the report comes before the draining.
GiveUp(s) ==
  /\ At(s, "giveup")
  /\ db' = MarkUnsuccessful(db, s, FALSE)
  /\ job' = [job EXCEPT ![s] = NoJob]
  /\ due' = TRUE
  /\ UNCHANGED <<disk, overlap>>
  /\ KeepBuild

\* Executor._drain_for_unexpected_input_changes.
Drain ==
  /\ mode = "build" /\ due
  /\ draining' = TRUE
  /\ due' = FALSE
  /\ UNCHANGED <<db, disk, job, mode, overlap, changed, events>>

EndJob(s, d) ==
  /\ db' = d
  /\ job' = [job EXCEPT ![s] = NoJob]
  /\ UNCHANGED disk
  /\ KeepTimes
  /\ KeepBuild

\* try_skip_job and validate_dynamic_job after a mismatch of the inputs.
NoSkip(s) == At(s, "noskip") /\ EndJob(s, ResetToPending(db, s))

\* validate_dynamic_job without a mismatch.
StillValid(s) == At(s, "valid") /\ EndJob(s, SetStates(db, {s}, "PENDING"))

\* try_skip_job, the outputs.  The files read here and the rows that are
\* written next are those of the step itself.
TrySkip(s) ==
  /\ At(s, "outs")
  /\ LET out == [f \in Outputs(s) |-> disk[f]]
         new == [f \in {g \in Outputs(s) : disk[g] # db.fhash[g]} |-> disk[f]]
     IN IF out # db.hash[s][2] THEN EndJob(s, ResetToPending(db, s))
        ELSE IF ~Expected(db, new, "SUCCEEDED") THEN Raise
        ELSE EndJob(s, MarkSucceeded(UpdateHashes(db, new, "SUCCEEDED"), s, db.hash[s]))

\* execute_job: Step.reset_for_rerun, and the command starts.
Reset(s) ==
  /\ At(s, "reset")
  /\ db' = ResetForRerun(db, s)
  /\ job' = [job EXCEPT ![s].at = "run", ![s].amended = (Dyn[s] = {})]
  /\ UNCHANGED disk
  /\ KeepTimes
  /\ KeepBuild

HasRead(s) == job[s].read # <<>> \/ Inp[s] \cup Dyn[s] = {}

\* The command reads its inputs, before or after it amends some of them.
Read(s) ==
  /\ At(s, "run") /\ ~HasRead(s)
  /\ \A f \in Inp[s] \cup Dyn[s] : disk[f] # Absent
  /\ job' = [job EXCEPT ![s].read = [f \in Inp[s] \cup Dyn[s] |-> disk[f]]]
  /\ UNCHANGED <<db, disk>>
  /\ KeepTimes
  /\ KeepBuild

\* Mutant: without the freshness check.
AmendStale(s) ==
  /\ At(s, "run") /\ ~job[s].amended
  /\ db' = [db EXCEPT !.dynamic = @ \cup {s}]
  /\ LET wait == \E f \in Dyn[s] : ~Available(db, f)
     IN job' = [job EXCEPT ![s].amended = TRUE, ![s].wait = wait,
                           ![s].ok = ~wait, ![s].at = IF wait THEN "collect" ELSE "run"]
  /\ UNCHANGED disk
  /\ KeepTimes
  /\ KeepBuild

\* The amend_step RPC: a command that has to wait for an input, or that may
\* have read an older version of it (ran_concurrently), ends.
Amend(s) ==
  /\ At(s, "run") /\ ~job[s].amended
  /\ db' = [db EXCEPT !.dynamic = @ \cup {s}]
  /\ LET unavailable == {f \in Dyn[s] : ~Available(db, f)}
         unfresh == {f \in Dyn[s] : db.fstate[f] = "BUILT" /\ Maker[f] \in overlap[s]}
         wait == unavailable \cup unfresh # {}
     IN job' = [job EXCEPT ![s].amended = TRUE, ![s].wait = wait,
                           ![s].ok = ~wait, ![s].at = IF wait THEN "collect" ELSE "run"]
  /\ UNCHANGED disk
  /\ KeepTimes
  /\ KeepBuild

\* The command writes its outputs and ends.
Write(s) ==
  /\ At(s, "run") /\ HasRead(s) /\ job[s].amended
  /\ disk' = [f \in File |-> IF Maker[f] = s THEN Made(s, job[s].read) ELSE disk[f]]
  /\ job' = [job EXCEPT ![s].at = "collect"]
  /\ UNCHANGED db
  /\ KeepTimes
  /\ KeepBuild

\* The command misses an input and ends with an error.
Stumble(s) ==
  /\ At(s, "run") /\ ~HasRead(s)
  /\ \E f \in Inp[s] \cup Dyn[s] : disk[f] = Absent
  /\ job' = [job EXCEPT ![s].at = "collect", ![s].ok = FALSE]
  /\ UNCHANGED <<db, disk>>
  /\ KeepTimes
  /\ KeepBuild

\* _compute_full_step_hash, first in the database: only available inputs count.
Collect(s) ==
  /\ At(s, "collect")
  /\ job' = [job EXCEPT ![s].at = "hash", ![s].inp = Recorded(db, s), ![s].read = <<>>,
                        ![s].out = [f \in Outputs(s) |-> db.fhash[f]]]
  /\ UNCHANGED <<db, disk>>
  /\ KeepTimes
  /\ KeepBuild

\* _compute_full_step_hash, then on disk.
HashFiles(s) ==
  /\ At(s, "hash")
  /\ LET bad == {f \in DOMAIN job[s].inp : disk[f] # job[s].inp[f]}
         lost == \E f \in Outputs(s) : disk[f] = Absent
     IN job' = [job EXCEPT ![s].at = "settle", ![s].bad = bad,
                           ![s].read = [f \in bad |-> disk[f]],
                           ![s].out = [f \in Outputs(s) |-> disk[f]],
                           ![s].fresh = {f \in Outputs(s) : disk[f] # job[s].out[f]},
                           ![s].ok = @ /\ bad = {} /\ ~lost]
  /\ UNCHANGED <<db, disk>>
  /\ KeepTimes
  /\ KeepBuild

\* execute_job, last transaction: _classify_execution, update_file_hashes,
\* mark_completed and record_run_stopped.
Settle(s) ==
  /\ At(s, "settle")
  /\ LET j == job[s]
         badHashes == [f \in j.bad |-> j.read[f]]
         judged == IF j.bad = {} THEN db ELSE UpdateHashes(db, badHashes, "FAILED")
         new == [f \in j.fresh |-> j.out[f]]
         cause == IF j.ok THEN "SUCCEEDED" ELSE "FAILED"
         stored == UpdateHashes(judged, new, cause)
     IN IF ~Expected(db, badHashes, "FAILED") \/ ~Expected(judged, new, cause) THEN Raise
        ELSE /\ db' = IF j.ok THEN MarkSucceeded(stored, s, <<j.inp, j.out>>)
                      ELSE MarkUnsuccessful(stored, s, j.wait /\ j.bad = {})
             /\ due' = (due \/ j.bad # {})
             /\ overlap' = [t \in Step |-> IF t = s THEN {}
                              ELSE IF j.ok /\ db.state[t] = "RUNNING" THEN overlap[t] \cup {s}
                              ELSE overlap[t]]
             /\ job' = [job EXCEPT ![s] = NoJob]
             /\ UNCHANGED disk
             /\ KeepBuild

\* Mutant: the job loop ends although a step can be handed out.
EndBuildEarly ==
  /\ mode = "build" /\ ~due
  /\ \A s \in Step : job[s].at = "none"
  /\ mode' = "watch"
  /\ overlap' = [s \in Step |-> {}]
  /\ UNCHANGED <<db, disk, job, draining, due, changed, events>>

\* Builder.job_loop returns: nothing in flight and nothing to hand out.
EndBuild ==
  /\ mode = "build" /\ ~due
  /\ \A s \in Step : job[s].at = "none"
  /\ draining \/ \A s \in Step : ~Eligible(db, s)
  /\ mode' = "watch"
  /\ overlap' = [s \in Step |-> {}]
  /\ UNCHANGED <<db, disk, job, draining, due, changed, events>>

\* DirectorHandler.start_build_phase gives failed steps another chance and ends
\* the watch phase, and the watcher hashes the recorded files.
EndWatch ==
  /\ mode = "watch" /\ mode' = "rescan"
  /\ db' = MarkPending(db, {s \in Step : db.state[s] = "FAILED"})
  /\ changed' = {f \in changed : disk[f] # db.fhash[f]}
  /\ UNCHANGED <<disk, job, draining, due, overlap, events>>

\* Watcher.run_once and startup.rescan_files: the hash job of each changed file
\* applies its result in a transaction of its own, in any order.
Rescan(f) ==
  /\ mode = "rescan" /\ f \in changed
  /\ db' = UpdateHashes(db, [g \in {f} |-> disk[g]], "EXTERNAL")
  /\ changed' = changed \ {f}
  /\ UNCHANGED <<disk, job, mode, draining, due, overlap, events>>

StartBuild ==
  /\ mode = "rescan" /\ changed = {}
  /\ mode' = "build"
  /\ draining' = FALSE
  /\ UNCHANGED <<db, disk, job, due, overlap, changed, events>>

\* The user writes or removes a file.
\* Watcher.record_change: PLANNED files do not count.
Edit(f) ==
  /\ events < MaxEvents
  /\ (mode = "watch" /\ f \in WatchEdits) \/ (mode = "build" /\ f \in BuildEdits)
  /\ \E content \in {Typed(events + 1), Absent} \ {disk[f]} :
       disk' = [disk EXCEPT ![f] = content]
  /\ changed' = IF db.fstate[f] = "PLANNED" THEN changed ELSE changed \cup {f}
  /\ events' = events + 1
  /\ UNCHANGED <<db, job, mode, draining, due, overlap>>

\* The director stops or dies at any time and is started again:
\* startup.reset_interrupted_steps, then rescan_files of what is not PLANNED.
Restart ==
  /\ events < MaxEvents
  /\ LET failed == {s \in Step : db.state[s] \in {"RUNNING", "FAILED"}}
         checked == {s \in Step : db.state[s] = "CHECKING"}
         d1 == SetStates(SetStates(db, failed, "FAILED"), checked, "PENDING")
     IN /\ db' = MarkPending([d1 EXCEPT !.deferred = @ \ failed], failed)
        /\ changed' = {f \in File : db'.fstate[f] # "PLANNED" /\ disk[f] # db'.fhash[f]}
  /\ job' = [s \in Step |-> NoJob]
  /\ overlap' = [s \in Step |-> {}]
  /\ mode' = "rescan"
  /\ due' = FALSE
  /\ events' = events + 1
  /\ UNCHANGED <<disk, draining>>

JobStep(s) ==
  \/ Verify(s) \/ Reject(s) \/ GiveUp(s) \/ NoSkip(s) \/ StillValid(s) \/ TrySkip(s)
  \/ Reset(s) \/ Read(s) \/ Amend(s) \/ Write(s) \/ Stumble(s)
  \/ Collect(s) \/ HashFiles(s) \/ Settle(s)

Next ==
  \/ \E s \in Step : Pop(s) \/ JobStep(s)
  \/ Drain \/ EndBuild \/ EndWatch \/ StartBuild \/ Restart
  \/ \E f \in File : Rescan(f) \/ Edit(f)

Spec == Init /\ [][Next]_vars

(***************************************************************************)
(* Fairness: the event loop does not stop while a job, the job loop or the *)
(* draining can go on; commands and hash threads end.  Nothing is assumed  *)
(* about which of them goes first.  The user and crashes are not fair.     *)
(***************************************************************************)
Progress ==
  \/ \E s \in Step : Pop(s) \/ JobStep(s)
  \/ Drain \/ EndBuild

Fairness == WF_vars(Progress)

FairSpec == Spec /\ Fairness
-----------------------------------------------------------------------------
\* Type invariant, with the CHECK constraints of the step table.
TypeOK ==
  /\ db.state \in [Step -> {"PENDING", "CHECKING", "RUNNING", "SUCCEEDED", "FAILED"}]
  /\ db.deferred \subseteq {s \in Step : db.state[s] = "PENDING"}
  /\ db.count \in [Step -> Nat]
  /\ db.dynamic \subseteq Step
  /\ db.fstate \in [File -> {"CONFIRMED", "MISSING", "PLANNED", "BUILT", "OUTDATED"}]
  /\ \A f \in File : db.fhash[f] = Absent <=> db.fstate[f] \in {"PLANNED", "MISSING"}
  /\ \A s \in Step : db.state[s] = "SUCCEEDED" => db.hash[s] # NoHash
  /\ \A s \in Step : db.state[s] = "RUNNING" => db.hash[s] = NoHash
  /\ mode \in {"build", "watch", "rescan", "raised"}
  /\ {draining, due} \subseteq BOOLEAN
  /\ changed \subseteq File
  /\ events \in 0 .. MaxEvents

(***************************************************************************)
(* Workflow._check_consistency: the outputs of a SUCCEEDED step are BUILT. *)
(* Conversely a BUILT file, which its consumers may use, was made by a     *)
(* step that is SUCCEEDED now: no job, edit or restart comes between.      *)
(***************************************************************************)
BuiltBySucceeded ==
  \A f \in File \ StaticFiles :
    db.fstate[f] = "BUILT" <=> db.state[Maker[f]] = "SUCCEEDED"

\* No lost wake-up: a step is kept deferred only while one of the inputs it
\* amended is not available (Step.mark_completed, Workflow.mark_step_pending).
DeferredIsBlocked ==
  \A s \in db.deferred : \E f \in DynInputs(db, s) : ~Available(db, f)

(***************************************************************************)
(* Reproducibility: the outputs of a SUCCEEDED step are what its command   *)
(* makes of its present inputs, when what is recorded of both is on disk.  *)
(***************************************************************************)
Recent(s) ==
  \A f \in Inp[s] \cup Dyn[s] \cup Outputs(s) : Available(db, f) /\ disk[f] = db.fhash[f]

UpToDate ==
  \A s \in Step : db.state[s] = "SUCCEEDED" /\ Recent(s) =>
    \A f \in Outputs(s) : disk[f] = Made(s, [g \in Inp[s] \cup Dyn[s] |-> disk[g]])

\* No command writes a file that is an initial input of another running
\* command: what a step reads is not rebuilt under it.
InputsStay ==
  [][mode = "build" => \A s \in Step : db.state[s] = "RUNNING" =>
       \A f \in Inp[s] \ StaticFiles : disk'[f] = disk[f]]_vars

\* A build phase ends.
BuildEnds == mode = "build" ~> mode # "build"

\* At the end of a build that was not drained, a step that is left PENDING
\* lacks an input that is MISSING or that a step failed to make.
Unmade(f) == db.fstate[f] = "MISSING" \/ (f \notin StaticFiles /\ db.state[Maker[f]] # "SUCCEEDED")
PendingHasCause ==
  mode = "watch" /\ ~draining /\ changed = {} =>
    \A s \in Step : db.state[s] = "PENDING" => \E f \in Inputs(db, s) : Unmade(f)
=============================================================================
