------------------------------- MODULE JobLoop -------------------------------
(***************************************************************************)
(* One build phase: Builder.job_loop, the hash queue it drains with        *)
(* priority, and the remote calls of the running steps that submit hash    *)
(* jobs or wait for them.  The event loop runs one action at a time; an    *)
(* action ends where the code awaits.                                      *)
(***************************************************************************)
EXTENDS Naturals, Sequences, FiniteSets, SequencesExt

CONSTANTS Step, Boot,  \* the steps, and the one that is defined before the phase
          File,        \* static files
          TreeFile,    \* those inside a static tree, which any use declares
          Gone,        \* the files that are not on disk
          Unreadable,  \* those whose hash may fail to be computed
          Faulty,      \* the steps whose task may end on an exception
          Declares, Creates, Uses, Amends,  \* what each step asks for
          NJob         \* the number of job slots

\* A task is a step or the number of a hash job.
ASSUME PhaseAssumption == Boot \in Step /\ NJob \in Nat \ {0} /\ Step \cap Nat = {}
ASSUME FilesAssumption ==
  /\ IsFiniteSet(File)
  /\ TreeFile \subseteq File /\ Gone \subseteq File /\ Unreadable \subseteq File
ASSUME RequestsAssumption ==
  /\ Declares \in [Step -> SUBSET File] /\ Uses \in [Step -> SUBSET File]
  /\ Amends \in [Step -> SUBSET File] /\ Creates \in [Step -> SUBSET Step]

VARIABLES
  loop,      \* where job_loop is
  wake,      \* wake_job_loop
  draining,
  running, done,  \* running_tasks and done_tasks: steps and numbers of hash jobs
  at,        \* at[s]: where the step s is
  todo,      \* todo[s]: the requests that s still makes in this run
  ok,        \* ok[s]: whether no request of s failed or asked to defer
  waits,     \* waits[s]: the paths to check, then the jobs that amend_step awaits
  file,      \* file[f]: its state, "none" when it is not in the graph
  job,       \* the hash jobs, in order of submission
  queue      \* the numbers of the jobs that are not popped; they are popped in order

phase == <<loop, draining, running, done>>
step == <<at, todo, ok, waits>>
hash == <<file, job, queue>>
vars == <<loop, wake, draining, running, done, step, hash>>

Requests(s) ==
  {r \in {"declare", "create", "amend"} :
     [declare |-> Declares, create |-> Creates, amend |-> Amends][r][s] # {}}

Init ==
  /\ loop = "poll" /\ wake = FALSE /\ draining = FALSE
  /\ running = {} /\ done = {}
  /\ at = [s \in Step |-> IF s = Boot THEN "pending" ELSE "undefined"]
  /\ todo = [s \in Step |-> {}]
  /\ ok = [s \in Step |-> TRUE]
  /\ waits = [s \in Step |-> {}]
  /\ file = [f \in File |-> "none"]
  /\ job = <<>> /\ queue = {}
-----------------------------------------------------------------------------
(***************************************************************************)
(* HashQueue.                                                              *)
(***************************************************************************)
InFlight(f) == {j \in DOMAIN job : job[j].path = f /\ job[j].future = "none"}

Fresh(F) == SetToSeq({f \in F : InFlight(f) = {}})

New(f) == [path |-> f, at |-> "queued", runners |-> {}, future |-> "none"]

\* submit() for each path, and the jobs as they are then.
Submitted(F) == job \o [i \in DOMAIN Fresh(F) |-> New(Fresh(F)[i])]
Numbers(F) == Len(job) + 1 .. Len(job) + Len(Fresh(F))
Enqueue(F) == queue' = queue \cup Numbers(F) /\ wake' = (wake \/ Numbers(F) # {})

Claimed(js, J, r) ==
  [j \in DOMAIN js |-> IF j \notin J THEN js[j]
                       ELSE [js[j] EXCEPT !.at = "hashing", !.runners = @ \cup {r}]]

\* Mutant: what a step runs itself is taken from the queue again.
UnclaimedAll == queue
Unclaimed == {j \in queue : job[j].runners = {}}
-----------------------------------------------------------------------------
(***************************************************************************)
(* Builder.job_loop.                                                       *)
(***************************************************************************)
FreeSlots == NJob - Cardinality(running)

\* The oldest jobs that nobody has claimed, as many as there are slots.
Poppable(J) ==
  /\ \A j \in J, k \in Unclaimed \ J : j < k
  /\ Cardinality(J) <= FreeSlots /\ (J = Unclaimed \/ Cardinality(J) = FreeSlots)

Eligible(s) ==
  /\ at[s] \in {"pending", "deferred"}
  /\ \A f \in Uses[s] \cup (IF at[s] = "deferred" THEN Amends[s] ELSE {}) :
       file[f] = "CONFIRMED"

\* The end of an iteration: leave, or wait for wake_job_loop and clear it.
Rest(run, finished, woken) ==
  /\ loop' = IF run \cup finished = {} THEN "left" ELSE IF woken THEN "poll" ELSE "parked"
  /\ wake' = (woken /\ run \cup finished = {})

\* handle_done_tasks, then the hash jobs as far as there are slots.
Poll ==
  /\ loop = "poll"
  /\ done' = {}
  /\ \E popped \in SUBSET Unclaimed :
       /\ Poppable(popped)
       /\ job' = Claimed(job, popped, "loop")
       /\ queue' = Unclaimed \ popped
       /\ running' = running \cup popped
       /\ LET woken == wake \/ done # {}
          IN IF Cardinality(popped) < FreeSlots /\ ~draining THEN loop' = "pop" /\ wake' = woken
             ELSE Rest(running \cup popped, {}, woken)
  /\ UNCHANGED <<draining, step, file>>

\* A task that raised takes the loop down.
PollRaises ==
  /\ loop = "poll"
  /\ \E s \in done \cap Faulty : done' = done \ {s}
  /\ loop' = "raised" /\ draining' = TRUE
  /\ UNCHANGED <<wake, running, step, hash>>

\* pop_next_job holds the lock by now, and has looked at draining before.
PopStep(s) ==
  /\ loop = "pop" /\ Eligible(s)
  /\ loop' = "poll"
  /\ running' = running \cup {s}
  /\ at' = [at EXCEPT ![s] = "running"]
  /\ todo' = [todo EXCEPT ![s] = Requests(s)]
  /\ ok' = [ok EXCEPT ![s] = TRUE]
  /\ UNCHANGED <<wake, draining, done, waits, hash>>

PopNothing ==
  /\ loop = "pop" /\ \A s \in Step : ~Eligible(s)
  /\ Rest(running, done, wake)
  /\ UNCHANGED <<draining, running, done, step, hash>>

Wake ==
  /\ loop = "parked" /\ wake
  /\ loop' = "poll" /\ wake' = FALSE
  /\ UNCHANGED <<draining, running, done, step, hash>>

Ended(t) == IF t \in Step THEN at[t] = "ended" ELSE job[t].at = "ended"

AfterRun(t) ==
  IF t \in Step THEN [at EXCEPT ![t] = IF ok[t] THEN "succeeded" ELSE "deferred"] ELSE at

\* Mutant: the done callback wakes nobody.
TaskDoneQuiet(t) ==
  /\ t \in running /\ Ended(t)
  /\ running' = running \ {t} /\ done' = done \cup {t}
  /\ at' = AfterRun(t)
  /\ UNCHANGED <<loop, wake, draining, todo, ok, waits, hash>>

\* The done callback of the task.
TaskDone(t) ==
  /\ t \in running /\ Ended(t)
  /\ running' = running \ {t} /\ done' = done \cup {t} /\ wake' = TRUE
  /\ at' = AfterRun(t)
  /\ UNCHANGED <<loop, draining, todo, ok, waits, hash>>
-----------------------------------------------------------------------------
(***************************************************************************)
(* Remote calls of a running step.                                         *)
(***************************************************************************)
Asks(s, r) ==
  /\ at[s] = "running" /\ r \in todo[s]
  /\ todo' = [todo EXCEPT ![s] = @ \ {r}]

Declared(F) == [f \in File |-> IF f \in F /\ file[f] = "none" THEN "UNCONFIRMED" ELSE file[f]]
Unconfirmed(F) == {f \in F : Declared(F)[f] = "UNCONFIRMED"}

DeclareStatic(s) ==
  /\ Asks(s, "declare")
  /\ file' = Declared(Declares[s])
  /\ job' = Submitted(Unconfirmed(Declares[s])) /\ Enqueue(Unconfirmed(Declares[s]))
  /\ UNCHANGED <<phase, at, ok, waits>>

DefineSteps(s) ==
  LET new == {t \in Creates[s] : at[t] = "undefined"}
      used == TreeFile \cap UNION {Uses[t] : t \in new}
  IN /\ Asks(s, "create")
     /\ at' = [t \in Step |-> IF t \in new THEN "pending" ELSE at[t]]
     /\ file' = Declared(used)
     /\ job' = Submitted(Unconfirmed(used))
     /\ queue' = queue \cup Numbers(Unconfirmed(used))
     /\ wake' = TRUE
     /\ UNCHANGED <<phase, ok, waits>>

\* amend_step: the transaction that adds the inputs to the graph.
Amend(s) ==
  LET used == TreeFile \cap Amends[s]
      known == [f \in File |-> IF f \in used THEN Declared(used)[f] ELSE file[f]]
  IN /\ Asks(s, "amend")
     /\ file' = known
     /\ at' = [at EXCEPT ![s] = "checking"]
     /\ waits' = [waits EXCEPT ![s] = {f \in Amends[s] : known[f] = "UNCONFIRMED"}]
     /\ UNCHANGED <<phase, wake, ok, job, queue>>

\* Mutant: the step leaves the jobs to the queue.
PromoteQueued(s) ==
  LET js == Submitted(waits[s])
      J == {j \in DOMAIN js : js[j].path \in waits[s] /\ js[j].future = "none"}
  IN /\ at[s] = "checking"
     /\ job' = js /\ Enqueue(waits[s])
     /\ waits' = [waits EXCEPT ![s] = J]
     /\ at' = [at EXCEPT ![s] = "amending"]
     /\ UNCHANGED <<phase, todo, ok, file>>

\* run_promoted_hash_jobs: run at once what nobody has claimed.
Promote(s) ==
  LET js == Submitted(waits[s])
      J == {j \in DOMAIN js : js[j].path \in waits[s] /\ js[j].future = "none"}
  IN /\ at[s] = "checking"
     /\ job' = Claimed(js, {j \in J : js[j].runners = {}}, s) /\ Enqueue(waits[s])
     /\ waits' = [waits EXCEPT ![s] = J]
     /\ at' = [at EXCEPT ![s] = "amending"]
     /\ UNCHANGED <<phase, todo, ok, file>>

Broken(s) == \E j \in waits[s] : job[j].future \in {"failed", "cancelled"}

\* gather() returns or raises; the states of the inputs are read again.
AmendReturns(s) ==
  /\ at[s] = "amending"
  /\ Broken(s) \/ \A j \in waits[s] : job[j].future = "result"
  /\ at' = [at EXCEPT ![s] = IF loop = "stopped" THEN "ended" ELSE "running"]
  /\ ok' = [ok EXCEPT ![s] = ~Broken(s) /\ \A f \in Amends[s] : file[f] = "CONFIRMED"]
  /\ waits' = [waits EXCEPT ![s] = {}]
  /\ UNCHANGED <<phase, wake, todo, hash>>

CommandEnds(s) ==
  /\ at[s] = "running" /\ todo[s] = {}
  /\ at' = [at EXCEPT ![s] = "ended"]
  /\ UNCHANGED <<phase, wake, todo, ok, waits, hash>>
-----------------------------------------------------------------------------
(***************************************************************************)
(* Executor.run_hash_job.                                                  *)
(***************************************************************************)
\* Mutant: the future is resolved before the result is written.
HashDoneResolves(j) ==
  /\ job[j].at = "hashing"
  /\ job' = [job EXCEPT ![j].at = "apply", ![j].future = "result"]
  /\ UNCHANGED <<phase, wake, step, file, queue>>

\* The thread ends, and its result waits for the database.
HashDone(j) ==
  /\ job[j].at = "hashing"
  /\ job' = [job EXCEPT ![j].at = "apply"]
  /\ UNCHANGED <<phase, wake, step, file, queue>>

HashFails(j) ==
  /\ job[j].at = "hashing" /\ job[j].path \in Unreadable
  /\ job' = [job EXCEPT ![j].at = "ended", ![j].future = "failed"]
  /\ draining' = TRUE
  /\ UNCHANGED <<loop, wake, running, done, step, file, queue>>

Apply(j) ==
  /\ job[j].at = "apply"
  /\ file' = [file EXCEPT ![job[j].path] = IF job[j].path \in Gone THEN "MISSING" ELSE "CONFIRMED"]
  /\ job' = [job EXCEPT ![j].at = "ended", ![j].future = "result"]
  /\ UNCHANGED <<phase, wake, step, queue>>

\* The thread noticed the interrupt before it was done.
HashCancelled(j) ==
  /\ loop = "stopped" /\ job[j].at = "hashing"
  /\ job' = [job EXCEPT ![j].at = "ended", ![j].future = "cancelled"]
  /\ UNCHANGED <<phase, wake, step, file, queue>>

(***************************************************************************)
(* Builder.stop: the threads are interrupted, the queue is drained, and    *)
(* every task of the loop is cancelled where it waits, before a thread can *)
(* notice its interrupt.  The handlers of remote calls are left to end.    *)
(***************************************************************************)
Stop ==
  /\ loop = "raised"
  /\ loop' = "stopped" /\ running' = {} /\ queue' = {}
  /\ job' = [j \in DOMAIN job |->
               IF j \in running THEN [job[j] EXCEPT !.at = "ended"]
               ELSE IF job[j].at = "queued" THEN [job[j] EXCEPT !.at = "ended", !.future = "cancelled"]
               ELSE job[j]]
  /\ at' = [s \in Step |-> IF s \in running /\ at[s] = "running" THEN "ended" ELSE at[s]]
  /\ UNCHANGED <<wake, draining, done, todo, ok, waits, file>>
-----------------------------------------------------------------------------
Next ==
  \/ Poll \/ PollRaises \/ PopNothing \/ Wake \/ Stop
  \/ \E s \in Step : PopStep(s) \/ DeclareStatic(s) \/ DefineSteps(s) \/ CommandEnds(s)
  \/ \E s \in Step : Amend(s) \/ Promote(s) \/ AmendReturns(s)
  \/ \E t \in running : TaskDone(t)
  \/ \E j \in DOMAIN job : HashDone(j) \/ HashFails(j) \/ Apply(j) \/ HashCancelled(j)

(***************************************************************************)
(* Fairness: the event loop goes on, and commands and hash threads end.    *)
(***************************************************************************)
Spec == Init /\ [][Next]_vars
FairSpec == Spec /\ WF_vars(Next)
-----------------------------------------------------------------------------
\* Type invariant.
TypeOK ==
  /\ loop \in {"poll", "pop", "parked", "left", "raised", "stopped"}
  /\ at \in [Step -> {"undefined", "pending", "running", "checking", "amending", "ended",
                      "succeeded", "deferred"}]
  /\ file \in [File -> {"none", "UNCONFIRMED", "CONFIRMED", "MISSING"}]
  /\ Cardinality(running) <= NJob /\ queue \subseteq DOMAIN job
  /\ \A j \in DOMAIN job : job[j].future \in {"none", "result", "failed", "cancelled"}

\* The jobs that hash f, each with who runs it.
HashedBy(f) ==
  {run \in (DOMAIN job) \X (Step \cup {"loop"}) :
     /\ job[run[1]].path = f /\ job[run[1]].at \in {"hashing", "apply"}
     /\ run[2] \in job[run[1]].runners}

\* HashQueue.claim and in_flight: however a path is submitted, by the job loop
\* or by steps that wait for it, one thread hashes it at a time.
OneRunner ==
  \A f \in File : Cardinality(HashedBy(f)) <= 1

\* Builder.wake_job_loop: the loop never sleeps on a finished task, on a hash
\* job it could start, or on nothing at all.
NoLostWake ==
  loop = "parked" /\ ~wake =>
    /\ done = {} /\ running # {}
    /\ Cardinality(running) < NJob => \A j \in queue : job[j].runners # {}

\* Executor._run_hash_job resolves the future after the write, so a step that
\* wakes up never reads the state from before.
AmendSeesState ==
  \A s \in Step : at[s] = "amending" =>
    \A j \in waits[s] : job[j].future = "result" => file[job[j].path] # "UNCONFIRMED"

\* DirectorHandler.amend_step: steps that wait for hash jobs in every slot do
\* not keep one another waiting, and the phase ends.
PhaseEnds == <>(loop \in {"left", "stopped"})

\* The types, and one runner for each path.
HashedOnce == TypeOK /\ OneRunner
=============================================================================
