------------------------------- MODULE Phases -------------------------------
(***************************************************************************)
(* The director's loops and the events between them: build_loop and the    *)
(* job loop it runs, the watcher, watch_first_loop, remote calls that      *)
(* start a build phase, wait for its end or shut down, and terminal        *)
(* signals.  The contents of a file are a version number.                  *)
(***************************************************************************)
EXTENDS Naturals, FiniteSets

CONSTANTS Modes,     \* "build", "watch" (--watch), "first" (--watch-first)
          Client,    \* each makes remote calls, one at a time
          First,     \* the caller inside watch_first_loop, one of Client
          Step, File,
          Uses,      \* Uses[s]: the static files that s uses
          Stubborn,  \* the steps that end only when they are killed
          MaxEdit, MaxStop, MaxSignal  \* bounds on edits, shutdown calls, signals

ASSUME ModesAssumption == Modes \subseteq {"build", "watch", "first"} /\ First \in Client
ASSUME BoundsAssumption == {MaxEdit, MaxStop, MaxSignal} \subseteq Nat

VARIABLES
  mode,
  up,        \* whether gather() in _run_tasks has not returned
  build, watch, first,  \* where build_loop, Watcher.loop and watch_first_loop are
  ev,        \* the events of builder, watcher and handler
  draining,
  client,    \* client[c]: where its call is
  step,      \* step[s]: the state of s
  disk, hash,      \* the version of each file on disk and in the database
  queue,     \* change_queue
  changed,   \* Watcher.updated and Watcher.deleted
  check,     \* the changed files that are not hashed yet
  stops,     \* the number of shutdown calls
  sigkill,   \* whether the next shutdown call sends SIGKILL
  signals,   \* the number of terminal signals
  intr       \* where the task of DirectorHandler.interrupt is

files == <<disk, hash, queue, changed, check>>
ending == <<stops, sigkill, signals, intr>>
vars == <<mode, up, build, watch, first, ev, draining, client, step, files, ending>>

Watching == mode # "build"
AtWork == {s \in Step : step[s] \in {"starting", "running", "killed"}}

Init ==
  /\ mode \in Modes
  /\ up = TRUE /\ build = "wait"
  /\ watch = IF mode = "build" THEN "off" ELSE "wait"
  /\ first = IF mode = "first" THEN "busy" ELSE "off"
  /\ ev = [resume |-> TRUE, stop |-> FALSE, start |-> FALSE,
           busy |-> FALSE, done |-> FALSE, end |-> FALSE]
  /\ draining = FALSE
  /\ client = [c \in Client |-> "idle"]
  /\ step = [s \in Step |-> "pending"]
  /\ disk = [f \in File |-> 0] /\ hash = disk
  /\ queue = {} /\ changed = {} /\ check = {}
  /\ stops = 0 /\ sigkill = FALSE /\ signals = 0 /\ intr = "none"
-----------------------------------------------------------------------------
(***************************************************************************)
(* build_loop: Builder.run_once and what follows a phase.                  *)
(***************************************************************************)
RunOnce ==
  /\ build = "wait" /\ (ev.resume \/ ev.stop)
  /\ IF ev.stop THEN build' = "off" /\ UNCHANGED ev
     ELSE build' = "jobs" /\ ev' = [ev EXCEPT !.resume = FALSE]
  /\ UNCHANGED <<mode, up, watch, first, draining, client, step, files, ending>>

StepStarts(s) ==
  /\ build = "jobs" /\ ~draining /\ step[s] = "pending"
  /\ step' = [step EXCEPT ![s] = "starting"]
  /\ UNCHANGED <<mode, up, build, watch, first, ev, draining, client, files, ending>>

\* From here on the run has a worker, which signals reach.
StepLaunches(s) ==
  /\ step[s] = "starting"
  /\ step' = [step EXCEPT ![s] = "running"]
  /\ UNCHANGED <<mode, up, build, watch, first, ev, draining, client, files, ending>>

StepSucceeds(s) ==
  /\ step[s] = "running" /\ s \notin Stubborn
  /\ step' = [step EXCEPT ![s] = "succeeded"]
  /\ UNCHANGED <<mode, up, build, watch, first, ev, draining, client, files, ending>>

StepFails(s) ==
  /\ step[s] = "killed" \/ (step[s] = "running" /\ s \notin Stubborn)
  /\ step' = [step EXCEPT ![s] = "failed"]
  /\ draining' = TRUE
  /\ UNCHANGED <<mode, up, build, watch, first, ev, client, files, ending>>

JobLoopEnds ==
  /\ build = "jobs" /\ AtWork = {}
  /\ draining \/ \A s \in Step : step[s] # "pending"
  /\ build' = "final"
  /\ UNCHANGED <<mode, up, watch, first, ev, draining, client, step, files, ending>>

Finalized ==
  /\ build = "final"
  /\ build' = "wait"
  /\ ev' = IF Watching THEN [ev EXCEPT !.start = TRUE] ELSE [ev EXCEPT !.stop = TRUE]
  /\ UNCHANGED <<mode, up, watch, first, draining, client, step, files, ending>>
-----------------------------------------------------------------------------
(***************************************************************************)
(* Watcher.loop.                                                           *)
(***************************************************************************)
WatchStarts ==
  /\ watch = "wait" /\ (ev.start \/ ev.stop)
  /\ IF ev.stop THEN watch' = "off" /\ UNCHANGED ev
     ELSE watch' = "begin" /\ ev' = [ev EXCEPT !.done = FALSE]
  /\ UNCHANGED <<mode, up, build, first, draining, client, step, files, ending>>

\* Mutant: what arrived during the build is thrown away.
DrainQueueForgets ==
  /\ watch = "begin"
  /\ queue' = {} /\ UNCHANGED changed
  /\ watch' = "watching" /\ ev' = [ev EXCEPT !.busy = TRUE]
  /\ UNCHANGED <<mode, up, build, first, draining, client, step, disk, hash, check, ending>>

\* The changes of static files that arrived during the build.
DrainQueue ==
  /\ watch = "begin"
  /\ changed' = changed \cup queue /\ queue' = {}
  /\ watch' = "watching" /\ ev' = [ev EXCEPT !.busy = TRUE]
  /\ UNCHANGED <<mode, up, build, first, draining, client, step, disk, hash, check, ending>>

RecordChange(f) ==
  /\ watch = "watching" /\ f \in queue
  /\ queue' = queue \ {f} /\ changed' = changed \cup {f}
  /\ UNCHANGED <<mode, up, build, watch, first, ev, draining, client, step, disk, hash, check,
                 ending>>

\* iter_until_stopped yields the changes that are available first.
WatchEnds ==
  /\ watch = "watching" /\ ev.end /\ queue = {}
  /\ watch' = "closing" /\ ev' = [ev EXCEPT !.busy = FALSE]
  /\ UNCHANGED <<mode, up, build, first, draining, client, step, files, ending>>

\* The lock of the database is handed out in order, so every call that came
\* past busy_watching has had its transaction.
OldHashes ==
  /\ watch = "closing" /\ \A c \in Client : client[c] # "mark"
  /\ watch' = "hashing" /\ check' = changed
  /\ UNCHANGED <<mode, up, build, first, ev, draining, client, step, disk, hash, queue, changed,
                 ending>>

UpdateHash(f) ==
  /\ watch = "hashing" /\ f \in check
  /\ check' = check \ {f} /\ hash' = [hash EXCEPT ![f] = disk[f]]
  /\ step' = [s \in Step |-> IF hash[f] # disk[f] /\ f \in Uses[s] THEN "pending" ELSE step[s]]
  /\ UNCHANGED <<mode, up, build, watch, first, ev, draining, client, disk, queue, changed,
                 ending>>

\* Mutant: start_watching stays set.
DoneWatchingQuiet ==
  /\ watch = "hashing" /\ check = {}
  /\ changed' = {}
  /\ watch' = "wait" /\ ev' = [ev EXCEPT !.end = FALSE, !.done = TRUE]
  /\ UNCHANGED <<mode, up, build, first, draining, client, step, disk, hash, queue, check,
                 ending>>

\* The end of run_once, after which loop() clears start_watching at once.
DoneWatching ==
  /\ watch = "hashing" /\ check = {}
  /\ changed' = {}
  /\ watch' = "wait" /\ ev' = [ev EXCEPT !.end = FALSE, !.done = TRUE, !.start = FALSE]
  /\ UNCHANGED <<mode, up, build, first, draining, client, step, disk, hash, queue, check,
                 ending>>
-----------------------------------------------------------------------------
(***************************************************************************)
(* Remote calls.                                                           *)
(***************************************************************************)
Call(c, where) ==
  /\ up /\ client[c] = "idle"
  /\ client' = [client EXCEPT ![c] = where]

StartBuildPhase(c) ==
  /\ ev.busy /\ (c = First => first = "call") /\ Call(c, "mark")
  /\ UNCHANGED <<mode, up, build, watch, first, ev, draining, step, files, ending>>

\* Mutant: the watcher is not told to end.
MarkFailedQuiet(c) ==
  /\ client[c] = "mark"
  /\ step' = [s \in Step |-> IF step[s] = "failed" THEN "pending" ELSE step[s]]
  /\ client' = [client EXCEPT ![c] = "await"]
  /\ UNCHANGED <<mode, up, build, watch, first, ev, draining, files, ending>>

MarkFailed(c) ==
  /\ client[c] = "mark"
  /\ step' = [s \in Step |-> IF step[s] = "failed" THEN "pending" ELSE step[s]]
  /\ ev' = [ev EXCEPT !.end = TRUE]
  /\ client' = [client EXCEPT ![c] = "await"]
  /\ UNCHANGED <<mode, up, build, watch, first, draining, files, ending>>

\* Whoever waits for done_watching wakes up in the same turn of the event loop.
Resume ==
  /\ \E c \in Client : client[c] = "await"
  /\ ev.done \/ ev.stop
  /\ client' = [c \in Client |-> IF client[c] = "await" THEN "idle" ELSE client[c]]
  /\ draining' = FALSE /\ ev' = [ev EXCEPT !.resume = TRUE]
  /\ UNCHANGED <<mode, up, build, watch, first, step, files, ending>>

Drain ==
  /\ up /\ ~draining
  /\ draining' = TRUE
  /\ UNCHANGED <<mode, up, build, watch, first, ev, client, step, files, ending>>

WaitForIdle(c) ==
  /\ c # First /\ Call(c, "idling")
  /\ UNCHANGED <<mode, up, build, watch, first, ev, draining, step, files, ending>>

WaitForUpdate(c) ==
  /\ c # First /\ Watching /\ Call(c, "observing")
  /\ UNCHANGED <<mode, up, build, watch, first, ev, draining, step, files, ending>>

\* Mutant: without the stop event.
WaitEndsDeaf(c) ==
  /\ \/ client[c] = "idling" /\ ev.busy
     \/ client[c] = "observing" /\ changed # {}
  /\ client' = [client EXCEPT ![c] = "idle"]
  /\ UNCHANGED <<mode, up, build, watch, first, ev, draining, step, files, ending>>

WaitEnds(c) ==
  /\ \/ client[c] = "idling" /\ (ev.busy \/ ev.stop)
     \/ client[c] = "observing" /\ (changed # {} \/ ev.stop)
  /\ client' = [client EXCEPT ![c] = "idle"]
  /\ UNCHANGED <<mode, up, build, watch, first, ev, draining, step, files, ending>>

\* _stop_scheduling.
StopScheduling ==
  /\ draining' = TRUE
  /\ ev' = [ev EXCEPT !.stop = TRUE, !.end = @ \/ Watching]

\* Executor.interrupt: a run without a worker is passed over, and one that is
\* hashing is cancelled.
Interrupt(kill) ==
  \E hashing \in SUBSET {s \in Step : step[s] = "starting"} :
    step' = [s \in Step |-> IF s \in hashing \/ (kill /\ step[s] = "running") THEN "killed"
                            ELSE step[s]]

Shutdown ==
  /\ up /\ stops < MaxStop
  /\ stops' = stops + 1
  /\ StopScheduling
  /\ IF ev.stop THEN Interrupt(sigkill) /\ sigkill' = TRUE ELSE UNCHANGED <<step, sigkill>>
  /\ UNCHANGED <<mode, up, build, watch, first, client, files, signals, intr>>
-----------------------------------------------------------------------------
(***************************************************************************)
(* Terminal signals.                                                       *)
(***************************************************************************)
Signal ==
  /\ up /\ signals < MaxSignal
  /\ signals' = signals + 1
  /\ intr' = IF signals = 0 THEN "report" ELSE intr
  /\ UNCHANGED <<mode, up, build, watch, first, ev, draining, client, step, files, stops, sigkill>>

InterruptStops ==
  /\ intr = "report"
  /\ intr' = "grace" /\ sigkill' = TRUE
  /\ StopScheduling /\ Interrupt(FALSE)
  /\ UNCHANGED <<mode, up, build, watch, first, client, files, stops, signals>>

\* A step takes less than INTERRUPT_GRACE to launch its command; only a second
\* signal can come before it has.
GraceEnds ==
  /\ intr = "grace" /\ (signals > 1 \/ \A s \in Step : step[s] # "starting")
  /\ intr' = "done"
  /\ IF AtWork # {} THEN Interrupt(TRUE) ELSE UNCHANGED step
  /\ UNCHANGED <<mode, up, build, watch, first, ev, draining, client, files, stops, sigkill,
                 signals>>
-----------------------------------------------------------------------------
(***************************************************************************)
(* watch_first_loop, the end of _run_tasks, and the user's edits.          *)
(***************************************************************************)
FirstLoop ==
  /\ \/ first = "busy" /\ ev.busy /\ first' = "change"
     \/ first = "change" /\ (changed # {} \/ ev.stop)
        /\ first' = IF ev.stop THEN "off" ELSE "call"
     \/ first = "call" /\ client[First] = "idle" /\ ~ev.busy /\ first' = "busy"
  /\ UNCHANGED <<mode, up, build, watch, ev, draining, client, step, files, ending>>

Gathered ==
  /\ up /\ build = "off" /\ watch = "off" /\ first = "off"
  /\ up' = FALSE
  /\ UNCHANGED <<mode, build, watch, first, ev, draining, client, step, files, ending>>

\* A change of a static file, and the inotify event it causes.
Edit(f) ==
  /\ up /\ disk[f] < MaxEdit
  /\ disk' = [disk EXCEPT ![f] = @ + 1] /\ queue' = queue \cup {f}
  /\ UNCHANGED <<mode, up, build, watch, first, ev, draining, client, step, hash, changed, check,
                 ending>>
-----------------------------------------------------------------------------
BuildLoop == RunOnce \/ JobLoopEnds \/ Finalized
Run(s) == StepStarts(s) \/ StepLaunches(s) \/ StepSucceeds(s) \/ StepFails(s)
WatchLoop ==
  \/ WatchStarts \/ DrainQueue \/ WatchEnds \/ OldHashes \/ DoneWatching
  \/ \E f \in File : RecordChange(f) \/ UpdateHash(f)
Serve(c) == MarkFailed(c) \/ WaitEnds(c)
WatchFirstLoop == FirstLoop \/ StartBuildPhase(First)
Ending == InterruptStops \/ GraceEnds \/ Gathered

Next ==
  \/ BuildLoop \/ WatchLoop \/ WatchFirstLoop \/ Resume \/ Ending
  \/ \E s \in Step : Run(s)
  \/ \E c \in Client : Serve(c) \/ StartBuildPhase(c) \/ WaitForIdle(c) \/ WaitForUpdate(c)
  \/ Drain \/ Shutdown \/ Signal
  \/ \E f \in File : Edit(f)

(***************************************************************************)
(* Fairness: the event loop serves every task, a command that is not       *)
(* stubborn ends, and the sleeps of the director end.  Users and clients   *)
(* need not act.                                                           *)
(***************************************************************************)
Spec == Init /\ [][Next]_vars
FairSpec ==
  /\ Spec
  /\ WF_vars(BuildLoop) /\ WF_vars(WatchLoop) /\ WF_vars(WatchFirstLoop)
  /\ \A s \in Step : WF_vars(Run(s))
  /\ WF_vars(Resume) /\ \A c \in Client : WF_vars(Serve(c))
  /\ WF_vars(Ending)
-----------------------------------------------------------------------------
\* Type invariant.
TypeOK ==
  /\ build \in {"wait", "jobs", "final", "off"}
  /\ watch \in {"wait", "begin", "watching", "closing", "hashing", "off"}
  /\ step \in [Step -> {"pending", "starting", "running", "killed", "succeeded", "failed"}]
  /\ client \in [Client -> {"idle", "mark", "await", "idling", "observing"}]
  /\ ev.busy <=> watch = "watching"
  /\ check \subseteq changed

\* gather_hashes: build and watch phases are mutually exclusive, and nobody has
\* asked for a second build phase while one is on.
PhasesExclusive ==
  build \in {"jobs", "final"} => watch \in {"wait", "off"} /\ ~ev.resume /\ ~ev.start

\* Watcher: an edit of a static file that the database does not know of is
\* queued or recorded, in whatever phase it was made.
EditsKept == \A f \in File : disk[f] # hash[f] => f \in queue \cup changed

\* DirectorHandler.start_build_phase: a call that was let through leads to a
\* build phase, and a build phase to the watch phase, unless the director stops.
PhasesAlternate ==
  /\ \A c \in Client : client[c] \in {"mark", "await"} ~> build = "jobs" \/ ev.stop
  /\ build = "final" ~> ev.busy \/ ev.stop

\* DirectorHandler.interrupt: a single Ctrl-C is enough, whatever the steps do,
\* unless watch_first_loop waits for a watch phase.
InterruptEnds == signals = 1 ~> ~up \/ signals > 1 \/ first = "busy"

\* DirectorHandler.shutdown stops the loops and lets go of the calls that wait
\* for a phase; only a step that does not end holds it up, and watch_first_loop.
ShutdownEnds ==
  ev.stop ~> \/ ~up /\ \A c \in Client : client[c] = "idle"
             \/ \E s \in Stubborn : step[s] = "running"
             \/ first = "busy"

\* The types, and the exclusion of build and watch phases.
Exclusive == TypeOK /\ PhasesExclusive

\* Ctrl-C and shutdown bring the director down.
StopEnds == InterruptEnds /\ ShutdownEnds
=============================================================================
