------------------------------ MODULE PhasesProofs ------------------------------
(***************************************************************************)
(* Proofs about Phases, for any steps, files, clients and modes, and any   *)
(* number of edits, shutdown calls and signals.                            *)
(***************************************************************************)
EXTENDS Phases, TLAPS

Building == build \in {"jobs", "final"}
InPhase == watch \in {"begin", "watching", "closing", "hashing"}
Asked == \E c \in Client : client[c] \in {"mark", "await"}

\* The shape of the variables.
Types ==
  /\ build \in {"wait", "jobs", "final", "off"}
  /\ watch \in {"wait", "begin", "watching", "closing", "hashing", "off"}
  /\ step \in [Step -> {"pending", "starting", "running", "killed", "succeeded", "failed"}]
  /\ client \in [Client -> {"idle", "mark", "await", "idling", "observing"}]
  /\ ev \in [resume : BOOLEAN, stop : BOOLEAN, start : BOOLEAN,
             busy : BOOLEAN, done : BOOLEAN, end : BOOLEAN]

\* There is one permission to start a phase: it is with build_loop while it
\* builds, with the watcher from start_watching until done_watching, with a
\* caller that start_build_phase let through, or in the event resume.  Once the
\* stop event is set it is of no use, for build_loop then ends instead.
Handover ==
  /\ ev.busy <=> watch = "watching"
  /\ Building => ~InPhase /\ ~ev.resume /\ ~ev.start /\ ~Asked
  /\ ev.resume /\ ~ev.stop => ~InPhase /\ ~ev.start /\ ~Asked
  /\ \A c \in Client : client[c] = "mark" => watch \in {"watching", "closing"}
  /\ Asked /\ ev.done => ~InPhase /\ ~ev.start
  /\ InPhase => ~ev.done

\* Where an edit is that the database does not know of.
Kept ==
  /\ check \subseteq changed
  /\ disk \in [File -> Nat] /\ hash \in [File -> Nat]
  /\ \A f \in File : disk[f] # hash[f] => f \in queue \cup changed
  /\ watch = "hashing" => \A f \in File : disk[f] # hash[f] => f \in queue \cup check
-----------------------------------------------------------------------------
(***************************************************************************)
(* The types.                                                              *)
(***************************************************************************)

\* An event of ev is changed by itself.
LEMMA TypesInit == Init => Types
BY DEF Init, Types

LEMMA TypesNext == Types /\ [Next]_vars => Types'
<1> SUFFICES ASSUME Types, [Next]_vars PROVE Types'
  OBVIOUS
<1> USE DEF Types
<1>1. CASE BuildLoop
  BY <1>1 DEF BuildLoop, RunOnce, JobLoopEnds, Finalized
<1>2. CASE \E s \in Step : Run(s)
  BY <1>2 DEF Run, StepStarts, StepLaunches, StepSucceeds, StepFails
<1>3. CASE WatchLoop
  <2>1. CASE WatchStarts
    BY <2>1 DEF WatchStarts
  <2>2. CASE DrainQueue
    BY <2>2 DEF DrainQueue
  <2>3. CASE WatchEnds
    BY <2>3 DEF WatchEnds
  <2>4. CASE OldHashes
    BY <2>4 DEF OldHashes
  <2>5. CASE DoneWatching
    BY <2>5 DEF DoneWatching
  <2>6. ASSUME NEW f \in File, RecordChange(f) \/ UpdateHash(f) PROVE Types'
    BY <2>6 DEF RecordChange, UpdateHash
  <2> QED BY <1>3, <2>1, <2>2, <2>3, <2>4, <2>5, <2>6 DEF WatchLoop
<1>4. ASSUME NEW c \in Client, Serve(c) \/ StartBuildPhase(c) \/ WaitForIdle(c) \/ WaitForUpdate(c)
      PROVE  Types'
  <2>1. CASE MarkFailed(c)
    BY <2>1 DEF MarkFailed
  <2>2. CASE WaitEnds(c)
    BY <2>2 DEF WaitEnds
  <2>3. CASE StartBuildPhase(c) \/ WaitForIdle(c) \/ WaitForUpdate(c)
    BY <2>3 DEF StartBuildPhase, WaitForIdle, WaitForUpdate, Call
  <2> QED BY <1>4, <2>1, <2>2, <2>3 DEF Serve
<1>5. CASE Resume
  BY <1>5 DEF Resume
<1>6. CASE WatchFirstLoop
  BY <1>6 DEF WatchFirstLoop, FirstLoop, StartBuildPhase, Call
<1>7. CASE Drain \/ Signal \/ Gathered \/ \E f \in File : Edit(f)
  BY <1>7 DEF Drain, Signal, Gathered, Edit
<1>8. CASE Shutdown \/ InterruptStops \/ GraceEnds
  <2>1. ASSUME NEW kill \in BOOLEAN, Interrupt(kill)
        PROVE  step' \in [Step -> {"pending", "starting", "running", "killed", "succeeded", "failed"}]
    BY <2>1 DEF Interrupt
  <2>2. ASSUME StopScheduling
        PROVE  ev' \in [resume : BOOLEAN, stop : BOOLEAN, start : BOOLEAN,
                        busy : BOOLEAN, done : BOOLEAN, end : BOOLEAN]
    BY <2>2 DEF StopScheduling, Watching
  <2>3. CASE Shutdown
    <3>1. /\ StopScheduling
          /\ step' = step \/ Interrupt(sigkill)
          /\ UNCHANGED <<build, watch, client>>
      BY <2>3 DEF Shutdown
    <3>2. Interrupt(sigkill) => Interrupt(TRUE) \/ Interrupt(FALSE)
      BY DEF Interrupt
    <3> QED BY <2>1, <2>2, <3>1, <3>2
  <2>4. CASE InterruptStops
    BY <2>1, <2>2, <2>4 DEF InterruptStops
  <2>5. CASE GraceEnds
    BY <2>1, <2>5 DEF GraceEnds
  <2> QED BY <1>8, <2>3, <2>4, <2>5
<1>9. CASE UNCHANGED vars
  BY <1>9 DEF vars, files, ending
<1> QED
  BY <1>1, <1>2, <1>3, <1>4, <1>5, <1>6, <1>7, <1>8, <1>9 DEF Next, Ending

THEOREM TypesAlways == Spec => []Types
BY TypesInit, TypesNext, PTL DEF Spec
-----------------------------------------------------------------------------
(***************************************************************************)
(* One permission.                                                         *)
(***************************************************************************)
LEMMA HandoverInit == Init => Handover
BY DEF Init, Handover, Building, InPhase, Asked

\* build_loop has the permission from the end of its wait until it sets
\* start_watching or the stop event.
LEMMA BuildLoopHandsOver ==
  ASSUME Types, Handover, BuildLoop PROVE Handover'
<1> USE DEF Types, Handover, Building, InPhase, Asked
<1>1. CASE RunOnce
  BY <1>1 DEF RunOnce
<1>2. CASE JobLoopEnds
  BY <1>2 DEF JobLoopEnds
<1>3. CASE Finalized
  BY <1>3 DEF Finalized
<1> QED BY <1>1, <1>2, <1>3 DEF BuildLoop

\* The watcher has it until it sets done_watching, and keeps it while a call
\* that came past busy_watching has not had its transaction.
LEMMA WatchLoopHandsOver ==
  ASSUME Types, Handover, WatchLoop PROVE Handover'
<1> USE DEF Types, Handover, Building, InPhase, Asked
<1>1. CASE WatchStarts
  BY <1>1 DEF WatchStarts
<1>2. CASE DrainQueue
  BY <1>2 DEF DrainQueue
<1>3. CASE WatchEnds
  BY <1>3 DEF WatchEnds
<1>4. CASE OldHashes
  BY <1>4 DEF OldHashes
<1>5. CASE DoneWatching
  BY <1>5 DEF DoneWatching
<1>6. ASSUME NEW f \in File, RecordChange(f) \/ UpdateHash(f) PROVE Handover'
  BY <1>6 DEF RecordChange, UpdateHash
<1> QED BY <1>1, <1>2, <1>3, <1>4, <1>5, <1>6 DEF WatchLoop

\* A call gets it from busy_watching, and gives it to build_loop with resume.
LEMMA CallsHandOver ==
  ASSUME Types, Handover,
         \/ Resume
         \/ \E c \in Client : Serve(c) \/ StartBuildPhase(c) \/ WaitForIdle(c) \/ WaitForUpdate(c)
  PROVE  Handover'
<1> USE DEF Types, Handover, Building, InPhase, Asked
<1>1. CASE Resume
  BY <1>1 DEF Resume
<1>2. ASSUME NEW c \in Client, Serve(c) \/ StartBuildPhase(c) \/ WaitForIdle(c) \/ WaitForUpdate(c)
      PROVE  Handover'
  <2>1. CASE MarkFailed(c)
    BY <2>1 DEF MarkFailed
  <2>2. CASE WaitEnds(c)
    BY <2>2 DEF WaitEnds
  <2>3. CASE StartBuildPhase(c)
    BY <2>3 DEF StartBuildPhase, Call
  <2>4. CASE WaitForIdle(c) \/ WaitForUpdate(c)
    BY <2>4 DEF WaitForIdle, WaitForUpdate, Call
  <2> QED BY <1>2, <2>1, <2>2, <2>3, <2>4 DEF Serve
<1> QED BY <1>1, <1>2

LEMMA HandoverNext == Types /\ Handover /\ [Next]_vars => Handover'
<1> SUFFICES ASSUME Types, Handover, [Next]_vars PROVE Handover'
  OBVIOUS
<1>1. CASE \E s \in Step : Run(s)
  BY <1>1 DEF Run, StepStarts, StepLaunches, StepSucceeds, StepFails,
              Handover, Building, InPhase, Asked
<1>2. CASE FirstLoop \/ Drain \/ Signal \/ Gathered \/ \E f \in File : Edit(f)
  BY <1>2 DEF FirstLoop, Drain, Signal, Gathered, Edit, Handover, Building, InPhase, Asked
<1>3. CASE Shutdown \/ InterruptStops
  <2>1. UNCHANGED <<build, watch, client>> /\ StopScheduling
    BY <1>3 DEF Shutdown, InterruptStops
  <2> QED
    BY <2>1 DEF StopScheduling, Types, Handover, Building, InPhase, Asked, Watching
<1>4. CASE GraceEnds
  BY <1>4 DEF GraceEnds, Handover, Building, InPhase, Asked
<1>5. CASE UNCHANGED vars
  BY <1>5 DEF vars, Handover, Building, InPhase, Asked
<1>6. CASE StartBuildPhase(First)
  BY <1>6, CallsHandOver, ModesAssumption
<1> QED
  BY <1>1, <1>2, <1>3, <1>4, <1>5, <1>6, BuildLoopHandsOver, WatchLoopHandsOver, CallsHandOver
  DEF Next, WatchFirstLoop, Ending

-----------------------------------------------------------------------------
(***************************************************************************)
(* No edit is lost.                                                        *)
(***************************************************************************)
LEMMA KeptInit == Init => Kept
BY DEF Init, Kept

LEMMA KeptNext == Kept /\ [Next]_vars => Kept'
<1> SUFFICES ASSUME Kept, [Next]_vars PROVE Kept'
  OBVIOUS
<1> USE DEF Kept
<1>1. CASE DrainQueue
  BY <1>1 DEF DrainQueue
<1>2. CASE OldHashes
  BY <1>2 DEF OldHashes
<1>3. CASE DoneWatching
  BY <1>3 DEF DoneWatching
<1>4. ASSUME NEW f \in File, RecordChange(f) PROVE Kept'
  BY <1>4 DEF RecordChange
<1>5. ASSUME NEW f \in File, UpdateHash(f) PROVE Kept'
  BY <1>5 DEF UpdateHash
<1>6. ASSUME NEW f \in File, Edit(f) PROVE Kept'
  BY <1>6 DEF Edit
<1>7. CASE WatchStarts \/ WatchEnds
  BY <1>7 DEF WatchStarts, WatchEnds, files
<1>8. CASE UNCHANGED <<watch, files>>
  BY <1>8 DEF files
<1>9. CASE BuildLoop
  BY <1>8, <1>9 DEF BuildLoop, RunOnce, JobLoopEnds, Finalized
<1>10. CASE \E s \in Step : Run(s)
  BY <1>8, <1>10 DEF Run, StepStarts, StepLaunches, StepSucceeds, StepFails
<1>11. CASE \/ Resume
            \/ \E c \in Client : Serve(c) \/ StartBuildPhase(c) \/ WaitForIdle(c) \/ WaitForUpdate(c)
  BY <1>8, <1>11 DEF Resume, Serve, MarkFailed, WaitEnds, StartBuildPhase, WaitForIdle,
                     WaitForUpdate
<1>12. CASE WatchFirstLoop
  BY <1>8, <1>12 DEF WatchFirstLoop, FirstLoop, StartBuildPhase
<1>13. CASE Drain \/ Shutdown \/ Signal \/ Ending
  BY <1>8, <1>13 DEF Drain, Shutdown, Signal, Ending, InterruptStops, GraceEnds, Gathered
<1>14. CASE UNCHANGED vars
  BY <1>8, <1>14 DEF vars
<1> QED
  BY <1>1, <1>2, <1>3, <1>4, <1>5, <1>6, <1>7, <1>9, <1>10, <1>11, <1>12, <1>13, <1>14
  DEF Next, WatchLoop

\* Watcher: an edit that the database does not know of is queued or recorded,
\* in whatever phase it is made.
THEOREM EditsKeptAlways == Spec => []EditsKept
<1>1. Kept => EditsKept
  BY DEF Kept, EditsKept
<1> QED BY <1>1, KeptInit, KeptNext, PTL DEF Spec

\* gather_hashes relies on this: while a build phase is on, there is no watch
\* phase, and nobody has asked for another phase of either kind.
THEOREM ExclusiveAlways == Spec => []Exclusive
<1>1. Init => Handover /\ Kept
  BY HandoverInit, KeptInit
<1>2. Types /\ Handover /\ Kept /\ [Next]_vars => Handover' /\ Kept'
  BY HandoverNext, KeptNext
<1>3. Types /\ Handover /\ Kept => Exclusive
  BY DEF Types, Handover, Kept, Exclusive, TypeOK, PhasesExclusive, Building, InPhase
<1> QED BY TypesAlways, <1>1, <1>2, <1>3, PTL DEF Spec
=============================================================================
