------------------------------- MODULE SafeMeta -------------------------------
(***************************************************************************)
(* The incrementally maintained columns _safe, _safe_ignoring_hold and     *)
(* _check_safe of the step table (core/scheduler.py, core/step.py).  A     *)
(* step may be dispatched only when all its (indirect) creators are        *)
(* RUNNING or SUCCEEDED and none of them holds its products back.  Instead *)
(* of walking the creator chain at every dispatch, the scheduler stores    *)
(* the verdict per step and recomputes it for the steps flagged            *)
(* _check_safe and their products.                                         *)
(*                                                                         *)
(* Inputs, needs and resources are left out: a PENDING step may at any     *)
(* time be unready, so Pop may pass over it.                               *)
(***************************************************************************)
EXTENDS Naturals

CONSTANTS Step,     \* the steps of the workflow
          Root,     \* the root node, creator of the boot step
          Parent,   \* Parent[s]: the node whose plan declares s
          MaxHold   \* bound on nested hold() calls of one step

ASSUME ParentType == Parent \in [Step -> Step \cup {Root}] /\ Root \notin Step
\* A plan is declared before the steps that it declares.
ASSUME ParentAcyclic ==
  \A S \in SUBSET Step : (\A s \in S : Parent[s] \in S) => S = {}
ASSUME MaxHoldType == MaxHold \in Nat

VARIABLES
  state,     \* state[s]: the state column, "NONE" without a row
  linked,    \* the steps whose creator column is set (to their Parent)
  holding,   \* holding[s]: the _holding column, open hold() calls
  hashed,    \* the steps with a stored hash (_has_hash)
  begun,     \* the RUNNING steps whose job has called reset_for_rerun
  blocks,    \* blocks[s]: the hold() blocks the running command of s is in
  safe,      \* the steps with _safe = 1
  safeNH,    \* the steps with _safe_ignoring_hold = 1
  flagged    \* the steps with _check_safe = 1

vars == <<state, linked, holding, hashed, begun, blocks, safe, safeNH, flagged>>

Exists(s) == state[s] # "NONE"

(***************************************************************************)
(* Creator edges.  Below(L, s): s and its transitive products, when the    *)
(* steps in L are linked to their parents.                                 *)
(***************************************************************************)
Below(L, s) ==
  LET closed == {T \in SUBSET Step : s \in T /\ \A t \in L : Parent[t] \in T => t \in T}
  IN {t \in Step : \A T \in closed : t \in T}

BelowAll(L, S) == UNION {Below(L, s) : s \in S}

\* The proper creators of s that Below reaches s from.
Creators(s) == {a \in Step \ {s} : s \in Below(linked, a)}

IsAttached(s) == Exists(s) /\ Creators(s) \cup {s} \subseteq linked

Products(s) == {t \in linked : Parent[t] = s}

\* A creator in this state lets its products be queued; a hold blocks them.
Lets(a) == state[a] \in {"RUNNING", "SUCCEEDED"}
LetsNow(a) == Lets(a) /\ holding[a] = 0
Letting == {a \in Step : Lets(a)}
LettingNow == {a \in Step : LetsNow(a)}

(***************************************************************************)
(* FILL_SAFE_UPDATE and APPLY_SAFE_UPDATE.  A flagged step f is seeded     *)
(* from the stored value and the state of its creator (a root or NULL      *)
(* creator counts as safe), the value travels down its products, and MIN   *)
(* is taken over all flagged steps a product is reached from.              *)
(***************************************************************************)
Seed(f, stored) == f \notin linked \/ Parent[f] = Root \/ Parent[f] \in stored

Path(f, s) == {a \in Below(linked, f) \ {s} : s \in Below(linked, a)}

Reached == BelowAll(linked, flagged)

\* Mutant: of several flagged ancestors any one decides, as in the single
\* recursive statement that FILL_SAFE_UPDATE replaced.
UpdatedAny(stored, letting) ==
  {s \in Step :
     IF s \notin Reached THEN s \in stored
     ELSE \E f \in flagged :
       /\ s \in Below(linked, f)
       /\ Seed(f, stored \cap letting)
       /\ Path(f, s) \subseteq letting}

Updated(stored, letting) ==
  {s \in Step :
     IF s \notin Reached THEN s \in stored
     ELSE \A f \in flagged :
       s \in Below(linked, f) =>
         /\ Seed(f, stored \cap letting)
         /\ Path(f, s) \subseteq letting}

\* Scheduler._update_meta_safe: both columns, and every flag cleared.
UpdateMetaSafe(S) ==
  /\ safe' = Updated(safe, LettingNow)
  /\ safeNH' = Updated(safeNH, Letting)
  /\ flagged' = S

KeepMeta == UNCHANGED <<safe, safeNH>>

\* Mutant: without the trigger step_reset_holding.
SetStatesKeepHold(S, st) ==
  /\ state' = [s \in Step |-> IF s \in S THEN st ELSE state[s]]
  /\ UNCHANGED holding

(***************************************************************************)
(* A state column that is written: trigger step_flag_check_safe flags the  *)
(* step, trigger step_reset_holding ends its holds unless it is RUNNING.   *)
(***************************************************************************)
SetStates(S, st) ==
  /\ state' = [s \in Step |-> IF s \in S THEN st ELSE state[s]]
  /\ holding' = [s \in Step |-> IF s \in S /\ st # "RUNNING" THEN 0 ELSE holding[s]]

\* The job of s is over, and with it the command's hold() blocks.
EndJob(s) ==
  /\ begun' = begun \ {s}
  /\ blocks' = [blocks EXCEPT ![s] = 0]

\* Step.detach of the steps created by s: unlinked, and flagged with their
\* products by RECURSIVE_CHECK_WITH_PRODUCTS.
DetachProducts(s, alsoFlagged) ==
  /\ linked' = linked \ Products(s)
  /\ flagged' = flagged \cup BelowAll(linked, Products(s)) \cup alsoFlagged
-----------------------------------------------------------------------------
\* Workflow.initialize_boot in a new database: the boot step is created with
\* _safe = 1 and without the flag.
Init ==
  /\ state = [s \in Step |-> IF Parent[s] = Root THEN "PENDING" ELSE "NONE"]
  /\ linked = {s \in Step : Parent[s] = Root}
  /\ holding = [s \in Step |-> 0]
  /\ hashed = {}
  /\ begun = {}
  /\ blocks = [s \in Step |-> 0]
  /\ safe = {s \in Step : Parent[s] = Root}
  /\ safeNH = safe
  /\ flagged = {}

\* STEP_DISPATCH_WHERE over the freshly updated columns.
Eligible(s) ==
  /\ state[s] = "PENDING"
  /\ IsAttached(s)
  /\ s \in safe' \/ (s \in hashed /\ s \in safeNH')

\* Scheduler.pop_next_job hands out s: the metadata is updated first, then
\* the step moves to CHECKING or RUNNING, which flags it again.
Pop(s) ==
  /\ UpdateMetaSafe({s})
  /\ Eligible(s)
  /\ SetStates({s}, IF s \in hashed THEN "CHECKING" ELSE "RUNNING")
  /\ UNCHANGED <<linked, hashed, begun, blocks>>

\* Scheduler.pop_next_job finds nothing that is ready.
PopNothing ==
  /\ flagged # {}
  /\ UpdateMetaSafe({})
  /\ UNCHANGED <<state, linked, holding, hashed, begun, blocks>>

\* Executor.execute_job: Step.reset_for_rerun before the command starts.
Begin(s) ==
  /\ state[s] = "RUNNING" /\ s \notin begun
  /\ begun' = begun \cup {s}
  /\ DetachProducts(s, {})
  /\ KeepMeta
  /\ UNCHANGED <<state, holding, hashed, blocks>>

\* Executor.try_skip_job and validate_dynamic_job after a mismatch:
\* Executor._reset_step_to_pending.
NoSkip(s) ==
  /\ state[s] = "CHECKING"
  /\ DetachProducts(s, {s})
  /\ SetStates({s}, "PENDING")
  /\ hashed' = hashed \ {s}
  /\ KeepMeta
  /\ UNCHANGED <<begun, blocks>>

\* Executor.validate_dynamic_job without a mismatch: back to PENDING, with the
\* hash and the products, until a dynamic input becomes available.
StillValid(s) ==
  /\ state[s] = "CHECKING"
  /\ SetStates({s}, "PENDING")
  /\ flagged' = flagged \cup {s}
  /\ KeepMeta
  /\ UNCHANGED <<linked, hashed, begun, blocks>>

\* Step.mark_completed with a new hash, after a run or a successful check.
Succeed(s) ==
  /\ state[s] = "CHECKING" \/ s \in begun
  /\ SetStates({s}, "SUCCEEDED")
  /\ flagged' = flagged \cup {s}
  /\ hashed' = hashed \cup {s}
  /\ EndJob(s)
  /\ KeepMeta
  /\ UNCHANGED linked

\* Mutant: the running command goes on after its step has FAILED.
FailKeepsJob(s) ==
  /\ state[s] \in {"CHECKING", "RUNNING"}
  /\ DetachProducts(s, {s})
  /\ SetStates({s}, "FAILED")
  /\ hashed' = hashed \ {s}
  /\ KeepMeta
  /\ UNCHANGED <<begun, blocks>>

\* Step.mark_completed without a new hash: the created steps are detached.
Fail(s) ==
  /\ state[s] \in {"CHECKING", "RUNNING"}
  /\ DetachProducts(s, {s})
  /\ SetStates({s}, "FAILED")
  /\ hashed' = hashed \ {s}
  /\ EndJob(s)
  /\ KeepMeta

\* Step.mark_completed of a deferred run: the products stay attached.
Defer(s) ==
  /\ s \in begun
  /\ SetStates({s}, "PENDING")
  /\ flagged' = flagged \cup {s}
  /\ hashed' = hashed \ {s}
  /\ EndJob(s)
  /\ KeepMeta
  /\ UNCHANGED linked

\* Workflow.mark_step_pending: inputs of s changed.  Writing the state of a step
\* that is PENDING already flags it too.
MarkPending(s) ==
  /\ state[s] \in {"PENDING", "SUCCEEDED", "FAILED"}
  /\ SetStates({s}, "PENDING")
  /\ flagged' = flagged \cup {s}
  /\ KeepMeta
  /\ UNCHANGED <<linked, hashed, begun, blocks>>

\* Workflow.define_step by the running command of the parent, for a detached
\* step that can_recycle accepts: Step.reattach and Step.after_recycle.
Recycle(s) ==
  /\ Parent[s] \in begun
  /\ Exists(s) /\ s \notin linked
  /\ linked' = linked \cup {s}
  /\ flagged' = flagged \cup Below(linked, s)
  /\ state' = [state EXCEPT ![s] = IF @ = "FAILED" THEN "PENDING" ELSE @]
  /\ holding' = [holding EXCEPT ![s] = 0]
  /\ KeepMeta
  /\ UNCHANGED <<hashed, begun, blocks>>

\* Workflow.define_step by the running command of the parent, for a new step
\* or one that can_recycle rejects: Trellis.create detaches its products and
\* Step.initialize_row writes a fresh row that keeps the stored hash.  A step
\* with a job in flight is left out.
Create(s) ==
  /\ Parent[s] \in begun
  /\ s \notin linked /\ state[s] \notin {"CHECKING", "RUNNING"}
  /\ linked' = (linked \cup {s}) \ Products(s)
  /\ flagged' = flagged \cup BelowAll(linked, Products(s)) \cup {s}
  /\ SetStates({s}, "PENDING")
  /\ safe' = safe \ {s}
  /\ safeNH' = safeNH \ {s}
  /\ UNCHANGED <<hashed, begun, blocks>>

\* Mutant: hold() does not flag the products.
HoldUnflagged(s) ==
  /\ s \in begun /\ blocks[s] < MaxHold
  /\ blocks' = [blocks EXCEPT ![s] = @ + 1]
  /\ holding' = [holding EXCEPT ![s] = @ + 1]
  /\ KeepMeta
  /\ UNCHANGED <<state, linked, hashed, begun, flagged>>

\* Step.hold: only the outermost call flags the step and its products.
Hold(s) ==
  /\ s \in begun /\ blocks[s] < MaxHold
  /\ blocks' = [blocks EXCEPT ![s] = @ + 1]
  /\ holding' = [holding EXCEPT ![s] = @ + 1]
  /\ flagged' = IF holding[s] = 0 THEN flagged \cup Below(linked, s) ELSE flagged
  /\ KeepMeta
  /\ UNCHANGED <<state, linked, hashed, begun>>

\* Step.release at the end of a hold() block: only the outermost call flags
\* the step and its products.
Release(s) ==
  /\ s \in begun /\ blocks[s] > 0
  /\ holding[s] > 0
  /\ blocks' = [blocks EXCEPT ![s] = @ - 1]
  /\ holding' = [holding EXCEPT ![s] = @ - 1]
  /\ flagged' = IF holding[s] = 1 THEN flagged \cup Below(linked, s) ELSE flagged
  /\ KeepMeta
  /\ UNCHANGED <<state, linked, hashed, begun>>

\* Step.release without an open hold raises GraphError in the command.
ReleaseRaises(s) ==
  /\ s \in begun /\ blocks[s] > 0
  /\ holding[s] = 0
  /\ blocks' = [blocks EXCEPT ![s] = @ - 1]
  /\ KeepMeta
  /\ UNCHANGED <<state, linked, holding, hashed, begun, flagged>>

\* The director dies; startup.reset_interrupted_steps makes RUNNING, CHECKING
\* and FAILED steps PENDING.  The columns are persistent.
Restart ==
  LET S == {s \in Step : state[s] \in {"RUNNING", "CHECKING", "FAILED"}}
  IN /\ S # {}
     /\ SetStates(S, "PENDING")
     /\ flagged' = flagged \cup S
     /\ begun' = {}
     /\ blocks' = [s \in Step |-> 0]
     /\ KeepMeta
     /\ UNCHANGED <<linked, hashed>>

Next ==
  \/ \E s \in Step :
       \/ Pop(s) \/ Begin(s) \/ NoSkip(s) \/ StillValid(s) \/ Succeed(s) \/ Fail(s)
       \/ Defer(s)
       \/ MarkPending(s) \/ Recycle(s) \/ Create(s) \/ Hold(s) \/ Release(s)
       \/ ReleaseRaises(s)
  \/ PopNothing
  \/ Restart

Spec == Init /\ [][Next]_vars
-----------------------------------------------------------------------------
\* Type invariant.
TypeOK ==
  /\ state \in [Step -> {"NONE", "PENDING", "CHECKING", "RUNNING", "SUCCEEDED", "FAILED"}]
  /\ linked \subseteq {s \in Step : Exists(s)}
  /\ holding \in [Step -> 0 .. MaxHold]
  /\ begun \subseteq {s \in Step : state[s] = "RUNNING"}
  /\ hashed \cup safe \cup safeNH \cup flagged \subseteq {s \in Step : Exists(s)}

(***************************************************************************)
(* What the two columns stand for, computed from scratch: every creator of *)
(* s lets it be queued (and, for _safe, none of them holds it back).       *)
(***************************************************************************)
SafeNow(s) == \A a \in Creators(s) : LetsNow(a)
SafeIgnoringHold(s) == \A a \in Creators(s) : Lets(a)

\* No flag is waiting at s or above it, so its columns count as settled.
Settled(s) == (Creators(s) \cup {s}) \cap flagged = {}

\* A settled column never says safe when the creator chain is not: no
\* transition of a creator, hold, recycling or detaching is missed.
SafeIsSound ==
  \A s \in Step : Exists(s) /\ Settled(s) =>
    (s \in safe => SafeNow(s)) /\ (s \in safeNH => SafeIgnoringHold(s))

\* A step is handed out only when its whole creator chain permits it.
DispatchIsSafe ==
  [][\A s \in Step : state[s] = "PENDING" =>
       /\ state'[s] = "RUNNING" => SafeNow(s)
       /\ state'[s] = "CHECKING" => SafeIgnoringHold(s)]_vars

\* An open-hold count belongs to a running command that is inside hold()
\* blocks: it never outlives the execution, so no later attempt of the step
\* starts with its products blocked.
HoldOwned == \A s \in Step : holding[s] > 0 => s \in begun /\ holding[s] <= blocks[s]
=============================================================================
