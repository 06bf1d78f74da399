--------------------------------- MODULE Claims ---------------------------------
(***************************************************************************)
(* Who declares which path: static files, static trees, glob patterns and  *)
(* the outputs of steps claim paths, plans that run again give claims up   *)
(* and recycle what they declared before, and clean-up removes the rest    *)
(* from the database and the disk (core/workflow.py, core/trellis.py,      *)
(* core/step.py, core/file.py, core/finalize.py, core/startup.py,          *)
(* core/watcher.py, core/clean.py, and the calls of core/api.py).          *)
(*                                                                         *)
(* A running command may make any of its calls, in any order, as often as  *)
(* it likes: a plan whose script is edited makes others when it runs       *)
(* again.  `db` is the database; the column `detached` is replaced by what *)
(* it stands for, see Attached (module Trellis is about the column).  An   *)
(* operator on a database sets ok to FALSE where the code raises, and no   *)
(* call commits such a database.  Declarations that would close a cycle    *)
(* (CyclicError) are left out, and the content of a file is what the user  *)
(* or what a step wrote.                                                   *)
(***************************************************************************)
EXTENDS Integers, FiniteSets, FiniteSetsExt

CONSTANTS Step, Plan,   \* the steps, and the root plan, which runs plan.py
          File, Tree,   \* files, and directories that may be static trees
          Under,        \* Under[t]: the files in directory t
          Inside,       \* Inside[t]: the directories inside directory t
          Glob,         \* glob patterns
          Matches,      \* Matches[g]: the files whose paths match g
          Statics,      \* Statics[s]: the calls of static() that s may make
          Globs,        \* Globs[s]: the patterns that s may give to glob()
          Defines,      \* Defines[s]: the calls of step() that s may make
          Amends,       \* Amends[s]: the calls of amend() that s may make
          UserFiles,    \* the files that the user creates and deletes
          MaxEvents     \* bound on edits, phases, stops and restarts

Root == "root"
None == "none"
Owner == Step \cup Tree  \* what may create nodes, trees only files
Node == Owner \cup File

ASSUME PlanIsStep == Plan \in Step
ASSUME KindsDiffer == Step \cap Tree = {} /\ Owner \cap File = {} /\ {Root, None} \cap Node = {}
ASSUME FiniteKinds == \A S \in {Step, File, Tree, Glob} : IsFiniteSet(S)
ASSUME LayoutType ==
  /\ Under \in [Tree -> SUBSET File] /\ Inside \in [Tree -> SUBSET Tree]
  /\ Matches \in [Glob -> SUBSET File]
\* Two directories that share a file are one inside the other.
ASSUME DirectoriesNest ==
  \A t, u \in Tree : Under[t] \cap Under[u] # {} => t = u \/ t \in Inside[u] \/ u \in Inside[t]
ASSUME CallType ==
  /\ Statics \in [Step -> SUBSET [files : SUBSET File, trees : SUBSET Tree, globs : SUBSET Glob]]
  /\ Globs \in [Step -> SUBSET Glob]
  /\ Defines \in [Step -> SUBSET [step : Step \ {Plan}, inp : SUBSET File,
                                  out : SUBSET File, vol : SUBSET File]]
  /\ Amends \in [Step -> SUBSET [inp : SUBSET File, out : SUBSET File, vol : SUBSET File]]
ASSUME BoundType == UserFiles \subseteq File /\ MaxEvents \in Nat

VARIABLES
  db,       \* the database: see TypeOK
  disk,     \* disk[f]: None, or who wrote f last, "user" or "made"
  checks,   \* the files with a hash job: CONFIRMED, and EXTERNAL in an update
  asked,    \* asked[s]: the files whose checks amend() of s waits for
  miss,     \* the running steps with unavailable inputs (Run.unavailable)
  changes,  \* the changed paths that the watcher knows of
  queue,    \* to_be_deleted: None, "any", or the content that may be deleted
  phase,    \* "build", "remove", "watch", "update" or "down"
  raised,   \* whether an update of a file hash was unexpected
  events,   \* the number of edits, further phases, stops and restarts
  unnoticed \* history: the files that the watcher found to be back unchanged

memory == <<checks, asked, miss, changes, queue>>
vars == <<db, disk, memory, phase, raised, events, unnoticed>>

Static == {"UNCONFIRMED", "MISSING", "CONFIRMED"}
Output == {"PLANNED", "BUILT", "OUTDATED"}
Available == {"CONFIRMED", "BUILT"}

OnDisk == {f \in File : disk[f] # None}
-----------------------------------------------------------------------------
(***************************************************************************)
(* The graph.                                                              *)
(***************************************************************************)
Check(d, good) == [d EXCEPT !.ok = @ /\ good]
Refuse(d) == Check(d, FALSE)

\* The nodes that are reached from the root over creators in N: chains of steps,
\* a tree and a file at most.
Reached(d, N) ==
  LET owners[k \in 0 .. Cardinality(Step)] ==
        IF k = 0 THEN {n \in Owner : d.cr[n] = Root}
        ELSE LET R == owners[k - 1] IN R \cup {n \in Owner : d.cr[n] \in N \cap R}
      all == owners[Cardinality(Step)]
  IN all \cup {f \in File : d.cr[f] \in N \cap all}

Attached(d) == Reached(d, Node)

Inputs(d, s) == d.inp[s] \cup d.dyn[s]
Consumers(d, F) == {s \in Step : Inputs(d, s) \cap F # {}}

\* Node.detach of the nodes in N.
Detach(d, N) == [d EXCEPT !.cr = [n \in Node |-> IF n \in N THEN None ELSE @[n]]]
Products(d, n) == {m \in Node : d.cr[m] = n}

\* n gets creator c, and the step that had created n loses its hash
\* (after_lost_product).
Take(d, n, c) == [d EXCEPT !.cr[n] = c, !.hashed = @ \ {d.cr[n]}]

SetRows(d, F, state) == [d EXCEPT !.row = [f \in File |-> IF f \in F THEN state ELSE @[f]]]
\* Step.set_state of the steps in S, which are not deferred any more.
SetSteps(d, S, state) ==
  [d EXCEPT !.st = [s \in Step |-> IF s \in S THEN state ELSE @[s]], !.deferred = @ \ S]

\* The edges from s to F are cut.
CutOutputs(d, s, F) == [d EXCEPT !.out[s] = @ \ F, !.dynOut[s] = @ \ F]

Rows(d, states) == {f \in File : d.row[f] \in states}

\* Workflow.mark_step_pending of S: completed steps outdate what they built,
\* which marks the consumers; detached nodes are no exception, and a deferred
\* step may start again.
MarkPending(d, S) ==
  LET idle == {s \in Step : d.st[s] \notin {"NONE", "RUNNING"}}
      completed == {s \in idle : d.st[s] # "PENDING"}
      current == Rows(d, {"BUILT"})
      built(T) == current \cap UNION {d.out[s] : s \in T \cap completed}
      marks[k \in 0 .. Cardinality(Step)] ==
        IF k = 0 THEN S \cap idle
        ELSE LET T == marks[k - 1] IN T \cup (Consumers(d, built(T)) \cap idle)
      marked == marks[Cardinality(Step)]
  IN SetRows(SetSteps(d, marked, "PENDING"), built(marked), "OUTDATED")
-----------------------------------------------------------------------------
(***************************************************************************)
(* Declarations.                                                           *)
(***************************************************************************)
\* Workflow._find_owning_static_tree; it raises when there are several.
Over(d, f) == {t \in Tree \cap Attached(d) : f \in Under[t]}

\* Workflow._existing_claim: attached files are claimed by their creators.
Unclaimed(d, F) == F \cap Attached(d) = {}

\* Workflow._check_declaration: c claimed f in that role already.  Any other
\* declaration of a claimed file raises.
Repeats(d, c, f, role) == ~Unclaimed(d, {f}) /\ d.row[f] \in role /\ d.cr[f] = c

\* _raise_if_out_and_vol_overlap.
NoOverlap(out, vol) == out \cap vol = {}

\* Mutant: the edges from former makers stay.
CreateFileEdges(d, f, c, state) ==
  LET old == d.row[f]
      kept == state \in {"UNDECLARED", "PLANNED"} /\ old \in {"BUILT", "OUTDATED"}
      new == IF kept THEN "OUTDATED" ELSE state
      clears == \/ new \in {"MISSING", "PLANNED", "VOLATILE"}
                \/ new = "UNCONFIRMED" /\ old \in {"BUILT", "OUTDATED"}
      e == [Take(Check(d, Unclaimed(d, {f})), f, c) EXCEPT
              !.row[f] = new, !.hash[f] = IF clears THEN None ELSE @]
  IN IF kept /\ old = "BUILT" THEN MarkPending(e, Consumers(e, {f})) ELSE e

\* Trellis.create of file f, with File.initialize_row and the trigger
\* file_clear_hash: f is cut from its makers, and what a step built before is
\* not forgotten.
CreateFile(d, f, c, state) ==
  LET old == d.row[f]
      kept == state \in {"UNDECLARED", "PLANNED"} /\ old \in {"BUILT", "OUTDATED"}
      new == IF kept THEN "OUTDATED" ELSE state
      clears == \/ new \in {"MISSING", "PLANNED", "VOLATILE"}
                \/ new = "UNCONFIRMED" /\ old \in {"BUILT", "OUTDATED"}
      e == [Take(Check(d, Unclaimed(d, {f})), f, c) EXCEPT
              !.out = [s \in Step |-> @[s] \ {f}], !.dynOut = [s \in Step |-> @[s] \ {f}],
              !.row[f] = new, !.hash[f] = IF clears THEN None ELSE @]
  IN IF kept /\ old = "BUILT" THEN MarkPending(e, Consumers(e, {f})) ELSE e

\* Workflow._declare_file: only a tree declares a file in a static tree, and
\* the input of an attached step cannot become volatile.
MayDeclare(d, c, f) ==
  /\ c \in Tree \/ Over(d, f) = {}
  /\ d.row[f] = "VOLATILE" => Consumers(d, {f}) \cap Attached(d) = {}

Declared(d, c, f) == Check(d, MayDeclare(d, c, f))

DeclareFile(d, c, f, state) == Declared(CreateFile(d, f, c, state), c, f)

\* Workflow.declare_static_files: the paths in a static tree of c are
\* declared by that tree, and what c or the tree has declared already is not
\* declared again.
DeclareStatic(d, c, F) ==
  LET known == {f \in F : ~Unclaimed(d, {f})}
      declarer(f) == IF c \in Tree \/ Over(d, f) = {} THEN c ELSE CHOOSE t \in Over(d, f) : TRUE
      own(f) == c \in Tree \/ (Cardinality(Over(d, f)) < 2 /\ \A t \in Over(d, f) : d.cr[t] = c)
      allowed == /\ \A f \in F : own(f)
                 /\ \A f \in known : Repeats(d, declarer(f), f, Static)
      Declare(f, e) == DeclareFile(e, declarer(f), f, "UNCONFIRMED")
      e == FoldSet(Declare, Check(d, allowed), F \ known)
  IN [e EXCEPT !.toCheck = @ \cup (F \ known)]

\* Workflow.register_static_tree: t takes over what s declared under it,
\* which costs s no product, and adopts the detached rows under it.
RegisterTree(d, s, t) ==
  LET attached == Attached(d)
      over == {o \in Tree \cap attached : o = t \/ t \in Inside[o]}
      held == Under[t] \cap attached
      e == Take(Detach(d, Products(d, t)), t, s)
      f == [e EXCEPT !.cr = [n \in Node |-> IF n \in held THEN t ELSE @[n]]]
  IN IF over = {}
     THEN DeclareStatic(Check(f, /\ Inside[t] \cap attached = {}
                                 /\ \A h \in held : Repeats(d, s, h, Static)),
                        t, {h \in Under[t] \ held : d.row[h] # "NONE"})
     ELSE Check(d, Cardinality(over) = 1 /\ \A o \in over : d.cr[o] = s)

\* NamedGlob.glob.
Found(g) == Matches[g] \cap OnDisk

\* Workflow.register_nglob.
RegisterGlob(d, s, g) ==
  LET e == Check(d, Found(g) \cap Attached(d) \subseteq Rows(d, Static))
  IN [e EXCEPT !.reg = @ \cup {[step |-> s, glob |-> g, found |-> Found(g)]}]

\* Workflow.nglob_registrations: the patterns of attached steps.
Registered(d) == LET attached == Attached(d) IN {r \in d.reg : r.step \in attached}

\* Workflow.matches_any_glob.
MatchesAny(d, f) == \E r \in Registered(d) : f \in Matches[r.glob]

\* Workflow._raise_if_glob_match.
NoGlobMatch(d, F) == \A f \in F : ~MatchesAny(d, f)

\* DirectorHandler.declare_static: trees come first, a parent before what it
\* contains, which then is a repetition, so that the outermost trees suffice.
StaticCall(d, s, c) ==
  LET outer == {t \in c.trees : \A o \in c.trees : t \notin Inside[o]}
      Tr(t, e) == RegisterTree(e, s, t)
      Gl(g, e) == RegisterGlob(e, s, g)
      trees == FoldSet(Tr, d, outer)
      files == DeclareStatic(trees, s, c.files \cup UNION {Found(g) : g \in c.globs})
  IN FoldSet(Gl, files, c.globs)
-----------------------------------------------------------------------------
(***************************************************************************)
(* Steps.                                                                  *)
(***************************************************************************)
\* Workflow._resolve_supply_file: f becomes an input.
Resolve(d, f) ==
  LET over == Over(d, f)
      forlorn == d.row[f] = "NONE" \/ d.cr[f] = None
  IN IF f \notin Attached(d) /\ over # {}
     THEN Check(CreateFile(d, f, CHOOSE t \in over : TRUE, "UNCONFIRMED"), Cardinality(over) = 1)
     ELSE IF forlorn THEN CreateFile(d, f, None, "UNDECLARED")
     ELSE Check(d, d.row[f] # "VOLATILE")

\* Workflow._supply_files: an attached file that is UNCONFIRMED gets checked.
CheckFiles(d, F) ==
  [d EXCEPT !.toCheck = @ \cup (F \cap Attached(d) \cap Rows(d, {"UNCONFIRMED"}))]

Supply(d, F) == LET Re(f, e) == Resolve(e, f) IN CheckFiles(FoldSet(Re, d, F), F)

\* s declares outputs O and volatile outputs V, and edges lead to them.
DeclareOutputs(d, s, O, V) ==
  LET Out(f, e) == [DeclareFile(e, s, f, "PLANNED") EXCEPT !.out[s] = @ \cup {f}]
      Vol(f, e) == [DeclareFile(e, s, f, "VOLATILE") EXCEPT !.out[s] = @ \cup {f}]
  IN FoldSet(Vol, FoldSet(Out, d, O), V)

\* Step.can_recycle.
CanRecycle(d, c) ==
  LET initial == d.out[c.step] \ d.dynOut[c.step]
  IN /\ d.st[c.step] # "NONE" /\ c.step \notin Attached(d)
     /\ d.inp[c.step] = c.inp
     /\ initial \cap Rows(d, Output) = c.out
     /\ initial \cap Rows(d, {"VOLATILE"}) = c.vol

\* UNCONFIRMED_INPUTS: those that a static tree declares.
UnconfirmedInputs(d, s) ==
  {f \in Inputs(d, s) \cap Rows(d, {"UNCONFIRMED"}) : d.cr[f] \in Tree}

\* Node.reattach and Step.after_recycle; unconfirmed inputs get checked.
Recycle(d, s, c) ==
  LET e == Take(d, c.step, s)
      f == [e EXCEPT !.toCheck = @ \cup UnconfirmedInputs(e, c.step)]
  IN IF e.st[c.step] = "FAILED" THEN MarkPending(f, {c.step}) ELSE f

\* Trellis.create and Step.initialize_row: the stored hash, the patterns and
\* the edges to former outputs stay.
CreateStep(d, s, t) ==
  [SetSteps(Detach(Take(d, t, s), Products(d, t)), {t}, "PENDING") EXCEPT
     !.inp[t] = {}, !.dyn[t] = {}]

\* Workflow._raise_if_step_exists.
StepIsNew(d, t) == t \notin Attached(d)

\* Workflow.define_step.
DefineStep(d, s, c) ==
  LET e == Check(d, NoGlobMatch(d, c.out \cup c.vol))
      fresh == Check(e, /\ StepIsNew(d, c.step)
                        /\ Unclaimed(d, c.out \cup c.vol) /\ NoOverlap(c.out, c.vol))
      supplied == [Supply(CreateStep(fresh, s, c.step), c.inp) EXCEPT !.inp[c.step] = c.inp]
  IN IF CanRecycle(d, c) THEN Recycle(e, s, c)
     ELSE DeclareOutputs(supplied, c.step, c.out, c.vol)

\* What s did not declare in that role before.
NewClaims(d, s, F, role) == {f \in F : ~Repeats(d, s, f, role)}

AmendInputs(d, s, I) == [Supply(d, I) EXCEPT !.dyn[s] = @ \cup (I \ d.inp[s])]

AmendOutputs(d, s, O, V) ==
  LET new == O \cup V
      free == Unclaimed(d, new) /\ NoOverlap(O, V) /\ NoGlobMatch(d, new)
  IN [DeclareOutputs(Check(d, free), s, O, V) EXCEPT !.dynOut[s] = @ \cup new]

Amended(d, s, c) ==
  AmendOutputs(d, s, NewClaims(d, s, c.out, Output), NewClaims(d, s, c.vol, {"VOLATILE"}))

\* Workflow.amend_step: what s has declared already is skipped.
AmendStep(d, s, c) == Amended(AmendInputs(d, s, c.inp), s, c)

\* Step.reset_for_rerun: s gives up all that it declares while it runs.
Reset(d, s) ==
  LET dynamic == CutOutputs(d, s, d.dynOut[s])
      mine == {n \in Products(d, s) : n \in Step \cup Tree \cup Rows(d, Static)}
      e == [Detach(dynamic, mine \cup d.dynOut[s]) EXCEPT
              !.dyn[s] = {}, !.reg = {r \in @ : r.step # s}]
      built == Products(e, s) \cap Rows(e, {"BUILT"})
  IN MarkPending(SetRows(e, built, "OUTDATED"), Consumers(e, built))
-----------------------------------------------------------------------------
(***************************************************************************)
(* File hashes and glob matches.                                           *)
(***************************************************************************)
Missing(f) == disk[f] = None

Hashed(d, f, state) == [d EXCEPT !.row[f] = state, !.hash[f] = disk[f]]

\* Workflow.update_file_hashes of f for HashUpdateCause.CONFIRMED.
Confirm(d, f) ==
  LET new == IF Missing(f) THEN "MISSING" ELSE "CONFIRMED"
      e == Hashed(d, f, new)
  IN IF d.row[f] \notin Static THEN Refuse(d)
     ELSE IF d.row[f] = new THEN e ELSE MarkPending(e, Consumers(e, {f}))

\* Mutant: an edited output concerns its consumers, as a static file does.
ExternalToConsumers(d, f) ==
  IF d.row[f] \in Static
  THEN LET e == Hashed(d, f, IF Missing(f) THEN "MISSING" ELSE "CONFIRMED")
       IN MarkPending(e, Consumers(e, {f}))
  ELSE IF d.row[f] \in {"BUILT", "OUTDATED"}
  THEN MarkPending([d EXCEPT !.row[f] = "PLANNED", !.hash[f] = None], Consumers(d, {f}))
  ELSE Refuse(d)

\* The same for HashUpdateCause.EXTERNAL, with Workflow.handle_updated_file and
\* handle_deleted_file.
External(d, f) ==
  IF d.row[f] \in Static
  THEN LET e == Hashed(d, f, IF Missing(f) THEN "MISSING" ELSE "CONFIRMED")
       IN MarkPending(e, Consumers(e, {f}))
  ELSE IF d.row[f] \in {"BUILT", "OUTDATED"}
  THEN MarkPending([d EXCEPT !.row[f] = "PLANNED", !.hash[f] = None],
                   ({d.cr[f]} \cap Step) \cup IF Missing(f) THEN Consumers(d, {f}) ELSE {})
  ELSE Refuse(d)

Externals(d, F) == LET Ex(f, e) == External(e, f) IN FoldSet(Ex, d, F)

\* Workflow.persist_nglob_matches for the registrations whose matches change
\* when found[r] is what r matches now.
Rematch(d, found) ==
  LET old == {r \in Registered(d) : found[r] # r.found}
      steps == {r.step : r \in old}
  IN MarkPending([d EXCEPT !.reg = (@ \ old) \cup {[r EXCEPT !.found = found[r]] : r \in old},
                           !.hashed = @ \ steps], steps)

\* Mutant: only new matches count.
GrowGlobs(d, deleted, updated) ==
  Rematch(d, [r \in Registered(d) |-> r.found \cup (updated \cap Matches[r.glob])])

\* NamedGlob.will_change: extend, then reduce.
Evolved(r, deleted, updated) == (r.found \cup (updated \cap Matches[r.glob])) \ deleted

\* Workflow.process_nglob_changes.
ProcessGlobs(d, deleted, updated) ==
  Rematch(d, [r \in Registered(d) |-> Evolved(r, deleted, updated)])

\* Workflow.change_is_relevant.
Relevant(d, f, states) ==
  IF f \in Attached(d) THEN d.row[f] \in states ELSE MatchesAny(d, f)

\* _relevant_states after a build phase and during one.
WatchStates == Static \cup {"UNDECLARED", "BUILT", "OUTDATED"}
BuildStates == {"CONFIRMED", "MISSING"}
-----------------------------------------------------------------------------
(***************************************************************************)
(* The calls of a running command.                                         *)
(***************************************************************************)
Listening(s) == phase = "build" /\ db.st[s] = "RUNNING" /\ asked[s] = {}

\* The call commits d unless it raises; the jobs for its files are submitted
\* (DirectorHandler._submit_to_check).
Call(d) ==
  /\ d.ok
  /\ db' = [d EXCEPT !.toCheck = {}]
  /\ checks' = checks \cup d.toCheck
  /\ UNCHANGED <<disk, changes, queue, phase, raised, events, unnoticed>>

\* static(): literal files must exist.
DeclareStatics(s) ==
  /\ Listening(s)
  /\ \E c \in Statics[s] : c.files \subseteq OnDisk /\ Call(StaticCall(db, s, c))
  /\ UNCHANGED <<asked, miss>>

\* glob().
DeclareGlob(s) ==
  /\ Listening(s)
  /\ \E g \in Globs[s] : Call(RegisterGlob(db, s, g))
  /\ UNCHANGED <<asked, miss>>

\* step().  A detached step that still runs is not declared with other inputs
\* or outputs.
Define(s) ==
  /\ Listening(s)
  /\ \E c \in Defines[s] : /\ db.st[c.step] = "RUNNING" => CanRecycle(db, c)
                           /\ Call(DefineStep(db, s, c))
  /\ UNCHANGED <<asked, miss>>

\* amend(): unavailable inputs I defer the step, and it waits for the promoted
\* jobs of those that are UNCONFIRMED.
AmendCall(d, s, I) ==
  LET ready == I \cap Attached(d) \cap Rows(d, Available \cup {"UNCONFIRMED"})
  IN /\ Call(d)
     /\ asked' = [asked EXCEPT ![s] = d.toCheck]
     /\ miss' = IF I = ready THEN miss ELSE miss \cup {s}

Amend(s) ==
  /\ Listening(s)
  /\ \E c \in Amends[s] : AmendCall(AmendStep(db, s, c), s, c.inp)

\* The jobs are done, and amend() looks at the states that they left.
Answer(s) ==
  /\ asked[s] # {} /\ asked[s] \cap checks = {}
  /\ asked' = [asked EXCEPT ![s] = {}]
  /\ miss' = IF asked[s] \subseteq Rows(db, Available) THEN miss ELSE miss \cup {s}
  /\ UNCHANGED <<db, disk, checks, changes, queue, phase, raised, events, unnoticed>>

\* The command writes an output.
Write(s, f) ==
  /\ Listening(s) /\ f \in db.out[s] /\ disk[f] # "made"
  /\ disk' = [disk EXCEPT ![f] = "made"] /\ changes' = changes \cup {f}
  /\ UNCHANGED <<db, checks, asked, miss, queue, phase, raised, events, unnoticed>>
-----------------------------------------------------------------------------
(***************************************************************************)
(* Jobs.                                                                   *)
(***************************************************************************)
\* The director fails on an unexpected update and goes down.
Raise ==
  /\ raised' = TRUE /\ phase' = "down"
  /\ checks' = {} /\ asked' = [s \in Step |-> {}] /\ miss' = {}
  /\ changes' = {} /\ queue' = [f \in File |-> None]
  /\ UNCHANGED <<db, disk, events, unnoticed>>

\* The job of f ends: what it found is written in a transaction of its own.
Apply(d, f) ==
  IF d.ok
  THEN /\ db' = d /\ checks' = checks \ {f}
       /\ UNCHANGED <<disk, asked, miss, changes, queue, phase, raised, events, unnoticed>>
  ELSE Raise

\* Executor.run_hash_job for one of the checks.
HashDone(f) ==
  /\ phase = "build" /\ f \in checks
  /\ Apply(Confirm(db, f), f)

Start(s, d) ==
  /\ db' = d
  /\ UNCHANGED <<disk, checks, asked, miss, changes, queue, phase, raised, events, unnoticed>>

\* UNAVAILABLE_INPUT_WHERE: the initial inputs must be there, while a dynamic
\* input only holds a step back when somebody is going to make it.
Blocked(d, s) ==
  LET attached == Attached(d)
  IN \/ Inputs(d, s) \cap Rows(d, {"VOLATILE"}) # {}
     \/ ~(d.inp[s] \subseteq attached \cap Rows(d, Available))
     \/ d.dyn[s] \cap attached \cap Rows(d, {"PLANNED", "OUTDATED"}) # {}

\* STEP_DISPATCH_WHERE: an attached step may start when those that declared it
\* run or succeeded.
Ready(s) ==
  /\ db.st[s] = "PENDING" /\ s \notin db.deferred /\ ~Blocked(db, s)
  /\ s \in Reached(db, {c \in Step : db.st[c] \in {"RUNNING", "SUCCEEDED"}})

\* Step.out_paths: detached outputs count when the step is detached as well.
Outputs(d, s) ==
  LET attached == Attached(d)
  IN {f \in d.out[s] \cap Rows(d, Output) : s \in attached => f \in attached}

\* The outputs have the content of the last successful run, and s completes.
Succeed(d, s) ==
  LET F == Outputs(d, s)
      e == [SetRows(SetSteps(d, {s}, "SUCCEEDED"), F, "BUILT") EXCEPT
              !.hash = [f \in File |-> IF f \in F THEN disk[f] ELSE @[f]],
              !.hashed = @ \cup {s}]
  IN MarkPending(e, Consumers(e, F \ Rows(d, {"BUILT"})))

Made(s) == \A f \in Outputs(db, s) : disk[f] = "made"

\* Executor.execute_job up to the launch of the command.
Begin(s) ==
  /\ phase = "build" /\ Ready(s) /\ s \notin db.hashed
  /\ Start(s, Reset(SetSteps(db, {s}, "RUNNING"), s))

\* Executor.try_skip_job; inputs may differ from those of the stored hash.
Skip(s) ==
  /\ phase = "build" /\ Ready(s) /\ s \in db.hashed /\ Made(s)
  /\ db.dyn[s] \subseteq Attached(db) \cap Rows(db, Available)
  /\ Start(s, Succeed(db, s))

\* The hash is dropped: inputs or outputs changed, or Executor.validate_dynamic_job
\* found that inputs did while dynamic ones are not there.
NoSkip(s) ==
  /\ phase = "build" /\ Ready(s) /\ s \in db.hashed
  /\ Start(s, [Reset(db, s) EXCEPT !.hashed = @ \ {s}])

\* The command ends without having to be deferred, and wrote its outputs.
EndSuccess(s) ==
  /\ Listening(s) /\ s \notin miss /\ Made(s)
  /\ Start(s, Succeed(db, s))

\* Step.has_unavailable_dynamic_input.
MissesDynamic(d, s) == ~(d.dyn[s] \subseteq Rows(d, Available))

\* The command fails, or is deferred, unless it was too often.  What is found at
\* its outputs is hashed, so that clean-up can recognise it.
EndFailure(s) ==
  /\ Listening(s)
  /\ LET F == Outputs(db, s)
         d == [SetRows(SetRows(db, F \ OnDisk, "PLANNED"), F \cap OnDisk, "OUTDATED") EXCEPT
                 !.hash = [f \in File |-> IF f \in F THEN disk[f] ELSE @[f]],
                 !.hashed = @ \ {s}]
         waits == [SetSteps(d, {s}, "PENDING") EXCEPT
                     !.deferred = IF MissesDynamic(d, s) THEN @ \cup {s} ELSE @]
     IN \/ s \in miss /\ db' = waits
        \/ db' = Detach(SetSteps(d, {s}, "FAILED"), Products(d, s) \cap Step)
  /\ miss' = miss \ {s}
  /\ UNCHANGED <<disk, checks, asked, changes, queue, phase, raised, events, unnoticed>>
-----------------------------------------------------------------------------
(***************************************************************************)
(* The end of a build phase.                                               *)
(***************************************************************************)
\* Workflow.find_glob_violations, without those that are only warned about.
GlobErrors(d) ==
  (Attached(d) \cap UNION {r.found : r \in Registered(d)}) \ Rows(d, Static)

\* report_unbuilt without a reason to skip the clean-up.
Complete(d) ==
  /\ \A s \in Step \cap Attached(d) : d.st[s] = "SUCCEEDED"
  /\ GlobErrors(d) = {}

\* Trellis.delete_detached: detached nodes go once they have no products and
\* no sinks.
Deleted(d) ==
  LET sinks(n) == IF n \in File THEN Consumers(d, {n}) ELSE IF n \in Step THEN d.out[n] ELSE {}
      loose == {n \in Node \ Attached(d) :
                  n \in Tree \/ (n \in Step /\ d.st[n] # "NONE") \/ (n \in File /\ d.row[n] # "NONE")}
      gone[k \in 0 .. Cardinality(Node)] ==
        IF k = 0 THEN {}
        ELSE LET G == gone[k - 1] IN {n \in loose : sinks(n) \cup Products(d, n) \subseteq G}
  IN gone[Cardinality(Node)]

Remove(d, N) ==
  [Detach(d, N) EXCEPT
     !.row = [f \in File |-> IF f \in N THEN "NONE" ELSE @[f]],
     !.hash = [f \in File |-> IF f \in N THEN None ELSE @[f]],
     !.st = [s \in Step |-> IF s \in N THEN "NONE" ELSE @[s]],
     !.deferred = @ \ N,
     !.inp = [s \in Step |-> IF s \in N THEN {} ELSE @[s]],
     !.dyn = [s \in Step |-> IF s \in N THEN {} ELSE @[s]],
     !.out = [s \in Step |-> IF s \in N THEN {} ELSE @[s] \ N],
     !.dynOut = [s \in Step |-> IF s \in N THEN {} ELSE @[s] \ N],
     !.reg = {r \in @ : r.step \notin N},
     !.hashed = (@ \ N) \ {d.cr[n] : n \in N}]

\* Workflow.delete_detached: the files of static trees that no attached step
\* uses go first.
DeleteDetached(d) ==
  LET unused == {f \in File \cap Attached(d) :
                   d.cr[f] \in Tree /\ Consumers(d, {f}) \cap Attached(d) = {}}
      e == Detach(d, unused)
  IN Remove(e, Deleted(e))

\* File.before_delete for the rows that are gone in e.
Queued(d, e) ==
  [f \in File |-> IF e.row[f] # "NONE" THEN None
                  ELSE IF d.row[f] = "VOLATILE" THEN "any"
                  ELSE IF d.row[f] \in {"BUILT", "OUTDATED"} THEN d.hash[f] ELSE None]

\* Watcher.run_once begins with the changes of the build phase.
EnterWatch(d) ==
  /\ phase' = "watch"
  /\ changes' = {f \in changes : Relevant(d, f, BuildStates)}

\* Builder.finalize.  The phase ends when nothing can start, or early.
EndBuild(drained) ==
  /\ phase = "build" /\ checks = {} /\ \A s \in Step : db.st[s] # "RUNNING"
  /\ drained \/ \A s \in Step : ~Ready(s)
  /\ IF Complete(db) /\ ~drained
     THEN /\ db' = DeleteDetached(db) /\ queue' = Queued(db, DeleteDetached(db))
          /\ phase' = "remove" /\ UNCHANGED changes
     ELSE EnterWatch(db) /\ UNCHANGED <<db, queue>>
  /\ UNCHANGED <<disk, checks, asked, miss, raised, events, unnoticed>>

\* remove_deletable_files, one file at a time.
RemoveFile(f) ==
  /\ phase = "remove" /\ queue[f] # None
  /\ disk' = [disk EXCEPT ![f] = IF queue[f] \in {"any", @} THEN None ELSE @]
  /\ changes' = changes \cup {f}
  /\ queue' = [queue EXCEPT ![f] = None]
  /\ UNCHANGED <<db, checks, asked, miss, phase, raised, events, unnoticed>>

EndRemove ==
  /\ phase = "remove" /\ \A f \in File : queue[f] = None
  /\ EnterWatch(db)
  /\ UNCHANGED <<db, disk, checks, asked, miss, queue, raised, events, unnoticed>>
-----------------------------------------------------------------------------
(***************************************************************************)
(* Between build phases.                                                   *)
(***************************************************************************)
Happens == events < MaxEvents /\ events' = events + 1

\* The user creates or deletes a file; the watcher takes notice when the path
\* matters.
Edit(f) ==
  /\ Happens /\ phase \in {"watch", "down"} /\ f \in UserFiles
  /\ \E c \in {None, "user"} \ {disk[f]} : disk' = [disk EXCEPT ![f] = c]
  /\ changes' = IF phase = "watch" /\ Relevant(db, f, WatchStates) THEN changes \cup {f}
                ELSE changes
  /\ UNCHANGED <<db, checks, asked, miss, queue, phase, raised, unnoticed>>

\* The user edits the script of s, which is a static input.
EditScript(s) ==
  /\ Happens /\ phase = "watch" /\ db.st[s] \in {"SUCCEEDED", "FAILED"}
  /\ db' = MarkPending(db, {s})
  /\ UNCHANGED <<disk, memory, phase, raised, unnoticed>>

\* DirectorHandler.start_build_phase retries what failed, and the watcher
\* compares the changed files that have rows with the hashes: those that are
\* back unchanged are no changes.
EndWatch ==
  /\ phase = "watch" /\ Happens /\ phase' = "update"
  /\ LET rows == {f \in changes : db.row[f] # "NONE"}
         stale == {f \in rows : db.hash[f] # disk[f]}
         back == (rows \ stale) \cap OnDisk
     IN /\ db' = MarkPending(db, {s \in Step \cap Attached(db) : db.st[s] = "FAILED"})
        /\ checks' = stale /\ changes' = changes \ back
        /\ unnoticed' = (unnoticed \ changes) \cup back
  /\ UNCHANGED <<disk, asked, miss, queue, raised>>

\* Executor.run_hash_job for one of the changed files.
Update(f) ==
  /\ phase = "update" /\ f \in checks
  /\ Apply(External(db, f), f)

\* The patterns follow when all jobs are done, and a build phase begins.
StartBuild ==
  /\ phase = "update" /\ checks = {} /\ phase' = "build"
  /\ db' = ProcessGlobs(db, changes \ OnDisk, changes \cap OnDisk)
  /\ changes' = {}
  /\ UNCHANGED <<disk, checks, asked, miss, queue, raised, events, unnoticed>>

\* The director stops, or crashes.
Stop ==
  /\ Happens /\ phase # "down" /\ phase' = "down"
  /\ checks' = {} /\ asked' = [s \in Step |-> {}] /\ miss' = {}
  /\ changes' = {} /\ queue' = [f \in File |-> None]
  /\ UNCHANGED <<db, disk, raised, unnoticed>>

\* Mutant: the hashes of files are taken to be current.
RescanNothing(d) == d

\* rescan_files: attached files only, and those that nobody checked yet.
RescanFiles(d) ==
  LET files == Attached(d) \cap (File \ Rows(d, {"PLANNED", "VOLATILE"}))
      unconfirmed == files \cap Rows(d, {"UNCONFIRMED"})
      Con(f, e) == Confirm(e, f)
  IN Externals(FoldSet(Con, d, unconfirmed),
               {f \in files \ unconfirmed : d.hash[f] # disk[f]})

\* rescan_nglobs.
RescanGlobs(d) == Rematch(d, [r \in Registered(d) |-> Found(r.glob)])

\* Workflow._check_consistency, reset_interrupted_steps and the scans.
Restart ==
  /\ phase = "down" /\ Happens
  /\ LET doubtful == {s \in Step : /\ db.st[s] = "SUCCEEDED"
                                   /\ db.out[s] \cap Attached(db) \cap
                                        Rows(db, Static \cup {"PLANNED", "OUTDATED"}) # {}}
         d == MarkPending(db, doubtful)
         e == SetSteps(d, {s \in Step : d.st[s] = "RUNNING"}, "FAILED")
         failed == {s \in Step \cap Attached(e) : e.st[s] = "FAILED"}
     IN db' = RescanGlobs(RescanFiles(MarkPending(e, failed)))
  /\ phase' = "build" /\ unnoticed' = {}
  /\ UNCHANGED <<disk, memory, raised>>

\* search_consuming_paths: the outputs that depend on F, F included.
ConsumingPaths(F, all) ==
  LET from[k \in 0 .. Cardinality(Node)] ==
        IF k = 0 THEN F
        ELSE LET R == from[k - 1]
             IN R \cup Consumers(db, R) \cup UNION {db.out[s] : s \in Step \cap R}
  IN {f \in from[Cardinality(Node)] \cap Rows(db, {"BUILT", "OUTDATED", "VOLATILE"}) :
        all \/ f \notin Attached(db)}

\* stepup clean, for the paths in F: what the last run wrote is removed, and
\* attached outputs only on demand.
Clean(F, all) ==
  LET outputs == {f \in ConsumingPaths(F, all) : db.row[f] = "VOLATILE" \/ disk[f] = db.hash[f]}
  IN /\ Happens /\ phase = "down"
     /\ outputs \cap OnDisk # {}
     /\ disk' = [f \in File |-> IF f \in outputs THEN None ELSE disk[f]]
     /\ UNCHANGED <<db, memory, phase, raised, unnoticed>>
-----------------------------------------------------------------------------
Nobody == [s \in Step |-> {}]

Init ==
  /\ db = [cr |-> [n \in Node |-> IF n = Plan THEN Root ELSE None],
           row |-> [f \in File |-> "NONE"], hash |-> [f \in File |-> None],
           st |-> [s \in Step |-> IF s = Plan THEN "PENDING" ELSE "NONE"],
           hashed |-> {}, deferred |-> {}, inp |-> Nobody, dyn |-> Nobody, out |-> Nobody, dynOut |-> Nobody,
           reg |-> {}, toCheck |-> {}, ok |-> TRUE]
  /\ disk \in {c \in [File -> {None, "user"}] : \A f \in File \ UserFiles : c[f] = None}
  /\ checks = {} /\ asked = Nobody /\ miss = {} /\ changes = {}
  /\ queue = [f \in File |-> None]
  /\ phase = "build" /\ raised = FALSE /\ events = 0 /\ unnoticed = {}

Next ==
  \/ \E s \in Step : \/ DeclareStatics(s) \/ DeclareGlob(s) \/ Define(s) \/ Amend(s) \/ Answer(s)
                     \/ \E f \in File : Write(s, f)
                     \/ Begin(s) \/ Skip(s) \/ NoSkip(s) \/ EndSuccess(s) \/ EndFailure(s)
                     \/ EditScript(s)
  \/ \E f \in File : HashDone(f) \/ Update(f) \/ RemoveFile(f) \/ Edit(f)
  \/ \E drained \in BOOLEAN : EndBuild(drained)
  \/ EndRemove \/ EndWatch \/ StartBuild \/ Stop \/ Restart
  \/ \E F \in SUBSET File, all \in BOOLEAN : Clean(F, all)

Spec == Init /\ [][Next]_vars
-----------------------------------------------------------------------------
(***************************************************************************)
(* Properties.                                                             *)
(***************************************************************************)
\* The columns and the memory of the director keep their types, and no
\* transaction that raises is committed.
TypeOK ==
  /\ db.cr \in [Node -> Node \cup {Root, None}]
  /\ db.row \in [File -> Static \cup Output \cup {"NONE", "UNDECLARED", "VOLATILE"}]
  /\ db.hash \in [File -> {None, "user", "made"}]
  /\ db.st \in [Step -> {"NONE", "PENDING", "RUNNING", "SUCCEEDED", "FAILED"}]
  /\ db.hashed \subseteq Step /\ db.deferred \subseteq Step
  /\ {db.inp, db.dyn, db.out, db.dynOut} \subseteq [Step -> SUBSET File]
  /\ \A s \in Step : db.dynOut[s] \subseteq db.out[s]
  /\ db.reg \subseteq [step : Step, glob : Glob, found : SUBSET File]
  /\ db.toCheck = {} /\ db.ok
  /\ disk \in [File -> {None, "user", "made"}]
  /\ checks \subseteq File /\ asked \in [Step -> SUBSET File] /\ miss \subseteq Step
  /\ changes \subseteq File /\ queue \in [File -> {None, "any", "user", "made"}]
  /\ phase \in {"build", "remove", "watch", "update", "down"} /\ raised \in BOOLEAN
  /\ events \in 0 .. MaxEvents /\ unnoticed \subseteq File

\* An attached file in an attached static tree was declared by that tree,
\* whether it was declared, supplied or left over before or after the tree
\* (Workflow.register_static_tree, _declare_file and _resolve_supply_file).
TreeOwnsFiles ==
  LET attached == Attached(db)
  IN \A t \in Tree \cap attached : \A f \in Under[t] \cap attached : db.cr[f] = t

\* An attached output has an edge from one step, the one that declares it, and
\* a static file from none, however often declarations of the path moved from
\* step to step and from the user to a step (Trellis.create).
OneMaker ==
  \A f \in File \cap Attached(db) :
    {s \in Step : f \in db.out[s]} = IF db.row[f] \in Static THEN {} ELSE {db.cr[f]}

\* What no step may declare as its output.
Sources ==
  LET calls == UNION {Defines[s] \cup Amends[s] : s \in Step}
  IN File \ UNION {c.out \cup c.vol : c \in calls}

\* The sources that a pattern of the root plan has on record are those on disk
\* that match it, up to changes that the watcher still holds and files that it
\* found to be back unchanged, however often files come and go while directors
\* run or not (Workflow.register_nglob, process_nglob_changes, rescan_nglobs,
\* Watcher.run_once).
GlobsCurrent ==
  \A r \in db.reg : r.step = Plan /\ phase # "down" =>
    /\ (r.found \cap Sources) \ OnDisk \subseteq changes
    /\ (Found(r.glob) \cap Sources) \ r.found \subseteq changes \cup unnoticed

\* A static file that the root plan or a static tree declares has the hash of
\* what is on disk, or a job or a recorded change will renew it, also after
\* edits while no director runs (Workflow.update_file_hashes, rescan_files).
StaticsCurrent ==
  \A f \in File \cap Attached(db) :
    db.row[f] \in Static /\ db.cr[f] \in Tree \cup {Plan} /\ phase # "down" =>
      \/ f \in checks \cup changes
      \/ db.row[f] = (IF Missing(f) THEN "MISSING" ELSE "CONFIRMED") /\ db.hash[f] = disk[f]

\* No combination of cause, state and content that _HASH_TRANSITIONS leaves out
\* is ever handed to Workflow.update_file_hashes, as its comment says.
UpdatesExpected == ~raised

\* The attached outputs of a succeeded step are BUILT or VOLATILE, which
\* Workflow._check_consistency verifies at startup.
SucceededBuilt ==
  LET succeeded == {s \in Step : db.st[s] = "SUCCEEDED"}
  IN Attached(db) \cap UNION {db.out[s] : s \in succeeded} \subseteq Rows(db, {"BUILT", "VOLATILE"})

\* The types, and whatever claims of a path follow one another, it has the
\* owner and the maker that the present declarations give it.
OneOwner == TypeOK /\ TreeOwnsFiles /\ OneMaker
=============================================================================
