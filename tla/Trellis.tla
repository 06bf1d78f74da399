------------------------------- MODULE Trellis -------------------------------
(***************************************************************************)
(* The combined provenance and dependency graph (core/trellis.py): the     *)
(* `node` table with its creator -> product edges and `detached` flags,    *)
(* the `dependency` table with its source -> sink edges, and the step      *)
(* hashes that Node.after_lost_product invalidates.                        *)
(*                                                                         *)
(* A node is named by its (kind, label) pair, which is unique in the node  *)
(* table.  This is the layer of the Trellis and Node methods: one action   *)
(* is one call of such a method, or the group of calls its one caller      *)
(* makes with it, and a Workflow transaction is a sequence of actions, so  *)
(* the properties hold inside transactions too.                            *)
(***************************************************************************)
EXTENDS FiniteSets

CONSTANTS Step, File, Tree,   \* the labels of the three kinds of nodes
          Root,               \* the root node, its own creator
          NoNode              \* SQL NULL in the creator column

ASSUME KindsDisjoint ==
  /\ Step \cap File = {} /\ Step \cap Tree = {} /\ File \cap Tree = {}
ASSUME RootIsNoNode ==
  /\ Root # NoNode
  /\ {Root, NoNode} \cap (Step \cup File \cup Tree) = {}

Node == Step \cup File \cup Tree

VARIABLES
  node,        \* the nodes that have a row in the node table
  creator,     \* creator[n]: the creator column, NoNode when NULL or no row
  detached,    \* the nodes whose detached column is TRUE
  dependency,  \* the rows of the dependency table, as <<source, sink>>
  hashed,      \* the steps with a row in the step_hash table
  recorded,    \* history: the products a hashed step had when it was hashed
  redeclared   \* history: the steps created anew since they were hashed

vars == <<node, creator, detached, dependency, hashed, recorded, redeclared>>

Attached == node \ detached

Products(n) == {p \in node : creator[p] = n}

(***************************************************************************)
(* RECURSIVELY_SET_DETACHED: the transitive products of n under the        *)
(* creator edges cr, as the least set that is closed under them.           *)
(***************************************************************************)
ClosedUnderProducts(cr, n, S) == \A p \in Node : cr[p] \in S \cup {n} => p \in S

AllProducts(cr, n) ==
  LET closed == {S \in SUBSET Node : ClosedUnderProducts(cr, n, S)}
  IN {m \in Node : \A S \in closed : m \in S}

(***************************************************************************)
(* RECURSE_SINKS follows the source -> sink edges dep.                     *)
(***************************************************************************)
ClosedUnderSinks(dep, S) == \A e \in dep : e[1] \in S => e[2] \in S

\* Mutant: only the edge from n to itself is refused.
SourcesAcyclicDirect(dep, n, S) == n \notin S

\* check_sources_acyclic: none of the sources S is n or a transitive sink of n.
SourcesAcyclic(dep, n, S) ==
  \E T \in SUBSET Node : n \in T /\ ClosedUnderSinks(dep, T) /\ T \cap S = {}

IsDetached(c) == c = NoNode \/ c \in detached

\* Node.after_lost_product of every node in C: a step drops its hash, a
\* static tree does nothing; the root and a file raise (see LostByRecorder).
DropHashes(C) ==
  /\ hashed' = hashed \ C
  /\ recorded' = [s \in Step |-> IF s \in C THEN {} ELSE recorded[s]]
  /\ redeclared' = redeclared \ C

KeepHashes == UNCHANGED <<hashed, recorded, redeclared>>
-----------------------------------------------------------------------------
Init ==
  /\ node = {}
  /\ creator = [n \in Node |-> NoNode]
  /\ detached = {}
  /\ dependency = {}
  /\ hashed = {}
  /\ recorded = [s \in Step |-> {}]
  /\ redeclared = {}

\* Which nodes a caller passes as the creator of a node of each kind:
\* define_step, _declare_file, _resolve_supply_file.
MayCreate(c, n) ==
  /\ c # n
  /\ c \in node \cup {Root, NoNode}
  /\ \/ n \in Step /\ c \in Step \cup {Root}
     \/ n \in File /\ c \in Step \cup Tree \cup {Root}
     \/ n \in File /\ c = NoNode /\ creator[n] = NoNode

\* Trellis.create, for a label without a row: a plain INSERT.
CreateNew(n, c) ==
  /\ n \notin node
  /\ MayCreate(c, n)
  /\ node' = node \cup {n}
  /\ creator' = [creator EXCEPT ![n] = c]
  /\ detached' = IF IsDetached(c) THEN detached \cup {n} ELSE detached
  /\ KeepHashes

\* Mutant: the old creator is not told that it lost a product.
CreateOverSilent(n, c) ==
  /\ n \in detached
  /\ MayCreate(c, n)
  /\ creator' = [p \in Node |-> IF p = n THEN c
                                ELSE IF creator[p] = n THEN NoNode
                                ELSE creator[p]]
  /\ detached' = IF IsDetached(c) THEN detached ELSE detached \ {n}
  /\ redeclared' = redeclared \cup ({n} \cap hashed)
  /\ UNCHANGED <<node, hashed, recorded>>

\* Trellis.create, for the label of a detached node: the row gets the new
\* creator, the old creator loses a product and every product is detached.
\* Step.initialize_row keeps a stored hash.
CreateOver(n, c) ==
  /\ n \in detached
  /\ MayCreate(c, n)
  /\ creator' = [p \in Node |-> IF p = n THEN c
                                ELSE IF creator[p] = n THEN NoNode
                                ELSE creator[p]]
  /\ detached' = IF IsDetached(c) THEN detached ELSE detached \ {n}
  /\ LET lost == {creator[n]} \cap Step
     IN /\ hashed' = hashed \ lost
        /\ recorded' = [s \in Step |-> IF s \in lost THEN {} ELSE recorded[s]]
        /\ redeclared' = (redeclared \cup ({n} \cap hashed)) \ lost
  /\ UNCHANGED node

\* Trellis.create followed by the caller's add_source(creator) when an output
\* is declared (E = {c}).  A row that is created over starts without sources.
Create(n, c, E) ==
  /\ CreateNew(n, c) \/ CreateOver(n, c)
  /\ E = {} \/ (n \in File /\ c \in Step /\ E = {c})
  /\ LET clean == {e \in dependency : e[2] # n}
     IN /\ SourcesAcyclic(clean, n, E)
        /\ dependency' = clean \cup (E \X {n})

\* Trellis.try_recycle of a step that can_recycle accepts: Node.reattach.
\* The node and all its products take over the new creator's detached flag.
TryRecycle(n, c) ==
  /\ n \in Step \cap detached
  /\ MayCreate(c, n)
  /\ creator' = [creator EXCEPT ![n] = c]
  /\ LET subtree == {n} \cup AllProducts(creator', n)
     IN detached' = IF IsDetached(c) THEN detached \cup subtree
                                     ELSE detached \ subtree
  /\ DropHashes({creator[n]} \cap Step)
  /\ UNCHANGED <<node, dependency>>

\* Mutant: the flag is not propagated to the products.
DetachAllShallow(D) ==
  /\ creator' = [p \in Node |-> IF p \in D THEN NoNode ELSE creator[p]]
  /\ detached' = detached \cup D

\* Node.detach of every node of D: creator NULL, and the detached flag set on
\* the nodes and their transitive products.
DetachAll(D) ==
  /\ creator' = [p \in Node |-> IF p \in D THEN NoNode ELSE creator[p]]
  /\ detached' = detached \cup D \cup UNION {AllProducts(creator, d) : d \in D}

\* The products of s that are static: declared without an edge from s.
StaticFiles(s) == {f \in Products(s) \cap File : <<s, f>> \notin dependency}

\* Step.reset_for_rerun, on a step without a hash (Executor.execute_job) or
\* with its hash deleted in the same transaction (_reset_step_to_pending):
\* the dynamic inputs I are cut, and all products are detached but the
\* initial outputs O.
ResetForRerun(s) ==
  /\ s \in node \cap Step
  /\ \E O \in SUBSET ((Products(s) \cap File) \ StaticFiles(s)), I \in SUBSET File :
       LET dropped == Products(s) \ O
       IN /\ DetachAll(dropped)
          /\ dependency' = dependency \ ((I \X {s}) \cup ({s} \X dropped))
  /\ DropHashes({s})
  /\ UNCHANGED node

\* Step.mark_completed without a new hash: a step that FAILED detaches the
\* steps it created and loses its hash.
MarkFailed(s) ==
  /\ s \in node \cap Step
  /\ DetachAll(Products(s) \cap Step)
  /\ DropHashes({s})
  /\ UNCHANGED <<node, dependency>>

\* Step.mark_completed with the hash of a run: only a step without a stored
\* hash is ever run (SELECT_NEXT_STEP, _derive_job).
MarkSucceeded(s) ==
  /\ s \in (node \cap Step) \ hashed
  /\ hashed' = hashed \cup {s}
  /\ recorded' = [recorded EXCEPT ![s] = Products(s)]
  /\ UNCHANGED <<node, creator, detached, dependency, redeclared>>

\* Workflow.initialize_boot: every product of the root is detached.
InitializeBoot ==
  /\ Products(Root) # {}
  /\ DetachAll(Products(Root))
  /\ KeepHashes
  /\ UNCHANGED <<node, dependency>>

\* Workflow.register_static_tree: the tree is created.  The static files F that
\* the running step declared before become its products without going through
\* Trellis.create: the step, which has no hash while it runs, does not lose
\* them.  The detached files A under the tree are then declared by it.
RegisterTree(s, t) ==
  /\ s \in (Step \cap node) \ hashed
  /\ t \in Tree \ Attached
  /\ \E F \in SUBSET (StaticFiles(s) \cap Attached), A \in SUBSET (File \cap detached) :
       /\ creator' = [p \in Node |-> IF p = t THEN s
                                     ELSE IF p \in F \cup A THEN t
                                     ELSE IF creator[p] = t THEN NoNode
                                     ELSE creator[p]]
       /\ detached' = IF IsDetached(s) THEN detached \cup {t} ELSE detached \ ({t} \cup A)
       /\ dependency' = {e \in dependency : e[2] \notin A}
       /\ DropHashes({creator[p] : p \in {t} \cup A} \cap Step)
  /\ node' = node \cup {t}

\* Workflow._supply_files: the files S become sources of the step n in one
\* batch, for which check_sources_acyclic computes the sinks of n only once.
SupplyFiles(n, S) ==
  /\ n \in node \cap Step
  /\ S \subseteq node \cap File
  /\ SourcesAcyclic(dependency, n, S)
  /\ dependency' = dependency \cup (S \X {n})
  /\ KeepHashes
  /\ UNCHANGED <<node, creator, detached>>

(***************************************************************************)
(* Workflow.delete_detached: first the unused files of the attached static *)
(* trees are detached, then Trellis.delete_detached deletes detached nodes *)
(* without products and sinks until none is left.  What survives is the    *)
(* largest set in which every detached node still has a product or a sink. *)
(***************************************************************************)
UnusedTreeFiles ==
  {f \in File \cap Attached :
     creator[f] \in Tree /\ ~\E e \in dependency : e[1] = f /\ e[2] \in Attached}

Held(n, K, cr) ==
  \/ \E p \in K : cr[p] = n
  \/ \E e \in dependency : e[1] = n /\ e[2] \in K

\* Mutant: one pass over the detached nodes instead of a loop.
SurvivorsOnePass(cr, det) == {n \in node : n \in det => Held(n, node, cr)}

Survivors(cr, det) ==
  UNION {K \in SUBSET node : \A n \in K : n \in det => Held(n, K, cr)}

\* Mutant: the sources of a deleted node are not cut.
DeleteDetachedOnly ==
  LET kept == Survivors(creator, detached)
  IN /\ node' = kept
     /\ creator' = [p \in Node |-> IF p \in kept THEN creator[p] ELSE NoNode]
     /\ detached' = detached \cap kept
     /\ UNCHANGED dependency
     /\ DropHashes(Step \cap ((node \ kept) \cup {creator[p] : p \in node \ kept}))

DeleteDetached ==
  LET cr   == [p \in Node |-> IF p \in UnusedTreeFiles THEN NoNode ELSE creator[p]]
      det  == detached \cup UnusedTreeFiles
      kept == Survivors(cr, det)
  IN /\ node' = kept
     /\ creator' = [p \in Node |-> IF p \in kept THEN cr[p] ELSE NoNode]
     /\ detached' = det \cap kept
     /\ dependency' = {e \in dependency : e[2] \in kept}
     /\ DropHashes(Step \cap ((node \ kept) \cup {cr[p] : p \in node \ kept}))

Next ==
  \/ \E n \in Step \cup File, c \in Node \cup {Root, NoNode} :
       Create(n, c, {}) \/ Create(n, c, {c}) \/ TryRecycle(n, c)
  \/ \E s \in Step : ResetForRerun(s) \/ MarkFailed(s) \/ MarkSucceeded(s)
  \/ \E s \in Step, t \in Tree : RegisterTree(s, t)
  \/ \E s \in Step, S \in (SUBSET File) \ {{}} : SupplyFiles(s, S)
  \/ InitializeBoot
  \/ DeleteDetached

Spec == Init /\ [][Next]_vars
-----------------------------------------------------------------------------
\* Type invariant: the columns hold what the SQL schema allows.
TypeOK ==
  /\ node \subseteq Node
  /\ creator \in [Node -> Node \cup {Root, NoNode}]
  /\ detached \subseteq node
  /\ dependency \subseteq node \X node
  /\ hashed \subseteq Step \cap node
  /\ recorded \in [Step -> SUBSET Node]
  /\ redeclared \subseteq hashed

(***************************************************************************)
(* Trellis._check_consistency, row by row: a node is detached exactly when *)
(* it has no creator or its creator is detached.  It also makes the two    *)
(* "Old creator of detached node is not detached" errors unreachable.      *)
(***************************************************************************)
DetachedAgrees ==
  \A n \in node : n \in detached <=> IsDetached(creator[n])

(***************************************************************************)
(* CHECK_DETACHED_REACHABILITY: every attached node is reached from the    *)
(* root: a set of attached nodes has a member that was created by the root *)
(* or by an attached node outside the set, so no cycle of creators keeps   *)
(* nodes attached.                                                         *)
(***************************************************************************)
AttachedReachable ==
  \A S \in (SUBSET Attached) \ {{}} : \E n \in S : creator[n] \in (Attached \ S) \cup {Root}

\* Foreign keys: a creator is the root or has a row itself.
CreatorExists == \A n \in node : creator[n] \in node \cup {Root, NoNode}

\* check_sources_acyclic: the dependency graph has no cycle, also after a
\* batch of edges that was checked only once.
DependencyAcyclic ==
  \A S \in SUBSET node : (\A n \in S : \E m \in S : <<m, n>> \in dependency) => S = {}

\* File.after_lost_product and Root.after_lost_product raise: the creator that
\* loses a detached node to a take-over or a deletion is a step or a tree.
LostByRecorder == \A n \in detached : creator[n] \in Step \cup Tree \cup {NoNode}

\* A stored hash describes a complete run: a hashed step that was not
\* declared anew still owns every product it had when it was hashed, through
\* detaching, recycling, take-overs and deletions.
RecordComplete ==
  \A s \in hashed \ redeclared : recorded[s] \subseteq Products(s)

\* Trellis.delete_detached leaves nothing it could still delete: each detached
\* node left behind is held by a product or a sink.
DeletesToFixedPoint ==
  [][node \ node' # {} => \A n \in detached' : \/ \E p \in node' : creator'[p] = n
                                               \/ \E e \in dependency' : e[1] = n]_vars

\* Trellis.delete_detached never deletes what an attached node still depends
\* on, or what created a node that stays.
NeverDeletesNeeded ==
  [][node \ node' # {} => /\ \A e \in dependency : e[2] \in Attached' => e[1] \in node'
                          /\ \A n \in Attached' : creator[n] \in node' \cup {Root}]_vars

\* What Trellis._check_consistency verifies at startup, and what keeps
\* after_lost_product from raising, holds after every operation.
Consistent == DetachedAgrees /\ AttachedReachable /\ LostByRecorder

\* Trellis.delete_detached deletes all that nothing holds, and nothing else.
DeletesExactly == DeletesToFixedPoint /\ NeverDeletesNeeded
=============================================================================
