---------------------------- MODULE DatabaseProofs ----------------------------
(***************************************************************************)
(* Proofs about the two layers of the database: the graph of Trellis, for  *)
(* any sets of steps, files and static trees, and the connection of        *)
(* Session, for any tasks, rows and tables and any number of transactions, *)
(* starts and crashes.                                                     *)
(***************************************************************************)
EXTENDS Trellis, Session, SequenceTheorems, TLAPS

(***************************************************************************)
(* PART ONE: Trellis.                                                      *)
(***************************************************************************)

NodeOrNone == Node \cup {Root, NoNode}

(***************************************************************************)
(* The graph of the transitive products.                                   *)
(***************************************************************************)

\* RECURSIVELY_SET_DETACHED stops only when it has followed every edge.
LEMMA ProductsClosed ==
  ASSUME NEW cr, NEW n
  PROVE  ClosedUnderProducts(cr, n, AllProducts(cr, n))
BY DEF ClosedUnderProducts, AllProducts

\* It reaches no more nodes than any set that is closed.
LEMMA ProductsLeast ==
  ASSUME NEW cr, NEW n, NEW S \in SUBSET Node, ClosedUnderProducts(cr, n, S)
  PROVE  AllProducts(cr, n) \subseteq S
BY DEF AllProducts

\* Every node that is reached has a creator that is reached.
LEMMA ProductsInside ==
  ASSUME NEW cr, NEW n, NEW m \in AllProducts(cr, n)
  PROVE  cr[m] \in AllProducts(cr, n) \cup {n}
<1> DEFINE S == {p \in AllProducts(cr, n) : cr[p] \in AllProducts(cr, n) \cup {n}}
<1>1. S \in SUBSET Node
  BY DEF AllProducts
<1>2. ClosedUnderProducts(cr, n, S)
  BY ProductsClosed DEF ClosedUnderProducts
<1>3. AllProducts(cr, n) \subseteq S
  <2> HIDE DEF S
  <2> QED BY <1>1, <1>2, ProductsLeast
<1> QED BY <1>3

\* Only nodes with a row are reached, because only they have a creator.
LEMMA ProductsHaveRows ==
  ASSUME NEW cr, NEW n, NEW S \in SUBSET Node, n \in Node,
         \A p \in Node : cr[p] # NoNode => p \in S
  PROVE  AllProducts(cr, n) \subseteq S
<1>1. ClosedUnderProducts(cr, n, S)
  BY RootIsNoNode DEF ClosedUnderProducts, Node
<1> QED BY <1>1, ProductsLeast

(***************************************************************************)
(* The survivors of Trellis.delete_detached.                               *)
(***************************************************************************)

\* A detached node survives only when it is held by a survivor.
LEMMA SurvivorsAreHeld ==
  ASSUME NEW cr, NEW det, NEW n \in Survivors(cr, det)
  PROVE  /\ n \in node
         /\ n \in det => Held(n, Survivors(cr, det), cr)
BY DEF Survivors, Held

\* The loop deletes nothing that is attached or held by a survivor.
LEMMA HeldSurvives ==
  ASSUME NEW cr, NEW det, NEW n \in node,
         n \in det => Held(n, Survivors(cr, det), cr)
  PROVE  n \in Survivors(cr, det)
<1> DEFINE K == Survivors(cr, det) \cup {n}
<1>1. K \subseteq node
  BY DEF Survivors
<1>2. \A m \in K : m \in det => Held(m, K, cr)
  BY SurvivorsAreHeld DEF Held
<1> QED BY <1>1, <1>2 DEF Survivors

(***************************************************************************)
(* Rows: the columns have the right type, only nodes with a row have a     *)
(* creator, a creator has a row, and it is a step, a tree or the root.     *)
(* TypeOK alone is not inductive: the detached flags stay within the node  *)
(* table because the nodes reached by RECURSIVELY_SET_DETACHED have        *)
(* creators.                                                               *)
(***************************************************************************)
CreatorKinds ==
  /\ \A n \in Node \ node : creator[n] = NoNode
  /\ \A n \in node : creator[n] \in ((Step \cup Tree) \cap node) \cup {Root, NoNode}

RowInv == TypeOK /\ CreatorKinds

\* Node.detach keeps the rows consistent, for all the ways it is called.
LEMMA DetachKeepsRows ==
  ASSUME RowInv, NEW D \in SUBSET node, DetachAll(D)
  PROVE  /\ creator' \in [Node -> NodeOrNone]
         /\ detached' \subseteq node
         /\ \A n \in Node \ node : creator'[n] = NoNode
         /\ \A n \in node :
              creator'[n] \in ((Step \cup Tree) \cap node) \cup {Root, NoNode}
<1> USE DEF RowInv, TypeOK, CreatorKinds, DetachAll, NodeOrNone
<1>1. \A d \in D : AllProducts(creator, d) \subseteq node
  <2> SUFFICES ASSUME NEW d \in D PROVE AllProducts(creator, d) \subseteq node
    OBVIOUS
  <2>1. d \in Node /\ node \in SUBSET Node
    OBVIOUS
  <2>2. \A p \in Node : creator[p] # NoNode => p \in node
    OBVIOUS
  <2> QED BY ONLY <2>1, <2>2, ProductsHaveRows, RootIsNoNode
<1>2. detached' \subseteq node
  BY <1>1
<1> QED BY <1>2

\* Dropping hashes keeps the records of hashes consistent.
LEMMA DropKeepsHashes ==
  ASSUME TypeOK, NEW C, DropHashes(C)
  PROVE  /\ hashed' \subseteq hashed
         /\ recorded' \in [Step -> SUBSET Node]
         /\ redeclared' \subseteq hashed'
BY DEF TypeOK, DropHashes

\* What Workflow.delete_detached passes to Trellis.delete_detached: the unused
\* files of static trees are detached first.
Unlinked == [p \in Node |-> IF p \in UnusedTreeFiles THEN NoNode ELSE creator[p]]
Unwanted == detached \cup UnusedTreeFiles

\* The deletion never removes a source of a node that stays.
LEMMA DeletionKeepsSources ==
  ASSUME RowInv
  PROVE  \A e \in dependency : e[2] \in Survivors(Unlinked, Unwanted)
                               => e[1] \in Survivors(Unlinked, Unwanted)
<1> SUFFICES ASSUME NEW e \in dependency, e[2] \in Survivors(Unlinked, Unwanted)
             PROVE  e[1] \in Survivors(Unlinked, Unwanted)
  OBVIOUS
<1>1. e[1] \in node
  BY DEF RowInv, TypeOK
<1>2. Held(e[1], Survivors(Unlinked, Unwanted), Unlinked)
  BY DEF Held
<1> QED BY <1>1, <1>2, HeldSurvives

\* The deletion never removes the creator of a node that stays.
LEMMA DeletionKeepsCreators ==
  ASSUME RowInv
  PROVE  \A p \in Survivors(Unlinked, Unwanted) :
           Unlinked[p] \in ((Step \cup Tree) \cap Survivors(Unlinked, Unwanted))
                           \cup {Root, NoNode}
<1> DEFINE kept == Survivors(Unlinked, Unwanted)
<1> SUFFICES ASSUME NEW p \in kept, Unlinked[p] \notin {Root, NoNode}
             PROVE  Unlinked[p] \in (Step \cup Tree) \cap kept
  OBVIOUS
<1>1. p \in node /\ p \in Node
  BY SurvivorsAreHeld DEF RowInv, TypeOK
<1>2. Unlinked[p] \in (Step \cup Tree) \cap node
  BY <1>1 DEF Unlinked, RowInv, CreatorKinds
<1>3. Held(Unlinked[p], kept, Unlinked)
  BY DEF Held
<1> QED BY <1>2, <1>3, HeldSurvives

LEMMA RowInit == Init => RowInv
BY RootIsNoNode DEF Init, RowInv, TypeOK, CreatorKinds, Node

LEMMA RowStep == RowInv /\ [Next]_vars => RowInv'
<1> SUFFICES ASSUME RowInv, [Next]_vars PROVE RowInv'
  OBVIOUS
<1> USE DEF RowInv, NodeOrNone
<1>1. ASSUME NEW n \in Step \cup File, NEW c \in Node \cup {Root, NoNode},
             NEW E, Create(n, c, E)
      PROVE  RowInv'
  <2>1. n \in Node /\ n \in node' /\ node \subseteq node'
    BY <1>1 DEF Create, CreateNew, CreateOver, TypeOK, Node
  <2>2. dependency' \subseteq node' \X node'
    BY <1>1, <2>1, KindsDisjoint, RootIsNoNode
       DEF Create, CreateNew, CreateOver, MayCreate, TypeOK
  <2>3. TypeOK'
    BY <1>1, <2>1, <2>2
       DEF Create, CreateNew, CreateOver, KeepHashes, TypeOK, Node
  <2>4. c \in ((Step \cup Tree) \cap node) \cup {Root, NoNode}
    BY <1>1 DEF Create, CreateNew, CreateOver, MayCreate, Node
  <2>5. CreatorKinds'
    BY <1>1, <2>1, <2>4
       DEF Create, CreateNew, CreateOver, TypeOK, CreatorKinds
  <2> QED BY <2>3, <2>5
<1>2. ASSUME NEW n \in Step \cup File, NEW c \in Node \cup {Root, NoNode},
             TryRecycle(n, c)
      PROVE  RowInv'
  <2>1. c \in ((Step \cup Tree) \cap node) \cup {Root, NoNode}
    BY <1>2 DEF TryRecycle, MayCreate, Node, TypeOK
  <2>2. n \in node /\ n \in Node
    BY <1>2 DEF TryRecycle, TypeOK
  <2>3. creator' = [creator EXCEPT ![n] = c] /\ node' = node
    BY <1>2 DEF TryRecycle
  <2>4. \A p \in Node : creator'[p] # NoNode => p \in node
    BY <2>2, <2>3 DEF TypeOK, CreatorKinds
  <2>5. AllProducts(creator', n) \subseteq node
    BY <2>2, <2>4, ProductsHaveRows DEF TypeOK
  <2>6. detached' \subseteq node
    BY <1>2, <2>2, <2>5 DEF TryRecycle, TypeOK
  <2>7. TypeOK'
    <3>1. dependency' = dependency /\ DropHashes({creator[n]} \cap Step)
      BY <1>2 DEF TryRecycle
    <3> QED BY <2>2, <2>3, <2>6, <3>1, DropKeepsHashes DEF TypeOK
  <2> QED BY <2>1, <2>2, <2>3, <2>7 DEF TypeOK, CreatorKinds
<1>3. ASSUME NEW s \in Step, ResetForRerun(s)
      PROVE  RowInv'
  <2>1. PICK D \in SUBSET node :
          /\ DetachAll(D)
          /\ dependency' \subseteq dependency
    BY <1>3 DEF ResetForRerun, Products
  <2>2. node' = node /\ DropHashes({s})
    BY <1>3 DEF ResetForRerun
  <2> QED BY <2>1, <2>2, DetachKeepsRows, DropKeepsHashes DEF TypeOK, CreatorKinds
<1>4. ASSUME NEW s \in Step, MarkFailed(s)
      PROVE  RowInv'
  <2>1. PICK D \in SUBSET node : DetachAll(D)
    BY <1>4 DEF MarkFailed, Products
  <2>2. node' = node /\ dependency' = dependency /\ DropHashes({s})
    BY <1>4 DEF MarkFailed
  <2> QED BY <2>1, <2>2, DetachKeepsRows, DropKeepsHashes DEF TypeOK, CreatorKinds
<1>5. ASSUME NEW s \in Step, MarkSucceeded(s)
      PROVE  RowInv'
  BY <1>5 DEF MarkSucceeded, TypeOK, CreatorKinds, Products
<1>6. ASSUME NEW s \in Step, NEW t \in Tree, RegisterTree(s, t)
      PROVE  RowInv'
  <2>1. t \in Node /\ s \in node
    BY <1>6 DEF RegisterTree, Node
  <2>2. PICK F \in SUBSET (StaticFiles(s) \cap Attached), A \in SUBSET (File \cap detached) :
          /\ creator' = [p \in Node |-> IF p = t THEN s
                                       ELSE IF p \in F \cup A THEN t
                                       ELSE IF creator[p] = t THEN NoNode
                                       ELSE creator[p]]
          /\ detached' = IF IsDetached(s) THEN detached \cup {t}
                                         ELSE detached \ ({t} \cup A)
          /\ dependency' = {e \in dependency : e[2] \notin A}
          /\ DropHashes({creator[p] : p \in {t} \cup A} \cap Step)
    BY <1>6 DEF RegisterTree
  <2>3. F \cup A \subseteq node
    BY DEF Attached, TypeOK
  <2>4. node' = node \cup {t} /\ detached' \subseteq node' /\ dependency' \subseteq dependency
    BY <1>6, <2>2 DEF RegisterTree, TypeOK
  <2>6. TypeOK'
    BY <2>1, <2>2, <2>4, DropKeepsHashes DEF TypeOK, Node
  <2>7. CreatorKinds'
    BY <2>1, <2>2, <2>3, <2>4 DEF TypeOK, CreatorKinds
  <2> QED BY <2>6, <2>7
<1>7. ASSUME NEW s \in Step, NEW S \in SUBSET File, SupplyFiles(s, S)
      PROVE  RowInv'
  BY <1>7 DEF SupplyFiles, KeepHashes, TypeOK, CreatorKinds
<1>8. ASSUME InitializeBoot
      PROVE  RowInv'
  <2>1. PICK D \in SUBSET node : DetachAll(D)
    BY <1>8 DEF InitializeBoot, Products
  <2>2. UNCHANGED <<node, dependency, hashed, recorded, redeclared>>
    BY <1>8 DEF InitializeBoot, KeepHashes
  <2> QED BY <2>1, <2>2, DetachKeepsRows DEF TypeOK, CreatorKinds
<1>9. ASSUME DeleteDetached
      PROVE  RowInv'
  <2> DEFINE kept == Survivors(Unlinked, Unwanted)
  <2>1. /\ node' = kept
        /\ creator' = [p \in Node |-> IF p \in kept THEN Unlinked[p] ELSE NoNode]
        /\ detached' = Unwanted \cap kept
        /\ dependency' = {e \in dependency : e[2] \in kept}
        /\ \E C : DropHashes(C) /\ Step \cap (node \ kept) \subseteq C
    BY <1>9 DEF DeleteDetached, Unlinked, Unwanted
  <2>2. kept \subseteq node /\ node \subseteq Node
    BY SurvivorsAreHeld DEF TypeOK
  <2>3. \A e \in dependency : e[2] \in kept => e[1] \in kept
    BY DeletionKeepsSources
  <2>4. \A p \in kept : Unlinked[p] \in ((Step \cup Tree) \cap kept) \cup {Root, NoNode}
    BY DeletionKeepsCreators
  <2> HIDE DEF kept
  <2>5. creator' \in [Node -> NodeOrNone]
    BY <2>1, <2>2, <2>4
  <2>6. dependency' \subseteq kept \X kept
    BY <2>1, <2>3 DEF TypeOK
  <2>7. /\ hashed' \subseteq Step \cap kept
        /\ recorded' \in [Step -> SUBSET Node]
        /\ redeclared' \subseteq hashed'
    BY <2>1, DropKeepsHashes DEF TypeOK, DropHashes
  <2>8. TypeOK'
    BY <2>1, <2>2, <2>5, <2>6, <2>7 DEF TypeOK
  <2>9. CreatorKinds'
    BY <2>1, <2>2, <2>4 DEF CreatorKinds
  <2> QED BY <2>8, <2>9
<1>10. ASSUME UNCHANGED vars
       PROVE  RowInv'
  BY <1>10 DEF vars, TypeOK, CreatorKinds
<1> QED BY <1>1, <1>2, <1>3, <1>4, <1>5, <1>6, <1>7, <1>8, <1>9, <1>10 DEF Next

\* The columns of the node, dependency and step_hash tables always hold what
\* the SQL schema and its triggers allow.
THEOREM TypeCorrect == Spec => []TypeOK
<1>1. RowInv => TypeOK
  BY DEF RowInv
<1> QED BY <1>1, RowInit, RowStep, PTL DEF Spec

(***************************************************************************)
(* The detached flags agree with the creators.                             *)
(***************************************************************************)

\* Node.detach: the flag reaches exactly the nodes below a detached one.
LEMMA DetachKeepsFlags ==
  ASSUME RowInv, DetachedAgrees, NEW D \in SUBSET node, DetachAll(D), node' = node
  PROVE  DetachedAgrees'
<1> DEFINE below == UNION {AllProducts(creator, d) : d \in D}
<1>1. detached' = detached \cup D \cup below
  BY DEF DetachAll
<1>2. \A p \in Node : creator[p] \in D \cup below => p \in below
  BY ProductsClosed DEF ClosedUnderProducts
<1>3. \A p \in below : creator[p] \in D \cup below
  BY ProductsInside
<1>4. NoNode \notin D \cup below /\ node \subseteq Node
  BY RootIsNoNode DEF RowInv, TypeOK, AllProducts, Node
<1> HIDE DEF below
<1>5. \A p \in node : creator'[p] = IF p \in D THEN NoNode ELSE creator[p]
  BY <1>4 DEF DetachAll
<1> SUFFICES ASSUME NEW p \in node
             PROVE  p \in detached' <=> creator'[p] = NoNode \/ creator'[p] \in detached'
  BY DEF DetachedAgrees, IsDetached
<1>6. CASE p \in D
  BY <1>1, <1>5, <1>6
<1>7. CASE p \in below \ D
  BY <1>1, <1>3, <1>5, <1>7
<1>8. CASE p \notin D \cup below
  <2>1. creator[p] \notin D \cup below
    BY <1>2, <1>4, <1>8
  <2> QED BY <1>1, <1>5, <1>8, <2>1 DEF DetachedAgrees, IsDetached
<1> QED BY <1>6, <1>7, <1>8

LEMMA FlagsStep == RowInv /\ DetachedAgrees /\ [Next]_vars => DetachedAgrees'
<1> SUFFICES ASSUME RowInv, DetachedAgrees, [Next]_vars PROVE DetachedAgrees'
  OBVIOUS
<1>1. ASSUME NEW n \in Step \cup File, NEW c \in Node \cup {Root, NoNode},
             NEW E, Create(n, c, E)
      PROVE  DetachedAgrees'
  <2>1. CASE CreateNew(n, c)
    BY <2>1, RootIsNoNode
       DEF CreateNew, MayCreate, RowInv, TypeOK, CreatorKinds, DetachedAgrees, IsDetached, Node
  <2>2. CASE CreateOver(n, c)
    BY <2>2, RootIsNoNode
       DEF CreateOver, MayCreate, RowInv, TypeOK, CreatorKinds, DetachedAgrees, IsDetached, Node
  <2> QED BY <1>1, <2>1, <2>2 DEF Create
<1>2. ASSUME NEW n \in Step \cup File, NEW c \in Node \cup {Root, NoNode},
             TryRecycle(n, c)
      PROVE  DetachedAgrees'
  <2> DEFINE subtree == {n} \cup AllProducts(creator', n)
  <2>1. /\ n \in detached /\ n \in Node /\ c # n
        /\ creator' = [creator EXCEPT ![n] = c] /\ node' = node
        /\ detached' = IF IsDetached(c) THEN detached \cup subtree ELSE detached \ subtree
    BY <1>2 DEF TryRecycle, MayCreate, Node
  <2>2. \A p \in Node : creator'[p] \in subtree => p \in subtree
    BY ProductsClosed DEF ClosedUnderProducts
  <2>3. \A p \in subtree \ {n} : creator'[p] \in subtree
    BY ProductsInside
  <2>4. NoNode \notin subtree
    BY <2>1, RootIsNoNode DEF AllProducts, Node
  <2> HIDE DEF subtree
  <2>5. \A p \in node \ {n} : creator'[p] = creator[p]
    BY <2>1 DEF RowInv, TypeOK
  <2>6. creator'[n] = c /\ n \in subtree
    BY <2>1 DEF RowInv, TypeOK, subtree
  <2>7. node \subseteq Node
    BY DEF RowInv, TypeOK
  <2> SUFFICES ASSUME NEW p \in node
               PROVE  p \in detached' <=> creator'[p] = NoNode \/ creator'[p] \in detached'
    BY <2>1 DEF DetachedAgrees, IsDetached
  <2>8. CASE p = n
    BY <2>1, <2>6, <2>8 DEF IsDetached
  <2>9. CASE p \in subtree \ {n}
    BY <2>1, <2>3, <2>4, <2>9
  <2>10. CASE p \notin subtree
    <3>1. creator'[p] \notin subtree
      BY <2>2, <2>7, <2>10
    <3> QED BY <2>1, <2>5, <2>6, <2>10, <3>1 DEF DetachedAgrees, IsDetached
  <2> QED BY <2>8, <2>9, <2>10
<1>3. ASSUME InitializeBoot \/ \E s \in Step : ResetForRerun(s) \/ MarkFailed(s)
      PROVE  DetachedAgrees'
  <2>1. PICK D \in SUBSET node : DetachAll(D) /\ node' = node
    BY <1>3 DEF ResetForRerun, MarkFailed, InitializeBoot, Products
  <2> QED BY <2>1, DetachKeepsFlags
<1>4. ASSUME NEW s \in Step, MarkSucceeded(s)
      PROVE  DetachedAgrees'
  BY <1>4 DEF MarkSucceeded, DetachedAgrees, IsDetached
<1>5. ASSUME NEW s \in Step, NEW t \in Tree, RegisterTree(s, t)
      PROVE  DetachedAgrees'
  <2>1. PICK F \in SUBSET (StaticFiles(s) \cap Attached), A \in SUBSET (File \cap detached) :
          /\ creator' = [p \in Node |-> IF p = t THEN s
                                       ELSE IF p \in F \cup A THEN t
                                       ELSE IF creator[p] = t THEN NoNode
                                       ELSE creator[p]]
          /\ detached' = IF IsDetached(s) THEN detached \cup {t}
                                         ELSE detached \ ({t} \cup A)
    BY <1>5 DEF RegisterTree
  <2>2. /\ s \in node /\ s # t /\ s # NoNode /\ t \notin {Root, NoNode}
        /\ t \in node => t \in detached
        /\ node' = node \cup {t} /\ t \in Node
        /\ IsDetached(s) <=> s \in detached
        /\ A \subseteq detached /\ t \notin A /\ s \notin A
    BY <1>5, KindsDisjoint, RootIsNoNode DEF RegisterTree, IsDetached, Attached, Node
  <2>3. \A p \in F : p \in node \ detached /\ creator[p] = s
    BY DEF StaticFiles, Products, Attached
  <2>4. F # {} => s \notin detached
    BY <2>3 DEF DetachedAgrees, IsDetached
  <2>5. \A p \in node : creator[p] = t => p \in detached
    BY <2>2 DEF DetachedAgrees, IsDetached, RowInv, CreatorKinds
  <2>6. node \subseteq Node
    BY DEF RowInv, TypeOK
  <2>7. \A p \in node : creator[p] \notin A
    BY KindsDisjoint, RootIsNoNode DEF RowInv, CreatorKinds
  <2> QED BY <2>1, <2>2, <2>3, <2>4, <2>5, <2>6, <2>7 DEF DetachedAgrees, IsDetached
<1>6. ASSUME NEW s \in Step, NEW S \in SUBSET File, SupplyFiles(s, S)
      PROVE  DetachedAgrees'
  BY <1>6 DEF SupplyFiles, DetachedAgrees, IsDetached
<1>7. ASSUME DeleteDetached
      PROVE  DetachedAgrees'
  <2> DEFINE kept == Survivors(Unlinked, Unwanted)
  <2>1. /\ node' = kept
        /\ creator' = [p \in Node |-> IF p \in kept THEN Unlinked[p] ELSE NoNode]
        /\ detached' = Unwanted \cap kept
    BY <1>7 DEF DeleteDetached, Unlinked, Unwanted
  <2>2. kept \subseteq node /\ node \subseteq Node
    BY SurvivorsAreHeld DEF RowInv, TypeOK
  <2>3. \A p \in kept : Unlinked[p] \in ((Step \cup Tree) \cap kept) \cup {Root, NoNode}
    BY DeletionKeepsCreators
  <2>4. UnusedTreeFiles \subseteq File \cap node
    BY DEF UnusedTreeFiles, Attached
  <2> HIDE DEF kept
  <2> SUFFICES ASSUME NEW p \in kept
               PROVE  p \in Unwanted <=> Unlinked[p] = NoNode
                                         \/ Unlinked[p] \in Unwanted \cap kept
    BY <2>1, <2>2 DEF DetachedAgrees, IsDetached
  <2>5. CASE p \in UnusedTreeFiles
    BY <2>2, <2>5 DEF Unlinked, Unwanted
  <2>6. CASE p \notin UnusedTreeFiles
    <3>1. Unlinked[p] = creator[p] /\ (p \in Unwanted <=> p \in detached)
      BY <2>2, <2>6 DEF Unlinked, Unwanted
    <3>2. creator[p] \notin UnusedTreeFiles
      BY <2>3, <2>4, <3>1, KindsDisjoint, RootIsNoNode DEF Node
    <3>3. creator[p] \in Unwanted \cap kept <=> creator[p] \in detached
      BY <2>3, <3>1, <3>2, RootIsNoNode DEF Unwanted, RowInv, TypeOK, Node
    <3> QED BY <2>2, <3>1, <3>3 DEF DetachedAgrees, IsDetached
  <2> QED BY <2>5, <2>6
<1>8. ASSUME UNCHANGED vars
      PROVE  DetachedAgrees'
  BY <1>8 DEF vars, DetachedAgrees, IsDetached
<1> QED BY <1>1, <1>2, <1>3, <1>4, <1>5, <1>6, <1>7, <1>8 DEF Next

\* A node is detached exactly when it has no creator or a detached creator.
THEOREM FlagsAgree == Spec => []DetachedAgrees
<1>1. Init => DetachedAgrees
  BY DEF Init, DetachedAgrees
<1> QED BY <1>1, RowInit, RowStep, FlagsStep, PTL DEF Spec

\* A creator always has a row: no creator column is left pointing at a deleted
\* node.
THEOREM CreatorsExist == Spec => []CreatorExists
<1>1. RowInv => CreatorExists
  BY DEF RowInv, CreatorKinds, CreatorExists
<1> QED BY <1>1, RowInit, RowStep, PTL DEF Spec

\* Only steps and static trees ever lose a product, so the after_lost_product
\* methods of the root and of files never raise.
THEOREM OnlyRecordersLose == Spec => []LostByRecorder
<1>1. RowInv /\ DetachedAgrees => LostByRecorder
  BY RootIsNoNode
     DEF RowInv, TypeOK, CreatorKinds, DetachedAgrees, IsDetached, LostByRecorder, Node
<1>2. Init => DetachedAgrees
  BY DEF Init, DetachedAgrees
<1> QED BY <1>1, <1>2, RowInit, RowStep, FlagsStep, PTL DEF Spec

(***************************************************************************)
(* Attached nodes are reachable from the root.  A set S of attached nodes  *)
(* after a step is traced back to one before it: an attached node that     *)
(* kept its creator is a witness for both.                                 *)
(***************************************************************************)

LEMMA DetachKeepsReach ==
  ASSUME RowInv, AttachedReachable, NEW D \in SUBSET node, DetachAll(D), node' = node
  PROVE  AttachedReachable'
<1> DEFINE gone == D \cup UNION {AllProducts(creator, d) : d \in D}
<1>1. detached' = detached \cup gone /\ Attached' = Attached \ gone
  BY DEF DetachAll, Attached
<1>2. \A p \in Node : creator[p] \in gone => p \in gone
  BY ProductsClosed DEF ClosedUnderProducts
<1>3. \A p \in Node \ gone : creator'[p] = creator[p]
  BY DEF DetachAll
<1>4. node \subseteq Node
  BY DEF RowInv, TypeOK
<1> HIDE DEF gone
<1> SUFFICES ASSUME NEW S \in (SUBSET (Attached \ gone)) \ {{}}
             PROVE  \E n \in S : creator'[n] \in ((Attached \ gone) \ S) \cup {Root}
  BY <1>1 DEF AttachedReachable
<1>5. PICK n \in S : creator[n] \in (Attached \ S) \cup {Root}
  BY DEF AttachedReachable
<1>6. n \in Node \ gone
  BY <1>4 DEF Attached
<1> QED BY <1>2, <1>3, <1>5, <1>6

LEMMA ReachStep ==
  RowInv /\ DetachedAgrees /\ AttachedReachable /\ [Next]_vars => AttachedReachable'
<1> SUFFICES ASSUME RowInv, DetachedAgrees, AttachedReachable, [Next]_vars
             PROVE  AttachedReachable'
  OBVIOUS
<1>0. node \subseteq Node /\ Attached \subseteq Node /\ Root \notin Node
  BY RootIsNoNode DEF RowInv, TypeOK, Attached, Node
<1>1. ASSUME NEW n \in Step \cup File, NEW c \in Node \cup {Root, NoNode},
             NEW E, Create(n, c, E)
      PROVE  AttachedReachable'
  <2>1. /\ n \in Node /\ n \notin Attached /\ c # n
        /\ c \in node \cup {Root, NoNode}
        /\ Attached' = IF IsDetached(c) THEN Attached ELSE Attached \cup {n}
        /\ creator'[n] = c
    BY <1>1 DEF Create, CreateNew, CreateOver, MayCreate, Attached, RowInv, TypeOK, Node
  <2>2. \A p \in Attached : creator'[p] = creator[p]
    <3>1. \A p \in Attached : p # n /\ p \in Node /\ creator[p] # n
      BY <1>0, <1>1, RootIsNoNode DEF Create, CreateNew, CreateOver, Attached, RowInv, CreatorKinds,
                        DetachedAgrees, IsDetached, Node
    <3> QED BY <1>1, <3>1 DEF Create, CreateNew, CreateOver, RowInv, TypeOK
  <2> SUFFICES ASSUME NEW S \in (SUBSET Attached') \ {{}}
               PROVE  \E m \in S : creator'[m] \in (Attached' \ S) \cup {Root}
    BY DEF AttachedReachable
  <2>3. CASE S \ {n} # {}
    <3>1. PICK m \in S \ {n} : creator[m] \in (Attached \ (S \ {n})) \cup {Root}
      BY <2>1, <2>3 DEF AttachedReachable
    <3> QED BY <2>1, <2>2, <3>1
  <2>4. CASE S \ {n} = {}
    <3>1. n \in S /\ ~IsDetached(c)
      BY <2>1, <2>4
    <3> QED BY <2>1, <2>4, <3>1 DEF IsDetached, Attached
  <2> QED BY <2>3, <2>4
<1>2. ASSUME NEW n \in Step \cup File, NEW c \in Node \cup {Root, NoNode},
             TryRecycle(n, c)
      PROVE  AttachedReachable'
  <2> DEFINE subtree == {n} \cup AllProducts(creator', n)
  <2>1. /\ n \in detached /\ n \in Node /\ c # n
        /\ c \in node \cup {Root, NoNode}
        /\ creator' = [creator EXCEPT ![n] = c] /\ node' = node
        /\ detached' = IF IsDetached(c) THEN detached \cup subtree ELSE detached \ subtree
    BY <1>2 DEF TryRecycle, MayCreate, Node
  <2>2. \A p \in Node : creator'[p] \in subtree => p \in subtree
    BY ProductsClosed DEF ClosedUnderProducts
  <2>3. subtree \subseteq Node /\ n \in subtree
    BY <2>1 DEF AllProducts
  <2>4. ASSUME NEW S \in SUBSET (subtree \ {n}), S # {}
        PROVE  \E m \in S : creator'[m] \in subtree \ S
    <3> DEFINE T == AllProducts(creator', n) \ S
    <3>1. SUFFICES ASSUME \A m \in S : creator'[m] \notin subtree \ S
                   PROVE  FALSE
      OBVIOUS
    <3>2. T \in SUBSET Node
      BY DEF AllProducts
    <3>3. ClosedUnderProducts(creator', n, T)
      BY <3>1, ProductsClosed DEF ClosedUnderProducts
    <3>4. AllProducts(creator', n) \subseteq T
      <4> HIDE DEF T
      <4> QED BY <3>2, <3>3, ProductsLeast
    <3> QED BY <2>4, <3>4
  <2> HIDE DEF subtree
  <2>5. \A p \in Attached : creator'[p] = creator[p]
    BY <1>0, <2>1 DEF Attached, RowInv, TypeOK
  <2>6. creator'[n] = c
    BY <2>1 DEF RowInv, TypeOK
  <2> SUFFICES ASSUME NEW S \in (SUBSET Attached') \ {{}}
               PROVE  \E m \in S : creator'[m] \in (Attached' \ S) \cup {Root}
    BY DEF AttachedReachable
  <2>7. CASE IsDetached(c)
    <3>1. Attached' = Attached \ subtree
      BY <2>1, <2>7 DEF Attached
    <3>2. PICK m \in S : creator[m] \in (Attached \ S) \cup {Root}
      BY <3>1 DEF AttachedReachable
    <3> QED BY <1>0, <2>2, <2>5, <3>1, <3>2
  <2>8. CASE ~IsDetached(c)
    <3>1. Attached' = Attached \cup (subtree \cap node)
      BY <2>1, <2>8 DEF Attached
    <3>2. c \in Attached \cup {Root}
      BY <2>1, <2>8 DEF IsDetached, Attached
    <3>3. CASE S \cap Attached # {}
      <4>1. PICK m \in S \cap Attached : creator[m] \in (Attached \ (S \cap Attached)) \cup {Root}
        BY <3>3 DEF AttachedReachable
      <4> QED BY <2>5, <3>1, <4>1
    <3>4. CASE S \cap Attached = {} /\ n \in S
      BY <2>6, <3>1, <3>2, <3>4
    <3>5. CASE S \cap Attached = {} /\ n \notin S
      <4>1. S \in SUBSET (subtree \ {n})
        BY <3>1, <3>5
      <4>2. PICK m \in S : creator'[m] \in subtree \ S
        BY <2>4, <4>1
      <4>3. creator'[m] \in node
        <5>1. m \in node /\ m # n /\ creator'[m] \in Node
          BY <2>3, <3>1, <3>5, <4>1, <4>2 DEF Attached
        <5>2. creator'[m] = creator[m]
          BY <1>0, <2>1, <5>1 DEF RowInv, TypeOK
        <5> QED BY <5>1, <5>2, RootIsNoNode DEF RowInv, CreatorKinds, Node
      <4> QED BY <3>1, <4>2, <4>3
    <3> QED BY <3>3, <3>4, <3>5
  <2> QED BY <2>7, <2>8
<1>3. ASSUME InitializeBoot \/ \E s \in Step : ResetForRerun(s) \/ MarkFailed(s)
      PROVE  AttachedReachable'
  <2>1. PICK D \in SUBSET node : DetachAll(D) /\ node' = node
    BY <1>3 DEF ResetForRerun, MarkFailed, InitializeBoot, Products
  <2> QED BY <2>1, DetachKeepsReach
<1>4. ASSUME NEW s \in Step, MarkSucceeded(s)
      PROVE  AttachedReachable'
  BY <1>4 DEF MarkSucceeded, AttachedReachable, Attached
<1>5. ASSUME NEW s \in Step, NEW t \in Tree, RegisterTree(s, t)
      PROVE  AttachedReachable'
  <2>1. PICK F \in SUBSET (StaticFiles(s) \cap Attached), A \in SUBSET (File \cap detached) :
          /\ creator' = [p \in Node |-> IF p = t THEN s
                                       ELSE IF p \in F \cup A THEN t
                                       ELSE IF creator[p] = t THEN NoNode
                                       ELSE creator[p]]
          /\ detached' = IF IsDetached(s) THEN detached \cup {t}
                                         ELSE detached \ ({t} \cup A)
    BY <1>5 DEF RegisterTree
  <2> DEFINE G == F \cup A
             arrived == IF s \in detached THEN {} ELSE {t} \cup A
  <2>2. /\ s \in node /\ s # t /\ t \in Node /\ t \notin Attached
        /\ s \notin G /\ t \notin G /\ A \cap Attached = {}
        /\ Attached' = Attached \cup arrived
    <3>1. /\ s \in node /\ s # t /\ s # NoNode /\ t \in Node /\ t \notin Attached
          /\ s \notin G /\ t \notin G /\ node' = node \cup {t}
      BY <1>5, KindsDisjoint, RootIsNoNode DEF RegisterTree, Node, StaticFiles
    <3>2. A \subseteq detached /\ detached \subseteq node
      BY DEF RowInv, TypeOK
    <3>3. detached' = IF s \in detached THEN detached \cup {t}
                                         ELSE detached \ ({t} \cup A)
      BY <2>1, <3>1 DEF IsDetached
    <3>4. node' \ detached' = (node \ detached) \cup arrived
      BY <3>1, <3>2, <3>3 DEF Attached
    <3> QED BY <3>1, <3>2, <3>4 DEF Attached
  <2>3. \A p \in F : p \in Attached /\ creator[p] = s
    BY DEF StaticFiles, Products
  <2>4. F # {} => s \notin detached
    BY <2>3 DEF DetachedAgrees, IsDetached, Attached
  <2>5. \A p \in Attached : creator[p] # t
    BY <1>5, <2>2, RootIsNoNode
       DEF DetachedAgrees, IsDetached, RowInv, CreatorKinds, Attached, Node
  <2>6. \A p \in Attached : creator'[p] = IF p \in F THEN t ELSE creator[p]
    BY <1>0, <2>1, <2>2, <2>5
  <2>7. creator'[t] = s /\ \A p \in A : creator'[p] = t
    BY <1>0, <2>1, <2>2 DEF RowInv, TypeOK
  <2> SUFFICES ASSUME NEW S \in (SUBSET Attached') \ {{}}
               PROVE  \E m \in S : creator'[m] \in (Attached' \ S) \cup {Root}
    BY DEF AttachedReachable
  <2>8. CASE t \in S /\ s \notin S
    BY <2>2, <2>7, <2>8 DEF Attached
  <2>9. CASE t \notin S /\ S \cap A # {}
    BY <2>2, <2>7, <2>9
  <2>10. CASE t \notin S /\ S \cap A = {}
    <3>1. S \in (SUBSET Attached) \ {{}}
      BY <2>2, <2>10
    <3>2. PICK m \in S : creator[m] \in (Attached \ S) \cup {Root}
      BY <3>1 DEF AttachedReachable
    <3>3. CASE m \in F
      BY <2>2, <2>4, <2>6, <2>10, <3>1, <3>2, <3>3
    <3>4. CASE m \notin F
      BY <2>2, <2>6, <3>1, <3>2, <3>4
    <3> QED BY <3>3, <3>4
  <2>11. CASE t \in S /\ s \in S
    <3> DEFINE T == S \ ({t} \cup A)
    <3>1. T \in (SUBSET Attached) \ {{}} /\ s \in T
      BY <2>2, <2>11
    <3>2. PICK m \in T : creator[m] \in (Attached \ T) \cup {Root}
      BY <3>1 DEF AttachedReachable
    <3>3. m \in Attached /\ creator[m] # s
      BY <1>0, <2>2, <2>11, <3>1, <3>2, RootIsNoNode
    <3>4. creator'[m] = creator[m]
      BY <2>3, <2>6, <3>3
    <3>5. creator[m] \notin {t} \cup A
      BY <2>2, <3>2, RootIsNoNode DEF Node, RowInv, TypeOK
    <3> QED BY <2>2, <3>2, <3>4, <3>5
  <2> QED BY <2>8, <2>9, <2>10, <2>11
<1>6. ASSUME NEW s \in Step, NEW S \in SUBSET File, SupplyFiles(s, S)
      PROVE  AttachedReachable'
  BY <1>6 DEF SupplyFiles, AttachedReachable, Attached
<1>7. ASSUME DeleteDetached
      PROVE  AttachedReachable'
  <2> DEFINE kept == Survivors(Unlinked, Unwanted)
  <2>1. /\ node' = kept
        /\ creator' = [p \in Node |-> IF p \in kept THEN Unlinked[p] ELSE NoNode]
        /\ detached' = Unwanted \cap kept
    BY <1>7 DEF DeleteDetached, Unlinked, Unwanted
  <2>2. kept \subseteq node /\ node \ Unwanted \subseteq kept
    BY SurvivorsAreHeld, HeldSurvives
  <2> HIDE DEF kept
  <2>3. Attached' = Attached \ UnusedTreeFiles
    BY <2>1, <2>2 DEF Attached, Unwanted
  <2>4. \A p \in Attached' : creator'[p] = creator[p]
    BY <1>0, <2>1, <2>2, <2>3 DEF Unlinked, Attached, Unwanted
  <2>5. \A p \in node : creator[p] \notin UnusedTreeFiles
    BY KindsDisjoint, RootIsNoNode DEF UnusedTreeFiles, RowInv, CreatorKinds
  <2> SUFFICES ASSUME NEW S \in (SUBSET Attached') \ {{}}
               PROVE  \E m \in S : creator'[m] \in (Attached' \ S) \cup {Root}
    BY DEF AttachedReachable
  <2>6. PICK m \in S : creator[m] \in (Attached \ S) \cup {Root}
    BY <2>3 DEF AttachedReachable
  <2> QED BY <2>3, <2>4, <2>5, <2>6 DEF Attached
<1>8. ASSUME UNCHANGED vars
      PROVE  AttachedReachable'
  BY <1>8 DEF vars, AttachedReachable, Attached
<1> QED BY <1>1, <1>2, <1>3, <1>4, <1>5, <1>6, <1>7, <1>8 DEF Next

\* Every attached node is reached from the root along creators, and no cycle
\* of creators keeps nodes attached.
THEOREM AttachedAreReached == Spec => []AttachedReachable
<1>1. Init => DetachedAgrees /\ AttachedReachable
  BY DEF Init, DetachedAgrees, AttachedReachable, Attached
<1> QED BY <1>1, RowInit, RowStep, FlagsStep, ReachStep, PTL DEF Spec

(***************************************************************************)
(* The dependency graph.                                                   *)
(***************************************************************************)

\* Acyclic(dep): every set of nodes has a member without a source in the set.
Acyclic(dep) ==
  \A S \in SUBSET Node : (\A n \in S : \E m \in S : <<m, n>> \in dep) => S = {}

LEMMA AcyclicOnRows == TypeOK => (DependencyAcyclic <=> Acyclic(dependency))
<1> SUFFICES ASSUME TypeOK, DependencyAcyclic,
                    NEW S \in SUBSET Node, \A n \in S : \E m \in S : <<m, n>> \in dependency
             PROVE  S = {}
  BY DEF DependencyAcyclic, Acyclic, TypeOK
<1>1. S \subseteq node
  BY DEF TypeOK
<1> QED BY <1>1 DEF DependencyAcyclic

\* Once check_sources_acyclic accepts the sources E of n, all the edges from E
\* to n may be inserted without checking again.
LEMMA BatchStaysAcyclic ==
  ASSUME NEW dep, Acyclic(dep), NEW n, NEW E, SourcesAcyclic(dep, n, E)
  PROVE  Acyclic(dep \cup (E \X {n}))
<1>1. PICK T \in SUBSET Node : n \in T /\ ClosedUnderSinks(dep, T) /\ T \cap E = {}
  BY DEF SourcesAcyclic
<1> SUFFICES ASSUME NEW S \in SUBSET Node,
                    \A m \in S : \E l \in S : <<l, m>> \in dep \cup (E \X {n})
             PROVE  S = {}
  BY DEF Acyclic
<1>2. \A m \in S \ T : \E l \in S \ T : <<l, m>> \in dep
  <2> SUFFICES ASSUME NEW m \in S \ T PROVE \E l \in S \ T : <<l, m>> \in dep
    OBVIOUS
  <2>1. PICK l \in S : <<l, m>> \in dep
    BY <1>1
  <2>2. l \notin T
    BY <1>1, <2>1 DEF ClosedUnderSinks
  <2> QED BY <2>1, <2>2
<1>3. S \ T = {}
  BY <1>2 DEF Acyclic
<1>4. \A m \in S : \E l \in S : <<l, m>> \in dep
  BY <1>1, <1>3
<1> QED BY <1>4 DEF Acyclic

LEMMA AcyclicStep ==
  TypeOK /\ TypeOK' /\ DependencyAcyclic /\ [Next]_vars => DependencyAcyclic'
<1> SUFFICES ASSUME TypeOK, TypeOK', DependencyAcyclic, [Next]_vars
             PROVE  DependencyAcyclic'
  OBVIOUS
<1>1. Acyclic(dependency)
  BY AcyclicOnRows
<1>2. SUFFICES Acyclic(dependency')
  BY DEF Acyclic, DependencyAcyclic, TypeOK
<1>3. ASSUME NEW dep \in SUBSET dependency PROVE Acyclic(dep)
  BY <1>1 DEF Acyclic
<1>4. CASE dependency' \subseteq dependency
  BY <1>3, <1>4
<1>5. ASSUME NEW n, NEW c, NEW E, Create(n, c, E)
      PROVE  Acyclic(dependency')
  BY <1>3, <1>5, BatchStaysAcyclic DEF Create
<1>6. ASSUME NEW s, NEW S, SupplyFiles(s, S)
      PROVE  Acyclic(dependency')
  BY <1>1, <1>6, BatchStaysAcyclic DEF SupplyFiles
<1> QED BY <1>4, <1>5, <1>6
        DEF Next, TryRecycle, ResetForRerun, MarkFailed, MarkSucceeded, RegisterTree,
            InitializeBoot, DeleteDetached, vars

\* No chain of sources leads from a file or step back to itself.
THEOREM DependenciesAcyclic == Spec => []DependencyAcyclic
<1>1. Init => DependencyAcyclic
  BY DEF Init, DependencyAcyclic
<1> QED BY <1>1, RowInit, RowStep, AcyclicStep, PTL DEF Spec, RowInv

(***************************************************************************)
(* The records of runs.                                                    *)
(***************************************************************************)

LEMMA RecordStep == RowInv /\ RecordComplete /\ [Next]_vars => RecordComplete'
<1> SUFFICES ASSUME RowInv, RecordComplete, [Next]_vars,
                    NEW s \in hashed' \ redeclared'
             PROVE  recorded'[s] \subseteq Products(s)'
  BY DEF RecordComplete
<1>0. node \subseteq Node
  BY DEF RowInv, TypeOK
<1>1. ASSUME NEW n \in Step \cup File, NEW c \in Node \cup {Root, NoNode},
             NEW E, Create(n, c, E)
      PROVE  recorded'[s] \subseteq Products(s)'
  <2>1. CASE CreateNew(n, c)
    BY <2>1 DEF CreateNew, KeepHashes, RecordComplete, Products, RowInv, TypeOK
  <2>2. CASE CreateOver(n, c)
    BY <1>0, <2>2 DEF CreateOver, RecordComplete, Products, RowInv, TypeOK
  <2> QED BY <1>1, <2>1, <2>2 DEF Create
<1>2. ASSUME NEW n \in Step \cup File, NEW c \in Node \cup {Root, NoNode},
             TryRecycle(n, c)
      PROVE  recorded'[s] \subseteq Products(s)'
  BY <1>0, <1>2 DEF TryRecycle, DropHashes, RecordComplete, Products, RowInv, TypeOK
<1>3. ASSUME NEW r \in Step, ResetForRerun(r) \/ MarkFailed(r)
      PROVE  recorded'[s] \subseteq Products(s)'
  <2>1. PICK D \in SUBSET Products(r) : DetachAll(D)
    BY <1>3 DEF ResetForRerun, MarkFailed
  <2>2. DropHashes({r}) /\ node' = node
    BY <1>3 DEF ResetForRerun, MarkFailed
  <2>3. s # r
    BY <2>2 DEF DropHashes
  <2>4. recorded'[s] = recorded[s] /\ s \in hashed \ redeclared
    BY <2>2, <2>3 DEF DropHashes, RowInv, TypeOK
  <2> QED BY <1>0, <2>1, <2>2, <2>3, <2>4 DEF DetachAll, RecordComplete, Products
<1>4. ASSUME NEW r \in Step, MarkSucceeded(r)
      PROVE  recorded'[s] \subseteq Products(s)'
  BY <1>4 DEF MarkSucceeded, RecordComplete, Products, RowInv, TypeOK
<1>5. ASSUME NEW r \in Step, NEW t \in Tree, RegisterTree(r, t)
      PROVE  recorded'[s] \subseteq Products(s)'
  <2>1. PICK F \in SUBSET (StaticFiles(r) \cap Attached), A \in SUBSET (File \cap detached) :
          /\ creator' = [p \in Node |-> IF p = t THEN r
                                       ELSE IF p \in F \cup A THEN t
                                       ELSE IF creator[p] = t THEN NoNode
                                       ELSE creator[p]]
          /\ DropHashes({creator[p] : p \in {t} \cup A} \cap Step)
    BY <1>5 DEF RegisterTree
  <2>2. node' = node \cup {t} /\ r \notin hashed
    BY <1>5 DEF RegisterTree
  <2>3. /\ s \in hashed \ redeclared /\ s # r /\ s # t /\ s \in Step
        /\ \A p \in {t} \cup A : creator[p] # s
        /\ recorded'[s] = recorded[s]
    BY <2>1, <2>2, KindsDisjoint DEF DropHashes, RowInv, TypeOK
  <2>4. \A p \in F : creator[p] = r
    BY DEF StaticFiles, Products
  <2>5. \A p \in Products(s) :
          p \in Node /\ p # t /\ p \notin F \cup A /\ creator[p] # t
    BY <1>0, <2>3, <2>4 DEF Products
  <2>6. \A p \in Products(s) : creator'[p] = s
    BY <2>1, <2>5 DEF Products
  <2> QED BY <2>2, <2>3, <2>6 DEF RecordComplete, Products
<1>6. ASSUME NEW r \in Step, NEW S \in SUBSET File, SupplyFiles(r, S)
      PROVE  recorded'[s] \subseteq Products(s)'
  BY <1>6 DEF SupplyFiles, KeepHashes, RecordComplete, Products
<1>7. ASSUME InitializeBoot
      PROVE  recorded'[s] \subseteq Products(s)'
  <2>1. s \in Step /\ s # Root
    BY <1>7, RootIsNoNode DEF InitializeBoot, KeepHashes, RowInv, TypeOK
  <2> QED BY <1>0, <1>7, <2>1
          DEF InitializeBoot, KeepHashes, DetachAll, RecordComplete, Products
<1>8. ASSUME DeleteDetached
      PROVE  recorded'[s] \subseteq Products(s)'
  <2> DEFINE kept == Survivors(Unlinked, Unwanted)
             lost == Step \cap ((node \ kept) \cup {Unlinked[p] : p \in node \ kept})
  <2>1. /\ node' = kept
        /\ creator' = [p \in Node |-> IF p \in kept THEN Unlinked[p] ELSE NoNode]
        /\ DropHashes(lost)
    BY <1>8 DEF DeleteDetached, Unlinked, Unwanted
  <2>2. kept \subseteq node
    BY SurvivorsAreHeld
  <2>3. \A p \in Node : creator[p] \in Step => Unlinked[p] = creator[p]
    BY KindsDisjoint DEF Unlinked, UnusedTreeFiles
  <2> HIDE DEF kept
  <2>4. s \in (hashed \ redeclared) \ lost /\ s \in Step /\ recorded'[s] = recorded[s]
    BY <2>1 DEF DropHashes, RowInv, TypeOK
  <2>5. \A p \in Products(s) : p \in kept /\ creator'[p] = s
    BY <1>0, <2>1, <2>2, <2>3, <2>4 DEF Products
  <2> QED BY <2>1, <2>4, <2>5 DEF RecordComplete, Products
<1>9. ASSUME UNCHANGED vars
      PROVE  recorded'[s] \subseteq Products(s)'
  BY <1>9 DEF vars, RecordComplete, Products
<1> QED BY <1>1, <1>2, <1>3, <1>4, <1>5, <1>6, <1>7, <1>8, <1>9 DEF Next

\* A stored hash of a step that was not declared anew describes a run whose
\* products are all still owned by the step.
THEOREM RecordsComplete == Spec => []RecordComplete
<1>1. Init => RecordComplete
  BY DEF Init, RecordComplete
<1> QED BY <1>1, RowInit, RowStep, RecordStep, PTL DEF Spec

(***************************************************************************)
(* Workflow.delete_detached.                                               *)
(***************************************************************************)

\* It is the only operation that deletes rows.
LEMMA OnlyDeletionDeletes == TypeOK /\ [Next]_vars /\ node \ node' # {} => DeleteDetached
BY DEF Next, vars, Create, CreateNew, CreateOver, TryRecycle, ResetForRerun, MarkFailed,
       MarkSucceeded, RegisterTree, SupplyFiles, InitializeBoot

\* Each detached node that is left has a product or a sink.
THEOREM DeletionIsComplete == Spec => DeletesToFixedPoint
<1>1. ASSUME RowInv, [Next]_vars, node \ node' # {}, NEW n \in detached'
      PROVE  (\E p \in node' : creator'[p] = n) \/ (\E e \in dependency' : e[1] = n)
  <2>1. /\ node' = Survivors(Unlinked, Unwanted)
        /\ creator' = [p \in Node |-> IF p \in node' THEN Unlinked[p] ELSE NoNode]
        /\ detached' = Unwanted \cap node'
        /\ dependency' = {e \in dependency : e[2] \in node'}
    BY <1>1, OnlyDeletionDeletes DEF DeleteDetached, Unlinked, Unwanted, RowInv
  <2>2. Held(n, node', Unlinked)
    BY <2>1, SurvivorsAreHeld
  <2>3. node' \subseteq Node
    BY <1>1, <2>1, SurvivorsAreHeld DEF RowInv, TypeOK
  <2> QED BY <2>1, <2>2, <2>3 DEF Held
<1>2. RowInv /\ [Next]_vars =>
        [node \ node' # {} => \A n \in detached' : \/ \E p \in node' : creator'[p] = n
                                                   \/ \E e \in dependency' : e[1] = n]_vars
  BY <1>1
<1> QED BY <1>2, RowInit, RowStep, PTL DEF Spec, DeletesToFixedPoint

\* Neither a source nor the creator of an attached node is deleted.
THEOREM DeletionIsSafe == Spec => NeverDeletesNeeded
<1>1. ASSUME RowInv, DetachedAgrees, [Next]_vars, node \ node' # {}
      PROVE  /\ \A e \in dependency : e[2] \in Attached' => e[1] \in node'
             /\ \A n \in Attached' : creator[n] \in node' \cup {Root}
  <2>1. /\ node' = Survivors(Unlinked, Unwanted)
        /\ detached' = Unwanted \cap node'
    BY <1>1, OnlyDeletionDeletes DEF DeleteDetached, Unlinked, Unwanted, RowInv
  <2>2. ASSUME NEW e \in dependency, e[2] \in Attached'
        PROVE  e[1] \in node'
    BY <1>1, <2>1, <2>2, DeletionKeepsSources DEF Attached
  <2>3. ASSUME NEW n \in Attached'
        PROVE  creator[n] \in node' \cup {Root}
    <3>1. n \in node' /\ n \in node /\ n \in Node /\ n \notin Unwanted
      BY <1>1, <2>1, SurvivorsAreHeld DEF Attached, RowInv, TypeOK
    <3>2. Unlinked[n] = creator[n] /\ creator[n] # NoNode
      BY <1>1, <3>1 DEF Unlinked, Unwanted, DetachedAgrees, IsDetached
    <3> QED BY <1>1, <2>1, <3>1, <3>2, DeletionKeepsCreators
  <2> QED BY <2>2, <2>3
<1>2. RowInv /\ DetachedAgrees /\ [Next]_vars =>
        [node \ node' # {} => /\ \A e \in dependency : e[2] \in Attached' => e[1] \in node'
                              /\ \A n \in Attached' : creator[n] \in node' \cup {Root}]_vars
  BY <1>1
<1>3. Init => DetachedAgrees
  BY DEF Init, DetachedAgrees
<1> QED BY <1>2, <1>3, RowInit, RowStep, FlagsStep, PTL DEF Spec, NeverDeletesNeeded

\* Flags, creators and owners of detached nodes are consistent after every
\* operation, so that neither the check at startup nor a take-over raises.
THEOREM ConsistentAlways == Spec => []Consistent
BY FlagsAgree, AttachedAreReached, OnlyRecordersLose, PTL DEF Consistent

\* Trellis.delete_detached deletes all that nothing holds, and nothing else.
THEOREM DeletionIsExact == Spec => DeletesExactly
BY DeletionIsComplete, DeletionIsSafe DEF DeletesExactly

(***************************************************************************)
(* PART TWO: Session.                                                      *)
(***************************************************************************)

(***************************************************************************)
(* The queue of the lock.                                                  *)
(***************************************************************************)

LEMMA HeadInside ==
  ASSUME NEW S, NEW q \in Seq(S), q # << >>
  PROVE  Head(q) \in S /\ Tail(q) \in Seq(S) /\ Head(q) \in ToSet(q)
BY DEF ToSet

\* Who enters the queue is not in it, and who leaves it leaves no copy behind.
LEMMA AppendInjectiveQueue ==
  ASSUME NEW S, NEW q \in Seq(S), IsInjective(q), NEW t \in S, t \notin ToSet(q)
  PROVE  Append(q, t) \in Seq(S) /\ IsInjective(Append(q, t))
BY DEF IsInjective, ToSet

LEMMA TailInjective ==
  ASSUME NEW S, NEW q \in Seq(S), IsInjective(q), q # << >>
  PROVE  Tail(q) \in Seq(S) /\ IsInjective(Tail(q))
BY DEF IsInjective

LEMMA RemoveInjective ==
  ASSUME NEW S, NEW q \in Seq(S), IsInjective(q), NEW i \in DOMAIN q
  PROVE  RemoveAt(q, i) \in Seq(S) /\ IsInjective(RemoveAt(q, i))
<1> DEFINE front == SubSeq(q, 1, i - 1)
           back == SubSeq(q, i + 1, Len(q))
<1>1. i \in 1 .. Len(q) /\ Len(q) \in Nat
  OBVIOUS
<1>2. /\ front \in Seq(S) /\ Len(front) = i - 1
      /\ \A j \in 1 .. i - 1 : front[j] = q[j]
  BY <1>1
<1>3. /\ back \in Seq(S) /\ Len(back) = Len(q) - i
      /\ \A j \in 1 .. Len(q) - i : back[j] = q[j + i]
  BY <1>1
<1> HIDE DEF front, back
<1>4. /\ front \o back \in Seq(S) /\ Len(front \o back) = Len(q) - 1
      /\ \A j \in 1 .. Len(q) - 1 : (front \o back)[j] = IF j < i THEN q[j] ELSE q[j + 1]
  <2>1. /\ front \o back \in Seq(S) /\ Len(front \o back) = Len(front) + Len(back)
        /\ \A j \in 1 .. Len(front) + Len(back) :
             (front \o back)[j] = IF j <= Len(front) THEN front[j] ELSE back[j - Len(front)]
    BY <1>2, <1>3, ConcatProperties
  <2> DEFINE both == front \o back
  <2> HIDE DEF both
  <2>2. Len(front) + Len(back) = Len(q) - 1
    BY <1>1, <1>2, <1>3
  <2>3. ASSUME NEW j \in 1 .. Len(q) - 1
        PROVE  both[j] = IF j < i THEN q[j] ELSE q[j + 1]
    <3>1. both[j] = IF j <= Len(front) THEN front[j] ELSE back[j - Len(front)]
      BY <2>1, <2>2, <2>3 DEF both
    <3>2. CASE j < i
      BY <1>1, <1>2, <3>1, <3>2
    <3>3. CASE ~(j < i)
      <4>1. j - Len(front) = j - i + 1 /\ j - i + 1 \in 1 .. Len(q) - i
        BY <1>1, <1>2, <3>3
      <4>2. back[j - i + 1] = q[(j - i + 1) + i]
        BY <1>3, <4>1
      <4>3. ~(j <= Len(front)) /\ (j - i + 1) + i = j + 1
        BY <1>1, <1>2, <3>3
      <4> QED BY <3>1, <3>3, <4>1, <4>2, <4>3
    <3> QED BY <3>2, <3>3
  <2> QED BY <2>1, <2>2, <2>3 DEF both
<1>5. IsInjective(front \o back)
  <2> DEFINE both == front \o back
  <2>1. DOMAIN both = 1 .. Len(q) - 1
    BY <1>1, <1>4
  <2>2. \A j \in 1 .. Len(q) - 1 : both[j] = IF j < i THEN q[j] ELSE q[j + 1]
    BY <1>4
  <2> HIDE DEF both
  <2>3. ASSUME NEW j \in 1 .. Len(q) - 1, NEW k \in 1 .. Len(q) - 1, both[j] = both[k]
        PROVE  j = k
    <3> DEFINE at(m) == IF m < i THEN m ELSE m + 1
    <3>1. at(j) \in 1 .. Len(q) /\ at(k) \in 1 .. Len(q) /\ q[at(j)] = q[at(k)]
      BY <1>1, <2>2, <2>3
    <3>2. at(j) = at(k)
      BY <3>1 DEF IsInjective
    <3> QED BY <1>1, <3>2
  <2> QED BY <2>1, <2>3 DEF IsInjective, both
<1> QED BY <1>4, <1>5 DEF RemoveAt, front, back

(***************************************************************************)
(* Types and transactions.  That what is committed counts the contexts     *)
(* that were left without an exception is not inductive: one has to know   *)
(* what the open transaction has done so far, that it is of the task that  *)
(* holds the lock, and that nobody holds it outside of phase "up".         *)
(***************************************************************************)
FileType ==
  [app : {None, "ours", "other"}, version : {None, "now", "old"},
   tables : [Table -> {None, "now", "old"}], root : BOOLEAN, rows : [Row -> Nat]]

Counts ==
  /\ held = None => ~opened
  /\ held # None => phase = "up"
  /\ opened => \A r \in Row : tx[r] = commits + (IF r \in left[held] THEN 0 ELSE 1)
  /\ \A t \in Task : (t # held \/ ~opened) => left[t] = Row

TxInv == SessionTypeOK /\ CommittedExactly /\ Counts

LEMMA TxInit == SessionInit => TxInv
<1> SUFFICES ASSUME SessionInit PROVE TxInv
  OBVIOUS
<1>1. file \in FileType /\ \A r \in Row : file.rows[r] = 0
  <2>1. /\ Empty \in [Table -> {None, "now", "old"}]
        /\ \A v \in {"now", "old"} : Full(v) \in [Table -> {None, "now", "old"}]
        /\ Zero \in [Row -> Nat] /\ \A r \in Row : Zero[r] = 0
    BY DEF Empty, Full, Zero
  <2>2. file \in Files
    BY DEF SessionInit
  <2> DEFINE Rec(a, v, t, b) == [app |-> a, version |-> v, tables |-> t, root |-> b, rows |-> Zero]
  <2>3. ASSUME NEW a \in {None, "ours", "other"}, NEW v \in {None, "now", "old"},
               NEW t \in [Table -> {None, "now", "old"}], NEW b \in BOOLEAN
        PROVE  Rec(a, v, t, b) \in FileType /\ Rec(a, v, t, b).rows = Zero
    BY <2>1 DEF FileType
  <2>4. \/ file = Rec(None, None, Empty, FALSE) \/ file = Rec("ours", "now", Full("now"), TRUE)
        \/ file = Rec("ours", "old", Full("old"), TRUE)
        \/ file = Rec("other", "now", Full("old"), FALSE)
    BY <2>2 DEF Files
  <2> HIDE DEF Rec
  <2>5. file \in FileType /\ file.rows = Zero
    BY <2>1, <2>3, <2>4
  <2> QED BY <2>1, <2>5
<1>2. << >> \in Seq(Task) /\ IsInjective(<< >>)
  BY DEF IsInjective
<1>3. /\ held = None /\ opened = FALSE /\ tx = << >> /\ queue = << >>
      /\ phase = "down" /\ fresh = FALSE /\ commits = 0 /\ crashes = 0
  BY DEF SessionInit, Unused
<1>4. wants \in [Task -> BOOLEAN] /\ left \in [Task -> SUBSET Row]
      /\ \A t \in Task : left[t] = Row
  BY DEF SessionInit, Unused
<1>5. SessionTypeOK
  <2>1. ~(held # None /\ opened)
    BY <1>3
  <2>2. crashes \in 0 .. MaxCrashes
    BY <1>3, BoundType
  <2> QED BY <1>1, <1>2, <1>3, <1>4, <2>1, <2>2 DEF SessionTypeOK, FileType
<1>6. CommittedExactly /\ Counts
  BY <1>1, <1>3, <1>4 DEF CommittedExactly, Counts
<1> QED BY <1>5, <1>6 DEF TxInv

\* The statements of a start leave the rows and the lock alone.
LEMMA StartKeepsRows ==
  ASSUME SessionTypeOK, Start
  PROVE  /\ file' \in FileType /\ file'.rows = file.rows
         /\ UNCHANGED <<session, commits, crashes>>
         /\ phase \in {"inspect", "wipe", "app", "version", "scripts", "root"}
         /\ phase' \in {"wipe", "app", "version", "scripts", "root", "up", "failed"}
         /\ fresh' \in BOOLEAN
<1> USE DEF FileType
<1>1. file \in FileType /\ fresh \in BOOLEAN
  BY DEF SessionTypeOK
<1>2. CASE Inspect
  BY <1>1, <1>2 DEF Inspect, Startup, Seen
<1>3. ASSUME NEW k \in Table, Drop(k) PROVE file' \in FileType /\ file'.rows = file.rows
                                           /\ Startup("wipe", file', "wipe") /\ fresh' = fresh
  <2>1. file.root \in BOOLEAN /\ (file.root /\ k # NodeTable) \in BOOLEAN
    BY <1>1
  <2> QED BY <1>1, <1>3, <2>1 DEF Drop, Startup
<1>4. CASE Wiped
  BY <1>1, <1>4 DEF Wiped, Startup
<1>5. CASE SetApplicationId
  BY <1>1, <1>5 DEF SetApplicationId, Startup
<1>6. CASE SetUserVersion
  BY <1>1, <1>6 DEF SetUserVersion, Startup
<1>7. ASSUME NEW k \in Table, CreateTable(k) PROVE file' \in FileType /\ file'.rows = file.rows
                                           /\ Startup("scripts", file', "scripts") /\ fresh' = fresh
  BY <1>1, <1>7 DEF CreateTable, Startup
<1>8. CASE SchemaApplied
  BY <1>1, <1>8 DEF SchemaApplied, Startup
<1>9. CASE InitializeRoot
  <2>1. (file.root \/ fresh) \in BOOLEAN
    BY <1>1
  <2> QED BY <1>1, <1>9, <2>1 DEF InitializeRoot, Startup
<1> QED BY <1>1, <1>2, <1>3, <1>4, <1>5, <1>6, <1>7, <1>8, <1>9 DEF Start, Startup

LEMMA TxStep == TxInv /\ [SessionNext]_sessionVars => TxInv'
<1> SUFFICES ASSUME TxInv, [SessionNext]_sessionVars PROVE TxInv'
  OBVIOUS
<1> USE DEF FileType
<1>0. SessionTypeOK /\ CommittedExactly /\ Counts
  BY DEF TxInv
<1>1. /\ file \in FileType /\ held \in Task \cup {None} /\ opened \in BOOLEAN
      /\ IF held # None /\ opened THEN tx \in [Row -> Nat] ELSE tx = << >>
      /\ queue \in Seq(Task) /\ IsInjective(queue)
      /\ wants \in [Task -> BOOLEAN] /\ left \in [Task -> SUBSET Row]
      /\ fresh \in BOOLEAN /\ commits \in Nat /\ crashes \in 0 .. MaxCrashes
  BY <1>0 DEF SessionTypeOK
<1>2. CASE Boot
  <2>1. UNCHANGED <<file, session, commits, crashes>> /\ phase' = "inspect" /\ fresh' = FALSE
        /\ phase # "up"
    BY <1>2 DEF Boot
  <2>2. SessionTypeOK'
    BY <1>1, <2>1 DEF SessionTypeOK, session
  <2>3. CommittedExactly' /\ Counts'
    BY <1>0, <2>1 DEF CommittedExactly, Counts, session
  <2> QED BY <2>2, <2>3 DEF TxInv
<1>3. CASE Start
  <2>1. /\ file' \in FileType /\ file'.rows = file.rows
        /\ UNCHANGED <<session, commits, crashes>> /\ phase # "up"
        /\ phase' \in {"wipe", "app", "version", "scripts", "root", "up", "failed"}
        /\ fresh' \in BOOLEAN
    BY <1>0, <1>3, StartKeepsRows
  <2>2. SessionTypeOK'
    BY <1>1, <2>1 DEF SessionTypeOK, session
  <2>3. CommittedExactly' /\ Counts'
    BY <1>0, <2>1 DEF CommittedExactly, Counts, session
  <2> QED BY <2>2, <2>3 DEF TxInv
<1>4. ASSUME NEW t \in Task, held = t,
             Released, left' = [left EXCEPT ![t] = Row],
             UNCHANGED <<file, queue, wants, commits>>, Keep
      PROVE  TxInv'
  <2>1. left' \in [Task -> SUBSET Row] /\ \A u \in Task : left'[u] = Row
    BY <1>0, <1>1, <1>4 DEF Counts
  <2>2. SessionTypeOK'
    BY <1>0, <1>1, <1>4, <2>1 DEF SessionTypeOK, Released, Keep
  <2>3. CommittedExactly' /\ Counts'
    BY <1>0, <1>4, <2>1 DEF CommittedExactly, Counts, Released, Keep
  <2> QED BY <2>2, <2>3 DEF TxInv
<1>5. ASSUME NEW q \in Seq(Task), IsInjective(q), queue' = q,
             wants' \in [Task -> BOOLEAN],
             UNCHANGED <<file, tx, held, opened, left, commits>>, Keep
      PROVE  TxInv'
  <2>1. SessionTypeOK'
    BY <1>0, <1>1, <1>5 DEF SessionTypeOK, Keep
  <2>2. CommittedExactly' /\ Counts'
    BY <1>0, <1>5 DEF CommittedExactly, Counts, Keep
  <2> QED BY <2>1, <2>2 DEF TxInv
<1>6. ASSUME NEW t \in Task, Fail(t) PROVE TxInv'
  BY <1>4, <1>6 DEF Fail
<1>7. ASSUME NEW t \in Task, NEW b \in BOOLEAN, Enter(t, b) PROVE TxInv'
  <2>1. CASE held = t
    BY <1>6, <1>7, <2>1 DEF Enter
  <2>2. CASE held # t
    <3>1. t \notin ToSet(queue) /\ Wait(t, b)
      BY <1>7, <2>2 DEF Enter, Runs
    <3>2. Append(queue, t) \in Seq(Task) /\ IsInjective(Append(queue, t))
      BY <1>1, <3>1, AppendInjectiveQueue
    <3>3. wants' \in [Task -> BOOLEAN]
      BY <1>1, <3>1 DEF Wait
    <3> QED BY <1>5, <3>1, <3>2, <3>3 DEF Wait
  <2> QED BY <2>1, <2>2
<1>8. ASSUME NEW t \in Task, Acquire(t) PROVE TxInv'
  <2>1. /\ held = None /\ phase = "up" /\ held' = t /\ opened' = wants[t] /\ t # None
        /\ tx' = IF wants[t] THEN file.rows ELSE << >>
        /\ queue' = Tail(queue) /\ queue # << >>
        /\ UNCHANGED <<file, wants, left, commits, phase, fresh, crashes>>
    BY <1>8, NoneIsNoTask DEF Acquire, Leave, Keep
  <2>2. Tail(queue) \in Seq(Task) /\ IsInjective(Tail(queue))
    BY <1>1, <2>1, TailInjective
  <2>3. wants[t] \in BOOLEAN /\ file.rows \in [Row -> Nat]
    BY <1>1
  <2>4. IF held' # None /\ opened' THEN tx' \in [Row -> Nat] ELSE tx' = << >>
    BY <2>1, <2>3
  <2>5. SessionTypeOK'
    BY <1>0, <1>1, <2>1, <2>2, <2>3, <2>4 DEF SessionTypeOK
  <2>6. \A u \in Task : left[u] = Row
    BY <1>0, <2>1 DEF Counts
  <2>7. CommittedExactly'
    BY <1>0, <2>1 DEF CommittedExactly
  <2>8. \A r \in Row : file.rows[r] = commits
    BY <1>0 DEF CommittedExactly
  <2>9. Counts'
    BY <1>1, <2>1, <2>3, <2>6, <2>8 DEF Counts
  <2> QED BY <2>5, <2>7, <2>9 DEF TxInv
<1>9. ASSUME NEW t \in Task, AcquireFails(t) PROVE TxInv'
  <2>1. Tail(queue) \in Seq(Task) /\ IsInjective(Tail(queue))
    BY <1>1, <1>9, TailInjective DEF AcquireFails
  <2> QED BY <1>1, <1>5, <1>9, <2>1 DEF AcquireFails, Leave
<1>10. ASSUME NEW t \in Task, Cancel(t) PROVE TxInv'
  <2>1. PICK i \in DOMAIN queue : queue' = RemoveAt(queue, i)
    BY <1>10 DEF Cancel
  <2>2. RemoveAt(queue, i) \in Seq(Task) /\ IsInjective(RemoveAt(queue, i))
    BY <1>1, RemoveInjective
  <2> QED BY <1>1, <1>5, <1>10, <2>1, <2>2 DEF Cancel
<1>11. ASSUME NEW t \in Task, NEW r \in Row, Execute(t, r) PROVE TxInv'
  <2>1. /\ held = t /\ opened /\ t # None /\ r \in left[t]
        /\ tx' = [tx EXCEPT ![r] = tx[r] + 1]
        /\ left' = [left EXCEPT ![t] = left[t] \ {r}]
        /\ UNCHANGED <<file, held, opened, queue, wants, commits, phase, fresh, crashes>>
    BY <1>11, NoneIsNoTask DEF Execute, Require, Keep
  <2>2. tx \in [Row -> Nat]
    BY <1>1, <2>1
  <2>3. tx' \in [Row -> Nat] /\ left' \in [Task -> SUBSET Row]
    BY <1>1, <2>1, <2>2
  <2>4. SessionTypeOK'
    BY <1>0, <1>1, <2>1, <2>3 DEF SessionTypeOK
  <2>5. CommittedExactly'
    BY <1>0, <2>1 DEF CommittedExactly
  <2>6. \A q \in Row : tx'[q] = commits + (IF q \in left'[t] THEN 0 ELSE 1)
    <3>1. \A q \in Row : tx[q] = commits + (IF q \in left[t] THEN 0 ELSE 1)
      BY <1>0, <2>1 DEF Counts
    <3>2. left'[t] = left[t] \ {r}
      BY <1>1, <2>1
    <3> QED BY <1>1, <2>1, <2>2, <3>1, <3>2
  <2>7. Counts'
    BY <1>0, <1>1, <2>1, <2>6 DEF Counts
  <2> QED BY <2>4, <2>5, <2>7 DEF TxInv
<1>12. ASSUME NEW t \in Task, Commit(t) PROVE TxInv'
  <2>1. /\ held = t /\ opened /\ t # None /\ left[t] = {}
        /\ file' = [file EXCEPT !.rows = tx] /\ commits' = commits + 1
        /\ held' = None /\ opened' = FALSE /\ tx' = << >>
        /\ left' = [left EXCEPT ![t] = Row]
        /\ UNCHANGED <<queue, wants, phase, fresh, crashes>>
    BY <1>12, NoneIsNoTask DEF Commit, Require, Keep, Released
  <2>2. tx \in [Row -> Nat] /\ file' \in FileType /\ file'.rows = tx
    BY <1>1, <2>1
  <2>3. left' \in [Task -> SUBSET Row] /\ \A u \in Task : left'[u] = Row
    BY <1>0, <1>1, <2>1 DEF Counts
  <2>4. SessionTypeOK'
    <3>1. ~(held' # None /\ opened') /\ commits' \in Nat
      BY <1>1, <2>1
    <3> QED BY <1>0, <1>1, <2>1, <2>2, <2>3, <3>1 DEF SessionTypeOK
  <2>5. \A r \in Row : tx[r] = commits + 1
    BY <1>0, <2>1 DEF Counts
  <2>6. CommittedExactly'
    BY <2>1, <2>2, <2>5 DEF CommittedExactly
  <2>7. Counts'
    BY <2>1, <2>3 DEF Counts
  <2> QED BY <2>4, <2>6, <2>7 DEF TxInv
<1>13. ASSUME NEW t \in Task, Reclaim(t) PROVE TxInv'
  BY <1>6, <1>13 DEF Reclaim
<1>14. CASE Close
  <2>1. /\ UNCHANGED <<file, session, fresh, commits>> /\ held = None
        /\ phase' = "closed" /\ crashes' \in 0 .. MaxCrashes
    BY <1>1, <1>14, BoundType DEF Close
  <2>2. SessionTypeOK'
    BY <1>1, <2>1 DEF SessionTypeOK, session
  <2>3. CommittedExactly' /\ Counts'
    BY <1>0, <2>1 DEF CommittedExactly, Counts, session
  <2> QED BY <2>2, <2>3 DEF TxInv
<1>15. CASE Crash
  <2>1. /\ UNCHANGED <<file, fresh, commits>> /\ phase' = "down"
        /\ tx' = << >> /\ held' = None /\ opened' = FALSE /\ queue' = << >>
        /\ wants' = [t \in Task |-> FALSE] /\ left' = [t \in Task |-> Row]
        /\ crashes' \in 0 .. MaxCrashes
    BY <1>1, <1>15, BoundType DEF Crash
  <2>2. << >> \in Seq(Task) /\ IsInjective(<< >>)
    BY DEF IsInjective
  <2>3. wants' \in [Task -> BOOLEAN] /\ left' \in [Task -> SUBSET Row]
        /\ \A t \in Task : left'[t] = Row
    BY <2>1
  <2>4. ~(held' # None /\ opened')
    BY <2>1
  <2>5. SessionTypeOK'
    BY <1>1, <2>1, <2>2, <2>3, <2>4 DEF SessionTypeOK
  <2>6. CommittedExactly' /\ Counts'
    BY <1>0, <2>1, <2>3 DEF CommittedExactly, Counts
  <2> QED BY <2>5, <2>6 DEF TxInv
<1>16. CASE UNCHANGED sessionVars
  <2>1. SessionTypeOK'
    BY <1>0, <1>16 DEF SessionTypeOK, sessionVars, session
  <2>2. CommittedExactly' /\ Counts'
    BY <1>0, <1>16 DEF CommittedExactly, Counts, sessionVars, session
  <2> QED BY <2>1, <2>2 DEF TxInv
<1> QED BY <1>2, <1>3, <1>6, <1>7, <1>8, <1>9, <1>10, <1>11, <1>12, <1>13, <1>14, <1>15, <1>16
        DEF SessionNext, Serve, Proceed

\* Every committed row is the sum of the contexts that were left without an
\* exception: nothing is lost, torn or taken along by another transaction
\* (DBSession.__aenter__, __aexit__).
THEOREM IsolatedAlways == SessionSpec => []Isolated
<1>1. TxInv => Isolated
  BY DEF TxInv, Isolated
<1> QED BY TxInit, TxStep, <1>1, PTL DEF SessionSpec

(***************************************************************************)
(* The schema.  What a start may find after any number of starts that were *)
(* cut short: tables that are dropped, or tables of the version that the   *)
(* file claims to have.                                                    *)
(***************************************************************************)
Ours == file.app = "ours" /\ file.version = "now"

SchemaInv ==
  /\ Ours => \A k \in Table : file.tables[k] # "old"
  /\ file.app = "other" => file.tables = Full("old")
  /\ phase = "wipe" => file.app = "ours" /\ file.version # "now"
  /\ phase = "app" => file.tables = Empty \/ Ours
  /\ phase = "version" => file.app = "ours" /\ (file.tables = Empty \/ Ours)
  /\ phase = "scripts" => Ours
  /\ phase = "root" => Ours /\ file.tables = Full("now")
  /\ phase \in {"up", "closed"} => Ours /\ file.tables = Full("now") /\ file.root

LEMMA EmptyIsNotFull == Empty # Full("old") /\ \A k \in Table : Empty[k] # "old" /\ Full("now")[k] # "old"
BY NodeTableType DEF Empty, Full, None

LEMMA SchemaInit == SessionInit => SchemaInv
<1> SUFFICES ASSUME SessionInit PROVE SchemaInv
  OBVIOUS
<1>1. phase = "down" /\ file \in Files
  BY DEF SessionInit
<1>2. Ours => file.tables = Full("now")
  BY <1>1 DEF Files, Ours, None
<1>3. file.app = "other" => file.tables = Full("old")
  BY <1>1 DEF Files, None
<1> QED BY <1>1, <1>2, <1>3, EmptyIsNotFull DEF SchemaInv

LEMMA SchemaStep == TxInv /\ SchemaInv /\ [SessionNext]_sessionVars => SchemaInv'
<1> SUFFICES ASSUME TxInv, SchemaInv, [SessionNext]_sessionVars PROVE SchemaInv'
  OBVIOUS
<1> USE DEF Ours
<1>0. file \in FileType
  BY DEF TxInv, SessionTypeOK, FileType
<1>1. CASE UNCHANGED file /\ phase' \in {phase, "inspect", "closed", "down"}
           /\ (phase' = "closed" => phase \in {"up", "closed"})
  BY <1>1 DEF SchemaInv
<1>2. CASE Inspect
  <2>1. UNCHANGED file /\ phase' = Seen
    BY <1>2 DEF Inspect, Startup
  <2>2. CASE file.tables = Empty
    BY <2>1, <2>2 DEF Seen, SchemaInv
  <2>3. CASE file.tables # Empty /\ file.app # "ours"
    BY <2>1, <2>3 DEF Seen, SchemaInv
  <2>4. CASE file.tables # Empty /\ file.app = "ours"
    BY <2>1, <2>4 DEF Seen, SchemaInv
  <2> QED BY <2>2, <2>3, <2>4
<1>3. ASSUME NEW k \in Table, Drop(k) PROVE SchemaInv'
  <2>1. /\ phase = "wipe" /\ phase' = "wipe"
        /\ file'.app = file.app /\ file'.version = file.version
    BY <1>0, <1>3 DEF Drop, Startup, FileType
  <2> QED BY <2>1 DEF SchemaInv
<1>4. CASE Wiped
  BY <1>4 DEF Wiped, Startup, SchemaInv
<1>5. CASE SetApplicationId
  <2>1. /\ phase = "app" /\ phase' = "version"
        /\ file'.app = "ours" /\ file'.version = file.version /\ file'.tables = file.tables
    BY <1>0, <1>5 DEF SetApplicationId, Startup, FileType
  <2> QED BY <2>1, EmptyIsNotFull DEF SchemaInv
<1>6. CASE SetUserVersion
  <2>1. /\ phase = "version" /\ phase' = "scripts"
        /\ file'.app = file.app /\ file'.version = "now" /\ file'.tables = file.tables
    BY <1>0, <1>6 DEF SetUserVersion, Startup, FileType
  <2> QED BY <2>1, EmptyIsNotFull DEF SchemaInv
<1>7. ASSUME NEW k \in Table, CreateTable(k) PROVE SchemaInv'
  <2>1. /\ phase = "scripts" /\ phase' = "scripts"
        /\ file'.app = file.app /\ file'.version = file.version
        /\ \A j \in Table : file'.tables[j] = IF j = k THEN "now" ELSE file.tables[j]
    BY <1>0, <1>7 DEF CreateTable, Startup, FileType
  <2> QED BY <2>1 DEF SchemaInv
<1>8. CASE SchemaApplied
  <2>1. /\ phase = "scripts" /\ phase' = "root" /\ UNCHANGED file
        /\ \A k \in Table : file.tables[k] # None
    BY <1>8 DEF SchemaApplied, Startup
  <2>2. file.tables \in [Table -> {None, "now", "old"}] /\ \A k \in Table : file.tables[k] # "old"
    BY <1>0, <2>1 DEF SchemaInv, FileType
  <2>3. file.tables = Full("now")
    BY <2>1, <2>2 DEF Full
  <2> QED BY <2>1, <2>3 DEF SchemaInv
<1>9. CASE InitializeRoot
  <2>1. /\ phase = "root" /\ phase' = IF fresh \/ file.root THEN "up" ELSE "failed"
        /\ file'.app = file.app /\ file'.version = file.version /\ file'.tables = file.tables
        /\ file'.root = (file.root \/ fresh)
    BY <1>0, <1>9 DEF InitializeRoot, Startup, FileType
  <2> QED BY <2>1 DEF SchemaInv
<1>10. ASSUME NEW t \in Task, Commit(t) PROVE SchemaInv'
  <2>1. /\ UNCHANGED phase /\ file'.root = file.root
        /\ file'.app = file.app /\ file'.version = file.version /\ file'.tables = file.tables
    BY <1>0, <1>10 DEF Commit, Keep, FileType
  <2> QED BY <2>1 DEF SchemaInv
<1>11. ASSUME NEW t \in Task, NEW r \in Row, NEW b \in BOOLEAN,
              \/ Fail(t) \/ Enter(t, b) \/ Acquire(t) \/ AcquireFails(t) \/ Cancel(t)
              \/ Execute(t, r) \/ Reclaim(t)
       PROVE  SchemaInv'
  <2>1. UNCHANGED <<file, phase>>
    BY <1>11 DEF Fail, Enter, Wait, Acquire, AcquireFails, Leave, Cancel, Execute, Reclaim, Keep
  <2> QED BY <1>1, <2>1
<1>12. ASSUME NEW t \in Task, NEW b \in BOOLEAN,
              \/ Fail(t) \/ Enter(t, b) \/ Acquire(t) \/ AcquireFails(t) \/ Cancel(t) \/ Reclaim(t)
       PROVE  SchemaInv'
  <2>1. UNCHANGED <<file, phase>>
    BY <1>12 DEF Fail, Enter, Wait, Acquire, AcquireFails, Leave, Cancel, Reclaim, Keep
  <2> QED BY <1>1, <2>1
<1>13. CASE Boot \/ Close \/ Crash \/ UNCHANGED sessionVars
  BY <1>1, <1>13 DEF Boot, Close, Crash, sessionVars
<1> QED BY <1>2, <1>3, <1>4, <1>5, <1>6, <1>7, <1>8, <1>9, <1>10, <1>11, <1>12, <1>13
        DEF SessionNext, Start, Serve, Proceed

\* The director comes up only with all tables of this schema and the root node,
\* however many starts were cut short between two statements
\* (DBSession.apply_schema, Trellis.initialize).
THEOREM UpIsCompleteAlways == SessionSpec => []UpIsComplete
<1>1. SchemaInv => UpIsComplete
  BY DEF SchemaInv, UpIsComplete, Ours
<1> QED BY TxInit, TxStep, SchemaInit, SchemaStep, <1>1, PTL DEF SessionSpec

\* A database of another application is never changed (DBSession.apply_schema).
THEOREM ForeignIsUntouched == SessionSpec => ForeignUntouched
<1>1. TxInv /\ SchemaInv /\ [SessionNext]_sessionVars => [file.app = "other" => UNCHANGED file]_sessionVars
  <2> SUFFICES ASSUME TxInv, SchemaInv, SessionNext, file.app = "other" PROVE UNCHANGED file
    BY DEF sessionVars
  <2>1. phase \notin {"wipe", "app", "version", "scripts", "root", "up"}
    BY EmptyIsNotFull DEF SchemaInv, Ours
  <2>2. \A t \in Task : held # t
    BY <2>1, NoneIsNoTask DEF TxInv, Counts
  <2>3. ~(\E k \in Table : Drop(k) \/ CreateTable(k))
        /\ ~SetApplicationId /\ ~SetUserVersion /\ ~InitializeRoot
    BY <2>1 DEF Drop, CreateTable, SetApplicationId, SetUserVersion, InitializeRoot, Startup
  <2>4. Start => UNCHANGED file
    BY <2>3 DEF Start, Inspect, Wiped, SchemaApplied, Startup
  <2>5. \A t \in Task : ~Commit(t) /\ (\A r \in Row : ~Execute(t, r))
    BY <2>2 DEF Commit, Execute, Require
  <2>6. ASSUME NEW t \in Task, NEW b \in BOOLEAN,
               \/ Fail(t) \/ Enter(t, b) \/ Acquire(t) \/ AcquireFails(t) \/ Cancel(t) \/ Reclaim(t)
        PROVE  UNCHANGED file
    BY <2>6 DEF Fail, Enter, Wait, Acquire, AcquireFails, Leave, Cancel, Reclaim
  <2>7. Boot \/ Close \/ Crash => UNCHANGED file
    BY DEF Boot, Close, Crash
  <2> QED BY <2>4, <2>5, <2>6, <2>7 DEF SessionNext, Serve, Proceed
<1> QED BY TxInit, TxStep, SchemaInit, SchemaStep, <1>1, PTL DEF SessionSpec, ForeignUntouched
=============================================================================
