----------------------------- MODULE ClaimsProofs -----------------------------
(***************************************************************************)
(* Proofs about Claims, for any steps, files, trees and patterns, any      *)
(* calls and any number of events.                                         *)
(***************************************************************************)
EXTENDS Claims, FiniteSetTheorems, WellFoundedInduction, TLAPS

(***************************************************************************)
(* Induction over numbers and over the subsets of a finite set, for sets   *)
(* in place of predicates.                                                 *)
(***************************************************************************)
LEMMA NatMin ==
  ASSUME NEW T \in SUBSET Nat, T # {}
  PROVE  \E n \in T : \A m \in T : n <= m
<1> DEFINE R == OpToRel(<, Nat)
<1>1. IsWellFoundedOn(R, Nat)
  BY NatLessThanWellFounded
<1>2. \A x, y \in Nat : x < y => <<x, y>> \in R
  BY DEF OpToRel
<1> HIDE DEF R
<1>3. PICK n \in T : \A m \in T : <<m, n>> \notin R
  BY <1>1, WFMin
<1>4. ASSUME NEW m \in T PROVE n <= m
  <2>1. ~(m < n)
    BY <1>2, <1>3
  <2> QED BY <2>1
<1> QED BY <1>4

\* A set of numbers with 0 and all successors.
LEMMA Induct ==
  ASSUME NEW T \in SUBSET Nat, 0 \in T, \A n \in T : n + 1 \in T
  PROVE  T = Nat
<1> SUFFICES ASSUME T # Nat PROVE FALSE
  OBVIOUS
<1>1. PICK n \in Nat \ T : \A m \in Nat \ T : n <= m
  BY NatMin
<1>2. n # 0 /\ n - 1 \in Nat
  BY <1>1
<1>3. n - 1 \in T
  BY <1>1, <1>2
<1> QED BY <1>1, <1>2, <1>3

Sized(S, n) == {s \in SUBSET S : Cardinality(s) <= n}

\* A subset is empty or has one element more than a smaller one.
LEMMA SizedType ==
  ASSUME NEW S, IsFiniteSet(S), NEW s \in SUBSET S
  PROVE  /\ IsFiniteSet(s) /\ Cardinality(s) \in Nat
         /\ Cardinality(s) <= Cardinality(S) /\ Cardinality(S) \in Nat
         /\ Cardinality(s) = 0 <=> s = {}
         /\ \A x \in s : Cardinality(s \ {x}) = Cardinality(s) - 1 /\ s \ {x} \in SUBSET S
BY FS_Subset, FS_CardinalityType, FS_EmptySet, FS_RemoveElement

LEMMA SubsetInduct ==
  ASSUME NEW S, IsFiniteSet(S), NEW P,
         \A s \in SUBSET S : (s = {} \/ \A x \in s : s \ {x} \in P) => s \in P
  PROVE  S \in P
<1> DEFINE T == {n \in Nat : \A s \in SUBSET S : Cardinality(s) = n => s \in P}
<1>1. 0 \in T
  BY SizedType
<1>2. ASSUME NEW n \in T PROVE n + 1 \in T
  <2> SUFFICES ASSUME NEW s \in SUBSET S, Cardinality(s) = n + 1 PROVE s \in P
    OBVIOUS
  <2>1. ASSUME NEW x \in s PROVE s \ {x} \in P
    <3>1. Cardinality(s \ {x}) = n /\ s \ {x} \in SUBSET S
      BY SizedType
    <3> QED BY <3>1
  <2> QED BY <2>1
<1> HIDE DEF T
<1>3. T = Nat
  <2>1. T \in SUBSET Nat
    BY DEF T
  <2> QED BY <1>1, <1>2, <2>1, Induct
<1> QED BY <1>3, FS_CardinalityType DEF T

(***************************************************************************)
(* Folds.                                                                  *)
(***************************************************************************)
Pick(s) == CHOOSE x \in s : TRUE

\* it folds G over S, as far as the subsets with n elements.
FoldsTo(it, S, base, G, n) ==
  \A s \in Sized(S, n) : it[s] = IF s = {} THEN base ELSE G[<<Pick(s), it[s \ {Pick(s)}]>>]

IsFold(it, S, base, G) ==
  \A s \in SUBSET S : it[s] = IF s = {} THEN base ELSE G[<<Pick(s), it[s \ {Pick(s)}]>>]

\* The recursive function that FoldSet computes exists.
LEMMA FoldExists ==
  ASSUME NEW S, IsFiniteSet(S), NEW I, NEW base \in I, NEW G \in [S \X I -> I]
  PROVE  \E it \in [SUBSET S -> I] : IsFold(it, S, base, G)
<1> DEFINE T == {n \in Nat : \E it \in [SUBSET S -> I] : FoldsTo(it, S, base, G, n)}
<1>1. 0 \in T
  <2> DEFINE it == [s \in SUBSET S |-> base]
  <2>1. \A s \in Sized(S, 0) : s = {} /\ s \in SUBSET S
    BY SizedType DEF Sized
  <2>2. FoldsTo(it, S, base, G, 0)
    BY <2>1 DEF FoldsTo
  <2>3. it \in [SUBSET S -> I]
    OBVIOUS
  <2> QED BY <2>2, <2>3
<1>2. ASSUME NEW n \in T PROVE n + 1 \in T
  <2>1. PICK it \in [SUBSET S -> I] : FoldsTo(it, S, base, G, n)
    OBVIOUS
  <2>2. n \in Nat
    OBVIOUS
  <2> DEFINE next(s) == G[<<Pick(s), it[s \ {Pick(s)}]>>]
             it2 == [s \in SUBSET S |-> IF Cardinality(s) = n + 1 THEN next(s) ELSE it[s]]
  <2>3. ASSUME NEW s \in SUBSET S, s # {}
        PROVE  /\ Pick(s) \in s /\ s \ {Pick(s)} \in SUBSET S
               /\ Cardinality(s \ {Pick(s)}) = Cardinality(s) - 1
    <3>1. Pick(s) \in s
      BY <2>3 DEF Pick
    <3> QED BY <3>1, SizedType
  <2>4. ASSUME NEW s \in SUBSET S, s # {} PROVE next(s) \in I
    BY <2>3, <2>4
  <2>5. \A s \in SUBSET S : Cardinality(s) = n + 1 => s # {}
    BY SizedType, <2>2
  <2>6. it2 \in [SUBSET S -> I]
    <3> HIDE DEF next
    <3> QED BY <2>4, <2>5
  <2>7. \A s \in SUBSET S : it2[s] = IF Cardinality(s) = n + 1 THEN next(s) ELSE it[s]
    OBVIOUS
  <2> HIDE DEF it2, T
  <2>8. ASSUME NEW s \in Sized(S, n + 1)
        PROVE  it2[s] = IF s = {} THEN base ELSE G[<<Pick(s), it2[s \ {Pick(s)}]>>]
    <3>1. s \in SUBSET S /\ Cardinality(s) <= n + 1 /\ Cardinality(s) \in Nat
      BY SizedType DEF Sized
    <3>2. ASSUME s # {} PROVE it2[s \ {Pick(s)}] = it[s \ {Pick(s)}]
      <4> DEFINE less == s \ {Pick(s)}
      <4>1. less \in SUBSET S /\ Cardinality(less) = Cardinality(s) - 1
        BY <2>3, <3>1, <3>2
      <4>2. Cardinality(less) # n + 1
        BY <2>2, <3>1, <4>1
      <4> HIDE DEF less, next
      <4>3. it2[less] = it[less]
        BY <2>7, <4>1, <4>2
      <4> QED BY <4>3 DEF less
    <3>3. CASE Cardinality(s) = n + 1
      BY <2>5, <2>7, <3>1, <3>2, <3>3
    <3>4. CASE Cardinality(s) # n + 1
      <4>1. s \in Sized(S, n)
        BY <2>2, <3>1, <3>4 DEF Sized
      <4> QED BY <2>1, <2>7, <3>1, <3>2, <3>4, <4>1 DEF FoldsTo
    <3> QED BY <3>3, <3>4
  <2>9. FoldsTo(it2, S, base, G, n + 1)
    BY <2>8 DEF FoldsTo
  <2> QED BY <2>2, <2>6, <2>9 DEF T
<1> HIDE DEF T
<1>3. T = Nat
  <2>1. T \in SUBSET Nat
    BY DEF T
  <2> QED BY <1>1, <1>2, <2>1, Induct
<1>4. Cardinality(S) \in T /\ \A s \in SUBSET S : s \in Sized(S, Cardinality(S))
  BY <1>3, FS_CardinalityType, SizedType DEF Sized
<1> QED BY <1>4 DEF T, FoldsTo, IsFold

(***************************************************************************)
(* Recursive functions of a number.                                        *)
(***************************************************************************)
\* f iterates G from A, n times.
Iterates(f, A, G, n) == \A k \in 0 .. n : f[k] = IF k = 0 THEN A ELSE G[f[k - 1]]

LEMMA IterationsExist ==
  ASSUME NEW N \in Nat, NEW X, NEW A \in X, NEW G \in [X -> X]
  PROVE  \E f \in [0 .. N -> X] : Iterates(f, A, G, N)
<1> DEFINE T == {n \in Nat : \E f \in [0 .. n -> X] : Iterates(f, A, G, n)}
<1>1. 0 \in T
  <2> DEFINE f == [k \in 0 .. 0 |-> A]
  <2>1. f \in [0 .. 0 -> X] /\ Iterates(f, A, G, 0)
    BY DEF Iterates
  <2> QED BY <2>1
<1>2. ASSUME NEW n \in T PROVE n + 1 \in T
  <2>1. PICK f \in [0 .. n -> X] : Iterates(f, A, G, n)
    OBVIOUS
  <2>2. n \in Nat
    OBVIOUS
  <2> DEFINE g == [k \in 0 .. n + 1 |-> IF k = n + 1 THEN G[f[n]] ELSE f[k]]
  <2>3. g \in [0 .. n + 1 -> X] /\ g[n + 1] = G[f[n]] /\ \A k \in 0 .. n : g[k] = f[k]
    BY <2>2
  <2> HIDE DEF g, T
  <2>4. ASSUME NEW k \in 0 .. n + 1 PROVE g[k] = IF k = 0 THEN A ELSE G[g[k - 1]]
    <3>1. CASE k = n + 1
      <4>1. g[k - 1] = f[n] /\ k # 0
        BY <2>2, <2>3, <3>1
      <4> QED BY <2>3, <3>1, <4>1
    <3>2. CASE k \in 0 .. n
      <4>1. g[k] = f[k] /\ (k # 0 => g[k - 1] = f[k - 1])
        BY <2>2, <2>3, <3>2
      <4> QED BY <2>1, <3>2, <4>1 DEF Iterates
    <3> QED BY <2>2, <3>1, <3>2
  <2>5. Iterates(g, A, G, n + 1)
    BY <2>4 DEF Iterates
  <2> QED BY <2>2, <2>3, <2>5 DEF T
<1> HIDE DEF T
<1>3. T = Nat
  <2>1. T \in SUBSET Nat
    BY DEF T
  <2> QED BY <1>1, <1>2, <2>1, Induct
<1> QED BY <1>3 DEF T

-----------------------------------------------------------------------------
(***************************************************************************)
(* The invariant.                                                          *)
(***************************************************************************)
RowState == Static \cup Output \cup {"NONE", "UNDECLARED", "VOLATILE"}
StepState == {"NONE", "PENDING", "RUNNING", "SUCCEEDED", "FAILED"}
Content == {None, "user", "made"}
Registration == [step : Step, glob : Glob, found : SUBSET File]

\* The databases that an operator may return, also after it raised.
DB == [cr : [Node -> Node \cup {Root, None}], row : [File -> RowState], hash : [File -> Content],
       st : [Step -> StepState], hashed : SUBSET Step, deferred : SUBSET Step,
       inp : [Step -> SUBSET File], dyn : [Step -> SUBSET File],
       out : [Step -> SUBSET File], dynOut : [Step -> SUBSET File],
       reg : SUBSET Registration, toCheck : SUBSET File, ok : BOOLEAN]

\* A file that has a creator has a row and the edges that go with it, and is
\* BUILT or VOLATILE when it is an output of a step that succeeded.
Claimed(d, f) ==
  /\ d.row[f] \notin {"NONE", "UNDECLARED"}
  /\ d.row[f] \in Static => \A s \in Step : f \notin d.out[s]
  /\ d.row[f] \notin Static =>
       /\ d.cr[f] \in Step /\ \A s \in Step : f \in d.out[s] <=> s = d.cr[f]
       /\ d.st[d.cr[f]] = "SUCCEEDED" => d.row[f] \in {"BUILT", "VOLATILE"}

FilesClaimed(d) == \A f \in File : d.cr[f] # None => Claimed(d, f)

\* Only the root plan declares static trees.
TreesOfPlan == \A s \in Step \ {Plan} : \A c \in Statics[s] : c.trees = {}

\* Then a tree is attached exactly while the plan is its creator, attached trees
\* are apart, and what is under one of them belongs to it or to nobody.
TreesClaimed(d) ==
  /\ \A t \in Tree : d.cr[t] \in {None, Plan}
  /\ \A t, u \in Tree : d.cr[t] = Plan /\ d.cr[u] = Plan /\ t # u => Under[t] \cap Under[u] = {}
  /\ \A t \in Tree : \A f \in Under[t] : d.cr[t] = Plan => d.cr[f] \in {None, t}

\* The root plan stays where it is, edges that a call of amend() added are edges,
\* and a hash goes with the state that says whether the file was there.
Recorded(d) ==
  /\ d.cr[Plan] = Root
  /\ \A s \in Step : d.dynOut[s] \subseteq d.out[s]
  /\ \A f \in File : /\ d.row[f] = "CONFIRMED" => d.hash[f] # None
                     /\ d.row[f] = "MISSING" => d.hash[f] = None

SoundFiles(d) == d \in DB /\ Recorded(d) /\ (d.ok => FilesClaimed(d))

Sound(d) == SoundFiles(d) /\ (d.ok /\ TreesOfPlan => TreesClaimed(d))

\* The files that the plan declares, itself or by a tree.
OfPlan(d, f) == d.cr[f] = Plan \/ (d.cr[f] \in Tree /\ d.cr[d.cr[f]] = Plan)

\* f is no new static file of the plan in e, and what d says of it still holds.
Kept(d, e, f) ==
  OfPlan(e, f) /\ e.row[f] \in Static =>
    OfPlan(d, f) /\ e.row[f] = d.row[f] /\ e.hash[f] = d.hash[f]

\* e follows d by an operator that leaves nothing unchecked.
Follows(d, e) ==
  /\ Sound(e) /\ (e.ok => d.ok) /\ d.toCheck \subseteq e.toCheck
  /\ e.ok => \A f \in File \ e.toCheck : Kept(d, e, f)

\* What is on disk is what the row says.
Current(d, f) ==
  d.row[f] = (IF Missing(f) THEN "MISSING" ELSE "CONFIRMED") /\ d.hash[f] = disk[f]

\* The changes that the director has not compared with the hashes yet.
Unseen == IF phase = "update" THEN {} ELSE changes

\* Static files of the plan are current, or will be.
PlanCurrent ==
  \A f \in File :
    OfPlan(db, f) /\ db.row[f] \in Static =>
      /\ db.row[f] = "UNCONFIRMED" => f \in checks
      /\ f \in checks \cup Unseen \/ Current(db, f)

IInv ==
  /\ TypeOK /\ Sound(db)
  /\ phase \notin {"build", "update"} => checks = {}
  /\ TreesOfPlan /\ phase # "down" => PlanCurrent
-----------------------------------------------------------------------------
(***************************************************************************)
(* The graph.                                                              *)
(***************************************************************************)
LEMMA Kinds ==
  /\ Plan \in Step /\ Root \notin Node /\ None \notin Node /\ Root # None
  /\ \A s \in Step : s \notin Tree /\ s \notin File /\ s \in Owner /\ s \in Node
  /\ \A t \in Tree : t \notin Step /\ t \notin File /\ t \in Owner /\ t \in Node
  /\ \A f \in File : f \notin Step /\ f \notin Tree /\ f \notin Owner /\ f \in Node
<1>1. Root # None
  BY DEF Root, None
<1> QED BY <1>1, PlanIsStep, KindsDiffer DEF Node, Owner

\* The columns that the operators leave alone.
SameGraph(d, e) == e.cr = d.cr /\ e.out = d.out /\ e.dynOut = d.dynOut
SameInputs(d, e) == e.inp = d.inp /\ e.dyn = d.dyn /\ e.reg = d.reg
SameMemory(d, e) == e.hashed = d.hashed /\ e.toCheck = d.toCheck /\ e.ok = d.ok

LEMMA SetStepsType ==
  ASSUME NEW d \in DB, NEW S \in SUBSET Step, NEW state \in StepState
  PROVE  LET e == SetSteps(d, S, state)
         IN /\ e \in DB /\ e.st = [s \in Step |-> IF s \in S THEN state ELSE d.st[s]]
            /\ e.row = d.row /\ e.hash = d.hash
            /\ SameGraph(d, e) /\ SameInputs(d, e) /\ SameMemory(d, e)
BY DEF SetSteps, DB, SameGraph, SameInputs, SameMemory

LEMMA SetRowsType ==
  ASSUME NEW d \in DB, NEW F \in SUBSET File, NEW state \in RowState
  PROVE  LET e == SetRows(d, F, state)
         IN /\ e \in DB /\ e.row = [f \in File |-> IF f \in F THEN state ELSE d.row[f]]
            /\ e.st = d.st /\ e.hash = d.hash
            /\ SameGraph(d, e) /\ SameInputs(d, e) /\ SameMemory(d, e)
BY DEF SetRows, DB, SameGraph, SameInputs, SameMemory

LEMMA DetachType ==
  ASSUME NEW d \in DB, NEW N \in SUBSET Node
  PROVE  LET e == Detach(d, N)
         IN /\ e \in DB /\ e.cr = [n \in Node |-> IF n \in N THEN None ELSE d.cr[n]]
            /\ e.row = d.row /\ e.hash = d.hash /\ e.st = d.st /\ e.out = d.out /\ e.dynOut = d.dynOut
            /\ SameInputs(d, e) /\ SameMemory(d, e)
BY DEF Detach, DB, SameInputs, SameMemory

LEMMA TakeType ==
  ASSUME NEW d \in DB, NEW n \in Node, NEW c \in Node \cup {None}
  PROVE  LET e == Take(d, n, c)
         IN /\ e \in DB /\ e.cr = [d.cr EXCEPT ![n] = c]
            /\ e.row = d.row /\ e.hash = d.hash /\ e.st = d.st /\ e.out = d.out /\ e.dynOut = d.dynOut
            /\ SameInputs(d, e) /\ e.toCheck = d.toCheck /\ e.ok = d.ok
BY DEF Take, DB, SameInputs

LEMMA CheckType ==
  ASSUME NEW d \in DB, NEW good \in BOOLEAN
  PROVE  LET e == Check(d, good)
         IN /\ e \in DB /\ e.ok = (d.ok /\ good) /\ (e.ok => d.ok) /\ (e.ok => good)
            /\ e.row = d.row /\ e.hash = d.hash /\ e.st = d.st
            /\ SameGraph(d, e) /\ SameInputs(d, e) /\ e.hashed = d.hashed /\ e.toCheck = d.toCheck
BY DEF Check, DB, SameGraph, SameInputs

(***************************************************************************)
(* MarkPending.                                                            *)
(***************************************************************************)
\* What it changes: steps of S and others become PENDING, with what they built.
Marks(d, e, S) ==
  /\ e \in DB /\ e.hash = d.hash
  /\ SameGraph(d, e) /\ SameInputs(d, e) /\ SameMemory(d, e)
  /\ \A s \in Step : e.st[s] = d.st[s] \/ (e.st[s] = "PENDING" /\ d.st[s] \notin {"NONE", "RUNNING"})
  /\ \A s \in S : e.st[s] # "SUCCEEDED"
  /\ \A f \in File :
       \/ e.row[f] = d.row[f]
       \/ /\ d.row[f] = "BUILT" /\ e.row[f] = "OUTDATED"
          /\ \E s \in Step : f \in d.out[s] /\ e.st[s] = "PENDING"

StepsCount == Cardinality(Step)

LEMMA StepsCountType == StepsCount \in Nat
BY FiniteKinds, FS_CardinalityType DEF StepsCount

LEMMA MarkPendingMarks ==
  ASSUME NEW d \in DB, NEW S \in SUBSET Step
  PROVE  Marks(d, MarkPending(d, S), S)
<1> DEFINE n == StepsCount
           idle == {s \in Step : d.st[s] \notin {"NONE", "RUNNING"}}
           completed == {s \in idle : d.st[s] # "PENDING"}
           current == Rows(d, {"BUILT"})
           built(T) == current \cap UNION {d.out[s] : s \in T \cap completed}
           more(T) == T \cup (Consumers(d, built(T)) \cap idle)
           Body(g) == [k \in 0 .. n |-> IF k = 0 THEN S \cap idle ELSE more(g[k - 1])]
           marks == CHOOSE g : g = Body(g)
           marked == marks[n]
<1>1. MarkPending(d, S) = SetRows(SetSteps(d, marked, "PENDING"), built(marked), "OUTDATED")
  BY DEF MarkPending, StepsCount
<1>2. n \in Nat
  BY StepsCountType
<1> HIDE DEF n
<1>3. \A T \in SUBSET Step : more(T) \in SUBSET Step
  BY DEF Consumers
<1>4. \E g : g = Body(g)
  <2> DEFINE G == [T \in SUBSET Step |-> more(T)]
  <2>1. G \in [SUBSET Step -> SUBSET Step] /\ \A T \in SUBSET Step : G[T] = more(T)
    BY <1>3
  <2>2. S \cap idle \in SUBSET Step
    OBVIOUS
  <2> HIDE DEF G, more, idle
  <2>3. PICK g \in [0 .. n -> SUBSET Step] : Iterates(g, S \cap idle, G, n)
    BY <1>2, <2>1, <2>2, IterationsExist
  <2>4. ASSUME NEW k \in 0 .. n, k # 0 PROVE G[g[k - 1]] = more(g[k - 1])
    <3>1. k - 1 \in 0 .. n
      BY <1>2, <2>4
    <3> QED BY <2>1, <2>3, <3>1
  <2>5. g = Body(g)
    BY <2>3, <2>4 DEF Iterates
  <2> QED BY <2>5
<1>5. marks = Body(marks)
  BY <1>4
<1> HIDE DEF marks
<1>6. ASSUME NEW k \in 0 .. n
      PROVE  marks[k] = IF k = 0 THEN S \cap idle ELSE more(marks[k - 1])
  <2> HIDE DEF more, idle
  <2> QED BY <1>5
<1>7. \A k \in 0 .. n : S \cap idle \subseteq marks[k] /\ marks[k] \subseteq idle
  <2> DEFINE T == {k \in Nat : k \in 0 .. n => S \cap idle \subseteq marks[k] /\ marks[k] \subseteq idle}
  <2>1. 0 \in T
    <3> HIDE DEF idle
    <3> QED BY <1>6
  <2>2. ASSUME NEW k \in T PROVE k + 1 \in T
    <3> SUFFICES ASSUME k + 1 \in 0 .. n
                 PROVE  S \cap idle \subseteq marks[k + 1] /\ marks[k + 1] \subseteq idle
      OBVIOUS
    <3>1. k \in 0 .. n /\ k + 1 # 0 /\ (k + 1) - 1 = k
      BY <1>2
    <3>2. S \cap idle \subseteq marks[k] /\ marks[k] \subseteq idle
      BY <3>1
    <3>3. marks[k + 1] = more(marks[k])
      <4> HIDE DEF more, idle, T
      <4> QED BY <1>6, <3>1
    <3> HIDE DEF built, T, idle
    <3> QED BY <3>2, <3>3
  <2> HIDE DEF T
  <2>3. T = Nat
    <3>1. T \in SUBSET Nat
      BY DEF T
    <3> QED BY <2>1, <2>2, <3>1, Induct
  <2> QED BY <1>2, <2>3 DEF T
<1>8. S \cap idle \subseteq marked /\ marked \subseteq idle
  BY <1>2, <1>7
<1> HIDE DEF marked
<1> DEFINE B == built(marked)
           e == SetSteps(d, marked, "PENDING")
           g == SetRows(e, B, "OUTDATED")
<1>9. B \in SUBSET File /\ \A f \in B : d.row[f] = "BUILT" /\ \E s \in marked : f \in d.out[s]
  BY DEF Rows
<1>10. "PENDING" \in StepState /\ "OUTDATED" \in RowState /\ marked \in SUBSET Step
  BY <1>8 DEF StepState, RowState, Output
<1> HIDE DEF B
<1>11. /\ e \in DB /\ e.st = [s \in Step |-> IF s \in marked THEN "PENDING" ELSE d.st[s]]
       /\ e.row = d.row /\ e.hash = d.hash
       /\ SameGraph(d, e) /\ SameInputs(d, e) /\ SameMemory(d, e)
  BY <1>10, SetStepsType
<1>12. /\ g \in DB /\ g.row = [f \in File |-> IF f \in B THEN "OUTDATED" ELSE e.row[f]]
       /\ g.st = e.st /\ g.hash = e.hash
       /\ SameGraph(e, g) /\ SameInputs(e, g) /\ SameMemory(e, g)
  <2> HIDE DEF e
  <2> QED BY <1>9, <1>10, <1>11, SetRowsType
<1>13. MarkPending(d, S) = g
  BY <1>1 DEF B
<1> HIDE DEF e, g
<1>14. g \in DB /\ g.hash = d.hash /\ SameGraph(d, g) /\ SameInputs(d, g) /\ SameMemory(d, g)
  BY <1>11, <1>12 DEF SameGraph, SameInputs, SameMemory
<1>15. ASSUME NEW s \in Step
       PROVE  g.st[s] = d.st[s] \/ (g.st[s] = "PENDING" /\ d.st[s] \notin {"NONE", "RUNNING"})
  BY <1>8, <1>11, <1>12
<1>16. ASSUME NEW s \in S PROVE g.st[s] # "SUCCEEDED"
  <2>1. CASE s \in marked
    BY <1>10, <1>11, <1>12, <2>1
  <2>2. CASE s \notin marked
    <3>1. s \notin idle /\ s \in Step
      BY <1>8, <2>2
    <3>2. d.st[s] \in {"NONE", "RUNNING"} /\ g.st[s] = d.st[s]
      BY <1>11, <1>12, <2>2, <3>1
    <3> QED BY <3>2
  <2> QED BY <2>1, <2>2
<1>17. ASSUME NEW f \in File
       PROVE  \/ g.row[f] = d.row[f]
              \/ /\ d.row[f] = "BUILT" /\ g.row[f] = "OUTDATED"
                 /\ \E s \in Step : f \in d.out[s] /\ g.st[s] = "PENDING"
  <2>1. CASE f \in B
    <3>1. PICK s \in marked : f \in d.out[s]
      BY <1>9, <2>1
    <3>2. s \in Step /\ g.st[s] = "PENDING"
      BY <1>10, <1>11, <1>12
    <3> QED BY <1>9, <1>12, <2>1, <3>1, <3>2
  <2>2. CASE f \notin B
    BY <1>11, <1>12, <2>2
  <2> QED BY <2>1, <2>2
<1> HIDE DEF idle
<1> QED BY <1>13, <1>14, <1>15, <1>16, <1>17 DEF Marks

(***************************************************************************)
(* Operators one after the other.                                          *)
(***************************************************************************)
\* e follows d, and there is nothing new to check.
Keeps(d, e) ==
  /\ Sound(e) /\ (e.ok => d.ok) /\ e.toCheck = d.toCheck
  /\ e.ok => \A f \in File : Kept(d, e, f)

\* The same, except that files of F may be new and unconfirmed.
Renews(d, e, F) ==
  /\ SoundFiles(e) /\ (e.ok => d.ok) /\ e.toCheck = d.toCheck
  /\ e.ok => \A f \in File : Kept(d, e, f) \/ (f \in F /\ e.row[f] = "UNCONFIRMED")

FollowsBut(d, e, F) == Sound(e) /\ Renews(d, e, F)

LEMMA KeepsSelf ==
  ASSUME NEW d, Sound(d)
  PROVE  Keeps(d, d)
BY DEF Keeps, Kept

LEMMA KeepsFollows ==
  ASSUME NEW d, NEW e, Keeps(d, e)
  PROVE  Follows(d, e) /\ \A F : FollowsBut(d, e, F)
BY DEF Keeps, Follows, FollowsBut, Renews, Sound

LEMMA KeepsTrans ==
  ASSUME NEW d, NEW e, NEW g, Keeps(d, e), Keeps(e, g)
  PROVE  Keeps(d, g)
BY DEF Keeps, Kept

LEMMA FollowsTrans ==
  ASSUME NEW d, NEW e, NEW g, Follows(d, e), Follows(e, g)
  PROVE  Follows(d, g)
<1>1. Sound(g) /\ (g.ok => d.ok) /\ d.toCheck \subseteq g.toCheck
  BY DEF Follows
<1>2. ASSUME g.ok, NEW f \in File \ g.toCheck PROVE Kept(d, g, f)
  <2>1. f \in File \ e.toCheck /\ e.ok
    BY <1>2 DEF Follows
  <2>2. Kept(d, e, f) /\ Kept(e, g, f)
    BY <1>2, <2>1 DEF Follows
  <2> QED BY <2>2 DEF Kept
<1> QED BY <1>1, <1>2 DEF Follows

\* The creators say which files are the plan's, and how the trees lie.
LEMMA SameCreators ==
  ASSUME NEW d, NEW e, e.cr = d.cr
  PROVE  (TreesClaimed(d) => TreesClaimed(e)) /\ \A f : OfPlan(e, f) => OfPlan(d, f)
BY DEF TreesClaimed, OfPlan

\* The columns that Sound does not mention may change.
LEMMA SameFiles ==
  ASSUME NEW d, NEW e \in DB, SoundFiles(d), SameGraph(d, e),
         e.row = d.row, e.hash = d.hash, e.st = d.st, e.ok => d.ok
  PROVE  SoundFiles(e) /\ \A f \in File : Kept(d, e, f)
<1>1. Recorded(e)
  BY DEF SoundFiles, Recorded, SameGraph
<1>2. ASSUME e.ok PROVE FilesClaimed(e)
  <2>1. FilesClaimed(d)
    BY <1>2 DEF SoundFiles
  <2> QED BY <2>1 DEF FilesClaimed, Claimed, SameGraph
<1>3. ASSUME NEW f \in File PROVE Kept(d, e, f)
  BY SameCreators DEF Kept, SameGraph
<1> QED BY <1>1, <1>2, <1>3 DEF SoundFiles

LEMMA SameKeeps ==
  ASSUME NEW d, NEW e \in DB, Sound(d), SameGraph(d, e),
         e.row = d.row, e.hash = d.hash, e.st = d.st, e.ok => d.ok
  PROVE  Sound(e) /\ (e.toCheck = d.toCheck => Keeps(d, e))
<1>1. SoundFiles(e) /\ \A f \in File : Kept(d, e, f)
  BY SameFiles DEF Sound
<1>2. e.ok /\ TreesOfPlan => TreesClaimed(e)
  BY SameCreators DEF Sound, SoundFiles, SameGraph
<1> QED BY <1>1, <1>2 DEF Keeps, Sound

LEMMA MarksKeep ==
  ASSUME NEW d, NEW e, NEW S, Sound(d), Marks(d, e, S)
  PROVE  Keeps(d, e)
<1>1. e \in DB /\ e.cr = d.cr /\ e.out = d.out /\ e.dynOut = d.dynOut /\ e.hash = d.hash
  BY DEF Marks, SameGraph
<1>2. e.ok = d.ok /\ e.toCheck = d.toCheck
  BY DEF Marks, SameMemory
<1>3. ASSUME NEW f \in File
      PROVE  \/ e.row[f] = d.row[f]
             \/ /\ d.row[f] = "BUILT" /\ e.row[f] = "OUTDATED"
                /\ \E s \in Step : f \in d.out[s] /\ e.st[s] = "PENDING"
  BY DEF Marks
<1>4. ASSUME NEW s \in Step PROVE e.st[s] = d.st[s] \/ e.st[s] = "PENDING"
  BY DEF Marks
<1>5. Recorded(e)
  <2>1. Recorded(d)
    BY DEF Sound, SoundFiles
  <2> QED BY <1>1, <1>3, <2>1 DEF Recorded
<1>6. ASSUME e.ok, NEW f \in File, e.cr[f] # None PROVE Claimed(e, f)
  <2>1. Claimed(d, f)
    BY <1>1, <1>2, <1>6 DEF Sound, SoundFiles, FilesClaimed
  <2>2. CASE e.row[f] = d.row[f]
    <3>1. e.row[f] \notin Static => (e.st[e.cr[f]] = "SUCCEEDED" => d.st[d.cr[f]] = "SUCCEEDED")
      BY <1>1, <1>4, <2>1, <2>2 DEF Claimed
    <3> QED BY <1>1, <2>1, <2>2, <3>1 DEF Claimed
  <2>3. CASE d.row[f] = "BUILT" /\ e.row[f] = "OUTDATED"
             /\ \E s \in Step : f \in d.out[s] /\ e.st[s] = "PENDING"
    <3>1. d.row[f] \notin Static /\ e.row[f] \notin Static \cup {"NONE", "UNDECLARED"}
      BY <2>3 DEF Static
    <3>2. d.cr[f] \in Step /\ \A s \in Step : f \in d.out[s] <=> s = d.cr[f]
      BY <2>1, <3>1 DEF Claimed
    <3>3. e.st[e.cr[f]] = "PENDING"
      BY <1>1, <2>3, <3>2
    <3> QED BY <1>1, <3>1, <3>2, <3>3 DEF Claimed
  <2> QED BY <1>3, <2>2, <2>3
<1>7. e.ok /\ TreesOfPlan => TreesClaimed(e)
  BY <1>1, <1>2, SameCreators DEF Sound, SoundFiles
<1>8. ASSUME NEW f \in File PROVE Kept(d, e, f)
  <2>1. e.row[f] \in Static => e.row[f] = d.row[f]
    BY <1>3 DEF Static
  <2> QED BY <1>1, <2>1, SameCreators DEF Kept
<1>9. Sound(e)
  BY <1>1, <1>5, <1>6, <1>7 DEF Sound, SoundFiles, FilesClaimed
<1> QED BY <1>2, <1>8, <1>9 DEF Keeps

\* Nodes lose their creator.
LEMMA DetachKeeps ==
  ASSUME NEW d, Sound(d), NEW N \in SUBSET Node, Plan \notin N
  PROVE  Keeps(d, Detach(d, N))
<1> DEFINE e == Detach(d, N)
<1>1. /\ e \in DB /\ e.cr = [n \in Node |-> IF n \in N THEN None ELSE d.cr[n]]
      /\ e.row = d.row /\ e.hash = d.hash /\ e.st = d.st /\ e.out = d.out /\ e.dynOut = d.dynOut
      /\ SameMemory(d, e)
  BY DetachType DEF Sound, SoundFiles
<1> HIDE DEF e
<1>2. \A n \in Node : e.cr[n] = d.cr[n] \/ e.cr[n] = None
  BY <1>1
<1>3. Recorded(e)
  <2>1. e.cr[Plan] = d.cr[Plan]
    BY <1>1, Kinds
  <2> QED BY <1>1, <2>1 DEF Sound, SoundFiles, Recorded
<1>4. e.ok = d.ok /\ e.toCheck = d.toCheck
  BY <1>1 DEF SameMemory
<1>5. ASSUME e.ok, NEW f \in File, e.cr[f] # None PROVE Claimed(e, f)
  <2>1. e.cr[f] = d.cr[f]
    BY <1>2, <1>5, Kinds
  <2>2. Claimed(d, f)
    BY <1>4, <1>5, <2>1 DEF Sound, SoundFiles, FilesClaimed
  <2> QED BY <1>1, <2>1, <2>2 DEF Claimed
<1>6. ASSUME e.ok, TreesOfPlan PROVE TreesClaimed(e)
  <2>1. TreesClaimed(d)
    BY <1>4, <1>6 DEF Sound, SoundFiles
  <2>3. ASSUME NEW t \in Tree
        PROVE  e.cr[t] \in {None, Plan} /\ (e.cr[t] = Plan => d.cr[t] = Plan)
    BY <1>2, <2>1, Kinds DEF TreesClaimed
  <2>4. ASSUME NEW t \in Tree, NEW f \in Under[t], e.cr[t] = Plan PROVE e.cr[f] \in {None, t}
    <3>1. f \in Node
      BY LayoutType, Kinds
    <3>2. d.cr[f] \in {None, t}
      BY <2>1, <2>3, <2>4 DEF TreesClaimed
    <3> QED BY <1>2, <3>1, <3>2
  <2> QED BY <2>1, <2>3, <2>4 DEF TreesClaimed
<1>7. ASSUME NEW f \in File PROVE Kept(d, e, f)
  <2>1. OfPlan(e, f) => OfPlan(d, f)
    BY <1>2, Kinds DEF OfPlan
  <2> QED BY <1>1, <2>1 DEF Kept
<1>8. Sound(e)
  BY <1>1, <1>3, <1>5, <1>6 DEF Sound, SoundFiles, FilesClaimed
<1> QED BY <1>4, <1>7, <1>8 DEF Keeps, e

(***************************************************************************)
(* What is attached.                                                       *)
(***************************************************************************)
\* The owners that are attached grow along chains of creators.
LEMMA AttachedOwners ==
  ASSUME NEW d \in DB
  PROVE  \E owners :
           /\ \A k \in 0 .. StepsCount :
                owners[k] = IF k = 0 THEN {n \in Owner : d.cr[n] = Root}
                            ELSE owners[k - 1] \cup {n \in Owner : d.cr[n] \in Node \cap owners[k - 1]}
           /\ Attached(d) = owners[StepsCount] \cup {f \in File : d.cr[f] \in Node \cap owners[StepsCount]}
<1> DEFINE n == StepsCount
           start == {m \in Owner : d.cr[m] = Root}
           more(R) == R \cup {m \in Owner : d.cr[m] \in Node \cap R}
           Body(g) == [k \in 0 .. n |-> IF k = 0 THEN start ELSE more(g[k - 1])]
           owners == CHOOSE g : g = Body(g)
<1>1. Attached(d) = owners[n] \cup {f \in File : d.cr[f] \in Node \cap owners[n]}
  BY DEF Attached, Reached, StepsCount
<1>2. n \in Nat
  BY StepsCountType
<1> HIDE DEF n
<1>3. \A R \in SUBSET Owner : more(R) \in SUBSET Owner
  OBVIOUS
<1>4. \E g : g = Body(g)
  <2> DEFINE G == [R \in SUBSET Owner |-> more(R)]
  <2>1. G \in [SUBSET Owner -> SUBSET Owner] /\ \A R \in SUBSET Owner : G[R] = more(R)
    BY <1>3
  <2>2. start \in SUBSET Owner
    OBVIOUS
  <2> HIDE DEF G, more, start
  <2>3. PICK g \in [0 .. n -> SUBSET Owner] : Iterates(g, start, G, n)
    BY <1>2, <2>1, <2>2, IterationsExist
  <2>4. ASSUME NEW k \in 0 .. n, k # 0 PROVE G[g[k - 1]] = more(g[k - 1])
    <3>1. k - 1 \in 0 .. n
      BY <1>2, <2>4
    <3> QED BY <2>1, <2>3, <3>1
  <2>5. g = Body(g)
    BY <2>3, <2>4 DEF Iterates
  <2> QED BY <2>5
<1>5. owners = Body(owners)
  BY <1>4
<1> HIDE DEF owners
<1>6. ASSUME NEW k \in 0 .. n
      PROVE  owners[k] = IF k = 0 THEN start ELSE more(owners[k - 1])
  <2> HIDE DEF more, start
  <2> QED BY <1>5
<1> QED BY <1>1, <1>6 DEF n

LEMMA AttachedFacts ==
  ASSUME NEW d \in DB
  PROVE  /\ Attached(d) \subseteq Node
         /\ \A f \in File \cap Attached(d) : d.cr[f] \in Owner \cap Attached(d)
         /\ \A n \in Owner \cap Attached(d) : d.cr[n] # None
         /\ \A f \in File : d.cr[f] \in Owner \cap Attached(d) => f \in Attached(d)
         /\ d.cr[Plan] = Root =>
              Plan \in Attached(d) /\ \A n \in Owner : d.cr[n] = Plan => n \in Attached(d)
<1>1. PICK owners :
        /\ \A k \in 0 .. StepsCount :
             owners[k] = IF k = 0 THEN {n \in Owner : d.cr[n] = Root}
                         ELSE owners[k - 1] \cup {n \in Owner : d.cr[n] \in Node \cap owners[k - 1]}
        /\ Attached(d) = owners[StepsCount] \cup {f \in File : d.cr[f] \in Node \cap owners[StepsCount]}
  BY AttachedOwners
<1> DEFINE last == owners[StepsCount]
           sure == {n \in Owner : d.cr[n] # None}
           more(R) == R \cup {n \in Owner : d.cr[n] \in Node \cap R}
<1>0. ASSUME NEW k \in 0 .. StepsCount, NEW j \in 0 .. StepsCount, k = j + 1
      PROVE  owners[k] = more(owners[j])
  <2>1. k # 0 /\ k - 1 = j
    BY <1>0, StepsCountType
  <2>2. owners[k] = more(owners[k - 1])
    BY <1>1, <2>1
  <2> HIDE DEF more
  <2> QED BY <2>1, <2>2
<1>2. StepsCount \in Nat /\ StepsCount # 0
  <2>1. Step # {}
    BY Kinds
  <2> QED BY <2>1, StepsCountType, FiniteKinds, FS_EmptySet DEF StepsCount
<1>3. \A k \in 0 .. StepsCount : owners[k] \subseteq sure
  <2> DEFINE T == {k \in Nat : k \in 0 .. StepsCount => owners[k] \subseteq sure}
  <2>1. 0 \in T
    BY <1>1, Kinds
  <2>2. ASSUME NEW k \in T PROVE k + 1 \in T
    <3> SUFFICES ASSUME k + 1 \in 0 .. StepsCount PROVE owners[k + 1] \subseteq sure
      OBVIOUS
    <3>1. k \in 0 .. StepsCount /\ k + 1 # 0 /\ (k + 1) - 1 = k
      BY <1>2
    <3>2. owners[k] \subseteq sure
      BY <3>1
    <3>3. owners[k + 1] = more(owners[k])
      BY <1>0, <3>1
    <3> QED BY <3>2, <3>3, Kinds
  <2> HIDE DEF T
  <2>3. T = Nat
    <3>1. T \in SUBSET Nat
      BY DEF T
    <3> QED BY <2>1, <2>2, <3>1, Induct
  <2> QED BY <1>2, <2>3 DEF T
<1>4. last \subseteq sure
  BY <1>2, <1>3
<1>5. Attached(d) = last \cup {f \in File : d.cr[f] \in Node \cap last}
  BY <1>1
<1>6. ASSUME d.cr[Plan] = Root
      PROVE  Plan \in last /\ \A n \in Owner : d.cr[n] = Plan => n \in last
  <2> DEFINE T == {k \in Nat : k + 1 \in 0 .. StepsCount =>
                     Plan \in owners[k + 1] /\ \A n \in Owner : d.cr[n] = Plan => n \in owners[k + 1]}
  <2>1. 0 \in T
    <3>1. 0 \in 0 .. StepsCount /\ 1 \in 0 .. StepsCount
      BY <1>2
    <3>2. Plan \in owners[0]
      BY <1>1, <1>6, <3>1, Kinds
    <3>3. owners[1] = more(owners[0])
      BY <1>0, <3>1
    <3> QED BY <3>2, <3>3, Kinds
  <2>2. ASSUME NEW k \in T PROVE k + 1 \in T
    <3> SUFFICES ASSUME k + 2 \in 0 .. StepsCount
                 PROVE  Plan \in owners[k + 2] /\ \A n \in Owner : d.cr[n] = Plan => n \in owners[k + 2]
      OBVIOUS
    <3>1. k + 1 \in 0 .. StepsCount /\ k + 2 # 0 /\ (k + 2) - 1 = k + 1
      BY <1>2
    <3>2. Plan \in owners[k + 1] /\ \A n \in Owner : d.cr[n] = Plan => n \in owners[k + 1]
      BY <3>1
    <3>3. owners[k + 2] = more(owners[k + 1])
      BY <1>0, <3>1
    <3> QED BY <3>2, <3>3
  <2> HIDE DEF T
  <2>3. T = Nat
    <3>1. T \in SUBSET Nat
      BY DEF T
    <3> QED BY <2>1, <2>2, <3>1, Induct
  <2>4. StepsCount - 1 \in T /\ (StepsCount - 1) + 1 = StepsCount /\ StepsCount \in 0 .. StepsCount
    BY <1>2, <2>3
  <2> QED BY <2>4 DEF T
<1> HIDE DEF last
<1>7. last \subseteq Owner
  BY <1>4
<1> QED BY <1>4, <1>5, <1>6, <1>7, Kinds DEF Node

(***************************************************************************)
(* Steps change their states, and outputs theirs.                          *)
(***************************************************************************)
LEMMA MarkPendingKeeps ==
  ASSUME NEW d, Sound(d), NEW S \in SUBSET Step
  PROVE  Marks(d, MarkPending(d, S), S) /\ Keeps(d, MarkPending(d, S))
BY MarkPendingMarks, MarksKeep DEF Sound, SoundFiles

\* Outputs of steps that do not succeed may take any state of an output.
LEMMA OutputsKeep ==
  ASSUME NEW d, NEW e \in DB, Sound(d), SameGraph(d, e),
         e.ok => d.ok, e.toCheck = d.toCheck,
         \A f \in File : \/ e.row[f] = d.row[f] /\ e.hash[f] = d.hash[f]
                         \/ d.row[f] \in Output /\ e.row[f] \in Output,
         e.ok => \A f \in File : d.cr[f] \in Step /\ Claimed(d, f) /\ e.st[d.cr[f]] = "SUCCEEDED"
                                   /\ e.row[f] \in Output => e.row[f] = "BUILT"
  PROVE  Keeps(d, e)
<1>1. e.cr = d.cr /\ e.out = d.out /\ e.dynOut = d.dynOut
  BY DEF SameGraph
<1>2. Output \cap Static = {} /\ Output \cap {"NONE", "UNDECLARED", "VOLATILE"} = {}
  BY DEF Output, Static
<1>3. Recorded(e)
  <2>1. Recorded(d)
    BY DEF Sound, SoundFiles
  <2>2. "CONFIRMED" \notin Output /\ "MISSING" \notin Output
    BY DEF Output
  <2> QED BY <1>1, <2>1, <2>2 DEF Recorded
<1>4. ASSUME e.ok, NEW f \in File, e.cr[f] # None PROVE Claimed(e, f)
  <2>1. Claimed(d, f) /\ d.row[f] \in RowState /\ e.row[f] \in RowState
    BY <1>1, <1>4 DEF Sound, SoundFiles, FilesClaimed, DB
  <2>2. e.row[f] \notin {"NONE", "UNDECLARED"}
    BY <1>2, <2>1 DEF Claimed
  <2>3. e.row[f] \in Static => \A s \in Step : f \notin e.out[s]
    BY <1>1, <1>2, <2>1 DEF Claimed
  <2>4. ASSUME e.row[f] \notin Static
        PROVE  e.cr[f] \in Step /\ \A s \in Step : f \in e.out[s] <=> s = e.cr[f]
    BY <1>1, <1>2, <2>1, <2>4 DEF Claimed
  <2>5. ASSUME e.row[f] \notin Static, e.st[e.cr[f]] = "SUCCEEDED"
        PROVE  e.row[f] \in {"BUILT", "VOLATILE"}
    <3>1. e.row[f] \in Output \cup {"VOLATILE"}
      BY <2>1, <2>2, <2>5 DEF RowState
    <3> QED BY <1>1, <1>4, <2>1, <2>4, <2>5, <3>1
  <2> QED BY <2>2, <2>3, <2>4, <2>5 DEF Claimed
<1>5. e.ok /\ TreesOfPlan => TreesClaimed(e)
  BY <1>1, SameCreators DEF Sound, SoundFiles
<1>6. ASSUME NEW f \in File PROVE Kept(d, e, f)
  BY <1>1, <1>2, SameCreators DEF Kept
<1> QED BY <1>3, <1>4, <1>5, <1>6 DEF Keeps, Sound, SoundFiles, FilesClaimed

LEMMA SetStepsKeeps ==
  ASSUME NEW d, Sound(d), NEW S \in SUBSET Step, NEW state \in StepState \ {"SUCCEEDED"}
  PROVE  Keeps(d, SetSteps(d, S, state))
<1> DEFINE e == SetSteps(d, S, state)
<1>1. /\ e \in DB /\ e.st = [s \in Step |-> IF s \in S THEN state ELSE d.st[s]]
      /\ e.row = d.row /\ e.hash = d.hash /\ SameGraph(d, e) /\ SameMemory(d, e)
  BY SetStepsType DEF Sound, SoundFiles
<1> HIDE DEF e
<1>2. ASSUME NEW f \in File, d.cr[f] \in Step, Claimed(d, f), e.st[d.cr[f]] = "SUCCEEDED",
             e.row[f] \in Output
      PROVE  e.row[f] = "BUILT"
  <2>1. d.st[d.cr[f]] = "SUCCEEDED" /\ d.row[f] \notin Static \cup {"VOLATILE"}
    BY <1>1, <1>2 DEF Output, Static
  <2> QED BY <1>1, <1>2, <2>1 DEF Claimed
<1>3. e.ok = d.ok /\ e.toCheck = d.toCheck
  BY <1>1 DEF SameMemory
<1>4. Keeps(d, e)
  BY <1>1, <1>2, <1>3, OutputsKeep
<1> QED BY <1>4 DEF e

(***************************************************************************)
(* CreateFile.                                                             *)
(***************************************************************************)
\* e is d after CreateFile of f by c.
Created(d, e, f, c, state) ==
  /\ e \in DB /\ e.reg = d.reg /\ e.toCheck = d.toCheck /\ (e.ok => d.ok)
  /\ e.cr = [d.cr EXCEPT ![f] = c]
  /\ \A s \in Step : e.out[s] = d.out[s] \ {f} /\ e.dynOut[s] = d.dynOut[s] \ {f}
  /\ e.row[f] = state \/ (state \in {"UNDECLARED", "PLANNED"} /\ e.row[f] = "OUTDATED")
  /\ \A h \in File \ {f} :
       /\ e.hash[h] = d.hash[h]
       /\ \/ e.row[h] = d.row[h]
          \/ /\ d.row[h] = "BUILT" /\ e.row[h] = "OUTDATED"
             /\ \E s \in Step : h \in d.out[s] /\ e.st[s] = "PENDING"
  /\ \A s \in Step : e.st[s] = d.st[s] \/ (e.st[s] = "PENDING" /\ d.st[s] \notin {"NONE", "RUNNING"})

FirstState == {"UNCONFIRMED", "UNDECLARED", "PLANNED", "VOLATILE"}

LEMMA CreateFileCreates ==
  ASSUME NEW d \in DB, NEW f \in File, NEW c \in Owner \cup {None}, NEW state \in FirstState
  PROVE  Created(d, CreateFile(d, f, c, state), f, c, state)
<1> DEFINE old == d.row[f]
           kept == state \in {"UNDECLARED", "PLANNED"} /\ old \in {"BUILT", "OUTDATED"}
           new == IF kept THEN "OUTDATED" ELSE state
           clears == \/ new \in {"MISSING", "PLANNED", "VOLATILE"}
                     \/ new = "UNCONFIRMED" /\ old \in {"BUILT", "OUTDATED"}
           good == Unclaimed(d, {f})
           b == Take(Check(d, good), f, c)
           e == [b EXCEPT
                  !.out = [s \in Step |-> @[s] \ {f}], !.dynOut = [s \in Step |-> @[s] \ {f}],
                  !.row[f] = new, !.hash[f] = IF clears THEN None ELSE @]
           g == CreateFile(d, f, c, state)
<1>1. g = IF kept /\ old = "BUILT" THEN MarkPending(e, Consumers(e, {f})) ELSE e
  BY DEF CreateFile
<1>2. new \in RowState /\ (new = state \/ (state \in {"UNDECLARED", "PLANNED"} /\ new = "OUTDATED"))
  BY DEF FirstState, RowState, Static, Output
<1> HIDE DEF new, kept, clears
<1>3. /\ b \in DB /\ b.cr = [d.cr EXCEPT ![f] = c] /\ b.row = d.row /\ b.hash = d.hash
      /\ b.st = d.st /\ b.out = d.out /\ b.dynOut = d.dynOut
      /\ b.reg = d.reg /\ b.toCheck = d.toCheck /\ b.ok = (d.ok /\ good)
  <2>0. good \in BOOLEAN
    BY DEF Unclaimed
  <2> HIDE DEF good
  <2> DEFINE a == Check(d, good)
  <2>1. /\ a \in DB /\ a.ok = (d.ok /\ good) /\ a.row = d.row /\ a.hash = d.hash /\ a.st = d.st
        /\ a.cr = d.cr /\ a.out = d.out /\ a.dynOut = d.dynOut /\ a.reg = d.reg /\ a.toCheck = d.toCheck
    BY <2>0, CheckType DEF SameGraph, SameInputs
  <2>2. f \in Node /\ c \in Node \cup {None}
    BY DEF Node
  <2>3. b = Take(a, f, c)
    OBVIOUS
  <2> HIDE DEF a
  <2> DEFINE x == Take(a, f, c)
  <2>4. /\ x \in DB /\ x.cr = [a.cr EXCEPT ![f] = c] /\ x.row = a.row /\ x.hash = a.hash
        /\ x.st = a.st /\ x.out = a.out /\ x.dynOut = a.dynOut
        /\ SameInputs(a, x) /\ x.toCheck = a.toCheck /\ x.ok = a.ok
    BY <2>1, <2>2, TakeType
  <2>5. b = x
    BY <2>3
  <2> HIDE DEF b, x
  <2>6. b \in DB /\ b.cr = [d.cr EXCEPT ![f] = c]
    BY <2>1, <2>4, <2>5
  <2>7. b.row = d.row /\ b.hash = d.hash /\ b.st = d.st
    BY <2>1, <2>4, <2>5
  <2>8. b.out = d.out /\ b.dynOut = d.dynOut
    BY <2>1, <2>4, <2>5
  <2>9. b.toCheck = d.toCheck /\ b.ok = (d.ok /\ good)
    BY <2>1, <2>4, <2>5
  <2>10. b.reg = d.reg
    BY <2>1, <2>4, <2>5 DEF SameInputs
  <2> QED BY <2>6, <2>7, <2>8, <2>9, <2>10
<1> HIDE DEF b, good
<1>4. /\ e \in DB /\ e.cr = b.cr /\ e.st = b.st /\ e.reg = b.reg /\ e.toCheck = b.toCheck /\ e.ok = b.ok
      /\ e.out = [s \in Step |-> b.out[s] \ {f}] /\ e.dynOut = [s \in Step |-> b.dynOut[s] \ {f}]
      /\ e.row = [b.row EXCEPT ![f] = new]
      /\ e.hash = [b.hash EXCEPT ![f] = IF clears THEN None ELSE @]
  <2>1. None \in Content
    BY DEF Content
  <2> QED BY <1>2, <1>3, <2>1 DEF DB
<1> HIDE DEF e, g
<1>5. Created(d, e, f, c, state)
  <2>1. \A h \in File \ {f} : e.hash[h] = d.hash[h] /\ e.row[h] = d.row[h]
    BY <1>3, <1>4 DEF DB
  <2>2. e.row[f] = new
    BY <1>3, <1>4 DEF DB
  <2>3. \A s \in Step : e.out[s] = d.out[s] \ {f} /\ e.dynOut[s] = d.dynOut[s] \ {f} /\ e.st[s] = d.st[s]
    BY <1>3, <1>4
  <2> QED BY <1>2, <1>3, <1>4, <2>1, <2>2, <2>3 DEF Created
<1>6. ASSUME NEW S \in SUBSET Step, kept, old = "BUILT", Marks(e, g, S)
      PROVE  Created(d, g, f, c, state)
  <2>1. /\ g \in DB /\ g.hash = e.hash /\ g.cr = e.cr /\ g.out = e.out /\ g.dynOut = e.dynOut
        /\ g.reg = e.reg /\ g.toCheck = e.toCheck /\ g.ok = e.ok
    BY <1>6 DEF Marks, SameGraph, SameInputs, SameMemory
  <2>2. \A s \in Step : g.st[s] = d.st[s] \/ (g.st[s] = "PENDING" /\ d.st[s] \notin {"NONE", "RUNNING"})
    BY <1>3, <1>4, <1>6 DEF Marks
  <2>3. ASSUME NEW h \in File
        PROVE  \/ g.row[h] = e.row[h]
               \/ /\ e.row[h] = "BUILT" /\ g.row[h] = "OUTDATED"
                  /\ \E s \in Step : h \in e.out[s] /\ g.st[s] = "PENDING"
    BY <1>6 DEF Marks
  <2>4. g.row[f] = e.row[f]
    <3>1. e.row[f] # "BUILT"
      BY <1>5 DEF Created, FirstState
    <3> QED BY <2>3, <3>1
  <2>5. ASSUME NEW h \in File \ {f}
        PROVE  /\ g.hash[h] = d.hash[h]
               /\ \/ g.row[h] = d.row[h]
                  \/ /\ d.row[h] = "BUILT" /\ g.row[h] = "OUTDATED"
                     /\ \E s \in Step : h \in d.out[s] /\ g.st[s] = "PENDING"
    <3>1. e.hash[h] = d.hash[h] /\ e.row[h] = d.row[h]
      BY <1>3, <1>4 DEF DB
    <3>2. \A s \in Step : h \in e.out[s] => h \in d.out[s]
      BY <1>3, <1>4
    <3> QED BY <2>1, <2>3, <3>1, <3>2
  <2> QED BY <1>5, <2>1, <2>2, <2>4, <2>5 DEF Created
<1>7. Consumers(e, {f}) \in SUBSET Step
  BY DEF Consumers
<1>8. ASSUME kept /\ old = "BUILT" PROVE Created(d, g, f, c, state)
  <2>1. Marks(e, g, Consumers(e, {f}))
    BY <1>1, <1>4, <1>7, <1>8, MarkPendingMarks
  <2> QED BY <1>6, <1>7, <1>8, <2>1
<1>9. ASSUME ~(kept /\ old = "BUILT") PROVE Created(d, g, f, c, state)
  BY <1>1, <1>5, <1>9
<1> QED BY <1>8, <1>9 DEF g

LEMMA RenewsTrans ==
  ASSUME NEW d, NEW e, NEW g, NEW F, NEW G, Renews(d, e, F), Renews(e, g, G)
  PROVE  Renews(d, g, F \cup G)
<1>1. SoundFiles(g) /\ (g.ok => d.ok) /\ g.toCheck = d.toCheck
  BY DEF Renews
<1>2. ASSUME g.ok, NEW f \in File
      PROVE  Kept(d, g, f) \/ (f \in F \cup G /\ g.row[f] = "UNCONFIRMED")
  <2>1. e.ok
    BY <1>2 DEF Renews
  <2>2. Kept(d, e, f) \/ (f \in F /\ e.row[f] = "UNCONFIRMED")
    BY <2>1 DEF Renews
  <2>3. Kept(e, g, f) \/ (f \in G /\ g.row[f] = "UNCONFIRMED")
    BY <1>2 DEF Renews
  <2> QED BY <2>2, <2>3 DEF Kept
<1> QED BY <1>1, <1>2 DEF Renews

LEMMA FollowsButTrans ==
  ASSUME NEW d, NEW e, NEW g, NEW F, NEW G, FollowsBut(d, e, F), FollowsBut(e, g, G)
  PROVE  FollowsBut(d, g, F \cup G)
BY RenewsTrans DEF FollowsBut

WithChecks(e, X) == [e EXCEPT !.toCheck = @ \cup X]

\* Once the unconfirmed files are checked, nothing is left.
LEMMA CheckedRenews ==
  ASSUME NEW d, NEW e, NEW F, Renews(d, e, F), NEW X \in SUBSET File,
         e.ok => \A f \in F : OfPlan(e, f) /\ e.row[f] = "UNCONFIRMED" => f \in X
  PROVE  LET g == WithChecks(e, X)
         IN /\ SoundFiles(g) /\ (g.ok => d.ok) /\ d.toCheck \subseteq g.toCheck
            /\ g.ok => \A f \in File \ g.toCheck : Kept(d, g, f)
            /\ g.cr = e.cr /\ g.st = e.st /\ (g.ok => e.ok)
<1> DEFINE g == WithChecks(e, X)
<1>1. e \in DB /\ SoundFiles(e)
  BY DEF Renews, SoundFiles
<1>2. /\ g \in DB /\ SameGraph(e, g) /\ g.row = e.row /\ g.hash = e.hash /\ g.st = e.st
      /\ g.ok = e.ok /\ g.toCheck = e.toCheck \cup X
  BY <1>1 DEF DB, SameGraph, WithChecks
<1> HIDE DEF g
<1>3. SoundFiles(g)
  BY <1>1, <1>2, SameFiles
<1>4. ASSUME g.ok, NEW f \in File \ g.toCheck PROVE Kept(d, g, f)
  <2>1. OfPlan(g, f) => OfPlan(e, f)
    BY <1>2, SameCreators DEF SameGraph
  <2>2. Kept(d, e, f) \/ (f \in F /\ e.row[f] = "UNCONFIRMED")
    BY <1>2, <1>4 DEF Renews
  <2>3. CASE Kept(d, e, f)
    BY <1>2, <2>1, <2>3 DEF Kept
  <2>4. CASE f \in F /\ e.row[f] = "UNCONFIRMED"
    <3>1. ~OfPlan(e, f)
      BY <1>2, <1>4, <2>4
    <3> QED BY <2>1, <3>1 DEF Kept
  <2> QED BY <2>2, <2>3, <2>4
<1>5. (g.ok => d.ok) /\ d.toCheck \subseteq g.toCheck
  BY <1>2 DEF Renews
<1> QED BY <1>2, <1>3, <1>4, <1>5 DEF g, SameGraph

LEMMA CheckedFollows ==
  ASSUME NEW d, NEW e, NEW F, FollowsBut(d, e, F), NEW X \in SUBSET File,
         e.ok => \A f \in F : OfPlan(e, f) /\ e.row[f] = "UNCONFIRMED" => f \in X
  PROVE  Follows(d, WithChecks(e, X))
<1> DEFINE g == WithChecks(e, X)
<1>1. /\ SoundFiles(g) /\ (g.ok => d.ok) /\ d.toCheck \subseteq g.toCheck
      /\ g.ok => \A f \in File \ g.toCheck : Kept(d, g, f)
      /\ g.cr = e.cr /\ (g.ok => e.ok)
  BY CheckedRenews DEF FollowsBut
<1> HIDE DEF g
<1>2. g.ok /\ TreesOfPlan => TreesClaimed(g)
  BY <1>1, SameCreators DEF FollowsBut, Sound
<1> QED BY <1>1, <1>2 DEF Follows, Sound, g

\* g is e with the edge from c to f, when f is an output in that state.
WithEdge(e, g, f, c, state) ==
  /\ g \in DB /\ g.cr = e.cr /\ g.row = e.row /\ g.hash = e.hash /\ g.st = e.st
  /\ g.dynOut = e.dynOut /\ g.toCheck = e.toCheck /\ (g.ok => e.ok)
  /\ \A s \in Step : g.out[s] = IF s = c /\ state \in {"PLANNED", "VOLATILE"}
                                THEN e.out[s] \cup {f} ELSE e.out[s]

\* A file that is created, with the edge that an output gets.
LEMMA CreatedRenews ==
  ASSUME NEW d, SoundFiles(d), NEW f \in File, NEW c \in Owner \cup {None}, NEW state \in FirstState,
         NEW e, Created(d, e, f, c, state), NEW g,
         WithEdge(e, g, f, c, state),
         state = "UNDECLARED" => c = None,
         state \in {"PLANNED", "VOLATILE"} => c \in Step /\ d.st[c] # "SUCCEEDED"
  PROVE  Renews(d, g, {f})
<1>0. /\ g \in DB /\ g.cr = e.cr /\ g.row = e.row /\ g.hash = e.hash /\ g.st = e.st
      /\ g.dynOut = e.dynOut /\ g.toCheck = e.toCheck /\ (g.ok => e.ok)
      /\ \A s \in Step : g.out[s] = IF s = c /\ state \in {"PLANNED", "VOLATILE"}
                                    THEN e.out[s] \cup {f} ELSE e.out[s]
  BY DEF WithEdge
<1>1. d \in DB /\ f \in Node
  BY Kinds DEF Sound, SoundFiles
<1>2. /\ g.cr[f] = c /\ \A n \in Node \ {f} : g.cr[n] = d.cr[n]
  BY <1>0, <1>1 DEF Created, DB
<1>3. \A s \in Step : /\ g.dynOut[s] = d.dynOut[s] \ {f} /\ e.out[s] = d.out[s] \ {f}
                      /\ \A h \in File \ {f} : h \in g.out[s] <=> h \in d.out[s]
  <2>1. \A s \in Step : g.dynOut[s] = d.dynOut[s] \ {f} /\ e.out[s] = d.out[s] \ {f}
    BY <1>0 DEF Created
  <2> QED BY <1>0, <2>1
<1>4. g.row[f] = state \/ (state \in {"UNDECLARED", "PLANNED"} /\ g.row[f] = "OUTDATED")
  BY <1>0 DEF Created
<1>5. ASSUME NEW h \in File \ {f}
      PROVE  /\ g.hash[h] = d.hash[h]
             /\ \/ g.row[h] = d.row[h]
                \/ /\ d.row[h] = "BUILT" /\ g.row[h] = "OUTDATED"
                   /\ \E s \in Step : h \in d.out[s] /\ g.st[s] = "PENDING"
  BY <1>0 DEF Created
<1>6. \A s \in Step : g.st[s] = d.st[s] \/ g.st[s] = "PENDING"
  BY <1>0 DEF Created
<1>7. (g.ok => d.ok) /\ g.toCheck = d.toCheck
  BY <1>0 DEF Created
<1>8. Recorded(g)
  <2>1. Recorded(d)
    BY DEF Sound, SoundFiles
  <2>2. ASSUME NEW s \in Step PROVE g.dynOut[s] \subseteq g.out[s]
    <3>1. d.dynOut[s] \subseteq d.out[s]
      BY <2>1 DEF Recorded
    <3>2. e.out[s] \subseteq g.out[s]
      BY <1>0
    <3> QED BY <1>3, <3>1, <3>2
  <2>3. ASSUME NEW h \in File
        PROVE  (g.row[h] = "CONFIRMED" => g.hash[h] # None) /\ (g.row[h] = "MISSING" => g.hash[h] = None)
    <3>1. CASE h = f
      BY <1>4, <3>1 DEF FirstState
    <3>2. CASE h # f
      BY <1>5, <2>1, <3>2 DEF Recorded
    <3> QED BY <3>1, <3>2
  <2>4. g.cr[Plan] = d.cr[Plan]
    BY <1>2, Kinds
  <2> QED BY <2>1, <2>2, <2>3, <2>4 DEF Recorded
<1>9. ASSUME g.ok, NEW h \in File, g.cr[h] # None PROVE Claimed(g, h)
  <2>1. CASE h = f
    <3>1. c # None /\ state # "UNDECLARED"
      BY <1>2, <1>9, <2>1
    <3>2. CASE state = "UNCONFIRMED"
      <4>1. g.row[f] = "UNCONFIRMED" /\ "UNCONFIRMED" \in Static
        BY <1>4, <3>2 DEF Static
      <4>2. \A s \in Step : f \notin g.out[s]
        BY <1>0, <1>3, <3>2
      <4> QED BY <2>1, <4>1, <4>2 DEF Claimed
    <3>3. CASE state \in {"PLANNED", "VOLATILE"}
      <4>1. g.row[f] \in {"PLANNED", "VOLATILE", "OUTDATED"} /\ (state = "VOLATILE" => g.row[f] = "VOLATILE")
        BY <1>4, <3>3
      <4>2. g.row[f] \notin Static /\ g.row[f] \notin {"NONE", "UNDECLARED"}
        BY <4>1 DEF Static
      <4>3. c \in Step /\ \A s \in Step : f \in g.out[s] <=> s = c
        BY <1>0, <1>3, <3>3
      <4>4. g.st[c] # "SUCCEEDED"
        BY <1>6, <3>3, <4>3
      <4> QED BY <1>2, <2>1, <4>2, <4>3, <4>4 DEF Claimed
    <3> QED BY <3>1, <3>2, <3>3 DEF FirstState
  <2>2. CASE h # f
    <3>1. g.cr[h] = d.cr[h]
      BY <1>2, <2>2, Kinds
    <3>2. Claimed(d, h)
      BY <1>7, <1>9, <3>1 DEF Sound, SoundFiles, FilesClaimed
    <3>3. \A s \in Step : h \in g.out[s] <=> h \in d.out[s]
      BY <1>3, <2>2
    <3>4. CASE g.row[h] = d.row[h]
      <4>1. d.cr[h] \in Step /\ g.st[d.cr[h]] = "SUCCEEDED" => d.st[d.cr[h]] = "SUCCEEDED"
        BY <1>6
      <4> QED BY <3>1, <3>2, <3>3, <3>4, <4>1 DEF Claimed
    <3>5. CASE d.row[h] = "BUILT" /\ g.row[h] = "OUTDATED"
               /\ \E s \in Step : h \in d.out[s] /\ g.st[s] = "PENDING"
      <4>1. d.row[h] \notin Static /\ g.row[h] \notin Static \cup {"NONE", "UNDECLARED"}
        BY <3>5 DEF Static
      <4>2. d.cr[h] \in Step /\ \A s \in Step : h \in d.out[s] <=> s = d.cr[h]
        BY <3>2, <4>1 DEF Claimed
      <4>3. g.st[g.cr[h]] = "PENDING"
        BY <3>1, <3>5, <4>2
      <4> QED BY <3>1, <3>3, <4>1, <4>2, <4>3 DEF Claimed
    <3> QED BY <1>5, <2>2, <3>4, <3>5
  <2> QED BY <2>1, <2>2
<1>10. ASSUME NEW h \in File
       PROVE  Kept(d, g, h) \/ (h \in {f} /\ g.row[h] = "UNCONFIRMED")
  <2>1. CASE h = f
    <3>1. g.row[f] = "UNCONFIRMED" \/ g.row[f] \notin Static
      BY <1>4 DEF FirstState, Static
    <3> QED BY <2>1, <3>1 DEF Kept
  <2>2. CASE h # f
    <3>1. g.cr[h] = d.cr[h] /\ \A t \in Tree : g.cr[t] = d.cr[t]
      BY <1>2, <2>2, Kinds
    <3>2. OfPlan(g, h) => OfPlan(d, h)
      BY <3>1 DEF OfPlan
    <3>3. g.row[h] \in Static => g.row[h] = d.row[h] /\ g.hash[h] = d.hash[h]
      BY <1>5, <2>2 DEF Static
    <3> QED BY <3>2, <3>3 DEF Kept
  <2> QED BY <2>1, <2>2
<1> QED BY <1>0, <1>7, <1>8, <1>9, <1>10 DEF Renews, SoundFiles, FilesClaimed

\* Trees keep their creators, and the new one must be the tree that f is in.
LEMMA CreatedTrees ==
  ASSUME NEW d \in DB, TreesClaimed(d), NEW f \in File, NEW c \in Owner \cup {None}, NEW e,
         e.cr = [d.cr EXCEPT ![f] = c],
         \A t \in Tree : f \in Under[t] /\ d.cr[t] = Plan => c \in {None, t}
  PROVE  TreesClaimed(e)
<1>1. e.cr[f] = c /\ \A n \in Node \ {f} : e.cr[n] = d.cr[n]
  BY Kinds DEF DB
<1>2. \A t \in Tree : e.cr[t] = d.cr[t]
  BY <1>1, Kinds
<1>3. ASSUME NEW t \in Tree, NEW h \in Under[t], e.cr[t] = Plan PROVE e.cr[h] \in {None, t}
  <2>1. h \in File /\ d.cr[t] = Plan
    BY <1>2, <1>3, LayoutType
  <2>2. CASE h = f
    BY <1>1, <2>1, <2>2
  <2>3. CASE h # f
    BY <1>1, <2>1, <2>3, Kinds DEF TreesClaimed
  <2> QED BY <2>2, <2>3
<1> QED BY <1>2, <1>3 DEF TreesClaimed

LEMMA CreatedFollows ==
  ASSUME NEW d, Sound(d), NEW f \in File, NEW c \in Owner \cup {None}, NEW state,
         NEW e, Created(d, e, f, c, state), NEW g, g.cr = e.cr, Renews(d, g, {f}),
         d.ok /\ g.ok /\ TreesOfPlan => \A t \in Tree : f \in Under[t] /\ d.cr[t] = Plan => c \in {None, t}
  PROVE  FollowsBut(d, g, {f})
<1>1. ASSUME g.ok, TreesOfPlan PROVE TreesClaimed(g)
  <2>1. d.ok
    BY <1>1 DEF Renews
  <2>2. d \in DB /\ TreesClaimed(d) /\ g.cr = [d.cr EXCEPT ![f] = c]
    BY <1>1, <2>1 DEF Sound, SoundFiles, Created
  <2>3. \A t \in Tree : f \in Under[t] /\ d.cr[t] = Plan => c \in {None, t}
    BY <1>1, <2>1
  <2> QED BY <2>2, <2>3, CreatedTrees
<1> QED BY <1>1 DEF FollowsBut, Sound, Renews

LEMMA UnconfirmedRenews ==
  ASSUME NEW d, SoundFiles(d), NEW f \in File, NEW c \in Owner,
         NEW e, Created(d, e, f, c, "UNCONFIRMED"), NEW good \in BOOLEAN
  PROVE  /\ Renews(d, Check(e, good), {f}) /\ Check(e, good).cr = e.cr
         /\ Check(e, good).ok => good
<1> DEFINE g == Check(e, good)
           state == "UNCONFIRMED"
<1>1. e \in DB /\ (e.ok => d.ok)
  BY DEF Created
<1>2. /\ g \in DB /\ g.row = e.row /\ g.hash = e.hash /\ g.st = e.st /\ g.cr = e.cr
      /\ g.out = e.out /\ g.dynOut = e.dynOut /\ g.toCheck = e.toCheck
      /\ (g.ok => e.ok) /\ (g.ok => good)
  BY <1>1, CheckType DEF SameGraph
<1> HIDE DEF g
<1>3. c \in Owner \cup {None} /\ state \in FirstState /\ state # "UNDECLARED"
      /\ state \notin {"PLANNED", "VOLATILE"}
  BY DEF FirstState
<1>4. Created(d, e, f, c, state)
  OBVIOUS
<1> HIDE DEF state
<1>5. WithEdge(e, g, f, c, state)
  BY <1>2, <1>3 DEF WithEdge
<1>7. /\ state = "UNDECLARED" => c = None
      /\ state \in {"PLANNED", "VOLATILE"} => c \in Step /\ d.st[c] # "SUCCEEDED"
  BY <1>3
<1>8. Renews(d, g, {f})
  BY <1>2, <1>3, <1>4, <1>5, <1>7, CreatedRenews
<1> QED BY <1>2, <1>8 DEF g

LEMMA UnconfirmedFollows ==
  ASSUME NEW d, Sound(d), NEW f \in File, NEW c \in Owner,
         NEW e, Created(d, e, f, c, "UNCONFIRMED"), NEW good \in BOOLEAN,
         d.ok /\ good /\ TreesOfPlan => \A t \in Tree : f \in Under[t] /\ d.cr[t] = Plan => c = t
  PROVE  FollowsBut(d, Check(e, good), {f})
<1> DEFINE g == Check(e, good)
<1>1. Renews(d, g, {f}) /\ g.cr = e.cr /\ (g.ok => good)
  BY UnconfirmedRenews DEF Sound
<1>2. c \in Owner \cup {None}
  OBVIOUS
<1> HIDE DEF g
<1>3. d.ok /\ g.ok /\ TreesOfPlan => \A t \in Tree : f \in Under[t] /\ d.cr[t] = Plan => c \in {None, t}
  BY <1>1
<1>4. FollowsBut(d, g, {f})
  BY <1>1, <1>2, <1>3, CreatedFollows
<1> QED BY <1>4 DEF g

(***************************************************************************)
(* Supplying files.                                                        *)
(***************************************************************************)
LEMMA ResolveType ==
  ASSUME NEW d \in DB, NEW f \in File
  PROVE  Resolve(d, f) \in DB
<1> DEFINE over == Over(d, f)
           t == CHOOSE t \in over : TRUE
<1>1. over # {} => t \in Owner \cup {None}
  BY Kinds DEF Over
<1>2. ASSUME NEW c \in Owner \cup {None}, NEW state \in FirstState
      PROVE  CreateFile(d, f, c, state) \in DB
  BY CreateFileCreates DEF Created
<1>3. ASSUME NEW e \in DB, NEW good \in BOOLEAN PROVE Check(e, good) \in DB
  BY <1>3, CheckType
<1>4. "UNCONFIRMED" \in FirstState /\ "UNDECLARED" \in FirstState
  BY DEF FirstState
<1>5. (Cardinality(over) = 1) \in BOOLEAN /\ (d.row[f] # "VOLATILE") \in BOOLEAN
  OBVIOUS
<1> HIDE DEF over, t
<1> QED BY <1>1, <1>2, <1>3, <1>4, <1>5 DEF Resolve, over, t

\* An attached tree over f is the only one.
LEMMA OneTree ==
  ASSUME NEW d, Sound(d), d.ok, TreesOfPlan, NEW f \in File
  PROVE  /\ Over(d, f) = {t \in Tree : f \in Under[t] /\ d.cr[t] = Plan}
         /\ \A t, u \in Over(d, f) : t = u
<1>1. d \in DB /\ TreesClaimed(d) /\ d.cr[Plan] = Root
  BY DEF Sound, SoundFiles, Recorded
<1>2. ASSUME NEW t \in Tree PROVE t \in Attached(d) <=> d.cr[t] = Plan
  BY <1>1, AttachedFacts, Kinds DEF TreesClaimed
<1>3. Over(d, f) = {t \in Tree : f \in Under[t] /\ d.cr[t] = Plan}
  BY <1>2 DEF Over
<1> QED BY <1>1, <1>3 DEF TreesClaimed

LEMMA ResolveFollows ==
  ASSUME NEW d, Sound(d), NEW f \in File
  PROVE  FollowsBut(d, Resolve(d, f), {f})
<1> DEFINE over == Over(d, f)
           t == CHOOSE t \in over : TRUE
           good == Cardinality(over) = 1
           x == CreateFile(d, f, t, "UNCONFIRMED")
           y == CreateFile(d, f, None, "UNDECLARED")
<1>1. d \in DB
  BY DEF Sound, SoundFiles
<1>2. ASSUME over # {} PROVE FollowsBut(d, Check(x, good), {f})
  <2>1. t \in over /\ t \in Owner
    BY <1>2, Kinds DEF Over
  <2>2. Created(d, x, f, t, "UNCONFIRMED")
    BY <1>1, <2>1, CreateFileCreates DEF FirstState
  <2>3. good \in BOOLEAN
    OBVIOUS
  <2>4. ASSUME d.ok, TreesOfPlan, NEW u \in Tree, f \in Under[u], d.cr[u] = Plan
        PROVE  t = u
    BY <2>1, <2>4, OneTree
  <2> HIDE DEF good, x, t, over
  <2> QED BY <2>1, <2>2, <2>3, <2>4, UnconfirmedFollows
<1>3. FollowsBut(d, y, {f})
  <2>1. None \in Owner \cup {None} /\ "UNDECLARED" \in FirstState
    BY DEF FirstState
  <2>2. Created(d, y, f, None, "UNDECLARED")
    BY <1>1, <2>1, CreateFileCreates
  <2>3. WithEdge(y, y, f, None, "UNDECLARED")
    BY <2>2 DEF Created, WithEdge
  <2> HIDE DEF y
  <2>4. Renews(d, y, {f})
    BY <2>1, <2>2, <2>3, CreatedRenews DEF Sound
  <2> QED BY <2>1, <2>2, <2>4, CreatedFollows
<1>4. ASSUME NEW fine \in BOOLEAN PROVE FollowsBut(d, Check(d, fine), {f})
  <2> DEFINE g == Check(d, fine)
  <2>1. /\ g \in DB /\ g.row = d.row /\ g.hash = d.hash /\ g.st = d.st
        /\ SameGraph(d, g) /\ g.toCheck = d.toCheck /\ (g.ok => d.ok)
    BY <1>1, CheckType
  <2> HIDE DEF g
  <2>2. Keeps(d, g)
    BY <2>1, SameKeeps
  <2> QED BY <2>2, KeepsFollows DEF g
<1>5. (d.row[f] # "VOLATILE") \in BOOLEAN
  OBVIOUS
<1> HIDE DEF over, t, good
<1> QED BY <1>2, <1>3, <1>4, <1>5 DEF Resolve, over, t, good

\* What the root plan declares, itself or by a tree, is attached.
LEMMA PlanFilesAttached ==
  ASSUME NEW d, Sound(d), NEW f \in File, OfPlan(d, f)
  PROVE  f \in Attached(d)
<1>1. d \in DB /\ d.cr[Plan] = Root
  BY DEF Sound, SoundFiles, Recorded
<1>2. Plan \in Owner /\ Plan \in Attached(d) /\ \A t \in Tree : d.cr[t] = Plan => t \in Owner \cap Attached(d)
  BY <1>1, AttachedFacts, Kinds
<1>3. d.cr[f] \in Owner \cap Attached(d)
  BY <1>2 DEF OfPlan
<1> QED BY <1>1, <1>3, AttachedFacts

\* The recursive function that Supply computes.
LEMMA SupplyFold ==
  ASSUME NEW d \in DB, NEW F \in SUBSET File
  PROVE  \E it : /\ Supply(d, F) = CheckFiles(it[F], F) /\ it[{}] = d
                 /\ \A S \in SUBSET F : S # {} =>
                      \E f \in S : it[S] = Resolve(it[S \ {f}], f)
<1> DEFINE Body(g) == [S \in SUBSET F |-> IF S = {} THEN d ELSE Resolve(g[S \ {Pick(S)}], Pick(S))]
           it == CHOOSE g : g = Body(g)
<1>1. Supply(d, F) = CheckFiles(it[F], F)
  BY DEF Supply, FoldSet, MapThenFoldSet, Pick
<1>2. \E g : g = Body(g)
  <2> DEFINE G == [p \in F \X DB |-> Resolve(p[2], p[1])]
  <2>1. G \in [F \X DB -> DB] /\ \A f \in F, e \in DB : G[<<f, e>>] = Resolve(e, f)
    BY ResolveType
  <2>2. IsFiniteSet(F)
    BY FiniteKinds, FS_Subset
  <2> HIDE DEF G
  <2>3. PICK g \in [SUBSET F -> DB] : IsFold(g, F, d, G)
    BY <2>1, <2>2, FoldExists
  <2>4. ASSUME NEW S \in SUBSET F, S # {}
        PROVE  G[<<Pick(S), g[S \ {Pick(S)}]>>] = Resolve(g[S \ {Pick(S)}], Pick(S))
    <3>1. Pick(S) \in S /\ S \ {Pick(S)} \in SUBSET F
      BY <2>4 DEF Pick
    <3> QED BY <2>1, <3>1
  <2>5. g = Body(g)
    BY <2>3, <2>4 DEF IsFold
  <2> QED BY <2>5
<1>3. it = Body(it)
  BY <1>2
<1> HIDE DEF it
<1>4. it[{}] = d
  BY <1>3
<1>5. ASSUME NEW S \in SUBSET F, S # {}
      PROVE  \E f \in S : it[S] = Resolve(it[S \ {f}], f)
  <2>1. Pick(S) \in S
    BY <1>5 DEF Pick
  <2>2. it[S] = Resolve(it[S \ {Pick(S)}], Pick(S))
    BY <1>3, <1>5
  <2> QED BY <2>1, <2>2
<1> QED BY <1>1, <1>4, <1>5

\* Steps stay as they are, or idle ones become PENDING.
Calm(d, e) ==
  \A s \in Step : e.st[s] = d.st[s] \/ (e.st[s] = "PENDING" /\ d.st[s] \notin {"NONE", "RUNNING"})

LEMMA CalmTrans ==
  ASSUME NEW d, NEW e, NEW g, Calm(d, e), Calm(e, g)
  PROVE  Calm(d, g)
BY DEF Calm

LEMMA ResolveCalm ==
  ASSUME NEW d \in DB, NEW f \in File
  PROVE  Calm(d, Resolve(d, f))
<1> DEFINE over == Over(d, f)
           t == CHOOSE t \in over : TRUE
<1>1. over # {} => t \in Owner \cup {None}
  BY Kinds DEF Over
<1>2. ASSUME NEW c \in Owner \cup {None}, NEW state \in FirstState
      PROVE  CreateFile(d, f, c, state) \in DB /\ Calm(d, CreateFile(d, f, c, state))
  <2> DEFINE e == CreateFile(d, f, c, state)
  <2>1. Created(d, e, f, c, state)
    BY CreateFileCreates
  <2> HIDE DEF e
  <2>2. e \in DB /\ Calm(d, e)
    BY <2>1 DEF Created, Calm
  <2> QED BY <2>2 DEF e
<1>3. ASSUME NEW e \in DB, Calm(d, e), NEW good \in BOOLEAN PROVE Calm(d, Check(e, good))
  <2>1. Check(e, good).st = e.st
    BY <1>3, CheckType
  <2> QED BY <1>3, <2>1 DEF Calm
<1>4. "UNCONFIRMED" \in FirstState /\ "UNDECLARED" \in FirstState
  BY DEF FirstState
<1>5. (Cardinality(over) = 1) \in BOOLEAN /\ (d.row[f] # "VOLATILE") \in BOOLEAN /\ Calm(d, d)
  BY DEF Calm
<1> HIDE DEF over, t
<1> QED BY <1>1, <1>2, <1>3, <1>4, <1>5 DEF Resolve, over, t

LEMMA SupplyFollows ==
  ASSUME NEW d, Sound(d), NEW F \in SUBSET File
  PROVE  Follows(d, Supply(d, F)) /\ Calm(d, Supply(d, F))
<1>1. d \in DB
  BY DEF Sound, SoundFiles
<1>2. PICK it : /\ Supply(d, F) = CheckFiles(it[F], F) /\ it[{}] = d
                /\ \A S \in SUBSET F : S # {} => \E f \in S : it[S] = Resolve(it[S \ {f}], f)
  BY <1>1, SupplyFold
<1> DEFINE P == {S \in SUBSET F : FollowsBut(d, it[S], S) /\ Calm(d, it[S])}
<1>3. {} \in P
  <2>1. FollowsBut(d, d, {})
    BY KeepsSelf, KeepsFollows
  <2> QED BY <1>2, <2>1 DEF Calm
<1>4. ASSUME NEW S \in SUBSET F, S # {}, \A x \in S : S \ {x} \in P
      PROVE  S \in P
  <2>1. PICK f \in S : it[S] = Resolve(it[S \ {f}], f)
    BY <1>2, <1>4
  <2> DEFINE e == it[S \ {f}]
  <2>2. FollowsBut(d, e, S \ {f}) /\ Calm(d, e)
    BY <1>4
  <2> HIDE DEF e
  <2>3. Sound(e) /\ e \in DB /\ f \in File
    BY <2>2 DEF FollowsBut, Sound, SoundFiles
  <2>4. FollowsBut(e, Resolve(e, f), {f}) /\ Calm(e, Resolve(e, f))
    BY <2>3, ResolveFollows, ResolveCalm
  <2>5. FollowsBut(d, Resolve(e, f), (S \ {f}) \cup {f}) /\ Calm(d, Resolve(e, f))
    BY <2>2, <2>4, FollowsButTrans, CalmTrans
  <2>6. (S \ {f}) \cup {f} = S /\ it[S] = Resolve(e, f)
    BY <2>1 DEF e
  <2> QED BY <2>5, <2>6
<1>5. F \in P
  <2>1. IsFiniteSet(F)
    BY FiniteKinds, FS_Subset
  <2> HIDE DEF P
  <2>2. \A S \in SUBSET F : (S = {} \/ \A f \in S : S \ {f} \in P) => S \in P
    BY <1>3, <1>4
  <2> QED BY <2>1, <2>2, SubsetInduct
<1> DEFINE e == it[F]
           X == F \cap Attached(e) \cap Rows(e, {"UNCONFIRMED"})
<1>6. FollowsBut(d, e, F) /\ Calm(d, e)
  BY <1>5
<1>7. Supply(d, F) = WithChecks(e, X)
  BY <1>2 DEF CheckFiles, WithChecks
<1> HIDE DEF e, P
<1>8. Sound(e) /\ e \in DB
  BY <1>6 DEF FollowsBut, Sound, SoundFiles
<1>9. ASSUME NEW f \in F, OfPlan(e, f), e.row[f] = "UNCONFIRMED" PROVE f \in X
  BY <1>8, <1>9, PlanFilesAttached DEF Rows
<1>10. X \in SUBSET File
  OBVIOUS
<1> HIDE DEF X
<1>11. Follows(d, Supply(d, F))
  BY <1>6, <1>7, <1>9, <1>10, CheckedFollows
<1>12. Supply(d, F).st = e.st
  BY <1>7, <1>8 DEF DB, WithChecks
<1> QED BY <1>6, <1>11, <1>12 DEF Calm

(***************************************************************************)
(* Declaring files.                                                        *)
(***************************************************************************)
LEMMA DeclareFileType ==
  ASSUME NEW d \in DB, NEW f \in File, NEW c \in Owner, NEW state \in FirstState
  PROVE  DeclareFile(d, c, f, state) \in DB
<1> DEFINE x == CreateFile(d, f, c, state)
           good == MayDeclare(x, c, f)
<1>1. x \in DB /\ good \in BOOLEAN
  BY CreateFileCreates DEF Created, MayDeclare
<1>2. DeclareFile(d, c, f, state) = Check(x, good)
  BY DEF DeclareFile, Declared
<1> HIDE DEF x, good
<1> QED BY <1>1, <1>2, CheckType

\* The owner of a path that DeclareStatic declares.
Declarer(d, c, f) ==
  IF c \in Tree \/ Over(d, f) = {} THEN c ELSE CHOOSE t \in Over(d, f) : TRUE

LEMMA DeclarerType ==
  ASSUME NEW d, NEW c \in Owner, NEW f
  PROVE  /\ Declarer(d, c, f) \in Owner
         /\ Declarer(d, c, f) # c => Declarer(d, c, f) \in Over(d, f)
BY Kinds DEF Declarer, Over

\* The declarations that DeclareStatic lets pass.
Allowed(d, c, F) ==
  /\ \A f \in F : c \in Tree \/ (Cardinality(Over(d, f)) < 2 /\ \A t \in Over(d, f) : d.cr[t] = c)
  /\ \A f \in {f \in F : ~Unclaimed(d, {f})} : Repeats(d, Declarer(d, c, f), f, Static)

Fresh(d, F) == F \ {f \in F : ~Unclaimed(d, {f})}

\* it declares the files of N one by one.
DeclaresAll(it, d, c, N) ==
  \A R \in SUBSET N : R # {} =>
    \E f \in R : it[R] = DeclareFile(it[R \ {f}], Declarer(d, c, f), f, "UNCONFIRMED")

\* The recursive function that DeclareStatic computes.
LEMMA DeclareStaticFold ==
  ASSUME NEW d \in DB, NEW c \in Owner, NEW F \in SUBSET File, NEW N, N = Fresh(d, F), NEW b, b = Check(d, Allowed(d, c, F))
  PROVE  \E it : /\ DeclareStatic(d, c, F) = WithChecks(it[N], N) /\ it[{}] = b
                 /\ DeclaresAll(it, d, c, N)
<1> DEFINE Body(g) == [R \in SUBSET N |-> IF R = {} THEN b ELSE DeclareFile(g[R \ {Pick(R)}], Declarer(d, c, Pick(R)), Pick(R), "UNCONFIRMED")]
           it == CHOOSE g : g = Body(g)
<1>1. DeclareStatic(d, c, F) = WithChecks(it[N], N)
  BY DEF WithChecks, DeclareStatic, Declarer, Allowed, Fresh, FoldSet, MapThenFoldSet, Pick
<1>2. \E g : g = Body(g)
  <2> DEFINE G == [p \in N \X DB |-> DeclareFile(p[2], Declarer(d, c, p[1]), p[1], "UNCONFIRMED")]
  <2>1. G \in [N \X DB -> DB] /\ \A f \in N, e \in DB : G[<<f, e>>] = DeclareFile(e, Declarer(d, c, f), f, "UNCONFIRMED")
    <3>1. N \in SUBSET File /\ "UNCONFIRMED" \in FirstState
      BY DEF Fresh, FirstState
    <3> QED BY <3>1, DeclarerType, DeclareFileType
  <2>2. IsFiniteSet(N) /\ b \in DB
    <3>1. N \in SUBSET File /\ Allowed(d, c, F) \in BOOLEAN
      BY DEF Fresh, Allowed
    <3> QED BY <3>1, FiniteKinds, FS_Subset, CheckType
  <2> HIDE DEF G
  <2>3. PICK g \in [SUBSET N -> DB] : IsFold(g, N, b, G)
    BY <2>1, <2>2, FoldExists
  <2>4. ASSUME NEW R \in SUBSET N, R # {}
        PROVE  G[<<Pick(R), g[R \ {Pick(R)}]>>] = DeclareFile(g[R \ {Pick(R)}], Declarer(d, c, Pick(R)), Pick(R), "UNCONFIRMED")
    <3>1. Pick(R) \in R /\ R \ {Pick(R)} \in SUBSET N
      BY <2>4 DEF Pick
    <3> QED BY <2>1, <3>1
  <2>5. g = Body(g)
    BY <2>3, <2>4 DEF IsFold
  <2> QED BY <2>5
<1>3. it = Body(it)
  BY <1>2
<1> HIDE DEF it
<1>4. it[{}] = b
  BY <1>3
<1>5. ASSUME NEW R \in SUBSET N, R # {}
      PROVE  \E f \in R : it[R] = DeclareFile(it[R \ {f}], Declarer(d, c, f), f, "UNCONFIRMED")
  <2>1. Pick(R) \in R
    BY <1>5 DEF Pick
  <2>2. it[R] = DeclareFile(it[R \ {Pick(R)}], Declarer(d, c, Pick(R)), Pick(R), "UNCONFIRMED")
    BY <1>3, <1>5
  <2> QED BY <2>1, <2>2
<1>6. DeclaresAll(it, d, c, N)
  BY <1>5 DEF DeclaresAll
<1> QED BY <1>1, <1>4, <1>6

LEMMA DeclareStaticRenews ==
  ASSUME NEW d, SoundFiles(d), NEW c \in Owner, NEW F \in SUBSET File
  PROVE  LET x == DeclareStatic(d, c, F)
         IN /\ SoundFiles(x) /\ (x.ok => d.ok) /\ (x.ok => Allowed(d, c, F))
            /\ d.toCheck \subseteq x.toCheck
            /\ x.ok => \A f \in File \ x.toCheck : Kept(d, x, f)
            /\ x.cr = [n \in Node |-> IF n \in Fresh(d, F) THEN Declarer(d, c, n) ELSE d.cr[n]]
<1> DEFINE N == Fresh(d, F)
           good == Allowed(d, c, F)
           b == Check(d, good)
           x == DeclareStatic(d, c, F)
<1>1. d \in DB /\ N \in SUBSET File /\ good \in BOOLEAN
  BY DEF SoundFiles, Fresh, Allowed
<1>2. PICK it : /\ x = WithChecks(it[N], N) /\ it[{}] = b
                /\ DeclaresAll(it, d, c, N)
  <2>1. N = Fresh(d, F) /\ b = Check(d, Allowed(d, c, F))
    OBVIOUS
  <2> HIDE DEF N, b, good
  <2> QED BY <1>1, <2>1, DeclareStaticFold
<1> HIDE DEF x
<1>3. /\ b \in DB /\ b.row = d.row /\ b.hash = d.hash /\ b.st = d.st /\ SameGraph(d, b)
      /\ b.toCheck = d.toCheck /\ (b.ok => d.ok) /\ (b.ok => good)
  <2> HIDE DEF good
  <2> QED BY <1>1, CheckType
<1> HIDE DEF b, N, good
<1>4. SoundFiles(b) /\ \A f \in File : Kept(d, b, f)
  BY <1>3, SameFiles
<1>5. Renews(d, b, {}) /\ b.cr = d.cr
  BY <1>3, <1>4 DEF Renews, SameGraph
<1> DEFINE creators(R) == [n \in Node |-> IF n \in R THEN Declarer(d, c, n) ELSE d.cr[n]]
           P == {R \in SUBSET N : Renews(b, it[R], R) /\ it[R].cr = creators(R)}
<1>6. {} \in P
  <2>1. Renews(b, b, {})
    BY <1>4 DEF Renews, Kept
  <2>2. d.cr = creators({})
    BY <1>1 DEF DB
  <2> QED BY <1>2, <1>5, <2>1, <2>2
<1>7. ASSUME NEW R \in SUBSET N, R # {}, \A f \in R : R \ {f} \in P
      PROVE  R \in P
  <2>1. PICK f \in R : it[R] = DeclareFile(it[R \ {f}], Declarer(d, c, f), f, "UNCONFIRMED")
    BY <1>2, <1>7 DEF DeclaresAll
  <2> DEFINE e == it[R \ {f}]
             t == Declarer(d, c, f)
             y == CreateFile(e, f, t, "UNCONFIRMED")
             fine == MayDeclare(y, t, f)
             g == Check(y, fine)
  <2>2. Renews(b, e, R \ {f}) /\ e.cr = creators(R \ {f})
    BY <1>7
  <2> HIDE DEF e, creators
  <2>3. SoundFiles(e) /\ e \in DB /\ f \in File /\ f \in Node
    BY <1>1, <2>2, Kinds DEF Renews, SoundFiles
  <2>4. t \in Owner
    BY DeclarerType
  <2>5. Created(e, y, f, t, "UNCONFIRMED")
    BY <2>3, <2>4, CreateFileCreates DEF FirstState
  <2>6. fine \in BOOLEAN
    BY DEF MayDeclare
  <2>7. it[R] = g
    BY <2>1 DEF DeclareFile, Declared, e
  <2> HIDE DEF t, y, fine
  <2>8. Renews(e, g, {f}) /\ g.cr = y.cr
    BY <2>3, <2>4, <2>5, <2>6, UnconfirmedRenews
  <2> HIDE DEF g
  <2>9. Renews(b, g, R)
    <3>1. (R \ {f}) \cup {f} = R
      OBVIOUS
    <3>2. Renews(b, g, (R \ {f}) \cup {f})
      BY <2>2, <2>8, RenewsTrans
    <3> QED BY <3>1, <3>2
  <2>10. g.cr = creators(R)
    <3>1. g.cr = [e.cr EXCEPT ![f] = t]
      BY <2>5, <2>8 DEF Created
    <3>2. [creators(R \ {f}) EXCEPT ![f] = t] = creators(R)
      BY <2>3 DEF creators, t
    <3> QED BY <2>2, <3>1, <3>2
  <2> QED BY <2>7, <2>9, <2>10
<1>8. N \in P
  <2>1. IsFiniteSet(N)
    BY <1>1, FiniteKinds, FS_Subset
  <2> HIDE DEF P
  <2>2. \A R \in SUBSET N : (R = {} \/ \A f \in R : R \ {f} \in P) => R \in P
    BY <1>6, <1>7
  <2> QED BY <2>1, <2>2, SubsetInduct
<1> DEFINE e == it[N]
<1>9. Renews(b, e, N) /\ e.cr = creators(N)
  BY <1>8
<1> HIDE DEF e, P, creators
<1>10. Renews(d, e, N)
  <2>1. {} \cup N = N
    OBVIOUS
  <2> QED BY <1>5, <1>9, <2>1, RenewsTrans
<1>11. x = WithChecks(e, N)
  BY <1>2 DEF e
<1>12. /\ SoundFiles(x) /\ (x.ok => d.ok) /\ d.toCheck \subseteq x.toCheck
       /\ x.ok => \A f \in File \ x.toCheck : Kept(d, x, f)
       /\ x.cr = e.cr /\ (x.ok => e.ok)
  BY <1>1, <1>10, <1>11, CheckedRenews
<1>13. x.ok => good
  BY <1>3, <1>9, <1>12 DEF Renews
<1> QED BY <1>9, <1>12, <1>13 DEF creators, N, good, x

LEMMA DeclareStaticFollows ==
  ASSUME NEW d, Sound(d), NEW c \in Step, NEW F \in SUBSET File
  PROVE  Follows(d, DeclareStatic(d, c, F))
<1> DEFINE x == DeclareStatic(d, c, F)
           N == Fresh(d, F)
<1>1. /\ SoundFiles(x) /\ (x.ok => d.ok) /\ d.toCheck \subseteq x.toCheck
      /\ x.ok => \A f \in File \ x.toCheck : Kept(d, x, f)
      /\ x.cr = [n \in Node |-> IF n \in N THEN Declarer(d, c, n) ELSE d.cr[n]]
  BY DeclareStaticRenews, Kinds DEF Sound
<1>2. N \in SUBSET File
  BY DEF Fresh
<1> HIDE DEF x, N
<1>3. ASSUME x.ok, TreesOfPlan PROVE TreesClaimed(x)
  <2>1. d.ok /\ TreesClaimed(d)
    BY <1>1, <1>3 DEF Sound
  <2>2. \A t \in Tree : x.cr[t] = d.cr[t]
    BY <1>1, <1>2, Kinds
  <2>3. ASSUME NEW t \in Tree, NEW f \in Under[t], x.cr[t] = Plan PROVE x.cr[f] \in {None, t}
    <3>1. f \in File /\ f \in Node /\ d.cr[t] = Plan
      BY <2>2, <2>3, LayoutType, Kinds
    <3>2. CASE f \notin N
      <4>1. x.cr[f] = d.cr[f]
        BY <1>1, <3>1, <3>2
      <4> QED BY <2>1, <3>1, <4>1 DEF TreesClaimed
    <3>3. CASE f \in N
      <4>1. t \in Over(d, f) /\ \A u \in Over(d, f) : u = t
        BY <1>3, <2>1, <3>1, OneTree
      <4>2. Declarer(d, c, f) = t
        BY <4>1, Kinds DEF Declarer
      <4> QED BY <1>1, <3>1, <3>3, <4>2
    <3> QED BY <3>2, <3>3
  <2> QED BY <2>1, <2>2, <2>3 DEF TreesClaimed
<1> QED BY <1>1, <1>3 DEF Follows, Sound, x

(***************************************************************************)
(* Static trees and patterns.                                              *)
(***************************************************************************)
\* The files under t get t as their creator, and t gets s.
Adopted(d, s, t, held) ==
  [Take(Detach(d, Products(d, t)), t, s) EXCEPT !.cr = [n \in Node |-> IF n \in held THEN t ELSE @[n]]]

\* The conditions under which t is registered.
MayAdopt(d, s, t, held) ==
  Inside[t] \cap Attached(d) = {} /\ \A h \in held : Repeats(d, s, h, Static)

LEMMA AdoptedType ==
  ASSUME NEW d \in DB, NEW s \in Step, NEW t \in Tree, NEW held \in SUBSET File,
         NEW good \in BOOLEAN
  PROVE  LET g == Check(Adopted(d, s, t, held), good)
         IN /\ g \in DB /\ g.row = d.row /\ g.hash = d.hash /\ g.st = d.st
            /\ g.out = d.out /\ g.dynOut = d.dynOut /\ g.reg = d.reg /\ g.toCheck = d.toCheck
            /\ (g.ok => d.ok) /\ (g.ok => good)
            /\ g.cr[t] = s
            /\ \A n \in Node \ {t} : g.cr[n] = IF n \in held THEN t
                                              ELSE IF d.cr[n] = t THEN None ELSE d.cr[n]
<1> DEFINE a == Detach(d, Products(d, t))
           b == Take(a, t, s)
           e == Adopted(d, s, t, held)
           g == Check(e, good)
<1>1. Products(d, t) \in SUBSET Node
  BY DEF Products
<1>2. /\ a \in DB /\ a.cr = [n \in Node |-> IF n \in Products(d, t) THEN None ELSE d.cr[n]]
      /\ a.row = d.row /\ a.hash = d.hash /\ a.st = d.st /\ a.out = d.out /\ a.dynOut = d.dynOut
      /\ a.reg = d.reg /\ a.toCheck = d.toCheck /\ a.ok = d.ok
  BY <1>1, DetachType DEF SameInputs, SameMemory
<1>3. e = [b EXCEPT !.cr = [n \in Node |-> IF n \in held THEN t ELSE @[n]]]
  BY DEF Adopted
<1> HIDE DEF a, e
<1>4. t \in Node /\ s \in Node /\ t \notin held /\ t # None
  BY Kinds
<1>5. /\ b \in DB /\ b.cr = [a.cr EXCEPT ![t] = s]
      /\ b.row = a.row /\ b.hash = a.hash /\ b.st = a.st /\ b.out = a.out /\ b.dynOut = a.dynOut
      /\ b.reg = a.reg /\ b.toCheck = a.toCheck /\ b.ok = a.ok
  <2>1. s \in Node \cup {None}
    BY <1>4
  <2> QED BY <1>2, <1>4, <2>1, TakeType DEF SameInputs
<1> HIDE DEF b
<1>6. /\ e \in DB /\ e.cr = [n \in Node |-> IF n \in held THEN t ELSE b.cr[n]]
      /\ e.row = b.row /\ e.hash = b.hash /\ e.st = b.st /\ e.out = b.out /\ e.dynOut = b.dynOut
      /\ e.reg = b.reg /\ e.toCheck = b.toCheck /\ e.ok = b.ok
  BY <1>3, <1>4, <1>5 DEF DB
<1>7. /\ g \in DB /\ g.row = e.row /\ g.hash = e.hash /\ g.st = e.st /\ g.cr = e.cr
      /\ g.out = e.out /\ g.dynOut = e.dynOut /\ g.reg = e.reg /\ g.toCheck = e.toCheck
      /\ (g.ok => e.ok) /\ (g.ok => good)
  BY <1>6, CheckType DEF SameGraph, SameInputs
<1> HIDE DEF g
<1>8. g.cr[t] = s
  BY <1>2, <1>4, <1>5, <1>6, <1>7
<1>9. ASSUME NEW n \in Node \ {t}
      PROVE  g.cr[n] = IF n \in held THEN t ELSE IF d.cr[n] = t THEN None ELSE d.cr[n]
  <2>1. a.cr[n] = IF d.cr[n] = t THEN None ELSE d.cr[n]
    BY <1>2 DEF Products
  <2>2. b.cr[n] = a.cr[n]
    BY <1>2, <1>5
  <2> QED BY <1>6, <1>7, <2>1, <2>2
<1> QED BY <1>2, <1>5, <1>6, <1>7, <1>8, <1>9 DEF g, e

\* What s declared under t before goes to t.
LEMMA AdoptedFiles ==
  ASSUME NEW d, Sound(d), NEW s \in Step, NEW t \in Tree, NEW held \in SUBSET File,
         NEW good \in BOOLEAN, good => \A h \in held : Repeats(d, s, h, Static)
  PROVE  LET g == Check(Adopted(d, s, t, held), good)
         IN /\ SoundFiles(g)
            /\ g.ok => \A f \in File : Kept(d, g, f)
<1> DEFINE g == Check(Adopted(d, s, t, held), good)
<1>1. d \in DB /\ Recorded(d) /\ (d.ok => FilesClaimed(d))
  BY DEF Sound, SoundFiles
<1>2. /\ g \in DB /\ g.row = d.row /\ g.hash = d.hash /\ g.st = d.st
      /\ g.out = d.out /\ g.dynOut = d.dynOut
      /\ (g.ok => d.ok) /\ (g.ok => good)
      /\ g.cr[t] = s
      /\ \A n \in Node \ {t} : g.cr[n] = IF n \in held THEN t
                                        ELSE IF d.cr[n] = t THEN None ELSE d.cr[n]
  BY <1>1, AdoptedType
<1> HIDE DEF g
<1>3. Recorded(g)
  <2>1. Plan \in Node \ {t} /\ Plan \notin held /\ d.cr[Plan] # t
    BY <1>1, Kinds DEF Recorded
  <2>2. g.cr[Plan] = d.cr[Plan]
    BY <1>2, <2>1
  <2> QED BY <1>1, <1>2, <2>2 DEF Recorded
<1>4. ASSUME NEW f \in File
      PROVE  f \in Node \ {t} /\ (g.ok /\ f \in held => d.row[f] \in Static /\ d.cr[f] = s)
  BY <1>2, Kinds DEF Repeats
<1>5. ASSUME g.ok, NEW f \in File, g.cr[f] # None PROVE Claimed(g, f)
  <2>1. d.cr[f] # None
    <3>1. CASE f \in held
      BY <1>4, <1>5, <3>1, Kinds
    <3>2. CASE f \notin held
      BY <1>2, <1>4, <1>5, <3>2
    <3> QED BY <3>1, <3>2
  <2>2. Claimed(d, f)
    BY <1>1, <1>2, <1>5, <2>1 DEF FilesClaimed
  <2>3. CASE f \in held
    BY <1>2, <1>4, <1>5, <2>2, <2>3 DEF Claimed
  <2>4. CASE f \notin held
    <3>1. g.cr[f] = d.cr[f]
      BY <1>2, <1>4, <1>5, <2>4
    <3> QED BY <1>2, <2>2, <3>1 DEF Claimed
  <2> QED BY <2>3, <2>4
<1>6. ASSUME g.ok, NEW f \in File, OfPlan(g, f) PROVE OfPlan(d, f)
  <2>1. CASE f \in held
    <3>1. g.cr[f] = t /\ d.cr[f] = s
      BY <1>2, <1>4, <1>6, <2>1
    <3>2. s = Plan
      BY <1>2, <1>6, <3>1, Kinds DEF OfPlan
    <3> QED BY <3>1, <3>2 DEF OfPlan
  <2>2. CASE f \notin held
    <3>1. g.cr[f] \in Tree \cup {Plan}
      BY <1>6 DEF OfPlan
    <3>2. g.cr[f] = d.cr[f] /\ d.cr[f] # t
      BY <1>2, <1>4, <2>2, <3>1, Kinds
    <3>3. ASSUME d.cr[f] \in Tree PROVE d.cr[d.cr[f]] = Plan
      <4> DEFINE u == d.cr[f]
      <4>1. g.cr[u] = Plan
        BY <1>6, <3>2, <3>3, Kinds DEF OfPlan
      <4>2. u \in Node \ {t} /\ u \notin held
        BY <3>2, <3>3, Kinds
      <4> QED BY <1>2, <4>1, <4>2, Kinds
    <3> QED BY <3>1, <3>2, <3>3 DEF OfPlan
  <2> QED BY <2>1, <2>2
<1>7. ASSUME g.ok, NEW f \in File PROVE Kept(d, g, f)
  BY <1>2, <1>6, <1>7 DEF Kept
<1> QED BY <1>2, <1>3, <1>5, <1>7 DEF SoundFiles, FilesClaimed, g

LEMMA RegisterTreeFollows ==
  ASSUME NEW d, Sound(d), NEW s \in Step, NEW t \in Tree, TreesOfPlan => s = Plan
  PROVE  Follows(d, RegisterTree(d, s, t))
<1> DEFINE attached == Attached(d)
           over == {o \in Tree \cap attached : o = t \/ t \in Inside[o]}
           held == Under[t] \cap attached
           good == MayAdopt(d, s, t, held)
           g == Check(Adopted(d, s, t, held), good)
           H == {h \in Under[t] \ held : d.row[h] # "NONE"}
           x == DeclareStatic(g, t, H)
           fine == Cardinality(over) = 1 /\ \A o \in over : d.cr[o] = s
<1>1. d \in DB /\ Recorded(d) /\ (d.ok => FilesClaimed(d))
  BY DEF Sound, SoundFiles
<1>2. RegisterTree(d, s, t) = IF over = {} THEN x ELSE Check(d, fine)
  BY DEF RegisterTree, Adopted, MayAdopt
<1>3. CASE over # {}
  <2> DEFINE e == Check(d, fine)
  <2>1. fine \in BOOLEAN
    OBVIOUS
  <2> HIDE DEF fine
  <2>2. /\ e \in DB /\ e.row = d.row /\ e.hash = d.hash /\ e.st = d.st
        /\ SameGraph(d, e) /\ e.toCheck = d.toCheck /\ (e.ok => d.ok)
    BY <1>1, <2>1, CheckType
  <2> HIDE DEF e
  <2>3. Keeps(d, e)
    BY <2>2, SameKeeps
  <2> HIDE DEF x, over
  <2> QED BY <1>2, <1>3, <2>3, KeepsFollows DEF e
<1>4. CASE over = {}
  <2>1. held \in SUBSET File /\ H \in SUBSET File /\ good \in BOOLEAN /\ Under[t] \in SUBSET File
    BY LayoutType DEF MayAdopt
  <2>2. good => Inside[t] \cap attached = {} /\ \A h \in held : Repeats(d, s, h, Static)
    BY DEF MayAdopt
  <2>3. \A u \in Tree : u \in attached => u # t /\ t \notin Inside[u]
    BY <1>4
  <2>4. \A h \in Under[t] : h \in held \/ h \in H \/ d.row[h] = "NONE"
    OBVIOUS
  <2>5. x = DeclareStatic(g, t, H) /\ g = Check(Adopted(d, s, t, held), good)
    OBVIOUS
  <2>5a. held \subseteq Under[t] /\ H \subseteq Under[t]
    OBVIOUS
  <2> HIDE DEF held, H, good, over, g, x
  <2>6. /\ g \in DB /\ g.row = d.row /\ g.hash = d.hash /\ g.st = d.st /\ g.toCheck = d.toCheck
        /\ (g.ok => d.ok) /\ (g.ok => good) /\ g.cr[t] = s
        /\ \A n \in Node \ {t} : g.cr[n] = IF n \in held THEN t
                                          ELSE IF d.cr[n] = t THEN None ELSE d.cr[n]
    BY <1>1, <2>1, <2>5, AdoptedType
  <2>7. SoundFiles(g) /\ (g.ok => \A f \in File : Kept(d, g, f))
    BY <2>1, <2>2, <2>5, AdoptedFiles
  <2> DEFINE N == Fresh(g, H)
  <2>8. /\ SoundFiles(x) /\ (x.ok => g.ok) /\ (x.ok => Allowed(g, t, H)) /\ g.toCheck \subseteq x.toCheck
        /\ x.ok => \A f \in File \ x.toCheck : Kept(g, x, f)
        /\ x.cr = [n \in Node |-> IF n \in N THEN Declarer(g, t, n) ELSE g.cr[n]]
    BY <2>1, <2>5, <2>7, Kinds, DeclareStaticRenews
  <2>9. \A n : Declarer(g, t, n) = t
    BY DEF Declarer
  <2>10. N \subseteq H /\ N \in SUBSET File
    BY <2>1 DEF Fresh
  <2>11. ASSUME x.ok, NEW h \in H PROVE x.cr[h] = t
    <3>1. h \in Node
      BY <2>1, Kinds
    <3>2. CASE h \in N
      BY <2>8, <2>9, <3>1, <3>2
    <3>3. CASE h \notin N
      <4>1. ~Unclaimed(g, {h})
        BY <3>3 DEF Fresh
      <4>2. Repeats(g, t, h, Static)
        BY <2>8, <2>9, <2>11, <4>1 DEF Allowed
      <4> QED BY <2>8, <3>1, <3>3, <4>2 DEF Repeats
    <3> QED BY <3>2, <3>3
  <2> HIDE DEF N
  <2>12. ASSUME x.ok, TreesOfPlan PROVE TreesClaimed(x)
    <3>1. d.ok /\ TreesClaimed(d) /\ good /\ s = Plan
      BY <2>6, <2>8, <2>12 DEF Sound
    <3>2. \A n \in Node : n \notin File => x.cr[n] = g.cr[n]
      BY <2>8, <2>10
    <3>3. ASSUME NEW u \in Tree, u # t PROVE x.cr[u] = d.cr[u] /\ d.cr[u] \in {None, Plan}
      <4>1. u \in Node \ {t} /\ u \notin held /\ u \notin File
        BY <2>1, <3>3, Kinds
      <4>2. d.cr[u] \in {None, Plan} /\ t \notin {None, Plan}
        BY <3>1, Kinds DEF TreesClaimed
      <4> QED BY <2>6, <3>2, <4>1, <4>2
    <3>4. x.cr[t] = Plan
      BY <2>6, <3>1, <3>2, Kinds
    <3>5. ASSUME NEW u \in Tree, u # t, x.cr[u] = Plan PROVE Under[t] \cap Under[u] = {}
      <4>1. u \in attached
        BY <1>1, <3>3, <3>5, AttachedFacts, Kinds DEF Recorded
      <4>2. t \notin Inside[u] /\ u \notin Inside[t]
        BY <2>2, <2>3, <3>1, <4>1
      <4> QED BY <3>5, <4>2, DirectoriesNest
    <3>6. ASSUME NEW u \in Tree, NEW v \in Tree, x.cr[u] = Plan, x.cr[v] = Plan, u # v
          PROVE  Under[u] \cap Under[v] = {}
      <4>1. CASE u # t /\ v # t
        BY <3>1, <3>3, <3>6, <4>1 DEF TreesClaimed
      <4>2. CASE u = t
        BY <3>5, <3>6, <4>2
      <4>3. CASE v = t
        BY <3>5, <3>6, <4>3
      <4> QED BY <4>1, <4>2, <4>3
    <3>7. ASSUME NEW h \in Under[t] PROVE x.cr[h] \in {None, t}
      <4>1. h \in File /\ h \in Node \ {t}
        BY <2>1, Kinds
      <4>2. CASE h \in H
        BY <2>11, <2>12, <4>2
      <4>3. CASE h \notin H
        <5>1. x.cr[h] = g.cr[h]
          BY <2>8, <2>10, <4>1, <4>3
        <5>2. CASE h \in held
          BY <2>6, <4>1, <5>1, <5>2
        <5>3. CASE h \notin held
          <6>1. d.cr[h] = None
            BY <1>1, <2>4, <3>1, <4>1, <4>3, <5>3 DEF FilesClaimed, Claimed
          <6> QED BY <2>6, <4>1, <5>1, <5>3, <6>1
        <5> QED BY <5>2, <5>3
      <4> QED BY <4>2, <4>3
    <3>8. ASSUME NEW u \in Tree, u # t, x.cr[u] = Plan, NEW h \in Under[u] PROVE x.cr[h] \in {None, u}
      <4>1. h \in File /\ h \in Node \ {t} /\ h \notin Under[t]
        BY <3>5, <3>8, LayoutType, Kinds
      <4>2. h \notin N /\ h \notin held
        BY <2>5a, <2>10, <4>1
      <4>3. x.cr[h] = g.cr[h]
        BY <2>8, <4>1, <4>2
      <4>4. d.cr[h] \in {None, u}
        BY <3>1, <3>3, <3>8 DEF TreesClaimed
      <4> QED BY <2>6, <4>1, <4>2, <4>3, <4>4
    <3> QED BY <3>3, <3>4, <3>6, <3>7, <3>8 DEF TreesClaimed
  <2>13. ASSUME x.ok, NEW f \in File \ x.toCheck PROVE Kept(d, x, f)
    BY <2>7, <2>8, <2>13 DEF Kept
  <2>14. Follows(d, x)
    BY <2>6, <2>8, <2>12, <2>13 DEF Follows, Sound
  <2> QED BY <1>2, <1>4, <2>14
<1> QED BY <1>3, <1>4

\* The folds of StaticCall.
RegisterTrees(d, s, S) == LET Tr(t, e) == RegisterTree(e, s, t) IN FoldSet(Tr, d, S)
RegisterGlobs(d, s, S) == LET Gl(g, e) == RegisterGlob(e, s, g) IN FoldSet(Gl, d, S)

\* What every tree preserves, all of them preserve.
LEMMA RegisterTreesFold ==
  ASSUME NEW s, NEW S, IsFiniteSet(S), NEW I, NEW d \in I,
         \A f \in S, e \in I : RegisterTree(e, s, f) \in I
  PROVE  RegisterTrees(d, s, S) \in I
<1> DEFINE Body(g) == [R \in SUBSET S |-> IF R = {} THEN d ELSE RegisterTree(g[R \ {Pick(R)}], s, Pick(R))]
           it == CHOOSE g : g = Body(g)
<1>1. RegisterTrees(d, s, S) = it[S]
  BY DEF RegisterTrees, FoldSet, MapThenFoldSet, Pick
<1>2. \E g : g = Body(g)
  <2> DEFINE G == [p \in S \X I |-> RegisterTree(p[2], s, p[1])]
  <2>1. G \in [S \X I -> I] /\ \A f \in S, e \in I : G[<<f, e>>] = RegisterTree(e, s, f)
    OBVIOUS
  <2> HIDE DEF G
  <2>2. PICK g \in [SUBSET S -> I] : IsFold(g, S, d, G)
    BY <2>1, FoldExists
  <2>3. ASSUME NEW R \in SUBSET S, R # {}
        PROVE  G[<<Pick(R), g[R \ {Pick(R)}]>>] = RegisterTree(g[R \ {Pick(R)}], s, Pick(R))
    <3>1. Pick(R) \in R /\ R \ {Pick(R)} \in SUBSET S
      BY <2>3 DEF Pick
    <3> QED BY <2>1, <3>1
  <2>4. g = Body(g)
    BY <2>2, <2>3 DEF IsFold
  <2> QED BY <2>4
<1>3. it = Body(it)
  BY <1>2
<1> HIDE DEF it
<1> DEFINE P == {R \in SUBSET S : it[R] \in I}
<1>4. {} \in P
  BY <1>3
<1>5. ASSUME NEW R \in SUBSET S, R # {}, \A f \in R : R \ {f} \in P
      PROVE  R \in P
  <2>1. Pick(R) \in R
    BY <1>5 DEF Pick
  <2>2. it[R] = RegisterTree(it[R \ {Pick(R)}], s, Pick(R))
    BY <1>3, <1>5
  <2>3. it[R \ {Pick(R)}] \in I
    BY <1>5, <2>1
  <2> QED BY <2>1, <2>2, <2>3
<1>6. S \in P
  <2> HIDE DEF P
  <2>1. \A R \in SUBSET S : (R = {} \/ \A f \in R : R \ {f} \in P) => R \in P
    BY <1>4, <1>5
  <2> QED BY <2>1, SubsetInduct
<1> QED BY <1>1, <1>6

\* The same for patterns.
LEMMA RegisterGlobsFold ==
  ASSUME NEW s, NEW S, IsFiniteSet(S), NEW I, NEW d \in I,
         \A f \in S, e \in I : RegisterGlob(e, s, f) \in I
  PROVE  RegisterGlobs(d, s, S) \in I
<1> DEFINE Body(g) == [R \in SUBSET S |-> IF R = {} THEN d ELSE RegisterGlob(g[R \ {Pick(R)}], s, Pick(R))]
           it == CHOOSE g : g = Body(g)
<1>1. RegisterGlobs(d, s, S) = it[S]
  BY DEF RegisterGlobs, FoldSet, MapThenFoldSet, Pick
<1>2. \E g : g = Body(g)
  <2> DEFINE G == [p \in S \X I |-> RegisterGlob(p[2], s, p[1])]
  <2>1. G \in [S \X I -> I] /\ \A f \in S, e \in I : G[<<f, e>>] = RegisterGlob(e, s, f)
    OBVIOUS
  <2> HIDE DEF G
  <2>2. PICK g \in [SUBSET S -> I] : IsFold(g, S, d, G)
    BY <2>1, FoldExists
  <2>3. ASSUME NEW R \in SUBSET S, R # {}
        PROVE  G[<<Pick(R), g[R \ {Pick(R)}]>>] = RegisterGlob(g[R \ {Pick(R)}], s, Pick(R))
    <3>1. Pick(R) \in R /\ R \ {Pick(R)} \in SUBSET S
      BY <2>3 DEF Pick
    <3> QED BY <2>1, <3>1
  <2>4. g = Body(g)
    BY <2>2, <2>3 DEF IsFold
  <2> QED BY <2>4
<1>3. it = Body(it)
  BY <1>2
<1> HIDE DEF it
<1> DEFINE P == {R \in SUBSET S : it[R] \in I}
<1>4. {} \in P
  BY <1>3
<1>5. ASSUME NEW R \in SUBSET S, R # {}, \A f \in R : R \ {f} \in P
      PROVE  R \in P
  <2>1. Pick(R) \in R
    BY <1>5 DEF Pick
  <2>2. it[R] = RegisterGlob(it[R \ {Pick(R)}], s, Pick(R))
    BY <1>3, <1>5
  <2>3. it[R \ {Pick(R)}] \in I
    BY <1>5, <2>1
  <2> QED BY <2>1, <2>2, <2>3
<1>6. S \in P
  <2> HIDE DEF P
  <2>1. \A R \in SUBSET S : (R = {} \/ \A f \in R : R \ {f} \in P) => R \in P
    BY <1>4, <1>5
  <2> QED BY <2>1, SubsetInduct
<1> QED BY <1>1, <1>6

LEMMA RegisterGlobKeeps ==
  ASSUME NEW d, Sound(d), NEW s \in Step, NEW g \in Glob
  PROVE  Keeps(d, RegisterGlob(d, s, g))
<1> DEFINE good == Found(g) \cap Attached(d) \subseteq Rows(d, Static)
           b == Check(d, good)
           new == [step |-> s, glob |-> g, found |-> Found(g)]
           e == [b EXCEPT !.reg = @ \cup {new}]
<1>1. d \in DB /\ good \in BOOLEAN /\ new \in Registration
  BY LayoutType DEF Sound, SoundFiles, Found, Registration
<1>2. RegisterGlob(d, s, g) = e
  BY DEF RegisterGlob
<1> HIDE DEF good, new
<1>3. /\ b \in DB /\ (b.ok => d.ok) /\ b.row = d.row /\ b.hash = d.hash /\ b.st = d.st
      /\ SameGraph(d, b) /\ b.toCheck = d.toCheck
  BY <1>1, CheckType
<1> HIDE DEF b
<1>4. /\ e \in DB /\ e.ok = b.ok /\ e.row = b.row /\ e.hash = b.hash /\ e.st = b.st
      /\ SameGraph(b, e) /\ e.toCheck = b.toCheck
  BY <1>1, <1>3 DEF DB, SameGraph
<1> HIDE DEF e
<1>5. Keeps(d, e)
  BY <1>3, <1>4, SameKeeps DEF SameGraph
<1> QED BY <1>2, <1>5

LEMMA StaticCallFollows ==
  ASSUME NEW d, Sound(d), NEW s \in Step, NEW c \in Statics[s]
  PROVE  Follows(d, StaticCall(d, s, c))
<1> DEFINE outer == {t \in c.trees : \A o \in c.trees : t \notin Inside[o]}
           found == UNION {Found(g) : g \in c.globs}
           trees == RegisterTrees(d, s, outer)
           F == c.files \cup found
           files == DeclareStatic(trees, s, F)
           globs == RegisterGlobs(files, s, c.globs)
           I == {e \in DB : Follows(d, e)}
<1>1. StaticCall(d, s, c) = globs
  BY DEF StaticCall, RegisterTrees, RegisterGlobs
<1>2. c.files \in SUBSET File /\ c.trees \in SUBSET Tree /\ c.globs \in SUBSET Glob
  BY CallType
<1>3. outer \in SUBSET Tree /\ IsFiniteSet(outer) /\ IsFiniteSet(c.globs)
  BY <1>2, FiniteKinds, FS_Subset
<1>4. F \in SUBSET File
  BY <1>2, LayoutType DEF Found
<1>5. ASSUME NEW e \in I, NEW g, Follows(e, g) PROVE g \in I
  BY <1>5, FollowsTrans DEF Follows, Sound, SoundFiles
<1>6. d \in I
  BY KeepsSelf, KeepsFollows DEF Sound, SoundFiles
<1>7. \A e \in I : Sound(e)
  BY DEF Follows
<1> HIDE DEF I
<1>8. ASSUME NEW t \in outer, NEW e \in I PROVE RegisterTree(e, s, t) \in I
  <2>1. TreesOfPlan => s = Plan
    BY DEF TreesOfPlan
  <2> QED BY <1>3, <1>5, <1>7, <2>1, RegisterTreeFollows
<1> HIDE DEF outer, F
<1>9. trees \in I
  BY <1>3, <1>6, <1>8, RegisterTreesFold
<1> HIDE DEF trees
<1>10. files \in I
  BY <1>4, <1>5, <1>7, <1>9, DeclareStaticFollows
<1> HIDE DEF files
<1>11. ASSUME NEW g \in c.globs, NEW e \in I PROVE RegisterGlob(e, s, g) \in I
  <2>1. Keeps(e, RegisterGlob(e, s, g))
    BY <1>2, <1>7, RegisterGlobKeeps
  <2> QED BY <1>5, <2>1, KeepsFollows
<1>12. globs \in I
  BY <1>3, <1>10, <1>11, RegisterGlobsFold
<1> QED BY <1>1, <1>12 DEF I

(***************************************************************************)
(* Declaring outputs.                                                      *)
(***************************************************************************)
\* s declares f, and an edge leads to it.
OutputOf(e, s, f, state) == [DeclareFile(e, s, f, state) EXCEPT !.out[s] = @ \cup {f}]

LEMMA OutputOfKeeps ==
  ASSUME NEW d, Sound(d), NEW s \in Step, d.st[s] # "SUCCEEDED", NEW f \in File,
         NEW state \in {"PLANNED", "VOLATILE"}
  PROVE  LET g == OutputOf(d, s, f, state)
         IN Keeps(d, g) /\ Calm(d, g) /\ d.out[s] \cup {f} \subseteq g.out[s]
<1> DEFINE y == CreateFile(d, f, s, state)
           good == MayDeclare(y, s, f)
           x == Check(y, good)
           g == OutputOf(d, s, f, state)
<1>1. d \in DB /\ s \in Owner /\ s \in Owner \cup {None} /\ s \notin Tree /\ state \in FirstState
  BY Kinds DEF Sound, SoundFiles, FirstState
<1>2. Created(d, y, f, s, state)
  BY <1>1, CreateFileCreates
<1>3. good \in BOOLEAN /\ (good => Over(y, f) = {})
  BY <1>1 DEF MayDeclare
<1>4. g = [x EXCEPT !.out[s] = @ \cup {f}]
  BY DEF OutputOf, DeclareFile, Declared
<1> HIDE DEF y, good
<1>5. y \in DB /\ y.cr = [d.cr EXCEPT ![f] = s] /\ \A r \in Step : y.out[r] = d.out[r] \ {f}
  BY <1>2 DEF Created
<1>6. /\ x \in DB /\ x.cr = y.cr /\ x.row = y.row /\ x.hash = y.hash /\ x.st = y.st
      /\ x.out = y.out /\ x.dynOut = y.dynOut /\ x.toCheck = y.toCheck
      /\ (x.ok => y.ok) /\ (x.ok => good)
  BY <1>3, <1>5, CheckType DEF SameGraph
<1> HIDE DEF x, g
<1>7. /\ g \in DB /\ g.cr = x.cr /\ g.row = x.row /\ g.hash = x.hash /\ g.st = x.st
      /\ g.dynOut = x.dynOut /\ g.toCheck = x.toCheck /\ g.ok = x.ok
      /\ \A r \in Step : g.out[r] = IF r = s THEN x.out[r] \cup {f} ELSE x.out[r]
  BY <1>4, <1>6 DEF DB
<1>8. \A r \in Step : g.out[r] = IF r = s /\ state \in {"PLANNED", "VOLATILE"}
                                 THEN y.out[r] \cup {f} ELSE y.out[r]
  BY <1>6, <1>7
<1>9. /\ g.cr = y.cr /\ g.row = y.row /\ g.hash = y.hash /\ g.st = y.st
      /\ g.dynOut = y.dynOut /\ g.toCheck = y.toCheck /\ (g.ok => y.ok) /\ (g.ok => good)
  BY <1>6, <1>7
<1>9a. WithEdge(y, g, f, s, state)
  BY <1>7, <1>8, <1>9 DEF WithEdge
<1>10. /\ state = "UNDECLARED" => s = None
       /\ state \in {"PLANNED", "VOLATILE"} => s \in Step /\ d.st[s] # "SUCCEEDED"
  OBVIOUS
<1>11. Renews(d, g, {f})
  <2>1. SoundFiles(d)
    BY DEF Sound
  <2> QED BY <1>1, <1>2, <1>9a, <1>10, <2>1, CreatedRenews
<1>12. ASSUME d.ok, g.ok, NEW t \in Tree, f \in Under[t], d.cr[t] = Plan PROVE s \in {None, t}
  <2>1. d.cr[Plan] = Root
    BY DEF Sound, SoundFiles, Recorded
  <2>2. y.cr[Plan] = Root /\ y.cr[t] = Plan /\ t \in Owner
    BY <1>5, <1>12, <2>1, Kinds
  <2>3. t \in Attached(y)
    BY <1>5, <2>2, AttachedFacts
  <2>4. t \in Over(y, f)
    BY <1>12, <2>3 DEF Over
  <2> QED BY <1>3, <1>9, <1>12, <2>4
<1>13. FollowsBut(d, g, {f})
  BY <1>1, <1>2, <1>9, <1>11, <1>12, CreatedFollows
<1>14. g.row[f] # "UNCONFIRMED"
  BY <1>2, <1>9 DEF Created
<1>15. Keeps(d, g)
  BY <1>13, <1>14 DEF FollowsBut, Renews, Keeps
<1>16. Calm(d, g)
  BY <1>2, <1>9 DEF Created, Calm
<1> QED BY <1>5, <1>8, <1>15, <1>16 DEF g

LEMMA OutputOfType ==
  ASSUME NEW d \in DB, NEW s \in Step, NEW f \in File, NEW state \in {"PLANNED", "VOLATILE"}
  PROVE  OutputOf(d, s, f, state) \in DB
<1> DEFINE x == DeclareFile(d, s, f, state)
<1>1. x \in DB
  BY DeclareFileType, Kinds DEF FirstState
<1> HIDE DEF x
<1> QED BY <1>1 DEF OutputOf, DB, x

\* The folds of DeclareOutputs.
OutputsOf(d, s, N, state) ==
  LET Out(f, e) == [DeclareFile(e, s, f, state) EXCEPT !.out[s] = @ \cup {f}] IN FoldSet(Out, d, N)

\* it declares the files of N one by one.
OutputsAll(it, s, N, state) ==
  \A R \in SUBSET N : R # {} => \E f \in R : it[R] = OutputOf(it[R \ {f}], s, f, state)

\* The recursive function that OutputsOf computes.
LEMMA OutputsOfFold ==
  ASSUME NEW d \in DB, NEW s \in Step, NEW state \in {"PLANNED", "VOLATILE"}, NEW N \in SUBSET File
  PROVE  \E it : /\ OutputsOf(d, s, N, state) = it[N] /\ it[{}] = d
                 /\ OutputsAll(it, s, N, state)
<1> DEFINE Body(g) == [R \in SUBSET N |-> IF R = {} THEN d ELSE OutputOf(g[R \ {Pick(R)}], s, Pick(R), state)]
           it == CHOOSE g : g = Body(g)
<1>1. OutputsOf(d, s, N, state) = it[N]
  BY DEF OutputsOf, OutputOf, FoldSet, MapThenFoldSet, Pick
<1>2. \E g : g = Body(g)
  <2> DEFINE G == [p \in N \X DB |-> OutputOf(p[2], s, p[1], state)]
  <2>1. G \in [N \X DB -> DB] /\ \A f \in N, e \in DB : G[<<f, e>>] = OutputOf(e, s, f, state)
    BY OutputOfType
  <2>2. IsFiniteSet(N) /\ d \in DB
    BY FiniteKinds, FS_Subset
  <2> HIDE DEF G
  <2>3. PICK g \in [SUBSET N -> DB] : IsFold(g, N, d, G)
    BY <2>1, <2>2, FoldExists
  <2>4. ASSUME NEW R \in SUBSET N, R # {}
        PROVE  G[<<Pick(R), g[R \ {Pick(R)}]>>] = OutputOf(g[R \ {Pick(R)}], s, Pick(R), state)
    <3>1. Pick(R) \in R /\ R \ {Pick(R)} \in SUBSET N
      BY <2>4 DEF Pick
    <3> QED BY <2>1, <3>1
  <2>5. g = Body(g)
    BY <2>3, <2>4 DEF IsFold
  <2> QED BY <2>5
<1>3. it = Body(it)
  BY <1>2
<1> HIDE DEF it
<1>4. it[{}] = d
  BY <1>3
<1>5. ASSUME NEW R \in SUBSET N, R # {}
      PROVE  \E f \in R : it[R] = OutputOf(it[R \ {f}], s, f, state)
  <2>1. Pick(R) \in R
    BY <1>5 DEF Pick
  <2>2. it[R] = OutputOf(it[R \ {Pick(R)}], s, Pick(R), state)
    BY <1>3, <1>5
  <2> QED BY <2>1, <2>2
<1>6. OutputsAll(it, s, N, state)
  BY <1>5 DEF OutputsAll
<1> QED BY <1>1, <1>4, <1>6

LEMMA OutputsOfKeep ==
  ASSUME NEW d, Sound(d), NEW s \in Step, d.st[s] # "SUCCEEDED", NEW N \in SUBSET File,
         NEW state \in {"PLANNED", "VOLATILE"}
  PROVE  LET g == OutputsOf(d, s, N, state)
         IN Keeps(d, g) /\ Calm(d, g) /\ d.out[s] \cup N \subseteq g.out[s]
<1>1. d \in DB /\ IsFiniteSet(N)
  BY FiniteKinds, FS_Subset DEF Sound, SoundFiles
<1>2. PICK it : /\ OutputsOf(d, s, N, state) = it[N] /\ it[{}] = d
                /\ OutputsAll(it, s, N, state)
  BY <1>1, OutputsOfFold
<1> DEFINE P == {R \in SUBSET N : Keeps(d, it[R]) /\ Calm(d, it[R]) /\ d.out[s] \cup R \subseteq it[R].out[s]}
<1>3. {} \in P
  BY <1>2, KeepsSelf DEF Calm
<1>4. ASSUME NEW R \in SUBSET N, R # {}, \A f \in R : R \ {f} \in P
      PROVE  R \in P
  <2>1. PICK f \in R : it[R] = OutputOf(it[R \ {f}], s, f, state)
    BY <1>2, <1>4 DEF OutputsAll
  <2> DEFINE e == it[R \ {f}]
             g == OutputOf(e, s, f, state)
  <2>2. Keeps(d, e) /\ Calm(d, e) /\ d.out[s] \cup (R \ {f}) \subseteq e.out[s]
    BY <1>4
  <2> HIDE DEF e
  <2>3. Sound(e) /\ e.st[s] # "SUCCEEDED" /\ f \in File
    BY <2>2 DEF Keeps, Calm
  <2>4. Keeps(e, g) /\ Calm(e, g) /\ e.out[s] \cup {f} \subseteq g.out[s]
    BY <2>3, OutputOfKeeps
  <2>5. it[R] = g
    BY <2>1 DEF e
  <2> HIDE DEF g
  <2>6. Keeps(d, g) /\ Calm(d, g)
    BY <2>2, <2>4, KeepsTrans, CalmTrans
  <2>7. d.out[s] \cup R \subseteq g.out[s]
    BY <2>2, <2>4
  <2> QED BY <2>5, <2>6, <2>7
<1>5. N \in P
  <2> HIDE DEF P
  <2>1. \A R \in SUBSET N : (R = {} \/ \A f \in R : R \ {f} \in P) => R \in P
    BY <1>3, <1>4
  <2> QED BY <1>1, <2>1, SubsetInduct
<1> QED BY <1>2, <1>5

LEMMA DeclareOutputsKeeps ==
  ASSUME NEW d, Sound(d), NEW s \in Step, d.st[s] # "SUCCEEDED",
         NEW O \in SUBSET File, NEW V \in SUBSET File
  PROVE  LET g == DeclareOutputs(d, s, O, V)
         IN Keeps(d, g) /\ Calm(d, g) /\ O \cup V \subseteq g.out[s]
<1> DEFINE e == OutputsOf(d, s, O, "PLANNED")
           g == OutputsOf(e, s, V, "VOLATILE")
<1>1. DeclareOutputs(d, s, O, V) = g
  BY DEF DeclareOutputs, OutputsOf
<1>2. Keeps(d, e) /\ Calm(d, e) /\ d.out[s] \cup O \subseteq e.out[s]
  BY OutputsOfKeep
<1> HIDE DEF e
<1>3. Sound(e) /\ e.st[s] # "SUCCEEDED"
  BY <1>2 DEF Keeps, Calm
<1>4. Keeps(e, g) /\ Calm(e, g) /\ e.out[s] \cup V \subseteq g.out[s]
  BY <1>3, OutputsOfKeep
<1> HIDE DEF g
<1>5. Keeps(d, g) /\ Calm(d, g)
  BY <1>2, <1>4, KeepsTrans, CalmTrans
<1>6. O \cup V \subseteq g.out[s]
  BY <1>2, <1>4
<1> QED BY <1>1, <1>5, <1>6

(***************************************************************************)
(* Defining and amending steps.                                            *)
(***************************************************************************)
LEMMA CheckKeeps ==
  ASSUME NEW d, Sound(d), NEW good \in BOOLEAN
  PROVE  Keeps(d, Check(d, good))
<1> DEFINE e == Check(d, good)
<1>1. /\ e \in DB /\ e.row = d.row /\ e.hash = d.hash /\ e.st = d.st
      /\ SameGraph(d, e) /\ e.toCheck = d.toCheck /\ (e.ok => d.ok)
  BY CheckType DEF Sound, SoundFiles
<1> HIDE DEF e
<1>2. Keeps(d, e)
  BY <1>1, SameKeeps
<1> QED BY <1>2 DEF e

\* Another step gets the creator s.
LEMMA TakeKeeps ==
  ASSUME NEW d, Sound(d), NEW t \in Step \ {Plan}, NEW s \in Step
  PROVE  Keeps(d, Take(d, t, s)) /\ Take(d, t, s).st = d.st
<1> DEFINE e == Take(d, t, s)
<1>1. t \in Node /\ s \in Node \cup {None}
  BY Kinds
<1>2. /\ e \in DB /\ e.cr = [d.cr EXCEPT ![t] = s]
      /\ e.row = d.row /\ e.hash = d.hash /\ e.st = d.st /\ e.out = d.out /\ e.dynOut = d.dynOut
      /\ e.toCheck = d.toCheck /\ e.ok = d.ok
  BY <1>1, TakeType DEF Sound, SoundFiles
<1> HIDE DEF e
<1>3. \A n \in Node \ {t} : e.cr[n] = d.cr[n]
  BY <1>2
<1>4. /\ \A f \in File : e.cr[f] = d.cr[f]
      /\ \A u \in Tree : e.cr[u] = d.cr[u]
      /\ e.cr[Plan] = d.cr[Plan]
  BY <1>3, Kinds
<1>5. Recorded(e)
  BY <1>2, <1>4 DEF Sound, SoundFiles, Recorded
<1>6. e.ok => FilesClaimed(e)
  BY <1>2, <1>4 DEF Sound, SoundFiles, FilesClaimed, Claimed
<1>7. ASSUME e.ok, TreesOfPlan PROVE TreesClaimed(e)
  <2>1. TreesClaimed(d)
    BY <1>2, <1>7 DEF Sound
  <2>2. \A u \in Tree : \A f \in Under[u] : e.cr[f] = d.cr[f]
    BY <1>4, LayoutType
  <2> QED BY <1>4, <2>1, <2>2 DEF TreesClaimed
<1>8. ASSUME NEW f \in File PROVE Kept(d, e, f)
  BY <1>2, <1>4 DEF Kept, OfPlan
<1> QED BY <1>2, <1>5, <1>6, <1>7, <1>8 DEF Keeps, Sound, SoundFiles, e

LEMMA RecycleFollows ==
  ASSUME NEW d, Sound(d), NEW s \in Step, NEW c \in Defines[s]
  PROVE  Follows(d, Recycle(d, s, c))
<1> DEFINE t == c.step
           e == Take(d, t, s)
           X == UnconfirmedInputs(e, t)
           f == WithChecks(e, X)
           g == MarkPending(f, {t})
<1>1. t \in Step \ {Plan}
  BY CallType
<1>2. Recycle(d, s, c) = IF e.st[t] = "FAILED" THEN g ELSE f
  BY DEF Recycle, WithChecks
<1> HIDE DEF t
<1>3. Keeps(d, e)
  BY <1>1, TakeKeeps
<1> HIDE DEF e
<1>4. FollowsBut(d, e, {})
  BY <1>3, KeepsFollows
<1>5. X \in SUBSET File
  <2>1. e \in DB
    BY <1>3 DEF Keeps, Sound, SoundFiles
  <2> QED BY <2>1 DEF UnconfirmedInputs, Rows
<1> HIDE DEF X
<1>6. Follows(d, f)
  BY <1>4, <1>5, CheckedFollows
<1> HIDE DEF f
<1>7. {t} \in SUBSET Step /\ Sound(f)
  BY <1>1, <1>6 DEF Follows
<1>8. Keeps(f, g)
  BY <1>7, MarkPendingKeeps
<1> HIDE DEF g
<1>9. Follows(d, g)
  BY <1>6, <1>8, KeepsFollows, FollowsTrans
<1> QED BY <1>2, <1>6, <1>9

LEMMA CreateStepKeeps ==
  ASSUME NEW d, Sound(d), NEW s \in Step, NEW t \in Step \ {Plan}
  PROVE  Keeps(d, CreateStep(d, s, t)) /\ CreateStep(d, s, t).st[t] = "PENDING"
<1> DEFINE a == Take(d, t, s)
           N == Products(d, t)
           b == Detach(a, N)
           e == SetSteps(b, {t}, "PENDING")
           g == CreateStep(d, s, t)
<1>1. g = [e EXCEPT !.inp[t] = {}, !.dyn[t] = {}]
  BY DEF CreateStep
<1>2. Keeps(d, a)
  BY TakeKeeps
<1> HIDE DEF a, g
<1>3. N \in SUBSET Node /\ Plan \notin N
  BY Kinds DEF Sound, SoundFiles, Recorded, Products
<1> HIDE DEF N
<1>4. Keeps(a, b)
  BY <1>2, <1>3, DetachKeeps DEF Keeps
<1> HIDE DEF b
<1>5. Keeps(b, e) /\ e \in DB /\ e.st[t] = "PENDING"
  <2>1. Sound(b) /\ b \in DB /\ {t} \in SUBSET Step /\ "PENDING" \in StepState \ {"SUCCEEDED"}
    BY <1>4 DEF Keeps, Sound, SoundFiles, StepState
  <2>2. Keeps(b, e)
    BY <2>1, SetStepsKeeps
  <2>3. e.st[t] = "PENDING"
    <3>1. "PENDING" \in StepState
      BY DEF StepState
    <3>2. e.st = [r \in Step |-> IF r \in {t} THEN "PENDING" ELSE b.st[r]]
      BY <2>1, <3>1, SetStepsType
    <3> QED BY <3>2
  <2> QED BY <2>2, <2>3 DEF Keeps, Sound, SoundFiles
<1> HIDE DEF e
<1>6. /\ g \in DB /\ SameGraph(e, g) /\ g.row = e.row /\ g.hash = e.hash /\ g.st = e.st
      /\ g.ok = e.ok /\ g.toCheck = e.toCheck
  BY <1>1, <1>5 DEF DB, SameGraph
<1>7. Keeps(e, g)
  BY <1>5, <1>6, SameKeeps DEF Keeps
<1>8. Keeps(d, g)
  BY <1>2, <1>4, <1>5, <1>7, KeepsTrans
<1> QED BY <1>5, <1>6, <1>8 DEF g

LEMMA DefineStepFollows ==
  ASSUME NEW d, Sound(d), NEW s \in Step, NEW c \in Defines[s]
  PROVE  Follows(d, DefineStep(d, s, c))
<1> DEFINE t == c.step
           good == NoGlobMatch(d, c.out \cup c.vol)
           e == Check(d, good)
           fine == /\ StepIsNew(d, t)
                   /\ Unclaimed(d, c.out \cup c.vol) /\ NoOverlap(c.out, c.vol)
           fresh == Check(e, fine)
           new == CreateStep(fresh, s, t)
           sup == Supply(new, c.inp)
           x == [sup EXCEPT !.inp[t] = c.inp]
           g == DeclareOutputs(x, t, c.out, c.vol)
           r == Recycle(e, s, c)
<1>1. DefineStep(d, s, c) = IF CanRecycle(d, c) THEN r ELSE g
  BY DEF DefineStep
<1>2. /\ t \in Step \ {Plan} /\ c.inp \in SUBSET File
      /\ c.out \in SUBSET File /\ c.vol \in SUBSET File
  BY CallType
<1>3. good \in BOOLEAN /\ fine \in BOOLEAN
  BY DEF NoGlobMatch, StepIsNew, Unclaimed, NoOverlap
<1> HIDE DEF t, good, fine
<1>4. Keeps(d, e)
  BY <1>3, CheckKeeps
<1> HIDE DEF e
<1>5. Keeps(e, fresh)
  BY <1>3, <1>4, CheckKeeps DEF Keeps
<1>6. Follows(e, r)
  BY <1>4, RecycleFollows DEF Keeps
<1> HIDE DEF fresh, r
<1>7. Keeps(fresh, new) /\ new.st[t] = "PENDING"
  BY <1>2, <1>5, CreateStepKeeps DEF Keeps
<1> HIDE DEF new
<1>8. Follows(new, sup) /\ Calm(new, sup)
  BY <1>2, <1>7, SupplyFollows DEF Keeps
<1> HIDE DEF sup
<1>9. Sound(sup) /\ sup \in DB /\ sup.st[t] = "PENDING"
  BY <1>2, <1>7, <1>8 DEF Follows, Sound, SoundFiles, Calm
<1>10. /\ x \in DB /\ SameGraph(sup, x) /\ x.row = sup.row /\ x.hash = sup.hash /\ x.st = sup.st
       /\ x.ok = sup.ok /\ x.toCheck = sup.toCheck
  BY <1>2, <1>9 DEF DB, SameGraph
<1> HIDE DEF x
<1>11. Keeps(sup, x) /\ Sound(x) /\ x.st[t] # "SUCCEEDED"
  BY <1>9, <1>10, SameKeeps
<1>12. Keeps(x, g)
  BY <1>2, <1>11, DeclareOutputsKeeps
<1> HIDE DEF g
<1>13. Follows(d, r)
  BY <1>4, <1>6, KeepsFollows, FollowsTrans
<1>14. Follows(d, g)
  <2>1. Follows(d, new)
    BY <1>4, <1>5, <1>7, KeepsFollows, KeepsTrans
  <2>2. Follows(sup, g)
    BY <1>11, <1>12, KeepsFollows, KeepsTrans
  <2> QED BY <1>8, <2>1, <2>2, FollowsTrans
<1> QED BY <1>1, <1>13, <1>14

\* The edges to some outputs of s are marked as added by amend().
LEMMA DynOutKeeps ==
  ASSUME NEW d, Sound(d), NEW s \in Step, NEW N \in SUBSET d.out[s]
  PROVE  Keeps(d, [d EXCEPT !.dynOut[s] = @ \cup N])
<1> DEFINE e == [d EXCEPT !.dynOut[s] = @ \cup N]
<1>1. d \in DB /\ Recorded(d)
  BY DEF Sound, SoundFiles
<1>2. /\ e \in DB /\ e.cr = d.cr /\ e.row = d.row /\ e.hash = d.hash /\ e.st = d.st
      /\ e.out = d.out /\ e.ok = d.ok /\ e.toCheck = d.toCheck
      /\ \A r \in Step : e.dynOut[r] = IF r = s THEN d.dynOut[r] \cup N ELSE d.dynOut[r]
  BY <1>1 DEF DB
<1> HIDE DEF e
<1>3. Recorded(e)
  BY <1>1, <1>2 DEF Recorded
<1>4. e.ok => FilesClaimed(e)
  BY <1>2 DEF Sound, SoundFiles, FilesClaimed, Claimed
<1>5. e.ok /\ TreesOfPlan => TreesClaimed(e)
  BY <1>2, SameCreators DEF Sound
<1>6. ASSUME NEW f \in File PROVE Kept(d, e, f)
  BY <1>2, SameCreators DEF Kept
<1> QED BY <1>2, <1>3, <1>4, <1>5, <1>6 DEF Keeps, Sound, SoundFiles, e

LEMMA AmendStepFollows ==
  ASSUME NEW d, Sound(d), NEW s \in Step, d.st[s] = "RUNNING", NEW c \in Amends[s]
  PROVE  Follows(d, AmendStep(d, s, c))
<1> DEFINE sup == Supply(d, c.inp)
           a == [sup EXCEPT !.dyn[s] = @ \cup (c.inp \ d.inp[s])]
           O == NewClaims(a, s, c.out, Output)
           V == NewClaims(a, s, c.vol, {"VOLATILE"})
           new == O \cup V
           free == Unclaimed(a, new) /\ NoOverlap(O, V) /\ NoGlobMatch(a, new)
           b == Check(a, free)
           e == DeclareOutputs(b, s, O, V)
           g == [e EXCEPT !.dynOut[s] = @ \cup new]
<1>1. AmendStep(d, s, c) = g
  BY DEF AmendStep, Amended, AmendInputs, AmendOutputs
<1>2. c.inp \in SUBSET File /\ c.out \in SUBSET File /\ c.vol \in SUBSET File
  BY CallType
<1>3. O \in SUBSET File /\ V \in SUBSET File
  BY <1>2 DEF NewClaims
<1>4. free \in BOOLEAN
  BY DEF Unclaimed, NoOverlap, NoGlobMatch
<1> HIDE DEF O, V, free
<1>5. Follows(d, sup) /\ Calm(d, sup)
  BY <1>2, SupplyFollows
<1> HIDE DEF sup
<1>6. Sound(sup) /\ sup \in DB /\ sup.st[s] = "RUNNING"
  BY <1>5 DEF Follows, Sound, SoundFiles, Calm
<1>7. /\ a \in DB /\ SameGraph(sup, a) /\ a.row = sup.row /\ a.hash = sup.hash /\ a.st = sup.st
      /\ a.ok = sup.ok /\ a.toCheck = sup.toCheck
  BY <1>2, <1>6 DEF DB, SameGraph
<1> HIDE DEF a
<1>8. Keeps(sup, a) /\ Sound(a) /\ a \in DB
  BY <1>6, <1>7, SameKeeps
<1>9. Keeps(a, b) /\ b.st = a.st
  BY <1>4, <1>8, CheckKeeps, CheckType
<1> HIDE DEF b
<1>10. Sound(b) /\ b.st[s] # "SUCCEEDED"
  BY <1>6, <1>7, <1>9 DEF Keeps
<1>11. Keeps(b, e) /\ new \subseteq e.out[s]
  BY <1>3, <1>10, DeclareOutputsKeeps
<1> HIDE DEF e, new
<1>12. Keeps(e, g)
  BY <1>11, DynOutKeeps DEF Keeps
<1> HIDE DEF g
<1>13. Follows(sup, g)
  BY <1>8, <1>9, <1>11, <1>12, KeepsTrans, KeepsFollows
<1>14. Follows(d, g)
  BY <1>5, <1>13, FollowsTrans
<1> QED BY <1>1, <1>14

(***************************************************************************)
(* Reset.                                                                  *)
(***************************************************************************)
\* What s declared while it ran is detached, with the edges to dynamic outputs.
Given(d, s) ==
  {n \in Products(d, s) : n \in Step \cup Tree \cup Rows(d, Static)} \cup d.dynOut[s]

GivenUp(d, s) ==
  [Detach(CutOutputs(d, s, d.dynOut[s]), Given(d, s)) EXCEPT
     !.dyn[s] = {}, !.reg = {r \in @ : r.step # s}]

LEMMA GivenUpKeeps ==
  ASSUME NEW d, Sound(d), NEW s \in Step
  PROVE  Keeps(d, GivenUp(d, s)) /\ GivenUp(d, s).st = d.st /\ GivenUp(d, s).ok = d.ok
<1> DEFINE a == CutOutputs(d, s, d.dynOut[s])
           N == Given(d, s)
           b == Detach(a, N)
           e == GivenUp(d, s)
<1>1. d \in DB /\ Recorded(d)
  BY DEF Sound, SoundFiles
<1>2. /\ a \in DB /\ a.cr = d.cr /\ a.row = d.row /\ a.hash = d.hash /\ a.st = d.st
      /\ a.ok = d.ok /\ a.toCheck = d.toCheck
      /\ \A r \in Step : /\ a.out[r] = IF r = s THEN d.out[r] \ d.dynOut[s] ELSE d.out[r]
                         /\ a.dynOut[r] = IF r = s THEN {} ELSE d.dynOut[r]
  BY <1>1 DEF CutOutputs, DB
<1>3. N \in SUBSET Node /\ d.dynOut[s] \subseteq N /\ Plan \notin N
  <2>1. d.dynOut[s] \in SUBSET File
    BY <1>1 DEF DB
  <2>2. Plan \notin Products(d, s)
    BY <1>1, Kinds DEF Recorded, Products
  <2> QED BY <2>1, <2>2, Kinds DEF Given, Products
<1>4. e = [b EXCEPT !.dyn[s] = {}, !.reg = {r \in @ : r.step # s}]
  BY DEF GivenUp
<1> HIDE DEF a, N
<1>5. /\ b \in DB /\ b.cr = [n \in Node |-> IF n \in N THEN None ELSE a.cr[n]]
      /\ b.row = a.row /\ b.hash = a.hash /\ b.st = a.st /\ b.out = a.out /\ b.dynOut = a.dynOut
      /\ b.toCheck = a.toCheck /\ b.ok = a.ok
  BY <1>2, <1>3, DetachType DEF SameMemory
<1> HIDE DEF b, e
<1>6. /\ e \in DB /\ e.cr = b.cr /\ e.row = b.row /\ e.hash = b.hash /\ e.st = b.st
      /\ e.out = b.out /\ e.dynOut = b.dynOut /\ e.toCheck = b.toCheck /\ e.ok = b.ok
  BY <1>4, <1>5 DEF DB
<1>7. \A n \in Node : /\ e.cr[n] = d.cr[n] \/ e.cr[n] = None
                      /\ n \in N => e.cr[n] = None
  BY <1>2, <1>5, <1>6
<1>8. Recorded(e)
  <2>1. e.cr[Plan] = d.cr[Plan]
    BY <1>2, <1>3, <1>5, <1>6, Kinds
  <2>2. ASSUME NEW r \in Step PROVE e.dynOut[r] \subseteq e.out[r]
    <3>1. e.out[r] = a.out[r] /\ e.dynOut[r] = a.dynOut[r]
      BY <1>5, <1>6
    <3>2. d.dynOut[r] \subseteq d.out[r]
      BY <1>1 DEF Recorded
    <3>3. CASE r = s
      BY <1>2, <3>1, <3>3
    <3>4. CASE r # s
      BY <1>2, <3>1, <3>2, <3>4
    <3> QED BY <3>3, <3>4
  <2> QED BY <1>1, <1>2, <1>5, <1>6, <2>1, <2>2 DEF Recorded
<1>9. ASSUME e.ok, NEW f \in File, e.cr[f] # None PROVE Claimed(e, f)
  <2>1. f \in Node /\ f \notin N /\ e.cr[f] = d.cr[f]
    BY <1>7, <1>9, Kinds
  <2>2. f \notin d.dynOut[s]
    BY <1>3, <2>1
  <2>3. ASSUME NEW r \in Step PROVE f \in e.out[r] <=> f \in d.out[r]
    <3>1. e.out[r] = a.out[r]
      BY <1>5, <1>6
    <3>2. CASE r = s
      BY <1>2, <2>2, <3>1, <3>2
    <3>3. CASE r # s
      BY <1>2, <3>1, <3>3
    <3> QED BY <3>2, <3>3
  <2>4. Claimed(d, f)
    BY <1>2, <1>5, <1>6, <1>9, <2>1 DEF Sound, SoundFiles, FilesClaimed
  <2>5. e.row = d.row /\ e.st = d.st
    BY <1>2, <1>5, <1>6
  <2> QED BY <2>1, <2>3, <2>4, <2>5 DEF Claimed
<1>10. ASSUME e.ok, TreesOfPlan PROVE TreesClaimed(e)
  <2>1. TreesClaimed(d)
    BY <1>2, <1>5, <1>6, <1>10 DEF Sound
  <2>2. ASSUME NEW t \in Tree
        PROVE  e.cr[t] \in {None, Plan} /\ (e.cr[t] = Plan => d.cr[t] = Plan)
    BY <1>7, <2>1, Kinds DEF TreesClaimed
  <2>3. ASSUME NEW t \in Tree, NEW f \in Under[t], e.cr[t] = Plan PROVE e.cr[f] \in {None, t}
    <3>1. f \in Node
      BY LayoutType, Kinds
    <3>2. d.cr[f] \in {None, t}
      BY <2>1, <2>2, <2>3 DEF TreesClaimed
    <3> QED BY <1>7, <3>1, <3>2
  <2> QED BY <2>1, <2>2, <2>3 DEF TreesClaimed
<1>11. ASSUME NEW f \in File PROVE Kept(d, e, f)
  <2>1. OfPlan(e, f) => OfPlan(d, f)
    BY <1>7, Kinds DEF OfPlan
  <2> QED BY <1>2, <1>5, <1>6, <2>1 DEF Kept
<1>12. Keeps(d, e)
  BY <1>2, <1>5, <1>6, <1>8, <1>9, <1>10, <1>11 DEF Keeps, Sound, SoundFiles, FilesClaimed
<1> QED BY <1>2, <1>5, <1>6, <1>12 DEF e

LEMMA ResetKeeps ==
  ASSUME NEW d, Sound(d), NEW s \in Step, d.st[s] # "SUCCEEDED"
  PROVE  Keeps(d, Reset(d, s)) /\ Reset(d, s).ok = d.ok
<1> DEFINE e == GivenUp(d, s)
           built == Products(e, s) \cap Rows(e, {"BUILT"})
           a == SetRows(e, built, "OUTDATED")
           g == MarkPending(a, Consumers(e, built))
<1>1. Reset(d, s) = g
  BY DEF Reset, GivenUp, Given
<1>2. Keeps(d, e) /\ e.st = d.st /\ e.ok = d.ok
  BY GivenUpKeeps
<1> HIDE DEF e
<1>3. Sound(e) /\ e \in DB /\ "OUTDATED" \in RowState
  BY <1>2 DEF Keeps, Sound, SoundFiles, RowState, Output
<1>4. built \in SUBSET File /\ \A f \in built : e.row[f] = "BUILT" /\ e.cr[f] = s
  BY DEF Rows, Products
<1>5. Consumers(e, built) \in SUBSET Step
  BY DEF Consumers
<1> HIDE DEF built
<1>6. /\ a \in DB /\ a.row = [f \in File |-> IF f \in built THEN "OUTDATED" ELSE e.row[f]]
      /\ a.st = e.st /\ a.hash = e.hash /\ SameGraph(e, a) /\ a.toCheck = e.toCheck /\ a.ok = e.ok
  BY <1>3, <1>4, SetRowsType DEF SameMemory
<1> HIDE DEF a
<1>7. ASSUME NEW f \in File
      PROVE  \/ a.row[f] = e.row[f] /\ a.hash[f] = e.hash[f]
             \/ e.row[f] \in Output /\ a.row[f] \in Output
  BY <1>4, <1>6 DEF Output
<1>8. ASSUME NEW f \in File, e.cr[f] \in Step, Claimed(e, f), a.st[e.cr[f]] = "SUCCEEDED",
             a.row[f] \in Output
      PROVE  a.row[f] = "BUILT"
  <2>1. f \notin built /\ a.row[f] = e.row[f]
    BY <1>2, <1>4, <1>6, <1>8
  <2>2. e.row[f] \notin Static \cup {"VOLATILE"}
    BY <1>8, <2>1 DEF Output, Static
  <2> QED BY <1>6, <1>8, <2>1, <2>2 DEF Claimed
<1>9. Keeps(e, a)
  BY <1>3, <1>6, <1>7, <1>8, OutputsKeep
<1>10. Keeps(a, g) /\ Marks(a, g, Consumers(e, built))
  BY <1>5, <1>9, MarkPendingKeeps DEF Keeps
<1> HIDE DEF g
<1>11. g.ok = a.ok
  BY <1>10 DEF Marks, SameMemory
<1> QED BY <1>1, <1>2, <1>6, <1>9, <1>10, <1>11, KeepsTrans

(***************************************************************************)
(* File hashes.                                                            *)
(***************************************************************************)
DiskType == disk \in [File -> Content]

\* A static file is current.
Settled(e, f) == e.row[f] \in Static => Current(e, f)

\* e is d with the hashes of F renewed, and what depends on them marked.
Rehash(d, e, F) ==
  /\ Sound(e) /\ e.cr = d.cr /\ e.toCheck = d.toCheck /\ (e.ok => d.ok)
  /\ \A f \in File \ F :
       e.hash[f] = d.hash[f] /\ (e.row[f] = d.row[f] \/ (d.row[f] = "BUILT" /\ e.row[f] = "OUTDATED"))
  /\ \A f \in F : Settled(e, f)

LEMMA RehashTrans ==
  ASSUME NEW d, NEW e, NEW g, NEW F \in SUBSET File, NEW G \in SUBSET File,
         Rehash(d, e, F), Rehash(e, g, G)
  PROVE  Rehash(d, g, F \cup G)
<1>1. Sound(g) /\ g.cr = d.cr /\ g.toCheck = d.toCheck /\ (g.ok => d.ok)
  BY DEF Rehash
<1>2. ASSUME NEW f \in File \ (F \cup G)
      PROVE  g.hash[f] = d.hash[f] /\ (g.row[f] = d.row[f] \/ (d.row[f] = "BUILT" /\ g.row[f] = "OUTDATED"))
  <2>1. e.hash[f] = d.hash[f] /\ (e.row[f] = d.row[f] \/ (d.row[f] = "BUILT" /\ e.row[f] = "OUTDATED"))
    BY DEF Rehash
  <2>2. g.hash[f] = e.hash[f] /\ (g.row[f] = e.row[f] \/ (e.row[f] = "BUILT" /\ g.row[f] = "OUTDATED"))
    BY DEF Rehash
  <2> QED BY <2>1, <2>2
<1>3. ASSUME NEW f \in F \cup G PROVE Settled(g, f)
  <2>1. CASE f \in G
    BY <2>1 DEF Rehash
  <2>2. CASE f \notin G
    <3>1. Settled(e, f) /\ f \in File \ G
      BY <2>2 DEF Rehash
    <3>2. g.hash[f] = e.hash[f] /\ (g.row[f] = e.row[f] \/ g.row[f] = "OUTDATED")
      BY <3>1 DEF Rehash
    <3>3. g.row[f] \in Static => g.row[f] = e.row[f]
      BY <3>2 DEF Static
    <3> QED BY <3>1, <3>2, <3>3 DEF Settled, Current
  <2> QED BY <2>1, <2>2
<1> QED BY <1>1, <1>2, <1>3 DEF Rehash

LEMMA SelfRehash ==
  ASSUME NEW d, Sound(d)
  PROVE  Rehash(d, d, {})
BY DEF Rehash

\* What says the same of all files.
LEMMA SameRehash ==
  ASSUME NEW d, Sound(d), NEW e \in DB, SameGraph(d, e), e.row = d.row, e.hash = d.hash,
         e.st = d.st, e.toCheck = d.toCheck, e.ok => d.ok
  PROVE  Rehash(d, e, {})
<1>1. Sound(e)
  BY SameKeeps
<1> QED BY <1>1 DEF Rehash, SameGraph

LEMMA MarksRehash ==
  ASSUME NEW d, Sound(d), NEW S \in SUBSET Step
  PROVE  Rehash(d, MarkPending(d, S), {}) /\ MarkPending(d, S).ok = d.ok
<1> DEFINE e == MarkPending(d, S)
<1>1. Marks(d, e, S) /\ Keeps(d, e)
  BY MarkPendingKeeps
<1> HIDE DEF e
<1>2. Sound(e) /\ e.cr = d.cr /\ e.toCheck = d.toCheck /\ e.ok = d.ok /\ e.hash = d.hash
  BY <1>1 DEF Keeps, Marks, SameGraph, SameMemory
<1>3. \A f \in File : e.row[f] = d.row[f] \/ (d.row[f] = "BUILT" /\ e.row[f] = "OUTDATED")
  BY <1>1 DEF Marks
<1> QED BY <1>2, <1>3 DEF Rehash, e

\* The state of a static file with what is on disk.
FileState(f) == IF Missing(f) THEN "MISSING" ELSE "CONFIRMED"

LEMMA HashedRehash ==
  ASSUME DiskType, NEW d, Sound(d), NEW f \in File, d.row[f] \in Static
  PROVE  Rehash(d, Hashed(d, f, FileState(f)), {f}) /\ Hashed(d, f, FileState(f)).ok = d.ok
<1> DEFINE new == FileState(f)
           e == Hashed(d, f, new)
<1>1. d \in DB /\ Recorded(d) /\ (d.ok => FilesClaimed(d))
  BY DEF Sound, SoundFiles
<1>2. /\ new \in {"MISSING", "CONFIRMED"} /\ new \in RowState /\ new \in Static
      /\ new = "MISSING" <=> disk[f] = None
  BY DEF FileState, Missing, RowState, Static
<1> HIDE DEF new
<1>3. /\ e \in DB /\ e.cr = d.cr /\ e.st = d.st /\ e.out = d.out /\ e.dynOut = d.dynOut
      /\ e.ok = d.ok /\ e.toCheck = d.toCheck
      /\ e.row[f] = new /\ e.hash[f] = disk[f]
      /\ \A h \in File \ {f} : e.row[h] = d.row[h] /\ e.hash[h] = d.hash[h]
  BY <1>1, <1>2 DEF DiskType, Hashed, DB
<1> HIDE DEF e
<1>4. Recorded(e)
  <2>1. ASSUME NEW h \in File
        PROVE  (e.row[h] = "CONFIRMED" => e.hash[h] # None) /\ (e.row[h] = "MISSING" => e.hash[h] = None)
    <3>1. CASE h = f
      BY <1>2, <1>3, <3>1
    <3>2. CASE h # f
      BY <1>1, <1>3, <3>2 DEF Recorded
    <3> QED BY <3>1, <3>2
  <2> QED BY <1>1, <1>3, <2>1 DEF Recorded
<1>5. ASSUME e.ok, NEW h \in File, e.cr[h] # None PROVE Claimed(e, h)
  <2>1. Claimed(d, h)
    BY <1>1, <1>3, <1>5 DEF FilesClaimed
  <2>2. CASE h = f
    <3>1. e.row[h] \notin {"NONE", "UNDECLARED"}
      BY <1>2, <1>3, <2>2
    <3> QED BY <1>2, <1>3, <2>1, <2>2, <3>1 DEF Claimed
  <2>3. CASE h # f
    BY <1>3, <2>1, <2>3 DEF Claimed
  <2> QED BY <2>2, <2>3
<1>6. e.ok /\ TreesOfPlan => TreesClaimed(e)
  BY <1>3, SameCreators DEF Sound
<1>7. Settled(e, f)
  BY <1>3 DEF Settled, Current, FileState, new
<1> QED BY <1>3, <1>4, <1>5, <1>6, <1>7 DEF Rehash, Sound, SoundFiles, FilesClaimed, e, new

\* A static file is hashed, and its consumers are marked.
LEMMA HashedMarks ==
  ASSUME DiskType, NEW d, Sound(d), NEW f \in File, d.row[f] \in Static, NEW S \in SUBSET Step
  PROVE  LET g == MarkPending(Hashed(d, f, FileState(f)), S)
         IN Rehash(d, g, {f}) /\ g.ok = d.ok
<1> DEFINE e == Hashed(d, f, FileState(f))
           g == MarkPending(e, S)
<1>1. Rehash(d, e, {f}) /\ e.ok = d.ok
  BY HashedRehash
<1> HIDE DEF e
<1>2. Rehash(e, g, {}) /\ g.ok = e.ok
  BY <1>1, MarksRehash DEF Rehash
<1> HIDE DEF g
<1>3. Rehash(d, g, {f} \cup {})
  BY <1>1, <1>2, RehashTrans
<1>4. {f} \cup {} = {f}
  OBVIOUS
<1>5. Rehash(d, g, {f})
  BY <1>3, <1>4
<1> QED BY <1>1, <1>2, <1>5 DEF g, e

LEMMA RefuseRehash ==
  ASSUME NEW d, Sound(d), NEW f \in File, d.row[f] \notin Static
  PROVE  Rehash(d, Refuse(d), {f})
<1> DEFINE e == Refuse(d)
<1>1. /\ e \in DB /\ e.row = d.row /\ e.hash = d.hash /\ e.st = d.st
      /\ SameGraph(d, e) /\ e.toCheck = d.toCheck /\ (e.ok => d.ok)
  BY CheckType DEF Sound, SoundFiles, Refuse
<1> HIDE DEF e
<1>2. Rehash(d, e, {})
  BY <1>1, SameRehash
<1>3. Rehash(d, e, {f})
  BY <1>1, <1>2 DEF Rehash, Settled
<1> QED BY <1>3 DEF e

LEMMA ConfirmRehash ==
  ASSUME DiskType, NEW d, Sound(d), NEW f \in File
  PROVE  Rehash(d, Confirm(d, f), {f}) /\ (d.ok /\ d.row[f] \in Static => Confirm(d, f).ok)
<1> DEFINE e == Hashed(d, f, FileState(f))
           S == Consumers(e, {f})
           g == MarkPending(e, S)
           r == Refuse(d)
<1>1. Confirm(d, f) = IF d.row[f] \notin Static THEN r
                      ELSE IF d.row[f] = FileState(f) THEN e ELSE g
  BY DEF Confirm, FileState
<1>2. S \in SUBSET Step
  BY DEF Consumers
<1> HIDE DEF S
<1>3. d.row[f] \in Static => Rehash(d, e, {f}) /\ e.ok = d.ok /\ Rehash(d, g, {f}) /\ g.ok = d.ok
  BY <1>2, HashedRehash, HashedMarks
<1>4. d.row[f] \notin Static => Rehash(d, r, {f})
  BY RefuseRehash
<1> HIDE DEF e, g, r
<1> QED BY <1>1, <1>3, <1>4

\* An output that is no longer what was built is PLANNED, and its step PENDING.
LEMMA PlannedMarks ==
  ASSUME NEW d, Sound(d), NEW f \in File, d.row[f] \in {"BUILT", "OUTDATED"},
         NEW S \in SUBSET Step, {d.cr[f]} \cap Step \subseteq S
  PROVE  LET g == MarkPending([d EXCEPT !.row[f] = "PLANNED", !.hash[f] = None], S)
         IN Rehash(d, g, {f}) /\ g.ok = d.ok
<1> DEFINE e == [d EXCEPT !.row[f] = "PLANNED", !.hash[f] = None]
           g == MarkPending(e, S)
<1>1. d \in DB /\ "PLANNED" \in RowState /\ None \in Content
  BY DEF Sound, SoundFiles, RowState, Output, Content
<1>2. /\ e \in DB /\ SameGraph(d, e) /\ e.st = d.st /\ e.ok = d.ok /\ e.toCheck = d.toCheck
      /\ e.row[f] = "PLANNED"
      /\ \A h \in File \ {f} : e.row[h] = d.row[h] /\ e.hash[h] = d.hash[h]
  BY <1>1 DEF DB, SameGraph
<1> HIDE DEF e
<1>3. Marks(e, g, S)
  BY <1>2, MarkPendingMarks
<1> HIDE DEF g
<1>4. g \in DB /\ SameGraph(d, g) /\ g.ok = d.ok /\ g.toCheck = d.toCheck /\ g.hash = e.hash
  BY <1>2, <1>3 DEF Marks, SameGraph, SameMemory
<1>5. ASSUME NEW h \in File
      PROVE  \/ g.row[h] = e.row[h]
             \/ /\ e.row[h] = "BUILT" /\ g.row[h] = "OUTDATED"
                /\ \E s \in Step : h \in e.out[s] /\ g.st[s] = "PENDING"
  BY <1>3 DEF Marks
<1>6. ASSUME NEW h \in File
      PROVE  \/ g.row[h] = d.row[h] /\ g.hash[h] = d.hash[h]
             \/ d.row[h] \in Output /\ g.row[h] \in Output
  <2>1. CASE h = f
    BY <1>2, <1>5, <2>1 DEF Output
  <2>2. CASE h # f
    BY <1>2, <1>4, <1>5, <2>2 DEF Output
  <2> QED BY <2>1, <2>2
<1>7. ASSUME NEW h \in File, d.cr[h] \in Step, Claimed(d, h), g.st[d.cr[h]] = "SUCCEEDED",
             g.row[h] \in Output
      PROVE  g.row[h] = "BUILT"
  <2>1. h # f
    <3>1. \A s \in S : g.st[s] # "SUCCEEDED"
      BY <1>3 DEF Marks
    <3> QED BY <1>7, <3>1
  <2>2. e.row[h] = d.row[h] /\ e.out = d.out
    BY <1>2, <2>1 DEF SameGraph
  <2>3. d.row[h] \notin Static \cup {"VOLATILE"}
    BY <1>5, <1>7, <2>2 DEF Output, Static
  <2>4. d.st[d.cr[h]] = "SUCCEEDED"
    BY <1>2, <1>3, <1>7 DEF Marks
  <2>5. d.row[h] = "BUILT" /\ \A s \in Step : h \in d.out[s] <=> s = d.cr[h]
    BY <1>7, <2>3, <2>4 DEF Claimed
  <2> QED BY <1>5, <1>7, <2>2, <2>5
<1>8. Keeps(d, g)
  BY <1>4, <1>6, <1>7, OutputsKeep
<1>9. ASSUME NEW h \in File \ {f}
      PROVE  g.hash[h] = d.hash[h] /\ (g.row[h] = d.row[h] \/ (d.row[h] = "BUILT" /\ g.row[h] = "OUTDATED"))
  BY <1>2, <1>4, <1>5
<1>10. Settled(g, f)
  <2>1. g.row[f] = "PLANNED"
    BY <1>2, <1>5
  <2> QED BY <2>1 DEF Settled, Static
<1> QED BY <1>4, <1>8, <1>9, <1>10 DEF Rehash, Keeps, SameGraph, g, e

LEMMA ExternalRehash ==
  ASSUME DiskType, NEW d, Sound(d), NEW f \in File
  PROVE  /\ Rehash(d, External(d, f), {f})
         /\ d.ok /\ d.row[f] \in Static \cup {"BUILT", "OUTDATED"} => External(d, f).ok
<1> DEFINE e == Hashed(d, f, FileState(f))
           S == Consumers(e, {f})
           g == MarkPending(e, S)
           p == [d EXCEPT !.row[f] = "PLANNED", !.hash[f] = None]
           T == ({d.cr[f]} \cap Step) \cup IF Missing(f) THEN Consumers(d, {f}) ELSE {}
           x == MarkPending(p, T)
           r == Refuse(d)
<1>1. External(d, f) = IF d.row[f] \in Static THEN g
                       ELSE IF d.row[f] \in {"BUILT", "OUTDATED"} THEN x ELSE r
  BY DEF External, FileState
<1>2. S \in SUBSET Step /\ T \in SUBSET Step /\ {d.cr[f]} \cap Step \subseteq T
  BY DEF Consumers
<1> HIDE DEF S, T
<1>3. d.row[f] \in Static => Rehash(d, g, {f}) /\ g.ok = d.ok
  BY <1>2, HashedMarks
<1>4. d.row[f] \in {"BUILT", "OUTDATED"} => Rehash(d, x, {f}) /\ x.ok = d.ok
  BY <1>2, PlannedMarks
<1>5. d.row[f] \notin Static => Rehash(d, r, {f})
  BY RefuseRehash
<1> HIDE DEF g, x, r
<1> QED BY <1>1, <1>3, <1>4, <1>5

\* The first scan of rescan_files.
Confirms(d, F) == LET Con(f, e) == Confirm(e, f) IN FoldSet(Con, d, F)

SoundDB == {e \in DB : Sound(e)}

\* it folds them.
ConfirmsAll(it, F) == \A R \in SUBSET F : R # {} => \E f \in R : it[R] = Confirm(it[R \ {f}], f)
ExternalsAll(it, F) == \A R \in SUBSET F : R # {} => \E f \in R : it[R] = External(it[R \ {f}], f)

\* The recursive function that Confirms computes.
LEMMA ConfirmsFold ==
  ASSUME DiskType, NEW d \in DB, Sound(d), NEW F \in SUBSET File
  PROVE  \E it : /\ Confirms(d, F) = it[F] /\ it[{}] = d
                 /\ ConfirmsAll(it, F)
<1> DEFINE Body(g) == [R \in SUBSET F |-> IF R = {} THEN d ELSE Confirm(g[R \ {Pick(R)}], Pick(R))]
           it == CHOOSE g : g = Body(g)
<1>1. Confirms(d, F) = it[F]
  BY DEF Confirms, FoldSet, MapThenFoldSet, Pick
<1>2. \E g : g = Body(g)
  <2> DEFINE G == [p \in F \X SoundDB |-> Confirm(p[2], p[1])]
  <2>1. G \in [F \X SoundDB -> SoundDB] /\ \A f \in F, e \in SoundDB : G[<<f, e>>] = Confirm(e, f)
    BY ConfirmRehash DEF Rehash, Sound, SoundFiles, SoundDB
  <2>2. IsFiniteSet(F) /\ d \in SoundDB
    BY FiniteKinds, FS_Subset DEF SoundDB
  <2> HIDE DEF G
  <2>3. PICK g \in [SUBSET F -> SoundDB] : IsFold(g, F, d, G)
    BY <2>1, <2>2, FoldExists
  <2>4. ASSUME NEW R \in SUBSET F, R # {}
        PROVE  G[<<Pick(R), g[R \ {Pick(R)}]>>] = Confirm(g[R \ {Pick(R)}], Pick(R))
    <3>1. Pick(R) \in R /\ R \ {Pick(R)} \in SUBSET F
      BY <2>4 DEF Pick
    <3> QED BY <2>1, <3>1
  <2>5. g = Body(g)
    BY <2>3, <2>4 DEF IsFold
  <2> QED BY <2>5
<1>3. it = Body(it)
  BY <1>2
<1> HIDE DEF it
<1>4. it[{}] = d
  BY <1>3
<1>5. ASSUME NEW R \in SUBSET F, R # {}
      PROVE  \E f \in R : it[R] = Confirm(it[R \ {f}], f)
  <2>1. Pick(R) \in R
    BY <1>5 DEF Pick
  <2>2. it[R] = Confirm(it[R \ {Pick(R)}], Pick(R))
    BY <1>3, <1>5
  <2> QED BY <2>1, <2>2
<1>6. ConfirmsAll(it, F)
  BY <1>5 DEF ConfirmsAll
<1> QED BY <1>1, <1>4, <1>6

\* The recursive function that Externals computes.
LEMMA ExternalsFold ==
  ASSUME DiskType, NEW d \in DB, Sound(d), NEW F \in SUBSET File
  PROVE  \E it : /\ Externals(d, F) = it[F] /\ it[{}] = d
                 /\ ExternalsAll(it, F)
<1> DEFINE Body(g) == [R \in SUBSET F |-> IF R = {} THEN d ELSE External(g[R \ {Pick(R)}], Pick(R))]
           it == CHOOSE g : g = Body(g)
<1>1. Externals(d, F) = it[F]
  BY DEF Externals, FoldSet, MapThenFoldSet, Pick
<1>2. \E g : g = Body(g)
  <2> DEFINE G == [p \in F \X SoundDB |-> External(p[2], p[1])]
  <2>1. G \in [F \X SoundDB -> SoundDB] /\ \A f \in F, e \in SoundDB : G[<<f, e>>] = External(e, f)
    BY ExternalRehash DEF Rehash, Sound, SoundFiles, SoundDB
  <2>2. IsFiniteSet(F) /\ d \in SoundDB
    BY FiniteKinds, FS_Subset DEF SoundDB
  <2> HIDE DEF G
  <2>3. PICK g \in [SUBSET F -> SoundDB] : IsFold(g, F, d, G)
    BY <2>1, <2>2, FoldExists
  <2>4. ASSUME NEW R \in SUBSET F, R # {}
        PROVE  G[<<Pick(R), g[R \ {Pick(R)}]>>] = External(g[R \ {Pick(R)}], Pick(R))
    <3>1. Pick(R) \in R /\ R \ {Pick(R)} \in SUBSET F
      BY <2>4 DEF Pick
    <3> QED BY <2>1, <3>1
  <2>5. g = Body(g)
    BY <2>3, <2>4 DEF IsFold
  <2> QED BY <2>5
<1>3. it = Body(it)
  BY <1>2
<1> HIDE DEF it
<1>4. it[{}] = d
  BY <1>3
<1>5. ASSUME NEW R \in SUBSET F, R # {}
      PROVE  \E f \in R : it[R] = External(it[R \ {f}], f)
  <2>1. Pick(R) \in R
    BY <1>5 DEF Pick
  <2>2. it[R] = External(it[R \ {Pick(R)}], Pick(R))
    BY <1>3, <1>5
  <2> QED BY <2>1, <2>2
<1>6. ExternalsAll(it, F)
  BY <1>5 DEF ExternalsAll
<1> QED BY <1>1, <1>4, <1>6

LEMMA ConfirmsRehash ==
  ASSUME DiskType, NEW d, Sound(d), NEW F \in SUBSET File
  PROVE  /\ Rehash(d, Confirms(d, F), F)
         /\ d.ok /\ (\A f \in F : d.row[f] \in Static) => Confirms(d, F).ok
<1>1. d \in DB /\ IsFiniteSet(F)
  BY FiniteKinds, FS_Subset DEF Sound, SoundFiles
<1>2. PICK it : Confirms(d, F) = it[F] /\ it[{}] = d /\ ConfirmsAll(it, F)
  BY <1>1, ConfirmsFold
<1> DEFINE good == d.ok /\ \A f \in F : d.row[f] \in Static
           P == {R \in SUBSET F : Rehash(d, it[R], R) /\ (good => it[R].ok)}
<1>3. {} \in P
  BY <1>2, SelfRehash
<1>4. ASSUME NEW R \in SUBSET F, R # {}, \A f \in R : R \ {f} \in P
      PROVE  R \in P
  <2>1. PICK f \in R : it[R] = Confirm(it[R \ {f}], f)
    BY <1>2, <1>4 DEF ConfirmsAll
  <2> DEFINE e == it[R \ {f}]
             g == Confirm(e, f)
  <2>2. Rehash(d, e, R \ {f}) /\ (good => e.ok)
    BY <1>4
  <2>3. it[R] = g
    BY <2>1
  <2> HIDE DEF e
  <2>4. f \in File /\ {f} \in SUBSET File /\ R \ {f} \in SUBSET File /\ (R \ {f}) \cup {f} = R
    OBVIOUS
  <2>5. Rehash(e, g, {f}) /\ (e.ok /\ e.row[f] \in Static => g.ok)
    BY <2>2, <2>4, ConfirmRehash DEF Rehash
  <2>6. good => e.row[f] \in Static
    <3>1. f \in File \ (R \ {f})
      BY <2>4
    <3>2. e.row[f] = d.row[f] \/ d.row[f] = "BUILT"
      BY <2>2, <3>1 DEF Rehash
    <3> QED BY <3>2 DEF Static
  <2> HIDE DEF g
  <2>7. Rehash(d, g, R)
    <3>1. Rehash(d, g, (R \ {f}) \cup {f})
      BY <2>2, <2>4, <2>5, RehashTrans
    <3> QED BY <2>4, <3>1
  <2> HIDE DEF good
  <2> QED BY <2>2, <2>3, <2>5, <2>6, <2>7
<1>5. F \in P
  <2> HIDE DEF P
  <2>1. \A R \in SUBSET F : (R = {} \/ \A f \in R : R \ {f} \in P) => R \in P
    BY <1>3, <1>4
  <2> QED BY <1>1, <2>1, SubsetInduct
<1> QED BY <1>2, <1>5

LEMMA ExternalsRehash ==
  ASSUME DiskType, NEW d, Sound(d), NEW F \in SUBSET File
  PROVE  /\ Rehash(d, Externals(d, F), F)
         /\ d.ok /\ (\A f \in F : d.row[f] \in Static \cup {"BUILT", "OUTDATED"}) => Externals(d, F).ok
<1>1. d \in DB /\ IsFiniteSet(F)
  BY FiniteKinds, FS_Subset DEF Sound, SoundFiles
<1>2. PICK it : Externals(d, F) = it[F] /\ it[{}] = d /\ ExternalsAll(it, F)
  BY <1>1, ExternalsFold
<1> DEFINE good == d.ok /\ \A f \in F : d.row[f] \in Static \cup {"BUILT", "OUTDATED"}
           P == {R \in SUBSET F : Rehash(d, it[R], R) /\ (good => it[R].ok)}
<1>3. {} \in P
  BY <1>2, SelfRehash
<1>4. ASSUME NEW R \in SUBSET F, R # {}, \A f \in R : R \ {f} \in P
      PROVE  R \in P
  <2>1. PICK f \in R : it[R] = External(it[R \ {f}], f)
    BY <1>2, <1>4 DEF ExternalsAll
  <2> DEFINE e == it[R \ {f}]
             g == External(e, f)
  <2>2. Rehash(d, e, R \ {f}) /\ (good => e.ok)
    BY <1>4
  <2>3. it[R] = g
    BY <2>1
  <2> HIDE DEF e
  <2>4. f \in File /\ {f} \in SUBSET File /\ R \ {f} \in SUBSET File /\ (R \ {f}) \cup {f} = R
    OBVIOUS
  <2>5. Rehash(e, g, {f}) /\ (e.ok /\ e.row[f] \in Static \cup {"BUILT", "OUTDATED"} => g.ok)
    BY <2>2, <2>4, ExternalRehash DEF Rehash
  <2>6. good => e.row[f] \in Static \cup {"BUILT", "OUTDATED"}
    <3>1. f \in File \ (R \ {f})
      BY <2>4
    <3>2. e.row[f] = d.row[f] \/ (d.row[f] = "BUILT" /\ e.row[f] = "OUTDATED")
      BY <2>2, <3>1 DEF Rehash
    <3> QED BY <3>2
  <2> HIDE DEF g
  <2>7. Rehash(d, g, R)
    <3>1. Rehash(d, g, (R \ {f}) \cup {f})
      BY <2>2, <2>4, <2>5, RehashTrans
    <3> QED BY <2>4, <3>1
  <2> HIDE DEF good
  <2> QED BY <2>2, <2>3, <2>5, <2>6, <2>7
<1>5. F \in P
  <2> HIDE DEF P
  <2>1. \A R \in SUBSET F : (R = {} \/ \A f \in R : R \ {f} \in P) => R \in P
    BY <1>3, <1>4
  <2> QED BY <1>1, <2>1, SubsetInduct
<1> QED BY <1>2, <1>5

(***************************************************************************)
(* Glob matches, and the ends of steps.                                    *)
(***************************************************************************)
LEMMA RematchRehash ==
  ASSUME NEW d, Sound(d), NEW found, \A r \in Registered(d) : found[r] \in SUBSET File
  PROVE  Rehash(d, Rematch(d, found), {}) /\ Rematch(d, found).ok = d.ok
<1> DEFINE old == {r \in Registered(d) : found[r] # r.found}
           steps == {r.step : r \in old}
           new == {[r EXCEPT !.found = found[r]] : r \in old}
           e == [d EXCEPT !.reg = (@ \ old) \cup new, !.hashed = @ \ steps]
           g == MarkPending(e, steps)
<1>1. Rematch(d, found) = g
  BY DEF Rematch
<1>2. d \in DB
  BY DEF Sound, SoundFiles
<1>3. \A r \in old : r \in Registration /\ found[r] \in SUBSET File
  BY <1>2 DEF DB, Registered
<1>4. steps \in SUBSET Step /\ new \in SUBSET Registration
  <2> HIDE DEF old
  <2> QED BY <1>3 DEF Registration
<1> HIDE DEF old, steps, new
<1>5. /\ e \in DB /\ SameGraph(d, e) /\ e.row = d.row /\ e.hash = d.hash /\ e.st = d.st
      /\ e.ok = d.ok /\ e.toCheck = d.toCheck
  BY <1>2, <1>4 DEF DB, SameGraph
<1> HIDE DEF e
<1>6. Rehash(d, e, {}) /\ Sound(e)
  BY <1>5, SameRehash DEF Rehash
<1>7. Rehash(e, g, {}) /\ g.ok = e.ok
  BY <1>4, <1>6, MarksRehash
<1> HIDE DEF g
<1>8. Rehash(d, g, {} \cup {})
  BY <1>6, <1>7, RehashTrans
<1>9. {} \cup {} = {}
  OBVIOUS
<1> QED BY <1>1, <1>5, <1>7, <1>8, <1>9

\* The outputs of an attached step that it claims are all among its outputs.
LEMMA OwnOutputs ==
  ASSUME NEW d \in DB, NEW s \in Step, NEW f \in File, Claimed(d, f), d.cr[f] = s, d.row[f] \in Output
  PROVE  f \in Outputs(d, s)
<1>1. d.row[f] \notin Static
  BY DEF Output, Static
<1>2. f \in d.out[s]
  BY <1>1 DEF Claimed
<1>3. s \in Attached(d) => f \in Attached(d)
  BY AttachedFacts, Kinds
<1> QED BY <1>2, <1>3 DEF Outputs, Rows

LEMMA SucceedKeeps ==
  ASSUME DiskType, NEW d, Sound(d), NEW s \in Step
  PROVE  Keeps(d, Succeed(d, s)) /\ Succeed(d, s).ok = d.ok
<1> DEFINE F == Outputs(d, s)
           a == SetSteps(d, {s}, "SUCCEEDED")
           b == SetRows(a, F, "BUILT")
           e == [b EXCEPT !.hash = [f \in File |-> IF f \in F THEN disk[f] ELSE @[f]],
                          !.hashed = @ \cup {s}]
           S == Consumers(e, F \ Rows(d, {"BUILT"}))
           g == MarkPending(e, S)
<1>1. Succeed(d, s) = g
  BY DEF Succeed
<1>2. d \in DB /\ F \in SUBSET File /\ (\A f \in F : d.row[f] \in Output)
  BY DEF Sound, SoundFiles, Outputs, Rows
<1>3. "SUCCEEDED" \in StepState /\ "BUILT" \in RowState /\ "BUILT" \in Output
  BY DEF StepState, RowState, Output
<1>4. S \in SUBSET Step
  BY DEF Consumers
<1> HIDE DEF S
<1>5. ASSUME NEW f \in File, Claimed(d, f), d.cr[f] = s, d.row[f] \in Output PROVE f \in F
  BY <1>2, <1>5, OwnOutputs
<1> HIDE DEF F
<1>6. /\ a \in DB /\ a.st = [r \in Step |-> IF r \in {s} THEN "SUCCEEDED" ELSE d.st[r]]
      /\ a.row = d.row /\ a.hash = d.hash /\ SameGraph(d, a) /\ SameMemory(d, a)
  BY <1>2, <1>3, SetStepsType
<1> HIDE DEF a
<1>7. /\ b \in DB /\ b.row = [f \in File |-> IF f \in F THEN "BUILT" ELSE a.row[f]]
      /\ b.st = a.st /\ b.hash = a.hash /\ SameGraph(a, b) /\ SameMemory(a, b)
  BY <1>2, <1>3, <1>6, SetRowsType
<1> HIDE DEF b
<1>8. /\ e \in DB /\ e.row = b.row /\ e.st = b.st /\ SameGraph(b, e) /\ e.ok = b.ok
      /\ e.toCheck = b.toCheck
      /\ e.hash = [f \in File |-> IF f \in F THEN disk[f] ELSE b.hash[f]]
  BY <1>2, <1>7 DEF DB, SameGraph, DiskType
<1> HIDE DEF e
<1>9. e.ok = d.ok /\ e.toCheck = d.toCheck /\ SameGraph(d, e)
  BY <1>6, <1>7, <1>8 DEF SameMemory, SameGraph
<1>10. ASSUME NEW f \in File
       PROVE  \/ e.row[f] = d.row[f] /\ e.hash[f] = d.hash[f]
              \/ d.row[f] \in Output /\ e.row[f] \in Output
  BY <1>2, <1>3, <1>6, <1>7, <1>8
<1>11. ASSUME NEW f \in File, d.cr[f] \in Step, Claimed(d, f), e.st[d.cr[f]] = "SUCCEEDED",
              e.row[f] \in Output
       PROVE  e.row[f] = "BUILT"
  <2>1. CASE f \in F
    BY <1>6, <1>7, <1>8, <2>1
  <2>2. CASE f \notin F
    <3>1. e.row[f] = d.row[f] /\ d.row[f] \in Output
      BY <1>6, <1>7, <1>8, <1>11, <2>2
    <3>2. d.cr[f] # s
      BY <1>5, <1>11, <2>2, <3>1
    <3>3. d.st[d.cr[f]] = "SUCCEEDED"
      BY <1>6, <1>7, <1>8, <1>11, <3>2
    <3>4. d.row[f] \notin Static \cup {"VOLATILE"}
      BY <3>1 DEF Output, Static
    <3> QED BY <1>11, <3>1, <3>3, <3>4 DEF Claimed
  <2> QED BY <2>1, <2>2
<1>12. Keeps(d, e)
  BY <1>8, <1>9, <1>10, <1>11, OutputsKeep
<1>13. Keeps(e, g) /\ Marks(e, g, S)
  BY <1>4, <1>12, MarkPendingKeeps DEF Keeps
<1> HIDE DEF g
<1>14. Keeps(d, g) /\ g.ok = d.ok
  BY <1>9, <1>12, <1>13, KeepsTrans DEF Marks, SameMemory
<1> QED BY <1>1, <1>14

\* The outputs of a step that did not succeed.
Failing(d, s) ==
  [SetRows(SetRows(d, Outputs(d, s) \ OnDisk, "PLANNED"), Outputs(d, s) \cap OnDisk, "OUTDATED") EXCEPT
     !.hash = [f \in File |-> IF f \in Outputs(d, s) THEN disk[f] ELSE @[f]],
     !.hashed = @ \ {s}]

LEMMA FailingKeeps ==
  ASSUME DiskType, NEW d, Sound(d), NEW s \in Step, d.st[s] = "RUNNING"
  PROVE  Keeps(d, Failing(d, s)) /\ Failing(d, s).ok = d.ok
<1> DEFINE F == Outputs(d, s)
           a == SetRows(d, F \ OnDisk, "PLANNED")
           b == SetRows(a, F \cap OnDisk, "OUTDATED")
           e == Failing(d, s)
<1>1. d \in DB /\ F \in SUBSET File /\ (\A f \in F : d.row[f] \in Output)
  BY DEF Sound, SoundFiles, Outputs, Rows
<1>2. /\ {"PLANNED", "OUTDATED"} \subseteq RowState /\ {"PLANNED", "OUTDATED"} \subseteq Output
      /\ F \ OnDisk \in SUBSET File /\ F \cap OnDisk \in SUBSET File
  BY <1>1 DEF RowState, Output
<1>3. e = [b EXCEPT !.hash = [f \in File |-> IF f \in F THEN disk[f] ELSE @[f]],
                    !.hashed = @ \ {s}]
  BY DEF Failing
<1>4. ASSUME NEW f \in File, Claimed(d, f), d.cr[f] = s, d.row[f] \in Output PROVE f \in F
  BY <1>1, <1>4, OwnOutputs
<1>5. \A f \in F : f \in d.out[s]
  BY DEF Outputs
<1> HIDE DEF F, e
<1>6. /\ a \in DB /\ a.row = [f \in File |-> IF f \in F \ OnDisk THEN "PLANNED" ELSE d.row[f]]
      /\ a.st = d.st /\ a.hash = d.hash /\ SameGraph(d, a) /\ SameMemory(d, a)
  BY <1>1, <1>2, SetRowsType
<1> HIDE DEF a
<1>7. /\ b \in DB /\ b.row = [f \in File |-> IF f \in F \cap OnDisk THEN "OUTDATED" ELSE a.row[f]]
      /\ b.st = a.st /\ b.hash = a.hash /\ SameGraph(a, b) /\ SameMemory(a, b)
  BY <1>2, <1>6, SetRowsType
<1> HIDE DEF b
<1>8. /\ e \in DB /\ e.row = b.row /\ e.st = b.st /\ SameGraph(b, e) /\ e.ok = b.ok
      /\ e.toCheck = b.toCheck
      /\ e.hash = [f \in File |-> IF f \in F THEN disk[f] ELSE b.hash[f]]
  BY <1>1, <1>3, <1>7 DEF DB, SameGraph, DiskType
<1>9. e.ok = d.ok /\ e.toCheck = d.toCheck /\ SameGraph(d, e) /\ e.st = d.st
  BY <1>6, <1>7, <1>8 DEF SameMemory, SameGraph
<1>10. ASSUME NEW f \in File
       PROVE  IF f \in F THEN e.row[f] \in Output
              ELSE e.row[f] = d.row[f] /\ e.hash[f] = d.hash[f]
  BY <1>2, <1>6, <1>7, <1>8
<1>11. ASSUME NEW f \in File, d.cr[f] \in Step, Claimed(d, f), e.st[d.cr[f]] = "SUCCEEDED",
              e.row[f] \in Output
       PROVE  e.row[f] = "BUILT"
  <2>1. CASE f \in F
    <3>1. d.row[f] \notin Static /\ f \in d.out[s]
      BY <1>1, <1>5, <2>1 DEF Output, Static
    <3>2. d.cr[f] = s
      BY <1>11, <3>1 DEF Claimed
    <3> QED BY <1>9, <1>11, <3>2
  <2>2. CASE f \notin F
    <3>1. e.row[f] = d.row[f] /\ d.row[f] \notin Static \cup {"VOLATILE"}
      BY <1>10, <1>11, <2>2 DEF Output, Static
    <3> QED BY <1>9, <1>11, <3>1 DEF Claimed
  <2> QED BY <2>1, <2>2
<1>12. \A f \in File : \/ e.row[f] = d.row[f] /\ e.hash[f] = d.hash[f]
                       \/ d.row[f] \in Output /\ e.row[f] \in Output
  BY <1>1, <1>10
<1>13. Keeps(d, e)
  BY <1>8, <1>9, <1>11, <1>12, OutputsKeep
<1> QED BY <1>9, <1>13 DEF e

(***************************************************************************)
(* Removing detached nodes.                                                *)
(***************************************************************************)
\* Nodes that are deleted are detached, and their products are deleted.
LEMMA DeletedFacts ==
  ASSUME NEW d \in DB
  PROVE  /\ Deleted(d) \subseteq Node \ Attached(d)
         /\ \A n \in Deleted(d) : Products(d, n) \subseteq Deleted(d)
<1> DEFINE N == Cardinality(Node)
           sinks(n) == IF n \in File THEN Consumers(d, {n}) ELSE IF n \in Step THEN d.out[n] ELSE {}
           loose == {n \in Node \ Attached(d) :
                       n \in Tree \/ (n \in Step /\ d.st[n] # "NONE") \/ (n \in File /\ d.row[n] # "NONE")}
           next(R) == {n \in loose : sinks(n) \cup Products(d, n) \subseteq R}
           Body(g) == [k \in 0 .. N |-> IF k = 0 THEN {} ELSE next(g[k - 1])]
           gone == CHOOSE g : g = Body(g)
<1>1. Deleted(d) = gone[N]
  BY DEF Deleted
<1>2. N \in Nat
  <2>1. IsFiniteSet(Step) /\ IsFiniteSet(Tree) /\ IsFiniteSet(File)
    BY FiniteKinds
  <2>2. IsFiniteSet(Owner)
    BY <2>1, FS_Union DEF Owner
  <2>3. IsFiniteSet(Node)
    BY <2>1, <2>2, FS_Union DEF Node
  <2> QED BY <2>3, FS_CardinalityType
<1> HIDE DEF N
<1>3. loose \subseteq Node \ Attached(d)
  OBVIOUS
<1> HIDE DEF loose, sinks
<1>4. \A R : next(R) \in SUBSET loose
  OBVIOUS
<1>5. \A R, T : R \subseteq T => next(R) \subseteq next(T)
  OBVIOUS
<1>6. \A R : \A n \in next(R) : Products(d, n) \subseteq R
  OBVIOUS
<1> HIDE DEF next
<1>7. \E g : g = Body(g)
  <2> DEFINE G == [R \in SUBSET loose |-> next(R)]
  <2>1. G \in [SUBSET loose -> SUBSET loose] /\ \A R \in SUBSET loose : G[R] = next(R)
    BY <1>4
  <2> HIDE DEF G
  <2>2. PICK g \in [0 .. N -> SUBSET loose] : Iterates(g, {}, G, N)
    BY <1>2, <2>1, IterationsExist
  <2>3. ASSUME NEW k \in 0 .. N, k # 0 PROVE G[g[k - 1]] = next(g[k - 1])
    <3>1. k - 1 \in 0 .. N
      BY <1>2, <2>3
    <3> QED BY <2>1, <2>2, <3>1
  <2>4. g = Body(g)
    BY <2>2, <2>3 DEF Iterates
  <2> QED BY <2>4
<1>8. gone = Body(gone)
  BY <1>7
<1> HIDE DEF gone
<1>9. \A k \in 0 .. N : gone[k] = IF k = 0 THEN {} ELSE next(gone[k - 1])
  BY <1>8
<1>10. ASSUME NEW k \in 0 .. N, NEW j \in 0 .. N, k = j + 1
       PROVE  gone[k] = next(gone[j])
  <2>1. k # 0 /\ k - 1 = j
    BY <1>10, <1>2
  <2>2. gone[k] = next(gone[k - 1])
    BY <1>9, <2>1
  <2> QED BY <2>1, <2>2
<1>11. \A k \in 0 .. N : /\ gone[k] \subseteq loose
                         /\ gone[k] \subseteq next(gone[k])
  <2> DEFINE T == {k \in Nat : k \in 0 .. N => gone[k] \subseteq loose /\ gone[k] \subseteq next(gone[k])}
  <2>1. 0 \in T
    BY <1>9
  <2>2. ASSUME NEW k \in T PROVE k + 1 \in T
    <3> SUFFICES ASSUME k + 1 \in 0 .. N
                 PROVE  gone[k + 1] \subseteq loose /\ gone[k + 1] \subseteq next(gone[k + 1])
      OBVIOUS
    <3>1. k \in 0 .. N
      BY <1>2
    <3>2. gone[k] \subseteq next(gone[k])
      BY <3>1
    <3>3. gone[k + 1] = next(gone[k])
      BY <1>10, <3>1
    <3> QED BY <1>4, <1>5, <3>2, <3>3
  <2> HIDE DEF T
  <2>3. T = Nat
    <3>1. T \in SUBSET Nat
      BY DEF T
    <3> QED BY <2>1, <2>2, <3>1, Induct
  <2> QED BY <1>2, <2>3 DEF T
<1>12. gone[N] \subseteq loose /\ gone[N] \subseteq next(gone[N])
  BY <1>2, <1>11
<1> QED BY <1>1, <1>3, <1>6, <1>12

LEMMA RemoveKeeps ==
  ASSUME NEW d, Sound(d), NEW N \in SUBSET (Node \ Attached(d)),
         \A n \in N : Products(d, n) \subseteq N
  PROVE  Keeps(d, Remove(d, N)) /\ Remove(d, N).ok = d.ok
<1> DEFINE e == Detach(d, N)
           g == Remove(d, N)
<1>1. d \in DB /\ Recorded(d) /\ (d.ok => FilesClaimed(d))
  BY DEF Sound, SoundFiles
<1>2. N \in SUBSET Node /\ Plan \notin N /\ Plan \in Node
  BY <1>1, AttachedFacts, Kinds DEF Recorded
<1>3. Keeps(d, e)
  BY <1>2, DetachKeeps
<1>4. /\ e \in DB /\ e.cr = [n \in Node |-> IF n \in N THEN None ELSE d.cr[n]]
      /\ e.row = d.row /\ e.hash = d.hash /\ e.st = d.st /\ e.out = d.out /\ e.dynOut = d.dynOut
      /\ e.inp = d.inp /\ e.dyn = d.dyn /\ e.reg = d.reg
      /\ e.hashed = d.hashed /\ e.ok = d.ok /\ e.toCheck = d.toCheck
  BY <1>1, <1>2, DetachType DEF SameInputs, SameMemory
<1> HIDE DEF e
<1>5. /\ g \in DB /\ g.cr = e.cr /\ g.ok = e.ok /\ g.toCheck = e.toCheck
      /\ g.row = [f \in File |-> IF f \in N THEN "NONE" ELSE e.row[f]]
      /\ g.hash = [f \in File |-> IF f \in N THEN None ELSE e.hash[f]]
      /\ g.st = [s \in Step |-> IF s \in N THEN "NONE" ELSE e.st[s]]
      /\ g.out = [s \in Step |-> IF s \in N THEN {} ELSE e.out[s] \ N]
      /\ g.dynOut = [s \in Step |-> IF s \in N THEN {} ELSE e.dynOut[s] \ N]
  <2>1. "NONE" \in RowState /\ "NONE" \in StepState /\ None \in Content
    BY DEF RowState, StepState, Content
  <2>2. g = [e EXCEPT
     !.row = [f \in File |-> IF f \in N THEN "NONE" ELSE @[f]],
     !.hash = [f \in File |-> IF f \in N THEN None ELSE @[f]],
     !.st = [s \in Step |-> IF s \in N THEN "NONE" ELSE @[s]],
     !.deferred = @ \ N,
     !.inp = [s \in Step |-> IF s \in N THEN {} ELSE @[s]],
     !.dyn = [s \in Step |-> IF s \in N THEN {} ELSE @[s]],
     !.out = [s \in Step |-> IF s \in N THEN {} ELSE @[s] \ N],
     !.dynOut = [s \in Step |-> IF s \in N THEN {} ELSE @[s] \ N],
     !.reg = {r \in @ : r.step \notin N},
     !.hashed = (@ \ N) \ {d.cr[n] : n \in N}]
    BY DEF Remove, e
  <2> HIDE DEF g
  <2> QED BY <1>4, <2>1, <2>2 DEF DB
<1> HIDE DEF g
<1>6. \A n \in Node : g.cr[n] = IF n \in N THEN None ELSE d.cr[n]
  BY <1>4, <1>5
<1>7. Recorded(g)
  <2>1. g.cr[Plan] = Root
    BY <1>1, <1>2, <1>6 DEF Recorded
  <2>2. ASSUME NEW s \in Step PROVE g.dynOut[s] \subseteq g.out[s]
    <3>1. d.dynOut[s] \subseteq d.out[s]
      BY <1>1 DEF Recorded
    <3>2. CASE s \in N
      BY <1>5, <3>2
    <3>3. CASE s \notin N
      BY <1>4, <1>5, <3>1, <3>3
    <3> QED BY <3>2, <3>3
  <2>3. ASSUME NEW f \in File
        PROVE  (g.row[f] = "CONFIRMED" => g.hash[f] # None) /\ (g.row[f] = "MISSING" => g.hash[f] = None)
    BY <1>1, <1>4, <1>5 DEF Recorded
  <2> QED BY <2>1, <2>2, <2>3 DEF Recorded
<1>8. ASSUME g.ok, NEW f \in File, g.cr[f] # None PROVE Claimed(g, f)
  <2>1. f \in Node /\ f \notin N /\ g.cr[f] = d.cr[f]
    BY <1>6, <1>8, Kinds
  <2>2. Claimed(d, f)
    BY <1>1, <1>4, <1>5, <1>8, <2>1 DEF FilesClaimed
  <2>3. g.row[f] = d.row[f]
    BY <1>4, <1>5, <2>1
  <2>4. \A s \in Step : s \notin N => (f \in g.out[s] <=> f \in d.out[s]) /\ g.st[s] = d.st[s]
    BY <1>4, <1>5, <2>1
  <2>5. \A s \in Step : s \in N => f \notin g.out[s]
    BY <1>5
  <2>6. d.cr[f] \notin N
    BY <2>1 DEF Products
  <2> QED BY <2>1, <2>2, <2>3, <2>4, <2>5, <2>6 DEF Claimed
<1>9. g.ok /\ TreesOfPlan => TreesClaimed(g)
  BY <1>3, <1>5, SameCreators DEF Keeps, Sound
<1>10. ASSUME NEW f \in File PROVE Kept(d, g, f)
  <2>1. OfPlan(g, f) => OfPlan(d, f)
    BY <1>6, Kinds DEF OfPlan
  <2>2. g.row[f] \in Static => f \notin N
    BY <1>5 DEF Static
  <2>3. f \notin N => g.row[f] = d.row[f] /\ g.hash[f] = d.hash[f]
    BY <1>4, <1>5
  <2> QED BY <2>1, <2>2, <2>3 DEF Kept
<1>11. Keeps(d, g)
  BY <1>4, <1>5, <1>7, <1>8, <1>9, <1>10 DEF Keeps, Sound, SoundFiles, FilesClaimed
<1> QED BY <1>4, <1>5, <1>11 DEF g

LEMMA DeleteDetachedKeeps ==
  ASSUME NEW d, Sound(d)
  PROVE  Keeps(d, DeleteDetached(d)) /\ DeleteDetached(d).ok = d.ok
<1> DEFINE N == {f \in File \cap Attached(d) :
                   d.cr[f] \in Tree /\ Consumers(d, {f}) \cap Attached(d) = {}}
           e == Detach(d, N)
           g == Remove(e, Deleted(e))
<1>1. DeleteDetached(d) = g
  BY DEF DeleteDetached
<1>2. N \in SUBSET Node /\ Plan \notin N /\ d \in DB
  BY Kinds DEF Sound, SoundFiles
<1> HIDE DEF N
<1>3. Keeps(d, e) /\ e.ok = d.ok
  BY <1>2, DetachKeeps, DetachType DEF SameMemory
<1> HIDE DEF e
<1>4. Sound(e) /\ e \in DB
  BY <1>3 DEF Keeps, Sound, SoundFiles
<1>5. /\ Deleted(e) \in SUBSET (Node \ Attached(e))
      /\ \A n \in Deleted(e) : Products(e, n) \subseteq Deleted(e)
  BY <1>4, DeletedFacts
<1>6. Keeps(e, g) /\ g.ok = e.ok
  BY <1>4, <1>5, RemoveKeeps
<1> HIDE DEF g
<1> QED BY <1>1, <1>3, <1>6, KeepsTrans

-----------------------------------------------------------------------------
(***************************************************************************)
(* Steps.                                                                  *)
(***************************************************************************)
DbOK(d) == Sound(d) /\ d.ok /\ d.toCheck = {}

MemoryOK ==
  /\ DiskType
  /\ checks \subseteq File /\ asked \in [Step -> SUBSET File] /\ miss \subseteq Step
  /\ changes \subseteq File /\ queue \in [File -> {None, "any", "user", "made"}]
  /\ phase \in {"build", "remove", "watch", "update", "down"} /\ raised \in BOOLEAN
  /\ events \in 0 .. MaxEvents /\ unnoticed \subseteq File

Parts ==
  /\ DbOK(db) /\ MemoryOK
  /\ phase \notin {"build", "update"} => checks = {}
  /\ TreesOfPlan /\ phase # "down" => PlanCurrent

LEMMA InvParts0 == IInv <=> Parts
<1>1. ASSUME Sound(db)
      PROVE  TypeOK <=> db.ok /\ db.toCheck = {} /\ MemoryOK
  <2>1. db \in DB /\ \A s \in Step : db.dynOut[s] \subseteq db.out[s]
    BY <1>1 DEF Sound, SoundFiles, Recorded
  <2> QED BY <2>1 DEF TypeOK, MemoryOK, DiskType, DB, RowState, StepState, Content, Registration
<1> QED BY <1>1 DEF IInv, DbOK, Parts

LEMMA InvParts ==
  IInv <=> /\ DbOK(db) /\ MemoryOK
           /\ phase \notin {"build", "update"} => checks = {}
           /\ TreesOfPlan /\ phase # "down" => PlanCurrent
BY InvParts0 DEF Parts

LEMMA InvPartsNext ==
  /\ DbOK(db)' /\ MemoryOK'
  /\ phase' \notin {"build", "update"} => checks' = {}
  /\ TreesOfPlan /\ phase' # "down" => PlanCurrent'
  => IInv'
<1>1. IInv' <=> Parts'
  BY InvParts0, PTL
<1> QED BY <1>1 DEF Parts

LEMMA DbOKNext == DbOK(db') <=> DbOK(db)'
BY DEF DbOK

\* When the plan's static files stay current.
LEMMA PlanCurrentStep ==
  ASSUME PlanCurrent,
         \A f \in File : OfPlan(db', f) /\ db'.row[f] \in Static =>
           \/ f \in checks' \/ Current(db, f)'
           \/ /\ OfPlan(db, f) /\ db'.row[f] = db.row[f] /\ db'.hash[f] = db.hash[f]
              /\ f \notin checks /\ (f \in Unseen' \/ (f \notin Unseen /\ disk'[f] = disk[f]))
  PROVE  PlanCurrent'
<1> SUFFICES ASSUME NEW f \in File, OfPlan(db', f), db'.row[f] \in Static
             PROVE  /\ db'.row[f] = "UNCONFIRMED" => f \in checks'
                    /\ f \in checks' \cup Unseen' \/ Current(db, f)'
  BY DEF PlanCurrent
<1>1. CASE f \in checks'
  BY <1>1
<1>2. CASE Current(db, f)'
  BY <1>2 DEF Current, Missing
<1>3. CASE /\ OfPlan(db, f) /\ db'.row[f] = db.row[f] /\ db'.hash[f] = db.hash[f]
           /\ f \notin checks /\ (f \in Unseen' \/ (f \notin Unseen /\ disk'[f] = disk[f]))
  <2>1. db.row[f] # "UNCONFIRMED" /\ (f \in Unseen \/ Current(db, f))
    BY <1>3 DEF PlanCurrent
  <2>2. Current(db, f) /\ disk'[f] = disk[f] => Current(db, f)'
    BY <1>3 DEF Current, Missing
  <2> QED BY <1>3, <2>1, <2>2
<1> QED BY <1>1, <1>2, <1>3

\* A step that changes nothing but the database, and leaves nothing to check.
LEMMA QuietStep ==
  ASSUME IInv, Keeps(db, db'), db'.ok, MemoryOK',
         checks' = checks, changes' = changes, disk' = disk, phase' = phase
  PROVE  IInv'
<1>1. /\ DbOK(db) /\ (phase \notin {"build", "update"} => checks = {})
      /\ TreesOfPlan /\ phase # "down" => PlanCurrent
  BY InvParts
<1>2. DbOK(db')
  BY <1>1 DEF DbOK, Keeps
<1>3. ASSUME PlanCurrent PROVE PlanCurrent'
  <2>1. ASSUME NEW f \in File, OfPlan(db', f), db'.row[f] \in Static
        PROVE  \/ f \in checks' \/ Current(db, f)'
               \/ /\ OfPlan(db, f) /\ db'.row[f] = db.row[f] /\ db'.hash[f] = db.hash[f]
                  /\ f \notin checks /\ (f \in Unseen' \/ (f \notin Unseen /\ disk'[f] = disk[f]))
    BY <2>1 DEF Keeps, Kept, Unseen
  <2> QED BY <1>3, <2>1, PlanCurrentStep
<1>4. /\ phase' \notin {"build", "update"} => checks' = {}
      /\ TreesOfPlan /\ phase' # "down" => PlanCurrent'
  BY <1>1, <1>3
<1> QED BY <1>2, <1>4, InvPartsNext, DbOKNext

\* The director goes down, and its memory is lost.
LEMMA DownStep ==
  ASSUME IInv, db' = db, MemoryOK', checks' = {}, phase' = "down"
  PROVE  IInv'
<1>1. DbOK(db)
  BY InvParts
<1>2. DbOK(db')
  BY <1>1
<1> QED BY <1>2, InvPartsNext, DbOKNext

\* A call of a command.
LEMMA CallStep ==
  ASSUME IInv, phase = "build", NEW d, Follows(db, d), Call(d),
         asked' \in [Step -> SUBSET File], miss' \subseteq Step
  PROVE  IInv'
<1> DEFINE e == [d EXCEPT !.toCheck = {}]
<1>1. /\ DbOK(db) /\ MemoryOK /\ (phase \notin {"build", "update"} => checks = {})
      /\ TreesOfPlan /\ phase # "down" => PlanCurrent
  BY InvParts
<1>2. /\ d.ok /\ db' = e /\ checks' = checks \cup d.toCheck /\ phase' = phase
      /\ UNCHANGED <<disk, changes, queue, phase, raised, events, unnoticed>>
  BY DEF Call
<1>3. d \in DB /\ Sound(d)
  BY DEF Follows, Sound, SoundFiles
<1>4. /\ e \in DB /\ SameGraph(d, e) /\ e.row = d.row /\ e.hash = d.hash /\ e.st = d.st
      /\ e.ok = d.ok /\ e.toCheck = {}
  BY <1>3 DEF DB, SameGraph
<1> HIDE DEF e
<1>5. DbOK(db')
  BY <1>2, <1>3, <1>4, SameKeeps DEF DbOK
<1>6. MemoryOK'
  BY <1>1, <1>2, <1>3 DEF MemoryOK, DiskType, DB
<1>7. ASSUME PlanCurrent PROVE PlanCurrent'
  <2>1. ASSUME NEW f \in File, OfPlan(db', f), db'.row[f] \in Static
        PROVE  \/ f \in checks' \/ Current(db, f)'
               \/ /\ OfPlan(db, f) /\ db'.row[f] = db.row[f] /\ db'.hash[f] = db.hash[f]
                  /\ f \notin checks /\ (f \in Unseen' \/ (f \notin Unseen /\ disk'[f] = disk[f]))
    <3>1. CASE f \in d.toCheck \cup checks
      BY <1>2, <3>1
    <3>2. CASE f \notin d.toCheck \cup checks
      <4>1. Kept(db, d, f)
        BY <1>2, <3>2 DEF Follows
      <4>2. OfPlan(d, f) /\ d.row[f] = db'.row[f] /\ d.hash[f] = db'.hash[f]
        BY <1>2, <1>4, <2>1, SameCreators DEF SameGraph
      <4> QED BY <1>2, <2>1, <3>2, <4>1, <4>2 DEF Kept, Unseen
    <3> QED BY <3>1, <3>2
  <2> QED BY <1>7, <2>1, PlanCurrentStep
<1>8. /\ phase' \notin {"build", "update"} => checks' = {}
      /\ TreesOfPlan /\ phase' # "down" => PlanCurrent'
  BY <1>1, <1>2, <1>7
<1> QED BY <1>5, <1>6, <1>8, InvPartsNext, DbOKNext

LEMMA DeclareStaticsStep ==
  ASSUME IInv, NEW s \in Step, DeclareStatics(s)
  PROVE  IInv'
<1>1. /\ DbOK(db) /\ MemoryOK
  BY InvParts
<1>2. PICK c \in Statics[s] : Call(StaticCall(db, s, c))
  BY DEF DeclareStatics
<1>3. Follows(db, StaticCall(db, s, c))
  BY <1>1, StaticCallFollows DEF DbOK
<1>4. phase = "build" /\ asked' \in [Step -> SUBSET File] /\ miss' \subseteq Step
  BY <1>1 DEF DeclareStatics, Listening, MemoryOK
<1> QED BY <1>2, <1>3, <1>4, CallStep

LEMMA DeclareGlobStep ==
  ASSUME IInv, NEW s \in Step, DeclareGlob(s)
  PROVE  IInv'
<1>1. /\ DbOK(db) /\ MemoryOK
  BY InvParts
<1>2. PICK g \in Globs[s] : Call(RegisterGlob(db, s, g))
  BY DEF DeclareGlob
<1>3. g \in Glob
  BY CallType
<1>4. Follows(db, RegisterGlob(db, s, g))
  BY <1>1, <1>3, RegisterGlobKeeps, KeepsFollows DEF DbOK
<1>5. phase = "build" /\ asked' \in [Step -> SUBSET File] /\ miss' \subseteq Step
  BY <1>1 DEF DeclareGlob, Listening, MemoryOK
<1> QED BY <1>2, <1>4, <1>5, CallStep

LEMMA DefineInv ==
  ASSUME IInv, NEW s \in Step, Define(s)
  PROVE  IInv'
<1>1. /\ DbOK(db) /\ MemoryOK
  BY InvParts
<1>2. PICK c \in Defines[s] : Call(DefineStep(db, s, c))
  BY DEF Define
<1>3. Follows(db, DefineStep(db, s, c))
  BY <1>1, DefineStepFollows DEF DbOK
<1>4. phase = "build" /\ asked' \in [Step -> SUBSET File] /\ miss' \subseteq Step
  BY <1>1 DEF Define, Listening, MemoryOK
<1> QED BY <1>2, <1>3, <1>4, CallStep

LEMMA AmendInv ==
  ASSUME IInv, NEW s \in Step, Amend(s)
  PROVE  IInv'
<1>1. /\ DbOK(db) /\ MemoryOK
  BY InvParts
<1>2. phase = "build" /\ db.st[s] = "RUNNING"
  BY DEF Amend, Listening
<1>3. PICK c \in Amends[s] : AmendCall(AmendStep(db, s, c), s, c.inp)
  BY DEF Amend
<1> DEFINE d == AmendStep(db, s, c)
<1>4. Follows(db, d)
  BY <1>1, <1>2, AmendStepFollows DEF DbOK
<1> HIDE DEF d
<1>5. d.toCheck \in SUBSET File
  BY <1>4 DEF Follows, Sound, SoundFiles, DB
<1>6. /\ Call(d) /\ asked' = [asked EXCEPT ![s] = d.toCheck]
      /\ miss' = miss \/ miss' = miss \cup {s}
  BY <1>3 DEF AmendCall, d
<1>7. asked' \in [Step -> SUBSET File] /\ miss' \subseteq Step
  BY <1>1, <1>5, <1>6 DEF MemoryOK
<1> QED BY <1>2, <1>4, <1>6, <1>7, CallStep

\* A step that leaves the memory of the director and the disk alone.
LEMMA StartStep ==
  ASSUME IInv, NEW s, NEW d, Keeps(db, d), d.ok = db.ok, Start(s, d)
  PROVE  IInv'
<1>1. DbOK(db) /\ MemoryOK
  BY InvParts
<1>2. db' = d /\ UNCHANGED <<disk, memory, phase, raised, events, unnoticed>>
  BY DEF Start, memory
<1>3. MemoryOK'
  BY <1>1, <1>2 DEF MemoryOK, DiskType, memory
<1>4. Keeps(db, db') /\ db'.ok
  BY <1>1, <1>2 DEF DbOK
<1> QED BY <1>2, <1>3, <1>4, QuietStep DEF memory

LEMMA AnswerStep ==
  ASSUME IInv, NEW s \in Step, Answer(s)
  PROVE  IInv'
<1>1. DbOK(db) /\ MemoryOK
  BY InvParts
<1>2. /\ asked' = [asked EXCEPT ![s] = {}]
      /\ miss' = miss \/ miss' = miss \cup {s}
      /\ UNCHANGED <<db, disk, checks, changes, queue, phase, raised, events, unnoticed>>
  BY DEF Answer
<1>3. MemoryOK'
  BY <1>1, <1>2 DEF MemoryOK, DiskType
<1>4. Keeps(db, db') /\ db'.ok
  BY <1>1, <1>2, KeepsSelf DEF DbOK
<1> QED BY <1>2, <1>3, <1>4, QuietStep

\* A step that changes the disk, and that the director may take notice of.
LEMMA DiskStep ==
  ASSUME IInv, MemoryOK', db' = db, checks' = checks, phase' = phase,
         phase # "down" =>
           \A h \in File : OfPlan(db, h) /\ db.row[h] \in Static =>
                             h \in Unseen' \/ (h \notin Unseen /\ disk'[h] = disk[h])
  PROVE  IInv'
<1>1. /\ DbOK(db) /\ (phase \notin {"build", "update"} => checks = {})
      /\ TreesOfPlan /\ phase # "down" => PlanCurrent
  BY InvParts
<1>2. ASSUME PlanCurrent, phase # "down" PROVE PlanCurrent'
  <2>1. ASSUME NEW h \in File, OfPlan(db', h), db'.row[h] \in Static
        PROVE  \/ h \in checks' \/ Current(db, h)'
               \/ /\ OfPlan(db, h) /\ db'.row[h] = db.row[h] /\ db'.hash[h] = db.hash[h]
                  /\ h \notin checks /\ (h \in Unseen' \/ (h \notin Unseen /\ disk'[h] = disk[h]))
    BY <1>2, <2>1
  <2> QED BY <1>2, <2>1, PlanCurrentStep
<1>3. DbOK(db')
  BY <1>1
<1>4. /\ phase' \notin {"build", "update"} => checks' = {}
      /\ TreesOfPlan /\ phase' # "down" => PlanCurrent'
  BY <1>1, <1>2
<1> QED BY <1>3, <1>4, InvPartsNext, DbOKNext

LEMMA WriteStep ==
  ASSUME IInv, NEW s \in Step, NEW f \in File, Write(s, f)
  PROVE  IInv'
<1>1. MemoryOK
  BY InvParts
<1>2. /\ disk' = [disk EXCEPT ![f] = "made"] /\ changes' = changes \cup {f}
      /\ UNCHANGED <<db, checks, asked, miss, queue, phase, raised, events, unnoticed>>
  BY DEF Write
<1>3. MemoryOK'
  BY <1>1, <1>2 DEF MemoryOK, DiskType, Content
<1>4. \A h \in File : h \in Unseen' \/ (h \notin Unseen /\ disk'[h] = disk[h])
  <2>1. phase = "build" /\ phase' = "build"
    BY <1>2 DEF Write, Listening
  <2> QED BY <1>1, <1>2, <2>1 DEF MemoryOK, DiskType, Unseen
<1> QED BY <1>2, <1>3, <1>4, DiskStep

LEMMA RaiseStep ==
  ASSUME IInv, Raise
  PROVE  IInv'
<1>1. MemoryOK
  BY InvParts
<1>2. /\ raised' = TRUE /\ phase' = "down"
      /\ checks' = {} /\ asked' = [s \in Step |-> {}] /\ miss' = {}
      /\ changes' = {} /\ queue' = [f \in File |-> None]
      /\ db' = db /\ disk' = disk /\ events' = events /\ unnoticed' = unnoticed
  BY DEF Raise
<1>3. MemoryOK'
  BY <1>1, <1>2 DEF MemoryOK, DiskType
<1> QED BY <1>2, <1>3, DownStep

\* The end of a hash job, in a build phase or before one.
LEMMA ApplyStep ==
  ASSUME IInv, NEW f \in File, NEW d, Rehash(db, d, {f}), Apply(d, f),
         phase \in {"build", "update"}
  PROVE  IInv'
<1>1. DbOK(db) /\ MemoryOK /\ (TreesOfPlan /\ phase # "down" => PlanCurrent)
  BY InvParts
<1>2. Rehash(db, d, {f})
  OBVIOUS
<1>3. \/ /\ d.ok /\ db' = d /\ checks' = checks \ {f}
         /\ UNCHANGED <<disk, asked, miss, changes, queue, phase, raised, events, unnoticed>>
      \/ Raise
  BY DEF Apply
<1>4. CASE Raise
  BY <1>4, RaiseStep
<1>5. CASE /\ d.ok /\ db' = d /\ checks' = checks \ {f}
           /\ UNCHANGED <<disk, asked, miss, changes, queue, phase, raised, events, unnoticed>>
  <2>1. MemoryOK'
    BY <1>1, <1>5 DEF MemoryOK, DiskType
  <2>2. DbOK(db')
    BY <1>1, <1>2, <1>5 DEF Rehash, DbOK
  <2>3. ASSUME PlanCurrent PROVE PlanCurrent'
    <3>1. ASSUME NEW h \in File, OfPlan(db', h), db'.row[h] \in Static
          PROVE  \/ h \in checks' \/ Current(db, h)'
                 \/ /\ OfPlan(db, h) /\ db'.row[h] = db.row[h] /\ db'.hash[h] = db.hash[h]
                    /\ h \notin checks /\ (h \in Unseen' \/ (h \notin Unseen /\ disk'[h] = disk[h]))
      <4>1. CASE h = f
        <5>1. Current(d, h)
          BY <1>2, <1>5, <3>1, <4>1 DEF Rehash, Settled
        <5> QED BY <1>5, <5>1 DEF Current, Missing
      <4>2. CASE h # f
        <5>1. OfPlan(db, h)
          BY <1>2, <1>5, <3>1, SameCreators DEF Rehash
        <5>2. d.row[h] = db.row[h] /\ d.hash[h] = db.hash[h]
          BY <1>2, <1>5, <3>1, <4>2 DEF Rehash, Static
        <5> QED BY <1>5, <3>1, <4>2, <5>1, <5>2 DEF Unseen
      <4> QED BY <4>1, <4>2
    <3> QED BY <2>3, <3>1, PlanCurrentStep
  <2>4. /\ phase' \notin {"build", "update"} => checks' = {}
        /\ TreesOfPlan /\ phase' # "down" => PlanCurrent'
    BY <1>1, <1>5, <2>3
  <2> QED BY <2>1, <2>2, <2>4, InvPartsNext, DbOKNext
<1> QED BY <1>3, <1>4, <1>5

LEMMA HashDoneStep ==
  ASSUME IInv, NEW f \in File, HashDone(f)
  PROVE  IInv'
<1>1. DbOK(db) /\ MemoryOK
  BY InvParts
<1>2. Rehash(db, Confirm(db, f), {f})
  BY <1>1, ConfirmRehash DEF DbOK, MemoryOK
<1> QED BY <1>2, ApplyStep DEF HashDone

LEMMA UpdateStep ==
  ASSUME IInv, NEW f \in File, Update(f)
  PROVE  IInv'
<1>1. DbOK(db) /\ MemoryOK
  BY InvParts
<1>2. Rehash(db, External(db, f), {f})
  BY <1>1, ExternalRehash DEF DbOK, MemoryOK
<1> QED BY <1>2, ApplyStep DEF Update

LEMMA BeginStep ==
  ASSUME IInv, NEW s \in Step, Begin(s)
  PROVE  IInv'
<1>1. DbOK(db)
  BY InvParts
<1> DEFINE e == SetSteps(db, {s}, "RUNNING")
<1>2. Start(s, Reset(e, s))
  BY DEF Begin
<1>3. "RUNNING" \in StepState \ {"SUCCEEDED"} /\ db \in DB
  BY <1>1 DEF StepState, DbOK, Sound, SoundFiles
<1>4. Keeps(db, e) /\ e.ok = db.ok /\ e.st[s] # "SUCCEEDED"
  <2>1. Keeps(db, e)
    BY <1>1, <1>3, SetStepsKeeps DEF DbOK
  <2>2. e.st = [r \in Step |-> IF r \in {s} THEN "RUNNING" ELSE db.st[r]] /\ e.ok = db.ok
    BY <1>3, SetStepsType DEF SameMemory
  <2> QED BY <2>1, <2>2
<1> HIDE DEF e
<1>5. Keeps(e, Reset(e, s)) /\ Reset(e, s).ok = e.ok
  BY <1>4, ResetKeeps DEF Keeps
<1>6. Keeps(db, Reset(e, s)) /\ Reset(e, s).ok = db.ok
  BY <1>4, <1>5, KeepsTrans
<1> QED BY <1>2, <1>6, StartStep

LEMMA SucceedStep ==
  ASSUME IInv, NEW s \in Step, Skip(s) \/ EndSuccess(s)
  PROVE  IInv'
<1>1. DbOK(db) /\ MemoryOK
  BY InvParts
<1>2. Start(s, Succeed(db, s))
  BY DEF Skip, EndSuccess
<1>3. Keeps(db, Succeed(db, s)) /\ Succeed(db, s).ok = db.ok
  BY <1>1, SucceedKeeps DEF DbOK, MemoryOK
<1> QED BY <1>2, <1>3, StartStep

LEMMA NoSkipStep ==
  ASSUME IInv, NEW s \in Step, NoSkip(s)
  PROVE  IInv'
<1>1. DbOK(db)
  BY InvParts
<1> DEFINE e == Reset(db, s)
           g == [e EXCEPT !.hashed = @ \ {s}]
<1>2. Start(s, g) /\ db.st[s] # "SUCCEEDED"
  BY DEF NoSkip, Ready
<1>3. Keeps(db, e) /\ e.ok = db.ok
  BY <1>1, <1>2, ResetKeeps DEF DbOK
<1> HIDE DEF e
<1>4. e \in DB /\ Sound(e)
  BY <1>3 DEF Keeps, Sound, SoundFiles
<1>5. /\ g \in DB /\ SameGraph(e, g) /\ g.row = e.row /\ g.hash = e.hash /\ g.st = e.st
      /\ g.ok = e.ok /\ g.toCheck = e.toCheck
  BY <1>4 DEF DB, SameGraph
<1> HIDE DEF g
<1>6. Keeps(e, g)
  BY <1>4, <1>5, SameKeeps
<1>7. Keeps(db, g) /\ g.ok = db.ok
  BY <1>3, <1>5, <1>6, KeepsTrans
<1> QED BY <1>2, <1>7, StartStep

LEMMA EndFailureStep ==
  ASSUME IInv, NEW s \in Step, EndFailure(s)
  PROVE  IInv'
<1>1. DbOK(db) /\ MemoryOK
  BY InvParts
<1>2. db.st[s] = "RUNNING"
  BY DEF EndFailure, Listening
<1> DEFINE d == Failing(db, s)
           N == Products(d, s) \cap Step
           w == [SetSteps(d, {s}, "PENDING") EXCEPT
                   !.deferred = IF MissesDynamic(d, s) THEN @ \cup {s} ELSE @]
<1>3. /\ db' = w \/ db' = Detach(SetSteps(d, {s}, "FAILED"), N)
      /\ miss' = miss \ {s}
      /\ UNCHANGED <<disk, checks, asked, changes, queue, phase, raised, events, unnoticed>>
  BY DEF EndFailure, Failing
<1>4. Keeps(db, d) /\ d.ok = db.ok
  BY <1>1, <1>2, FailingKeeps DEF DbOK, MemoryOK
<1> HIDE DEF d
<1>5. Sound(d) /\ d \in DB /\ d.cr[Plan] = Root
  BY <1>4 DEF Keeps, Sound, SoundFiles, Recorded
<1>6. N \in SUBSET Node /\ Plan \notin N
  BY <1>5, Kinds DEF Products
<1> HIDE DEF N
<1>7. ASSUME NEW state \in {"PENDING", "FAILED"}
      PROVE  LET e == SetSteps(d, {s}, state) IN Keeps(db, e) /\ e.ok = db.ok /\ e \in DB
  <2>1. state \in StepState /\ state # "SUCCEEDED"
    BY DEF StepState
  <2>2. Keeps(d, SetSteps(d, {s}, state))
    BY <1>5, <2>1, SetStepsKeeps
  <2>3. SetSteps(d, {s}, state).ok = d.ok
    BY DEF SetSteps
  <2>4. SetSteps(d, {s}, state) \in DB
    BY <2>2 DEF Keeps, Sound, SoundFiles
  <2> QED BY <1>4, <2>2, <2>3, <2>4, KeepsTrans
<1>8. Keeps(db, db') /\ db'.ok = db.ok
  <2>1. CASE db' = w
    <3> DEFINE e == SetSteps(d, {s}, "PENDING")
    <3>1. Keeps(db, e) /\ e.ok = db.ok /\ e \in DB
      BY <1>7
    <3>2. Sound(e)
      BY <3>1 DEF Keeps
    <3>3. w = [e EXCEPT !.deferred = IF MissesDynamic(d, s) THEN @ \cup {s} ELSE @]
      OBVIOUS
    <3> HIDE DEF e, w
    <3>4. /\ w \in DB /\ SameGraph(e, w) /\ w.row = e.row /\ w.hash = e.hash /\ w.st = e.st
          /\ w.ok = e.ok /\ w.toCheck = e.toCheck
      BY <3>1, <3>3 DEF DB, SameGraph
    <3>5. Keeps(e, w)
      BY <3>2, <3>4, SameKeeps
    <3> QED BY <2>1, <3>1, <3>4, <3>5, KeepsTrans
  <2>2. CASE db' = Detach(SetSteps(d, {s}, "FAILED"), N)
    <3> DEFINE e == SetSteps(d, {s}, "FAILED")
    <3>1. Keeps(db, e) /\ e.ok = db.ok /\ e \in DB
      BY <1>7
    <3> HIDE DEF e
    <3>2. Keeps(e, Detach(e, N)) /\ Detach(e, N).ok = e.ok
      BY <1>6, <3>1, DetachKeeps, DetachType DEF Keeps, SameMemory
    <3> QED BY <2>2, <3>1, <3>2, KeepsTrans DEF e
  <2> QED BY <1>3, <2>1, <2>2
<1>9. MemoryOK'
  BY <1>1, <1>3 DEF MemoryOK, DiskType
<1> QED BY <1>1, <1>3, <1>8, <1>9, QuietStep DEF DbOK

\* The number of events stays within its bound.
LEMMA EventsType ==
  ASSUME MemoryOK, Happens
  PROVE  events' \in 0 .. MaxEvents
BY BoundType DEF MemoryOK, Happens

LEMMA EditScriptStep ==
  ASSUME IInv, NEW s \in Step, EditScript(s)
  PROVE  IInv'
<1>1. DbOK(db) /\ MemoryOK
  BY InvParts
<1>2. /\ db' = MarkPending(db, {s}) /\ UNCHANGED <<disk, memory, phase, raised, unnoticed>>
      /\ events' \in 0 .. MaxEvents
  BY <1>1, EventsType DEF EditScript
<1>3. Keeps(db, db') /\ db'.ok = db.ok
  <2>1. {s} \in SUBSET Step /\ Sound(db)
    BY <1>1 DEF DbOK
  <2>2. Keeps(db, MarkPending(db, {s})) /\ MarkPending(db, {s}).ok = db.ok
    BY <2>1, MarkPendingKeeps, MarksRehash
  <2> QED BY <1>2, <2>2
<1>4. MemoryOK'
  BY <1>1, <1>2 DEF MemoryOK, DiskType, memory
<1> QED BY <1>1, <1>2, <1>3, <1>4, QuietStep DEF memory, DbOK

\* The watcher begins with those changes of the build phase that matter.
LEMMA WatchStep ==
  ASSUME IInv, MemoryOK', EnterWatch(db), db' = db, disk' = disk, checks = {}, checks' = {},
         phase \notin {"down", "update"}
  PROVE  IInv'
<1>1. DbOK(db) /\ MemoryOK /\ (TreesOfPlan => PlanCurrent)
  BY InvParts
<1>2. phase' = "watch" /\ changes' = {f \in changes : Relevant(db, f, BuildStates)}
  BY DEF EnterWatch
<1>3. ASSUME PlanCurrent PROVE PlanCurrent'
  <2>1. ASSUME NEW f \in File, OfPlan(db', f), db'.row[f] \in Static
        PROVE  \/ f \in checks' \/ Current(db, f)'
               \/ /\ OfPlan(db, f) /\ db'.row[f] = db.row[f] /\ db'.hash[f] = db.hash[f]
                  /\ f \notin checks /\ (f \in Unseen' \/ (f \notin Unseen /\ disk'[f] = disk[f]))
    <3>1. db.row[f] # "UNCONFIRMED"
      BY <1>3, <2>1 DEF PlanCurrent
    <3>2. f \in Attached(db)
      BY <1>1, <2>1, PlanFilesAttached DEF DbOK
    <3>3. Relevant(db, f, BuildStates)
      BY <2>1, <3>1, <3>2 DEF Relevant, BuildStates, Static
    <3> QED BY <1>2, <2>1, <3>3 DEF Unseen
  <2> QED BY <1>3, <2>1, PlanCurrentStep
<1>4. DbOK(db')
  BY <1>1
<1>5. /\ phase' \notin {"build", "update"} => checks' = {}
      /\ TreesOfPlan /\ phase' # "down" => PlanCurrent'
  BY <1>1, <1>3
<1> QED BY <1>4, <1>5, InvPartsNext, DbOKNext

LEMMA EndBuildStep ==
  ASSUME IInv, NEW drained \in BOOLEAN, EndBuild(drained)
  PROVE  IInv'
<1>1. DbOK(db) /\ MemoryOK /\ (TreesOfPlan /\ phase # "down" => PlanCurrent)
  BY InvParts
<1>2. phase = "build" /\ checks = {} /\ UNCHANGED <<disk, checks, asked, miss, raised, events, unnoticed>>
  BY DEF EndBuild
<1> DEFINE d == DeleteDetached(db)
<1>3. \/ db' = d /\ queue' = Queued(db, d) /\ phase' = "remove" /\ UNCHANGED changes
      \/ EnterWatch(db) /\ UNCHANGED <<db, queue>>
  BY DEF EndBuild
<1>4. Keeps(db, d) /\ d.ok = db.ok
  BY <1>1, DeleteDetachedKeeps DEF DbOK
<1> HIDE DEF d
<1>5. CASE EnterWatch(db) /\ UNCHANGED <<db, queue>>
  <2>1. changes' \subseteq changes /\ phase' = "watch"
    BY <1>5 DEF EnterWatch
  <2>2. MemoryOK'
    BY <1>1, <1>2, <1>5, <2>1 DEF MemoryOK, DiskType
  <2> QED BY <1>2, <1>5, <2>2, WatchStep
<1>6. CASE db' = d /\ queue' = Queued(db, d) /\ phase' = "remove" /\ UNCHANGED changes
  <2>1. db \in DB
    BY <1>1 DEF DbOK, Sound, SoundFiles
  <2>2. queue' \in [File -> {None, "any", "user", "made"}]
    BY <1>6, <2>1 DEF Queued, DB, Content
  <2>3. MemoryOK'
    BY <1>1, <1>2, <1>6, <2>2 DEF MemoryOK, DiskType
  <2>4. ASSUME PlanCurrent PROVE PlanCurrent'
    <3>1. ASSUME NEW f \in File, OfPlan(db', f), db'.row[f] \in Static
          PROVE  \/ f \in checks' \/ Current(db, f)'
                 \/ /\ OfPlan(db, f) /\ db'.row[f] = db.row[f] /\ db'.hash[f] = db.hash[f]
                    /\ f \notin checks /\ (f \in Unseen' \/ (f \notin Unseen /\ disk'[f] = disk[f]))
      BY <1>1, <1>2, <1>4, <1>6, <3>1 DEF Keeps, Kept, DbOK, Unseen
    <3> QED BY <2>4, <3>1, PlanCurrentStep
  <2>5. DbOK(db')
    BY <1>1, <1>4, <1>6 DEF DbOK, Keeps
  <2>6. /\ phase' \notin {"build", "update"} => checks' = {}
        /\ TreesOfPlan /\ phase' # "down" => PlanCurrent'
    BY <1>1, <1>2, <2>4
  <2> QED BY <2>3, <2>5, <2>6, InvPartsNext, DbOKNext
<1> QED BY <1>3, <1>5, <1>6

LEMMA RemoveFileStep ==
  ASSUME IInv, NEW f \in File, RemoveFile(f)
  PROVE  IInv'
<1>1. MemoryOK
  BY InvParts
<1>2. /\ disk' = [disk EXCEPT ![f] = None] \/ disk' = disk
      /\ changes' = changes \cup {f} /\ queue' = [queue EXCEPT ![f] = None]
      /\ UNCHANGED <<db, checks, asked, miss, phase, raised, events, unnoticed>>
  BY <1>1 DEF RemoveFile, MemoryOK, DiskType
<1>3. disk' \in [File -> Content] /\ \A h \in File : h # f => disk'[h] = disk[h]
  BY <1>1, <1>2 DEF MemoryOK, DiskType, Content
<1>4. MemoryOK'
  BY <1>1, <1>2, <1>3 DEF MemoryOK, DiskType
<1>5. \A h \in File : h \in Unseen' \/ (h \notin Unseen /\ disk'[h] = disk[h])
  <2>1. phase = "remove" /\ phase' = "remove"
    BY <1>2 DEF RemoveFile
  <2> QED BY <1>2, <1>3, <2>1 DEF Unseen
<1> QED BY <1>2, <1>4, <1>5, DiskStep

LEMMA EndRemoveStep ==
  ASSUME IInv, EndRemove
  PROVE  IInv'
<1>1. MemoryOK /\ (phase \notin {"build", "update"} => checks = {})
  BY InvParts
<1>2. /\ phase = "remove" /\ EnterWatch(db)
      /\ UNCHANGED <<db, disk, checks, asked, miss, queue, raised, events, unnoticed>>
  BY DEF EndRemove
<1>3. changes' \subseteq changes /\ phase' = "watch"
  BY <1>2 DEF EnterWatch
<1>4. MemoryOK'
  BY <1>1, <1>2, <1>3 DEF MemoryOK, DiskType
<1> QED BY <1>1, <1>2, <1>4, WatchStep

LEMMA EditStep ==
  ASSUME IInv, NEW f \in File, Edit(f)
  PROVE  IInv'
<1>1. DbOK(db) /\ MemoryOK
  BY InvParts
<1>2. /\ phase \in {"watch", "down"} /\ events' \in 0 .. MaxEvents
      /\ changes' = IF phase = "watch" /\ Relevant(db, f, WatchStates) THEN changes \cup {f} ELSE changes
      /\ UNCHANGED <<db, checks, asked, miss, queue, phase, raised, unnoticed>>
  BY <1>1, EventsType DEF Edit
<1>3. PICK c \in {None, "user"} : disk' = [disk EXCEPT ![f] = c]
  BY DEF Edit
<1>4. disk' \in [File -> Content] /\ \A h \in File : h # f => disk'[h] = disk[h]
  BY <1>1, <1>3 DEF MemoryOK, DiskType, Content
<1>5. MemoryOK'
  BY <1>1, <1>2, <1>4 DEF MemoryOK, DiskType
<1>6. ASSUME phase = "watch", NEW h \in File, OfPlan(db, h), db.row[h] \in Static
      PROVE  h \in Unseen' \/ (h \notin Unseen /\ disk'[h] = disk[h])
  <2>1. h \in Attached(db)
    BY <1>1, <1>6, PlanFilesAttached DEF DbOK
  <2>2. Relevant(db, h, WatchStates)
    BY <1>6, <2>1 DEF Relevant, WatchStates
  <2> QED BY <1>2, <1>4, <1>6, <2>2 DEF Unseen
<1> QED BY <1>2, <1>5, <1>6, DiskStep

\* A static file that was checked already has the state that goes with its hash.
LEMMA RecordedCurrent ==
  ASSUME DiskType, NEW d, Sound(d), NEW f \in File,
         d.row[f] \in Static \ {"UNCONFIRMED"}, d.hash[f] = disk[f]
  PROVE  Current(d, f)
<1>1. /\ d.row[f] = "CONFIRMED" => d.hash[f] # None
      /\ d.row[f] = "MISSING" => d.hash[f] = None
  BY DEF Sound, SoundFiles, Recorded
<1> QED BY <1>1 DEF Current, Missing, Static

LEMMA ProcessGlobsRehash ==
  ASSUME NEW d, Sound(d), NEW D \in SUBSET File, NEW U \in SUBSET File
  PROVE  Rehash(d, ProcessGlobs(d, D, U), {}) /\ ProcessGlobs(d, D, U).ok = d.ok
<1> DEFINE found == [r \in Registered(d) |-> Evolved(r, D, U)]
<1>1. d \in DB
  BY DEF Sound, SoundFiles
<1>2. ASSUME NEW r \in Registered(d) PROVE found[r] \in SUBSET File
  <2>1. r.found \in SUBSET File
    BY <1>1 DEF Registered, DB, Registration
  <2>2. found[r] = Evolved(r, D, U)
    OBVIOUS
  <2> QED BY <2>1, <2>2 DEF Evolved
<1> HIDE DEF found
<1>3. Rehash(d, Rematch(d, found), {}) /\ Rematch(d, found).ok = d.ok
  BY <1>2, RematchRehash
<1> QED BY <1>3 DEF ProcessGlobs, found

LEMMA RescanGlobsRehash ==
  ASSUME NEW d, Sound(d)
  PROVE  Rehash(d, RescanGlobs(d), {}) /\ RescanGlobs(d).ok = d.ok
<1> DEFINE found == [r \in Registered(d) |-> Found(r.glob)]
<1>1. \A r \in Registered(d) : found[r] \in SUBSET File
  BY DEF Found, OnDisk
<1> HIDE DEF found
<1>2. Rehash(d, Rematch(d, found), {}) /\ Rematch(d, found).ok = d.ok
  BY <1>1, RematchRehash
<1> QED BY <1>2 DEF RescanGlobs, found

\* Static files that changed get a job, and the others are current.
LEMMA EndWatchStep ==
  ASSUME IInv, EndWatch
  PROVE  IInv'
<1>1. /\ DbOK(db) /\ MemoryOK /\ (phase \notin {"build", "update"} => checks = {})
      /\ TreesOfPlan /\ phase # "down" => PlanCurrent
  BY InvParts
<1> DEFINE failed == {s \in Step \cap Attached(db) : db.st[s] = "FAILED"}
           rows == {f \in changes : db.row[f] # "NONE"}
           stale == {f \in rows : db.hash[f] # disk[f]}
           back == (rows \ stale) \cap OnDisk
<1>2. /\ phase = "watch" /\ phase' = "update" /\ events' \in 0 .. MaxEvents
      /\ db' = MarkPending(db, failed)
      /\ checks' = stale /\ changes' = changes \ back
      /\ unnoticed' = (unnoticed \ changes) \cup back
      /\ UNCHANGED <<disk, asked, miss, queue, raised>>
  BY <1>1, EventsType DEF EndWatch
<1>3. failed \in SUBSET Step /\ stale \in SUBSET File /\ back \in SUBSET File
  BY <1>1 DEF MemoryOK
<1>4. \A f \in changes : db.row[f] # "NONE" => f \in stale \/ db.hash[f] = disk[f]
  OBVIOUS
<1> HIDE DEF failed, stale, back
<1>5. Keeps(db, db') /\ db'.ok = db.ok
  BY <1>1, <1>2, <1>3, MarkPendingKeeps, MarksRehash DEF DbOK
<1>6. MemoryOK'
  BY <1>1, <1>2, <1>3 DEF MemoryOK, DiskType
<1>7. DbOK(db')
  BY <1>1, <1>5 DEF DbOK, Keeps
<1>8. ASSUME PlanCurrent PROVE PlanCurrent'
  <2>1. ASSUME NEW f \in File, OfPlan(db', f), db'.row[f] \in Static
        PROVE  f \in checks' \/ Current(db, f)'
    <3>1. /\ OfPlan(db, f) /\ db.row[f] \in Static
          /\ db'.row[f] = db.row[f] /\ db'.hash[f] = db.hash[f]
      BY <1>1, <1>5, <2>1 DEF Keeps, Kept, DbOK
    <3>2. db.row[f] # "UNCONFIRMED" /\ (f \in changes \/ Current(db, f))
      BY <1>1, <1>2, <1>8, <3>1 DEF PlanCurrent, Unseen
    <3>3. CASE f \in changes
      <4>1. f \in stale \/ db.hash[f] = disk[f]
        BY <1>4, <3>1, <3>3 DEF Static
      <4>2. db.hash[f] = disk[f] => Current(db, f)
        BY <1>1, <3>1, <3>2, RecordedCurrent DEF DbOK, MemoryOK
      <4> QED BY <1>2, <3>1, <4>1, <4>2 DEF Current, Missing
    <3>4. CASE Current(db, f)
      BY <1>2, <3>1, <3>4 DEF Current, Missing
    <3> QED BY <3>2, <3>3, <3>4
  <2> QED BY <1>8, <2>1, PlanCurrentStep
<1>9. /\ phase' \notin {"build", "update"} => checks' = {}
      /\ TreesOfPlan /\ phase' # "down" => PlanCurrent'
  BY <1>1, <1>2, <1>8
<1> QED BY <1>6, <1>7, <1>9, InvPartsNext, DbOKNext

LEMMA StartBuildStep ==
  ASSUME IInv, StartBuild
  PROVE  IInv'
<1>1. /\ DbOK(db) /\ MemoryOK
      /\ TreesOfPlan /\ phase # "down" => PlanCurrent
  BY InvParts
<1> DEFINE deleted == changes \ OnDisk
           updated == changes \cap OnDisk
           e == ProcessGlobs(db, deleted, updated)
<1>2. /\ phase = "update" /\ checks = {} /\ phase' = "build" /\ db' = e /\ changes' = {}
      /\ UNCHANGED <<disk, checks, asked, miss, queue, raised, events, unnoticed>>
  BY DEF StartBuild
<1>3. deleted \in SUBSET File /\ updated \in SUBSET File
  BY <1>1 DEF MemoryOK
<1> HIDE DEF deleted, updated
<1>4. Rehash(db, e, {}) /\ e.ok = db.ok
  BY <1>1, <1>3, ProcessGlobsRehash DEF DbOK
<1> HIDE DEF e
<1>5. MemoryOK'
  BY <1>1, <1>2 DEF MemoryOK, DiskType
<1>6. DbOK(db')
  BY <1>1, <1>2, <1>4 DEF DbOK, Rehash
<1>7. ASSUME PlanCurrent PROVE PlanCurrent'
  <2>1. ASSUME NEW f \in File, OfPlan(db', f), db'.row[f] \in Static
        PROVE  Current(db, f)'
    <3>1. OfPlan(db, f)
      BY <1>2, <1>4, <2>1, SameCreators DEF Rehash
    <3>2. e.row[f] = db.row[f] /\ e.hash[f] = db.hash[f]
      BY <1>2, <1>4, <2>1 DEF Rehash, Static
    <3>3. Current(db, f)
      BY <1>2, <1>7, <2>1, <3>1, <3>2 DEF PlanCurrent, Unseen
    <3> QED BY <1>2, <3>2, <3>3 DEF Current, Missing
  <2> QED BY <1>7, <2>1, PlanCurrentStep
<1>8. /\ phase' \notin {"build", "update"} => checks' = {}
      /\ TreesOfPlan /\ phase' # "down" => PlanCurrent'
  BY <1>1, <1>2, <1>7
<1> QED BY <1>5, <1>6, <1>8, InvPartsNext, DbOKNext

LEMMA StopStep ==
  ASSUME IInv, Stop
  PROVE  IInv'
<1>1. MemoryOK
  BY InvParts
<1>2. /\ phase' = "down" /\ events' \in 0 .. MaxEvents
      /\ checks' = {} /\ asked' = [s \in Step |-> {}] /\ miss' = {}
      /\ changes' = {} /\ queue' = [f \in File |-> None]
      /\ db' = db /\ disk' = disk /\ raised' = raised /\ unnoticed' = unnoticed
  BY <1>1, EventsType DEF Stop
<1>3. MemoryOK'
  BY <1>1, <1>2 DEF MemoryOK, DiskType
<1> QED BY <1>2, <1>3, DownStep

LEMMA CleanStep ==
  ASSUME IInv, NEW F \in SUBSET File, NEW all \in BOOLEAN, Clean(F, all)
  PROVE  IInv'
<1>1. MemoryOK
  BY InvParts
<1>2. /\ phase = "down" /\ events' \in 0 .. MaxEvents
      /\ UNCHANGED <<db, memory, phase, raised, unnoticed>>
  BY <1>1, EventsType DEF Clean
<1>3. PICK X \in SUBSET File : disk' = [f \in File |-> IF f \in X THEN None ELSE disk[f]]
  <2>1. ConsumingPaths(F, all) \in SUBSET File
    BY DEF ConsumingPaths, Rows
  <2> QED BY <2>1 DEF Clean
<1>4. disk' \in [File -> Content]
  BY <1>1, <1>3 DEF MemoryOK, DiskType, Content
<1>5. MemoryOK'
  BY <1>1, <1>2, <1>4 DEF MemoryOK, DiskType, memory
<1> QED BY <1>2, <1>5, DiskStep DEF memory

\* The files that rescan_files looks at: those to confirm, and those that changed.
ToConfirm(d) ==
  Attached(d) \cap (File \ Rows(d, {"PLANNED", "VOLATILE"})) \cap Rows(d, {"UNCONFIRMED"})
Changed(d) ==
  {f \in (Attached(d) \cap (File \ Rows(d, {"PLANNED", "VOLATILE"}))) \ ToConfirm(d) :
     d.hash[f] # disk[f]}

LEMMA RescanFilesRehash ==
  ASSUME DiskType, NEW d, Sound(d), d.ok
  PROVE  Rehash(d, RescanFiles(d), ToConfirm(d) \cup Changed(d)) /\ RescanFiles(d).ok
<1> DEFINE A == ToConfirm(d)
           B == Changed(d)
           e == Confirms(d, A)
<1>1. RescanFiles(d) = Externals(e, B)
  <2>1. A = (Attached(d) \cap (File \ Rows(d, {"PLANNED", "VOLATILE"}))) \cap Rows(d, {"UNCONFIRMED"})
    BY DEF ToConfirm
  <2> QED BY <2>1 DEF RescanFiles, Confirms, Changed
<1>2. /\ A \in SUBSET File /\ B \in SUBSET File /\ A \cap B = {}
      /\ \A f \in A : d.row[f] \in Static
  BY DEF ToConfirm, Changed, Rows, Static
<1>3. ASSUME NEW f \in B PROVE d.row[f] \in Static \cup {"BUILT", "OUTDATED"}
  <2>1. f \in File /\ f \in Attached(d) /\ d.row[f] \notin {"PLANNED", "VOLATILE"}
    BY DEF Changed, Rows
  <2>2. d \in DB
    BY DEF Sound, SoundFiles
  <2>3. d.cr[f] # None
    BY <2>1, <2>2, AttachedFacts, Kinds DEF Owner, Node
  <2>4. d.row[f] \notin {"NONE", "UNDECLARED"}
    BY <2>1, <2>3 DEF Sound, SoundFiles, FilesClaimed, Claimed
  <2>5. d.row[f] \in RowState
    BY <2>1, <2>2 DEF DB
  <2> QED BY <2>1, <2>4, <2>5 DEF RowState, Output
<1> HIDE DEF A, B
<1>4. Rehash(d, e, A) /\ e.ok
  BY <1>2, ConfirmsRehash
<1> HIDE DEF e
<1>5. \A f \in B : e.row[f] \in Static \cup {"BUILT", "OUTDATED"}
  BY <1>2, <1>3, <1>4 DEF Rehash
<1>6. Rehash(e, Externals(e, B), B) /\ Externals(e, B).ok
  BY <1>2, <1>4, <1>5, ExternalsRehash DEF Rehash
<1>7. Rehash(d, Externals(e, B), A \cup B)
  BY <1>2, <1>4, <1>6, RehashTrans
<1> QED BY <1>1, <1>6, <1>7 DEF A, B

LEMMA RestartStep ==
  ASSUME IInv, Restart
  PROVE  IInv'
<1>1. DbOK(db) /\ MemoryOK /\ (phase \notin {"build", "update"} => checks = {})
  BY InvParts
<1> DEFINE doubtful == {s \in Step : /\ db.st[s] = "SUCCEEDED"
                                     /\ db.out[s] \cap Attached(db) \cap
                                          Rows(db, Static \cup {"PLANNED", "OUTDATED"}) # {}}
           a == MarkPending(db, doubtful)
           running == {s \in Step : a.st[s] = "RUNNING"}
           b == SetSteps(a, running, "FAILED")
           failed == {s \in Step \cap Attached(b) : b.st[s] = "FAILED"}
           d == MarkPending(b, failed)
           e == RescanFiles(d)
           g == RescanGlobs(e)
<1>2. /\ phase = "down" /\ db' = g /\ phase' = "build" /\ UNCHANGED <<disk, memory, raised>>
      /\ unnoticed' = {}
      /\ events' \in 0 .. MaxEvents
  BY <1>1, EventsType DEF Restart
<1>3. doubtful \in SUBSET Step
  OBVIOUS
<1> HIDE DEF doubtful
<1>4. Keeps(db, a) /\ a.ok = db.ok
  BY <1>1, <1>3, MarkPendingKeeps, MarksRehash DEF DbOK
<1>5. running \in SUBSET Step
  OBVIOUS
<1> HIDE DEF a, running
<1>6. Keeps(a, b) /\ b.ok = a.ok
  <2>1. "FAILED" \in StepState \ {"SUCCEEDED"} /\ Sound(a)
    BY <1>4 DEF StepState, Keeps
  <2>2. b.ok = a.ok
    BY DEF SetSteps
  <2> QED BY <1>5, <2>1, <2>2, SetStepsKeeps
<1>7. failed \in SUBSET Step
  OBVIOUS
<1> HIDE DEF b, failed
<1>8. Keeps(b, d) /\ d.ok = b.ok
  BY <1>6, <1>7, MarkPendingKeeps, MarksRehash DEF Keeps
<1> HIDE DEF d
<1>9. Sound(d) /\ d.ok /\ d.toCheck = {}
  BY <1>1, <1>4, <1>6, <1>8 DEF DbOK, Keeps
<1> DEFINE F == ToConfirm(d) \cup Changed(d)
<1>10. Rehash(d, e, F) /\ e.ok
  BY <1>1, <1>9, RescanFilesRehash DEF MemoryOK
<1> HIDE DEF e
<1>11. Rehash(e, g, {}) /\ g.ok = e.ok
  BY <1>10, RescanGlobsRehash DEF Rehash
<1> HIDE DEF g
<1>12. Rehash(d, g, F)
  <2>1. F \in SUBSET File /\ {} \in SUBSET File /\ F \cup {} = F
    BY DEF ToConfirm, Changed, Rows
  <2> HIDE DEF F
  <2> QED BY <1>10, <1>11, <2>1, RehashTrans
<1>13. MemoryOK'
  BY <1>1, <1>2 DEF MemoryOK, DiskType, memory
<1>14. DbOK(db')
  BY <1>2, <1>9, <1>10, <1>11, <1>12 DEF DbOK, Rehash
<1>15. ASSUME NEW f \in File, OfPlan(db', f), db'.row[f] \in Static
       PROVE  Current(g, f)
  <2>1. CASE f \in F
    BY <1>2, <1>12, <1>15, <2>1 DEF Rehash, Settled
  <2>2. CASE f \notin F
    <3>1. OfPlan(d, f)
      BY <1>2, <1>12, <1>15, SameCreators DEF Rehash
    <3>2. f \in Attached(d)
      BY <1>9, <3>1, PlanFilesAttached
    <3>3. g.row[f] = d.row[f] /\ g.hash[f] = d.hash[f] /\ d.row[f] \in Static
      BY <1>2, <1>12, <1>15, <2>2 DEF Rehash, Static
    <3>4. f \in Attached(d) \cap (File \ Rows(d, {"PLANNED", "VOLATILE"}))
      BY <3>2, <3>3 DEF Rows, Static
    <3>5. d.row[f] # "UNCONFIRMED"
      BY <2>2, <3>4 DEF ToConfirm, Rows
    <3>6. d.hash[f] = disk[f]
      BY <2>2, <3>4 DEF Changed
    <3>7. Current(d, f)
      BY <1>1, <1>9, <3>3, <3>5, <3>6, RecordedCurrent DEF MemoryOK
    <3> QED BY <3>3, <3>7 DEF Current
  <2> QED BY <2>1, <2>2
<1>16. PlanCurrent'
  <2> SUFFICES ASSUME NEW f \in File, OfPlan(db', f), db'.row[f] \in Static
               PROVE  Current(db, f)' /\ db'.row[f] # "UNCONFIRMED"
    BY DEF PlanCurrent
  <2>1. Current(g, f)
    BY <1>15
  <2> QED BY <1>2, <2>1 DEF Current, Missing
<1> QED BY <1>2, <1>13, <1>14, <1>16, InvPartsNext, DbOKNext

-----------------------------------------------------------------------------
(***************************************************************************)
(* The invariant.                                                          *)
(***************************************************************************)
LEMMA InitInv ==
  ASSUME Init
  PROVE  IInv
<1>1. /\ db \in DB /\ db.cr = [n \in Node |-> IF n = Plan THEN Root ELSE None]
      /\ db.row = [f \in File |-> "NONE"] /\ db.dynOut = Nobody /\ db.out = Nobody
      /\ db.ok /\ db.toCheck = {}
  BY DEF Init, DB, RowState, StepState, Content, Nobody
<1>2. \A f \in File : db.cr[f] = None
  BY <1>1, Kinds
<1>3. FilesClaimed(db)
  BY <1>2 DEF FilesClaimed
<1>4. Recorded(db)
  BY <1>1, Kinds DEF Recorded
<1>5. TreesClaimed(db)
  BY <1>1, Kinds DEF TreesClaimed
<1>6. DbOK(db)
  BY <1>1, <1>3, <1>4, <1>5 DEF DbOK, Sound, SoundFiles
<1>7. /\ disk \in [File -> {None, "user"}] /\ checks = {} /\ asked = Nobody /\ miss = {}
      /\ changes = {} /\ queue = [f \in File |-> None]
      /\ phase = "build" /\ raised = FALSE /\ events = 0 /\ unnoticed = {}
  BY DEF Init
<1>8. MemoryOK
  <2>1. disk \in [File -> Content]
    BY <1>7 DEF Content
  <2>2. asked \in [Step -> SUBSET File]
    BY <1>7 DEF Nobody
  <2>3. queue \in [File -> {None, "any", "user", "made"}]
    BY <1>7
  <2>4. events \in 0 .. MaxEvents
    BY <1>7, BoundType
  <2> QED BY <1>7, <2>1, <2>2, <2>3, <2>4 DEF MemoryOK, DiskType
<1>9. PlanCurrent
  BY <1>2, Kinds DEF PlanCurrent, OfPlan
<1> QED BY <1>6, <1>7, <1>8, <1>9, InvParts

LEMMA NextInv ==
  ASSUME IInv, [Next]_vars
  PROVE  IInv'
<1>1. ASSUME NEW s \in Step, DeclareStatics(s) PROVE IInv'
  BY <1>1, DeclareStaticsStep
<1>2. ASSUME NEW s \in Step, DeclareGlob(s) PROVE IInv'
  BY <1>2, DeclareGlobStep
<1>3. ASSUME NEW s \in Step, Define(s) PROVE IInv'
  BY <1>3, DefineInv
<1>4. ASSUME NEW s \in Step, Amend(s) PROVE IInv'
  BY <1>4, AmendInv
<1>5. ASSUME NEW s \in Step, Answer(s) PROVE IInv'
  BY <1>5, AnswerStep
<1>6. ASSUME NEW s \in Step, NEW f \in File, Write(s, f) PROVE IInv'
  BY <1>6, WriteStep
<1>7. ASSUME NEW s \in Step, Begin(s) PROVE IInv'
  BY <1>7, BeginStep
<1>8. ASSUME NEW s \in Step, Skip(s) \/ EndSuccess(s) PROVE IInv'
  BY <1>8, SucceedStep
<1>9. ASSUME NEW s \in Step, NoSkip(s) PROVE IInv'
  BY <1>9, NoSkipStep
<1>10. ASSUME NEW s \in Step, EndFailure(s) PROVE IInv'
  BY <1>10, EndFailureStep
<1>11. ASSUME NEW s \in Step, EditScript(s) PROVE IInv'
  BY <1>11, EditScriptStep
<1>12. ASSUME NEW f \in File, HashDone(f) \/ Update(f) PROVE IInv'
  BY <1>12, HashDoneStep, UpdateStep
<1>13. ASSUME NEW f \in File, RemoveFile(f) PROVE IInv'
  BY <1>13, RemoveFileStep
<1>14. ASSUME NEW f \in File, Edit(f) PROVE IInv'
  BY <1>14, EditStep
<1>15. ASSUME NEW drained \in BOOLEAN, EndBuild(drained) PROVE IInv'
  BY <1>15, EndBuildStep
<1>16. CASE EndRemove
  BY <1>16, EndRemoveStep
<1>17. CASE EndWatch \/ StartBuild
  BY <1>17, EndWatchStep, StartBuildStep
<1>18. CASE Stop
  BY <1>18, StopStep
<1>19. CASE Restart
  BY <1>19, RestartStep
<1>20. ASSUME NEW F \in SUBSET File, NEW all \in BOOLEAN, Clean(F, all) PROVE IInv'
  BY <1>20, CleanStep
<1>21. CASE UNCHANGED vars
  <2>1. UNCHANGED <<db, disk, checks, asked, miss, changes, queue, phase, raised, events, unnoticed>>
    BY <1>21 DEF vars, memory
  <2>2. DbOK(db) /\ MemoryOK
    BY InvParts
  <2>3. MemoryOK'
    BY <2>1, <2>2 DEF MemoryOK, DiskType
  <2>4. Unseen' = Unseen
    BY <2>1 DEF Unseen
  <2> QED BY <2>1, <2>3, <2>4, DiskStep
<1> QED BY <1>1, <1>2, <1>3, <1>4, <1>5, <1>6, <1>7, <1>8, <1>9, <1>10, <1>11, <1>12, <1>13,
           <1>14, <1>15, <1>16, <1>17, <1>18, <1>19, <1>20, <1>21 DEF Next

\* The inductive invariant holds throughout, whatever the steps declare.
THEOREM IInvAlways == Spec => []IInv
<1>1. Init => IInv
  BY InitInv
<1>2. IInv /\ [Next]_vars => IInv'
  BY NextInv
<1> QED BY <1>1, <1>2, PTL DEF Spec

\* The columns keep their types, and no transaction that raises is committed.
THEOREM TypeCorrect == Spec => []TypeOK
<1>1. IInv => TypeOK
  BY DEF IInv
<1> QED BY <1>1, IInvAlways, PTL

LEMMA AttachedClaimed ==
  ASSUME IInv, NEW f \in File \cap Attached(db)
  PROVE  Claimed(db, f) /\ db.cr[f] # None
<1>1. DbOK(db) /\ db \in DB
  BY InvParts DEF DbOK, Sound, SoundFiles
<1>2. db.cr[f] # None
  BY <1>1, AttachedFacts, Kinds
<1> QED BY <1>1, <1>2 DEF DbOK, Sound, SoundFiles, FilesClaimed

\* Whatever claims of a path follow one another, by the user, by steps, by plans
\* that run again or are recycled, with failures, clean-up, stops and restarts:
\* an attached output has an edge from the step that declares it and from no
\* other, and a static file has none (Trellis.create, Step.reset_for_rerun,
\* Workflow.define_step, amend_step and register_static_tree).
THEOREM OneMakerAlways == Spec => []OneMaker
<1>1. ASSUME IInv PROVE OneMaker
  <2> SUFFICES ASSUME NEW f \in File \cap Attached(db)
               PROVE  {s \in Step : f \in db.out[s]} =
                        IF db.row[f] \in Static THEN {} ELSE {db.cr[f]}
    BY DEF OneMaker
  <2>1. Claimed(db, f)
    BY <1>1, AttachedClaimed
  <2> QED BY <2>1 DEF Claimed
<1> QED BY <1>1, IInvAlways, PTL

\* No edit, failure, stop or new claim leaves an attached output of a succeeded
\* step in another state than BUILT or VOLATILE, which the director verifies
\* when it starts (Workflow._check_consistency).
THEOREM SucceededBuiltAlways == Spec => []SucceededBuilt
<1>1. ASSUME IInv PROVE SucceededBuilt
  <2> SUFFICES ASSUME NEW f \in Attached(db), NEW s \in Step,
                      db.st[s] = "SUCCEEDED", f \in db.out[s]
               PROVE  f \in Rows(db, {"BUILT", "VOLATILE"})
    BY DEF SucceededBuilt
  <2>1. f \in File
    BY <1>1, InvParts DEF DbOK, Sound, SoundFiles, DB
  <2>2. Claimed(db, f)
    BY <1>1, <2>1, AttachedClaimed
  <2> QED BY <2>1, <2>2 DEF Claimed, Rows
<1> QED BY <1>1, IInvAlways, PTL

LEMMA AttachedTrees ==
  ASSUME TreesOfPlan, IInv, NEW t \in Tree \cap Attached(db)
  PROVE  db.cr[t] = Plan /\ TreesClaimed(db)
<1>1. DbOK(db) /\ db \in DB
  BY InvParts DEF DbOK, Sound, SoundFiles
<1>2. TreesClaimed(db)
  BY <1>1 DEF DbOK, Sound
<1>3. db.cr[t] # None
  BY <1>1, AttachedFacts, Kinds
<1> QED BY <1>2, <1>3 DEF TreesClaimed

\* As long as only the root plan declares static trees, every claim of a path
\* has one owner: a file in an attached tree belongs to that tree, and outputs
\* and static files keep their makers apart (Workflow.register_static_tree,
\* _declare_file and _resolve_supply_file).
THEOREM OneOwnerAlways ==
  ASSUME TreesOfPlan
  PROVE  Spec => []OneOwner
<1>1. ASSUME IInv PROVE TreeOwnsFiles
  <2> SUFFICES ASSUME NEW t \in Tree \cap Attached(db), NEW f \in Under[t] \cap Attached(db)
               PROVE  db.cr[f] = t
    BY DEF TreeOwnsFiles
  <2>1. db.cr[t] = Plan /\ TreesClaimed(db)
    BY <1>1, AttachedTrees
  <2>2. f \in File \cap Attached(db)
    BY LayoutType
  <2>3. db.cr[f] # None
    BY <1>1, <2>2, AttachedClaimed
  <2> QED BY <2>1, <2>3 DEF TreesClaimed
<1>2. IInv => TreeOwnsFiles
  BY <1>1
<1>3. TypeOK /\ TreeOwnsFiles /\ OneMaker => OneOwner
  BY DEF OneOwner
<1> QED BY <1>2, <1>3, IInvAlways, TypeCorrect, OneMakerAlways, PTL

\* As long as only the root plan declares static trees, no static file of the
\* plan or of one of its trees is out of date without a job or a recorded change
\* to renew it, also when files were edited while no director ran
\* (Workflow.update_file_hashes, rescan_files and Watcher.run_once).
THEOREM StaticsCurrentAlways ==
  ASSUME TreesOfPlan
  PROVE  Spec => []StaticsCurrent
<1>1. ASSUME IInv PROVE StaticsCurrent
  <2> SUFFICES ASSUME NEW f \in File \cap Attached(db), db.row[f] \in Static,
                      db.cr[f] \in Tree \cup {Plan}, phase # "down"
               PROVE  f \in checks \cup changes \/ Current(db, f)
    BY DEF StaticsCurrent, Current
  <2>1. PlanCurrent
    BY <1>1 DEF IInv
  <2>2. OfPlan(db, f)
    <3>1. CASE db.cr[f] = Plan
      BY <3>1 DEF OfPlan
    <3>2. CASE db.cr[f] \in Tree
      <4>1. db \in DB
        BY <1>1, InvParts DEF DbOK, Sound, SoundFiles
      <4>2. db.cr[f] \in Attached(db)
        BY <4>1, AttachedFacts
      <4>3. db.cr[db.cr[f]] = Plan
        BY <1>1, <3>2, <4>2, AttachedTrees
      <4> QED BY <3>2, <4>3 DEF OfPlan
    <3> QED BY <3>1, <3>2
  <2> QED BY <2>1, <2>2 DEF PlanCurrent, Unseen
<1> QED BY <1>1, IInvAlways, PTL
-----------------------------------------------------------------------------
(***************************************************************************)
(* What the patterns have on record.                                       *)
(***************************************************************************)
\* e comes after d by operators that give no step a source as an output, and that
\* register patterns with what they match.
Tidies(d, e) ==
  /\ e \in DB
  /\ \A s \in Step : e.out[s] \cap Sources \subseteq d.out[s]
  /\ \A r \in e.reg : r \in d.reg \/ r.found = Found(r.glob)

LEMMA TidyTrans ==
  ASSUME NEW d, NEW e, NEW g, Tidies(d, e), Tidies(e, g)
  PROVE  Tidies(d, g)
BY DEF Tidies

LEMMA TidySame ==
  ASSUME NEW d, NEW e \in DB, e.reg \subseteq d.reg, \A s \in Step : e.out[s] \subseteq d.out[s]
  PROVE  Tidies(d, e)
BY DEF Tidies

LEMMA TidyColumns ==
  ASSUME NEW d, NEW e \in DB, e.reg = d.reg, e.out = d.out
  PROVE  Tidies(d, e)
BY DEF Tidies

LEMMA TidySelf ==
  ASSUME NEW d \in DB
  PROVE  Tidies(d, d)
BY TidyColumns

LEMMA MarkPendingTidies ==
  ASSUME NEW d \in DB, NEW S \in SUBSET Step
  PROVE  Tidies(d, MarkPending(d, S))
<1>1. Marks(d, MarkPending(d, S), S)
  BY MarkPendingMarks
<1> QED BY <1>1, TidyColumns DEF Marks, SameGraph, SameInputs

LEMMA CheckTidies ==
  ASSUME NEW d \in DB, NEW good \in BOOLEAN
  PROVE  Tidies(d, Check(d, good))
BY CheckType, TidyColumns DEF SameGraph, SameInputs

LEMMA TakeTidies ==
  ASSUME NEW d \in DB, NEW n \in Node, NEW c \in Node \cup {None}
  PROVE  Tidies(d, Take(d, n, c))
<1> DEFINE e == Take(d, n, c)
<1>1. e \in DB /\ e.out = d.out /\ SameInputs(d, e)
  BY TakeType
<1> HIDE DEF e
<1>2. Tidies(d, e)
  BY <1>1, TidyColumns DEF SameInputs
<1> QED BY <1>2 DEF e

LEMMA DetachTidies ==
  ASSUME NEW d \in DB, NEW N \in SUBSET Node
  PROVE  Tidies(d, Detach(d, N))
<1> DEFINE e == Detach(d, N)
<1>1. e \in DB /\ e.out = d.out /\ SameInputs(d, e)
  BY DetachType
<1> HIDE DEF e
<1>2. Tidies(d, e)
  BY <1>1, TidyColumns DEF SameInputs
<1> QED BY <1>2 DEF e

LEMMA SetStepsTidies ==
  ASSUME NEW d \in DB, NEW S \in SUBSET Step, NEW state \in StepState
  PROVE  Tidies(d, SetSteps(d, S, state))
<1> DEFINE e == SetSteps(d, S, state)
<1>1. e \in DB /\ e.out = d.out /\ SameInputs(d, e)
  BY SetStepsType DEF SameGraph
<1> HIDE DEF e
<1>2. Tidies(d, e)
  BY <1>1, TidyColumns DEF SameInputs
<1> QED BY <1>2 DEF e

LEMMA SetRowsTidies ==
  ASSUME NEW d \in DB, NEW F \in SUBSET File, NEW state \in RowState
  PROVE  Tidies(d, SetRows(d, F, state))
<1> DEFINE e == SetRows(d, F, state)
<1>1. e \in DB /\ e.out = d.out /\ SameInputs(d, e)
  BY SetRowsType DEF SameGraph
<1> HIDE DEF e
<1>2. Tidies(d, e)
  BY <1>1, TidyColumns DEF SameInputs
<1> QED BY <1>2 DEF e

LEMMA ChecksTidies ==
  ASSUME NEW d \in DB, NEW X \in SUBSET File
  PROVE  Tidies(d, WithChecks(d, X))
<1> DEFINE e == WithChecks(d, X)
<1>1. e \in DB /\ e.reg = d.reg /\ e.out = d.out
  BY DEF WithChecks, DB
<1> HIDE DEF e
<1>2. Tidies(d, e)
  BY <1>1, TidyColumns
<1> QED BY <1>2 DEF e

LEMMA CreateFileTidies ==
  ASSUME NEW d \in DB, NEW f \in File, NEW c \in Owner \cup {None}, NEW state \in FirstState
  PROVE  Tidies(d, CreateFile(d, f, c, state))
<1> DEFINE e == CreateFile(d, f, c, state)
<1>1. Created(d, e, f, c, state)
  BY CreateFileCreates
<1> HIDE DEF e
<1>2. e \in DB /\ e.reg = d.reg /\ \A s \in Step : e.out[s] \subseteq d.out[s]
  BY <1>1 DEF Created
<1>3. Tidies(d, e)
  BY <1>2, TidySame
<1> QED BY <1>3 DEF e

LEMMA DeclareFileTidies ==
  ASSUME NEW d \in DB, NEW f \in File, NEW c \in Owner, NEW state \in FirstState
  PROVE  Tidies(d, DeclareFile(d, c, f, state))
<1> DEFINE e == CreateFile(d, f, c, state)
<1>1. Tidies(d, e)
  BY CreateFileTidies
<1>2. MayDeclare(e, c, f) \in BOOLEAN
  BY DEF MayDeclare
<1> HIDE DEF e
<1>3. Tidies(e, Check(e, MayDeclare(e, c, f)))
  BY <1>1, <1>2, CheckTidies DEF Tidies
<1>4. Tidies(d, Check(e, MayDeclare(e, c, f)))
  BY <1>1, <1>3, TidyTrans
<1> QED BY <1>4 DEF e, DeclareFile, Declared

LEMMA DeclareStaticTidies ==
  ASSUME NEW d \in DB, NEW c \in Owner, NEW F \in SUBSET File
  PROVE  Tidies(d, DeclareStatic(d, c, F))
<1> DEFINE N == Fresh(d, F)
           b == Check(d, Allowed(d, c, F))
<1>1. PICK it : /\ DeclareStatic(d, c, F) = WithChecks(it[N], N) /\ it[{}] = b
                /\ DeclaresAll(it, d, c, N)
  BY DeclareStaticFold
<1>2. N \in SUBSET File /\ IsFiniteSet(N)
  BY FiniteKinds, FS_Subset DEF Fresh
<1>3. Tidies(d, b)
  <2>1. Allowed(d, c, F) \in BOOLEAN
    BY DEF Allowed
  <2> HIDE DEF b
  <2>2. Tidies(d, Check(d, Allowed(d, c, F)))
    BY <2>1, CheckTidies
  <2> QED BY <2>2 DEF b
<1> HIDE DEF N, b
<1> DEFINE P == {R \in SUBSET N : Tidies(d, it[R])}
<1>4. ASSUME NEW R \in SUBSET N, R = {} \/ \A x \in R : R \ {x} \in P
      PROVE  R \in P
  <2>1. CASE R = {}
    BY <1>1, <1>3, <2>1
  <2>2. CASE R # {}
    <3>1. PICK f \in R : it[R] = DeclareFile(it[R \ {f}], Declarer(d, c, f), f, "UNCONFIRMED")
      BY <1>1, <2>2 DEF DeclaresAll
    <3>2. Tidies(d, it[R \ {f}]) /\ it[R \ {f}] \in DB
      BY <1>4, <2>2 DEF Tidies
    <3>3. Declarer(d, c, f) \in Owner /\ f \in File /\ "UNCONFIRMED" \in FirstState
      BY <1>2, DeclarerType DEF FirstState
    <3>4. Tidies(it[R \ {f}], it[R])
      BY <3>1, <3>2, <3>3, DeclareFileTidies
    <3> QED BY <3>2, <3>4, TidyTrans
  <2> QED BY <2>1, <2>2
<1>5. N \in P
  <2> HIDE DEF P
  <2> QED BY <1>2, <1>4, SubsetInduct
<1>6. Tidies(d, it[N]) /\ it[N] \in DB
  BY <1>5 DEF Tidies
<1>7. Tidies(it[N], WithChecks(it[N], N))
  BY <1>2, <1>6, ChecksTidies
<1> QED BY <1>1, <1>6, <1>7, TidyTrans

LEMMA RegisterTreeTidies ==
  ASSUME NEW d \in DB, NEW s \in Step, NEW t \in Tree
  PROVE  Tidies(d, RegisterTree(d, s, t))
<1> DEFINE attached == Attached(d)
           over == {o \in Tree \cap attached : o = t \/ t \in Inside[o]}
           held == Under[t] \cap attached
           good == MayAdopt(d, s, t, held)
           g == Check(Adopted(d, s, t, held), good)
           H == {h \in Under[t] \ held : d.row[h] # "NONE"}
           x == DeclareStatic(g, t, H)
           fine == Cardinality(over) = 1 /\ \A o \in over : d.cr[o] = s
<1>1. RegisterTree(d, s, t) = IF over = {} THEN x ELSE Check(d, fine)
  BY DEF RegisterTree, Adopted, MayAdopt
<1>2. fine \in BOOLEAN /\ good \in BOOLEAN
  BY DEF MayAdopt
<1>3. held \in SUBSET File /\ H \in SUBSET File
  BY LayoutType
<1> HIDE DEF over, held, good, fine, H
<1>4. g \in DB /\ g.reg = d.reg /\ g.out = d.out
  BY <1>2, <1>3, AdoptedType
<1> HIDE DEF g
<1>5. Tidies(d, g)
  BY <1>4, TidyColumns
<1>6. Tidies(g, x)
  BY <1>3, <1>4, Kinds, DeclareStaticTidies
<1>7. Tidies(d, Check(d, fine))
  BY <1>2, CheckTidies
<1> HIDE DEF x
<1>8. Tidies(d, x)
  BY <1>5, <1>6, TidyTrans
<1> QED BY <1>1, <1>7, <1>8

LEMMA RegisterGlobTidies ==
  ASSUME NEW d \in DB, NEW s \in Step, NEW g \in Glob
  PROVE  Tidies(d, RegisterGlob(d, s, g))
<1> DEFINE good == Found(g) \cap Attached(d) \subseteq Rows(d, Static)
           b == Check(d, good)
           new == [step |-> s, glob |-> g, found |-> Found(g)]
           e == [b EXCEPT !.reg = @ \cup {new}]
<1>1. good \in BOOLEAN /\ new \in Registration /\ new.found = Found(new.glob)
  BY LayoutType DEF Found, Registration
<1>2. RegisterGlob(d, s, g) = e
  BY DEF RegisterGlob
<1> HIDE DEF good, new
<1>3. b \in DB /\ b.out = d.out /\ b.reg = d.reg
  BY <1>1, CheckType DEF SameGraph, SameInputs
<1> HIDE DEF b
<1>4. e \in DB /\ e.out = b.out /\ e.reg = b.reg \cup {new}
  BY <1>1, <1>3 DEF DB
<1> HIDE DEF e
<1>5. Tidies(d, e)
  BY <1>1, <1>3, <1>4 DEF Tidies
<1> QED BY <1>2, <1>5

LEMMA StaticCallTidies ==
  ASSUME NEW d \in DB, NEW s \in Step, NEW c \in Statics[s]
  PROVE  Tidies(d, StaticCall(d, s, c))
<1> DEFINE outer == {t \in c.trees : \A o \in c.trees : t \notin Inside[o]}
           found == UNION {Found(g) : g \in c.globs}
           trees == RegisterTrees(d, s, outer)
           F == c.files \cup found
           files == DeclareStatic(trees, s, F)
           globs == RegisterGlobs(files, s, c.globs)
           I == {e \in DB : Tidies(d, e)}
<1>1. StaticCall(d, s, c) = globs
  BY DEF StaticCall, RegisterTrees, RegisterGlobs
<1>2. c.files \in SUBSET File /\ c.trees \in SUBSET Tree /\ c.globs \in SUBSET Glob
  BY CallType
<1>3. outer \in SUBSET Tree /\ IsFiniteSet(outer) /\ IsFiniteSet(c.globs)
  BY <1>2, FiniteKinds, FS_Subset
<1>4. F \in SUBSET File
  BY <1>2, LayoutType DEF Found
<1>5. ASSUME NEW e \in I, NEW g, Tidies(e, g) PROVE g \in I
  <2>1. Tidies(d, g)
    BY <1>5, TidyTrans
  <2> QED BY <2>1 DEF Tidies
<1>6. d \in I
  BY TidySelf
<1>7. \A e \in I : e \in DB
  OBVIOUS
<1> HIDE DEF I
<1>8. ASSUME NEW t \in outer, NEW e \in I PROVE RegisterTree(e, s, t) \in I
  BY <1>3, <1>5, <1>7, RegisterTreeTidies
<1> HIDE DEF outer, F
<1>9. trees \in I
  BY <1>3, <1>6, <1>8, RegisterTreesFold
<1> HIDE DEF trees
<1>10. files \in I
  BY <1>4, <1>5, <1>7, <1>9, Kinds, DeclareStaticTidies
<1> HIDE DEF files
<1>11. ASSUME NEW g \in c.globs, NEW e \in I PROVE RegisterGlob(e, s, g) \in I
  BY <1>2, <1>5, <1>7, RegisterGlobTidies
<1>12. globs \in I
  BY <1>3, <1>10, <1>11, RegisterGlobsFold
<1> QED BY <1>1, <1>12 DEF I

LEMMA ResolveTidies ==
  ASSUME NEW d \in DB, NEW f \in File
  PROVE  Tidies(d, Resolve(d, f))
<1> DEFINE over == Over(d, f)
           t == CHOOSE t \in over : TRUE
           a == CreateFile(d, f, t, "UNCONFIRMED")
           one == Cardinality(over) = 1
           usable == d.row[f] # "VOLATILE"
<1>1. over # {} => t \in Owner \cup {None}
  BY Kinds DEF Over
<1>2. one \in BOOLEAN /\ usable \in BOOLEAN
  OBVIOUS
<1>3. Resolve(d, f) = IF f \notin Attached(d) /\ over # {} THEN Check(a, one)
                      ELSE IF d.row[f] = "NONE" \/ d.cr[f] = None THEN CreateFile(d, f, None, "UNDECLARED")
                      ELSE Check(d, usable)
  BY DEF Resolve
<1> HIDE DEF over, t, one, usable
<1>4. ASSUME over # {} PROVE Tidies(d, Check(a, one))
  <2>1. Tidies(d, a)
    BY <1>1, <1>4, CreateFileTidies DEF FirstState
  <2> HIDE DEF a
  <2>2. Tidies(a, Check(a, one))
    BY <1>2, <2>1, CheckTidies DEF Tidies
  <2> QED BY <2>1, <2>2, TidyTrans
<1>5. Tidies(d, CreateFile(d, f, None, "UNDECLARED"))
  BY CreateFileTidies DEF FirstState
<1>6. Tidies(d, Check(d, usable))
  BY <1>2, CheckTidies
<1> HIDE DEF a
<1> QED BY <1>3, <1>4, <1>5, <1>6

LEMMA SupplyTidies ==
  ASSUME NEW d \in DB, NEW F \in SUBSET File
  PROVE  Tidies(d, Supply(d, F))
<1>1. PICK it : /\ Supply(d, F) = CheckFiles(it[F], F) /\ it[{}] = d
                /\ \A S \in SUBSET F : S # {} => \E f \in S : it[S] = Resolve(it[S \ {f}], f)
  BY SupplyFold
<1>2. IsFiniteSet(F)
  BY FiniteKinds, FS_Subset
<1> DEFINE P == {R \in SUBSET F : Tidies(d, it[R])}
<1>3. ASSUME NEW R \in SUBSET F, R = {} \/ \A x \in R : R \ {x} \in P
      PROVE  R \in P
  <2>1. CASE R = {}
    BY <1>1, <2>1, TidySelf
  <2>2. CASE R # {}
    <3>1. PICK f \in R : it[R] = Resolve(it[R \ {f}], f)
      BY <1>1, <2>2
    <3>2. Tidies(d, it[R \ {f}]) /\ it[R \ {f}] \in DB
      BY <1>3, <2>2 DEF Tidies
    <3>3. Tidies(it[R \ {f}], it[R])
      BY <3>1, <3>2, ResolveTidies
    <3> QED BY <3>2, <3>3, TidyTrans
  <2> QED BY <2>1, <2>2
<1>4. F \in P
  <2> HIDE DEF P
  <2> QED BY <1>2, <1>3, SubsetInduct
<1>5. Tidies(d, it[F]) /\ it[F] \in DB
  BY <1>4 DEF Tidies
<1> DEFINE X == F \cap Attached(it[F]) \cap Rows(it[F], {"UNCONFIRMED"})
<1>6. CheckFiles(it[F], F) = WithChecks(it[F], X)
  BY DEF CheckFiles, WithChecks
<1>7. X \in SUBSET File
  OBVIOUS
<1> HIDE DEF X
<1>8. Tidies(it[F], WithChecks(it[F], X))
  BY <1>5, <1>7, ChecksTidies
<1> QED BY <1>1, <1>5, <1>6, <1>8, TidyTrans

LEMMA OutputOfTidies ==
  ASSUME NEW d \in DB, NEW s \in Step, NEW f \in File \ Sources, NEW state \in {"PLANNED", "VOLATILE"}
  PROVE  Tidies(d, OutputOf(d, s, f, state))
<1> DEFINE x == DeclareFile(d, s, f, state)
           e == OutputOf(d, s, f, state)
<1>1. Tidies(d, x)
  BY DeclareFileTidies, Kinds DEF FirstState
<1>2. e = [x EXCEPT !.out[s] = @ \cup {f}]
  BY DEF OutputOf
<1> HIDE DEF x, e
<1>3. x \in DB
  BY <1>1 DEF Tidies
<1>4. e \in DB /\ e.reg = x.reg /\ e.out = [x.out EXCEPT ![s] = @ \cup {f}]
  BY <1>2, <1>3 DEF DB
<1>5. \A r \in Step : e.out[r] \subseteq x.out[r] \cup {f}
  BY <1>3, <1>4 DEF DB
<1>6. Tidies(x, e)
  BY <1>4, <1>5 DEF Tidies
<1>7. Tidies(d, e)
  BY <1>1, <1>6, TidyTrans
<1> QED BY <1>7 DEF e

LEMMA OutputsOfTidies ==
  ASSUME NEW d \in DB, NEW s \in Step, NEW N \in SUBSET (File \ Sources),
         NEW state \in {"PLANNED", "VOLATILE"}
  PROVE  Tidies(d, OutputsOf(d, s, N, state))
<1>1. IsFiniteSet(N) /\ N \in SUBSET File
  BY FiniteKinds, FS_Subset
<1>2. PICK it : /\ OutputsOf(d, s, N, state) = it[N] /\ it[{}] = d
                /\ OutputsAll(it, s, N, state)
  BY <1>1, OutputsOfFold
<1> DEFINE P == {R \in SUBSET N : Tidies(d, it[R])}
<1>3. ASSUME NEW R \in SUBSET N, R = {} \/ \A x \in R : R \ {x} \in P
      PROVE  R \in P
  <2>1. CASE R = {}
    BY <1>2, <2>1, TidySelf
  <2>2. CASE R # {}
    <3>1. PICK f \in R : it[R] = OutputOf(it[R \ {f}], s, f, state)
      BY <1>2, <2>2 DEF OutputsAll
    <3>2. Tidies(d, it[R \ {f}]) /\ it[R \ {f}] \in DB
      BY <1>3, <2>2 DEF Tidies
    <3>3. Tidies(it[R \ {f}], it[R])
      BY <3>1, <3>2, OutputOfTidies
    <3> QED BY <3>2, <3>3, TidyTrans
  <2> QED BY <2>1, <2>2
<1>4. N \in P
  <2> HIDE DEF P
  <2> QED BY <1>1, <1>3, SubsetInduct
<1> QED BY <1>2, <1>4

LEMMA DeclareOutputsTidies ==
  ASSUME NEW d \in DB, NEW s \in Step, NEW O \in SUBSET (File \ Sources), NEW V \in SUBSET (File \ Sources)
  PROVE  Tidies(d, DeclareOutputs(d, s, O, V))
<1> DEFINE e == OutputsOf(d, s, O, "PLANNED")
           g == OutputsOf(e, s, V, "VOLATILE")
<1>1. DeclareOutputs(d, s, O, V) = g
  BY DEF DeclareOutputs, OutputsOf
<1>2. Tidies(d, e) /\ e \in DB
  BY OutputsOfTidies DEF Tidies
<1> HIDE DEF e
<1>3. Tidies(e, g)
  BY <1>2, OutputsOfTidies
<1> QED BY <1>1, <1>2, <1>3, TidyTrans

\* No step is declared with a source as its output, or amends itself with one.
LEMMA CallsSpareSources ==
  ASSUME NEW s \in Step, NEW c \in Defines[s] \cup Amends[s]
  PROVE  c.out \in SUBSET (File \ Sources) /\ c.vol \in SUBSET (File \ Sources)
BY CallType DEF Sources

LEMMA RecycleTidies ==
  ASSUME NEW d \in DB, NEW s \in Step, NEW c \in Defines[s]
  PROVE  Tidies(d, Recycle(d, s, c))
<1> DEFINE t == c.step
           e == Take(d, t, s)
           X == UnconfirmedInputs(e, t)
           f == WithChecks(e, X)
           g == MarkPending(f, {t})
<1>1. t \in Step /\ t \in Node /\ s \in Node \cup {None}
  BY CallType, Kinds
<1>2. Recycle(d, s, c) = IF e.st[t] = "FAILED" THEN g ELSE f
  BY DEF Recycle, WithChecks
<1> HIDE DEF t
<1>3. Tidies(d, e) /\ e \in DB
  BY <1>1, TakeTidies DEF Tidies
<1> HIDE DEF e
<1>4. X \in SUBSET File
  BY <1>1, <1>3 DEF UnconfirmedInputs, Inputs, DB
<1> HIDE DEF X
<1>5. Tidies(e, f)
  BY <1>3, <1>4, ChecksTidies
<1> HIDE DEF f
<1>6. Tidies(d, f) /\ f \in DB
  BY <1>3, <1>5, TidyTrans DEF Tidies
<1>7. {t} \in SUBSET Step
  BY <1>1
<1>8. Tidies(f, g)
  BY <1>6, <1>7, MarkPendingTidies
<1> HIDE DEF g
<1> QED BY <1>2, <1>6, <1>8, TidyTrans

LEMMA CreateStepTidies ==
  ASSUME NEW d \in DB, NEW s \in Step, NEW t \in Step
  PROVE  Tidies(d, CreateStep(d, s, t))
<1> DEFINE a == Take(d, t, s)
           N == Products(d, t)
           b == Detach(a, N)
           e == SetSteps(b, {t}, "PENDING")
           g == CreateStep(d, s, t)
<1>1. g = [e EXCEPT !.inp[t] = {}, !.dyn[t] = {}]
  BY DEF CreateStep
<1> HIDE DEF g
<1>2. N \in SUBSET Node /\ t \in Node /\ s \in Node \cup {None} /\ {t} \in SUBSET Step /\ "PENDING" \in StepState
  BY Kinds DEF Products, StepState
<1> HIDE DEF N
<1>3. Tidies(d, a) /\ a \in DB
  BY <1>2, TakeTidies DEF Tidies
<1> HIDE DEF a
<1>4. Tidies(a, b) /\ b \in DB
  BY <1>2, <1>3, DetachTidies DEF Tidies
<1> HIDE DEF b
<1>5. Tidies(b, e) /\ e \in DB
  BY <1>2, <1>4, SetStepsTidies DEF Tidies
<1> HIDE DEF e
<1>6. g \in DB /\ g.reg = e.reg /\ g.out = e.out
  BY <1>1, <1>5 DEF DB
<1>7. Tidies(e, g)
  BY <1>6, TidyColumns
<1>8. Tidies(d, g)
  BY <1>3, <1>4, <1>5, <1>7, TidyTrans
<1> QED BY <1>8 DEF g

LEMMA DefineStepTidies ==
  ASSUME NEW d \in DB, NEW s \in Step, NEW c \in Defines[s]
  PROVE  Tidies(d, DefineStep(d, s, c))
<1> DEFINE t == c.step
           good == NoGlobMatch(d, c.out \cup c.vol)
           e == Check(d, good)
           fine == /\ StepIsNew(d, t)
                   /\ Unclaimed(d, c.out \cup c.vol) /\ NoOverlap(c.out, c.vol)
           fresh == Check(e, fine)
           new == CreateStep(fresh, s, t)
           sup == Supply(new, c.inp)
           x == [sup EXCEPT !.inp[t] = c.inp]
           g == DeclareOutputs(x, t, c.out, c.vol)
           r == Recycle(e, s, c)
<1>1. DefineStep(d, s, c) = IF CanRecycle(d, c) THEN r ELSE g
  BY DEF DefineStep
<1>2. /\ t \in Step /\ c.inp \in SUBSET File
      /\ c.out \in SUBSET (File \ Sources) /\ c.vol \in SUBSET (File \ Sources)
  BY CallType, CallsSpareSources
<1>3. good \in BOOLEAN /\ fine \in BOOLEAN
  BY DEF NoGlobMatch, StepIsNew, Unclaimed, NoOverlap
<1> HIDE DEF t, good, fine
<1>4. Tidies(d, e) /\ e \in DB
  BY <1>3, CheckTidies DEF Tidies
<1> HIDE DEF e
<1>5. Tidies(e, fresh) /\ fresh \in DB
  BY <1>3, <1>4, CheckTidies DEF Tidies
<1>6. Tidies(e, r)
  BY <1>4, RecycleTidies
<1> HIDE DEF fresh, r
<1>7. Tidies(fresh, new) /\ new \in DB
  BY <1>2, <1>5, CreateStepTidies DEF Tidies
<1> HIDE DEF new
<1>8. Tidies(new, sup) /\ sup \in DB
  BY <1>2, <1>7, SupplyTidies DEF Tidies
<1> HIDE DEF sup
<1>9. x \in DB /\ x.reg = sup.reg /\ x.out = sup.out
  BY <1>2, <1>8 DEF DB
<1> HIDE DEF x
<1>10. Tidies(sup, x)
  BY <1>9, TidyColumns
<1>11. Tidies(x, g)
  BY <1>2, <1>9, DeclareOutputsTidies
<1> HIDE DEF g
<1>12. Tidies(d, r)
  BY <1>4, <1>6, TidyTrans
<1>13. Tidies(d, new)
  BY <1>4, <1>5, <1>7, TidyTrans
<1>14. Tidies(new, g)
  BY <1>8, <1>10, <1>11, TidyTrans
<1>15. Tidies(d, g)
  BY <1>13, <1>14, TidyTrans
<1> QED BY <1>1, <1>12, <1>15

LEMMA AmendStepTidies ==
  ASSUME NEW d \in DB, NEW s \in Step, NEW c \in Amends[s]
  PROVE  Tidies(d, AmendStep(d, s, c))
<1> DEFINE sup == Supply(d, c.inp)
           a == [sup EXCEPT !.dyn[s] = @ \cup (c.inp \ d.inp[s])]
           O == NewClaims(a, s, c.out, Output)
           V == NewClaims(a, s, c.vol, {"VOLATILE"})
           new == O \cup V
           free == Unclaimed(a, new) /\ NoOverlap(O, V) /\ NoGlobMatch(a, new)
           b == Check(a, free)
           e == DeclareOutputs(b, s, O, V)
           g == [e EXCEPT !.dynOut[s] = @ \cup new]
<1>1. AmendStep(d, s, c) = g
  BY DEF AmendStep, Amended, AmendInputs, AmendOutputs
<1>2. c.inp \in SUBSET File /\ c.out \in SUBSET (File \ Sources) /\ c.vol \in SUBSET (File \ Sources)
  BY CallType, CallsSpareSources
<1>3. O \in SUBSET (File \ Sources) /\ V \in SUBSET (File \ Sources)
  BY <1>2 DEF NewClaims
<1>4. free \in BOOLEAN
  BY DEF Unclaimed, NoOverlap, NoGlobMatch
<1> HIDE DEF O, V, free
<1>5. Tidies(d, sup) /\ sup \in DB
  BY <1>2, SupplyTidies DEF Tidies
<1> HIDE DEF sup
<1>6. a \in DB /\ a.reg = sup.reg /\ a.out = sup.out
  BY <1>2, <1>5 DEF DB
<1> HIDE DEF a
<1>7. Tidies(sup, a)
  BY <1>6, TidyColumns
<1>8. Tidies(a, b) /\ b \in DB
  BY <1>4, <1>6, CheckTidies DEF Tidies
<1> HIDE DEF b
<1>9. Tidies(b, e) /\ e \in DB /\ new \in SUBSET File
  BY <1>3, <1>8, DeclareOutputsTidies DEF Tidies
<1> HIDE DEF e, new
<1>10. g \in DB /\ g.reg = e.reg /\ g.out = e.out
  BY <1>9 DEF DB
<1> HIDE DEF g
<1>11. Tidies(e, g)
  BY <1>10, TidyColumns
<1>12. Tidies(d, a)
  BY <1>5, <1>7, TidyTrans
<1>13. Tidies(a, g)
  BY <1>8, <1>9, <1>11, TidyTrans
<1> QED BY <1>1, <1>12, <1>13, TidyTrans

LEMMA ResetTidies ==
  ASSUME NEW d \in DB, NEW s \in Step
  PROVE  Tidies(d, Reset(d, s))
<1> DEFINE e == GivenUp(d, s)
           built == Products(e, s) \cap Rows(e, {"BUILT"})
           g == SetRows(e, built, "OUTDATED")
           S == Consumers(e, built)
<1>1. Reset(d, s) = MarkPending(g, S)
  BY DEF Reset, GivenUp, Given
<1>2. e \in DB /\ e.reg \subseteq d.reg /\ \A r \in Step : e.out[r] \subseteq d.out[r]
  <2> DEFINE a == CutOutputs(d, s, d.dynOut[s])
             N == Given(d, s)
             b == Detach(a, N)
  <2>1. a \in DB /\ a.reg = d.reg /\ \A r \in Step : a.out[r] \subseteq d.out[r]
    BY DEF CutOutputs, DB
  <2>2. N \in SUBSET Node
    BY Kinds DEF Given, Products, DB
  <2>3. e = [b EXCEPT !.dyn[s] = {}, !.reg = {r \in @ : r.step # s}]
    BY DEF GivenUp
  <2> HIDE DEF a, N, e
  <2>4. b \in DB /\ b.reg = a.reg /\ b.out = a.out
    BY <2>1, <2>2, DetachType DEF SameInputs
  <2> HIDE DEF b
  <2>5. e \in DB /\ e.reg \subseteq b.reg /\ e.out = b.out
    BY <2>3, <2>4 DEF DB
  <2> QED BY <2>1, <2>4, <2>5
<1>3. Tidies(d, e)
  BY <1>2, TidySame
<1> HIDE DEF e
<1>4. built \in SUBSET File /\ S \in SUBSET Step /\ "OUTDATED" \in RowState
  BY DEF Rows, Consumers, RowState, Output
<1> HIDE DEF built, S
<1>5. Tidies(e, g) /\ g \in DB
  BY <1>2, <1>4, SetRowsTidies DEF Tidies
<1> HIDE DEF g
<1>6. Tidies(g, MarkPending(g, S))
  BY <1>4, <1>5, MarkPendingTidies
<1> QED BY <1>1, <1>3, <1>5, <1>6, TidyTrans

LEMMA SucceedTidies ==
  ASSUME DiskType, NEW d \in DB, NEW s \in Step
  PROVE  Tidies(d, Succeed(d, s))
<1> DEFINE F == Outputs(d, s)
           a == SetSteps(d, {s}, "SUCCEEDED")
           b == SetRows(a, F, "BUILT")
           e == [b EXCEPT !.hash = [f \in File |-> IF f \in F THEN disk[f] ELSE @[f]],
                          !.hashed = @ \cup {s}]
           S == Consumers(e, F \ Rows(d, {"BUILT"}))
           g == MarkPending(e, S)
<1>1. Succeed(d, s) = g
  BY DEF Succeed
<1>2. F \in SUBSET File /\ S \in SUBSET Step /\ "SUCCEEDED" \in StepState /\ "BUILT" \in RowState
  BY DEF Outputs, Rows, Consumers, StepState, RowState, Output
<1> HIDE DEF F, S
<1>3. Tidies(d, a) /\ a \in DB
  BY <1>2, SetStepsTidies DEF Tidies
<1> HIDE DEF a
<1>4. Tidies(a, b) /\ b \in DB
  BY <1>2, <1>3, SetRowsTidies DEF Tidies
<1> HIDE DEF b
<1>5. e \in DB /\ e.reg = b.reg /\ e.out = b.out
  BY <1>4 DEF DB, DiskType
<1> HIDE DEF e
<1>6. Tidies(b, e)
  BY <1>5, TidyColumns
<1>7. Tidies(e, g)
  BY <1>2, <1>5, MarkPendingTidies
<1> HIDE DEF g
<1>8. Tidies(d, b)
  BY <1>3, <1>4, TidyTrans
<1>9. Tidies(b, g)
  BY <1>6, <1>7, TidyTrans
<1> QED BY <1>1, <1>8, <1>9, TidyTrans

LEMMA FailingTidies ==
  ASSUME DiskType, NEW d \in DB, NEW s \in Step
  PROVE  Tidies(d, Failing(d, s))
<1> DEFINE F == Outputs(d, s)
           a == SetRows(d, F \ OnDisk, "PLANNED")
           b == SetRows(a, F \cap OnDisk, "OUTDATED")
           e == [b EXCEPT !.hash = [f \in File |-> IF f \in F THEN disk[f] ELSE @[f]],
                          !.hashed = @ \ {s}]
<1>1. Failing(d, s) = e
  BY DEF Failing
<1>2. F \ OnDisk \in SUBSET File /\ F \cap OnDisk \in SUBSET File
      /\ "PLANNED" \in RowState /\ "OUTDATED" \in RowState
  BY DEF Outputs, Rows, RowState, Output
<1> HIDE DEF F
<1>3. Tidies(d, a) /\ a \in DB
  BY <1>2, SetRowsTidies DEF Tidies
<1> HIDE DEF a
<1>4. Tidies(a, b) /\ b \in DB
  BY <1>2, <1>3, SetRowsTidies DEF Tidies
<1> HIDE DEF b
<1>5. e \in DB /\ e.reg = b.reg /\ e.out = b.out
  BY <1>4 DEF DB, DiskType
<1> HIDE DEF e
<1>6. Tidies(b, e)
  BY <1>5, TidyColumns
<1> QED BY <1>1, <1>3, <1>4, <1>6, TidyTrans

LEMMA RemoveTidies ==
  ASSUME NEW d \in DB, NEW N \in SUBSET Node, Remove(d, N) \in DB
  PROVE  Tidies(d, Remove(d, N))
<1> DEFINE e == Detach(d, N)
           g == Remove(d, N)
<1>1. e \in DB /\ e.reg = d.reg /\ e.out = d.out
  BY DetachType DEF SameInputs
<1>2. g.reg = {r \in e.reg : r.step \notin N} /\ g.out = [s \in Step |-> IF s \in N THEN {} ELSE e.out[s] \ N]
  <2>1. g = [e EXCEPT
     !.row = [f \in File |-> IF f \in N THEN "NONE" ELSE @[f]],
     !.hash = [f \in File |-> IF f \in N THEN None ELSE @[f]],
     !.st = [s \in Step |-> IF s \in N THEN "NONE" ELSE @[s]],
     !.deferred = @ \ N,
     !.inp = [s \in Step |-> IF s \in N THEN {} ELSE @[s]],
     !.dyn = [s \in Step |-> IF s \in N THEN {} ELSE @[s]],
     !.out = [s \in Step |-> IF s \in N THEN {} ELSE @[s] \ N],
     !.dynOut = [s \in Step |-> IF s \in N THEN {} ELSE @[s] \ N],
     !.reg = {r \in @ : r.step \notin N},
     !.hashed = (@ \ N) \ {d.cr[n] : n \in N}]
    BY DEF Remove
  <2> HIDE DEF g, e
  <2> QED BY <1>1, <2>1 DEF DB
<1> HIDE DEF e
<1>3. g \in DB
  OBVIOUS
<1> HIDE DEF g
<1>4. Tidies(d, g)
  BY <1>1, <1>2, <1>3, TidySame
<1> QED BY <1>4 DEF g

LEMMA DeleteDetachedTidies ==
  ASSUME NEW d \in DB, Sound(d)
  PROVE  Tidies(d, DeleteDetached(d))
<1> DEFINE N == {f \in File \cap Attached(d) :
                   d.cr[f] \in Tree /\ Consumers(d, {f}) \cap Attached(d) = {}}
           e == Detach(d, N)
           g == Remove(e, Deleted(e))
<1>1. DeleteDetached(d) = g
  BY DEF DeleteDetached
<1>2. N \in SUBSET Node
  BY Kinds
<1>3. g \in DB
  BY <1>1, DeleteDetachedKeeps DEF Keeps, Sound, SoundFiles
<1> HIDE DEF N
<1>4. Tidies(d, e) /\ e \in DB
  BY <1>2, DetachTidies DEF Tidies
<1> HIDE DEF e
<1>5. Deleted(e) \in SUBSET Node
  BY <1>4, DeletedFacts
<1>6. Tidies(e, g)
  BY <1>3, <1>4, <1>5, RemoveTidies
<1> QED BY <1>1, <1>4, <1>6, TidyTrans

LEMMA HashedTidies ==
  ASSUME DiskType, NEW d \in DB, NEW f \in File, NEW S \in SUBSET Step
  PROVE  /\ Tidies(d, Hashed(d, f, FileState(f)))
         /\ Tidies(d, MarkPending(Hashed(d, f, FileState(f)), S))
<1> DEFINE e == Hashed(d, f, FileState(f))
<1>1. e \in DB /\ e.reg = d.reg /\ e.out = d.out
  <2>1. FileState(f) \in RowState
    BY DEF FileState, RowState, Static
  <2> QED BY <2>1 DEF Hashed, DB, DiskType
<1> HIDE DEF e
<1>2. Tidies(d, e)
  BY <1>1, TidyColumns
<1>3. Tidies(e, MarkPending(e, S))
  BY <1>1, MarkPendingTidies
<1> QED BY <1>2, <1>3, TidyTrans DEF e

LEMMA ConfirmTidies ==
  ASSUME DiskType, NEW d \in DB, NEW f \in File
  PROVE  Tidies(d, Confirm(d, f))
<1> DEFINE e == Hashed(d, f, FileState(f))
           S == Consumers(e, {f})
<1>1. Confirm(d, f) = IF d.row[f] \notin Static THEN Check(d, FALSE)
                      ELSE IF d.row[f] = FileState(f) THEN e ELSE MarkPending(e, S)
  BY DEF Confirm, Refuse, FileState
<1>2. S \in SUBSET Step
  BY DEF Consumers
<1> HIDE DEF S
<1>3. Tidies(d, e) /\ Tidies(d, MarkPending(e, S))
  BY <1>2, HashedTidies
<1>4. Tidies(d, Check(d, FALSE))
  BY CheckTidies
<1> HIDE DEF e
<1> QED BY <1>1, <1>3, <1>4

LEMMA ExternalTidies ==
  ASSUME DiskType, NEW d \in DB, NEW f \in File
  PROVE  Tidies(d, External(d, f))
<1> DEFINE e == Hashed(d, f, FileState(f))
           S == Consumers(e, {f})
           a == [d EXCEPT !.row[f] = "PLANNED", !.hash[f] = None]
           T == ({d.cr[f]} \cap Step) \cup IF Missing(f) THEN Consumers(d, {f}) ELSE {}
<1>1. External(d, f) = IF d.row[f] \in Static THEN MarkPending(e, S)
                       ELSE IF d.row[f] \in {"BUILT", "OUTDATED"} THEN MarkPending(a, T)
                       ELSE Check(d, FALSE)
  BY DEF External, Refuse, FileState
<1>2. S \in SUBSET Step /\ T \in SUBSET Step
  BY DEF Consumers
<1>3. a \in DB /\ a.reg = d.reg /\ a.out = d.out
  <2>1. "PLANNED" \in RowState /\ None \in Content
    BY DEF RowState, Output, Content
  <2> QED BY <2>1 DEF DB
<1> HIDE DEF S, T, a
<1>4. Tidies(d, MarkPending(e, S))
  BY <1>2, HashedTidies
<1>5. Tidies(d, a)
  BY <1>3, TidyColumns
<1>6. Tidies(a, MarkPending(a, T))
  BY <1>2, <1>3, MarkPendingTidies
<1>7. Tidies(d, MarkPending(a, T))
  BY <1>5, <1>6, TidyTrans
<1>8. Tidies(d, Check(d, FALSE))
  BY CheckTidies
<1> HIDE DEF e
<1> QED BY <1>1, <1>4, <1>7, <1>8

LEMMA ConfirmsTidies ==
  ASSUME DiskType, NEW d \in DB, Sound(d), NEW F \in SUBSET File
  PROVE  Tidies(d, Confirms(d, F))
<1>1. PICK it : /\ Confirms(d, F) = it[F] /\ it[{}] = d
                /\ ConfirmsAll(it, F)
  BY ConfirmsFold
<1>2. IsFiniteSet(F)
  BY FiniteKinds, FS_Subset
<1> DEFINE P == {R \in SUBSET F : Tidies(d, it[R])}
<1>3. ASSUME NEW R \in SUBSET F, R = {} \/ \A x \in R : R \ {x} \in P
      PROVE  R \in P
  <2>1. CASE R = {}
    BY <1>1, <2>1, TidySelf
  <2>2. CASE R # {}
    <3>1. PICK f \in R : it[R] = Confirm(it[R \ {f}], f)
      BY <1>1, <2>2 DEF ConfirmsAll
    <3>2. Tidies(d, it[R \ {f}]) /\ it[R \ {f}] \in DB
      BY <1>3, <2>2 DEF Tidies
    <3>3. Tidies(it[R \ {f}], it[R])
      BY <3>1, <3>2, ConfirmTidies
    <3> QED BY <3>2, <3>3, TidyTrans
  <2> QED BY <2>1, <2>2
<1>4. F \in P
  <2> HIDE DEF P
  <2> QED BY <1>2, <1>3, SubsetInduct
<1> QED BY <1>1, <1>4

LEMMA ExternalsTidies ==
  ASSUME DiskType, NEW d \in DB, Sound(d), NEW F \in SUBSET File
  PROVE  Tidies(d, Externals(d, F))
<1>1. PICK it : /\ Externals(d, F) = it[F] /\ it[{}] = d
                /\ ExternalsAll(it, F)
  BY ExternalsFold
<1>2. IsFiniteSet(F)
  BY FiniteKinds, FS_Subset
<1> DEFINE P == {R \in SUBSET F : Tidies(d, it[R])}
<1>3. ASSUME NEW R \in SUBSET F, R = {} \/ \A x \in R : R \ {x} \in P
      PROVE  R \in P
  <2>1. CASE R = {}
    BY <1>1, <2>1, TidySelf
  <2>2. CASE R # {}
    <3>1. PICK f \in R : it[R] = External(it[R \ {f}], f)
      BY <1>1, <2>2 DEF ExternalsAll
    <3>2. Tidies(d, it[R \ {f}]) /\ it[R \ {f}] \in DB
      BY <1>3, <2>2 DEF Tidies
    <3>3. Tidies(it[R \ {f}], it[R])
      BY <3>1, <3>2, ExternalTidies
    <3> QED BY <3>2, <3>3, TidyTrans
  <2> QED BY <2>1, <2>2
<1>4. F \in P
  <2> HIDE DEF P
  <2> QED BY <1>2, <1>3, SubsetInduct
<1> QED BY <1>1, <1>4

\* What a pattern has on record after Rematch.
LEMMA RematchFound ==
  ASSUME NEW d \in DB, NEW found, \A r \in Registered(d) : found[r] \in SUBSET File
  PROVE  LET g == Rematch(d, found)
         IN /\ g \in DB /\ g.out = d.out
            /\ \A r \in g.reg :
                 \/ r \in d.reg /\ r \notin Registered(d)
                 \/ \E q \in Registered(d) : r.step = q.step /\ r.glob = q.glob /\ r.found = found[q]
<1> DEFINE old == {r \in Registered(d) : found[r] # r.found}
           steps == {r.step : r \in old}
           new == {[r EXCEPT !.found = found[r]] : r \in old}
           e == [d EXCEPT !.reg = (@ \ old) \cup new, !.hashed = @ \ steps]
           g == MarkPending(e, steps)
<1>1. Rematch(d, found) = g
  BY DEF Rematch
<1>2. \A r \in old : r \in Registration /\ found[r] \in SUBSET File /\ r \in Registered(d)
  BY DEF DB, Registered
<1>3. \A r \in Registered(d) \ old : found[r] = r.found
  OBVIOUS
<1>4. steps \in SUBSET Step /\ new \in SUBSET Registration
  <2> HIDE DEF old
  <2> QED BY <1>2 DEF Registration
<1>5. \A r \in new : \E q \in Registered(d) : r.step = q.step /\ r.glob = q.glob /\ r.found = found[q]
  <2> HIDE DEF old
  <2> QED BY <1>2 DEF Registration
<1> HIDE DEF old, steps, new
<1>6. e \in DB /\ e.out = d.out /\ e.reg = (d.reg \ old) \cup new
  BY <1>4 DEF DB
<1> HIDE DEF e
<1>7. g \in DB /\ g.out = e.out /\ g.reg = e.reg
  BY <1>4, <1>6, MarkPendingMarks DEF Marks, SameGraph, SameInputs
<1> HIDE DEF g
<1>8. ASSUME NEW r \in g.reg
      PROVE  \/ r \in d.reg /\ r \notin Registered(d)
             \/ \E q \in Registered(d) : r.step = q.step /\ r.glob = q.glob /\ r.found = found[q]
  <2>1. CASE r \in new
    BY <1>5, <2>1
  <2>2. CASE r \in d.reg \ old
    BY <1>3, <2>2
  <2> QED BY <1>6, <1>7, <2>1, <2>2
<1> QED BY <1>1, <1>6, <1>7, <1>8

(***************************************************************************)
(* The invariant about patterns, next to IInv.                             *)
(***************************************************************************)
\* No step has a source as an output.
SourcesFree == \A s \in Step : db.out[s] \cap Sources = {}

\* No change of a source waits during a build, or while no director runs, and
\* clean-up only meets files that have lost their rows.
SourcesQuiet ==
  /\ phase \in {"build", "down"} => changes \cap Sources = {}
  /\ phase = "remove" => \A f \in changes \cap Sources : db.row[f] = "NONE"
  /\ \A f \in File : queue[f] # None => phase = "remove" /\ db.row[f] = "NONE"

FoundMatches == \A r \in db.reg : r.found \subseteq Matches[r.glob]

GInv == SourcesFree /\ SourcesQuiet /\ FoundMatches /\ GlobsCurrent

LEMMA SourcesType == Sources \subseteq File
BY DEF Sources

LEMMA InvTypes ==
  ASSUME IInv
  PROVE  db \in DB /\ Sound(db) /\ db.ok /\ db.cr[Plan] = Root /\ MemoryOK
BY InvParts DEF DbOK, Sound, SoundFiles, Recorded

\* A step that changes nothing but the database.
LEMMA TidyStep ==
  ASSUME GInv, Tidies(db, db'), phase # "remove",
         UNCHANGED <<disk, changes, queue, phase, unnoticed>>
  PROVE  GInv'
<1>1. SourcesFree'
  BY DEF GInv, SourcesFree, Tidies
<1>2. SourcesQuiet'
  BY DEF GInv, SourcesQuiet
<1>3. ASSUME NEW r \in db'.reg PROVE r \in db.reg \/ r.found = Matches[r.glob] \cap OnDisk
  BY DEF Tidies, Found
<1>4. FoundMatches'
  BY <1>3 DEF GInv, FoundMatches
<1>5. OnDisk' = OnDisk
  BY DEF OnDisk
<1>6. ASSUME NEW r \in db'.reg, r.step = Plan, phase' # "down"
      PROVE  /\ (r.found \cap Sources) \ OnDisk \subseteq changes
             /\ ((Matches[r.glob] \cap OnDisk) \cap Sources) \ r.found \subseteq changes \cup unnoticed
  <2>1. CASE r \in db.reg
    BY <1>6, <2>1 DEF GInv, GlobsCurrent, Found
  <2>2. CASE r.found = Matches[r.glob] \cap OnDisk
    BY <2>2
  <2> QED BY <1>3, <2>1, <2>2
<1>7. GlobsCurrent'
  <2> HIDE DEF OnDisk
  <2> QED BY <1>5, <1>6 DEF GlobsCurrent, Found
<1> QED BY <1>1, <1>2, <1>4, <1>7 DEF GInv

\* A step that leaves the database alone.
LEMMA MemoryStep ==
  ASSUME GInv, db' = db, SourcesQuiet',
         phase' # "down" =>
           /\ phase # "down" /\ unnoticed' = unnoticed
           /\ \A h \in Sources : \A r \in db.reg : r.step = Plan /\ h \in Matches[r.glob] =>
                \/ h \in changes'
                \/ disk'[h] = disk[h] /\ h \notin changes
  PROVE  GInv'
<1>1. SourcesFree' /\ FoundMatches'
  BY DEF GInv, SourcesFree, FoundMatches
<1>2. ASSUME NEW r \in db.reg, r.step = Plan, phase' # "down"
      PROVE  /\ (r.found \cap Sources) \ OnDisk' \subseteq changes'
             /\ ((Matches[r.glob] \cap OnDisk') \cap Sources) \ r.found \subseteq changes' \cup unnoticed'
  <2>1. r.found \subseteq Matches[r.glob]
    BY DEF GInv, FoundMatches
  <2>2. /\ (r.found \cap Sources) \ OnDisk \subseteq changes
        /\ ((Matches[r.glob] \cap OnDisk) \cap Sources) \ r.found \subseteq changes \cup unnoticed
    BY <1>2 DEF GInv, GlobsCurrent, Found
  <2>3. ASSUME NEW h \in Sources, h \in Matches[r.glob], h \notin changes'
        PROVE  h \notin changes /\ (h \in OnDisk' <=> h \in OnDisk)
    BY <1>2, <2>3 DEF OnDisk
  <2> HIDE DEF OnDisk
  <2> QED BY <1>2, <2>1, <2>2, <2>3
<1>3. GlobsCurrent'
  BY <1>2 DEF GlobsCurrent, Found
<1> QED BY <1>1, <1>3 DEF GInv

\* The director is down, and its memory is lost.
LEMMA DownGlobs ==
  ASSUME GInv, db' = db, phase' = "down", changes' \cap Sources = {}, \A f \in File : queue'[f] = None
  PROVE  GInv'
<1>1. SourcesQuiet'
  BY DEF SourcesQuiet
<1> QED BY <1>1, MemoryStep

\* The watcher takes notice of a file that a pattern of the plan matches, unless
\* it is attached and in none of the states.
LEMMA SourceRelevant ==
  ASSUME IInv, GInv, NEW f \in Sources, NEW r \in db.reg, r.step = Plan, f \in Matches[r.glob],
         NEW states, f \in Attached(db) => Static \subseteq states
  PROVE  Relevant(db, f, states)
<1>1. db \in DB /\ db.cr[Plan] = Root /\ f \in File
  BY InvTypes, SourcesType
<1>2. CASE f \in Attached(db)
  <2>1. Claimed(db, f)
    BY <1>1, <1>2, AttachedClaimed
  <2>2. db.row[f] \in Static
    BY <2>1 DEF Claimed, GInv, SourcesFree
  <2> QED BY <1>2, <2>2 DEF Relevant
<1>3. CASE f \notin Attached(db)
  <2>1. r \in Registered(db)
    BY <1>1, AttachedFacts DEF Registered
  <2> QED BY <1>3, <2>1 DEF Relevant, MatchesAny
<1> QED BY <1>2, <1>3

LEMMA WriteGlobs ==
  ASSUME IInv, GInv, NEW s \in Step, NEW f \in File, Write(s, f)
  PROVE  GInv'
<1>1. /\ phase = "build" /\ f \in db.out[s] /\ disk' = [disk EXCEPT ![f] = "made"]
      /\ changes' = changes \cup {f} /\ UNCHANGED <<db, queue, phase, unnoticed>>
  BY DEF Write, Listening
<1>2. f \notin Sources /\ DiskType
  BY <1>1, InvTypes DEF GInv, SourcesFree, MemoryOK
<1>3. SourcesQuiet'
  BY <1>1, <1>2 DEF GInv, SourcesQuiet
<1>4. ASSUME NEW h \in Sources PROVE h \in changes' \/ (disk'[h] = disk[h] /\ h \notin changes)
  BY <1>1, <1>2, SourcesType DEF DiskType
<1> QED BY <1>1, <1>3, <1>4, MemoryStep

LEMMA EditGlobs ==
  ASSUME IInv, GInv, NEW f \in File, Edit(f)
  PROVE  GInv'
<1>1. /\ phase \in {"watch", "down"} /\ \E c : disk' = [disk EXCEPT ![f] = c]
      /\ changes' = IF phase = "watch" /\ Relevant(db, f, WatchStates) THEN changes \cup {f} ELSE changes
      /\ UNCHANGED <<db, queue, phase, unnoticed>>
  BY DEF Edit
<1>2. DiskType
  BY InvTypes DEF MemoryOK
<1>3. SourcesQuiet'
  BY <1>1 DEF GInv, SourcesQuiet
<1>4. ASSUME phase # "down", NEW h \in Sources, NEW r \in db.reg, r.step = Plan, h \in Matches[r.glob]
      PROVE  h \in changes' \/ (disk'[h] = disk[h] /\ h \notin changes)
  <2>1. CASE h = f
    <3>1. Relevant(db, f, WatchStates)
      BY <1>4, <2>1, SourceRelevant DEF WatchStates
    <3> QED BY <1>1, <1>4, <2>1, <3>1
  <2>2. CASE h # f
    <3>1. h \in File
      BY SourcesType
    <3>2. disk'[h] = disk[h]
      BY <1>1, <1>2, <2>2, <3>1 DEF DiskType
    <3>3. changes \subseteq changes'
      BY <1>1
    <3> QED BY <3>2, <3>3
  <2> QED BY <2>1, <2>2
<1> QED BY <1>1, <1>3, <1>4, MemoryStep

LEMMA RemoveFileGlobs ==
  ASSUME IInv, GInv, NEW f \in File, RemoveFile(f)
  PROVE  GInv'
<1>1. /\ phase = "remove" /\ queue[f] # None /\ \E c : disk' = [disk EXCEPT ![f] = c]
      /\ changes' = changes \cup {f} /\ queue' = [queue EXCEPT ![f] = None]
      /\ UNCHANGED <<db, phase, unnoticed>>
  BY DEF RemoveFile
<1>2. DiskType /\ queue \in [File -> {None, "any", "user", "made"}]
  BY InvTypes DEF MemoryOK
<1>3. SourcesQuiet'
  <2>1. db.row[f] = "NONE"
    BY <1>1 DEF GInv, SourcesQuiet
  <2>2. \A h \in File : queue'[h] # None => queue[h] # None
    BY <1>1, <1>2
  <2> QED BY <1>1, <2>1, <2>2 DEF GInv, SourcesQuiet
<1>4. ASSUME NEW h \in Sources PROVE h \in changes' \/ (disk'[h] = disk[h] /\ h \notin changes)
  BY <1>1, <1>2, SourcesType DEF DiskType
<1> QED BY <1>1, <1>3, <1>4, MemoryStep

LEMMA EndRemoveGlobs ==
  ASSUME IInv, GInv, EndRemove
  PROVE  GInv'
<1>1. /\ phase = "remove" /\ phase' = "watch" /\ \A f \in File : queue[f] = None
      /\ changes' = {f \in changes : Relevant(db, f, BuildStates)}
      /\ UNCHANGED <<db, disk, queue, unnoticed>>
  BY DEF EndRemove, EnterWatch
<1>2. SourcesQuiet'
  BY <1>1 DEF SourcesQuiet
<1>3. ASSUME NEW h \in Sources, NEW r \in db.reg, r.step = Plan, h \in Matches[r.glob], h \in changes
      PROVE  h \in changes'
  <2>1. h \in File /\ db.row[h] = "NONE"
    BY <1>1, <1>3, SourcesType DEF GInv, SourcesQuiet
  <2>2. h \notin Attached(db)
    BY <2>1, AttachedClaimed DEF Claimed
  <2>3. Relevant(db, h, BuildStates)
    BY <1>3, <2>2, SourceRelevant
  <2> QED BY <1>1, <1>3, <2>3
<1> QED BY <1>1, <1>2, <1>3, MemoryStep

\* A step of the director that forgets no change.
LEMMA TidiedGlobs ==
  ASSUME GInv, Tidies(db, db'), SourcesQuiet', phase # "down", disk' = disk,
         changes \cap Sources \subseteq changes' \cup OnDisk,
         (changes \cup unnoticed) \cap Sources \subseteq changes' \cup unnoticed'
  PROVE  GInv'
<1>1. SourcesFree'
  BY DEF GInv, SourcesFree, Tidies
<1>2. ASSUME NEW r \in db'.reg PROVE r \in db.reg \/ r.found = Matches[r.glob] \cap OnDisk
  BY DEF Tidies, Found
<1>3. FoundMatches'
  BY <1>2 DEF GInv, FoundMatches
<1>4. OnDisk' = OnDisk
  BY DEF OnDisk
<1>5. ASSUME NEW r \in db'.reg, r.step = Plan
      PROVE  /\ (r.found \cap Sources) \ OnDisk \subseteq changes'
             /\ ((Matches[r.glob] \cap OnDisk) \cap Sources) \ r.found \subseteq changes' \cup unnoticed'
  <2>1. CASE r \in db.reg
    <3>1. /\ (r.found \cap Sources) \ OnDisk \subseteq changes
          /\ ((Matches[r.glob] \cap OnDisk) \cap Sources) \ r.found \subseteq changes \cup unnoticed
      BY <1>5, <2>1 DEF GInv, GlobsCurrent, Found
    <3> HIDE DEF OnDisk
    <3> QED BY <3>1
  <2>2. CASE r.found = Matches[r.glob] \cap OnDisk
    BY <2>2
  <2> QED BY <1>2, <2>1, <2>2
<1>6. GlobsCurrent'
  <2> HIDE DEF OnDisk
  <2> QED BY <1>4, <1>5 DEF GlobsCurrent, Found
<1> QED BY <1>1, <1>3, <1>6 DEF GInv

LEMMA CallGlobs ==
  ASSUME GInv, phase = "build", NEW d, Tidies(db, d), Call(d)
  PROVE  GInv'
<1> DEFINE e == [d EXCEPT !.toCheck = {}]
<1>1. db' = e /\ UNCHANGED <<disk, changes, queue, phase, unnoticed>>
  BY DEF Call
<1>2. e \in DB /\ e.reg = d.reg /\ e.out = d.out
  BY DEF Tidies, DB
<1> HIDE DEF e
<1>3. Tidies(db, e)
  BY <1>2, TidyColumns, TidyTrans
<1> QED BY <1>1, <1>3, TidyStep

LEMMA CallsGlobs ==
  ASSUME IInv, GInv, NEW s \in Step, DeclareStatics(s) \/ DeclareGlob(s) \/ Define(s) \/ Amend(s)
  PROVE  GInv'
<1>1. db \in DB
  BY InvTypes
<1>2. phase = "build"
  BY DEF DeclareStatics, DeclareGlob, Define, Amend, Listening
<1>3. CASE DeclareStatics(s)
  <2>1. PICK c \in Statics[s] : Call(StaticCall(db, s, c))
    BY <1>3 DEF DeclareStatics
  <2> QED BY <1>1, <1>2, <2>1, StaticCallTidies, CallGlobs
<1>4. CASE DeclareGlob(s)
  <2>1. PICK g \in Globs[s] : Call(RegisterGlob(db, s, g))
    BY <1>4 DEF DeclareGlob
  <2>2. g \in Glob
    BY CallType
  <2> QED BY <1>1, <1>2, <2>1, <2>2, RegisterGlobTidies, CallGlobs
<1>5. CASE Define(s)
  <2>1. PICK c \in Defines[s] : Call(DefineStep(db, s, c))
    BY <1>5 DEF Define
  <2> QED BY <1>1, <1>2, <2>1, DefineStepTidies, CallGlobs
<1>6. CASE Amend(s)
  <2>1. PICK c \in Amends[s] : Call(AmendStep(db, s, c))
    BY <1>6 DEF Amend, AmendCall
  <2> QED BY <1>1, <1>2, <2>1, AmendStepTidies, CallGlobs
<1> QED BY <1>3, <1>4, <1>5, <1>6

\* A step that leaves the disk and all that GInv speaks of alone.
LEMMA SameGlobs ==
  ASSUME GInv, UNCHANGED <<db, disk, changes, queue, phase, unnoticed>>
  PROVE  GInv'
BY DEF GInv, SourcesFree, SourcesQuiet, FoundMatches, GlobsCurrent, Found, OnDisk

LEMMA AnswerGlobs ==
  ASSUME GInv, NEW s \in Step, Answer(s)
  PROVE  GInv'
BY SameGlobs DEF Answer

LEMMA StartGlobs ==
  ASSUME GInv, phase = "build", NEW s, NEW d, Tidies(db, d), Start(s, d)
  PROVE  GInv'
BY TidyStep DEF Start

LEMMA StartsGlobs ==
  ASSUME IInv, GInv, NEW s \in Step, Begin(s) \/ Skip(s) \/ NoSkip(s) \/ EndSuccess(s)
  PROVE  GInv'
<1>1. db \in DB /\ DiskType
  BY InvTypes DEF MemoryOK
<1>2. phase = "build"
  BY DEF Begin, Skip, NoSkip, EndSuccess, Listening
<1>3. CASE Begin(s)
  <2> DEFINE e == SetSteps(db, {s}, "RUNNING")
  <2>1. Start(s, Reset(e, s))
    BY <1>3 DEF Begin
  <2>2. Tidies(db, e) /\ e \in DB
    <3>1. "RUNNING" \in StepState
      BY DEF StepState
    <3>2. Tidies(db, e)
      BY <1>1, <3>1, SetStepsTidies
    <3> QED BY <3>2 DEF Tidies
  <2> HIDE DEF e
  <2>3. Tidies(db, Reset(e, s))
    BY <2>2, ResetTidies, TidyTrans
  <2> QED BY <1>2, <2>1, <2>3, StartGlobs
<1>4. CASE Skip(s) \/ EndSuccess(s)
  <2>1. Start(s, Succeed(db, s))
    BY <1>4 DEF Skip, EndSuccess
  <2> QED BY <1>1, <1>2, <2>1, SucceedTidies, StartGlobs
<1>5. CASE NoSkip(s)
  <2> DEFINE e == Reset(db, s)
             g == [e EXCEPT !.hashed = @ \ {s}]
  <2>1. Start(s, g)
    BY <1>5 DEF NoSkip
  <2>2. Tidies(db, e)
    BY <1>1, ResetTidies
  <2> HIDE DEF e
  <2>3. g \in DB /\ g.reg = e.reg /\ g.out = e.out
    BY <2>2 DEF Tidies, DB
  <2> HIDE DEF g
  <2>4. Tidies(db, g)
    BY <2>2, <2>3, TidyColumns, TidyTrans
  <2> QED BY <1>2, <2>1, <2>4, StartGlobs
<1> QED BY <1>3, <1>4, <1>5

LEMMA EndFailureGlobs ==
  ASSUME IInv, GInv, NEW s \in Step, EndFailure(s)
  PROVE  GInv'
<1>1. db \in DB /\ DiskType
  BY InvTypes DEF MemoryOK
<1>2. phase = "build"
  BY DEF EndFailure, Listening
<1> DEFINE d == Failing(db, s)
           N == Products(d, s) \cap Step
           w == [SetSteps(d, {s}, "PENDING") EXCEPT
                   !.deferred = IF MissesDynamic(d, s) THEN @ \cup {s} ELSE @]
<1>3. /\ db' = w \/ db' = Detach(SetSteps(d, {s}, "FAILED"), N)
      /\ UNCHANGED <<disk, changes, queue, phase, unnoticed>>
  BY DEF EndFailure, Failing
<1>4. Tidies(db, d) /\ d \in DB
  BY <1>1, FailingTidies DEF Tidies
<1> HIDE DEF d
<1>5. N \in SUBSET Node
  BY Kinds DEF Products
<1> HIDE DEF N
<1>6. ASSUME NEW state \in {"PENDING", "FAILED"}
      PROVE  Tidies(db, SetSteps(d, {s}, state)) /\ SetSteps(d, {s}, state) \in DB
  <2>1. state \in StepState
    BY DEF StepState
  <2>2. Tidies(d, SetSteps(d, {s}, state))
    BY <1>4, <2>1, SetStepsTidies
  <2>3. Tidies(db, SetSteps(d, {s}, state))
    BY <1>4, <2>2, TidyTrans
  <2> QED BY <2>2, <2>3 DEF Tidies
<1>7. CASE db' = w
  <2> DEFINE e == SetSteps(d, {s}, "PENDING")
  <2>1. Tidies(db, e) /\ e \in DB
    BY <1>6
  <2>2. w = [e EXCEPT !.deferred = IF MissesDynamic(d, s) THEN @ \cup {s} ELSE @]
    OBVIOUS
  <2> HIDE DEF e, w
  <2>3. w \in DB /\ w.reg = e.reg /\ w.out = e.out
    BY <2>1, <2>2 DEF DB
  <2>4. Tidies(db, w)
    BY <2>1, <2>3, TidyColumns, TidyTrans
  <2> QED BY <1>2, <1>3, <1>7, <2>4, TidyStep
<1>8. CASE db' = Detach(SetSteps(d, {s}, "FAILED"), N)
  <2> DEFINE e == SetSteps(d, {s}, "FAILED")
  <2>1. Tidies(db, e) /\ e \in DB
    BY <1>6
  <2> HIDE DEF e
  <2>2. Tidies(db, Detach(e, N))
    BY <1>5, <2>1, DetachTidies, TidyTrans
  <2> QED BY <1>2, <1>3, <1>8, <2>2, TidyStep DEF e
<1> QED BY <1>3, <1>7, <1>8

LEMMA EditScriptGlobs ==
  ASSUME IInv, GInv, NEW s \in Step, EditScript(s)
  PROVE  GInv'
<1>1. db \in DB
  BY InvTypes
<1>2. /\ db' = MarkPending(db, {s}) /\ phase = "watch"
      /\ UNCHANGED <<disk, changes, queue, phase, unnoticed>>
  BY DEF EditScript, memory
<1>3. {s} \in SUBSET Step
  OBVIOUS
<1>4. Tidies(db, db')
  BY <1>1, <1>2, <1>3, MarkPendingTidies
<1> QED BY <1>2, <1>4, TidyStep

LEMMA RaiseGlobs ==
  ASSUME GInv, Raise
  PROVE  GInv'
BY DownGlobs DEF Raise

LEMMA ApplyGlobs ==
  ASSUME GInv, phase \in {"build", "update"}, NEW f \in File, NEW d, Tidies(db, d), Apply(d, f)
  PROVE  GInv'
<1>1. \/ db' = d /\ UNCHANGED <<disk, changes, queue, phase, unnoticed>>
      \/ Raise
  BY DEF Apply
<1>2. CASE Raise
  BY <1>2, RaiseGlobs
<1>3. CASE db' = d /\ UNCHANGED <<disk, changes, queue, phase, unnoticed>>
  BY <1>3, TidyStep
<1> QED BY <1>1, <1>2, <1>3

LEMMA JobGlobs ==
  ASSUME IInv, GInv, NEW f \in File, HashDone(f) \/ Update(f)
  PROVE  GInv'
<1>1. db \in DB /\ DiskType
  BY InvTypes DEF MemoryOK
<1>2. CASE HashDone(f)
  <2>1. Tidies(db, Confirm(db, f))
    BY <1>1, ConfirmTidies
  <2>2. phase = "build" /\ Apply(Confirm(db, f), f)
    BY <1>2 DEF HashDone
  <2> QED BY <2>1, <2>2, ApplyGlobs
<1>3. CASE Update(f)
  <2>1. Tidies(db, External(db, f))
    BY <1>1, ExternalTidies
  <2>2. phase = "update" /\ Apply(External(db, f), f)
    BY <1>3 DEF Update
  <2> QED BY <2>1, <2>2, ApplyGlobs
<1> QED BY <1>2, <1>3

\* Clean-up only queues files that lose their rows, and the watcher begins
\* without any change of a source.
LEMMA EndBuildGlobs ==
  ASSUME IInv, GInv, NEW drained \in BOOLEAN, EndBuild(drained)
  PROVE  GInv'
<1>1. db \in DB /\ Sound(db)
  BY InvTypes
<1> DEFINE d == DeleteDetached(db)
<1>2. /\ phase = "build" /\ UNCHANGED <<disk, unnoticed>>
      /\ \/ db' = d /\ queue' = Queued(db, d) /\ phase' = "remove" /\ UNCHANGED changes
         \/ /\ phase' = "watch" /\ changes' = {f \in changes : Relevant(db, f, BuildStates)}
            /\ UNCHANGED <<db, queue>>
  BY DEF EndBuild, EnterWatch
<1>3. changes \cap Sources = {} /\ \A f \in File : queue[f] = None
  BY <1>2 DEF GInv, SourcesQuiet
<1>4. Tidies(db, d)
  BY <1>1, DeleteDetachedTidies
<1> HIDE DEF d
<1>5. Tidies(db, db')
  BY <1>1, <1>2, <1>4, TidySelf
<1>6. SourcesQuiet'
  <2>1. CASE db' = d /\ queue' = Queued(db, d) /\ phase' = "remove" /\ UNCHANGED changes
    <3>1. \A f \in File : queue'[f] # None => d.row[f] = "NONE"
      BY <2>1 DEF Queued
    <3> QED BY <1>3, <2>1, <3>1 DEF SourcesQuiet
  <2>2. CASE phase' = "watch" /\ UNCHANGED <<db, queue>>
    BY <1>3, <2>2 DEF SourcesQuiet
  <2> QED BY <1>2, <2>1, <2>2
<1>7. (changes \cup unnoticed) \cap Sources \subseteq unnoticed'
  BY <1>2, <1>3
<1> QED BY <1>2, <1>3, <1>5, <1>6, <1>7, TidiedGlobs

\* What is back unchanged goes from the changes to the unnoticed files.
LEMMA EndWatchGlobs ==
  ASSUME IInv, GInv, EndWatch
  PROVE  GInv'
<1>1. db \in DB
  BY InvTypes
<1> DEFINE failed == {s \in Step \cap Attached(db) : db.st[s] = "FAILED"}
           rows == {f \in changes : db.row[f] # "NONE"}
           stale == {f \in rows : db.hash[f] # disk[f]}
           back == (rows \ stale) \cap OnDisk
<1>2. /\ phase = "watch" /\ phase' = "update" /\ db' = MarkPending(db, failed)
      /\ changes' = changes \ back /\ unnoticed' = (unnoticed \ changes) \cup back
      /\ UNCHANGED <<disk, queue>>
  BY DEF EndWatch
<1>3. failed \in SUBSET Step /\ back \subseteq OnDisk
  OBVIOUS
<1> HIDE DEF failed, back
<1>4. Tidies(db, db')
  BY <1>1, <1>2, <1>3, MarkPendingTidies
<1>5. SourcesQuiet'
  BY <1>2 DEF GInv, SourcesQuiet
<1>6. /\ changes \cap Sources \subseteq changes' \cup OnDisk
      /\ (changes \cup unnoticed) \cap Sources \subseteq changes' \cup unnoticed'
  <2> HIDE DEF OnDisk
  <2> QED BY <1>2, <1>3
<1> QED BY <1>2, <1>4, <1>5, <1>6, TidiedGlobs

\* The director is down, and the disk may change.
LEMMA StopGlobs ==
  ASSUME GInv, Stop
  PROVE  GInv'
BY DownGlobs DEF Stop

LEMMA CleanGlobs ==
  ASSUME GInv, NEW F \in SUBSET File, NEW all \in BOOLEAN, Clean(F, all)
  PROVE  GInv'
<1>1. phase = "down" /\ UNCHANGED <<db, changes, queue, phase>>
  BY DEF Clean, memory
<1>2. changes \cap Sources = {} /\ \A f \in File : queue[f] = None
  BY <1>1 DEF GInv, SourcesQuiet
<1> QED BY <1>1, <1>2, DownGlobs

\* The patterns of the root plan are among those that Rematch looks at.
LEMMA PlanRegistered ==
  ASSUME NEW d \in DB, d.cr[Plan] = Root, NEW r \in d.reg, r.step = Plan
  PROVE  r \in Registered(d)
BY AttachedFacts DEF Registered

LEMMA StartBuildGlobs ==
  ASSUME IInv, GInv, StartBuild
  PROVE  GInv'
<1>1. db \in DB /\ db.cr[Plan] = Root /\ changes \subseteq File
  BY InvTypes DEF MemoryOK
<1> DEFINE D == changes \ OnDisk
           U == changes \cap OnDisk
           found == [r \in Registered(db) |-> Evolved(r, D, U)]
<1>2. /\ phase = "update" /\ phase' = "build" /\ db' = Rematch(db, found) /\ changes' = {}
      /\ UNCHANGED <<disk, queue, unnoticed>>
  BY DEF StartBuild, ProcessGlobs
<1>3. ASSUME NEW r \in Registered(db)
      PROVE  /\ found[r] = (r.found \cup (U \cap Matches[r.glob])) \ D
             /\ found[r] \in SUBSET File
  <2>1. r.found \in SUBSET File
    BY <1>1 DEF Registered, DB, Registration
  <2> QED BY <1>1, <2>1 DEF Evolved
<1> HIDE DEF found
<1>4. /\ db' \in DB /\ db'.out = db.out
      /\ \A r \in db'.reg :
           \/ r \in db.reg /\ r \notin Registered(db)
           \/ \E q \in Registered(db) : r.step = q.step /\ r.glob = q.glob /\ r.found = found[q]
  BY <1>1, <1>2, <1>3, RematchFound
<1>5. SourcesFree'
  BY <1>4 DEF GInv, SourcesFree
<1>6. SourcesQuiet'
  BY <1>2 DEF GInv, SourcesQuiet
<1>7. FoundMatches'
  <2> SUFFICES ASSUME NEW r \in db'.reg PROVE r.found \subseteq Matches[r.glob]
    BY DEF FoundMatches
  <2>1. CASE r \in db.reg
    BY <2>1 DEF GInv, FoundMatches
  <2>2. ASSUME NEW q \in Registered(db), r.glob = q.glob, r.found = found[q]
        PROVE  r.found \subseteq Matches[r.glob]
    <3>1. q.found \subseteq Matches[q.glob]
      BY DEF Registered, GInv, FoundMatches
    <3> QED BY <1>3, <2>2, <3>1
  <2> QED BY <1>4, <2>1, <2>2
<1>8. ASSUME NEW r \in db'.reg, r.step = Plan
      PROVE  /\ r.found \cap Sources \subseteq OnDisk
             /\ ((Matches[r.glob] \cap OnDisk) \cap Sources) \ r.found \subseteq unnoticed
  <2>1. r \notin db.reg \/ r \in Registered(db)
    BY <1>1, <1>8, PlanRegistered
  <2>2. PICK q \in Registered(db) : r.step = q.step /\ r.glob = q.glob /\ r.found = found[q]
    BY <1>4, <2>1
  <2>3. /\ (q.found \cap Sources) \ OnDisk \subseteq changes
        /\ ((Matches[q.glob] \cap OnDisk) \cap Sources) \ q.found \subseteq changes \cup unnoticed
    BY <1>2, <1>8, <2>2 DEF Registered, GInv, GlobsCurrent, Found
  <2>4. r.found = (q.found \cup (U \cap Matches[q.glob])) \ D
    BY <1>3, <2>2
  <2> HIDE DEF OnDisk
  <2> QED BY <2>2, <2>3, <2>4
<1>9. OnDisk' = OnDisk
  BY <1>2 DEF OnDisk
<1>10. GlobsCurrent'
  <2> HIDE DEF OnDisk
  <2> QED BY <1>2, <1>8, <1>9 DEF GlobsCurrent, Found
<1> QED BY <1>5, <1>6, <1>7, <1>10 DEF GInv

LEMMA RescanFilesTidies ==
  ASSUME DiskType, NEW d \in DB, Sound(d), d.ok
  PROVE  Tidies(d, RescanFiles(d)) /\ Sound(RescanFiles(d))
<1> DEFINE A == ToConfirm(d)
           B == Changed(d)
           e == Confirms(d, A)
<1>1. RescanFiles(d) = Externals(e, B)
  <2>1. A = (Attached(d) \cap (File \ Rows(d, {"PLANNED", "VOLATILE"}))) \cap Rows(d, {"UNCONFIRMED"})
    BY DEF ToConfirm
  <2> QED BY <2>1 DEF RescanFiles, Confirms, Changed
<1>2. /\ A \in SUBSET File /\ B \in SUBSET File
      /\ \A f \in A : d.row[f] \in Static
  BY DEF ToConfirm, Changed, Rows, Static
<1> HIDE DEF A, B
<1>3. Sound(e) /\ e \in DB
  <2>1. Rehash(d, e, A)
    BY <1>2, ConfirmsRehash
  <2> QED BY <2>1 DEF Rehash, Sound, SoundFiles
<1>4. Tidies(d, e)
  BY <1>2, ConfirmsTidies
<1> HIDE DEF e
<1>5. Tidies(e, Externals(e, B))
  BY <1>2, <1>3, ExternalsTidies
<1>6. Tidies(d, RescanFiles(d))
  BY <1>1, <1>4, <1>5, TidyTrans
<1>7. Sound(RescanFiles(d))
  BY RescanFilesRehash DEF Rehash
<1> QED BY <1>6, <1>7

\* When a director starts, the patterns of the root plan are matched anew.
LEMMA RescanGlobsFound ==
  ASSUME NEW d \in DB, d.cr[Plan] = Root
  PROVE  /\ RescanGlobs(d) \in DB /\ RescanGlobs(d).out = d.out
         /\ \A r \in RescanGlobs(d).reg : (r \in d.reg /\ r.step # Plan) \/ r.found = Found(r.glob)
<1> DEFINE found == [r \in Registered(d) |-> Found(r.glob)]
           g == Rematch(d, found)
<1>1. \A r \in Registered(d) : found[r] = Found(r.glob) /\ found[r] \in SUBSET File
  BY DEF Found, OnDisk
<1> HIDE DEF found
<1>2. /\ g \in DB /\ g.out = d.out
      /\ \A r \in g.reg :
           \/ r \in d.reg /\ r \notin Registered(d)
           \/ \E q \in Registered(d) : r.step = q.step /\ r.glob = q.glob /\ r.found = found[q]
  BY <1>1, RematchFound
<1> HIDE DEF g
<1>3. ASSUME NEW r \in g.reg PROVE (r \in d.reg /\ r.step # Plan) \/ r.found = Found(r.glob)
  <2>1. CASE r \in d.reg /\ r \notin Registered(d)
    BY <2>1, PlanRegistered
  <2>2. CASE \E q \in Registered(d) : r.step = q.step /\ r.glob = q.glob /\ r.found = found[q]
    BY <1>1, <2>2
  <2> QED BY <1>2, <2>1, <2>2
<1> QED BY <1>2, <1>3 DEF RescanGlobs, g, found

LEMMA RestartGlobs ==
  ASSUME IInv, GInv, Restart
  PROVE  GInv'
<1>1. DbOK(db) /\ DiskType /\ db \in DB
  BY InvParts, InvTypes DEF MemoryOK
<1> DEFINE doubtful == {s \in Step : /\ db.st[s] = "SUCCEEDED"
                                     /\ db.out[s] \cap Attached(db) \cap
                                          Rows(db, Static \cup {"PLANNED", "OUTDATED"}) # {}}
           a == MarkPending(db, doubtful)
           running == {s \in Step : a.st[s] = "RUNNING"}
           b == SetSteps(a, running, "FAILED")
           failed == {s \in Step \cap Attached(b) : b.st[s] = "FAILED"}
           d == MarkPending(b, failed)
           e == RescanFiles(d)
           g == RescanGlobs(e)
<1>2. /\ phase = "down" /\ db' = g /\ phase' = "build" /\ UNCHANGED <<disk, changes, queue>>
  BY DEF Restart, memory
<1>3. doubtful \in SUBSET Step
  OBVIOUS
<1> HIDE DEF doubtful
<1>4. Keeps(db, a) /\ a.ok = db.ok /\ Tidies(db, a) /\ a \in DB
  BY <1>1, <1>3, MarkPendingKeeps, MarksRehash, MarkPendingTidies DEF DbOK, Tidies
<1>5. running \in SUBSET Step
  OBVIOUS
<1> HIDE DEF a, running
<1>6. Keeps(a, b) /\ b.ok = a.ok /\ Tidies(a, b) /\ b \in DB
  <2>1. "FAILED" \in StepState \ {"SUCCEEDED"} /\ Sound(a)
    BY <1>4 DEF StepState, Keeps
  <2>2. b.ok = a.ok
    BY DEF SetSteps
  <2>3. Tidies(a, b)
    BY <1>4, <1>5, <2>1, SetStepsTidies
  <2> QED BY <1>5, <2>1, <2>2, <2>3, SetStepsKeeps DEF Tidies
<1>7. failed \in SUBSET Step
  OBVIOUS
<1> HIDE DEF b, failed
<1>8. Keeps(b, d) /\ d.ok = b.ok /\ Tidies(b, d) /\ d \in DB
  BY <1>6, <1>7, MarkPendingKeeps, MarksRehash, MarkPendingTidies DEF Keeps, Tidies
<1> HIDE DEF d
<1>9. Sound(d) /\ d.ok /\ Tidies(db, d)
  BY <1>1, <1>4, <1>6, <1>8, TidyTrans DEF DbOK, Keeps
<1>10. Tidies(db, e) /\ Sound(e)
  BY <1>1, <1>8, <1>9, RescanFilesTidies, TidyTrans
<1> HIDE DEF e
<1>11. e \in DB /\ e.cr[Plan] = Root
  BY <1>10 DEF Tidies, Sound, SoundFiles, Recorded
<1>12. /\ g.out = e.out
       /\ \A r \in g.reg : (r \in e.reg /\ r.step # Plan) \/ r.found = Found(r.glob)
  BY <1>11, RescanGlobsFound
<1> HIDE DEF g
<1>13. SourcesFree'
  BY <1>2, <1>10, <1>12 DEF GInv, SourcesFree, Tidies
<1>14. SourcesQuiet'
  BY <1>2 DEF GInv, SourcesQuiet
<1>15. FoundMatches'
  <2> SUFFICES ASSUME NEW r \in g.reg PROVE r.found \subseteq Matches[r.glob]
    BY <1>2 DEF FoundMatches
  <2>1. CASE r.found = Found(r.glob)
    BY <2>1 DEF Found
  <2>2. CASE r \in db.reg
    BY <2>2 DEF GInv, FoundMatches
  <2> QED BY <1>10, <1>12, <2>1, <2>2 DEF Tidies
<1>16. OnDisk' = OnDisk
  BY <1>2 DEF OnDisk
<1>17. GlobsCurrent'
  <2> SUFFICES ASSUME NEW r \in g.reg, r.step = Plan
               PROVE  /\ (r.found \cap Sources) \ OnDisk \subseteq changes'
                      /\ ((Matches[r.glob] \cap OnDisk) \cap Sources) \ r.found \subseteq changes' \cup unnoticed'
    <3> HIDE DEF OnDisk
    <3> QED BY <1>2, <1>16 DEF GlobsCurrent, Found
  <2>1. r.found = Matches[r.glob] \cap OnDisk
    BY <1>12 DEF Found
  <2> HIDE DEF OnDisk
  <2> QED BY <2>1
<1> QED BY <1>13, <1>14, <1>15, <1>17 DEF GInv

LEMMA InitGlobs ==
  ASSUME Init
  PROVE  GInv
<1>1. /\ db.out = Nobody /\ db.reg = {} /\ changes = {} /\ phase = "build"
      /\ queue = [f \in File |-> None]
  BY DEF Init
<1> QED BY <1>1 DEF GInv, SourcesFree, SourcesQuiet, FoundMatches, GlobsCurrent, Nobody

LEMMA NextGlobs ==
  ASSUME IInv, GInv, [Next]_vars
  PROVE  GInv'
<1>1. ASSUME NEW s \in Step, DeclareStatics(s) \/ DeclareGlob(s) \/ Define(s) \/ Amend(s) PROVE GInv'
  BY <1>1, CallsGlobs
<1>2. ASSUME NEW s \in Step, Answer(s) PROVE GInv'
  BY <1>2, AnswerGlobs
<1>3. ASSUME NEW s \in Step, NEW f \in File, Write(s, f) PROVE GInv'
  BY <1>3, WriteGlobs
<1>4. ASSUME NEW s \in Step, Begin(s) \/ Skip(s) \/ NoSkip(s) \/ EndSuccess(s) PROVE GInv'
  BY <1>4, StartsGlobs
<1>5. ASSUME NEW s \in Step, EndFailure(s) PROVE GInv'
  BY <1>5, EndFailureGlobs
<1>6. ASSUME NEW s \in Step, EditScript(s) PROVE GInv'
  BY <1>6, EditScriptGlobs
<1>7. ASSUME NEW f \in File, HashDone(f) \/ Update(f) PROVE GInv'
  BY <1>7, JobGlobs
<1>8. ASSUME NEW f \in File, RemoveFile(f) PROVE GInv'
  BY <1>8, RemoveFileGlobs
<1>9. ASSUME NEW f \in File, Edit(f) PROVE GInv'
  BY <1>9, EditGlobs
<1>10. ASSUME NEW drained \in BOOLEAN, EndBuild(drained) PROVE GInv'
  BY <1>10, EndBuildGlobs
<1>11. CASE EndRemove
  BY <1>11, EndRemoveGlobs
<1>12. CASE EndWatch
  BY <1>12, EndWatchGlobs
<1>13. CASE StartBuild
  BY <1>13, StartBuildGlobs
<1>14. CASE Stop
  BY <1>14, StopGlobs
<1>15. CASE Restart
  BY <1>15, RestartGlobs
<1>16. ASSUME NEW F \in SUBSET File, NEW all \in BOOLEAN, Clean(F, all) PROVE GInv'
  BY <1>16, CleanGlobs
<1>17. CASE UNCHANGED vars
  BY <1>17, SameGlobs DEF vars, memory
<1> QED BY <1>1, <1>2, <1>3, <1>4, <1>5, <1>6, <1>7, <1>8, <1>9, <1>10, <1>11, <1>12, <1>13,
           <1>14, <1>15, <1>16, <1>17 DEF Next

\* For any number of edits, build phases, stops and restarts, and whatever the
\* steps declare: what a pattern of the root plan has on record misses a source
\* that is on disk, or holds one that is gone, only while the watcher has the
\* change, or because it found the file to be back unchanged
\* (Workflow.register_nglob, process_nglob_changes, rescan_nglobs and
\* Watcher.run_once).
THEOREM GlobsCurrentAlways == Spec => []GlobsCurrent
<1>1. Init => IInv /\ GInv
  BY InitInv, InitGlobs
<1>2. IInv /\ GInv /\ [Next]_vars => IInv' /\ GInv'
  BY NextInv, NextGlobs
<1>3. GInv => GlobsCurrent
  BY DEF GInv
<1> QED BY <1>1, <1>2, <1>3, PTL DEF Spec
=============================================================================
