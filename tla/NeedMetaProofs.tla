---------------------------- MODULE NeedMetaProofs ----------------------------
(***************************************************************************)
(* Proofs about NeedMeta, for any finite set of steps, any declarations    *)
(* without a cycle, any resources and targets: the stored needs cover what *)
(* they stand for, the stored readiness is exact, what a build leaves      *)
(* pending has a cause, and a clean build is complete.                     *)
(***************************************************************************)
EXTENDS NeedMeta, Folds, FiniteSetTheorems, WellFoundedInduction, TLAPS

State == {"NONE", "PENDING", "CHECKING", "RUNNING", "SUCCEEDED", "FAILED"}
OutState == {"UNDECLARED", "PLANNED", "OUTDATED", "BUILT"}
Level == {OPTIONAL, DEFAULT, TARGET}

\* A database is a record with these columns.
Shape(d) ==
  d = [state |-> d.state, attached |-> d.attached, need |-> d.need, impl |-> d.impl,
       inp |-> d.inp, dyn |-> d.dyn, out |-> d.out, deferred |-> d.deferred,
       hashed |-> d.hashed, count |-> d.count, dur |-> d.dur, tail |-> d.tail,
       checkAfter |-> d.checkAfter, ready |-> d.ready, checkReady |-> d.checkReady]

Columns(d) ==
  /\ d.state \in [Step -> State] /\ d.attached \subseteq Step
  /\ d.need \in [Step -> {OPTIONAL, DEFAULT}] /\ d.impl \in [Step -> Level]
  /\ d.inp \in [Step -> SUBSET Step] /\ d.dyn \in [Step -> SUBSET Step]
  /\ d.out \in [Step -> OutState]
  /\ d.deferred \subseteq Step /\ d.count \in [Step -> Nat]
  /\ d.checkAfter \subseteq Step /\ d.ready \subseteq Step /\ d.checkReady \subseteq Step

\* The rows that there are, and the edges that may lead to them.
RowsExist(d) ==
  \A s \in Step :
    /\ d.state[s] = "NONE" <=> d.out[s] = "UNDECLARED"
    /\ d.state[s] = "NONE" => s \notin d.attached /\ d.inp[s] = {} /\ d.dyn[s] = {}

EdgesDeclared(d) ==
  \A s \in Step :
    /\ d.inp[s] = {} \/ d.inp[s] \in Inps[s]
    /\ d.dyn[s] = {} \/ \E I \in Amends[s] : d.dyn[s] \subseteq I
    /\ d.inp[s] \cap d.dyn[s] = {}

\* A deferred step waits for a file.
DeferredWaits(d) ==
  \A s \in d.deferred : d.state[s] = "PENDING" /\ \E f \in d.dyn[s] : d.out[f] # "BUILT"

SucceededBuilt(d) == \A s \in Step : d.state[s] = "SUCCEEDED" => d.out[s] = "BUILT"

Sound(d) == RowsExist(d) /\ EdgesDeclared(d) /\ DeferredWaits(d) /\ SucceededBuilt(d)

\* An unflagged _ready is exact.
Exact(d) ==
  \A s \in Step \ d.checkReady : d.state[s] # "NONE" => (s \in d.ready <=> IsReady(d, s))

\* The stored need of s is what s asks for itself, or more, and that of t.
Asked(d, s) == d.impl[s] >= BaseNeed(d, s)
Over(d, s, t) == d.impl[s] >= d.impl[t]

\* An unflagged step is needed at least as much as its unflagged consumers.
Covers(d) ==
  \A s \in d.attached \ d.checkAfter :
    Asked(d, s) /\ \A t \in Sinks(d, s) \ d.checkAfter : Over(d, s, t)

CoversAll(d) == \A s \in d.attached : Asked(d, s) /\ \A t \in Sinks(d, s) : Over(d, s, t)

Good(d) == Columns(d) /\ Sound(d) /\ Exact(d) /\ Covers(d)

\* What runs has a row that says so.
Jobs ==
  /\ \A s \in Step : run[s] # "none" <=> s \in Busy(db)
  /\ mode # "build" => Busy(db) = {}

Memory ==
  /\ run \in [Step -> {"none", "run", "check", "validate", "begun", "amended", "waits"}]
  /\ mode \in {"build", "clean", "unclean", "watch"}
  /\ targets \subseteq Step

Core == Shape(db) /\ Good(db) /\ Memory /\ Jobs

IInv == Core /\ PendingExplained /\ CleanIsComplete
-----------------------------------------------------------------------------
(***************************************************************************)
(* The iterations of UPDATE_CHECK_AFTER.                                   *)
(***************************************************************************)
LEMMA NatMin ==
  ASSUME NEW T \in SUBSET Nat, T # {}
  PROVE  \E n \in T : \A m \in T : n <= m
<1> DEFINE R == OpToRel(<, Nat)
<1>1. IsWellFoundedOn(R, Nat)
  BY NatLessThanWellFounded
<1>2. \A x, y \in Nat : x < y => <<x, y>> \in R
  BY DEF OpToRel
<1> HIDE DEF R
<1>3. PICK n \in T : \A m \in T : <<m, n>> \notin R
  BY <1>1, WFMin
<1>4. ASSUME NEW m \in T PROVE n <= m
  <2>1. ~(m < n)
    BY <1>2, <1>3
  <2> QED BY <2>1
<1> QED BY <1>4

\* Induction over natural numbers, for a set in place of a predicate.
LEMMA Induct ==
  ASSUME NEW T \in SUBSET Nat, 0 \in T, \A n \in T : n + 1 \in T
  PROVE  T = Nat
<1> SUFFICES ASSUME T # Nat PROVE FALSE
  OBVIOUS
<1>1. PICK n \in Nat \ T : \A m \in Nat \ T : n <= m
  BY NatMin
<1>2. n # 0 /\ n - 1 \in Nat
  BY <1>1
<1>3. n - 1 \in T
  BY <1>1, <1>2
<1> QED BY <1>1, <1>2, <1>3

Steps == Cardinality(Step)

LEMMA StepsType == Steps \in Nat
BY StepsFinite, FS_CardinalityType DEF Steps

\* What the iterations go through from d.
Iterates(d, g, n) ==
  /\ g[0] = [d |-> d, todo |-> Seeded(d)]
  /\ \A k \in 1 .. n : g[k] = Iterate(g[k - 1], k)

LEMMA IterationsExist ==
  ASSUME NEW d, NEW n \in Nat
  PROVE  \E g : Iterates(d, g, n) /\ g = [k \in 0 .. n |-> g[k]]
<1> DEFINE T == {m \in Nat : \E g : Iterates(d, g, m) /\ g = [k \in 0 .. m |-> g[k]]}
           start == [d |-> d, todo |-> Seeded(d)]
<1>1. 0 \in T
  <2> DEFINE g == [k \in 0 .. 0 |-> start]
  <2>1. g[0] = start /\ 1 .. 0 = {} /\ g = [k \in 0 .. 0 |-> g[k]]
    OBVIOUS
  <2>2. Iterates(d, g, 0)
    BY <2>1 DEF Iterates
  <2> HIDE DEF g
  <2> QED BY <2>1, <2>2
<1>2. ASSUME NEW m \in T PROVE m + 1 \in T
  <2>1. PICK g : Iterates(d, g, m) /\ g = [k \in 0 .. m |-> g[k]]
    OBVIOUS
  <2> DEFINE last == Iterate(g[m], m + 1)
             h == [k \in 0 .. m + 1 |-> IF k = m + 1 THEN last ELSE g[k]]
  <2> HIDE DEF last
  <2>2. /\ h = [k \in 0 .. m + 1 |-> h[k]] /\ h[m + 1] = last
        /\ \A k \in 0 .. m : h[k] = g[k]
    OBVIOUS
  <2> HIDE DEF h
  <2>6. m \in Nat
    OBVIOUS
  <2> HIDE DEF T
  <2>3. h[0] = start
    <3>1. 0 \in 0 .. m
      BY <2>6
    <3> QED BY <2>1, <2>2, <3>1 DEF Iterates
  <2>4. ASSUME NEW k \in 1 .. m + 1 PROVE h[k] = Iterate(h[k - 1], k)
    <3>1. CASE k = m + 1
      <4>1. k - 1 = m /\ h[k - 1] = g[m]
        BY <2>2, <2>6, <3>1
      <4> QED BY <2>2, <3>1, <4>1 DEF last
    <3>2. CASE k \in 1 .. m
      <4>1. h[k] = g[k] /\ h[k - 1] = g[k - 1]
        <5>1. k \in 0 .. m /\ k - 1 \in 0 .. m
          BY <2>6, <3>2
        <5> QED BY <2>2, <5>1
      <4> QED BY <2>1, <3>2, <4>1 DEF Iterates
    <3> QED BY <2>6, <3>1, <3>2
  <2>5. Iterates(d, h, m + 1)
    BY <2>3, <2>4 DEF Iterates
  <2> QED BY <2>2, <2>5, <2>6 DEF T
<1> HIDE DEF T
<1>3. T = Nat
  <2>1. T \in SUBSET Nat
    BY DEF T
  <2> QED BY <1>1, <1>2, <2>1, Induct
<1> QED BY <1>3 DEF T

LEMMA Updates ==
  ASSUME NEW d
  PROVE  \E g : Iterates(d, g, Steps) /\ UpdateMetaAfter(d) = [g[Steps].d EXCEPT !.checkAfter = {}]
<1> DEFINE n == Steps
           start == [d |-> d, todo |-> Seeded(d)]
           Body(g) == [k \in 0 .. n |-> IF k = 0 THEN start ELSE Iterate(g[k - 1], k)]
           g == CHOOSE g : g = Body(g)
<1>1. n \in Nat
  BY StepsType
<1>2. UpdateMetaAfter(d) = [g[n].d EXCEPT !.checkAfter = {}]
  BY DEF UpdateMetaAfter, Steps
<1> HIDE DEF n
<1>3. \E h : h = Body(h)
  <2>1. PICK h : Iterates(d, h, n) /\ h = [k \in 0 .. n |-> h[k]]
    BY <1>1, IterationsExist
  <2>2. ASSUME NEW k \in 0 .. n
        PROVE  h[k] = IF k = 0 THEN start ELSE Iterate(h[k - 1], k)
    <3>1. CASE k = 0
      BY <2>1, <3>1 DEF Iterates
    <3>2. CASE k # 0
      <4>1. k \in 1 .. n
        BY <1>1, <3>2
      <4> QED BY <2>1, <3>2, <4>1 DEF Iterates
    <3> QED BY <3>1, <3>2
  <2> QED BY <2>1, <2>2
<1>4. g = Body(g)
  BY <1>3
<1> HIDE DEF g
<1>5. Iterates(d, g, n)
  <2>1. g[0] = start
    BY <1>1, <1>4
  <2>2. \A k \in 1 .. n : g[k] = Iterate(g[k - 1], k)
    BY <1>1, <1>4
  <2> QED BY <2>1, <2>2 DEF Iterates
<1> QED BY <1>2, <1>5 DEF n
-----------------------------------------------------------------------------
(***************************************************************************)
(* The graph has no cycle.                                                 *)
(***************************************************************************)
LEMMA SourceExists ==
  ASSUME NEW d, EdgesDeclared(d), NEW S \in SUBSET Step, S # {}
  PROVE  \E s \in S : Inputs(d, s) \cap S = {}
<1>1. PICK s \in S : \A I \in Inps[s] \cup Amends[s] : I \cap S = {}
  BY DeclarationsAcyclic
<1>2. d.inp[s] \cap S = {}
  BY <1>1 DEF EdgesDeclared
<1>3. d.dyn[s] \cap S = {}
  BY <1>1 DEF EdgesDeclared
<1> QED BY <1>2, <1>3 DEF Inputs

\* No step of S uses the output of m.
Unused(d, S, m) == \A t \in S : m \notin Inputs(d, t)

LEMMA SinkExists ==
  ASSUME NEW d, EdgesDeclared(d), NEW S \in SUBSET Step, S # {}
  PROVE  \E m \in S : Unused(d, S, m)
<1> DEFINE Last(V) == V # {} => \E m \in V : Unused(d, V, m)
           T == {n \in Nat : \A V \in SUBSET Step : Cardinality(V) = n => Last(V)}
<1>1. \A V \in SUBSET Step : IsFiniteSet(V) /\ Cardinality(V) \in Nat
  BY StepsFinite, FS_Subset, FS_CardinalityType
<1>2. 0 \in T
  <2> SUFFICES ASSUME NEW V \in SUBSET Step, Cardinality(V) = 0 PROVE V = {}
    OBVIOUS
  <2> QED BY <1>1, FS_EmptySet
<1>3. ASSUME NEW n \in T PROVE n + 1 \in T
  <2> SUFFICES ASSUME NEW V \in SUBSET Step, Cardinality(V) = n + 1, V # {}
               PROVE  \E m \in V : Unused(d, V, m)
    OBVIOUS
  <2>1. PICK s \in V : Inputs(d, s) \cap V = {}
    BY SourceExists
  <2> DEFINE W == V \ {s}
  <2>2. W \in SUBSET Step /\ Cardinality(W) = n
    <3>1. IsFiniteSet(V) /\ Cardinality(V \ {s}) = Cardinality(V) - 1
      BY <1>1, FS_RemoveElement
    <3> QED BY <3>1
  <2>3. Last(W)
    BY <2>2
  <2>4. CASE W = {}
    <3>1. V = {s}
      BY <2>4
    <3> QED BY <2>1, <3>1 DEF Unused
  <2>5. CASE W # {}
    <3>1. PICK m \in W : Unused(d, W, m)
      BY <2>3, <2>5
    <3>2. Unused(d, V, m)
      BY <2>1, <3>1 DEF Unused
    <3> QED BY <3>2
  <2> QED BY <2>4, <2>5
<1> HIDE DEF T
<1>4. T = Nat
  <2>1. T \in SUBSET Nat
    BY DEF T
  <2> QED BY <1>2, <1>3, <2>1, Induct
<1> QED BY <1>1, <1>4 DEF T
-----------------------------------------------------------------------------
(***************************************************************************)
(* The needs after one iteration and after all.                            *)
(***************************************************************************)
LEMMA NeedValue ==
  ASSUME NEW d, Columns(d), NEW s \in Step
  PROVE  /\ NewNeed(d, s) \in Level /\ NewNeed(d, s) >= BaseNeed(d, s)
         /\ \A t \in Sinks(d, s) : NewNeed(d, s) >= d.impl[t]
         /\ d.impl[s] >= BaseNeed(d, s) /\ (\A t \in Sinks(d, s) : d.impl[s] >= d.impl[t])
              => NewNeed(d, s) <= d.impl[s]
<1> DEFINE V == {BaseNeed(d, s)} \cup {d.impl[t] : t \in Sinks(d, s)}
<1>1. BaseNeed(d, s) \in Level
  BY DEF BaseNeed, Columns, Level, OPTIONAL, DEFAULT, TARGET
<1>2. \A t \in Sinks(d, s) : d.impl[t] \in Level
  BY DEF Sinks, Consumers, Columns
<1>3. V \subseteq Level /\ BaseNeed(d, s) \in V
  BY <1>1, <1>2
<1>4. NewNeed(d, s) \in V /\ \A y \in V : NewNeed(d, s) >= y
  <2>1. NewNeed(d, s) = CHOOSE x \in V : \A y \in V : x >= y
    BY DEF NewNeed, Max
  <2> HIDE DEF V
  <2>2. \E x \in V : \A y \in V : x >= y
    <3>1. \A y \in V : y \in {1, 2, 3}
      BY <1>3 DEF Level, OPTIONAL, DEFAULT, TARGET
    <3>2. CASE 3 \in V
      BY <3>1, <3>2
    <3>3. CASE 3 \notin V /\ 2 \in V
      BY <3>1, <3>3
    <3>4. CASE 3 \notin V /\ 2 \notin V
      BY <1>3, <3>1, <3>4
    <3> QED BY <3>2, <3>3, <3>4
  <2> QED BY <2>1, <2>2
<1>5. NewNeed(d, s) = BaseNeed(d, s) \/ \E t \in Sinks(d, s) : NewNeed(d, s) = d.impl[t]
  BY <1>4
<1>6. \A t \in Sinks(d, s) : d.impl[t] \in V
  OBVIOUS
<1> HIDE DEF V
<1>7. d.impl[s] \in Level
  BY DEF Columns
<1> QED BY <1>3, <1>4, <1>5, <1>6, <1>7

\* What the columns of needs and tail times say of the rows stays.
SameRows(d, e) ==
  /\ e.state = d.state /\ e.attached = d.attached /\ e.need = d.need
  /\ e.inp = d.inp /\ e.dyn = d.dyn /\ e.out = d.out /\ e.deferred = d.deferred
  /\ e.hashed = d.hashed /\ e.count = d.count

SameReady(d, e) == e.ready = d.ready /\ e.checkReady = d.checkReady

IsWritten(d, e, impl, tail) == e = [d EXCEPT !.impl = impl, !.tail = tail]

LEMMA NeedsWritten ==
  ASSUME NEW d, Shape(d), Columns(d), NEW impl \in [Step -> Level], NEW tail,
         NEW e, IsWritten(d, e, impl, tail)
  PROVE  /\ Shape(e) /\ Columns(e) /\ SameRows(d, e) /\ SameReady(d, e)
         /\ e.impl = impl /\ e.checkAfter = d.checkAfter
<1>1. e = [state |-> d.state, attached |-> d.attached, need |-> d.need, impl |-> impl,
           inp |-> d.inp, dyn |-> d.dyn, out |-> d.out, deferred |-> d.deferred,
           hashed |-> d.hashed, count |-> d.count, dur |-> d.dur, tail |-> tail,
           checkAfter |-> d.checkAfter, ready |-> d.ready, checkReady |-> d.checkReady]
  BY DEF Shape, IsWritten
<1>2. /\ SameRows(d, e) /\ SameReady(d, e) /\ e.impl = impl /\ e.checkAfter = d.checkAfter
      /\ e.dur = d.dur /\ e.tail = tail
  BY <1>1 DEF SameRows, SameReady
<1>3. Shape(e)
  BY <1>1 DEF Shape
<1>4. Columns(e)
  BY <1>2 DEF Columns, SameRows, SameReady
<1> QED BY <1>2, <1>3, <1>4

\* The k-th iteration: r holds the database and the steps to go over.
LEMMA Iteration ==
  ASSUME NEW r, Shape(r.d), Columns(r.d), r.todo \subseteq Step, NEW k
  PROVE  LET e == Iterate(r, k).d
             next == Iterate(r, k).todo
         IN /\ Shape(e) /\ Columns(e) /\ SameRows(r.d, e) /\ SameReady(r.d, e)
            /\ e.checkAfter = r.d.checkAfter
            /\ \A s \in Step : e.impl[s] = IF s \in r.todo THEN NewNeed(r.d, s) ELSE r.d.impl[s]
            /\ next \subseteq {m \in r.d.attached : Sinks(r.d, m) \cap r.todo # {}}
            /\ \A m \in r.d.attached, t \in r.todo :
                 t \in Sinks(r.d, m) /\ (k = 1 \/ e.impl[t] # r.d.impl[t]) => m \in next
<1> DEFINE d == r.d
           todo == r.todo
           impl == [s \in Step |-> IF s \in todo THEN NewNeed(d, s) ELSE d.impl[s]]
           tail == [s \in Step |-> IF s \in todo THEN NewTail(d, s) ELSE d.tail[s]]
           e == [d EXCEPT !.impl = impl, !.tail = tail]
           changed == {s \in todo : k = 1 \/ e.impl[s] # d.impl[s] \/ e.tail[s] # d.tail[s]}
           next == {m \in d.attached : Sinks(d, m) \cap changed # {}}
<1>1. Iterate(r, k) = [d |-> e, todo |-> next]
  BY DEF Iterate
<1>2. Shape(d) /\ Columns(d) /\ todo \subseteq Step /\ r.d = d /\ r.todo = todo
  OBVIOUS
<1> HIDE DEF d, todo
<1>3. impl \in [Step -> Level]
  BY <1>2, NeedValue DEF Columns
<1>4. \A s \in Step : impl[s] = IF s \in todo THEN NewNeed(d, s) ELSE d.impl[s]
  OBVIOUS
<1> HIDE DEF impl, tail
<1>5. IsWritten(d, e, impl, tail)
  BY DEF IsWritten
<1> HIDE DEF e
<1>6. /\ Shape(e) /\ Columns(e) /\ SameRows(d, e) /\ SameReady(d, e)
      /\ e.impl = impl /\ e.checkAfter = d.checkAfter
  BY <1>3, <1>2, <1>5, NeedsWritten
<1>7. next \subseteq {m \in d.attached : Sinks(d, m) \cap todo # {}}
  OBVIOUS
<1>8. \A m \in d.attached, t \in todo :
        t \in Sinks(d, m) /\ (k = 1 \/ e.impl[t] # d.impl[t]) => m \in next
  OBVIOUS
<1> HIDE DEF next
<1>9. Iterate(r, k).d = e /\ Iterate(r, k).todo = next
  BY <1>1
<1> QED BY <1>4, <1>6, <1>7, <1>8, <1>9, <1>2

\* What every iteration from d keeps.
Carries(d, r) ==
  /\ Shape(r.d) /\ Columns(r.d) /\ SameRows(d, r.d) /\ SameReady(d, r.d)
  /\ r.d.checkAfter = d.checkAfter /\ r.todo \subseteq d.attached

\* What is not as it should be is still to be recomputed.
Chased(r) ==
  \A s \in r.d.attached :
    Asked(r.d, s) /\ (s \notin r.todo => \A t \in Sinks(r.d, s) : Over(r.d, s, t))

\* No need of e is higher than in d.
Lowers(d, e) == \A s \in Step : e.impl[s] <= d.impl[s]

LEMMA RowsSame ==
  ASSUME NEW d, NEW e, SameRows(d, e)
  PROVE  /\ \A s : BaseNeed(e, s) = BaseNeed(d, s) /\ Sinks(e, s) = Sinks(d, s)
         /\ \A s : IsReady(e, s) <=> IsReady(d, s)
         /\ EdgesDeclared(d) => EdgesDeclared(e)
         /\ Sound(d) => Sound(e)
<1>1. \A s : BaseNeed(e, s) = BaseNeed(d, s) /\ Sinks(e, s) = Sinks(d, s)
  BY DEF SameRows, BaseNeed, Sinks, Consumers, Inputs
<1>2. \A s : IsReady(e, s) <=> IsReady(d, s)
  BY DEF SameRows, IsReady, Inputs, Blocks
<1>3. EdgesDeclared(d) => EdgesDeclared(e)
  BY DEF SameRows, EdgesDeclared
<1>4. Sound(d) => Sound(e)
  BY <1>3 DEF Sound, SameRows, RowsExist, DeferredWaits, SucceededBuilt
<1> QED BY <1>1, <1>2, <1>3, <1>4

LEMMA IterationCarries ==
  ASSUME NEW d, NEW r, Carries(d, r), NEW k
  PROVE  LET e == Iterate(r, k).d
             next == Iterate(r, k).todo
         IN /\ Carries(d, Iterate(r, k))
            /\ SameRows(r.d, e)
            /\ \A s \in Step : e.impl[s] = IF s \in r.todo THEN NewNeed(r.d, s) ELSE r.d.impl[s]
            /\ next \subseteq {m \in d.attached : Sinks(d, m) \cap r.todo # {}}
            /\ \A m \in d.attached, t \in r.todo :
                 t \in Sinks(d, m) /\ (k = 1 \/ e.impl[t] # r.d.impl[t]) => m \in next
<1> DEFINE c == r.d
           todo == r.todo
           e == Iterate(r, k).d
           next == Iterate(r, k).todo
<1>1. /\ Shape(c) /\ Columns(c) /\ SameRows(d, c) /\ SameReady(d, c)
      /\ c.checkAfter = d.checkAfter /\ todo \subseteq d.attached
  BY DEF Carries
<1>2. todo \subseteq Step /\ c.attached = d.attached
  BY <1>1 DEF SameRows, Columns
<1>3. /\ Shape(e) /\ Columns(e) /\ SameRows(c, e) /\ SameReady(c, e)
      /\ e.checkAfter = c.checkAfter
      /\ \A s \in Step : e.impl[s] = IF s \in todo THEN NewNeed(c, s) ELSE c.impl[s]
      /\ next \subseteq {m \in c.attached : Sinks(c, m) \cap todo # {}}
      /\ \A m \in c.attached, t \in todo :
           t \in Sinks(c, m) /\ (k = 1 \/ e.impl[t] # c.impl[t]) => m \in next
  BY <1>1, <1>2, Iteration
<1> HIDE DEF c, todo, e, next
<1>4. \A m : Sinks(c, m) = Sinks(d, m)
  BY <1>1, RowsSame
<1>5. Carries(d, Iterate(r, k))
  <2>1. SameRows(d, e) /\ SameReady(d, e)
    BY <1>1, <1>3 DEF SameRows, SameReady
  <2>2. next \subseteq d.attached
    BY <1>2, <1>3
  <2> QED BY <1>1, <1>3, <2>1, <2>2 DEF Carries, e, next
<1> QED BY <1>2, <1>3, <1>4, <1>5 DEF c, todo, e, next

\* The first iteration, after which only makers of what it recomputed may be wrong.
LEMMA FirstIteration ==
  ASSUME NEW d, NEW r, Carries(d, r), r.d = d, r.todo = Seeded(d), Covers(d)
  PROVE  Chased(Iterate(r, 1))
<1> DEFINE e == Iterate(r, 1).d
           next == Iterate(r, 1).todo
<1>1. /\ Carries(d, Iterate(r, 1)) /\ SameRows(d, e)
      /\ \A s \in Step : e.impl[s] = IF s \in Seeded(d) THEN NewNeed(d, s) ELSE d.impl[s]
      /\ \A m \in d.attached, t \in Seeded(d) : t \in Sinks(d, m) => m \in next
  BY IterationCarries
<1>2. Columns(d)
  BY DEF Carries
<1> HIDE DEF e, next
<1> SUFFICES ASSUME NEW s \in e.attached
             PROVE  Asked(e, s) /\ (s \notin next => \A t \in Sinks(e, s) : Over(e, s, t))
  BY DEF Chased, e, next
<1>3. s \in d.attached /\ s \in Step
  BY <1>1, <1>2 DEF SameRows, Columns
<1>4. BaseNeed(e, s) = BaseNeed(d, s) /\ Sinks(e, s) = Sinks(d, s)
  BY <1>1, RowsSame
<1>5. s \notin Seeded(d) => Asked(d, s) /\ \A t \in Sinks(d, s) \ d.checkAfter : Over(d, s, t)
  BY <1>3 DEF Covers, Seeded
<1>6. /\ NewNeed(d, s) >= BaseNeed(d, s)
      /\ \A t \in Sinks(d, s) : NewNeed(d, s) >= d.impl[t]
  BY <1>2, <1>3, NeedValue
<1>7. Asked(e, s)
  BY <1>1, <1>3, <1>4, <1>5, <1>6 DEF Asked
<1>8. ASSUME s \notin next, NEW t \in Sinks(e, s) PROVE Over(e, s, t)
  <2>1. t \in Sinks(d, s) /\ t \notin Seeded(d) /\ t \in Step /\ t \notin d.checkAfter
    <3>1. t \in Sinks(d, s) /\ t \in d.attached /\ t \in Step
      BY <1>4, <1>8, <1>2 DEF Sinks, Columns
    <3>2. t \notin Seeded(d)
      BY <1>1, <1>3, <1>8, <3>1
    <3> QED BY <3>1, <3>2 DEF Seeded
  <2>2. e.impl[t] = d.impl[t]
    BY <1>1, <2>1
  <2> QED BY <1>1, <1>3, <1>5, <1>6, <2>1, <2>2 DEF Over
<1> QED BY <1>7, <1>8

LEMMA LaterIteration ==
  ASSUME NEW d, NEW r, Carries(d, r), Chased(r), NEW k
  PROVE  Chased(Iterate(r, k))
<1> DEFINE c == r.d
           todo == r.todo
           e == Iterate(r, k).d
           next == Iterate(r, k).todo
<1>1. /\ Carries(d, Iterate(r, k)) /\ SameRows(c, e)
      /\ \A s \in Step : e.impl[s] = IF s \in todo THEN NewNeed(c, s) ELSE c.impl[s]
      /\ \A m \in d.attached, t \in todo :
           t \in Sinks(d, m) /\ e.impl[t] # c.impl[t] => m \in next
  BY IterationCarries
<1>2. Columns(c) /\ SameRows(d, c)
  BY DEF Carries
<1>3. \A s \in c.attached :
        Asked(c, s) /\ (s \notin todo => \A t \in Sinks(c, s) : Over(c, s, t))
  BY DEF Chased
<1> HIDE DEF c, todo, e, next
<1> SUFFICES ASSUME NEW s \in e.attached
             PROVE  Asked(e, s) /\ (s \notin next => \A t \in Sinks(e, s) : Over(e, s, t))
  BY DEF Chased, e, next
<1>4. s \in d.attached /\ s \in c.attached /\ s \in Step
  BY <1>1, <1>2 DEF SameRows, Columns
<1>5. BaseNeed(e, s) = BaseNeed(c, s) /\ Sinks(e, s) = Sinks(c, s) /\ Sinks(d, s) = Sinks(c, s)
  BY <1>1, <1>2, RowsSame
<1>6. Asked(c, s) /\ (s \notin todo => \A t \in Sinks(c, s) : Over(c, s, t))
  BY <1>4, <1>3
<1>7. /\ NewNeed(c, s) >= BaseNeed(c, s)
      /\ \A t \in Sinks(c, s) : NewNeed(c, s) >= c.impl[t]
  BY <1>2, <1>4, NeedValue
<1>8. Asked(e, s)
  BY <1>1, <1>4, <1>5, <1>6, <1>7 DEF Asked
<1>9. ASSUME s \notin next, NEW t \in Sinks(e, s) PROVE Over(e, s, t)
  <2>1. t \in Sinks(c, s) /\ t \in Sinks(d, s) /\ t \in Step
    BY <1>2, <1>5, <1>9 DEF Sinks, Columns
  <2>2. e.impl[t] = c.impl[t]
    BY <1>1, <1>4, <1>9, <2>1
  <2> QED BY <1>1, <1>4, <1>6, <1>7, <2>1, <2>2 DEF Over
<1> QED BY <1>8, <1>9

\* When the needs cover all they should, no iteration raises one.
LEMMA CoveringIteration ==
  ASSUME NEW d, Columns(d), NEW r, Carries(d, r), CoversAll(r.d), Lowers(d, r.d), NEW k
  PROVE  CoversAll(Iterate(r, k).d) /\ Lowers(d, Iterate(r, k).d)
<1> DEFINE c == r.d
           todo == r.todo
           e == Iterate(r, k).d
<1>1. /\ Carries(d, Iterate(r, k)) /\ SameRows(c, e)
      /\ \A s \in Step : e.impl[s] = IF s \in todo THEN NewNeed(c, s) ELSE c.impl[s]
  BY IterationCarries
<1>2. Columns(c) /\ SameRows(d, c) /\ CoversAll(c) /\ Lowers(d, c) /\ Columns(e) /\ todo \subseteq c.attached
  BY <1>1 DEF Carries, SameRows
<1> HIDE DEF c, todo, e
<1>3. ASSUME NEW s \in Step PROVE e.impl[s] <= c.impl[s]
  <2>1. CASE s \in todo
    <3>1. Asked(c, s) /\ \A t \in Sinks(c, s) : Over(c, s, t)
      BY <1>2, <2>1 DEF CoversAll
    <3> QED BY <1>1, <1>2, <2>1, <3>1, NeedValue DEF Asked, Over
  <2>2. CASE s \notin todo
    <3>1. e.impl[s] = c.impl[s] /\ c.impl[s] \in {1, 2, 3}
      BY <1>1, <1>2, <2>2 DEF Columns, Level, OPTIONAL, DEFAULT, TARGET
    <3> QED BY <3>1
  <2> QED BY <2>1, <2>2
<1>4. \A s \in Step : e.impl[s] \in {1, 2, 3} /\ c.impl[s] \in {1, 2, 3}
  BY <1>2 DEF Columns, Level, OPTIONAL, DEFAULT, TARGET
<1>5. ASSUME NEW s \in e.attached
      PROVE  Asked(e, s) /\ \A t \in Sinks(e, s) : Over(e, s, t)
  <2>1. s \in c.attached /\ s \in Step
    BY <1>1, <1>2 DEF SameRows, Columns
  <2>2. BaseNeed(e, s) = BaseNeed(c, s) /\ Sinks(e, s) = Sinks(c, s)
    BY <1>1, RowsSame
  <2>3. Asked(c, s) /\ \A t \in Sinks(c, s) : Over(c, s, t)
    BY <1>2, <2>1 DEF CoversAll
  <2>4. /\ NewNeed(c, s) >= BaseNeed(c, s)
        /\ \A t \in Sinks(c, s) : NewNeed(c, s) >= c.impl[t]
    BY <1>2, <2>1, NeedValue
  <2>5. Asked(e, s)
    BY <1>1, <2>1, <2>2, <2>3, <2>4 DEF Asked
  <2>6. ASSUME NEW t \in Sinks(e, s) PROVE Over(e, s, t)
    <3>1. t \in Step /\ t \in Sinks(c, s)
      BY <2>2 DEF Sinks, Consumers
    <3>2. e.impl[t] <= c.impl[t]
      BY <1>3, <3>1
    <3>3. e.impl[s] >= c.impl[t]
      BY <1>1, <2>1, <2>3, <2>4, <3>1 DEF Over
    <3>4. e.impl[s] \in {1, 2, 3} /\ e.impl[t] \in {1, 2, 3} /\ c.impl[t] \in {1, 2, 3}
      BY <1>4, <2>1, <3>1
    <3> QED BY <3>2, <3>3, <3>4 DEF Over
  <2> QED BY <2>5, <2>6
<1>6. Lowers(d, e)
  <2>2. ASSUME NEW s \in Step PROVE e.impl[s] <= d.impl[s]
    <3>1. e.impl[s] <= c.impl[s] /\ c.impl[s] <= d.impl[s]
      BY <1>2, <1>3 DEF Lowers
    <3>2. d.impl[s] \in {1, 2, 3}
      BY DEF Columns, Level, OPTIONAL, DEFAULT, TARGET
    <3> QED BY <1>4, <3>1, <3>2
  <2> QED BY <2>2 DEF Lowers
<1>7. CoversAll(e)
  BY <1>5 DEF CoversAll
<1> QED BY <1>6, <1>7 DEF e

\* The steps that k iterations leave to go over are among ever fewer steps.
Left(d, todo, k) ==
  \E L \in SUBSET d.attached :
    /\ todo \subseteq L
    /\ \A m \in d.attached : Sinks(d, m) \cap L # {} => m \in L
    /\ L = {} \/ Cardinality(L) + k <= Steps

LEMMA LeftShrinks ==
  ASSUME NEW d, Columns(d), EdgesDeclared(d), NEW k \in Nat, NEW todo, Left(d, todo, k),
         NEW next, next \subseteq {m \in d.attached : Sinks(d, m) \cap todo # {}}
  PROVE  Left(d, next, k + 1)
<1>1. PICK L \in SUBSET d.attached :
        /\ todo \subseteq L
        /\ \A m \in d.attached : Sinks(d, m) \cap L # {} => m \in L
        /\ L = {} \/ Cardinality(L) + k <= Steps
  BY DEF Left
<1>2. L \in SUBSET Step /\ IsFiniteSet(L) /\ Cardinality(L) \in Nat
  BY StepsFinite, FS_Subset, FS_CardinalityType DEF Columns
<1> DEFINE M == {m \in d.attached : Sinks(d, m) \cap L # {}}
<1>3. M \subseteq L /\ next \subseteq M
  BY <1>1
<1>4. \A m \in d.attached : Sinks(d, m) \cap M # {} => m \in M
  BY <1>3
<1>5. M = {} \/ Cardinality(M) + (k + 1) <= Steps
  <2> SUFFICES ASSUME M # {} PROVE Cardinality(M) + (k + 1) <= Steps
    OBVIOUS
  <2>1. L # {}
    BY <1>3
  <2>2. PICK m \in L : Unused(d, L, m)
    BY <1>2, <2>1, SinkExists
  <2>3. m \notin M
    BY <1>2, <2>2 DEF Unused, Sinks, Consumers
  <2> HIDE DEF M
  <2>4. M \subseteq L \ {m} /\ IsFiniteSet(L \ {m}) /\ Cardinality(L \ {m}) = Cardinality(L) - 1
    BY <1>2, <1>3, <2>2, <2>3, FS_RemoveElement
  <2>5. Cardinality(M) <= Cardinality(L \ {m}) /\ Cardinality(M) \in Nat
    BY <2>4, FS_Subset, FS_CardinalityType
  <2> QED BY <1>1, <1>2, <2>1, <2>4, <2>5, StepsType
<1>6. M \in SUBSET d.attached
  OBVIOUS
<1> HIDE DEF M
<1> QED BY <1>3, <1>4, <1>5, <1>6 DEF Left

LEMMA NeedsUpdated ==
  ASSUME NEW d, Shape(d), Columns(d), EdgesDeclared(d), Covers(d)
  PROVE  LET e == UpdateMetaAfter(d)
         IN /\ Shape(e) /\ Columns(e) /\ SameRows(d, e) /\ SameReady(d, e)
            /\ e.checkAfter = {} /\ CoversAll(e)
            /\ CoversAll(d) => Lowers(d, e)
<1>1. PICK g : Iterates(d, g, Steps) /\ UpdateMetaAfter(d) = [g[Steps].d EXCEPT !.checkAfter = {}]
  BY Updates
<1> DEFINE Reached(k) ==
             /\ Carries(d, g[k])
             /\ k # 0 => Chased(g[k])
             /\ CoversAll(d) => CoversAll(g[k].d) /\ Lowers(d, g[k].d)
             /\ Left(d, g[k].todo, k)
           T == {k \in Nat : k <= Steps => Reached(k)}
<1>2. Steps \in Nat
  BY StepsType
<1>3. g[0].d = d /\ g[0].todo = Seeded(d)
  BY <1>1 DEF Iterates
<1>4. \A k \in 1 .. Steps : g[k] = Iterate(g[k - 1], k)
  BY <1>1 DEF Iterates
<1>5. Reached(0)
  <2>1. Carries(d, g[0])
    BY <1>3 DEF Carries, SameRows, SameReady, Seeded
  <2>2. Lowers(d, d)
    BY DEF Lowers, Columns, Level, OPTIONAL, DEFAULT, TARGET
  <2>3. Left(d, Seeded(d), 0)
    <3>1. IsFiniteSet(d.attached) /\ Cardinality(d.attached) <= Steps /\ Cardinality(d.attached) \in Nat
      BY StepsFinite, FS_Subset, FS_CardinalityType DEF Columns, Steps
    <3>2. Cardinality(d.attached) + 0 <= Steps
      BY <1>2, <3>1
    <3>3. d.attached \in SUBSET d.attached /\ Seeded(d) \subseteq d.attached
      BY DEF Seeded
    <3> QED BY <3>2, <3>3 DEF Left
  <2> QED BY <1>3, <2>1, <2>2, <2>3
<1>6. ASSUME NEW k \in Nat, k + 1 <= Steps, Reached(k) PROVE Reached(k + 1)
  <2>1. g[k + 1] = Iterate(g[k], k + 1)
    <3>1. k + 1 \in 1 .. Steps /\ (k + 1) - 1 = k
      BY <1>2, <1>6
    <3> QED BY <1>4, <3>1
  <2> DEFINE r == g[k]
  <2>2. Carries(d, r) /\ Left(d, r.todo, k)
    BY <1>6
  <2>3. k # 0 => Chased(r)
    BY <1>6
  <2>4. CoversAll(d) => CoversAll(r.d) /\ Lowers(d, r.d)
    BY <1>6
  <2>9. k = 0 => r.d = d /\ r.todo = Seeded(d)
    BY <1>3
  <2>5. g[k + 1] = Iterate(r, k + 1)
    BY <2>1
  <2> HIDE DEF r
  <2>6. Carries(d, Iterate(r, k + 1))
    BY <2>2, IterationCarries
  <2>7. Chased(Iterate(r, k + 1))
    <3>1. CASE k = 0
      <4>1. k + 1 = 1
        BY <3>1
      <4> QED BY <2>2, <2>9, <3>1, <4>1, FirstIteration
    <3>2. CASE k # 0
      BY <2>2, <2>3, <3>2, LaterIteration
    <3> QED BY <3>1, <3>2
  <2>8. CoversAll(d) => CoversAll(Iterate(r, k + 1).d) /\ Lowers(d, Iterate(r, k + 1).d)
    BY <2>2, <2>4, CoveringIteration
  <2>10. Left(d, Iterate(r, k + 1).todo, k + 1)
    <3> DEFINE next == Iterate(r, k + 1).todo
    <3>1. next \subseteq {m \in d.attached : Sinks(d, m) \cap r.todo # {}}
      BY <2>2, IterationCarries
    <3> HIDE DEF next
    <3>2. Left(d, next, k + 1)
      BY <2>2, <3>1, LeftShrinks
    <3> QED BY <3>2 DEF next
  <2> QED BY <2>5, <2>6, <2>7, <2>8, <2>10
<1>7. Reached(Steps)
  <2>1. 0 \in T
    BY <1>5
  <2> HIDE DEF Reached
  <2>2. ASSUME NEW k \in T PROVE k + 1 \in T
    BY <1>2, <1>6
  <2>3. T \in SUBSET Nat
    OBVIOUS
  <2> HIDE DEF T
  <2>4. T = Nat
    BY <2>1, <2>2, <2>3, Induct
  <2> QED BY <1>2, <2>4 DEF T
<1> DEFINE c == g[Steps].d
           e == UpdateMetaAfter(d)
<1>8. CoversAll(c)
  <2>1. CASE Steps = 0
    <3>1. d.attached = {}
      BY <2>1, StepsFinite, FS_EmptySet DEF Columns, Steps
    <3> QED BY <1>3, <2>1, <3>1 DEF CoversAll
  <2>2. CASE Steps # 0
    <3>1. Chased(g[Steps]) /\ Left(d, g[Steps].todo, Steps) /\ Carries(d, g[Steps])
      BY <1>7, <2>2
    <3>2. g[Steps].todo = {}
      <4>1. PICK L \in SUBSET d.attached :
              g[Steps].todo \subseteq L /\ (L = {} \/ Cardinality(L) + Steps <= Steps)
        BY <3>1 DEF Left
      <4>2. IsFiniteSet(L) /\ Cardinality(L) \in Nat /\ (Cardinality(L) = 0 => L = {})
        <5>1. L \subseteq Step
          BY DEF Columns
        <5>2. IsFiniteSet(L)
          BY <5>1, StepsFinite, FS_Subset
        <5> QED BY <5>2, FS_CardinalityType, FS_EmptySet
      <4> QED BY <1>2, <4>1, <4>2
    <3> QED BY <3>1, <3>2 DEF Chased, CoversAll
  <2> QED BY <2>1, <2>2
<1>9. /\ Shape(c) /\ Columns(c) /\ SameRows(d, c) /\ SameReady(d, c)
      /\ CoversAll(d) => Lowers(d, c)
  BY <1>7 DEF Carries
<1>10. e = [c EXCEPT !.checkAfter = {}]
  BY <1>1
<1> HIDE DEF c, e, T, Reached
<1>11. e = [state |-> c.state, attached |-> c.attached, need |-> c.need, impl |-> c.impl,
            inp |-> c.inp, dyn |-> c.dyn, out |-> c.out, deferred |-> c.deferred,
            hashed |-> c.hashed, count |-> c.count, dur |-> c.dur, tail |-> c.tail,
            checkAfter |-> {}, ready |-> c.ready, checkReady |-> c.checkReady]
  BY <1>9, <1>10 DEF Shape
<1>12. SameRows(c, e) /\ SameReady(c, e) /\ e.impl = c.impl /\ e.checkAfter = {}
  BY <1>11 DEF SameRows, SameReady
<1>13. Shape(e)
  BY <1>11 DEF Shape
<1>14. Columns(e)
  BY <1>9, <1>12 DEF Columns, SameRows, SameReady
<1>15. SameRows(d, e) /\ SameReady(d, e)
  BY <1>9, <1>12 DEF SameRows, SameReady
<1>16. CoversAll(e)
  <2>1. \A s : BaseNeed(e, s) = BaseNeed(c, s) /\ Sinks(e, s) = Sinks(c, s)
    BY <1>12, RowsSame
  <2> QED BY <1>8, <1>12, <2>1 DEF CoversAll, Asked, Over, SameRows
<1>17. CoversAll(d) => Lowers(d, e)
  BY <1>9, <1>12 DEF Lowers
<1> QED BY <1>12, <1>13, <1>14, <1>15, <1>16, <1>17 DEF e

LEMMA MetaUpdated ==
  ASSUME NEW d, Shape(d), Good(d)
  PROVE  LET e == UpdateMeta(d)
         IN /\ Shape(e) /\ Good(e) /\ SameRows(d, e)
            /\ e.checkAfter = {} /\ e.checkReady = {} /\ CoversAll(e)
<1> DEFINE c == UpdateMetaAfter(d)
           e == UpdateMeta(d)
           ready == {s \in Step : IF s \in c.checkReady THEN IsReady(c, s) ELSE s \in c.ready}
<1>1. /\ Shape(c) /\ Columns(c) /\ SameRows(d, c) /\ SameReady(d, c)
      /\ c.checkAfter = {} /\ CoversAll(c)
  BY NeedsUpdated DEF Good, Sound
<1>2. e = [c EXCEPT !.ready = ready, !.checkReady = {}]
  BY DEF UpdateMeta, UpdateMetaReady
<1>3. Exact(d) /\ Sound(d)
  BY DEF Good
<1>4. /\ ready \subseteq Step
      /\ \A s \in Step : s \in ready <=> IF s \in c.checkReady THEN IsReady(c, s) ELSE s \in c.ready
  OBVIOUS
<1> HIDE DEF c, e, ready
<1>5. e = [state |-> c.state, attached |-> c.attached, need |-> c.need, impl |-> c.impl,
           inp |-> c.inp, dyn |-> c.dyn, out |-> c.out, deferred |-> c.deferred,
           hashed |-> c.hashed, count |-> c.count, dur |-> c.dur, tail |-> c.tail,
           checkAfter |-> c.checkAfter, ready |-> ready, checkReady |-> {}]
  BY <1>1, <1>2 DEF Shape
<1>6. Shape(e)
  BY <1>5 DEF Shape
<1>7. /\ SameRows(c, e) /\ SameRows(d, e) /\ e.impl = c.impl
      /\ e.checkAfter = {} /\ e.checkReady = {} /\ e.ready = ready
  BY <1>1, <1>5 DEF SameRows
<1>8. Columns(e)
  BY <1>1, <1>4, <1>7 DEF Columns, SameRows
<1>9. Sound(e)
  BY <1>3, <1>7, RowsSame
<1>10. CoversAll(e)
  <2>1. \A s : BaseNeed(e, s) = BaseNeed(c, s) /\ Sinks(e, s) = Sinks(c, s)
    BY <1>7, RowsSame
  <2> QED BY <1>1, <1>7, <2>1 DEF CoversAll, Asked, Over, SameRows
<1>11. Covers(e)
  BY <1>10 DEF Covers, CoversAll
<1>12. Exact(e)
  <2> SUFFICES ASSUME NEW s \in Step, e.state[s] # "NONE" PROVE s \in ready <=> IsReady(e, s)
    BY <1>7 DEF Exact
  <2>1. (IsReady(e, s) <=> IsReady(c, s)) /\ (IsReady(e, s) <=> IsReady(d, s))
    BY <1>1, <1>7, RowsSame
  <2>2. CASE s \in c.checkReady
    BY <1>4, <2>1, <2>2
  <2>3. CASE s \notin c.checkReady
    <3>1. s \in d.ready <=> IsReady(d, s)
      BY <1>1, <1>3, <1>7, <2>3 DEF Exact, SameReady, SameRows
    <3> QED BY <1>1, <1>4, <2>1, <2>3, <3>1 DEF SameReady
  <2> QED BY <2>2, <2>3
<1> QED BY <1>6, <1>7, <1>8, <1>9, <1>10, <1>11, <1>12 DEF Good, e
-----------------------------------------------------------------------------
(***************************************************************************)
(* Transactions, and what their triggers notice.                           *)
(***************************************************************************)

\* From d to e, an unflagged row that is not new keeps its readiness.
KeepsReady(d, e) ==
  \A s \in Step \ e.checkReady :
    e.state[s] # "NONE" =>
      s \notin d.checkReady /\ d.state[s] # "NONE" /\ (s \in e.ready <=> s \in d.ready)

\* An unflagged attached step was one before, with the same needs.
KeepsNeeds(d, e) ==
  \A s \in e.attached \ e.checkAfter :
    s \in d.attached \ d.checkAfter /\ e.need[s] = d.need[s] /\ e.impl[s] = d.impl[s]

Keeps(d, e) == KeepsReady(d, e) /\ KeepsNeeds(d, e)

LEMMA KeepsTwice ==
  ASSUME NEW d, NEW c, NEW e, Keeps(d, c), Keeps(c, e)
  PROVE  Keeps(d, e)
BY DEF Keeps, KeepsReady, KeepsNeeds

\* What does not set a flag has not changed.
Noticed(d, e, c) ==
  /\ \A s \in Step \ c.checkAfter : Inputs(e, s) = Inputs(d, s)
  /\ \A s \in Step \ c.checkReady :
       /\ e.inp[s] = d.inp[s] /\ e.dyn[s] = d.dyn[s]
       /\ \A f \in Inputs(e, s) : e.out[f] = d.out[f] /\ (f \in e.attached <=> f \in d.attached)

LEMMA CommitFlags ==
  ASSUME NEW d, Columns(d), NEW e, Shape(e), Columns(e)
  PROVE  LET c == Commit(d, e)
         IN /\ Shape(c) /\ Columns(c) /\ SameRows(e, c) /\ Noticed(d, e, c)
            /\ c.impl = e.impl /\ c.ready = e.ready
            /\ e.checkAfter \subseteq c.checkAfter /\ e.checkReady \subseteq c.checkReady
<1> DEFINE rewired == {s \in Step : d.inp[s] # e.inp[s] \/ d.dyn[s] # e.dyn[s]}
           slower == {s \in Step : d.dur[s] # e.dur[s]}
           after == e.checkAfter \cup rewired \cup slower
           ready == e.checkReady \cup rewired \cup Consumers(e, Flipped(d, e))
           c == Commit(d, e)
<1>1. c = [e EXCEPT !.checkAfter = after, !.checkReady = ready]
  BY DEF Commit
<1>2. /\ after \subseteq Step /\ ready \subseteq Step
      /\ e.checkAfter \subseteq after /\ e.checkReady \subseteq ready
  BY DEF Columns, Consumers
<1>3. \A s \in Step \ after : Inputs(e, s) = Inputs(d, s)
  BY DEF Inputs
<1>4. ASSUME NEW s \in Step \ ready
      PROVE  /\ e.inp[s] = d.inp[s] /\ e.dyn[s] = d.dyn[s]
             /\ \A f \in Inputs(e, s) : e.out[f] = d.out[f] /\ (f \in e.attached <=> f \in d.attached)
  <2>1. e.inp[s] = d.inp[s] /\ e.dyn[s] = d.dyn[s] /\ s \notin Consumers(e, Flipped(d, e))
    OBVIOUS
  <2>2. Inputs(e, s) \cap Flipped(d, e) = {} /\ Inputs(e, s) \subseteq Step
    BY <2>1 DEF Consumers, Inputs, Columns
  <2>3. ASSUME NEW f \in Inputs(e, s)
        PROVE  e.out[f] = d.out[f] /\ (f \in e.attached <=> f \in d.attached)
    BY <2>2 DEF Flipped
  <2> QED BY <2>1, <2>3
<1> HIDE DEF after, ready, c
<1>5. c = [state |-> e.state, attached |-> e.attached, need |-> e.need, impl |-> e.impl,
           inp |-> e.inp, dyn |-> e.dyn, out |-> e.out, deferred |-> e.deferred,
           hashed |-> e.hashed, count |-> e.count, dur |-> e.dur, tail |-> e.tail,
           checkAfter |-> after, ready |-> e.ready, checkReady |-> ready]
  BY <1>1 DEF Shape
<1>6. /\ SameRows(e, c) /\ c.impl = e.impl /\ c.ready = e.ready
      /\ c.checkAfter = after /\ c.checkReady = ready
  BY <1>5 DEF SameRows
<1>7. Shape(c)
  BY <1>5 DEF Shape
<1>8. Columns(c)
  BY <1>2, <1>6 DEF Columns, SameRows
<1>9. Noticed(d, e, c)
  BY <1>3, <1>4, <1>6 DEF Noticed
<1> QED BY <1>2, <1>6, <1>7, <1>8, <1>9 DEF c

LEMMA Committed ==
  ASSUME NEW d, Good(d), NEW e, Shape(e), Columns(e), Sound(e), Keeps(d, e)
  PROVE  LET c == Commit(d, e)
         IN Shape(c) /\ Good(c) /\ SameRows(e, c) /\ c.impl = e.impl /\ Keeps(d, c)
<1> DEFINE c == Commit(d, e)
<1>1. /\ Shape(c) /\ Columns(c) /\ SameRows(e, c) /\ Noticed(d, e, c)
      /\ c.impl = e.impl /\ c.ready = e.ready
      /\ e.checkAfter \subseteq c.checkAfter /\ e.checkReady \subseteq c.checkReady
  BY CommitFlags DEF Good
<1> HIDE DEF c
<1>2. Sound(c)
  BY <1>1, RowsSame
<1>3. Keeps(d, c)
  BY <1>1 DEF Keeps, KeepsReady, KeepsNeeds, SameRows
<1>4. ASSUME NEW s \in Step \ c.checkReady, c.state[s] # "NONE"
      PROVE  s \in c.ready <=> IsReady(c, s)
  <2>1. s \notin d.checkReady /\ d.state[s] # "NONE" /\ (s \in c.ready <=> s \in d.ready)
    BY <1>3, <1>4 DEF Keeps, KeepsReady
  <2>2. s \in d.ready <=> IsReady(d, s)
    BY <2>1 DEF Good, Exact
  <2>3. /\ Inputs(c, s) = Inputs(d, s)
        /\ \A f \in Inputs(d, s) : Blocks(c, f, s) <=> Blocks(d, f, s)
    <3>1. /\ c.inp[s] = d.inp[s] /\ c.dyn[s] = d.dyn[s]
          /\ \A f \in Inputs(c, s) : c.out[f] = d.out[f] /\ (f \in c.attached <=> f \in d.attached)
      BY <1>1 DEF Noticed, SameRows, Inputs
    <3> QED BY <3>1 DEF Inputs, Blocks
  <2> QED BY <2>1, <2>2, <2>3 DEF IsReady
<1>5. ASSUME NEW s \in c.attached \ c.checkAfter
      PROVE  Asked(c, s) /\ \A t \in Sinks(c, s) \ c.checkAfter : Over(c, s, t)
  <2>1. \A m \in c.attached \ c.checkAfter :
          m \in d.attached \ d.checkAfter /\ c.need[m] = d.need[m] /\ c.impl[m] = d.impl[m]
    BY <1>3 DEF Keeps, KeepsNeeds
  <2>2. Asked(d, s) /\ \A t \in Sinks(d, s) \ d.checkAfter : Over(d, s, t)
    BY <2>1 DEF Good, Covers
  <2>3. Asked(c, s)
    BY <2>1, <2>2 DEF Asked, BaseNeed
  <2>4. ASSUME NEW t \in Sinks(c, s) \ c.checkAfter PROVE Over(c, s, t)
    <3>1. t \in c.attached \ c.checkAfter /\ t \in Step /\ s \in Inputs(c, t)
      BY DEF Sinks, Consumers
    <3>2. Inputs(c, t) = Inputs(d, t)
      BY <1>1, <3>1 DEF Noticed, SameRows, Inputs
    <3>3. t \in Sinks(d, s) \ d.checkAfter
      BY <2>1, <3>1, <3>2 DEF Sinks, Consumers
    <3> QED BY <2>1, <2>2, <3>1, <3>3 DEF Over
  <2> QED BY <2>3, <2>4
<1>6. Exact(c) /\ Covers(c)
  BY <1>4, <1>5 DEF Exact, Covers
<1> QED BY <1>1, <1>2, <1>3, <1>6 DEF Good, c

-----------------------------------------------------------------------------
(***************************************************************************)
(* Workflow.mark_step_pending and mark_file_outdated.                      *)
(***************************************************************************)

\* Only the states, the outputs, the deferred steps and the like differ.
SameBase(d, e) ==
  /\ e.attached = d.attached /\ e.need = d.need /\ e.impl = d.impl
  /\ e.inp = d.inp /\ e.dyn = d.dyn
  /\ e.checkAfter = d.checkAfter /\ e.ready = d.ready /\ e.checkReady = d.checkReady

SameNone(d, e) == \A s \in Step : e.state[s] = "NONE" <=> d.state[s] = "NONE"

LEMMA BaseKeeps ==
  ASSUME NEW d, NEW e, Columns(d), SameBase(d, e), SameNone(d, e)
  PROVE  /\ Keeps(d, e)
         /\ EdgesDeclared(d) => EdgesDeclared(e)
         /\ (/\ e.state \in [Step -> State] /\ e.out \in [Step -> OutState]
             /\ e.deferred \subseteq Step /\ e.count \in [Step -> Nat]) => Columns(e)
<1>1. Keeps(d, e)
  BY DEF Keeps, KeepsReady, KeepsNeeds, SameBase, SameNone
<1>2. EdgesDeclared(d) => EdgesDeclared(e)
  BY DEF SameBase, EdgesDeclared
<1>3. (/\ e.state \in [Step -> State] /\ e.out \in [Step -> OutState]
       /\ e.deferred \subseteq Step /\ e.count \in [Step -> Nat]) => Columns(e)
  BY DEF SameBase, Columns
<1> QED BY <1>1, <1>2, <1>3

LEMMA MarkedSteps ==
  ASSUME NEW d, Columns(d), RowsExist(d), NEW S \in SUBSET Step, \A s \in S : d.state[s] # "NONE"
  PROVE  /\ Marked(d, S) \subseteq Step \ Busy(d)
         /\ S \ Busy(d) \subseteq Marked(d, S)
         /\ \A s \in Marked(d, S) : d.state[s] # "NONE"
<1> DEFINE idle == Step \ Busy(d)
           IsClosed(T) == /\ S \cap idle \subseteq T
                          /\ Consumers(d, T \cap Completed(d) \cap Built(d)) \cap idle \subseteq T
           rows == {s \in idle : d.state[s] # "NONE"}
           M == Marked(d, S)
<1>1. M = {s \in idle : \A T \in {U \in SUBSET idle : IsClosed(U)} : s \in T}
  BY DEF Marked
<1>2. IsClosed(rows)
  <2>1. ASSUME NEW F, NEW t \in Consumers(d, F) PROVE d.state[t] # "NONE"
    BY DEF Consumers, RowsExist, Inputs
  <2>2. S \cap idle \subseteq rows
    OBVIOUS
  <2>3. Consumers(d, rows \cap Completed(d) \cap Built(d)) \cap idle \subseteq rows
    <3> DEFINE F == rows \cap Completed(d) \cap Built(d)
    <3> HIDE DEF F
    <3>1. Consumers(d, F) \cap idle \subseteq rows
      BY <2>1
    <3> QED BY <3>1 DEF F
  <2> QED BY <2>2, <2>3
<1>3. \A T : IsClosed(T) => S \cap idle \subseteq T
  OBVIOUS
<1> HIDE DEF IsClosed, M
<1>4. rows \in {U \in SUBSET idle : IsClosed(U)}
  BY <1>2
<1>5. M \subseteq rows
  BY <1>1, <1>4
<1>6. S \cap idle \subseteq M
  BY <1>1, <1>3
<1> QED BY <1>5, <1>6 DEF M

\* What is marked may be stale in S before.
SoundBut(d, S) ==
  /\ RowsExist(d) /\ EdgesDeclared(d)
  /\ \A s \in d.deferred : d.state[s] = "PENDING" /\ (s \in S \/ \E f \in d.dyn[s] : d.out[f] # "BUILT")
  /\ \A s \in Step \ S : d.state[s] = "SUCCEEDED" => d.out[s] = "BUILT"

LEMMA MarkPendingKeeps ==
  ASSUME NEW d, Shape(d), Columns(d), NEW S \in SUBSET Step, SoundBut(d, S),
         \A s \in S : d.state[s] # "NONE"
  PROVE  LET e == MarkPending(d, S)
         IN /\ Shape(e) /\ Columns(e) /\ Sound(e) /\ Keeps(d, e) /\ Busy(e) = Busy(d)
            /\ SameBase(d, e) /\ SameNone(d, e)
            /\ \A s \in Busy(d) : e.state[s] = d.state[s] /\ e.out[s] = d.out[s]
            /\ e.deferred \subseteq d.deferred
<1> DEFINE M == Marked(d, S)
           F == M \cap Completed(d) \cap Built(d)
           state == [s \in Step |-> IF s \in M THEN "PENDING" ELSE d.state[s]]
           out == [f \in Step |-> IF f \in F THEN "OUTDATED" ELSE d.out[f]]
           deferred == d.deferred \ M
           e == MarkPending(d, S)
<1>1. e = [d EXCEPT !.state = state, !.out = out, !.deferred = deferred]
  BY DEF MarkPending, Set, SetOut, Shape
<1>2. M \subseteq Step \ Busy(d) /\ S \ Busy(d) \subseteq M /\ \A s \in M : d.state[s] # "NONE"
  BY MarkedSteps DEF SoundBut
<1>3. \A s \in F : s \in M /\ d.out[s] = "BUILT" /\ d.state[s] \in {"SUCCEEDED", "FAILED"}
  BY DEF Completed, Built
<1> HIDE DEF M, F
<1>4. /\ \A s \in Step : state[s] = IF s \in M THEN "PENDING" ELSE d.state[s]
      /\ \A s \in Step : out[s] = IF s \in F THEN "OUTDATED" ELSE d.out[s]
  OBVIOUS
<1>5. /\ state \in [Step -> State] /\ out \in [Step -> OutState]
      /\ deferred \subseteq Step /\ d.count \in [Step -> Nat]
  BY DEF Columns, State, OutState
<1>6. \A s : s \in deferred <=> s \in d.deferred /\ s \notin M
  OBVIOUS
<1> HIDE DEF state, out, deferred, e
<1>7. e = [state |-> state, attached |-> d.attached, need |-> d.need, impl |-> d.impl,
           inp |-> d.inp, dyn |-> d.dyn, out |-> out, deferred |-> deferred,
           hashed |-> d.hashed, count |-> d.count, dur |-> d.dur, tail |-> d.tail,
           checkAfter |-> d.checkAfter, ready |-> d.ready, checkReady |-> d.checkReady]
  BY <1>1 DEF Shape
<1>8. Shape(e)
  BY <1>7 DEF Shape
<1>9. /\ SameBase(d, e) /\ e.state = state /\ e.out = out /\ e.deferred = deferred
      /\ e.count = d.count
  BY <1>7 DEF SameBase
<1>10. SameNone(d, e)
  BY <1>2, <1>4, <1>9 DEF SameNone
<1>11. Keeps(d, e) /\ Columns(e) /\ EdgesDeclared(e)
  BY <1>5, <1>9, <1>10, BaseKeeps DEF SoundBut
<1>12. RowsExist(e)
  <2> SUFFICES ASSUME NEW s \in Step
               PROVE  /\ e.state[s] = "NONE" <=> e.out[s] = "UNDECLARED"
                      /\ e.state[s] = "NONE" => s \notin e.attached /\ e.inp[s] = {} /\ e.dyn[s] = {}
    BY DEF RowsExist
  <2>1. e.state[s] = "NONE" <=> d.state[s] = "NONE"
    BY <1>10 DEF SameNone
  <2>2. s \in F => e.out[s] = "OUTDATED" /\ d.out[s] # "UNDECLARED"
    BY <1>3, <1>4, <1>9
  <2>3. s \notin F => e.out[s] = d.out[s]
    BY <1>4, <1>9
  <2> QED BY <1>9, <2>1, <2>2, <2>3 DEF SoundBut, RowsExist, SameBase
<1>13. DeferredWaits(e)
  <2> SUFFICES ASSUME NEW s \in e.deferred
               PROVE  e.state[s] = "PENDING" /\ \E f \in e.dyn[s] : e.out[f] # "BUILT"
    BY DEF DeferredWaits
  <2>1. s \in d.deferred /\ s \notin M /\ s \in Step /\ d.state[s] = "PENDING"
    BY <1>6, <1>9 DEF SoundBut, Columns
  <2>2. s \notin S
    BY <1>2, <2>1 DEF Busy
  <2>3. PICK f \in d.dyn[s] : d.out[f] # "BUILT"
    BY <2>1, <2>2 DEF SoundBut
  <2>4. f \in Step
    BY <2>1 DEF Columns
  <2>5. e.out[f] # "BUILT"
    BY <1>4, <1>9, <2>3, <2>4
  <2> QED BY <1>4, <1>9, <2>1, <2>3, <2>5 DEF SameBase
<1>14. SucceededBuilt(e)
  <2> SUFFICES ASSUME NEW s \in Step, e.state[s] = "SUCCEEDED" PROVE e.out[s] = "BUILT"
    BY DEF SucceededBuilt
  <2>1. s \notin M /\ d.state[s] = "SUCCEEDED"
    BY <1>4, <1>9
  <2>2. s \notin S
    BY <1>2, <2>1 DEF Busy
  <2> QED BY <1>3, <1>4, <1>9, <2>1, <2>2 DEF SoundBut
<1>15. ASSUME NEW s \in Busy(d) PROVE e.state[s] = d.state[s] /\ e.out[s] = d.out[s]
  <2>1. s \in Step /\ s \notin M
    BY <1>2 DEF Busy
  <2> QED BY <1>3, <1>4, <1>9, <2>1
<1>16. Busy(e) = Busy(d)
  BY <1>2, <1>4, <1>9 DEF Busy
<1>17. e.deferred \subseteq d.deferred
  BY <1>6, <1>9
<1> QED BY <1>8, <1>9, <1>10, <1>11, <1>12, <1>13, <1>14, <1>15, <1>16, <1>17 DEF Sound, e

LEMMA SetOutFields ==
  ASSUME NEW d, Shape(d), Columns(d), NEW F \in SUBSET Step, NEW st \in OutState
  PROVE  LET e == SetOut(d, F, st)
         IN /\ Shape(e) /\ Columns(e) /\ SameBase(d, e) /\ Keeps(d, e)
            /\ e.state = d.state /\ e.deferred = d.deferred
            /\ e.hashed = d.hashed /\ e.count = d.count
            /\ \A f \in Step : e.out[f] = IF f \in F THEN st ELSE d.out[f]
<1> DEFINE out == [f \in Step |-> IF f \in F THEN st ELSE d.out[f]]
           e == SetOut(d, F, st)
<1>1. e = [d EXCEPT !.out = out]
  BY DEF SetOut
<1>2. out \in [Step -> OutState] /\ \A f \in Step : out[f] = IF f \in F THEN st ELSE d.out[f]
  BY DEF Columns
<1> HIDE DEF out, e
<1>3. e = [state |-> d.state, attached |-> d.attached, need |-> d.need, impl |-> d.impl,
           inp |-> d.inp, dyn |-> d.dyn, out |-> out, deferred |-> d.deferred,
           hashed |-> d.hashed, count |-> d.count, dur |-> d.dur, tail |-> d.tail,
           checkAfter |-> d.checkAfter, ready |-> d.ready, checkReady |-> d.checkReady]
  BY <1>1 DEF Shape
<1>4. Shape(e)
  BY <1>3 DEF Shape
<1>5. /\ SameBase(d, e) /\ e.out = out /\ e.state = d.state /\ e.deferred = d.deferred
      /\ e.hashed = d.hashed /\ e.count = d.count
  BY <1>3 DEF SameBase
<1>6. Columns(e)
  BY <1>2, <1>5 DEF Columns, SameBase
<1>7. Keeps(d, e)
  BY <1>5 DEF Keeps, KeepsReady, KeepsNeeds, SameBase
<1> QED BY <1>2, <1>4, <1>5, <1>6, <1>7 DEF e

LEMMA SetFields ==
  ASSUME NEW d, Shape(d), Columns(d), NEW S \in SUBSET Step, NEW st \in State
  PROVE  LET e == Set(d, S, st)
         IN /\ Shape(e) /\ Columns(e) /\ SameBase(d, e)
            /\ e.out = d.out /\ e.deferred = d.deferred
            /\ e.hashed = d.hashed /\ e.count = d.count
            /\ \A s \in Step : e.state[s] = IF s \in S THEN st ELSE d.state[s]
<1> DEFINE state == [s \in Step |-> IF s \in S THEN st ELSE d.state[s]]
           e == Set(d, S, st)
<1>1. e = [d EXCEPT !.state = state]
  BY DEF Set
<1>2. state \in [Step -> State] /\ \A s \in Step : state[s] = IF s \in S THEN st ELSE d.state[s]
  BY DEF Columns
<1> HIDE DEF state, e
<1>3. e = [state |-> state, attached |-> d.attached, need |-> d.need, impl |-> d.impl,
           inp |-> d.inp, dyn |-> d.dyn, out |-> d.out, deferred |-> d.deferred,
           hashed |-> d.hashed, count |-> d.count, dur |-> d.dur, tail |-> d.tail,
           checkAfter |-> d.checkAfter, ready |-> d.ready, checkReady |-> d.checkReady]
  BY <1>1 DEF Shape
<1>4. Shape(e)
  BY <1>3 DEF Shape
<1>5. /\ SameBase(d, e) /\ e.state = state /\ e.out = d.out /\ e.deferred = d.deferred
      /\ e.hashed = d.hashed /\ e.count = d.count
  BY <1>3 DEF SameBase
<1>6. Columns(e)
  BY <1>2, <1>5 DEF Columns, SameBase
<1> QED BY <1>2, <1>4, <1>5, <1>6 DEF e

\* Files that no SUCCEEDED step has made are outdated.
LEMMA MarkOutdatedKeeps ==
  ASSUME NEW d, Shape(d), Columns(d), Sound(d), NEW F \in SUBSET Step,
         \A f \in F : d.state[f] # "SUCCEEDED"
  PROVE  LET e == MarkOutdated(d, F)
         IN /\ Shape(e) /\ Columns(e) /\ Sound(e) /\ Keeps(d, e) /\ Busy(e) = Busy(d)
            /\ SameBase(d, e) /\ SameNone(d, e)
            /\ \A s \in Busy(d) : e.state[s] = d.state[s]
            /\ e.deferred \subseteq d.deferred
<1> DEFINE built == F \cap Built(d)
           outdated == "OUTDATED"
           c == SetOut(d, built, outdated)
           S == Consumers(d, built)
           e == MarkOutdated(d, F)
<1>1. e = MarkPending(c, S)
  BY DEF MarkOutdated
<1>2. built \in SUBSET Step /\ S \in SUBSET Step /\ outdated \in OutState
  BY DEF Consumers, OutState
<1>3. \A f \in built : d.state[f] # "SUCCEEDED" /\ d.out[f] = "BUILT"
  BY DEF Built
<1>4. \A s \in S : d.state[s] # "NONE"
  BY DEF Consumers, Inputs, Sound, RowsExist
<1>5. outdated = "OUTDATED"
  OBVIOUS
<1> HIDE DEF built, S, e, outdated
<1>6. /\ Shape(c) /\ Columns(c) /\ SameBase(d, c) /\ Keeps(d, c)
      /\ c.state = d.state /\ c.deferred = d.deferred
      /\ \A f \in Step : c.out[f] = IF f \in built THEN outdated ELSE d.out[f]
  BY <1>2, SetOutFields
<1> HIDE DEF c
<1>7. SoundBut(c, S)
  <2>1. RowsExist(c)
    <3> SUFFICES ASSUME NEW s \in Step
                 PROVE  /\ c.state[s] = "NONE" <=> c.out[s] = "UNDECLARED"
                        /\ c.state[s] = "NONE" => s \notin c.attached /\ c.inp[s] = {} /\ c.dyn[s] = {}
      BY DEF RowsExist
    <3>1. s \in built => c.out[s] = "OUTDATED" /\ d.out[s] # "UNDECLARED"
      BY <1>3, <1>6, <1>5
    <3>2. s \notin built => c.out[s] = d.out[s]
      BY <1>6
    <3> QED BY <1>6, <3>1, <3>2 DEF Sound, RowsExist, SameBase
  <2>2. EdgesDeclared(c)
    BY <1>6 DEF Sound, EdgesDeclared, SameBase
  <2>3. ASSUME NEW s \in c.deferred
        PROVE  c.state[s] = "PENDING" /\ \E f \in c.dyn[s] : c.out[f] # "BUILT"
    <3>1. s \in d.deferred /\ s \in Step
      BY <1>6 DEF Columns
    <3>2. PICK f \in d.dyn[s] : d.out[f] # "BUILT"
      BY <3>1 DEF Sound, DeferredWaits
    <3>3. f \in Step
      BY <3>1 DEF Columns
    <3>4. c.out[f] # "BUILT"
      BY <1>6, <1>5, <3>2, <3>3
    <3> QED BY <1>6, <3>1, <3>2, <3>4 DEF Sound, DeferredWaits, SameBase
  <2>4. \A s \in Step : c.state[s] = "SUCCEEDED" => c.out[s] = "BUILT"
    BY <1>3, <1>6 DEF Sound, SucceededBuilt
  <2> QED BY <2>1, <2>2, <2>3, <2>4 DEF SoundBut
<1>8. \A s \in S : c.state[s] # "NONE"
  BY <1>4, <1>6
<1>9. /\ Shape(e) /\ Columns(e) /\ Sound(e) /\ Keeps(c, e) /\ Busy(e) = Busy(c)
      /\ SameBase(c, e) /\ SameNone(c, e)
      /\ \A s \in Busy(c) : e.state[s] = c.state[s]
      /\ e.deferred \subseteq c.deferred
  BY <1>1, <1>2, <1>6, <1>7, <1>8, MarkPendingKeeps
<1>10. Keeps(d, e)
  BY <1>6, <1>9, KeepsTwice
<1>11. Busy(c) = Busy(d) /\ Busy(e) = Busy(d)
  BY <1>6, <1>9 DEF Busy
<1>12. SameBase(d, e) /\ SameNone(d, e)
  BY <1>6, <1>9 DEF SameBase, SameNone
<1> QED BY <1>6, <1>9, <1>10, <1>11, <1>12 DEF e

-----------------------------------------------------------------------------
(***************************************************************************)
(* Every step keeps Core, and all but the end of a build lead out of the   *)
(* time right after a build.                                               *)
(***************************************************************************)
BuildMode == mode \notin {"clean", "unclean"}

LEMMA Written ==
  ASSUME NEW c, Shape(c), Good(c), db' = c, targets' = targets
  PROVE  Shape(db)' /\ Good(db)'
<1>1. Shape(db)'
  BY DEF Shape
<1>2. Columns(db)' /\ Sound(db)' /\ Exact(db)'
  BY DEF Good, Columns, Sound, RowsExist, EdgesDeclared, DeferredWaits, SucceededBuilt, Exact,
         IsReady, Inputs, Blocks
<1>3. Covers(db)'
  BY DEF Good, Covers, Asked, Over, BaseNeed, Sinks, Consumers, Inputs
<1> QED BY <1>1, <1>2, <1>3 DEF Good

\* The jobs agree with the rows of d.
JobsOf(d) ==
  /\ \A s \in Step : run'[s] # "none" <=> s \in Busy(d)
  /\ mode' # "build" => Busy(d) = {}

LEMMA Transaction ==
  ASSUME Core, NEW d, Shape(d), Columns(d), Sound(d), Keeps(db, d),
         db' = Commit(db, d), targets' = targets, Memory', JobsOf(d)
  PROVE  Core'
<1> DEFINE c == Commit(db, d)
<1>1. Shape(c) /\ Good(c) /\ SameRows(d, c)
  BY Committed DEF Core
<1>2. db' = c
  OBVIOUS
<1> HIDE DEF c
<1>3. Shape(db)' /\ Good(db)'
  BY <1>1, <1>2, Written
<1>4. Busy(db)' = Busy(d)
  BY <1>1, <1>2 DEF Busy, SameRows
<1>5. Jobs'
  BY <1>4 DEF Jobs, JobsOf
<1> QED BY <1>3, <1>5 DEF Core

\* s goes on to w with the job of its own, or ends it.
LEMMA JobMoves ==
  ASSUME Core, NEW s \in Step, run[s] # "none",
         NEW w \in {"none", "begun", "amended", "waits"},
         NEW d, Shape(d), Columns(d), Sound(d), Keeps(db, d),
         Busy(d) = IF w = "none" THEN Busy(db) \ {s} ELSE Busy(db),
         db' = Commit(db, d), run' = [run EXCEPT ![s] = w], KeepUser
  PROVE  Core' /\ BuildMode'
<1>1. mode = "build" /\ mode' = mode /\ targets' = targets /\ s \in Busy(db)
  BY DEF Core, Jobs, KeepUser
<1>2. Memory'
  BY <1>1 DEF Core, Memory
<1>3. \A t \in Step : run'[t] = IF t = s THEN w ELSE run[t]
  BY DEF Core, Memory
<1>4. JobsOf(d)
  BY <1>1, <1>3 DEF Core, Jobs, JobsOf
<1>5. Core'
  BY <1>1, <1>2, <1>4, Transaction
<1> QED BY <1>1, <1>5 DEF BuildMode

LEMMA Detached ==
  ASSUME NEW d, Shape(d), Columns(d), Sound(d)
  PROVE  LET e == DetachAll(d)
         IN Shape(e) /\ Columns(e) /\ Sound(e) /\ Keeps(d, e) /\ Busy(e) = Busy(d)
<1> DEFINE e == DetachAll(d)
           after == d.checkAfter \cup d.attached
<1>1. e = [d EXCEPT !.attached = {}, !.checkAfter = after]
  BY DEF DetachAll
<1>2. after \subseteq Step
  BY DEF Columns
<1> HIDE DEF e, after
<1>3. e = [state |-> d.state, attached |-> {}, need |-> d.need, impl |-> d.impl,
           inp |-> d.inp, dyn |-> d.dyn, out |-> d.out, deferred |-> d.deferred,
           hashed |-> d.hashed, count |-> d.count, dur |-> d.dur, tail |-> d.tail,
           checkAfter |-> after, ready |-> d.ready, checkReady |-> d.checkReady]
  BY <1>1 DEF Shape
<1>4. Shape(e)
  BY <1>3 DEF Shape
<1>5. /\ e.state = d.state /\ e.attached = {} /\ e.need = d.need /\ e.impl = d.impl
      /\ e.inp = d.inp /\ e.dyn = d.dyn /\ e.out = d.out /\ e.deferred = d.deferred
      /\ e.count = d.count /\ e.checkAfter = after /\ e.ready = d.ready
      /\ e.checkReady = d.checkReady
  BY <1>3
<1>6. Columns(e)
  BY <1>2, <1>5 DEF Columns
<1>7. Sound(e)
  BY <1>5 DEF Sound, RowsExist, EdgesDeclared, DeferredWaits, SucceededBuilt
<1>8. Keeps(d, e)
  BY <1>5 DEF Keeps, KeepsReady, KeepsNeeds
<1>9. Busy(e) = Busy(d)
  BY <1>5 DEF Busy
<1> QED BY <1>4, <1>6, <1>7, <1>8, <1>9 DEF e

\* All steps are detached, or nothing but flags changes.
LEMMA PlanMoves ==
  ASSUME Core, mode = "build", KeepRun, KeepUser,
         db' = Commit(db, DetachAll(db)) \/ UNCHANGED db \/ db' = UpdateMeta(db)
  PROVE  Core' /\ BuildMode'
<1>1. mode' = mode /\ targets' = targets /\ run' = run
  BY DEF KeepUser, KeepRun
<1>2. Memory' /\ BuildMode'
  BY <1>1 DEF Core, Memory, BuildMode
<1>3. Shape(db) /\ Good(db) /\ Columns(db) /\ Sound(db)
  BY DEF Core, Good
<1>4. CASE db' = Commit(db, DetachAll(db))
  <2> DEFINE d == DetachAll(db)
  <2>1. Shape(d) /\ Columns(d) /\ Sound(d) /\ Keeps(db, d) /\ Busy(d) = Busy(db)
    BY <1>3, Detached
  <2>2. db' = Commit(db, d)
    BY <1>4
  <2> HIDE DEF d
  <2>3. JobsOf(d)
    BY <1>1, <2>1 DEF Core, Jobs, JobsOf
  <2>4. Core'
    BY <1>1, <1>2, <2>1, <2>2, <2>3, Transaction
  <2> QED BY <1>2, <2>4
<1>5. CASE UNCHANGED db
  <2>1. Shape(db)' /\ Good(db)'
    <3> DEFINE c == db
    <3>1. db' = c /\ Shape(c) /\ Good(c)
      BY <1>3, <1>5
    <3> HIDE DEF c
    <3> QED BY <1>1, <3>1, Written
  <2>2. Jobs'
    BY <1>1, <1>5 DEF Core, Jobs, Busy
  <2> QED BY <1>2, <2>1, <2>2 DEF Core
<1>6. CASE db' = UpdateMeta(db)
  <2> DEFINE c == UpdateMeta(db)
  <2>1. Shape(c) /\ Good(c) /\ SameRows(db, c)
    BY <1>3, MetaUpdated
  <2>2. db' = c
    BY <1>6
  <2> HIDE DEF c
  <2>3. Shape(db)' /\ Good(db)'
    BY <1>1, <2>1, <2>2, Written
  <2>4. Jobs'
    BY <1>1, <2>1, <2>2 DEF Core, Jobs, Busy, SameRows
  <2> QED BY <1>2, <2>3, <2>4 DEF Core
<1> QED BY <1>4, <1>5, <1>6

LEMMA PopPlanKeeps ==
  ASSUME Core, PopPlan PROVE Core' /\ BuildMode'
BY PlanMoves DEF PopPlan

LEMMA BeginPlanKeeps ==
  ASSUME Core, BeginPlan PROVE Core' /\ BuildMode'
BY PlanMoves DEF BeginPlan

LEMMA EndPlanKeeps ==
  ASSUME Core, EndPlan PROVE Core' /\ BuildMode'
BY PlanMoves DEF EndPlan

-----------------------------------------------------------------------------
(***************************************************************************)
(* Jobs.                                                                   *)
(***************************************************************************)
IsRow(d, e, state, out, hashed, count, deferred) ==
  e = [state |-> state, attached |-> d.attached, need |-> d.need, impl |-> d.impl,
       inp |-> d.inp, dyn |-> d.dyn, out |-> out, deferred |-> deferred,
       hashed |-> hashed, count |-> count, dur |-> d.dur, tail |-> d.tail,
       checkAfter |-> d.checkAfter, ready |-> d.ready, checkReady |-> d.checkReady]

LEMMA RowFields ==
  ASSUME NEW d, Columns(d), NEW state \in [Step -> State], NEW out \in [Step -> OutState],
         NEW hashed, NEW count \in [Step -> Nat], NEW deferred \in SUBSET Step,
         NEW e, IsRow(d, e, state, out, hashed, count, deferred)
  PROVE  /\ Shape(e) /\ Columns(e) /\ SameBase(d, e)
         /\ e.state = state /\ e.out = out /\ e.deferred = deferred
<1>1. Shape(e)
  BY DEF IsRow, Shape
<1>2. /\ SameBase(d, e) /\ e.state = state /\ e.out = out /\ e.deferred = deferred
      /\ e.count = count
  BY DEF IsRow, SameBase
<1>3. Columns(e)
  BY <1>2 DEF Columns, SameBase
<1> QED BY <1>1, <1>2, <1>3

\* From d to e, the busy step s gets the state st and maybe another output.
RowEnds(d, e, s, st) ==
  /\ SameBase(d, e)
  /\ \A t \in Step : e.state[t] = IF t = s THEN st ELSE d.state[t]
  /\ \A t \in Step : t # s => e.out[t] = d.out[t]
  /\ e.out[s] # "UNDECLARED" /\ (st = "SUCCEEDED" => e.out[s] = "BUILT")
  /\ \A t \in e.deferred :
       \/ t \in d.deferred /\ t # s
       \/ t = s /\ st = "PENDING" /\ \E f \in d.dyn[s] : d.out[f] # "BUILT"

\* Who uses the output of s is in S when it is new.
NewsIn(d, e, s, S) == e.out[s] = "BUILT" => d.out[s] = "BUILT" \/ Consumers(d, {s}) \subseteq S

LEMMA RowEndsKeeps ==
  ASSUME NEW d, Columns(d), Sound(d), NEW s \in Busy(d), NEW st \in {"PENDING", "SUCCEEDED", "FAILED"},
         NEW e, Columns(e), RowEnds(d, e, s, st),
         NEW S \in SUBSET Step, NewsIn(d, e, s, S)
  PROVE  SoundBut(e, S) /\ Keeps(d, e) /\ Busy(e) = Busy(d) \ {s} /\ SameNone(d, e)
<1>1. s \in Step /\ d.state[s] \in {"CHECKING", "RUNNING"}
  BY DEF Busy
<1>2. /\ SameBase(d, e)
      /\ \A t \in Step : e.state[t] = IF t = s THEN st ELSE d.state[t]
      /\ \A t \in Step : t # s => e.out[t] = d.out[t]
      /\ e.out[s] # "UNDECLARED" /\ (st = "SUCCEEDED" => e.out[s] = "BUILT")
  BY DEF RowEnds
<1>3. SameNone(d, e)
  BY <1>1, <1>2 DEF SameNone
<1>4. Keeps(d, e) /\ EdgesDeclared(e)
  BY <1>2, <1>3, BaseKeeps DEF Sound
<1>5. Busy(e) = Busy(d) \ {s}
  BY <1>1, <1>2 DEF Busy
<1>6. RowsExist(e)
  <2> SUFFICES ASSUME NEW t \in Step
               PROVE  /\ e.state[t] = "NONE" <=> e.out[t] = "UNDECLARED"
                      /\ e.state[t] = "NONE" => t \notin e.attached /\ e.inp[t] = {} /\ e.dyn[t] = {}
    BY DEF RowsExist
  <2>1. e.state[t] = "NONE" <=> d.state[t] = "NONE"
    BY <1>3 DEF SameNone
  <2> QED BY <1>1, <1>2, <2>1 DEF Sound, RowsExist, SameBase
<1>7. ASSUME NEW t \in e.deferred
      PROVE  e.state[t] = "PENDING" /\ (t \in S \/ \E f \in e.dyn[t] : e.out[f] # "BUILT")
  <2>1. t \in Step /\ (t # s => t \in d.deferred) /\ (t = s => st = "PENDING")
    BY DEF RowEnds, Columns
  <2>2. \E f \in d.dyn[t] : d.out[f] # "BUILT"
    BY <2>1 DEF RowEnds, Sound, DeferredWaits
  <2>3. PICK f \in d.dyn[t] : d.out[f] # "BUILT"
    BY <2>2
  <2>4. f \in Step
    BY <2>1 DEF Columns
  <2>5. f \in e.dyn[t]
    BY <1>2 DEF SameBase
  <2>6. e.state[t] = "PENDING"
    BY <1>2, <2>1 DEF Sound, DeferredWaits
  <2>7. CASE e.out[f] # "BUILT"
    BY <2>5, <2>6, <2>7
  <2>8. CASE e.out[f] = "BUILT"
    <3>1. f = s /\ d.out[s] # "BUILT"
      BY <1>2, <2>3, <2>4, <2>8
    <3>2. t \in Consumers(d, {s})
      BY <2>1, <2>3, <3>1 DEF Consumers, Inputs
    <3> QED BY <2>6, <2>8, <3>1, <3>2 DEF NewsIn
  <2> QED BY <2>7, <2>8
<1>8. \A t \in Step : e.state[t] = "SUCCEEDED" => e.out[t] = "BUILT"
  BY <1>2 DEF Sound, SucceededBuilt
<1> QED BY <1>3, <1>4, <1>5, <1>6, <1>7, <1>8 DEF SoundBut

LEMMA NothingStale ==
  ASSUME NEW d, SoundBut(d, {}) PROVE Sound(d)
BY DEF SoundBut, Sound, DeferredWaits, SucceededBuilt

\* What a job leaves in the database, with another row for s.
Ends(d, e, s) == Shape(e) /\ Columns(e) /\ Sound(e) /\ Keeps(d, e) /\ Busy(e) = Busy(d) \ {s}

LEMMA SucceededEnds ==
  ASSUME NEW d, Shape(d), Columns(d), Sound(d), NEW s \in Busy(d)
  PROVE  Ends(d, Succeeded(d, s), s)
<1> DEFINE st == "SUCCEEDED"
           none == {}
           state == [t \in Step |-> IF t \in {s} THEN "SUCCEEDED" ELSE d.state[t]]
           out == [t \in Step |-> IF t \in {s} THEN "BUILT" ELSE d.out[t]]
           hashed == d.hashed \cup {s}
           count == [d.count EXCEPT ![s] = 0]
           deferred == d.deferred \ {s}
           done == [Set(d, {s}, "SUCCEEDED") EXCEPT
                      !.hashed = @ \cup {s}, !.count[s] = 0, !.deferred = @ \ {s}]
<1>1. s \in Step /\ none = {} /\ st = "SUCCEEDED"
  BY DEF Busy
<1>2. /\ state \in [Step -> State] /\ out \in [Step -> OutState]
      /\ count \in [Step -> Nat] /\ deferred \in SUBSET Step /\ d.out \in [Step -> OutState]
  BY <1>1 DEF Columns, State, OutState
<1>3. /\ \A t \in Step : state[t] = IF t = s THEN st ELSE d.state[t]
      /\ \A t \in Step : out[t] = IF t = s THEN "BUILT" ELSE d.out[t]
      /\ \A t : t \in deferred <=> t \in d.deferred /\ t # s
  OBVIOUS
<1>4. done = [d EXCEPT !.state = state, !.hashed = hashed, !.count = count, !.deferred = deferred]
  BY DEF Set, Shape
<1>5. SetOut(done, {s}, "BUILT") =
        [d EXCEPT !.state = state, !.out = out, !.hashed = hashed, !.count = count, !.deferred = deferred]
  BY DEF Set, SetOut, Shape
<1> HIDE DEF st, none, state, out, hashed, count, deferred, done
<1>6. CASE d.out[s] = "BUILT"
  <2>1. Succeeded(d, s) = done
    BY <1>6 DEF Succeeded, done
  <2>2. IsRow(d, done, state, d.out, hashed, count, deferred)
    BY <1>4 DEF IsRow, Shape
  <2>3. /\ Shape(done) /\ Columns(done) /\ SameBase(d, done)
        /\ done.state = state /\ done.out = d.out /\ done.deferred = deferred
    BY <1>2, <2>2, RowFields
  <2>4. RowEnds(d, done, s, st)
    BY <1>1, <1>3, <1>6, <2>3 DEF RowEnds
  <2>5. /\ st \in {"PENDING", "SUCCEEDED", "FAILED"} /\ none \in SUBSET Step
        /\ NewsIn(d, done, s, none)
    BY <1>1, <1>6 DEF NewsIn
  <2>6. SoundBut(done, none) /\ Keeps(d, done) /\ Busy(done) = Busy(d) \ {s}
    BY <2>3, <2>4, <2>5, RowEndsKeeps
  <2>7. Sound(done)
    BY <1>1, <2>6, NothingStale
  <2> QED BY <2>1, <2>3, <2>6, <2>7 DEF Ends
<1>7. CASE d.out[s] # "BUILT"
  <2> DEFINE b == SetOut(done, {s}, "BUILT")
             S == Consumers(d, {s})
             e == MarkPending(b, S)
  <2>1. Succeeded(d, s) = e
    BY <1>7 DEF Succeeded, done
  <2>2. b = [d EXCEPT !.state = state, !.out = out, !.hashed = hashed, !.count = count,
                      !.deferred = deferred]
    BY <1>5
  <2>3. S \in SUBSET Step /\ Consumers(d, {s}) = S /\ st \in {"PENDING", "SUCCEEDED", "FAILED"}
    BY <1>1 DEF Consumers
  <2>4. \A t \in S : d.state[t] # "NONE"
    BY DEF Consumers, Inputs, Sound, RowsExist
  <2> HIDE DEF b, S
  <2>5. IsRow(d, b, state, out, hashed, count, deferred)
    BY <2>2 DEF IsRow, Shape
  <2>6. /\ Shape(b) /\ Columns(b) /\ SameBase(d, b)
        /\ b.state = state /\ b.out = out /\ b.deferred = deferred
    BY <1>2, <2>5, RowFields
  <2>7. RowEnds(d, b, s, st)
    BY <1>1, <1>3, <2>6 DEF RowEnds
  <2>12. NewsIn(d, b, s, S)
    BY <2>3 DEF NewsIn
  <2>8. SoundBut(b, S) /\ Keeps(d, b) /\ Busy(b) = Busy(d) \ {s} /\ SameNone(d, b)
    BY <2>3, <2>6, <2>7, <2>12, RowEndsKeeps
  <2>9. \A t \in S : b.state[t] # "NONE"
    BY <2>3, <2>4, <2>8 DEF SameNone
  <2>10. Shape(e) /\ Columns(e) /\ Sound(e) /\ Keeps(b, e) /\ Busy(e) = Busy(b)
    BY <2>3, <2>6, <2>8, <2>9, MarkPendingKeeps
  <2>11. Keeps(d, e)
    BY <2>8, <2>10, KeepsTwice
  <2> QED BY <2>1, <2>8, <2>10, <2>11 DEF Ends
<1> QED BY <1>6, <1>7

\* A job that leaves nothing stale.
LEMMA RowEndsSoundly ==
  ASSUME NEW d, Columns(d), Sound(d), NEW s \in Busy(d), NEW st \in {"PENDING", "SUCCEEDED", "FAILED"},
         NEW e, Shape(e), Columns(e), RowEnds(d, e, s, st), e.out[s] = "BUILT" => d.out[s] = "BUILT"
  PROVE  Ends(d, e, s)
<1> DEFINE none == {}
<1>1. none \in SUBSET Step /\ none = {} /\ NewsIn(d, e, s, none)
  BY DEF NewsIn
<1> HIDE DEF none
<1>2. SoundBut(e, none) /\ Keeps(d, e) /\ Busy(e) = Busy(d) \ {s}
  BY <1>1, RowEndsKeeps
<1>3. Sound(e)
  BY <1>1, <1>2, NothingStale
<1> QED BY <1>2, <1>3 DEF Ends

LEMMA FailedEnds ==
  ASSUME NEW d, Shape(d), Columns(d), Sound(d), NEW s \in Busy(d)
  PROVE  Ends(d, [Set(SetOut(d, {s} \cap Built(d), "OUTDATED"), {s}, "FAILED") EXCEPT
                    !.hashed = @ \ {s}, !.deferred = @ \ {s}], s)
<1> DEFINE st == "FAILED"
           state == [t \in Step |-> IF t \in {s} THEN "FAILED" ELSE d.state[t]]
           out == [t \in Step |-> IF t \in {s} \cap Built(d) THEN "OUTDATED" ELSE d.out[t]]
           hashed == d.hashed \ {s}
           deferred == d.deferred \ {s}
           e == [Set(SetOut(d, {s} \cap Built(d), "OUTDATED"), {s}, "FAILED") EXCEPT
                   !.hashed = @ \ {s}, !.deferred = @ \ {s}]
<1>1. s \in Step /\ st \in {"PENDING", "SUCCEEDED", "FAILED"} /\ st = "FAILED"
  BY DEF Busy
<1>2. /\ state \in [Step -> State] /\ out \in [Step -> OutState]
      /\ d.count \in [Step -> Nat] /\ deferred \in SUBSET Step
  BY <1>1 DEF Columns, State, OutState
<1>3. /\ \A t \in Step : state[t] = IF t = s THEN st ELSE d.state[t]
      /\ \A t \in Step : t # s => out[t] = d.out[t]
      /\ out[s] = IF d.out[s] = "BUILT" THEN "OUTDATED" ELSE d.out[s]
      /\ \A t : t \in deferred <=> t \in d.deferred /\ t # s
  BY <1>1 DEF Built
<1>4. e = [d EXCEPT !.state = state, !.out = out, !.hashed = hashed, !.deferred = deferred]
  BY DEF Set, SetOut, Shape
<1>5. d.out[s] # "UNDECLARED"
  BY DEF Busy, Sound, RowsExist
<1> HIDE DEF st, state, out, hashed, deferred, e
<1>6. IsRow(d, e, state, out, hashed, d.count, deferred)
  BY <1>4 DEF IsRow, Shape
<1>7. /\ Shape(e) /\ Columns(e) /\ SameBase(d, e)
      /\ e.state = state /\ e.out = out /\ e.deferred = deferred
  BY <1>2, <1>6, RowFields
<1>8. RowEnds(d, e, s, st) /\ (e.out[s] = "BUILT" => d.out[s] = "BUILT")
  BY <1>1, <1>3, <1>5, <1>7 DEF RowEnds
<1>9. Ends(d, e, s)
  BY <1>1, <1>7, <1>8, RowEndsSoundly
<1> QED BY <1>9 DEF e

LEMMA DeferredEnds ==
  ASSUME NEW d, Shape(d), Columns(d), Sound(d), NEW s \in Busy(d)
  PROVE  Ends(d, Deferred(d, s), s)
<1> DEFINE again == [SetOut(d, {s} \cap Built(d), "OUTDATED") EXCEPT
                       !.count[s] = @ + 1, !.hashed = @ \ {s}]
           blocked == d.dyn[s] \ Built(d) # {}
           may == again.count[s] <= DeferCap
           st == IF may THEN "PENDING" ELSE "FAILED"
           state == [t \in Step |-> IF t \in {s} THEN st ELSE d.state[t]]
           out == [t \in Step |-> IF t \in {s} \cap Built(d) THEN "OUTDATED" ELSE d.out[t]]
           hashed == d.hashed \ {s}
           count == [d.count EXCEPT ![s] = @ + 1]
           deferred == IF may /\ blocked THEN d.deferred \cup {s} ELSE d.deferred \ {s}
           e == Deferred(d, s)
<1>1. s \in Step /\ st \in {"PENDING", "SUCCEEDED", "FAILED"} /\ (may => st = "PENDING") /\ st # "SUCCEEDED"
  BY DEF Busy
<1>2. /\ state \in [Step -> State] /\ out \in [Step -> OutState]
      /\ count \in [Step -> Nat] /\ deferred \in SUBSET Step
  <2>1. state \in [Step -> State] /\ out \in [Step -> OutState]
    BY <1>1 DEF Columns, State, OutState
  <2>2. count \in [Step -> Nat] /\ deferred \in SUBSET Step
    BY <1>1 DEF Columns
  <2> QED BY <2>1, <2>2
<1>3. /\ \A t \in Step : state[t] = IF t = s THEN st ELSE d.state[t]
      /\ \A t \in Step : t # s => out[t] = d.out[t]
      /\ out[s] = IF d.out[s] = "BUILT" THEN "OUTDATED" ELSE d.out[s]
      /\ \A t \in deferred : (t \in d.deferred /\ t # s) \/ (t = s /\ may /\ blocked)
  <2>1. /\ \A t \in Step : state[t] = IF t = s THEN st ELSE d.state[t]
        /\ \A t \in Step : t # s => out[t] = d.out[t]
        /\ out[s] = IF d.out[s] = "BUILT" THEN "OUTDATED" ELSE d.out[s]
    BY <1>1 DEF Built
  <2>2. s \notin d.deferred
    BY DEF Busy, Sound, DeferredWaits
  <2>3. \A t \in deferred : (t \in d.deferred /\ t # s) \/ (t = s /\ may /\ blocked)
    BY <2>2
  <2> QED BY <2>1, <2>3
<1>4. e = [d EXCEPT !.state = state, !.out = out, !.hashed = hashed, !.count = count,
                    !.deferred = deferred]
  <2>1. again = [d EXCEPT !.out = out, !.count = count, !.hashed = hashed]
    BY DEF SetOut, Shape
  <2>2. e = IF may
            THEN [Set(again, {s}, "PENDING") EXCEPT !.deferred = IF blocked THEN @ \cup {s} ELSE @ \ {s}]
            ELSE [Set(again, {s}, "FAILED") EXCEPT !.deferred = @ \ {s}]
    BY DEF Deferred
  <2> HIDE DEF again, out, count, hashed, blocked, e
  <2>3. CASE may
    <3>1. state = [t \in Step |-> IF t \in {s} THEN "PENDING" ELSE d.state[t]]
      BY <2>3
    <3>2. deferred = IF blocked THEN d.deferred \cup {s} ELSE d.deferred \ {s}
      BY <2>3
    <3>3. e = [Set(again, {s}, "PENDING") EXCEPT !.deferred = IF blocked THEN @ \cup {s} ELSE @ \ {s}]
      BY <2>2, <2>3
    <3> QED BY <2>1, <3>1, <3>2, <3>3 DEF Set, Shape
  <2>4. CASE ~may
    <3>1. state = [t \in Step |-> IF t \in {s} THEN "FAILED" ELSE d.state[t]]
      BY <2>4
    <3>2. deferred = d.deferred \ {s}
      BY <2>4
    <3>3. e = [Set(again, {s}, "FAILED") EXCEPT !.deferred = @ \ {s}]
      BY <2>2, <2>4
    <3> QED BY <2>1, <3>1, <3>2, <3>3 DEF Set, Shape
  <2> QED BY <2>3, <2>4
<1>5. d.out[s] # "UNDECLARED"
  BY DEF Busy, Sound, RowsExist
<1>6. blocked => \E f \in d.dyn[s] : d.out[f] # "BUILT"
  BY <1>1 DEF Built, Columns
<1> HIDE DEF again, blocked, may, st, state, out, hashed, count, deferred, e
<1>7. IsRow(d, e, state, out, hashed, count, deferred)
  BY <1>4 DEF IsRow, Shape
<1>8. /\ Shape(e) /\ Columns(e) /\ SameBase(d, e)
      /\ e.state = state /\ e.out = out /\ e.deferred = deferred
  BY <1>2, <1>7, RowFields
<1>9. RowEnds(d, e, s, st) /\ (e.out[s] = "BUILT" => d.out[s] = "BUILT")
  BY <1>1, <1>3, <1>5, <1>6, <1>8 DEF RowEnds
<1>10. Ends(d, e, s)
  BY <1>1, <1>8, <1>9, RowEndsSoundly
<1> QED BY <1>10 DEF e

\* The row of s is PENDING, whatever becomes of its stored hash.
IsPending(d, e, s, hashed) == e = [Set(d, {s}, "PENDING") EXCEPT !.hashed = hashed]

LEMMA PendingEnds ==
  ASSUME NEW d, Shape(d), Columns(d), Sound(d), NEW s \in Busy(d), NEW hashed,
         NEW e, IsPending(d, e, s, hashed)
  PROVE  Ends(d, e, s)
<1> DEFINE st == "PENDING"
           state == [t \in Step |-> IF t \in {s} THEN "PENDING" ELSE d.state[t]]
<1>1. s \in Step /\ st \in {"PENDING", "SUCCEEDED", "FAILED"} /\ st = "PENDING"
  BY DEF Busy
<1>2. /\ state \in [Step -> State] /\ d.out \in [Step -> OutState]
      /\ d.count \in [Step -> Nat] /\ d.deferred \in SUBSET Step
  BY <1>1 DEF Columns, State
<1>3. \A t \in Step : state[t] = IF t = s THEN st ELSE d.state[t]
  OBVIOUS
<1>4. e = [d EXCEPT !.state = state, !.hashed = hashed]
  BY DEF Set, Shape, IsPending
<1>5. d.out[s] # "UNDECLARED" /\ s \notin d.deferred
  BY DEF Busy, Sound, RowsExist, DeferredWaits
<1> HIDE DEF st, state
<1>6. IsRow(d, e, state, d.out, hashed, d.count, d.deferred)
  BY <1>4 DEF IsRow, Shape
<1>7. /\ Shape(e) /\ Columns(e) /\ SameBase(d, e)
      /\ e.state = state /\ e.out = d.out /\ e.deferred = d.deferred
  BY <1>2, <1>6, RowFields
<1>8. RowEnds(d, e, s, st) /\ (e.out[s] = "BUILT" => d.out[s] = "BUILT")
  BY <1>1, <1>3, <1>5, <1>7 DEF RowEnds
<1> QED BY <1>1, <1>7, <1>8, RowEndsSoundly

LEMMA EndJobKeeps ==
  ASSUME Core, NEW s \in Step, run[s] # "none", NEW d, Ends(db, d, s), EndJob(s, d)
  PROVE  Core' /\ BuildMode'
<1> DEFINE w == "none"
<1>1. w \in {"none", "begun", "amended", "waits"} /\ w = "none"
  OBVIOUS
<1>2. Shape(d) /\ Columns(d) /\ Sound(d) /\ Keeps(db, d) /\ Busy(d) = Busy(db) \ {s}
  BY DEF Ends
<1>3. db' = Commit(db, d) /\ run' = [run EXCEPT ![s] = w] /\ KeepUser
  BY DEF EndJob
<1> HIDE DEF w
<1>4. Busy(d) = IF w = "none" THEN Busy(db) \ {s} ELSE Busy(db)
  BY <1>1, <1>2
<1> QED BY <1>1, <1>2, <1>3, <1>4, JobMoves

\* The amended inputs of a busy step are written.
IsRewired(d, e, s, D) == e = [d EXCEPT !.dyn[s] = D]

LEMMA RewiredKeeps ==
  ASSUME NEW d, Shape(d), Columns(d), Sound(d), NEW s \in Busy(d), NEW D \in SUBSET Step,
         D = {} \/ \E I \in Amends[s] : D \subseteq I, d.inp[s] \cap D = {},
         NEW e, IsRewired(d, e, s, D)
  PROVE  /\ Shape(e) /\ Columns(e) /\ Sound(e) /\ Keeps(d, e) /\ Busy(e) = Busy(d)
         /\ e.state = d.state
<1> DEFINE dyn == [d.dyn EXCEPT ![s] = D]
<1>1. s \in Step /\ d.state[s] # "NONE" /\ s \notin d.deferred
  BY DEF Busy, Sound, DeferredWaits
<1>2. /\ dyn \in [Step -> SUBSET Step]
      /\ \A t \in Step : dyn[t] = IF t = s THEN D ELSE d.dyn[t]
  BY <1>1 DEF Columns
<1>3. e = [d EXCEPT !.dyn = dyn]
  BY DEF IsRewired
<1> HIDE DEF dyn
<1>4. e = [state |-> d.state, attached |-> d.attached, need |-> d.need, impl |-> d.impl,
           inp |-> d.inp, dyn |-> dyn, out |-> d.out, deferred |-> d.deferred,
           hashed |-> d.hashed, count |-> d.count, dur |-> d.dur, tail |-> d.tail,
           checkAfter |-> d.checkAfter, ready |-> d.ready, checkReady |-> d.checkReady]
  BY <1>3 DEF Shape
<1>5. Shape(e)
  BY <1>4 DEF Shape
<1>6. /\ e.state = d.state /\ e.attached = d.attached /\ e.need = d.need /\ e.impl = d.impl
      /\ e.inp = d.inp /\ e.dyn = dyn /\ e.out = d.out /\ e.deferred = d.deferred
      /\ e.count = d.count /\ e.checkAfter = d.checkAfter /\ e.ready = d.ready
      /\ e.checkReady = d.checkReady
  BY <1>4
<1>7. Columns(e)
  BY <1>2, <1>6 DEF Columns
<1>8. EdgesDeclared(e)
  <2> SUFFICES ASSUME NEW t \in Step
               PROVE  /\ e.inp[t] = {} \/ e.inp[t] \in Inps[t]
                      /\ e.dyn[t] = {} \/ \E I \in Amends[t] : e.dyn[t] \subseteq I
                      /\ e.inp[t] \cap e.dyn[t] = {}
    BY DEF EdgesDeclared
  <2>1. CASE t = s
    BY <1>2, <1>6, <2>1 DEF Sound, EdgesDeclared
  <2>2. CASE t # s
    BY <1>2, <1>6, <2>2 DEF Sound, EdgesDeclared
  <2> QED BY <2>1, <2>2
<1>9. RowsExist(e) /\ SucceededBuilt(e)
  BY <1>1, <1>2, <1>6 DEF Sound, RowsExist, SucceededBuilt
<1>10. DeferredWaits(e)
  <2> SUFFICES ASSUME NEW t \in e.deferred
               PROVE  e.state[t] = "PENDING" /\ \E f \in e.dyn[t] : e.out[f] # "BUILT"
    BY DEF DeferredWaits
  <2>1. t \in d.deferred /\ t # s /\ t \in Step
    BY <1>1, <1>6 DEF Columns
  <2>2. e.dyn[t] = d.dyn[t]
    BY <1>2, <1>6, <2>1
  <2> QED BY <1>6, <2>1, <2>2 DEF Sound, DeferredWaits
<1>11. Keeps(d, e)
  BY <1>6 DEF Keeps, KeepsReady, KeepsNeeds
<1>12. Busy(e) = Busy(d)
  BY <1>6 DEF Busy
<1> QED BY <1>5, <1>6, <1>7, <1>8, <1>9, <1>10, <1>11, <1>12 DEF Sound

LEMMA ResetKeeps ==
  ASSUME NEW d, Shape(d), Columns(d), Sound(d), NEW s \in Busy(d)
  PROVE  LET e == Reset(d, s)
         IN Shape(e) /\ Columns(e) /\ Sound(e) /\ Keeps(d, e) /\ Busy(e) = Busy(d)
<1> DEFINE none == {}
           one == {s}
           c == [d EXCEPT !.dyn[s] = {}]
           e == Reset(d, s)
<1>1. /\ IsRewired(d, c, s, none)
      /\ none \in SUBSET Step /\ none = {} /\ one \in SUBSET Step /\ one = {s}
      /\ none = {} \/ \E I \in Amends[s] : none \subseteq I
      /\ d.inp[s] \cap none = {}
  BY DEF IsRewired, Busy
<1>2. e = MarkOutdated(c, one)
  BY DEF Reset
<1> HIDE DEF none, one, c, e
<1>3. /\ Shape(c) /\ Columns(c) /\ Sound(c) /\ Keeps(d, c) /\ Busy(c) = Busy(d)
      /\ c.state = d.state
  BY <1>1, RewiredKeeps
<1>4. \A f \in one : c.state[f] # "SUCCEEDED"
  BY <1>1, <1>3 DEF Busy
<1>5. Shape(e) /\ Columns(e) /\ Sound(e) /\ Keeps(c, e) /\ Busy(e) = Busy(c)
  BY <1>1, <1>2, <1>3, <1>4, MarkOutdatedKeeps
<1>6. Keeps(d, e)
  BY <1>3, <1>5, KeepsTwice
<1> QED BY <1>3, <1>5, <1>6 DEF e

LEMMA CoreFacts ==
  ASSUME Core
  PROVE  /\ Shape(db) /\ Columns(db) /\ Sound(db) /\ Good(db)
         /\ \A s \in Step : run[s] # "none" <=> s \in Busy(db)
BY DEF Core, Good, Jobs

LEMMA SucceedKeeps ==
  ASSUME Core, NEW s \in Step, Succeed(s) \/ Skip(s) PROVE Core' /\ BuildMode'
<1> DEFINE d == Succeeded(db, s)
<1>1. run[s] # "none" /\ EndJob(s, d)
  BY DEF Succeed, Skip
<1>2. Ends(db, d, s)
  BY <1>1, CoreFacts, SucceededEnds
<1> HIDE DEF d
<1> QED BY <1>1, <1>2, EndJobKeeps

LEMMA FailKeeps ==
  ASSUME Core, NEW s \in Step, Fail(s) PROVE Core' /\ BuildMode'
<1> DEFINE d == [Set(SetOut(db, {s} \cap Built(db), "OUTDATED"), {s}, "FAILED") EXCEPT
                   !.hashed = @ \ {s}, !.deferred = @ \ {s}]
<1>1. run[s] # "none" /\ EndJob(s, d)
  BY DEF Fail
<1>2. Ends(db, d, s)
  BY <1>1, CoreFacts, FailedEnds
<1> HIDE DEF d
<1> QED BY <1>1, <1>2, EndJobKeeps

LEMMA DeferKeeps ==
  ASSUME Core, NEW s \in Step, Defer(s) PROVE Core' /\ BuildMode'
<1> DEFINE d == Deferred(db, s)
<1>1. run[s] # "none" /\ EndJob(s, d)
  BY DEF Defer
<1>2. Ends(db, d, s)
  BY <1>1, CoreFacts, DeferredEnds
<1> HIDE DEF d
<1> QED BY <1>1, <1>2, EndJobKeeps

LEMMA StillValidKeeps ==
  ASSUME Core, NEW s \in Step, StillValid(s) PROVE Core' /\ BuildMode'
<1> DEFINE d == Set(db, {s}, "PENDING")
           hashed == db.hashed
<1>1. run[s] # "none" /\ EndJob(s, d)
  BY DEF StillValid
<1>2. IsPending(db, d, s, hashed)
  <2>1. Shape(db)
    BY CoreFacts
  <2> QED BY <2>1 DEF IsPending, Set, Shape
<1> HIDE DEF d, hashed
<1>3. Ends(db, d, s)
  BY <1>1, <1>2, CoreFacts, PendingEnds
<1> QED BY <1>1, <1>3, EndJobKeeps

LEMMA MismatchKeeps ==
  ASSUME Core, NEW s \in Step, Mismatch(s) PROVE Core' /\ BuildMode'
<1> DEFINE c == Reset(db, s)
           d == [Set(Reset(db, s), {s}, "PENDING") EXCEPT !.hashed = @ \ {s}]
           hashed == c.hashed \ {s}
<1>1. run[s] # "none" /\ EndJob(s, d)
  BY DEF Mismatch
<1>2. s \in Busy(db) /\ Shape(db) /\ Columns(db) /\ Sound(db)
  BY <1>1, CoreFacts
<1>3. Shape(c) /\ Columns(c) /\ Sound(c) /\ Keeps(db, c) /\ Busy(c) = Busy(db)
  BY <1>2, ResetKeeps
<1>4. IsPending(c, d, s, hashed)
  BY DEF IsPending, Set
<1> HIDE DEF c, d, hashed
<1>5. Ends(c, d, s)
  BY <1>2, <1>3, <1>4, PendingEnds
<1>6. Ends(db, d, s)
  <2>1. Keeps(db, d)
    BY <1>3, <1>5, KeepsTwice DEF Ends
  <2> QED BY <1>3, <1>5, <2>1 DEF Ends
<1> QED BY <1>1, <1>6, EndJobKeeps

LEMMA BeginKeeps ==
  ASSUME Core, NEW s \in Step, Begin(s) PROVE Core' /\ BuildMode'
<1> DEFINE d == Reset(db, s)
           w == "begun"
<1>1. /\ run[s] # "none" /\ db' = Commit(db, d) /\ run' = [run EXCEPT ![s] = w] /\ KeepUser
      /\ w \in {"none", "begun", "amended", "waits"} /\ w # "none"
  BY DEF Begin
<1>2. s \in Busy(db) /\ Shape(db) /\ Columns(db) /\ Sound(db)
  BY <1>1, CoreFacts
<1>3. Shape(d) /\ Columns(d) /\ Sound(d) /\ Keeps(db, d) /\ Busy(d) = Busy(db)
  BY <1>2, ResetKeeps
<1> HIDE DEF d, w
<1>4. Busy(d) = IF w = "none" THEN Busy(db) \ {s} ELSE Busy(db)
  BY <1>1, <1>3
<1> QED BY <1>1, <1>3, <1>4, JobMoves

LEMMA AmendKeeps ==
  ASSUME Core, NEW s \in Step, Amend(s) PROVE Core' /\ BuildMode'
<1>1. PICK I \in Amends[s] :
        /\ db' = Commit(db, [db EXCEPT !.dyn[s] = I \ db.inp[s]])
        /\ run' = [run EXCEPT ![s] =
             IF I \subseteq db.attached \cap Built(db) THEN "amended" ELSE "waits"]
  BY DEF Amend
<1> DEFINE D == I \ db.inp[s]
           d == [db EXCEPT !.dyn[s] = D]
           w == IF I \subseteq db.attached \cap Built(db) THEN "amended" ELSE "waits"
<1>2. /\ run[s] # "none" /\ db' = Commit(db, d) /\ run' = [run EXCEPT ![s] = w] /\ KeepUser
      /\ w \in {"none", "begun", "amended", "waits"} /\ w # "none"
  BY <1>1 DEF Amend
<1>3. s \in Busy(db) /\ Shape(db) /\ Columns(db) /\ Sound(db)
  BY <1>2, CoreFacts
<1>4. I \subseteq Step
  BY DeclarationType
<1>5. D \in SUBSET Step /\ (D = {} \/ \E J \in Amends[s] : D \subseteq J) /\ db.inp[s] \cap D = {}
  BY <1>4
<1>6. IsRewired(db, d, s, D)
  BY DEF IsRewired
<1> HIDE DEF D, d, w
<1>7. Shape(d) /\ Columns(d) /\ Sound(d) /\ Keeps(db, d) /\ Busy(d) = Busy(db)
  BY <1>3, <1>5, <1>6, RewiredKeeps
<1>8. Busy(d) = IF w = "none" THEN Busy(db) \ {s} ELSE Busy(db)
  BY <1>2, <1>7
<1> QED BY <1>2, <1>7, <1>8, JobMoves

LEMMA Popped ==
  ASSUME NEW d, Shape(d), Good(d), NEW s \in Step, d.state[s] = "PENDING", s \notin d.deferred,
         NEW st \in {"CHECKING", "RUNNING"}
  PROVE  LET e == Set(d, {s}, st)
         IN Shape(e) /\ Good(e) /\ Busy(e) = Busy(d) \cup {s}
<1> DEFINE one == {s}
           e == Set(d, one, st)
<1>1. one \in SUBSET Step /\ one = {s} /\ st \in State /\ Columns(d)
  BY DEF State, Good
<1> HIDE DEF one
<1>2. /\ Shape(e) /\ Columns(e) /\ SameBase(d, e)
      /\ e.out = d.out /\ e.deferred = d.deferred
      /\ \A t \in Step : e.state[t] = IF t \in one THEN st ELSE d.state[t]
  BY <1>1, SetFields, SMTT(30)
<1> HIDE DEF e
<1>3. SameNone(d, e)
  BY <1>1, <1>2 DEF SameNone
<1>4. EdgesDeclared(e)
  BY <1>1, <1>2, <1>3, BaseKeeps DEF Good, Sound
<1>5. RowsExist(e)
  BY <1>2, <1>3 DEF Good, Sound, RowsExist, SameBase, SameNone
<1>6. DeferredWaits(e)
  <2> SUFFICES ASSUME NEW t \in e.deferred
               PROVE  e.state[t] = "PENDING" /\ \E f \in e.dyn[t] : e.out[f] # "BUILT"
    BY DEF DeferredWaits
  <2>1. t \in d.deferred /\ t \notin one /\ t \in Step
    BY <1>1, <1>2 DEF Columns
  <2> QED BY <1>2, <2>1 DEF Good, Sound, DeferredWaits, SameBase
<1>7. SucceededBuilt(e)
  BY <1>1, <1>2 DEF Good, Sound, SucceededBuilt
<1>8. Exact(e)
  <2> SUFFICES ASSUME NEW t \in Step \ e.checkReady, e.state[t] # "NONE"
               PROVE  t \in e.ready <=> IsReady(e, t)
    BY DEF Exact
  <2>1. t \in d.ready <=> IsReady(d, t)
    BY <1>2, <1>3 DEF Good, Exact, SameBase, SameNone
  <2>2. IsReady(e, t) <=> IsReady(d, t)
    BY <1>2 DEF IsReady, Inputs, Blocks, SameBase
  <2> QED BY <1>2, <2>1, <2>2 DEF SameBase
<1>9. Covers(e)
  BY <1>2 DEF Good, Covers, Asked, Over, BaseNeed, Sinks, Consumers, Inputs, SameBase
<1>10. Busy(e) = Busy(d) \cup {s}
  BY <1>1, <1>2 DEF Busy
<1> QED BY <1>1, <1>2, <1>4, <1>5, <1>6, <1>7, <1>8, <1>9, <1>10 DEF Good, Sound, e

LEMMA PopKeeps ==
  ASSUME Core, Pop PROVE Core' /\ BuildMode'
<1> DEFINE d == UpdateMeta(db)
<1>1. mode = "build" /\ mode' = mode /\ targets' = targets
  BY DEF Pop, KeepUser
<1>2. BuildMode'
  BY <1>1 DEF BuildMode
<1>3. Shape(d) /\ Good(d) /\ SameRows(db, d)
  BY CoreFacts, MetaUpdated
<1>4. Busy(d) = Busy(db)
  BY <1>3 DEF Busy, SameRows
<1>5. \/ db' = d /\ UNCHANGED run
      \/ \E s \in Step : /\ Eligible(d, s)
                         /\ db' = Set(d, {s}, IF s \in d.hashed THEN "CHECKING" ELSE "RUNNING")
                         /\ run' = [run EXCEPT ![s] = JobOf(d, s)]
  BY DEF Pop
<1> HIDE DEF d
<1>6. CASE db' = d /\ UNCHANGED run
  <2>1. Shape(db)' /\ Good(db)'
    BY <1>1, <1>3, <1>6, Written
  <2>2. Jobs' /\ Memory'
    BY <1>1, <1>4, <1>6 DEF Core, Jobs, Busy, Memory
  <2> QED BY <1>2, <2>1, <2>2 DEF Core
<1>7. CASE \E s \in Step : /\ Eligible(d, s)
                           /\ db' = Set(d, {s}, IF s \in d.hashed THEN "CHECKING" ELSE "RUNNING")
                           /\ run' = [run EXCEPT ![s] = JobOf(d, s)]
  <2>1. PICK s \in Step : /\ Eligible(d, s)
                          /\ db' = Set(d, {s}, IF s \in d.hashed THEN "CHECKING" ELSE "RUNNING")
                          /\ run' = [run EXCEPT ![s] = JobOf(d, s)]
    BY <1>7
  <2> DEFINE st == IF s \in d.hashed THEN "CHECKING" ELSE "RUNNING"
             e == Set(d, {s}, st)
             w == JobOf(d, s)
  <2>2. db' = e /\ run' = [run EXCEPT ![s] = w] /\ st \in {"CHECKING", "RUNNING"}
    BY <2>1
  <2>3. w \in {"run", "check", "validate"}
    BY DEF JobOf
  <2>4. d.state[s] = "PENDING" /\ s \notin d.deferred
    BY <2>1 DEF Eligible
  <2> HIDE DEF st, w
  <2>5. Shape(e) /\ Good(e) /\ Busy(e) = Busy(d) \cup {s}
    BY <1>3, <2>2, <2>4, Popped
  <2> HIDE DEF e
  <2>6. Shape(db)' /\ Good(db)'
    BY <1>1, <2>2, <2>5, Written
  <2>7. \A t \in Step : run'[t] = IF t = s THEN w ELSE run[t]
    BY <2>2 DEF Core, Memory
  <2>8. Busy(db)' = Busy(db) \cup {s}
    BY <1>4, <2>2, <2>5 DEF Busy
  <2>9. Jobs'
    <3>1. \A t \in Step : run[t] # "none" <=> t \in Busy(db)
      BY CoreFacts
    <3>2. \A t \in Step : run'[t] # "none" <=> t \in Busy(db)'
      BY <2>3, <2>7, <2>8, <3>1
    <3> QED BY <1>1, <3>2 DEF Jobs
  <2>10. Memory'
    BY <1>1, <2>2, <2>3 DEF Core, Memory
  <2> QED BY <1>2, <2>6, <2>9, <2>10 DEF Core
<1> QED BY <1>5, <1>6, <1>7
-----------------------------------------------------------------------------
(***************************************************************************)
(* Declarations.                                                           *)
(***************************************************************************)

\* The columns of a new row for s, with the outputs out.
IsRowOf(d, e, s, n, I, out) ==
  /\ e.attached = d.attached \cup {s} /\ e.out = out /\ e.deferred = d.deferred \ {s}
  /\ e.checkAfter = d.checkAfter \cup {s} /\ e.checkReady = d.checkReady \cup {s}
  /\ e.ready = d.ready \ {s}
  /\ e.state = [d.state EXCEPT ![s] = "PENDING"] /\ e.count = [d.count EXCEPT ![s] = 0]
  /\ e.need = [d.need EXCEPT ![s] = n] /\ e.impl = [d.impl EXCEPT ![s] = n]
  /\ e.inp = [d.inp EXCEPT ![s] = I] /\ e.dyn = [d.dyn EXCEPT ![s] = {}]

IsNewRow(d, e, s, n, I) == e = NewRow(d, s, n, I)

LEMMA DeclaredRow ==
  ASSUME NEW d, Shape(d), NEW s, NEW n, NEW I, NEW e, IsNewRow(d, e, s, n, I)
  PROVE  Shape(e) /\ IsRowOf(d, e, s, n, I, d.out)
<1> DEFINE state == [d.state EXCEPT ![s] = "PENDING"]
           count == [d.count EXCEPT ![s] = 0]
           dur == [d.dur EXCEPT ![s] = 1]
           tail == [d.tail EXCEPT ![s] = 1]
           need == [d.need EXCEPT ![s] = n]
           impl == [d.impl EXCEPT ![s] = n]
           inp == [d.inp EXCEPT ![s] = I]
           dyn == [d.dyn EXCEPT ![s] = {}]
           attached == d.attached \cup {s}
           deferred == d.deferred \ {s}
           ready == d.ready \ {s}
           checkAfter == d.checkAfter \cup {s}
           checkReady == d.checkReady \cup {s}
<1>1. e = [d EXCEPT !.state = state, !.deferred = deferred, !.count = count, !.need = need,
                    !.impl = impl, !.dur = dur, !.tail = tail, !.inp = inp, !.dyn = dyn,
                    !.attached = attached, !.ready = ready, !.checkAfter = checkAfter,
                    !.checkReady = checkReady]
  BY DEF IsNewRow, NewRow
<1>2. e = [state |-> state, attached |-> attached, need |-> need, impl |-> impl,
           inp |-> inp, dyn |-> dyn, out |-> d.out, deferred |-> deferred,
           hashed |-> d.hashed, count |-> count, dur |-> dur, tail |-> tail,
           checkAfter |-> checkAfter, ready |-> ready, checkReady |-> checkReady]
  <2> HIDE DEF state, count, dur, tail, need, impl, inp, dyn, attached, deferred, ready, checkAfter, checkReady
  <2> QED BY <1>1 DEF Shape
<1>3. Shape(e)
  BY <1>2 DEF Shape
<1>4. IsRowOf(d, e, s, n, I, d.out)
  BY <1>2 DEF IsRowOf
<1> QED BY <1>3, <1>4

\* The row is a good one: what was declared before keeps its flags.
LEMMA DeclaredKeeps ==
  ASSUME NEW d, Columns(d), Sound(d), NEW s \in Step, s \notin Busy(d),
         NEW n \in Needs[s], NEW I \in Inps[s], NEW out \in [Step -> OutState],
         \A t \in Step : t # s => out[t] = d.out[t], out[s] # "UNDECLARED",
         out[s] = "BUILT" => d.out[s] = "BUILT",
         NEW e, IsRowOf(d, e, s, n, I, out)
  PROVE  Columns(e) /\ Sound(e) /\ Keeps(d, e) /\ Busy(e) = Busy(d) /\ e.state[s] = "PENDING"
<1>1. n \in {OPTIONAL, DEFAULT} /\ n \in Level /\ I \in SUBSET Step
  BY DeclarationType DEF Level
<1>2. /\ e.attached = d.attached \cup {s} /\ e.out = out /\ e.deferred = d.deferred \ {s}
      /\ e.checkAfter = d.checkAfter \cup {s} /\ e.checkReady = d.checkReady \cup {s}
      /\ e.ready = d.ready \ {s}
  BY DEF IsRowOf
<1>3. /\ e.state = [d.state EXCEPT ![s] = "PENDING"] /\ e.count = [d.count EXCEPT ![s] = 0]
      /\ e.need = [d.need EXCEPT ![s] = n] /\ e.impl = [d.impl EXCEPT ![s] = n]
      /\ e.inp = [d.inp EXCEPT ![s] = I] /\ e.dyn = [d.dyn EXCEPT ![s] = {}]
  BY DEF IsRowOf
<1>4. Columns(e)
  <2>1. e.state \in [Step -> State] /\ e.count \in [Step -> Nat]
    BY <1>3 DEF Columns, State
  <2>2. e.need \in [Step -> {OPTIONAL, DEFAULT}] /\ e.impl \in [Step -> Level]
    BY <1>1, <1>3 DEF Columns
  <2>3. e.inp \in [Step -> SUBSET Step] /\ e.dyn \in [Step -> SUBSET Step]
    BY <1>1, <1>3 DEF Columns
  <2> QED BY <1>2, <2>1, <2>2, <2>3 DEF Columns
<1>5. /\ \A t \in Step \ {s} : /\ e.state[t] = d.state[t] /\ e.need[t] = d.need[t]
                               /\ e.impl[t] = d.impl[t] /\ e.inp[t] = d.inp[t]
                               /\ e.dyn[t] = d.dyn[t] /\ e.out[t] = d.out[t]
      /\ e.state[s] = "PENDING" /\ e.inp[s] = I /\ e.dyn[s] = {} /\ e.out[s] # "UNDECLARED"
  BY <1>2, <1>3 DEF Columns
<1>6. RowsExist(e)
  <2> SUFFICES ASSUME NEW t \in Step
               PROVE  /\ e.state[t] = "NONE" <=> e.out[t] = "UNDECLARED"
                      /\ e.state[t] = "NONE" => t \notin e.attached /\ e.inp[t] = {} /\ e.dyn[t] = {}
    BY DEF RowsExist
  <2>1. CASE t = s
    BY <1>5, <2>1
  <2>2. CASE t # s
    BY <1>2, <1>5, <2>2 DEF Sound, RowsExist
  <2> QED BY <2>1, <2>2
<1>7. EdgesDeclared(e)
  <2> SUFFICES ASSUME NEW t \in Step
               PROVE  /\ e.inp[t] = {} \/ e.inp[t] \in Inps[t]
                      /\ e.dyn[t] = {} \/ \E J \in Amends[t] : e.dyn[t] \subseteq J
                      /\ e.inp[t] \cap e.dyn[t] = {}
    BY DEF EdgesDeclared
  <2>1. CASE t = s
    BY <1>5, <2>1
  <2>2. CASE t # s
    BY <1>5, <2>2 DEF Sound, EdgesDeclared
  <2> QED BY <2>1, <2>2
<1>8. DeferredWaits(e)
  <2> SUFFICES ASSUME NEW t \in e.deferred
               PROVE  e.state[t] = "PENDING" /\ \E f \in e.dyn[t] : e.out[f] # "BUILT"
    BY DEF DeferredWaits
  <2>1. t \in d.deferred /\ t # s /\ t \in Step
    BY <1>2 DEF Columns
  <2>2. e.state[t] = d.state[t] /\ e.dyn[t] = d.dyn[t]
    BY <1>5, <2>1
  <2>3. d.state[t] = "PENDING"
    BY <2>1 DEF Sound, DeferredWaits
  <2>4. PICK f \in d.dyn[t] : d.out[f] # "BUILT"
    BY <2>1 DEF Sound, DeferredWaits
  <2>5. f \in Step
    BY <2>1 DEF Columns
  <2>6. e.out[f] # "BUILT"
    BY <1>2, <2>4, <2>5
  <2> QED BY <2>2, <2>3, <2>4, <2>6
<1>9. SucceededBuilt(e)
  BY <1>5 DEF Sound, SucceededBuilt
<1>10. Keeps(d, e)
  <2>1. KeepsReady(d, e)
    BY <1>2, <1>5 DEF KeepsReady
  <2>2. KeepsNeeds(d, e)
    <3>1. e.attached \ e.checkAfter \subseteq Step \ {s}
      BY <1>2, <1>4 DEF Columns
    <3> QED BY <1>2, <1>5, <3>1 DEF KeepsNeeds
  <2> QED BY <2>1, <2>2 DEF Keeps
<1>11. Busy(e) = Busy(d)
  BY <1>5 DEF Busy
<1> QED BY <1>4, <1>5, <1>6, <1>7, <1>8, <1>9, <1>10, <1>11 DEF Sound

LEMMA DefineKeeps ==
  ASSUME Core, NEW s \in Step, Define(s) PROVE Core' /\ BuildMode'
<1> DEFINE Declared(r) == IF db.out[s] = "UNDECLARED" THEN SetOut(r, {s}, "PLANNED") ELSE r
<1>1. PICK n \in Needs[s], I \in Inps[s] :
        db' = Commit(db, MarkOutdated(Declared(NewRow(db, s, n, I)), {s}))
  BY DEF Define
<1> DEFINE row == NewRow(db, s, n, I)
           c == Declared(row)
<1>2. /\ IsNewRow(db, row, s, n, I)
      /\ c = IF db.out[s] = "UNDECLARED" THEN SetOut(row, {s}, "PLANNED") ELSE row
      /\ db' = Commit(db, MarkOutdated(c, {s}))
  BY <1>1 DEF IsNewRow
<1>3. mode = "build" /\ s \notin Busy(db) /\ KeepRun /\ KeepUser
  BY DEF Define
<1>4. Shape(db) /\ Columns(db) /\ Sound(db)
  BY CoreFacts
<1> DEFINE out == IF db.out[s] = "UNDECLARED" THEN [f \in Step |-> IF f \in {s} THEN "PLANNED" ELSE db.out[f]]
                                              ELSE db.out
           one == {s}
           d == MarkOutdated(c, one)
<1>5. /\ out \in [Step -> OutState] /\ out[s] # "UNDECLARED"
      /\ \A t \in Step : t # s => out[t] = db.out[t]
      /\ out[s] = "BUILT" => db.out[s] = "BUILT"
  BY <1>4 DEF Columns, OutState
<1> HIDE DEF row, c, Declared
<1>6. Shape(row) /\ IsRowOf(db, row, s, n, I, db.out)
  BY <1>2, <1>4, DeclaredRow
<1>7. Shape(c) /\ IsRowOf(db, c, s, n, I, out)
  <2>1. CASE db.out[s] = "UNDECLARED"
    <3>1. c = SetOut(row, {s}, "PLANNED")
      BY <1>2, <2>1
    <3>2. row.out = db.out
      BY <1>6 DEF IsRowOf
    <3>3. c = [row EXCEPT !.out = out]
      BY <2>1, <3>1, <3>2 DEF SetOut
    <3> HIDE DEF out
    <3>4. c = [state |-> row.state, attached |-> row.attached, need |-> row.need, impl |-> row.impl,
               inp |-> row.inp, dyn |-> row.dyn, out |-> out, deferred |-> row.deferred,
               hashed |-> row.hashed, count |-> row.count, dur |-> row.dur, tail |-> row.tail,
               checkAfter |-> row.checkAfter, ready |-> row.ready, checkReady |-> row.checkReady]
      BY <1>6, <3>3 DEF Shape
    <3>5. Shape(c)
      BY <3>4 DEF Shape
    <3>6. /\ c.state = row.state /\ c.attached = row.attached /\ c.need = row.need
          /\ c.impl = row.impl /\ c.inp = row.inp /\ c.dyn = row.dyn /\ c.out = out
          /\ c.deferred = row.deferred /\ c.count = row.count /\ c.checkAfter = row.checkAfter
          /\ c.ready = row.ready /\ c.checkReady = row.checkReady
      BY <3>4
    <3> QED BY <1>6, <3>5, <3>6 DEF IsRowOf
  <2>2. CASE db.out[s] # "UNDECLARED"
    BY <1>2, <1>6, <2>2
  <2> QED BY <2>1, <2>2
<1>8. db' = Commit(db, d)
  BY <1>2
<1> HIDE DEF out, d
<1>9. Columns(c) /\ Sound(c) /\ Keeps(db, c) /\ Busy(c) = Busy(db) /\ c.state[s] = "PENDING"
  BY <1>3, <1>4, <1>5, <1>7, DeclaredKeeps
<1>10. one \in SUBSET Step /\ \A f \in one : c.state[f] # "SUCCEEDED"
  BY <1>9
<1>11. d = MarkOutdated(c, one)
  BY DEF d
<1> HIDE DEF one
<1>12. Shape(d) /\ Columns(d) /\ Sound(d) /\ Keeps(c, d) /\ Busy(d) = Busy(c)
  BY <1>7, <1>9, <1>10, <1>11, MarkOutdatedKeeps
<1>13. Keeps(db, d) /\ Busy(d) = Busy(db)
  BY <1>9, <1>12, KeepsTwice
<1>14. mode' = mode /\ targets' = targets /\ run' = run
  BY <1>3 DEF KeepRun, KeepUser
<1>15. Memory' /\ JobsOf(d) /\ BuildMode'
  BY <1>3, <1>13, <1>14 DEF Core, Memory, Jobs, JobsOf, BuildMode
<1> QED BY <1>8, <1>12, <1>13, <1>14, <1>15, Transaction

LEMMA RecycleKeeps ==
  ASSUME Core, NEW s \in Step, Recycle(s) PROVE Core' /\ BuildMode'
<1> DEFINE Back(n) == [db EXCEPT !.attached = @ \cup {s}, !.checkAfter = @ \cup {s}, !.need[s] = n]
<1>1. PICK n \in Needs[s] :
        db' = Commit(db, IF db.state[s] = "FAILED" THEN MarkPending(Back(n), {s}) ELSE Back(n))
  BY DEF Recycle
<1>2. mode = "build" /\ db.state[s] # "NONE" /\ KeepRun /\ KeepUser
  BY DEF Recycle
<1>3. Shape(db) /\ Columns(db) /\ Sound(db)
  BY CoreFacts
<1> DEFINE one == {s}
           need == [db.need EXCEPT ![s] = n]
           attached == db.attached \cup {s}
           after == db.checkAfter \cup {s}
           c == Back(n)
           d == IF db.state[s] = "FAILED" THEN MarkPending(c, one) ELSE c
<1>4. db' = Commit(db, d) /\ one = {s} /\ one \in SUBSET Step
  BY <1>1
<1>5. /\ need \in [Step -> {OPTIONAL, DEFAULT}] /\ attached \subseteq Step /\ after \subseteq Step
      /\ \A t \in Step : t # s => need[t] = db.need[t]
  BY <1>3, DeclarationType DEF Columns
<1>6. /\ \A t : t \in attached <=> t \in db.attached \/ t = s
      /\ \A t : t \in after <=> t \in db.checkAfter \/ t = s
  OBVIOUS
<1>7. c = [db EXCEPT !.attached = attached, !.checkAfter = after, !.need = need]
  OBVIOUS
<1> HIDE DEF one, need, attached, after, Back, c
<1>8. c = [state |-> db.state, attached |-> attached, need |-> need, impl |-> db.impl,
           inp |-> db.inp, dyn |-> db.dyn, out |-> db.out, deferred |-> db.deferred,
           hashed |-> db.hashed, count |-> db.count, dur |-> db.dur, tail |-> db.tail,
           checkAfter |-> after, ready |-> db.ready, checkReady |-> db.checkReady]
  BY <1>3, <1>7 DEF Shape
<1>9. Shape(c)
  BY <1>8 DEF Shape
<1>10. /\ c.state = db.state /\ c.attached = attached /\ c.need = need /\ c.impl = db.impl
       /\ c.inp = db.inp /\ c.dyn = db.dyn /\ c.out = db.out /\ c.deferred = db.deferred
       /\ c.count = db.count /\ c.checkAfter = after /\ c.ready = db.ready
       /\ c.checkReady = db.checkReady
  BY <1>8
<1>11. Columns(c)
  BY <1>3, <1>5, <1>10 DEF Columns
<1>12. Sound(c)
  BY <1>2, <1>3, <1>6, <1>10 DEF Sound, RowsExist, EdgesDeclared, DeferredWaits, SucceededBuilt
<1>13. Keeps(db, c)
  <2>1. KeepsReady(db, c)
    BY <1>10 DEF KeepsReady
  <2>2. ASSUME NEW t \in c.attached \ c.checkAfter
        PROVE  t \in db.attached \ db.checkAfter /\ c.need[t] = db.need[t] /\ c.impl[t] = db.impl[t]
    BY <1>5, <1>6, <1>10
  <2> QED BY <2>1, <2>2 DEF Keeps, KeepsNeeds
<1>14. Busy(c) = Busy(db)
  BY <1>10 DEF Busy
<1>15. Shape(d) /\ Columns(d) /\ Sound(d) /\ Keeps(db, d) /\ Busy(d) = Busy(db)
  <2>1. CASE db.state[s] # "FAILED"
    BY <1>9, <1>11, <1>12, <1>13, <1>14, <2>1
  <2>2. CASE db.state[s] = "FAILED"
    <3> DEFINE e == MarkPending(c, one)
    <3>1. d = e
      BY <2>2
    <3>2. SoundBut(c, one) /\ \A t \in one : c.state[t] # "NONE"
      BY <1>2, <1>4, <1>10, <1>12 DEF Sound, SoundBut, DeferredWaits, SucceededBuilt
    <3>3. Shape(e) /\ Columns(e) /\ Sound(e) /\ Keeps(c, e) /\ Busy(e) = Busy(c)
      BY <1>4, <1>9, <1>11, <3>2, MarkPendingKeeps
    <3> HIDE DEF d, e
    <3> QED BY <1>13, <1>14, <3>1, <3>3, KeepsTwice
  <2> QED BY <2>1, <2>2
<1> HIDE DEF d
<1>16. mode' = mode /\ targets' = targets /\ run' = run
  BY <1>2 DEF KeepRun, KeepUser
<1>17. Memory' /\ JobsOf(d) /\ BuildMode'
  BY <1>2, <1>15, <1>16 DEF Core, Memory, Jobs, JobsOf, BuildMode
<1> QED BY <1>4, <1>15, <1>16, <1>17, Transaction
-----------------------------------------------------------------------------
(***************************************************************************)
(* Between builds.                                                         *)
(***************************************************************************)
LEMMA LoseKeeps ==
  ASSUME Core, NEW s \in Step, Lose(s) PROVE Core' /\ BuildMode'
<1>1. PICK S \in {{s}, {s} \cup Consumers(db, {s})} :
        db' = Commit(db, MarkPending(SetOut(db, {s}, "PLANNED"), S))
  BY DEF Lose
<1>2. /\ mode # "build" /\ db.out[s] \in {"BUILT", "OUTDATED"} /\ mode' = "watch"
      /\ run' = run /\ targets' = targets
  BY DEF Lose
<1>3. Shape(db) /\ Columns(db) /\ Sound(db)
  BY CoreFacts
<1> DEFINE one == {s}
           planned == "PLANNED"
           c == SetOut(db, one, planned)
           d == MarkPending(c, S)
<1>4. db' = Commit(db, d)
  BY <1>1
<1>5. /\ one \in SUBSET Step /\ one = {s} /\ planned \in OutState /\ planned = "PLANNED"
      /\ S \in SUBSET Step /\ s \in S
  BY DEF OutState, Consumers
<1>6. \A t \in S : db.state[t] # "NONE"
  BY <1>2, <1>3 DEF Consumers, Inputs, Sound, RowsExist
<1> HIDE DEF one, planned
<1>7. /\ Shape(c) /\ Columns(c) /\ SameBase(db, c) /\ Keeps(db, c)
      /\ c.state = db.state /\ c.deferred = db.deferred
      /\ \A f \in Step : c.out[f] = IF f \in one THEN planned ELSE db.out[f]
  BY <1>3, <1>5, SetOutFields
<1> HIDE DEF c
<1>8. SoundBut(c, S)
  <2>1. RowsExist(c)
    BY <1>2, <1>3, <1>5, <1>7 DEF Sound, RowsExist, SameBase
  <2>2. EdgesDeclared(c)
    BY <1>3, <1>7 DEF Sound, EdgesDeclared, SameBase
  <2>3. ASSUME NEW t \in c.deferred
        PROVE  c.state[t] = "PENDING" /\ \E f \in c.dyn[t] : c.out[f] # "BUILT"
    <3>1. t \in db.deferred /\ t \in Step
      BY <1>3, <1>7 DEF Columns
    <3>2. PICK f \in db.dyn[t] : db.out[f] # "BUILT"
      BY <1>3, <3>1 DEF Sound, DeferredWaits
    <3>3. f \in Step
      BY <1>3, <3>1 DEF Columns
    <3>4. c.out[f] # "BUILT"
      BY <1>5, <1>7, <3>2, <3>3
    <3> QED BY <1>3, <1>7, <3>1, <3>2, <3>4 DEF Sound, DeferredWaits, SameBase
  <2>4. \A t \in Step \ S : c.state[t] = "SUCCEEDED" => c.out[t] = "BUILT"
    BY <1>3, <1>5, <1>7 DEF Sound, SucceededBuilt
  <2> QED BY <2>1, <2>2, <2>3, <2>4 DEF SoundBut
<1>9. \A t \in S : c.state[t] # "NONE"
  BY <1>6, <1>7
<1>10. Shape(d) /\ Columns(d) /\ Sound(d) /\ Keeps(c, d) /\ Busy(d) = Busy(c)
  BY <1>5, <1>7, <1>8, <1>9, MarkPendingKeeps
<1> HIDE DEF d
<1>11. Keeps(db, d) /\ Busy(d) = Busy(db)
  BY <1>7, <1>10, KeepsTwice DEF Busy
<1>12. Memory' /\ JobsOf(d) /\ BuildMode'
  BY <1>2, <1>11 DEF Core, Memory, Jobs, JobsOf, BuildMode
<1> QED BY <1>2, <1>4, <1>10, <1>11, <1>12, Transaction

\* The retry of the failed steps is a transaction of its own.
LEMMA RetryKeeps ==
  ASSUME Core
  PROVE  LET c == RetryFailed(db)
         IN /\ Shape(c) /\ Good(c) /\ Busy(c) = Busy(db)
            /\ c.attached = db.attached /\ c.impl = db.impl
<1> DEFINE failed == {s \in db.attached : db.state[s] = "FAILED"}
           m == MarkPending(db, failed)
           c == RetryFailed(db)
<1>1. c = Commit(db, m)
  BY DEF RetryFailed
<1>2. Shape(db) /\ Columns(db) /\ Sound(db) /\ Good(db)
  BY CoreFacts
<1>3. failed \in SUBSET Step /\ \A s \in failed : db.state[s] # "NONE"
  BY <1>2 DEF Columns
<1> HIDE DEF failed
<1>4. SoundBut(db, failed)
  BY <1>2 DEF Sound, SoundBut, DeferredWaits, SucceededBuilt
<1>5. /\ Shape(m) /\ Columns(m) /\ Sound(m) /\ Keeps(db, m) /\ Busy(m) = Busy(db)
      /\ SameBase(db, m)
  BY <1>2, <1>3, <1>4, MarkPendingKeeps
<1> HIDE DEF m, c
<1>6. Shape(c) /\ Good(c) /\ SameRows(m, c) /\ c.impl = m.impl
  BY <1>1, <1>2, <1>5, Committed
<1> QED BY <1>5, <1>6 DEF Busy, SameRows, SameBase, c

LEMMA NextBuildKeeps ==
  ASSUME Core, NextBuild PROVE Core' /\ BuildMode'
<1>1. mode' = "build" /\ db' = RetryFailed(db) /\ run' = run /\ targets' = targets
  BY DEF NextBuild
<1>2. Shape(db)' /\ Good(db)' /\ Busy(db)' = Busy(db)
  <2> DEFINE c == RetryFailed(db)
  <2>1. db' = c /\ Shape(c) /\ Good(c) /\ Busy(c) = Busy(db)
    BY <1>1, RetryKeeps
  <2> HIDE DEF c
  <2> QED BY <1>1, <2>1, Written DEF Busy
<1>3. Jobs' /\ Memory' /\ BuildMode'
  BY <1>1, <1>2 DEF Core, Jobs, Memory, BuildMode
<1> QED BY <1>2, <1>3 DEF Core

\* Workflow.reconcile_targets flags what the old and the new targets concern.
LEMMA Retargeted ==
  ASSUME NEW d, Shape(d), Good(d), NEW flags \in SUBSET Step,
         {s \in Step : d.impl[s] = TARGET} \cup (targets' \cap d.attached) \subseteq flags,
         db' = [d EXCEPT !.checkAfter = @ \cup flags]
  PROVE  Shape(db)' /\ Good(db)' /\ Busy(db)' = Busy(d)
<1> DEFINE after == d.checkAfter \cup flags
           e == db'
<1>1. e = [d EXCEPT !.checkAfter = after]
  OBVIOUS
<1>2. Columns(d) /\ Sound(d) /\ Exact(d) /\ Covers(d)
  BY DEF Good
<1>3. after \subseteq Step /\ d.checkAfter \subseteq after /\ flags \subseteq after
  BY <1>2 DEF Columns
<1> HIDE DEF after, e
<1>4. e = [state |-> d.state, attached |-> d.attached, need |-> d.need, impl |-> d.impl,
           inp |-> d.inp, dyn |-> d.dyn, out |-> d.out, deferred |-> d.deferred,
           hashed |-> d.hashed, count |-> d.count, dur |-> d.dur, tail |-> d.tail,
           checkAfter |-> after, ready |-> d.ready, checkReady |-> d.checkReady]
  BY <1>1 DEF Shape
<1>5. Shape(e)
  BY <1>4 DEF Shape
<1>6. SameRows(d, e) /\ SameReady(d, e) /\ e.impl = d.impl /\ e.checkAfter = after
  BY <1>4 DEF SameRows, SameReady
<1>7. Columns(e)
  BY <1>2, <1>3, <1>6 DEF Columns, SameRows, SameReady
<1>8. Sound(e) /\ \A s : IsReady(e, s) <=> IsReady(d, s)
  BY <1>2, <1>6, RowsSame
<1>9. Exact(e)
  BY <1>2, <1>6, <1>8 DEF Exact, SameRows, SameReady
<1>10. Shape(db)' /\ Columns(db)' /\ Sound(db)' /\ Exact(db)'
  BY <1>5, <1>7, <1>8, <1>9 DEF e, Shape, Columns, Sound, RowsExist, EdgesDeclared, DeferredWaits,
        SucceededBuilt, Exact, IsReady, Inputs, Blocks
<1>11. Covers(db)'
  <2> DEFINE Base(s) == IF s \in targets' /\ e.need[s] < TARGET THEN TARGET ELSE e.need[s]
  <2>1. ASSUME NEW s \in e.attached \ e.checkAfter
        PROVE  /\ e.impl[s] >= Base(s)
               /\ \A t \in Sinks(e, s) \ e.checkAfter : e.impl[s] >= e.impl[t]
    <3>1. s \in d.attached \ d.checkAfter /\ s \notin targets' /\ s \in Step
      BY <1>2, <1>3, <1>6 DEF SameRows, Columns
    <3>2. Asked(d, s) /\ \A t \in Sinks(d, s) \ d.checkAfter : Over(d, s, t)
      BY <1>2, <3>1 DEF Covers
    <3>3. e.impl[s] >= Base(s)
      <4>1. d.impl[s] \in Level /\ d.need[s] \in {OPTIONAL, DEFAULT}
        BY <1>2, <3>1 DEF Columns
      <4> QED BY <1>6, <3>1, <3>2, <4>1 DEF Asked, BaseNeed, SameRows, Level, OPTIONAL, DEFAULT, TARGET
    <3>4. \A t \in Sinks(e, s) \ e.checkAfter : e.impl[s] >= e.impl[t]
      BY <1>3, <1>6, <3>2, RowsSame DEF Over
    <3> QED BY <3>3, <3>4
  <2>2. Covers(db)' <=> \A s \in e.attached \ e.checkAfter :
                          /\ e.impl[s] >= Base(s)
                          /\ \A t \in Sinks(e, s) \ e.checkAfter : e.impl[s] >= e.impl[t]
    BY DEF e, Covers, Asked, Over, BaseNeed, Sinks, Consumers, Inputs
  <2> QED BY <2>1, <2>2
<1>12. Busy(db)' = Busy(d)
  BY <1>6 DEF e, Busy, SameRows
<1> QED BY <1>10, <1>11, <1>12 DEF Good

LEMMA RestartKeeps ==
  ASSUME Core, Restart PROVE Core' /\ BuildMode'
<1> DEFINE raised == {s \in Step : db.impl[s] = TARGET}
           c == RetryFailed(db)
           flags == raised \cup (targets' \cap db.attached)
<1>1. /\ mode # "build" /\ mode' = "build" /\ run' = run /\ targets' \in TargetSets
      /\ db' = [c EXCEPT !.checkAfter = @ \cup raised \cup (targets' \cap db.attached)]
  BY DEF Restart, UserMay
<1>6. /\ Shape(c) /\ Good(c) /\ Busy(c) = Busy(db)
      /\ c.attached = db.attached /\ c.impl = db.impl
  BY RetryKeeps
<1>2. Columns(db)
  BY CoreFacts
<1> HIDE DEF c
<1>7. db' = [c EXCEPT !.checkAfter = @ \cup flags]
  <2>1. c.checkAfter \cup raised \cup (targets' \cap db.attached) = c.checkAfter \cup flags
    OBVIOUS
  <2> HIDE DEF raised, flags
  <2> QED BY <1>1, <2>1
<1>8. /\ flags \in SUBSET Step
      /\ {s \in Step : c.impl[s] = TARGET} \cup (targets' \cap c.attached) \subseteq flags
  BY <1>2, <1>6 DEF Columns
<1> HIDE DEF flags, raised
<1>9. Shape(db)' /\ Good(db)' /\ Busy(db)' = Busy(c)
  BY <1>6, <1>7, <1>8, Retargeted
<1>10. Busy(db)' = Busy(db)
  BY <1>6, <1>9
<1>11. Jobs'
  BY <1>1, <1>10 DEF Core, Jobs
<1>12. targets' \subseteq Step
  BY <1>1, NumberType
<1>13. Memory' /\ BuildMode'
  BY <1>1, <1>12 DEF Core, Memory, BuildMode
<1> QED BY <1>9, <1>11, <1>13 DEF Core

-----------------------------------------------------------------------------
(***************************************************************************)
(* The end of a build.                                                     *)
(***************************************************************************)

\* The columns of attached rows, without those of states and outputs.
SameAttached(d, e) ==
  /\ e.attached = d.attached
  /\ \A s \in d.attached : /\ e.need[s] = d.need[s] /\ e.impl[s] = d.impl[s]
                           /\ e.inp[s] = d.inp[s] /\ e.dyn[s] = d.dyn[s]

LEMMA AttachedCovers ==
  ASSUME NEW d, Columns(d), NEW e, SameAttached(d, e), CoversAll(d)
  PROVE  CoversAll(e)
<1> SUFFICES ASSUME NEW s \in e.attached
             PROVE  Asked(e, s) /\ \A t \in Sinks(e, s) : Over(e, s, t)
  BY DEF CoversAll
<1>1. s \in d.attached
  BY DEF SameAttached
<1>2. Asked(d, s) /\ \A t \in Sinks(d, s) : Over(d, s, t)
  BY <1>1 DEF CoversAll
<1>3. Asked(e, s)
  BY <1>1, <1>2 DEF Asked, BaseNeed, SameAttached
<1>4. ASSUME NEW t \in Sinks(e, s) PROVE Over(e, s, t)
  <2>1. t \in d.attached /\ t \in Sinks(d, s)
    BY DEF Sinks, Consumers, Inputs, SameAttached
  <2> QED BY <1>1, <1>2, <2>1 DEF Over, SameAttached
<1> QED BY <1>3, <1>4

\* The rows of the attached steps that are not needed are reverted.
IsReverted(d, e) ==
  \A s \in d.attached :
    IF d.impl[s] = OPTIONAL THEN e.state[s] = "PENDING"
                            ELSE e.state[s] = d.state[s] /\ e.out[s] = d.out[s]

LEMMA RevertKeeps ==
  ASSUME NEW d, Shape(d), Good(d), Busy(d) = {}
  PROVE  LET e == RevertOptional(d)
         IN /\ Shape(e) /\ Columns(e) /\ Sound(e) /\ Keeps(d, e) /\ Busy(e) = {}
            /\ SameBase(d, e) /\ IsReverted(d, e)
<1> DEFINE unneeded == {s \in d.attached : d.impl[s] = OPTIONAL}
           F == {f \in unneeded : d.out[f] \in {"BUILT", "OUTDATED"}}
           state == [s \in Step |-> IF s \in unneeded THEN "PENDING" ELSE d.state[s]]
           out == [f \in Step |-> IF f \in F THEN "PLANNED" ELSE d.out[f]]
           e == RevertOptional(d)
<1>1. Columns(d) /\ Sound(d)
  BY DEF Good
<1>2. e = [d EXCEPT !.state = state, !.out = out]
  BY DEF RevertOptional, Set, SetOut, Shape
<1>3. /\ state \in [Step -> State] /\ out \in [Step -> OutState]
      /\ d.count \in [Step -> Nat] /\ d.deferred \in SUBSET Step
  BY <1>1 DEF Columns, State, OutState
<1>4. /\ \A s \in Step : state[s] = IF s \in unneeded THEN "PENDING" ELSE d.state[s]
      /\ \A s \in Step : out[s] = IF s \in F THEN "PLANNED" ELSE d.out[s]
  OBVIOUS
<1>5. /\ \A s : s \in unneeded <=> s \in d.attached /\ d.impl[s] = OPTIONAL
      /\ \A s \in F : s \in unneeded /\ d.out[s] # "UNDECLARED"
  OBVIOUS
<1>6. d.attached \subseteq Step /\ \A s \in d.attached : d.state[s] # "NONE"
  BY <1>1 DEF Columns, Sound, RowsExist
<1> HIDE DEF unneeded, F, state, out, e
<1>7. IsRow(d, e, state, out, d.hashed, d.count, d.deferred)
  BY <1>2 DEF IsRow, Shape
<1>8. /\ Shape(e) /\ Columns(e) /\ SameBase(d, e)
      /\ e.state = state /\ e.out = out /\ e.deferred = d.deferred
  BY <1>1, <1>3, <1>7, RowFields
<1>9. SameNone(d, e)
  BY <1>4, <1>5, <1>6, <1>8 DEF SameNone
<1>10. Keeps(d, e) /\ EdgesDeclared(e)
  BY <1>1, <1>8, <1>9, BaseKeeps DEF Sound
<1>11. RowsExist(e)
  <2> SUFFICES ASSUME NEW s \in Step
               PROVE  /\ e.state[s] = "NONE" <=> e.out[s] = "UNDECLARED"
                      /\ e.state[s] = "NONE" => s \notin e.attached /\ e.inp[s] = {} /\ e.dyn[s] = {}
    BY DEF RowsExist
  <2>1. e.state[s] = "NONE" <=> d.state[s] = "NONE"
    BY <1>9 DEF SameNone
  <2>2. e.out[s] = "UNDECLARED" <=> d.out[s] = "UNDECLARED"
    BY <1>4, <1>5, <1>8
  <2> QED BY <1>1, <1>8, <2>1, <2>2 DEF Sound, RowsExist, SameBase
<1>12. DeferredWaits(e)
  <2> SUFFICES ASSUME NEW s \in e.deferred
               PROVE  e.state[s] = "PENDING" /\ \E f \in e.dyn[s] : e.out[f] # "BUILT"
    BY DEF DeferredWaits
  <2>1. s \in Step /\ d.state[s] = "PENDING"
    BY <1>1, <1>8 DEF Columns, Sound, DeferredWaits
  <2>2. PICK f \in d.dyn[s] : d.out[f] # "BUILT"
    BY <1>1, <1>8 DEF Sound, DeferredWaits
  <2>3. f \in Step
    BY <1>1, <2>1 DEF Columns
  <2>4. e.out[f] # "BUILT"
    BY <1>4, <1>8, <2>2, <2>3
  <2> QED BY <1>4, <1>8, <2>1, <2>2, <2>4 DEF SameBase
<1>13. SucceededBuilt(e)
  <2> SUFFICES ASSUME NEW s \in Step, e.state[s] = "SUCCEEDED" PROVE e.out[s] = "BUILT"
    BY DEF SucceededBuilt
  <2>1. s \notin unneeded /\ d.state[s] = "SUCCEEDED"
    BY <1>4, <1>8
  <2> QED BY <1>1, <1>4, <1>5, <1>8, <2>1 DEF Sound, SucceededBuilt
<1>14. Busy(e) = {}
  BY <1>4, <1>8 DEF Busy
<1>15. IsReverted(d, e)
  BY <1>4, <1>5, <1>6, <1>8 DEF IsReverted
<1> QED BY <1>8, <1>10, <1>11, <1>12, <1>13, <1>14, <1>15 DEF Sound, e

LEMMA KeptSteps ==
  ASSUME NEW d, Columns(d)
  PROVE  d.attached \subseteq Kept(d) /\ \A s \in Kept(d) : Inputs(d, s) \subseteq Kept(d)
<1> DEFINE closed == {T \in SUBSET Step : d.attached \subseteq T /\ \A s \in T : Inputs(d, s) \subseteq T}
<1>1. Kept(d) = {s \in Step : \A T \in closed : s \in T}
  BY DEF Kept
<1>2. d.attached \subseteq Step /\ \A s \in Step : Inputs(d, s) \subseteq Step
  BY DEF Columns, Inputs
<1>3. d.attached \subseteq Kept(d)
  BY <1>1, <1>2
<1>4. ASSUME NEW s \in Kept(d), NEW f \in Inputs(d, s) PROVE f \in Kept(d)
  <2>1. s \in Step /\ \A T \in closed : s \in T
    BY <1>1
  <2>2. ASSUME NEW T \in closed PROVE f \in T
    BY <2>1
  <2> QED BY <1>1, <1>2, <2>1, <2>2
<1> QED BY <1>3, <1>4

LEMMA DeleteKeeps ==
  ASSUME NEW d, Shape(d), Columns(d), Sound(d)
  PROVE  LET e == DeleteDetached(d)
         IN /\ Shape(e) /\ Columns(e) /\ Sound(e) /\ Keeps(d, e) /\ Busy(e) \subseteq Busy(d)
            /\ SameAttached(d, e)
            /\ \A s \in d.attached : e.state[s] = d.state[s] /\ e.out[s] = d.out[s]
<1> DEFINE gone == Step \ Kept(d)
           state == [s \in Step |-> IF s \in gone THEN "NONE" ELSE d.state[s]]
           out == [s \in Step |-> IF s \in gone THEN "UNDECLARED" ELSE d.out[s]]
           need == [s \in Step |-> IF s \in gone THEN OPTIONAL ELSE d.need[s]]
           impl == [s \in Step |-> IF s \in gone THEN OPTIONAL ELSE d.impl[s]]
           inp == [s \in Step |-> IF s \in gone THEN {} ELSE d.inp[s]]
           dyn == [s \in Step |-> IF s \in gone THEN {} ELSE d.dyn[s]]
           count == [s \in Step |-> IF s \in gone THEN 0 ELSE d.count[s]]
           dur == [s \in Step |-> IF s \in gone THEN 1 ELSE d.dur[s]]
           tail == [s \in Step |-> IF s \in gone THEN 1 ELSE d.tail[s]]
           hashed == d.hashed \ gone
           deferred == d.deferred \ gone
           ready == d.ready \ gone
           after == d.checkAfter \ gone
           again == d.checkReady \ gone
           e == DeleteDetached(d)
<1>1. e = [d EXCEPT !.state = state, !.out = out, !.hashed = hashed, !.deferred = deferred,
                    !.ready = ready, !.checkAfter = after, !.checkReady = again,
                    !.need = need, !.impl = impl, !.inp = inp, !.dyn = dyn,
                    !.count = count, !.dur = dur, !.tail = tail]
  BY DEF DeleteDetached, Set, SetOut, Shape
<1>2. /\ state \in [Step -> State] /\ out \in [Step -> OutState]
      /\ need \in [Step -> {OPTIONAL, DEFAULT}] /\ impl \in [Step -> Level]
  BY DEF Columns, State, OutState, Level
<1>3. /\ inp \in [Step -> SUBSET Step] /\ dyn \in [Step -> SUBSET Step] /\ count \in [Step -> Nat]
      /\ deferred \subseteq Step /\ ready \subseteq Step /\ after \subseteq Step /\ again \subseteq Step
  BY DEF Columns
<1>4. \A s \in Step \ gone : /\ state[s] = d.state[s] /\ out[s] = d.out[s] /\ need[s] = d.need[s]
                             /\ impl[s] = d.impl[s] /\ inp[s] = d.inp[s] /\ dyn[s] = d.dyn[s]
  OBVIOUS
<1>5. \A s \in gone : state[s] = "NONE" /\ out[s] = "UNDECLARED" /\ inp[s] = {} /\ dyn[s] = {}
  OBVIOUS
<1>6. /\ deferred = d.deferred \ gone /\ ready = d.ready \ gone
      /\ after = d.checkAfter \ gone /\ again = d.checkReady \ gone
  OBVIOUS
<1>7. /\ d.attached \subseteq Step \ gone
      /\ \A s \in Step \ gone : Inputs(d, s) \subseteq Step \ gone
  BY KeptSteps DEF Columns, Inputs
<1> HIDE DEF gone, state, out, need, impl, inp, dyn, count, dur, tail, hashed, deferred, ready,
             after, again, e
<1>8. e = [state |-> state, attached |-> d.attached, need |-> need, impl |-> impl,
           inp |-> inp, dyn |-> dyn, out |-> out, deferred |-> deferred,
           hashed |-> hashed, count |-> count, dur |-> dur, tail |-> tail,
           checkAfter |-> after, ready |-> ready, checkReady |-> again]
  BY <1>1 DEF Shape
<1>9. Shape(e)
  BY <1>8 DEF Shape
<1>10. /\ e.state = state /\ e.attached = d.attached /\ e.need = need /\ e.impl = impl
       /\ e.inp = inp /\ e.dyn = dyn /\ e.out = out /\ e.deferred = deferred
       /\ e.count = count /\ e.checkAfter = after /\ e.ready = ready /\ e.checkReady = again
  BY <1>8
<1>11. Columns(e)
  BY <1>2, <1>3, <1>10 DEF Columns
<1>12. RowsExist(e) /\ EdgesDeclared(e)
  <2>1. ASSUME NEW s \in gone, s \in Step
        PROVE  s \notin d.attached
    BY <1>7, <2>1
  <2>2. RowsExist(e)
    <3> SUFFICES ASSUME NEW s \in Step
                 PROVE  /\ e.state[s] = "NONE" <=> e.out[s] = "UNDECLARED"
                        /\ e.state[s] = "NONE" => s \notin e.attached /\ e.inp[s] = {} /\ e.dyn[s] = {}
      BY DEF RowsExist
    <3>1. CASE s \in gone
      BY <1>5, <1>10, <2>1, <3>1
    <3>2. CASE s \notin gone
      BY <1>4, <1>10, <3>2 DEF Sound, RowsExist
    <3> QED BY <3>1, <3>2
  <2>3. EdgesDeclared(e)
    <3> SUFFICES ASSUME NEW s \in Step
                 PROVE  /\ e.inp[s] = {} \/ e.inp[s] \in Inps[s]
                        /\ e.dyn[s] = {} \/ \E I \in Amends[s] : e.dyn[s] \subseteq I
                        /\ e.inp[s] \cap e.dyn[s] = {}
      BY DEF EdgesDeclared
    <3>1. CASE s \in gone
      BY <1>5, <1>10, <3>1
    <3>2. CASE s \notin gone
      BY <1>4, <1>10, <3>2 DEF Sound, EdgesDeclared
    <3> QED BY <3>1, <3>2
  <2> QED BY <2>2, <2>3
<1>13. DeferredWaits(e)
  <2> SUFFICES ASSUME NEW s \in e.deferred
               PROVE  e.state[s] = "PENDING" /\ \E f \in e.dyn[s] : e.out[f] # "BUILT"
    BY DEF DeferredWaits
  <2>1. s \in d.deferred /\ s \in Step \ gone
    BY <1>6, <1>10 DEF Columns
  <2>2. d.state[s] = "PENDING"
    BY <2>1 DEF Sound, DeferredWaits
  <2>3. PICK f \in d.dyn[s] : d.out[f] # "BUILT"
    BY <2>1 DEF Sound, DeferredWaits
  <2>4. f \in Step \ gone
    BY <1>7, <2>1, <2>3 DEF Inputs
  <2> QED BY <1>4, <1>10, <2>1, <2>2, <2>3, <2>4
<1>14. SucceededBuilt(e)
  <2> SUFFICES ASSUME NEW s \in Step, e.state[s] = "SUCCEEDED" PROVE e.out[s] = "BUILT"
    BY DEF SucceededBuilt
  <2>1. s \in Step \ gone
    BY <1>5, <1>10
  <2> QED BY <1>4, <1>10, <2>1 DEF Sound, SucceededBuilt
<1>15. Keeps(d, e)
  <2>1. ASSUME NEW s \in Step \ e.checkReady, e.state[s] # "NONE"
        PROVE  s \notin d.checkReady /\ d.state[s] # "NONE" /\ (s \in e.ready <=> s \in d.ready)
    <3>1. s \in Step \ gone
      BY <1>5, <1>10, <2>1
    <3> QED BY <1>4, <1>6, <1>10, <2>1, <3>1
  <2>2. ASSUME NEW s \in e.attached \ e.checkAfter
        PROVE  s \in d.attached \ d.checkAfter /\ e.need[s] = d.need[s] /\ e.impl[s] = d.impl[s]
    <3>1. s \in d.attached /\ s \in Step \ gone
      BY <1>7, <1>10
    <3> QED BY <1>4, <1>6, <1>10, <2>2, <3>1
  <2> QED BY <2>1, <2>2 DEF Keeps, KeepsReady, KeepsNeeds
<1>16. Busy(e) \subseteq Busy(d)
  <2> SUFFICES ASSUME NEW s \in Busy(e) PROVE s \in Busy(d)
    OBVIOUS
  <2>1. s \in Step /\ e.state[s] \in {"CHECKING", "RUNNING"}
    BY DEF Busy
  <2>2. s \in Step \ gone
    BY <1>5, <1>10, <2>1
  <2> QED BY <1>4, <1>10, <2>1, <2>2 DEF Busy
<1>17. SameAttached(d, e)
  BY <1>4, <1>7, <1>10 DEF SameAttached
<1>18. \A s \in d.attached : e.state[s] = d.state[s] /\ e.out[s] = d.out[s]
  BY <1>4, <1>7, <1>10
<1> QED BY <1>9, <1>11, <1>12, <1>13, <1>14, <1>15, <1>16, <1>17, <1>18 DEF Sound, e

\* What finalize leaves of a clean build of everything.
Cleaned(d) == Commit(d, DeleteDetached(Commit(d, RevertOptional(d))))

LEMMA CleanedKeeps ==
  ASSUME NEW d, Shape(d), Good(d), CoversAll(d), Busy(d) = {}
  PROVE  LET e == Cleaned(d)
         IN /\ Shape(e) /\ Good(e) /\ CoversAll(e) /\ Busy(e) = {}
            /\ SameAttached(d, e) /\ IsReverted(d, e)
<1> DEFINE a == RevertOptional(d)
           b == Commit(d, a)
           c == DeleteDetached(b)
           e == Commit(d, c)
<1>1. Columns(d)
  BY DEF Good
<1>2. Cleaned(d) = e
  BY DEF Cleaned
<1>3. /\ Shape(a) /\ Columns(a) /\ Sound(a) /\ Keeps(d, a) /\ Busy(a) = {}
      /\ SameBase(d, a) /\ IsReverted(d, a)
  BY RevertKeeps
<1> HIDE DEF a
<1>4. Shape(b) /\ Good(b) /\ SameRows(a, b) /\ b.impl = a.impl /\ Keeps(d, b)
  BY <1>3, Committed
<1>5. Columns(b) /\ Sound(b) /\ Busy(b) = {}
  BY <1>3, <1>4 DEF Good, Busy, SameRows
<1> HIDE DEF b
<1>6. /\ Shape(c) /\ Columns(c) /\ Sound(c) /\ Keeps(b, c) /\ Busy(c) \subseteq Busy(b)
      /\ SameAttached(b, c)
      /\ \A s \in b.attached : c.state[s] = b.state[s] /\ c.out[s] = b.out[s]
  BY <1>4, <1>5, DeleteKeeps
<1>7. Keeps(d, c)
  BY <1>4, <1>6, KeepsTwice
<1> HIDE DEF c
<1>8. Shape(e) /\ Good(e) /\ SameRows(c, e) /\ e.impl = c.impl
  BY <1>6, <1>7, Committed
<1> HIDE DEF e
<1>9. Busy(e) = {}
  BY <1>5, <1>6, <1>8 DEF Busy, SameRows
<1>10. SameAttached(d, e)
  <2>1. /\ b.attached = d.attached /\ b.need = d.need /\ b.impl = d.impl /\ b.inp = d.inp
        /\ b.dyn = d.dyn
    BY <1>3, <1>4 DEF SameBase, SameRows
  <2>2. e.attached = c.attached /\ e.need = c.need /\ e.impl = c.impl /\ e.inp = c.inp /\ e.dyn = c.dyn
    BY <1>8 DEF SameRows
  <2> QED BY <1>6, <2>1, <2>2 DEF SameAttached
<1>11. CoversAll(e)
  BY <1>1, <1>10, AttachedCovers
<1>12. IsReverted(d, e)
  <2>1. b.attached = d.attached /\ b.state = a.state /\ b.out = a.out
    BY <1>3, <1>4 DEF SameBase, SameRows
  <2>2. e.state = c.state /\ e.out = c.out
    BY <1>8 DEF SameRows
  <2> QED BY <1>3, <1>6, <2>1, <2>2 DEF IsReverted
<1> QED BY <1>2, <1>8, <1>9, <1>10, <1>11, <1>12

\* Scheduler.build_completed raises no need.
LEMMA CompletedKeeps ==
  ASSUME NEW d, Shape(d), Good(d), CoversAll(d)
  PROVE  LET e == BuildCompleted(d)
         IN Shape(e) /\ Good(e) /\ SameRows(d, e) /\ Lowers(d, e)
<1> DEFINE dur == [s \in Step |-> IF d.state[s] # "NONE" /\ took[s] # 0 THEN took[s] ELSE d.dur[s]]
           a == [d EXCEPT !.dur = dur]
           b == Commit(d, a)
           e == UpdateMetaAfter(b)
<1>1. BuildCompleted(d) = e
  BY DEF BuildCompleted
<1> HIDE DEF dur
<1>2. a = [state |-> d.state, attached |-> d.attached, need |-> d.need, impl |-> d.impl,
           inp |-> d.inp, dyn |-> d.dyn, out |-> d.out, deferred |-> d.deferred,
           hashed |-> d.hashed, count |-> d.count, dur |-> dur, tail |-> d.tail,
           checkAfter |-> d.checkAfter, ready |-> d.ready, checkReady |-> d.checkReady]
  BY DEF Shape
<1> HIDE DEF a
<1>3. Shape(a)
  BY <1>2 DEF Shape
<1>4. SameRows(d, a) /\ SameReady(d, a) /\ a.impl = d.impl /\ a.checkAfter = d.checkAfter
  BY <1>2 DEF SameRows, SameReady
<1>5. Columns(a)
  BY <1>4 DEF Good, Columns, SameRows, SameReady
<1>6. Sound(a)
  BY <1>4, RowsSame DEF Good
<1>7. Keeps(d, a)
  BY <1>4 DEF Keeps, KeepsReady, KeepsNeeds, SameRows, SameReady
<1>8. Shape(b) /\ Good(b) /\ SameRows(a, b) /\ b.impl = a.impl
  BY <1>3, <1>5, <1>6, <1>7, Committed
<1> HIDE DEF b
<1>9. SameRows(d, b) /\ b.impl = d.impl
  BY <1>4, <1>8 DEF SameRows
<1>10. Columns(d) /\ SameAttached(d, b)
  BY <1>9 DEF Good, SameAttached, SameRows
<1>11. CoversAll(b)
  BY <1>10, AttachedCovers
<1>12. Columns(b) /\ Sound(b) /\ EdgesDeclared(b) /\ Covers(b) /\ Exact(b)
  BY <1>8 DEF Good, Sound
<1>13. /\ Shape(e) /\ Columns(e) /\ SameRows(b, e) /\ SameReady(b, e)
       /\ e.checkAfter = {} /\ CoversAll(e) /\ Lowers(b, e)
  BY <1>8, <1>11, <1>12, NeedsUpdated
<1> HIDE DEF e
<1>14. Sound(e) /\ \A s : IsReady(e, s) <=> IsReady(b, s)
  BY <1>12, <1>13, RowsSame
<1>15. Exact(e)
  BY <1>12, <1>13, <1>14 DEF Exact, SameRows, SameReady
<1>16. Covers(e)
  BY <1>13 DEF CoversAll, Covers
<1>17. SameRows(d, e) /\ Lowers(d, e)
  BY <1>9, <1>13 DEF SameRows, Lowers
<1> QED BY <1>1, <1>13, <1>14, <1>15, <1>16, <1>17 DEF Good

\* What the end of a build does.
LEMMA Ending ==
  ASSUME Core, EndBuild
  PROVE  \E d, c : /\ Shape(d) /\ Good(d) /\ CoversAll(d) /\ Busy(d) = {} /\ d.checkReady = {}
                   /\ \A s \in Step : ~Eligible(d, s)
                   /\ mode' = IF IsClean(d) THEN "clean" ELSE "unclean"
                   /\ Shape(c) /\ Good(c) /\ CoversAll(c) /\ Busy(c) = {} /\ SameAttached(d, c)
                   /\ IF IsClean(d) /\ targets = {} THEN IsReverted(d, c) ELSE c = d
                   /\ Shape(db)' /\ Good(db)' /\ db' = BuildCompleted(c)
<1> DEFINE d == UpdateMeta(db)
           c == IF IsClean(d) /\ targets = {} THEN Cleaned(d) ELSE d
<1>1. /\ Busy(db) = {} /\ targets' = targets
      /\ \A s \in Step : ~Eligible(d, s)
      /\ mode' = IF IsClean(d) THEN "clean" ELSE "unclean"
      /\ db' = BuildCompleted(c)
  BY DEF EndBuild, Cleaned
<1>2. Shape(d) /\ Good(d) /\ SameRows(db, d) /\ d.checkReady = {} /\ CoversAll(d)
  BY CoreFacts, MetaUpdated
<1>3. Busy(d) = {}
  BY <1>1, <1>2 DEF Busy, SameRows
<1> HIDE DEF d
<1>4. /\ Shape(c) /\ Good(c) /\ CoversAll(c) /\ Busy(c) = {} /\ SameAttached(d, c)
      /\ IF IsClean(d) /\ targets = {} THEN IsReverted(d, c) ELSE c = d
  <2>1. CASE IsClean(d) /\ targets = {}
    <3>1. c = Cleaned(d)
      BY <2>1
    <3> QED BY <1>2, <1>3, <2>1, <3>1, CleanedKeeps
  <2>2. CASE ~(IsClean(d) /\ targets = {})
    <3>1. c = d
      BY <2>2
    <3>2. SameAttached(d, d)
      BY DEF SameAttached
    <3> QED BY <1>2, <1>3, <2>2, <3>1, <3>2
  <2> QED BY <2>1, <2>2
<1> HIDE DEF c
<1>5. Shape(db)' /\ Good(db)'
  <2> DEFINE e == BuildCompleted(c)
  <2>1. Shape(e) /\ Good(e)
    BY <1>4, CompletedKeeps
  <2>2. db' = e
    BY <1>1
  <2> HIDE DEF e
  <2> QED BY <1>1, <2>1, <2>2, Written
<1> QED BY <1>1, <1>2, <1>3, <1>4, <1>5

LEMMA NothingInUse ==
  ASSUME NEW d, Busy(d) = {}
  PROVE  UnitsInUse(d) = 0
<1> DEFINE S == {s \in Step : d.state[s] = "RUNNING"}
           Body(g) == [s \in SUBSET S |->
                         IF s = {} THEN 0
                         ELSE Units[CHOOSE x \in s : TRUE] + g[s \ {CHOOSE x \in s : TRUE}]]
           g == CHOOSE g : g = Body(g)
<1>1. S = {}
  BY DEF Busy
<1>2. UnitsInUse(d) = g[S]
  BY DEF UnitsInUse, FoldSet, MapThenFoldSet
<1>3. \E h : h = Body(h)
  <2> DEFINE h == [s \in SUBSET S |-> 0]
  <2>1. h = Body(h)
    BY <1>1
  <2> HIDE DEF h, Body
  <2> QED BY <2>1
<1>4. g = Body(g)
  BY <1>3
<1> HIDE DEF g
<1> QED BY <1>1, <1>2, <1>4

\* Who has a root, or waits for a file that waits, is explained.
LEMMA RootsExplain ==
  ASSUME Columns(db)', EdgesDeclared(db)',
         \A s \in PendingSteps(db)' :
           (HasRoot(s) \/ \E f \in Inputs(db, s) : FileBlocks(f, s))'
  PROVE  (PendingSteps(db) \subseteq Explained)'
<1> DEFINE P == PendingSteps(db)'
           Closed(T) == \A s \in P : HasRoot(s)' \/ (\E f \in T : FileBlocks(f, s)') => s \in T
<1>1. P \subseteq Step
  BY DEF PendingSteps, Required, Columns
<1>2. \A s \in P : \A f \in Inputs(db, s)' : FileBlocks(f, s)' /\ f \notin P => HasRoot(s)'
  BY DEF HasRoot
<1>3. \A s \in P : HasRoot(s)' \/ \E f \in Inputs(db, s)' : FileBlocks(f, s)'
  OBVIOUS
<1>4. Explained' = {s \in Step : \A T \in {U \in SUBSET P : Closed(U)} : s \in T}
  BY DEF Explained
<1> HIDE DEF P
<1>5. ASSUME NEW T \in SUBSET P, Closed(T), P \ T # {} PROVE FALSE
  <2> DEFINE e == db'
  <2>1. P \ T \in SUBSET Step /\ EdgesDeclared(e)
    <3>1. EdgesDeclared(e)
      BY DEF EdgesDeclared
    <3> QED BY <1>1, <3>1
  <2>2. PICK s \in P \ T : Inputs(e, s) \cap (P \ T) = {}
    <3> DEFINE R == P \ T
    <3>1. R \in SUBSET Step /\ R # {}
      BY <1>5, <2>1
    <3> HIDE DEF R, e
    <3>2. \E s \in R : Inputs(e, s) \cap R = {}
      BY <2>1, <3>1, SourceExists
    <3> QED BY <3>2 DEF R
  <2>3. ~HasRoot(s)' /\ \A f \in T : ~FileBlocks(f, s)'
    BY <1>5, <2>2
  <2>4. PICK f \in Inputs(db, s)' : FileBlocks(f, s)'
    BY <1>3, <2>2, <2>3
  <2>5. f \in P
    BY <1>2, <2>2, <2>3, <2>4
  <2>6. f \in Inputs(e, s)
    BY <2>4 DEF Inputs
  <2> QED BY <2>2, <2>3, <2>4, <2>5, <2>6
<1>6. \A s \in P : s \in Explained'
  <2> SUFFICES ASSUME NEW s \in P, NEW T \in {U \in SUBSET P : Closed(U)} PROVE s \in T
    BY <1>1, <1>4
  <2>1. T \in SUBSET P /\ Closed(T)
    OBVIOUS
  <2> HIDE DEF Closed
  <2>2. P \ T = {}
    BY <1>5, <2>1
  <2> QED BY <2>2
<1> QED BY <1>6 DEF P

\* A step that is required in the end was so, with the same row.
LEMMA RequiredBefore ==
  ASSUME NEW d, NEW c, NEW e, Columns(d), Columns(c), Columns(e),
         SameAttached(d, c), SameRows(c, e), Lowers(c, e), NEW s \in Required(e)
  PROVE  /\ s \in Required(d) /\ s \in Step /\ d.impl[s] # OPTIONAL
         /\ e.state[s] = c.state[s] /\ e.out[s] = c.out[s]
<1>1. s \in e.attached /\ e.impl[s] > Threshold
  BY DEF Required
<1>2. s \in d.attached /\ s \in Step /\ c.impl[s] = d.impl[s]
  BY <1>1 DEF SameRows, SameAttached, Columns
<1>3. e.impl[s] <= c.impl[s] /\ e.impl[s] \in {1, 2, 3} /\ c.impl[s] \in {1, 2, 3}
  BY <1>2 DEF Lowers, Columns, Level, OPTIONAL, DEFAULT, TARGET
<1>4. Threshold \in {1, 2}
  BY DEF Threshold, OPTIONAL, DEFAULT
<1>5. d.impl[s] > Threshold /\ d.impl[s] # 1
  BY <1>1, <1>2, <1>3, <1>4
<1> QED BY <1>2, <1>5 DEF Required, SameRows, OPTIONAL

\* What is left PENDING could not be dispatched.
LEMMA LeftWaits ==
  ASSUME NEW d, Good(d), Busy(d) = {}, d.checkReady = {},
         NEW s \in PendingSteps(d), ~Eligible(d, s)
  PROVE  \/ Units[s] > Available \/ ~Safe
         \/ \E f \in Inputs(d, s) : Blocks(d, f, s) \/ (s \in d.deferred /\ f \in d.dyn[s] /\ d.out[f] # "BUILT")
<1>1. /\ s \in d.attached /\ s \in Step /\ d.state[s] = "PENDING" /\ d.impl[s] > Threshold
      /\ d.impl[s] \in {1, 2, 3}
  BY DEF PendingSteps, Required, Good, Columns, Level, OPTIONAL, DEFAULT, TARGET
<1>2. d.impl[s] > OPTIONAL
  BY <1>1 DEF Threshold, OPTIONAL, DEFAULT
<1>3. ~Safe \/ s \in d.deferred \/ s \notin d.ready \/ ~HasResources(d, s)
  BY <1>1, <1>2 DEF Eligible
<1>4. CASE s \in d.deferred
  <2>1. PICK f \in d.dyn[s] : d.out[f] # "BUILT"
    BY <1>4 DEF Good, Sound, DeferredWaits
  <2> QED BY <1>4, <2>1 DEF Inputs
<1>5. CASE s \notin d.ready
  <2>1. ~IsReady(d, s)
    BY <1>1, <1>5 DEF Good, Exact
  <2> QED BY <2>1 DEF IsReady
<1>6. CASE ~HasResources(d, s)
  <2>1. Units[s] \in Nat /\ Available \in Nat
    BY <1>1, NumberType
  <2>2. UnitsInUse(d) = 0
    BY NothingInUse
  <2> QED BY <1>6, <2>1, <2>2 DEF HasResources
<1> QED BY <1>3, <1>4, <1>5, <1>6

LEMMA EndExplains ==
  ASSUME Core, EndBuild
  PROVE  (PendingSteps(db) \subseteq Explained)'
<1>1. PICK d, c : /\ Shape(d) /\ Good(d) /\ CoversAll(d) /\ Busy(d) = {} /\ d.checkReady = {}
                  /\ \A s \in Step : ~Eligible(d, s)
                  /\ mode' = IF IsClean(d) THEN "clean" ELSE "unclean"
                  /\ Shape(c) /\ Good(c) /\ CoversAll(c) /\ Busy(c) = {} /\ SameAttached(d, c)
                  /\ IF IsClean(d) /\ targets = {} THEN IsReverted(d, c) ELSE c = d
                  /\ Shape(db)' /\ Good(db)' /\ db' = BuildCompleted(c)
  BY Ending
<1> DEFINE e == BuildCompleted(c)
<1>2. Shape(e) /\ Good(e) /\ SameRows(c, e) /\ Lowers(c, e)
  BY <1>1, CompletedKeeps
<1>3. db' = e /\ targets' = targets /\ plan' = plan
  BY <1>1 DEF EndBuild
<1>4. Good(d) /\ Busy(d) = {} /\ d.checkReady = {} /\ \A s \in Step : ~Eligible(d, s)
  BY <1>1
<1>5. SameAttached(d, c) /\ Good(c) /\ IF IsClean(d) /\ targets = {} THEN IsReverted(d, c) ELSE c = d
  BY <1>1
<1> HIDE DEF e
<1>6. PendingSteps(db)' = PendingSteps(e) /\ Safe' = Safe
  BY <1>3 DEF PendingSteps, Required, Threshold, Safe
<1>7. Columns(d) /\ Columns(c) /\ Columns(e) /\ EdgesDeclared(e)
  BY <1>2, <1>4, <1>5 DEF Good, Sound
<1>8. \A s \in PendingSteps(e) : s \in Required(d) /\ s \in Step /\ d.impl[s] # OPTIONAL /\ c.state[s] = "PENDING"
  <2> SUFFICES ASSUME NEW s \in PendingSteps(e)
               PROVE  s \in Required(d) /\ s \in Step /\ d.impl[s] # OPTIONAL /\ c.state[s] = "PENDING"
    OBVIOUS
  <2>1. s \in Required(e) /\ e.state[s] = "PENDING"
    BY DEF PendingSteps
  <2> QED BY <1>2, <1>5, <1>7, <2>1, RequiredBefore
<1>9. \A s \in PendingSteps(e) : s \in PendingSteps(d)
  BY <1>5, <1>8 DEF IsReverted, PendingSteps, Required
<1>10. CASE IsClean(d)
  <2>1. PendingSteps(e) = {}
    BY <1>9, <1>10 DEF IsClean
  <2> QED BY <1>6, <2>1
<1>11. CASE ~IsClean(d)
  <2>1. SameRows(d, e)
    BY <1>2, <1>5, <1>11
  <2>2. ASSUME NEW s \in PendingSteps(db)'
        PROVE  (HasRoot(s) \/ \E f \in Inputs(db, s) : FileBlocks(f, s))'
    <3>1. s \in PendingSteps(d) /\ s \in Step
      BY <1>6, <1>8, <1>9
    <3>2. \/ Units[s] > Available \/ ~Safe
          \/ \E f \in Inputs(d, s) : Blocks(d, f, s) \/ (s \in d.deferred /\ f \in d.dyn[s] /\ d.out[f] # "BUILT")
      BY <1>4, <3>1, LeftWaits
    <3>3. CASE Units[s] > Available \/ ~Safe
      BY <1>6, <3>3 DEF HasRoot
    <3>4. CASE \E f \in Inputs(d, s) : Blocks(d, f, s) \/ (s \in d.deferred /\ f \in d.dyn[s] /\ d.out[f] # "BUILT")
      <4>1. PICK f \in Inputs(d, s) : Blocks(d, f, s) \/ (s \in d.deferred /\ f \in d.dyn[s] /\ d.out[f] # "BUILT")
        BY <3>4
      <4>2. f \in Inputs(db, s)' /\ FileBlocks(f, s)'
        BY <1>3, <2>1, <4>1 DEF Inputs, FileBlocks, Blocks, SameRows
      <4> QED BY <4>2
    <3> QED BY <3>2, <3>3, <3>4
  <2>3. Columns(db)' /\ EdgesDeclared(db)'
    BY <1>1 DEF Good, Sound
  <2> QED BY <2>2, <2>3, RootsExplain
<1> QED BY <1>10, <1>11

\* In a clean build all that is required has been built, and what it uses.
LEMMA CleanBuilt ==
  ASSUME NEW d, Good(d), CoversAll(d), Busy(d) = {}, IsClean(d)
  PROVE  /\ \A s \in Required(d) : s \in Step /\ d.state[s] = "SUCCEEDED" /\ d.out[s] = "BUILT"
         /\ \A s \in d.attached : BaseNeed(d, s) > Threshold \/ Sinks(d, s) \cap Required(d) # {}
                                    => s \in Required(d)
<1>1. Threshold \in {1, 2}
  BY DEF Threshold, OPTIONAL, DEFAULT
<1>2. \A s \in d.attached : /\ s \in Step /\ d.state[s] \in State /\ d.state[s] # "NONE"
                            /\ d.impl[s] \in {1, 2, 3} /\ d.need[s] \in {1, 2}
  BY DEF Good, Columns, Sound, RowsExist, Level, OPTIONAL, DEFAULT, TARGET
<1>3. ASSUME NEW s \in Required(d)
      PROVE  s \in Step /\ d.state[s] = "SUCCEEDED" /\ d.out[s] = "BUILT"
  <2>1. s \in d.attached /\ s \in Step
    BY <1>2 DEF Required
  <2>2. d.state[s] # "FAILED" /\ d.state[s] # "PENDING" /\ d.state[s] \notin {"CHECKING", "RUNNING"}
    BY <2>1 DEF IsClean, PendingSteps, Busy
  <2>3. d.state[s] = "SUCCEEDED"
    BY <1>2, <2>1, <2>2 DEF State
  <2> QED BY <2>1, <2>3 DEF Good, Sound, SucceededBuilt
<1>4. ASSUME NEW s \in d.attached, BaseNeed(d, s) > Threshold \/ Sinks(d, s) \cap Required(d) # {}
      PROVE  s \in Required(d)
  <2>1. Asked(d, s) /\ \A t \in Sinks(d, s) : Over(d, s, t)
    BY DEF CoversAll
  <2>2. BaseNeed(d, s) \in {1, 2, 3}
    BY <1>2 DEF BaseNeed, TARGET
  <2>3. CASE BaseNeed(d, s) > Threshold
    BY <1>1, <1>2, <2>1, <2>2, <2>3 DEF Asked, Required
  <2>4. CASE Sinks(d, s) \cap Required(d) # {}
    <3>1. PICK t \in Sinks(d, s) : t \in d.attached /\ d.impl[t] > Threshold
      BY <2>4 DEF Required
    <3> QED BY <1>1, <1>2, <2>1, <3>1 DEF Over, Required
  <2> QED BY <1>4, <2>3, <2>4
<1> QED BY <1>3, <1>4

LEMMA EndIsComplete ==
  ASSUME Core, EndBuild
  PROVE  CleanIsComplete'
<1>1. PICK d, c : /\ Shape(d) /\ Good(d) /\ CoversAll(d) /\ Busy(d) = {} /\ d.checkReady = {}
                  /\ \A s \in Step : ~Eligible(d, s)
                  /\ mode' = IF IsClean(d) THEN "clean" ELSE "unclean"
                  /\ Shape(c) /\ Good(c) /\ CoversAll(c) /\ Busy(c) = {} /\ SameAttached(d, c)
                  /\ IF IsClean(d) /\ targets = {} THEN IsReverted(d, c) ELSE c = d
                  /\ Shape(db)' /\ Good(db)' /\ db' = BuildCompleted(c)
  BY Ending
<1> SUFFICES ASSUME mode' = "clean"
             PROVE  (/\ \A s \in Needed : db.state[s] = "SUCCEEDED" /\ db.out[s] = "BUILT"
                     /\ \A s \in db.attached : s \in Needed \/ (db.state[s] = "SUCCEEDED" /\ targets = {}) =>
                          Inputs(db, s) \cap db.attached \subseteq Built(db))'
  BY DEF CleanIsComplete
<1> DEFINE e == BuildCompleted(c)
           R == Required(d)
<1>2. Shape(e) /\ Good(e) /\ SameRows(c, e) /\ Lowers(c, e)
  BY <1>1, CompletedKeeps
<1>3. db' = e /\ targets' = targets
  BY <1>1 DEF EndBuild
<1> HIDE DEF e
<1>4. IsClean(d)
  BY <1>1
<1>5. /\ \A s \in R : s \in Step /\ d.state[s] = "SUCCEEDED" /\ d.out[s] = "BUILT"
      /\ \A s \in d.attached : BaseNeed(d, s) > Threshold \/ Sinks(d, s) \cap R # {} => s \in R
  BY <1>1, <1>4, CleanBuilt
<1>6. SameAttached(d, c) /\ (targets = {} => IsReverted(d, c)) /\ (targets # {} => c = d) /\ Columns(d)
  BY <1>1, <1>4 DEF Good
<1>7. /\ e.attached = d.attached /\ e.state = c.state /\ e.out = c.out
      /\ \A s \in d.attached : e.need[s] = d.need[s] /\ Inputs(e, s) = Inputs(d, s)
  BY <1>2, <1>6 DEF SameAttached, SameRows, Inputs
<1>8. \A s \in d.attached : s \in Step /\ d.impl[s] \in {1, 2, 3}
  BY <1>6 DEF Columns, Level, OPTIONAL, DEFAULT, TARGET
<1>9. \A s \in R : s \in d.attached /\ d.impl[s] # OPTIONAL
  BY <1>8 DEF Required, Threshold, OPTIONAL, DEFAULT
<1>10. \A s \in R : e.state[s] = "SUCCEEDED" /\ e.out[s] = "BUILT"
  BY <1>5, <1>6, <1>7, <1>9 DEF IsReverted
<1>11. \A s \in d.attached : Sinks(e, s) = Sinks(d, s) /\ BaseNeed(e, s) = BaseNeed(d, s)
  <2> SUFFICES ASSUME NEW s \in d.attached
               PROVE  Sinks(e, s) = Sinks(d, s) /\ BaseNeed(e, s) = BaseNeed(d, s)
    OBVIOUS
  <2>1. \A t : t \in Sinks(e, s) <=> t \in Sinks(d, s)
    BY <1>7 DEF Sinks, Consumers
  <2>2. Sinks(e, s) = Sinks(d, s)
    BY <2>1
  <2>3. BaseNeed(e, s) = BaseNeed(d, s)
    BY <1>7 DEF BaseNeed
  <2> QED BY <2>2, <2>3
<1>12. Needed' \subseteq R
  <2> DEFINE closed == {T \in SUBSET e.attached :
                          \A s \in e.attached :
                            BaseNeed(e, s) > Threshold \/ Sinks(e, s) \cap T # {} => s \in T}
  <2>1. Needed' = {s \in Step : \A T \in closed : s \in T}
    BY <1>3 DEF Needed, BaseNeed, Threshold, Sinks, Consumers, Inputs
  <2>2. R \in SUBSET e.attached
    BY <1>7, <1>9
  <2>3. \A s \in e.attached : BaseNeed(e, s) > Threshold \/ Sinks(e, s) \cap R # {} => s \in R
    BY <1>5, <1>7, <1>11
  <2> HIDE DEF R
  <2>4. R \in closed
    BY <2>2, <2>3
  <2> HIDE DEF closed
  <2> QED BY <2>1, <2>4
<1>13. ASSUME NEW s \in e.attached, s \in Needed' \/ (e.state[s] = "SUCCEEDED" /\ targets = {})
       PROVE  s \in R
  <2>1. CASE s \in Needed'
    BY <1>12, <2>1
  <2>2. CASE e.state[s] = "SUCCEEDED" /\ targets = {}
    <3>1. s \in d.attached /\ d.impl[s] # OPTIONAL
      BY <1>6, <1>7, <2>2 DEF IsReverted
    <3>2. d.impl[s] > Threshold
      BY <1>8, <2>2, <3>1 DEF Threshold, OPTIONAL
    <3> QED BY <3>1, <3>2 DEF Required
  <2> QED BY <1>13, <2>1, <2>2
<1>14. ASSUME NEW s \in e.attached, s \in R, NEW f \in Inputs(e, s) \cap e.attached
       PROVE  f \in Step /\ e.out[f] = "BUILT"
  <2>1. f \in d.attached /\ f \in Inputs(d, s) /\ s \in d.attached /\ s \in Step
    BY <1>7, <1>8, <1>14
  <2>2. s \in Sinks(d, f)
    BY <2>1 DEF Sinks, Consumers
  <2>3. f \in R
    BY <1>5, <1>14, <2>1, <2>2
  <2> QED BY <1>5, <1>10, <2>3
<1> HIDE DEF R
<1>15. \A s \in Needed' : e.state[s] = "SUCCEEDED" /\ e.out[s] = "BUILT"
  BY <1>10, <1>12
<1>16. \A s \in e.attached : s \in Needed' \/ (e.state[s] = "SUCCEEDED" /\ targets = {}) =>
         Inputs(e, s) \cap e.attached \subseteq Built(e)
  BY <1>13, <1>14 DEF Built
<1> QED BY <1>3, <1>15, <1>16 DEF Inputs, Built

LEMMA EndBuildKeeps ==
  ASSUME Core, EndBuild PROVE Core'
<1>1. PICK d, c : /\ mode' = IF IsClean(d) THEN "clean" ELSE "unclean"
                  /\ Good(c) /\ Shape(c) /\ CoversAll(c) /\ Busy(c) = {}
                  /\ Shape(db)' /\ Good(db)' /\ db' = BuildCompleted(c)
  BY Ending
<1>2. run' = run /\ targets' = targets /\ Busy(db) = {}
  BY DEF EndBuild
<1>3. Busy(db)' = {}
  <2> DEFINE e == BuildCompleted(c)
  <2>1. SameRows(c, e)
    BY <1>1, CompletedKeeps
  <2>2. db' = e
    BY <1>1
  <2> HIDE DEF e
  <2> QED BY <1>1, <2>1, <2>2 DEF Busy, SameRows
<1>4. Jobs'
  BY <1>2, <1>3 DEF Core, Jobs
<1>5. Memory'
  BY <1>1, <1>2 DEF Core, Memory
<1> QED BY <1>1, <1>4, <1>5 DEF Core
-----------------------------------------------------------------------------
(***************************************************************************)
(* The inductive invariant.                                                *)
(***************************************************************************)
LEMMA InitHolds == Init => IInv
<1> SUFFICES ASSUME Init PROVE IInv
  OBVIOUS
<1>1. db = [state |-> [s \in Step |-> "NONE"], attached |-> {},
            need |-> [s \in Step |-> OPTIONAL], impl |-> [s \in Step |-> OPTIONAL],
            inp |-> [s \in Step |-> {}], dyn |-> [s \in Step |-> {}],
            out |-> [s \in Step |-> "UNDECLARED"],
            deferred |-> {}, hashed |-> {}, count |-> [s \in Step |-> 0],
            dur |-> [s \in Step |-> 1], tail |-> [s \in Step |-> 1],
            checkAfter |-> {}, ready |-> {}, checkReady |-> {}]
  BY DEF Init
<1>2. Shape(db)
  BY <1>1 DEF Shape
<1>3. Columns(db)
  BY <1>1 DEF Columns, State, OutState, Level
<1>4. Sound(db)
  BY <1>1 DEF Sound, RowsExist, EdgesDeclared, DeferredWaits, SucceededBuilt
<1>5. Exact(db) /\ Covers(db)
  BY <1>1 DEF Exact, Covers
<1>6. Jobs /\ Memory
  BY <1>1, NumberType DEF Init, Jobs, Memory, Busy
<1>7. PendingExplained /\ CleanIsComplete
  BY DEF Init, PendingExplained, CleanIsComplete
<1> QED BY <1>2, <1>3, <1>4, <1>5, <1>6, <1>7 DEF IInv, Core, Good

LEMMA StepKeeps ==
  ASSUME Core, NEW s \in Step, StepNext(s) PROVE Core' /\ BuildMode'
BY DefineKeeps, RecycleKeeps, BeginKeeps, AmendKeeps, SucceedKeeps, FailKeeps, DeferKeeps,
   StillValidKeeps, MismatchKeeps, LoseKeeps DEF StepNext

LEMMA NextHolds == IInv /\ [Next]_vars => IInv'
<1> SUFFICES ASSUME IInv, [Next]_vars PROVE IInv'
  OBVIOUS
<1>1. Core /\ PendingExplained /\ CleanIsComplete
  BY DEF IInv
<1>2. Core' /\ BuildMode' => IInv'
  BY DEF IInv, BuildMode, PendingExplained, CleanIsComplete
<1>3. CASE PopPlan
  BY <1>1, <1>2, <1>3, PopPlanKeeps
<1>4. CASE BeginPlan
  BY <1>1, <1>2, <1>4, BeginPlanKeeps
<1>5. CASE EndPlan
  BY <1>1, <1>2, <1>5, EndPlanKeeps
<1>6. CASE Pop
  BY <1>1, <1>2, <1>6, PopKeeps
<1>7. CASE EndBuild
  <2>1. Core'
    BY <1>1, <1>7, EndBuildKeeps
  <2>2. PendingExplained'
    <3>1. (PendingSteps(db) \subseteq Explained)'
      BY <1>1, <1>7, EndExplains
    <3> QED BY <3>1 DEF PendingExplained
  <2>3. CleanIsComplete'
    BY <1>1, <1>7, EndIsComplete
  <2> QED BY <2>1, <2>2, <2>3 DEF IInv
<1>8. CASE NextBuild
  BY <1>1, <1>2, <1>8, NextBuildKeeps
<1>9. CASE Restart
  BY <1>1, <1>2, <1>9, RestartKeeps
<1>10. CASE \E s \in Step : StepNext(s)
  BY <1>1, <1>2, <1>10, StepKeeps
<1>11. CASE UNCHANGED vars
  <2>1. /\ db' = db /\ run' = run /\ plan' = plan /\ mode' = mode /\ targets' = targets
    BY <1>11 DEF vars
  <2>2. Core'
    <3>1. Shape(db)' /\ Good(db)'
      <4> DEFINE c == db
      <4>1. db' = c /\ Shape(c) /\ Good(c)
        BY <1>1, <2>1, CoreFacts
      <4> HIDE DEF c
      <4> QED BY <2>1, <4>1, Written
    <3>2. Jobs' /\ Memory'
      BY <1>1, <2>1 DEF Core, Jobs, Busy, Memory
    <3> QED BY <3>1, <3>2 DEF Core
  <2>3. PendingExplained'
    BY <1>1, <2>1 DEF PendingExplained, PendingSteps, Explained, Required, Threshold, HasRoot,
                      FileBlocks, Blocks, Inputs, Safe
  <2>4. CleanIsComplete'
    BY <1>1, <2>1 DEF CleanIsComplete, Needed, BaseNeed, Threshold, Sinks, Consumers, Inputs, Built
  <2> QED BY <2>2, <2>3, <2>4 DEF IInv
<1> QED BY <1>3, <1>4, <1>5, <1>6, <1>7, <1>8, <1>9, <1>10, <1>11 DEF Next

(***************************************************************************)
(* The rows are well formed, every flag that a change calls for is set,    *)
(* and what the flags leave alone is right (Scheduler._update_meta and the *)
(* triggers of step.py).                                                   *)
(***************************************************************************)
THEOREM IInvAlways == Spec => []IInv
BY InitHolds, NextHolds, PTL DEF Spec

(***************************************************************************)
(* No step is left behind: when no flag is set, the stored need of every   *)
(* attached step is as high as its own need and as that of its consumers,  *)
(* for any graph without a cycle (Scheduler._update_meta_after).           *)
(***************************************************************************)
THEOREM NeedCoversAlways == Spec => []NeedCovers
<1>1. IInv => NeedCovers
  <2> SUFFICES ASSUME IInv, db.checkAfter = {}, NEW s \in db.attached
               PROVE  db.impl[s] >= NewNeed(db, s)
    BY DEF NeedCovers
  <2>1. Columns(db) /\ Covers(db)
    BY DEF IInv, Core, Good
  <2>2. Asked(db, s) /\ \A t \in Sinks(db, s) : Over(db, s, t)
    BY <2>1 DEF Covers
  <2>3. s \in Step /\ db.impl[s] \in {1, 2, 3}
    BY <2>1 DEF Columns, Level, OPTIONAL, DEFAULT, TARGET
  <2>4. NewNeed(db, s) \in {1, 2, 3} /\ NewNeed(db, s) <= db.impl[s]
    BY <2>1, <2>2, <2>3, NeedValue DEF Asked, Over, Level, OPTIONAL, DEFAULT, TARGET
  <2> QED BY <2>3, <2>4
<1> QED BY <1>1, IInvAlways, PTL

(***************************************************************************)
(* The columns have their types, the jobs agree with the states, and an    *)
(* unflagged _ready is exact, so that no trigger that sets _check_ready is *)
(* missing (UNAVAILABLE_INPUT_WHERE, RECOMPUTE_READY).                     *)
(***************************************************************************)
THEOREM ReadyAgreesAlways == Spec => []ReadyAgrees
<1>1. IInv => ReadyAgrees
  <2> SUFFICES ASSUME IInv PROVE ReadyAgrees
    OBVIOUS
  <2>1. Columns(db) /\ Sound(db) /\ Exact(db) /\ Jobs
    BY DEF IInv, Core, Good
  <2>2. /\ db.state \in [Step -> {"NONE", "PENDING", "CHECKING", "RUNNING", "SUCCEEDED", "FAILED"}]
        /\ db.out \in [Step -> {"UNDECLARED", "PLANNED", "OUTDATED", "BUILT"}]
        /\ db.need \in [Step -> {OPTIONAL, DEFAULT}] /\ db.count \in [Step -> Nat]
    BY <2>1 DEF Columns, State, OutState
  <2>3. \A s \in db.attached : db.state[s] # "NONE" /\ db.out[s] # "UNDECLARED"
    BY <2>1 DEF Columns, Sound, RowsExist
  <2>4. db.impl \in [Step -> OPTIONAL .. TARGET]
    <3>1. Level = OPTIONAL .. TARGET
      BY DEF Level, OPTIONAL, DEFAULT, TARGET
    <3> QED BY <2>1, <3>1 DEF Columns
  <2>5. \A s \in Step : Inputs(db, s) \subseteq Step /\ db.inp[s] \cap db.dyn[s] = {}
    BY <2>1 DEF Columns, Sound, EdgesDeclared, Inputs
  <2>6. db.deferred \subseteq {s \in Step : db.state[s] = "PENDING"}
    BY <2>1 DEF Columns, Sound, DeferredWaits
  <2>7. TypeOK
    BY <2>1, <2>2, <2>3, <2>4, <2>5, <2>6 DEF TypeOK, Jobs
  <2> QED BY <2>1, <2>7 DEF ReadyAgrees, ReadyExact, Exact
<1> QED BY <1>1, IInvAlways, PTL

(***************************************************************************)
(* At the end of a build each required step that is still PENDING has a    *)
(* root cause, directly or through the steps that it waits for (Pending).  *)
(***************************************************************************)
THEOREM PendingExplainedAlways == Spec => []PendingExplained
<1>1. IInv => PendingExplained
  BY DEF IInv
<1> QED BY <1>1, IInvAlways, PTL

(***************************************************************************)
(* After a build that was reported clean, all that the plan or the user    *)
(* asked for is up to date, and so is what it uses (Builder.finalize).     *)
(***************************************************************************)
THEOREM CleanIsCompleteAlways == Spec => []CleanIsComplete
<1>1. IInv => CleanIsComplete
  BY DEF IInv
<1> QED BY <1>1, IInvAlways, PTL
=============================================================================
