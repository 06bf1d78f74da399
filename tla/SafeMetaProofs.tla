---------------------------- MODULE SafeMetaProofs ----------------------------
(***************************************************************************)
(* Proofs about SafeMeta, for any steps and any way plans declare them.    *)
(***************************************************************************)
EXTENDS SafeMeta, TLAPS

(***************************************************************************)
(* The recursive queries over creator edges.                               *)
(***************************************************************************)

\* RECURSIVE_CHECK_WITH_PRODUCTS starts with the step itself and follows every
\* edge to a product.
LEMMA BelowClosed ==
  ASSUME NEW L \in SUBSET Step, NEW s \in Step
  PROVE  /\ s \in Below(L, s)
         /\ Below(L, s) \subseteq Step
         /\ \A t \in L : Parent[t] \in Below(L, s) => t \in Below(L, s)
BY DEF Below

\* It reaches no more than any set that is closed.
LEMMA BelowLeast ==
  ASSUME NEW L \in SUBSET Step, NEW s \in Step, NEW T \in SUBSET Step,
         s \in T, \A t \in L : Parent[t] \in T => t \in T
  PROVE  Below(L, s) \subseteq T
BY DEF Below

\* What is below a step that is below s is below s.
LEMMA BelowTransitive ==
  ASSUME NEW L \in SUBSET Step, NEW s \in Step, NEW t \in Below(L, s)
  PROVE  Below(L, t) \subseteq Below(L, s)
<1>1. t \in Step /\ Below(L, s) \in SUBSET Step
  BY BelowClosed
<1>2. \A u \in L : Parent[u] \in Below(L, s) => u \in Below(L, s)
  BY BelowClosed
<1> QED BY <1>1, <1>2, BelowLeast

\* A step that is reached from another one is linked, and its parent is reached.
LEMMA BelowInside ==
  ASSUME NEW L \in SUBSET Step, NEW s \in Step, NEW t \in Below(L, s), t # s
  PROVE  t \in L /\ Parent[t] \in Below(L, s)
<1> DEFINE T == {u \in Below(L, s) : u = s \/ (u \in L /\ Parent[u] \in Below(L, s))}
<1>1. T \in SUBSET Step /\ s \in T
  BY BelowClosed
<1>2. \A u \in L : Parent[u] \in T => u \in T
  BY BelowClosed
<1>3. Below(L, s) \subseteq T
  <2> HIDE DEF T
  <2> QED BY <1>1, <1>2, BelowLeast
<1> QED BY <1>3

\* The plan that declares a step is not below it, because Parent is acyclic.
LEMMA NoCycle ==
  ASSUME NEW L \in SUBSET Step, NEW s \in L, Parent[s] \in Step
  PROVE  Parent[s] \notin Below(L, s)
<1> SUFFICES ASSUME Parent[s] \in Below(L, s) PROVE FALSE
  OBVIOUS
<1> DEFINE S == {t \in Below(L, s) : s \in Below(L, t)}
<1>1. S \in SUBSET Step /\ s \in S
  BY BelowClosed
<1>2. ASSUME NEW t \in S PROVE Parent[t] \in S
  <2>1. Parent[t] \in Below(L, s) /\ t \in L
    BY BelowInside, <1>1
  <2>2. Parent[t] \in Step
    BY <2>1, BelowClosed
  <2>3. t \in Below(L, Parent[t])
    BY <2>1, <2>2, BelowClosed
  <2>4. s \in Below(L, Parent[t])
    BY <2>2, <2>3, BelowTransitive
  <2> QED BY <2>1, <2>4
<1> HIDE DEF S
<1> QED BY <1>1, <1>2, ParentAcyclic

(***************************************************************************)
(* One step of the creator chain.  SafeIsSound speaks of all creators and  *)
(* is not inductive; what every transaction keeps is that an unflagged     *)
(* step with an unflagged parent has a column that is right relative to    *)
(* the column and the state of that parent.                                *)
(***************************************************************************)
Local(L, F, col, letting) ==
  \A s \in L :
    Parent[s] \in Step /\ s \notin F /\ Parent[s] \notin F /\ s \in col =>
      Parent[s] \in col /\ Parent[s] \in letting

\* Along a chain without flags the local condition adds up.
LEMMA LocalAddsUp ==
  ASSUME NEW L \in SUBSET Step, NEW F, NEW col, NEW letting, Local(L, F, col, letting),
         NEW a \in Step, NEW s \in Below(L, a), s # a, s \in col,
         \A f \in F \cap Step : s \notin Below(L, f)
  PROVE  a \in letting
<1> SUFFICES ASSUME a \notin letting PROVE FALSE
  OBVIOUS
<1> DEFINE T == {a} \cup {t \in Below(L, a) : t \notin col \/ \E f \in F \cap Step : t \in Below(L, f)}
<1>1. T \in SUBSET Step /\ a \in T
  BY BelowClosed
<1>2. ASSUME NEW t \in L, Parent[t] \in T PROVE t \in T
  <2>1. t \in Below(L, a)
    BY <1>2, BelowClosed
  <2>2. \A f \in F \cap Step : Parent[t] \in Below(L, f) => t \in Below(L, f)
    BY BelowClosed
  <2>3. Parent[t] \in Step /\ t \in Step
    BY <1>1, <1>2
  <2>4. CASE t \in F
    BY <2>1, <2>3, <2>4, BelowClosed
  <2>5. CASE Parent[t] \in F
    BY <2>1, <2>2, <2>3, <2>5, BelowClosed
  <2>6. CASE t \notin F /\ Parent[t] \notin F
    BY <1>2, <2>1, <2>2, <2>3, <2>6 DEF Local
  <2> QED BY <2>4, <2>5, <2>6
<1>3. Below(L, a) \subseteq T
  <2> HIDE DEF T
  <2> QED BY <1>1, <1>2, BelowLeast
<1> QED BY <1>3

(***************************************************************************)
(* FILL_SAFE_UPDATE and APPLY_SAFE_UPDATE: if each chain was right up to   *)
(* the flags, then the new columns are right without exception.            *)
(***************************************************************************)
LEMMA UpdateIsRight ==
  ASSUME linked \in SUBSET Step, flagged \in SUBSET Step,
         NEW stored, NEW letting, Local(linked, flagged, stored, letting)
  PROVE  Local(linked, {}, Updated(stored, letting), letting)
<1> SUFFICES ASSUME NEW s \in linked, Parent[s] \in Step, s \in Updated(stored, letting)
             PROVE  Parent[s] \in Updated(stored, letting) /\ Parent[s] \in letting
  BY DEF Local
<1> DEFINE p == Parent[s]
<1>0. s \in Step /\ p \in Step /\ p # Root
  BY ParentType
<1>1. s \in Below(linked, p) /\ p \notin Below(linked, s)
  BY <1>0, BelowClosed, NoCycle
<1>2. p # s
  BY <1>0, <1>1, BelowClosed
<1>3. ASSUME NEW f \in flagged, p \in Below(linked, f)
      PROVE  s \in Below(linked, f) /\ s # f
  BY <1>0, <1>1, <1>2, <1>3, BelowClosed
<1>4. CASE p \in Reached
  <2>1. PICK f \in flagged : p \in Below(linked, f)
    BY <1>4 DEF Reached, BelowAll
  <2>2. s \in Reached
    BY <1>3, <2>1 DEF Reached, BelowAll
  <2>3. ASSUME NEW g \in flagged, p \in Below(linked, g)
        PROVE  Seed(g, stored \cap letting) /\ Path(g, s) \subseteq letting
    BY <1>3, <2>2, <2>3 DEF Updated
  <2>4. p \in letting
    BY <1>0, <1>1, <1>2, <2>1, <2>3 DEF Path
  <2>5. ASSUME NEW g \in flagged, p \in Below(linked, g)
        PROVE  Path(g, p) \subseteq letting
    <3> SUFFICES ASSUME NEW a \in Below(linked, g), a # p, p \in Below(linked, a)
                 PROVE  a \in letting
      BY DEF Path
    <3>1. a \in Step
      BY BelowClosed
    <3>2. s \in Below(linked, a)
      BY <1>0, <3>1, BelowClosed
    <3>3. a # s
      BY <1>1
    <3> QED BY <2>3, <2>5, <3>2, <3>3 DEF Path
  <2> QED BY <1>0, <1>4, <2>3, <2>4, <2>5 DEF Updated
<1>5. CASE p \notin Reached /\ s \in Reached
  <2>1. ASSUME NEW f \in flagged, s \in Below(linked, f) PROVE f = s
    <3>1. f \in Step
      OBVIOUS
    <3> QED BY <1>5, <2>1, <3>1, BelowInside DEF Reached, BelowAll
  <2>2. s \in flagged
    BY <1>5, <2>1 DEF Reached, BelowAll
  <2>3. Seed(s, stored \cap letting)
    BY <1>0, <1>5, <2>2, BelowClosed DEF Updated
  <2>4. p \in stored /\ p \in letting
    BY <1>0, <2>3 DEF Seed
  <2> QED BY <1>0, <1>5, <2>4 DEF Updated
<1>6. CASE p \notin Reached /\ s \notin Reached
  <2>1. s \notin flagged /\ p \notin flagged
    BY <1>0, <1>6, BelowClosed DEF Reached, BelowAll
  <2>2. s \in stored
    BY <1>6 DEF Updated
  <2>3. p \in stored /\ p \in letting
    BY <1>0, <2>1, <2>2 DEF Local
  <2> QED BY <1>0, <1>6, <2>3 DEF Updated
<1> QED BY <1>4, <1>5, <1>6

\* Between two updates a chain stays right up to the flags, when every step
\* is flagged that is linked anew, loses its column or stops letting its
\* products be queued.
LEMMA FlaggingSuffices ==
  ASSUME NEW L, NEW F, NEW col, NEW letting, Local(L, F, col, letting),
         NEW L2, NEW F2, NEW col2, NEW letting2,
         F \subseteq F2, col2 \subseteq col,
         L2 \ L \subseteq F2, col \ col2 \subseteq F2, letting \ letting2 \subseteq F2
  PROVE  Local(L2, F2, col2, letting2)
BY DEF Local

(***************************************************************************)
(* Rows: TypeOK and HoldOwned support each other.  The bound on _holding   *)
(* is that of the blocks the command is in.                                *)
(***************************************************************************)
RowInv ==
  /\ TypeOK
  /\ HoldOwned
  /\ blocks \in [Step -> 0 .. MaxHold]

LEMMA RowInit == Init => RowInv
<1> SUFFICES ASSUME Init PROVE RowInv
  OBVIOUS
<1>1. /\ state \in [Step -> {"NONE", "PENDING", "CHECKING", "RUNNING", "SUCCEEDED", "FAILED"}]
      /\ linked \subseteq {s \in Step : Exists(s)}
      /\ safe \subseteq {s \in Step : Exists(s)}
  BY DEF Init, Exists
<1>2. /\ holding \in [Step -> 0 .. MaxHold]
      /\ blocks \in [Step -> 0 .. MaxHold]
      /\ \A s \in Step : ~(holding[s] > 0)
  BY MaxHoldType DEF Init
<1>3. begun = {} /\ hashed = {} /\ safeNH = safe /\ flagged = {}
  BY DEF Init
<1>4. TypeOK
  BY <1>1, <1>2, <1>3 DEF TypeOK
<1> QED BY <1>2, <1>4 DEF RowInv, HoldOwned

\* The steps that are flagged have rows, and so has what is below them.
LEMMA BelowHasRows ==
  ASSUME RowInv, NEW S \in SUBSET Step, \A s \in S : Exists(s)
  PROVE  BelowAll(linked, S) \subseteq {s \in Step : Exists(s)}
<1> SUFFICES ASSUME NEW s \in S, NEW t \in Below(linked, s) PROVE t \in Step /\ Exists(t)
  BY DEF BelowAll
<1>1. linked \in SUBSET Step /\ linked \subseteq {u \in Step : Exists(u)}
  BY DEF RowInv, TypeOK
<1>2. t \in Step
  BY <1>1, BelowClosed
<1>3. CASE t = s
  BY <1>2, <1>3
<1>4. CASE t # s
  BY <1>1, <1>4, BelowInside
<1> QED BY <1>2, <1>3, <1>4

LEMMA UpdateHasRows ==
  ASSUME RowInv, NEW stored, NEW letting, stored \subseteq {s \in Step : Exists(s)}
  PROVE  Updated(stored, letting) \subseteq {s \in Step : Exists(s)}
<1>1. Reached \subseteq {s \in Step : Exists(s)}
  BY BelowHasRows DEF RowInv, TypeOK, Reached
<1> QED BY <1>1 DEF Updated

LEMMA RowStep == RowInv /\ [Next]_vars => RowInv'
<1> SUFFICES ASSUME RowInv, [Next]_vars PROVE RowInv'
  OBVIOUS
<1> USE MaxHoldType, ParentType
<1>0. linked \in SUBSET Step /\ flagged \in SUBSET Step
  BY DEF RowInv, TypeOK
<1>1. \A S \in SUBSET Step : (\A s \in S : Exists(s)) =>
        BelowAll(linked, S) \subseteq {s \in Step : Exists(s)}
  BY BelowHasRows
<1>2. \A s \in Step : Products(s) \in SUBSET Step /\ \A t \in Products(s) : Exists(t)
  BY DEF RowInv, TypeOK, Products
<1>3. ASSUME NEW s \in Step, Exists(s)
      PROVE  Below(linked, s) \subseteq {t \in Step : Exists(t)}
  <2>1. BelowAll(linked, {s}) = Below(linked, s)
    BY DEF BelowAll
  <2> QED BY <1>1, <1>3, <2>1
<1>4. /\ Updated(safe, LettingNow) \subseteq {s \in Step : Exists(s)}
      /\ Updated(safeNH, Letting) \subseteq {s \in Step : Exists(s)}
  BY UpdateHasRows DEF RowInv, TypeOK
<1>5. ASSUME NEW s \in Step, Pop(s) PROVE RowInv'
  BY <1>4, <1>5 DEF Pop, UpdateMetaSafe, SetStates, Eligible, RowInv, TypeOK, HoldOwned, Exists
<1>6. CASE PopNothing
  BY <1>4, <1>6 DEF PopNothing, UpdateMetaSafe, RowInv, TypeOK, HoldOwned, Exists
<1>7. ASSUME NEW s \in Step, Begin(s) PROVE RowInv'
  BY <1>1, <1>2, <1>7 DEF Begin, DetachProducts, KeepMeta, RowInv, TypeOK, HoldOwned, Exists
<1>8. ASSUME NEW s \in Step, NoSkip(s) PROVE RowInv'
  BY <1>1, <1>2, <1>8 DEF NoSkip, DetachProducts, SetStates, KeepMeta, RowInv, TypeOK, HoldOwned, Exists
<1>9. ASSUME NEW s \in Step, StillValid(s) PROVE RowInv'
  BY <1>9 DEF StillValid, SetStates, KeepMeta, RowInv, TypeOK, HoldOwned, Exists
<1>10. ASSUME NEW s \in Step, Succeed(s) PROVE RowInv'
  BY <1>10 DEF Succeed, EndJob, SetStates, KeepMeta, RowInv, TypeOK, HoldOwned, Exists
<1>11. ASSUME NEW s \in Step, Fail(s) PROVE RowInv'
  BY <1>1, <1>2, <1>11 DEF Fail, DetachProducts, EndJob, SetStates, KeepMeta, RowInv, TypeOK, HoldOwned, Exists
<1>12. ASSUME NEW s \in Step, Defer(s) PROVE RowInv'
  BY <1>12 DEF Defer, EndJob, SetStates, KeepMeta, RowInv, TypeOK, HoldOwned, Exists
<1>13. ASSUME NEW s \in Step, MarkPending(s) PROVE RowInv'
  BY <1>13 DEF MarkPending, SetStates, KeepMeta, RowInv, TypeOK, HoldOwned, Exists
<1>14. ASSUME NEW s \in Step, Recycle(s) PROVE RowInv'
  BY <1>3, <1>14 DEF Recycle, KeepMeta, RowInv, TypeOK, HoldOwned, Exists
<1>15. ASSUME NEW s \in Step, Create(s) PROVE RowInv'
  BY <1>1, <1>2, <1>15 DEF Create, SetStates, RowInv, TypeOK, HoldOwned, Exists
<1>16. ASSUME NEW s \in Step, Hold(s) PROVE RowInv'
  BY <1>3, <1>16 DEF Hold, KeepMeta, RowInv, TypeOK, HoldOwned, Exists
<1>17. ASSUME NEW s \in Step, Release(s) PROVE RowInv'
  BY <1>3, <1>17 DEF Release, KeepMeta, RowInv, TypeOK, HoldOwned, Exists
<1>18. ASSUME NEW s \in Step, ReleaseRaises(s) PROVE RowInv'
  BY <1>18 DEF ReleaseRaises, KeepMeta, RowInv, TypeOK, HoldOwned, Exists
<1>19. CASE Restart
  BY <1>19 DEF Restart, SetStates, KeepMeta, RowInv, TypeOK, HoldOwned, Exists
<1>20. CASE UNCHANGED vars
  BY <1>20 DEF vars, RowInv, TypeOK, HoldOwned, Exists
<1> QED
  BY <1>5, <1>6, <1>7, <1>8, <1>9, <1>10, <1>11, <1>12, <1>13, <1>14, <1>15, <1>16, <1>17,
     <1>18, <1>19, <1>20 DEF Next

\* TypeOK.
THEOREM TypeCorrect == Spec => []TypeOK
<1>1. RowInv => TypeOK
  BY DEF RowInv
<1> QED BY RowInit, RowStep, <1>1, PTL DEF Spec

\* HoldOwned: whatever ends a command, also a crash, ends its holds.
THEOREM HoldsAreOwned == Spec => []HoldOwned
<1>1. RowInv => HoldOwned
  BY DEF RowInv
<1> QED BY RowInit, RowStep, <1>1, PTL DEF Spec

(***************************************************************************)
(* The columns: each chain is right up to the flags.                       *)
(***************************************************************************)
ChainInv ==
  /\ Local(linked, flagged, safe, LettingNow)
  /\ Local(linked, flagged, safeNH, Letting)

LEMMA ChainInit == Init => ChainInv
BY ParentType DEF Init, ChainInv, Local

\* A transaction that leaves the columns alone, or clears some, keeps the chains
\* when it flags what it links, clears or stops.
LEMMA FlaggingKeepsChains ==
  ASSUME ChainInv, flagged \subseteq flagged',
         safe' \subseteq safe, safeNH' \subseteq safeNH,
         linked' \ linked \subseteq flagged',
         safe \ safe' \subseteq flagged', safeNH \ safeNH' \subseteq flagged',
         \A s \in Step \ flagged' : (Lets(s) => Lets(s)') /\ (LetsNow(s) => LetsNow(s)')
  PROVE  ChainInv'
<1>1. Letting \ Letting' \subseteq flagged' /\ LettingNow \ LettingNow' \subseteq flagged'
  BY DEF Letting, LettingNow
<1>2. Local(linked', flagged', safe', LettingNow')
  BY <1>1, FlaggingSuffices DEF ChainInv
<1>3. Local(linked', flagged', safeNH', Letting')
  BY <1>1, FlaggingSuffices DEF ChainInv
<1> QED BY <1>2, <1>3 DEF ChainInv, Local, Letting, LettingNow

\* _update_meta_safe makes every chain right; the step that is handed out after
\* it is flagged again.
LEMMA UpdateKeepsChains ==
  ASSUME RowInv, ChainInv, NEW S, UpdateMetaSafe(S), UNCHANGED linked,
         \A s \in Step \ S : (Lets(s) => Lets(s)') /\ (LetsNow(s) => LetsNow(s)')
  PROVE  ChainInv'
<1>1. linked \in SUBSET Step /\ flagged \in SUBSET Step
  BY DEF RowInv, TypeOK
<1>2. Local(linked, {}, safe', LettingNow)
  BY <1>1, UpdateIsRight DEF ChainInv, UpdateMetaSafe
<1>3. Local(linked, {}, safeNH', Letting)
  BY <1>1, UpdateIsRight DEF ChainInv, UpdateMetaSafe
<1>4. flagged' = S
  BY DEF UpdateMetaSafe
<1>5. Letting \ Letting' \subseteq S /\ LettingNow \ LettingNow' \subseteq S
  BY DEF Letting, LettingNow
<1>6. Local(linked', flagged', safe', LettingNow')
  BY <1>2, <1>4, <1>5, FlaggingSuffices
<1>7. Local(linked', flagged', safeNH', Letting')
  BY <1>3, <1>4, <1>5, FlaggingSuffices
<1> QED BY <1>6, <1>7 DEF ChainInv, Local, Letting, LettingNow

LEMMA ChainStep == RowInv /\ ChainInv /\ [Next]_vars => ChainInv'
<1> SUFFICES ASSUME RowInv, ChainInv, [Next]_vars PROVE ChainInv'
  OBVIOUS
<1>0. /\ linked \in SUBSET Step /\ flagged \in SUBSET Step
      /\ state \in [Step -> {"NONE", "PENDING", "CHECKING", "RUNNING", "SUCCEEDED", "FAILED"}]
      /\ holding \in [Step -> 0 .. MaxHold]
  BY DEF RowInv, TypeOK
<1>1. ASSUME NEW s \in Step, Pop(s) PROVE ChainInv'
  BY <1>0, <1>1, UpdateKeepsChains DEF Pop, SetStates, Lets, LetsNow
<1>2. CASE PopNothing
  BY <1>2, UpdateKeepsChains DEF PopNothing, Lets, LetsNow
<1>3. ASSUME NEW s \in Step, Begin(s) PROVE ChainInv'
  BY <1>3, FlaggingKeepsChains DEF Begin, DetachProducts, KeepMeta, Lets, LetsNow
<1>4. ASSUME NEW s \in Step, NoSkip(s) PROVE ChainInv'
  BY <1>0, <1>4, FlaggingKeepsChains DEF NoSkip, DetachProducts, SetStates, KeepMeta, Lets, LetsNow
<1>5. ASSUME NEW s \in Step, StillValid(s) PROVE ChainInv'
  BY <1>0, <1>5, FlaggingKeepsChains DEF StillValid, SetStates, KeepMeta, Lets, LetsNow
<1>6. ASSUME NEW s \in Step, Succeed(s) PROVE ChainInv'
  BY <1>0, <1>6, FlaggingKeepsChains DEF Succeed, SetStates, KeepMeta, Lets, LetsNow
<1>7. ASSUME NEW s \in Step, Fail(s) PROVE ChainInv'
  BY <1>0, <1>7, FlaggingKeepsChains DEF Fail, DetachProducts, SetStates, KeepMeta, Lets, LetsNow
<1>8. ASSUME NEW s \in Step, Defer(s) PROVE ChainInv'
  BY <1>0, <1>8, FlaggingKeepsChains DEF Defer, SetStates, KeepMeta, Lets, LetsNow
<1>9. ASSUME NEW s \in Step, MarkPending(s) PROVE ChainInv'
  BY <1>0, <1>9, FlaggingKeepsChains DEF MarkPending, SetStates, KeepMeta, Lets, LetsNow
<1>10. ASSUME NEW s \in Step, Recycle(s) PROVE ChainInv'
  BY <1>0, <1>10, BelowClosed, FlaggingKeepsChains DEF Recycle, KeepMeta, Lets, LetsNow
<1>11. ASSUME NEW s \in Step, Create(s) PROVE ChainInv'
  BY <1>0, <1>11, FlaggingKeepsChains DEF Create, SetStates, Lets, LetsNow
<1>12. ASSUME NEW s \in Step, Hold(s) PROVE ChainInv'
  BY <1>0, <1>12, MaxHoldType, BelowClosed, FlaggingKeepsChains DEF Hold, KeepMeta, Lets, LetsNow
<1>13. ASSUME NEW s \in Step, Release(s) PROVE ChainInv'
  BY <1>0, <1>13, MaxHoldType, BelowClosed, FlaggingKeepsChains DEF Release, KeepMeta, Lets, LetsNow
<1>14. ASSUME NEW s \in Step, ReleaseRaises(s) PROVE ChainInv'
  BY <1>14, FlaggingKeepsChains DEF ReleaseRaises, KeepMeta, Lets, LetsNow
<1>15. CASE Restart
  BY <1>0, <1>15, FlaggingKeepsChains DEF Restart, SetStates, KeepMeta, Lets, LetsNow
<1>16. CASE UNCHANGED vars
  BY <1>16, FlaggingKeepsChains DEF vars, Lets, LetsNow
<1> QED
  BY <1>1, <1>2, <1>3, <1>4, <1>5, <1>6, <1>7, <1>8, <1>9, <1>10, <1>11, <1>12, <1>13, <1>14,
     <1>15, <1>16 DEF Next

\* SafeIsSound: above a step without flags the chain condition adds up.
THEOREM ColumnsAreSound == Spec => []SafeIsSound
<1>1. ASSUME RowInv, ChainInv PROVE SafeIsSound
  <2> SUFFICES ASSUME NEW s \in Step, Settled(s), NEW a \in Creators(s)
               PROVE  (s \in safe => LetsNow(a)) /\ (s \in safeNH => Lets(a))
    BY DEF SafeIsSound, SafeNow, SafeIgnoringHold
  <2>1. linked \in SUBSET Step
    BY <1>1 DEF RowInv, TypeOK
  <2>2. a \in Step /\ a # s /\ s \in Below(linked, a)
    BY DEF Creators
  <2>3. \A f \in flagged \cap Step : s \notin Below(linked, f)
    BY DEF Settled, Creators
  <2>4. s \in safe => a \in LettingNow
    BY <1>1, <2>1, <2>2, <2>3, LocalAddsUp DEF ChainInv
  <2>5. s \in safeNH => a \in Letting
    BY <1>1, <2>1, <2>2, <2>3, LocalAddsUp DEF ChainInv
  <2> QED BY <2>4, <2>5 DEF Letting, LettingNow
<1> QED BY RowInit, RowStep, ChainInit, ChainStep, <1>1, PTL DEF Spec

\* DispatchIsSafe: only Pop moves a PENDING step on, and it looks at columns
\* without flags.
THEOREM DispatchesAreSafe == Spec => DispatchIsSafe
<1> DEFINE Safe == \A s \in Step : state[s] = "PENDING" =>
                     /\ state'[s] = "RUNNING" => SafeNow(s)
                     /\ state'[s] = "CHECKING" => SafeIgnoringHold(s)
<1>1. ASSUME RowInv, ChainInv, [Next]_vars PROVE Safe
  <2> SUFFICES ASSUME NEW s \in Step, state[s] = "PENDING", state'[s] \in {"RUNNING", "CHECKING"}
               PROVE  /\ state'[s] = "RUNNING" => SafeNow(s)
                      /\ state'[s] = "CHECKING" => SafeIgnoringHold(s)
    OBVIOUS
  <2>1. state \in [Step -> {"NONE", "PENDING", "CHECKING", "RUNNING", "SUCCEEDED", "FAILED"}]
        /\ linked \in SUBSET Step /\ flagged \in SUBSET Step
    BY <1>1 DEF RowInv, TypeOK
  <2>2. Pop(s)
    <3>1. ASSUME NEW u \in Step, Pop(u) PROVE u = s
      BY <2>1, <3>1 DEF Pop, SetStates
    <3>2. ASSUME NEW u \in Step,
                 \/ NoSkip(u) \/ StillValid(u) \/ Succeed(u) \/ Fail(u) \/ Defer(u)
                 \/ MarkPending(u) \/ Create(u)
          PROVE  FALSE
      BY <2>1, <3>2 DEF NoSkip, StillValid, Succeed, Fail, Defer, MarkPending, Create, SetStates
    <3>3. ASSUME NEW u \in Step,
                 \/ Begin(u) \/ Recycle(u) \/ Hold(u) \/ Release(u) \/ ReleaseRaises(u)
          PROVE  FALSE
      BY <2>1, <3>3 DEF Begin, Recycle, Hold, Release, ReleaseRaises
    <3>4. ~PopNothing /\ ~Restart /\ ~UNCHANGED vars
      BY <2>1 DEF PopNothing, Restart, SetStates, vars
    <3> QED BY <1>1, <3>1, <3>2, <3>3, <3>4 DEF Next
  <2>3. Local(linked, {}, safe', LettingNow) /\ Local(linked, {}, safeNH', Letting)
    BY <1>1, <2>1, <2>2, UpdateIsRight DEF ChainInv, Pop, UpdateMetaSafe
  <2>4. ASSUME NEW a \in Creators(s)
        PROVE  (s \in safe' => a \in LettingNow) /\ (s \in safeNH' => a \in Letting)
    <3>1. a \in Step /\ a # s /\ s \in Below(linked, a)
      BY DEF Creators
    <3> QED BY <2>1, <2>3, <3>1, LocalAddsUp
  <2>5. s \in safe' => SafeNow(s) /\ SafeIgnoringHold(s)
    BY <2>4 DEF SafeNow, SafeIgnoringHold, LettingNow, LetsNow
  <2>6. s \in safeNH' => SafeIgnoringHold(s)
    BY <2>4 DEF SafeIgnoringHold, Letting
  <2>7. s \in safe' \/ (s \in hashed /\ s \in safeNH')
    BY <2>2 DEF Pop, Eligible
  <2>8. state'[s] = "RUNNING" => s \notin hashed
    BY <2>1, <2>2 DEF Pop, SetStates
  <2> QED BY <2>5, <2>6, <2>7, <2>8
<1> QED BY RowInit, RowStep, ChainInit, ChainStep, <1>1, PTL DEF Spec, DispatchIsSafe
=============================================================================
