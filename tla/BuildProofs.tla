----------------------------- MODULE BuildProofs -----------------------------
(***************************************************************************)
(* Proofs about Build, for every workflow, however the jobs, edits and     *)
(* restarts interleave: the types and CHECK constraints of the database,   *)
(* BUILT files and SUCCEEDED steps agree, no deferred step misses its      *)
(* wake-up, and what is left PENDING at the end of a build has a cause.    *)
(* And, for users who edit only the sources and only between builds: the   *)
(* outputs of SUCCEEDED steps are what their commands make of the inputs.  *)
(***************************************************************************)
EXTENDS Build, TLAPS

StepState == {"PENDING", "CHECKING", "RUNNING", "SUCCEEDED", "FAILED"}
FileState == {"CONFIRMED", "MISSING", "PLANNED", "BUILT", "OUTDATED"}
Products == File \ StaticFiles

\* d has the columns of the database.
Tables(d) ==
  /\ d = [state |-> d.state, deferred |-> d.deferred, count |-> d.count, dynamic |-> d.dynamic,
          hash |-> d.hash, fstate |-> d.fstate, fhash |-> d.fhash]
  /\ d.state \in [Step -> StepState] /\ d.deferred \subseteq Step
  /\ d.count \in [Step -> Nat] /\ d.dynamic \subseteq Step
  /\ d.hash = [s \in Step |-> d.hash[s]]
  /\ d.fstate \in [File -> FileState]
  /\ d.fhash = [f \in File |-> d.fhash[f]]

\* Everything but the columns that mark_step_pending writes.
Same(d, e) == e.count = d.count /\ e.dynamic = d.dynamic /\ e.hash = d.hash /\ e.fhash = d.fhash
-----------------------------------------------------------------------------
LEMMA SetStatesTables ==
  ASSUME NEW d, Tables(d), NEW S, NEW st \in StepState
  PROVE  /\ Tables(SetStates(d, S, st)) /\ Same(d, SetStates(d, S, st))
         /\ SetStates(d, S, st).state = [s \in Step |-> IF s \in S THEN st ELSE d.state[s]]
         /\ SetStates(d, S, st).deferred = d.deferred /\ SetStates(d, S, st).fstate = d.fstate
BY DEF Tables, SetStates, Same

LEMMA SetFilesTables ==
  ASSUME NEW d, Tables(d), NEW F, NEW st \in FileState
  PROVE  /\ Tables(SetFiles(d, F, st)) /\ Same(d, SetFiles(d, F, st))
         /\ SetFiles(d, F, st).fstate = [f \in File |-> IF f \in F THEN st ELSE d.fstate[f]]
         /\ SetFiles(d, F, st).deferred = d.deferred /\ SetFiles(d, F, st).state = d.state
BY DEF Tables, SetFiles, Same

LEMMA MarkedIdle ==
  ASSUME NEW d, NEW S \in SUBSET Step
  PROVE  Marked(d, S) \subseteq Step \ Busy(d) /\ S \ Busy(d) \subseteq Marked(d, S)
BY DEF Marked

\* What mark_step_pending does to the columns.
LEMMA MarkPendingTables ==
  ASSUME NEW d, Tables(d), NEW S \in SUBSET Step,
         NEW e, e = MarkPending(d, S), NEW M, M = Marked(d, S)
  PROVE  /\ Tables(e) /\ Same(d, e)
         /\ e.state = [s \in Step |-> IF s \in M THEN "PENDING" ELSE d.state[s]]
         /\ e.deferred = d.deferred \ M
         /\ e.fstate = [f \in File |-> IF f \in BuiltOutputs(d, M \cap Completed(d))
                                       THEN "OUTDATED" ELSE d.fstate[f]]
<1> DEFINE d1 == SetStates(d, M, "PENDING")
<1> DEFINE d2 == SetFiles(d1, BuiltOutputs(d, M \cap Completed(d)), "OUTDATED")
<1>1. "PENDING" \in StepState /\ "OUTDATED" \in FileState
  BY DEF StepState, FileState
<1>2. /\ Tables(d1) /\ Same(d, d1)
      /\ d1.state = [s \in Step |-> IF s \in M THEN "PENDING" ELSE d.state[s]]
      /\ d1.deferred = d.deferred /\ d1.fstate = d.fstate
  BY <1>1, SetStatesTables
<1> HIDE DEF d1
<1>3. /\ Tables(d2) /\ Same(d1, d2)
      /\ d2.fstate = [f \in File |-> IF f \in BuiltOutputs(d, M \cap Completed(d))
                                     THEN "OUTDATED" ELSE d1.fstate[f]]
      /\ d2.deferred = d1.deferred /\ d2.state = d1.state
  BY <1>1, <1>2, SetFilesTables
<1>4. e = [d2 EXCEPT !.deferred = @ \ M]
  BY DEF MarkPending, d1
<1> HIDE DEF d2
<1>5. /\ Tables(e) /\ Same(d2, e) /\ e.state = d2.state /\ e.fstate = d2.fstate
      /\ e.deferred = d2.deferred \ M
  <2> DEFINE D == d2.deferred \ M
  <2>1. e = [d2 EXCEPT !.deferred = D] /\ D \in SUBSET Step
    BY <1>3, <1>4 DEF Tables
  <2> HIDE DEF D
  <2>2. Tables(e) /\ e.deferred = D
    BY <1>3, <2>1 DEF Tables
  <2>3. Same(d2, e) /\ e.state = d2.state /\ e.fstate = d2.fstate
    BY <1>3, <2>1 DEF Tables, Same
  <2> QED BY <2>2, <2>3 DEF D
<1> QED BY <1>2, <1>3, <1>5 DEF Same
-----------------------------------------------------------------------------
(***************************************************************************)
(* What is true of the database between any two transactions.  While the   *)
(* transaction of a step in X is under way, its own outputs are exempt.    *)
(***************************************************************************)
\* States and hashes of files.
Files(d) ==
  \A f \in File :
    /\ d.fstate[f] \in IF f \in StaticFiles THEN {"CONFIRMED", "MISSING"}
                       ELSE {"PLANNED", "BUILT", "OUTDATED"}
    /\ d.fhash[f] = Absent <=> d.fstate[f] \in {"PLANNED", "MISSING"}

Agree(d, X) ==
  \A f \in Products : Maker[f] \notin X =>
    (d.fstate[f] = "BUILT" <=> d.state[Maker[f]] = "SUCCEEDED")

\* Hashes of steps: an output whose absence was recorded would be skipped over.
Known(d) ==
  \A s \in Step :
    /\ d.state[s] \in {"SUCCEEDED", "CHECKING"} => d.hash[s] # NoHash
    /\ d.state[s] = "RUNNING" => d.hash[s] = NoHash
    /\ d.hash[s] # NoHash => \A f \in Outputs(s) : d.hash[s][2][f] # Absent

Blocked(d) ==
  \A s \in d.deferred : d.state[s] = "PENDING" /\ \E f \in DynInputs(d, s) : ~Available(d, f)

Good(d, X) == Tables(d) /\ Files(d) /\ Agree(d, X) /\ Known(d) /\ Blocked(d)

\* Nothing happens to a job of another step.
Spares(d, e, X) ==
  \A s \in Step \ X : IF s \in Busy(d) THEN e.state[s] = d.state[s] ELSE s \notin Busy(e)

\* No output is lost.
Keeps(d, e) == \A f \in Products : d.fstate[f] # "PLANNED" => e.fstate[f] # "PLANNED"

\* At most that a BUILT file becomes OUTDATED.
Ages(d, e, f) == e.fstate[f] = d.fstate[f] \/ (d.fstate[f] = "BUILT" /\ e.fstate[f] = "OUTDATED")

LEMMA Makers ==
  /\ \A f \in Products : Maker[f] \in Step
  /\ \A f \in File, s \in Step : Maker[f] = s => f \in Products
  /\ \A s \in Step : \A f \in Outputs(s) : f \in Products /\ Maker[f] = s
BY GraphType DEF Products, StaticFiles, Outputs

\* The same, except that the steps S, which are about to be marked, may be out
\* of line with their outputs, or no longer blocked.
AgreeBut(d, X, S) ==
  \A f \in Products : Maker[f] \notin X =>
    /\ d.fstate[f] = "BUILT" => d.state[Maker[f]] = "SUCCEEDED"
    /\ d.state[Maker[f]] = "SUCCEEDED" => d.fstate[f] = "BUILT" \/ Maker[f] \in S
BlockedBut(d, S) ==
  \A s \in d.deferred :
    d.state[s] = "PENDING" /\ (s \in S \/ \E f \in DynInputs(d, s) : ~Available(d, f))

LEMMA MarkPendingRestores ==
  ASSUME NEW d, NEW X, NEW S \in SUBSET Step, Tables(d), Files(d), Known(d),
         AgreeBut(d, X, S), BlockedBut(d, S)
  PROVE  /\ Good(MarkPending(d, S), X) /\ Spares(d, MarkPending(d, S), {})
         /\ \A f \in File : Ages(d, MarkPending(d, S), f)
         /\ \A s \in S : s \in Busy(d) \/ MarkPending(d, S).state[s] = "PENDING"
         /\ MarkPending(d, S).hash = d.hash /\ MarkPending(d, S).fhash = d.fhash
<1> DEFINE M == Marked(d, S)
<1> DEFINE e == MarkPending(d, S)
<1>1. /\ Tables(d) /\ Tables(e) /\ Same(d, e)
      /\ e.state = [s \in Step |-> IF s \in M THEN "PENDING" ELSE d.state[s]]
      /\ e.deferred = d.deferred \ M
      /\ e.fstate = [f \in File |-> IF f \in BuiltOutputs(d, M \cap Completed(d))
                                    THEN "OUTDATED" ELSE d.fstate[f]]
  BY MarkPendingTables
<1>2. M \subseteq Step \ Busy(d) /\ S \ Busy(d) \subseteq M
  BY MarkedIdle
<1> HIDE DEF M, e
<1>3. \A f \in File : \/ e.fstate[f] = d.fstate[f]
                      \/ d.fstate[f] = "BUILT" /\ e.fstate[f] = "OUTDATED" /\ f \in Products
  BY <1>1, <1>2, Makers DEF BuiltOutputs
<1>4. Files(e)
  BY <1>1, <1>3 DEF Files, Same, Products
<1>5. Agree(e, X)
  <2> SUFFICES ASSUME NEW f \in Products, Maker[f] \notin X
               PROVE  e.fstate[f] = "BUILT" <=> e.state[Maker[f]] = "SUCCEEDED"
    BY DEF Agree
  <2>1. Maker[f] \in Step /\ f \in File
    BY Makers DEF Products
  <2>2. CASE Maker[f] \in M
    BY <1>1, <1>2, <2>1, <2>2 DEF AgreeBut, BuiltOutputs, Completed
  <2>3. CASE Maker[f] \notin M
    <3>1. d.state[Maker[f]] = "SUCCEEDED" => Maker[f] \notin S
      BY <1>2, <2>1, <2>3 DEF Busy
    <3> QED BY <1>1, <2>1, <2>3, <3>1 DEF AgreeBut, BuiltOutputs
  <2> QED BY <2>2, <2>3
<1>6. Known(e)
  BY <1>1, <1>2 DEF Known, Same, Busy
<1>7. Blocked(e)
  <2>1. \A s \in Step : DynInputs(e, s) = DynInputs(d, s) /\ DynInputs(d, s) \subseteq File
    BY <1>1, GraphType DEF DynInputs, Same
  <2>2. \A f \in File : ~Available(d, f) => ~Available(e, f)
    BY <1>3 DEF Available
  <2>3. \A s \in e.deferred : s \in d.deferred /\ s \notin M /\ s \in Step /\ s \notin S
    BY <1>1, <1>2 DEF BlockedBut, Tables, Busy
  <2> QED BY <1>1, <2>1, <2>2, <2>3 DEF BlockedBut, Blocked
<1>8. Spares(d, e, {})
  BY <1>1, <1>2, <1>3 DEF Spares, Busy, Products
<1>9. \A f \in File : Ages(d, e, f)
  BY <1>3 DEF Ages
<1>10. \A s \in S : s \in Busy(d) \/ e.state[s] = "PENDING"
  BY <1>1, <1>2
<1> QED BY <1>1, <1>4, <1>5, <1>6, <1>7, <1>8, <1>9, <1>10 DEF Good, Same, e

LEMMA MarkPendingGood ==
  ASSUME NEW d, NEW X, Good(d, X), NEW S \in SUBSET Step
  PROVE  /\ Good(MarkPending(d, S), X) /\ Spares(d, MarkPending(d, S), {})
         /\ \A f \in File : Ages(d, MarkPending(d, S), f)
         /\ \A s \in S : s \in Busy(d) \/ MarkPending(d, S).state[s] = "PENDING"
         /\ MarkPending(d, S).hash = d.hash /\ MarkPending(d, S).fhash = d.fhash
<1>1. AgreeBut(d, X, S) /\ BlockedBut(d, S)
  BY DEF Good, Agree, Blocked, AgreeBut, BlockedBut
<1>2. Tables(d) /\ Files(d) /\ Known(d)
  BY DEF Good
<1> QED BY <1>1, <1>2, MarkPendingRestores
-----------------------------------------------------------------------------
(***************************************************************************)
(* Workflow.update_file_hashes.                                            *)
(***************************************************************************)
\* The table, by the state of the file and what is known of it.
LEMMA TableRows ==
  ASSUME NEW t \in Transitions
  PROVE  /\ t[4] \in FileState
         /\ t[2] \in {"CONFIRMED", "MISSING"} =>
              /\ t[1] # "SUCCEEDED" /\ t[4] = IF t[3] THEN "CONFIRMED" ELSE "MISSING"
              /\ t[5] = IF t[3] THEN "updated" ELSE "deleted"
         /\ t[2] \notin {"CONFIRMED", "MISSING"} =>
              /\ t[1] = "SUCCEEDED" => t[2] # "BUILT" /\ t[3] /\ t[4] = "BUILT" /\ t[5] = "completed"
              /\ t[1] # "SUCCEEDED" => t[4] \in {"PLANNED", "OUTDATED"}
              /\ t[1] # "SUCCEEDED" /\ t[2] = "BUILT" => t[5] \in {"updated", "deleted"}
              /\ t[1] = "FAILED" /\ t[3] => t[4] = "OUTDATED"
              /\ ~t[3] => t[4] = "PLANNED"
<1>1. CASE \E old \in {"CONFIRMED", "MISSING"} : t = <<"EXTERNAL", old, TRUE, "CONFIRMED", "updated">>
  BY <1>1 DEF FileState
<1>2. CASE \E cause \in {"EXTERNAL", "FAILED"} : t = <<cause, "CONFIRMED", FALSE, "MISSING", "deleted">>
  BY <1>2 DEF FileState
<1>3. CASE \E old \in {"BUILT", "OUTDATED"} : t = <<"EXTERNAL", old, TRUE, "PLANNED", "updated">>
  BY <1>3 DEF FileState
<1>4. CASE \E old \in {"BUILT", "OUTDATED"} : t = <<"EXTERNAL", old, FALSE, "PLANNED", "deleted">>
  BY <1>4 DEF FileState
<1>5. CASE \E old \in {"PLANNED", "OUTDATED"} : t = <<"SUCCEEDED", old, TRUE, "BUILT", "completed">>
  BY <1>5 DEF FileState
<1>6. CASE t = <<"FAILED", "CONFIRMED", TRUE, "CONFIRMED", "updated">>
  BY <1>6 DEF FileState
<1>9. CASE t = <<"FAILED", "BUILT", TRUE, "OUTDATED", "updated">>
  BY <1>9 DEF FileState
<1>10. CASE t = <<"FAILED", "BUILT", FALSE, "PLANNED", "deleted">>
  BY <1>10 DEF FileState
<1>7. CASE \E old \in {"PLANNED", "OUTDATED"} : t = <<"FAILED", old, TRUE, "OUTDATED", "none">>
  BY <1>7 DEF FileState
<1>8. CASE \E old \in {"PLANNED", "OUTDATED"} : t = <<"FAILED", old, FALSE, "PLANNED", "none">>
  BY <1>8 DEF FileState
<1> QED BY <1>1, <1>2, <1>3, <1>4, <1>5, <1>6, <1>7, <1>8, <1>9, <1>10 DEF Transitions

LEMMA RowTaken ==
  ASSUME NEW d, NEW new, NEW cause, Expected(d, new, cause), NEW f \in DOMAIN new,
         NEW t, t = Rules(d, new, cause)[f]
  PROVE  t \in Transitions /\ t[1] = cause /\ t[2] = d.fstate[f] /\ t[3] = (new[f] # Absent)
<1>1. t \in Applies(d, new, cause, f)
  BY DEF Expected, Rules
<1> QED BY <1>1 DEF Applies

LEMMA StoreHashesTables ==
  ASSUME NEW d, Tables(d), NEW new, NEW rule, \A f \in DOMAIN new : rule[f][4] \in FileState,
         NEW e, e = StoreHashes(d, new, rule)
  PROVE  /\ Tables(e) /\ e.state = d.state /\ e.deferred = d.deferred
         /\ e.count = d.count /\ e.dynamic = d.dynamic /\ e.hash = d.hash
         /\ e.fstate = [f \in File |-> IF f \in DOMAIN new THEN rule[f][4] ELSE d.fstate[f]]
         /\ e.fhash = [f \in File |-> IF f \in DOMAIN new THEN StoredHash(rule[f][4], new[f])
                                      ELSE d.fhash[f]]
BY DEF Tables, StoreHashes

Causes == {"EXTERNAL", "SUCCEEDED", "FAILED"}

\* Files whose hashes are updated.
Updated(new, cause, e, f) ==
  IF f \in StaticFiles THEN e.fstate[f] = IF new[f] # Absent THEN "CONFIRMED" ELSE "MISSING"
  ELSE IF new[f] = Absent THEN e.fstate[f] = "PLANNED"
  ELSE /\ cause = "FAILED" => e.fstate[f] = "OUTDATED"
       /\ cause = "SUCCEEDED" => e.fstate[f] \in {"BUILT", "OUTDATED"}

LEMMA UpdateHashesGood ==
  ASSUME NEW d, NEW X, Good(d, X), NEW new, DOMAIN new \subseteq File,
         NEW cause \in Causes, Expected(d, new, cause),
         cause = "SUCCEEDED" => DOMAIN new \subseteq {f \in Products : Maker[f] \in X},
         NEW e, e = UpdateHashes(d, new, cause)
  PROVE  /\ Good(e, X) /\ Spares(d, e, {}) /\ e.hash = d.hash
         /\ \A f \in File : IF f \in DOMAIN new THEN Updated(new, cause, e, f) ELSE Ages(d, e, f)
<1> DEFINE rule == Rules(d, new, cause)
<1> DEFINE d1 == StoreHashes(d, new, rule)
<1> DEFINE S == FollowUps(d, rule)
<1>1. e = MarkPending(d1, S) /\ S \in SUBSET Step /\ DOMAIN rule = DOMAIN new
  <2>1. e = MarkPending(d1, S)
    BY DEF UpdateHashes
  <2>2. S \in SUBSET Step
    BY DEF FollowUps, Consumers
  <2> QED BY <2>1, <2>2 DEF Rules
<1>2. ASSUME NEW f \in DOMAIN new
      PROVE  /\ f \in File /\ rule[f][4] \in FileState
             /\ d.fstate[f] \in {"CONFIRMED", "MISSING"} =>
                  /\ cause # "SUCCEEDED"
                  /\ rule[f][4] = IF new[f] # Absent THEN "CONFIRMED" ELSE "MISSING"
                  /\ rule[f][5] = IF new[f] # Absent THEN "updated" ELSE "deleted"
             /\ d.fstate[f] \notin {"CONFIRMED", "MISSING"} =>
                  /\ cause = "SUCCEEDED" => /\ d.fstate[f] # "BUILT" /\ new[f] # Absent
                                            /\ rule[f][4] = "BUILT" /\ rule[f][5] = "completed"
                  /\ cause # "SUCCEEDED" => rule[f][4] \in {"PLANNED", "OUTDATED"}
                  /\ cause # "SUCCEEDED" /\ d.fstate[f] = "BUILT" =>
                       rule[f][5] \in {"updated", "deleted"}
                  /\ cause = "FAILED" /\ new[f] # Absent => rule[f][4] = "OUTDATED"
                  /\ new[f] = Absent => rule[f][4] = "PLANNED"
  <2> DEFINE t == rule[f]
  <2>1. t \in Transitions /\ t[1] = cause /\ t[2] = d.fstate[f] /\ t[3] = (new[f] # Absent)
    BY RowTaken
  <2> HIDE DEF t, rule
  <2>2. CASE new[f] # Absent
    <3>1. t[3]
      BY <2>1, <2>2
    <3>2. QED
      BY <2>1, <2>2, <3>1, TableRows DEF t
  <2>3. CASE new[f] = Absent
    <3>1. ~t[3]
      BY <2>1, <2>3
    <3>2. QED
      BY <2>1, <2>3, <3>1, TableRows DEF t
  <2> QED BY <2>2, <2>3
<1>4. /\ Tables(d1) /\ d1.state = d.state /\ d1.deferred = d.deferred
      /\ d1.count = d.count /\ d1.dynamic = d.dynamic /\ d1.hash = d.hash
      /\ d1.fstate = [f \in File |-> IF f \in DOMAIN new THEN rule[f][4] ELSE d.fstate[f]]
      /\ d1.fhash = [f \in File |-> IF f \in DOMAIN new THEN StoredHash(rule[f][4], new[f])
                                    ELSE d.fhash[f]]
  BY <1>2, StoreHashesTables DEF Good
<1>5. /\ \A f \in DOMAIN new : rule[f][5] \in {"updated", "deleted"}
           /\ rule[f][4] \in {"PLANNED", "OUTDATED"} /\ Maker[f] \in Step => Maker[f] \in S
      /\ \A f \in DOMAIN new, s \in Step :
           ActsOnConsumers(rule[f][5], rule[f][4]) /\ f \in Inputs(d, s) => s \in S
  BY <1>1 DEF FollowUps, Consumers
<1> HIDE DEF d1, S, rule
<1>6. Files(d1)
  <2>1. \A f \in File : f \in StaticFiles <=> d.fstate[f] \in {"CONFIRMED", "MISSING"}
    BY DEF Good, Files
  <2>2. ASSUME NEW f \in DOMAIN new
        PROVE  d1.fhash[f] = Absent <=> d1.fstate[f] \in {"PLANNED", "MISSING"}
    BY <1>2, <1>4 DEF StoredHash
  <2> QED BY <1>2, <1>4, <2>1, <2>2 DEF Good, Files
<1>7. AgreeBut(d1, X, S)
  <2> SUFFICES ASSUME NEW f \in Products, Maker[f] \notin X
               PROVE  /\ d1.fstate[f] = "BUILT" => d1.state[Maker[f]] = "SUCCEEDED"
                      /\ d1.state[Maker[f]] = "SUCCEEDED" =>
                           d1.fstate[f] = "BUILT" \/ Maker[f] \in S
    BY DEF AgreeBut
  <2>1. f \in File /\ Maker[f] \in Step /\ d.fstate[f] \notin {"CONFIRMED", "MISSING"}
    BY Makers DEF Good, Files, Products
  <2>2. d.fstate[f] = "BUILT" <=> d.state[Maker[f]] = "SUCCEEDED"
    BY DEF Good, Agree
  <2>3. CASE f \in DOMAIN new
    BY <1>2, <1>4, <1>5, <2>1, <2>2, <2>3
  <2> QED BY <1>4, <2>1, <2>2, <2>3
<1>8. BlockedBut(d1, S)
  <2> SUFFICES ASSUME NEW s \in d1.deferred
               PROVE  /\ d1.state[s] = "PENDING"
                      /\ s \in S \/ \E f \in DynInputs(d1, s) : ~Available(d1, f)
    BY DEF BlockedBut
  <2>1. s \in Step /\ d1.state[s] = "PENDING"
    BY <1>4 DEF Good, Blocked, Tables
  <2>2. PICK f \in DynInputs(d, s) : ~Available(d, f)
    BY <1>4 DEF Good, Blocked
  <2>3. f \in DynInputs(d1, s) /\ f \in Inputs(d, s) /\ f \in File
    BY <1>4, <2>1, <2>2, GraphType DEF DynInputs, Inputs
  <2>4. CASE f \in DOMAIN new /\ Available(d1, f)
    <3>1. rule[f][4] \in {"CONFIRMED", "BUILT"}
      BY <1>4, <2>3, <2>4 DEF Available
    <3>2. ActsOnConsumers(rule[f][5], rule[f][4])
      BY <1>2, <2>4, <3>1 DEF ActsOnConsumers
    <3> QED BY <1>5, <2>1, <2>3, <2>4, <3>2
  <2>5. CASE f \notin DOMAIN new
    BY <1>4, <2>1, <2>2, <2>3, <2>5 DEF Available
  <2> QED BY <2>1, <2>3, <2>4, <2>5
<1>9. Known(d1)
  BY <1>4 DEF Good, Known
<1>10. /\ Good(e, X) /\ Spares(d1, e, {}) /\ e.hash = d1.hash
       /\ \A f \in File : Ages(d1, e, f)
  BY <1>1, <1>4, <1>6, <1>7, <1>8, <1>9, MarkPendingRestores
<1>11. Spares(d, e, {})
  BY <1>4, <1>10 DEF Spares, Busy
<1>12. ASSUME NEW f \in DOMAIN new
       PROVE  Updated(new, cause, e, f)
  <2>1. f \in File /\ (f \in StaticFiles <=> d.fstate[f] \in {"CONFIRMED", "MISSING"})
    BY <1>2 DEF Good, Files
  <2> QED BY <1>2, <1>4, <1>10, <2>1 DEF Updated, Ages
<1>13. ASSUME NEW f \in File, f \notin DOMAIN new
       PROVE  Ages(d, e, f)
  BY <1>4, <1>10, <1>13 DEF Ages
<1> QED BY <1>4, <1>10, <1>11, <1>12, <1>13
-----------------------------------------------------------------------------
(***************************************************************************)
(* The transactions of a job of the step s.                                *)
(***************************************************************************)
\* No file appears or disappears.
Mends(d, e) ==
  \A f \in File : e.fstate[f] = d.fstate[f] \/ {d.fstate[f], e.fstate[f]} \subseteq {"BUILT", "OUTDATED"}

LEMMA BusyFacts ==
  ASSUME NEW d, NEW X, Good(d, X), NEW s \in Busy(d)
  PROVE  /\ s \in Step /\ d.state[s] \in {"CHECKING", "RUNNING"} /\ s \notin d.deferred
         /\ s \notin X => BuiltOutputs(d, {s}) = {}
<1>1. s \in Step /\ d.state[s] \in {"CHECKING", "RUNNING"} /\ s \notin d.deferred
  BY DEF Good, Blocked, Busy
<1>2. ASSUME s \notin X, NEW f \in BuiltOutputs(d, {s})
      PROVE  FALSE
  <2>1. f \in Products /\ Maker[f] = s /\ d.fstate[f] = "BUILT"
    BY <1>1, Makers DEF BuiltOutputs
  <2> QED BY <1>1, <1>2, <2>1 DEF Good, Agree
<1> QED BY <1>1, <1>2

LEMMA SetStateGood ==
  ASSUME NEW d, Good(d, {}), NEW s \in Step, NEW st \in StepState, st # "SUCCEEDED",
         d.state[s] # "SUCCEEDED", s \notin d.deferred, st = "RUNNING" => d.hash[s] = NoHash,
         st = "CHECKING" => d.hash[s] # NoHash,
         NEW e, e = SetStates(d, {s}, st)
  PROVE  /\ Good(e, {}) /\ Spares(d, e, {s}) /\ Mends(d, e)
         /\ e.state[s] = st /\ e.hash = d.hash /\ e.deferred = d.deferred
<1>1. /\ Tables(e) /\ Same(d, e)
      /\ e.state = [t \in Step |-> IF t \in {s} THEN st ELSE d.state[t]]
      /\ e.deferred = d.deferred /\ e.fstate = d.fstate
  <2>1. Tables(d)
    BY DEF Good
  <2> QED BY <2>1, SetStatesTables
<1>2. Files(e) /\ Known(e)
  <2>1. Files(e)
    BY <1>1 DEF Good, Files, Same
  <2>2. Known(e)
    BY <1>1 DEF Good, Known, Same
  <2> QED BY <2>1, <2>2
<1>3. Agree(e, {})
  BY <1>1, Makers DEF Good, Agree
<1>4. Blocked(e)
  <2>1. \A t \in Step : DynInputs(e, t) = DynInputs(d, t)
    BY <1>1 DEF DynInputs, Same
  <2>2. \A f : Available(e, f) <=> Available(d, f)
    BY <1>1 DEF Available
  <2>3. \A t \in e.deferred : t \in d.deferred /\ t \in Step /\ e.state[t] = d.state[t]
    BY <1>1 DEF Good, Tables
  <2> QED BY <2>1, <2>2, <2>3 DEF Good, Blocked
<1>5. Spares(d, e, {s}) /\ Mends(d, e)
  BY <1>1 DEF Spares, Mends, Busy
<1> QED BY <1>1, <1>2, <1>3, <1>4, <1>5 DEF Good, Same

LEMMA DynamicGood ==
  ASSUME NEW d, Good(d, {}), NEW D \in SUBSET Step,
         \A s \in d.deferred : s \in D <=> s \in d.dynamic,
         NEW e, e = [d EXCEPT !.dynamic = D]
  PROVE  /\ Good(e, {}) /\ e.state = d.state /\ e.fstate = d.fstate /\ e.fhash = d.fhash
         /\ e.hash = d.hash /\ e.deferred = d.deferred
<1>1. /\ Tables(e) /\ e.state = d.state /\ e.fstate = d.fstate /\ e.fhash = d.fhash
      /\ e.hash = d.hash /\ e.deferred = d.deferred /\ e.dynamic = D
  BY DEF Good, Tables
<1>2. Files(e) /\ Known(e) /\ Agree(e, {})
  BY <1>1 DEF Good, Files, Known, Agree
<1>3. Blocked(e)
  BY <1>1 DEF Good, Blocked, DynInputs, Available
<1> QED BY <1>1, <1>2, <1>3 DEF Good

LEMMA ResetForRerunGood ==
  ASSUME NEW d, Good(d, {}), NEW s \in Busy(d), NEW e, e = ResetForRerun(d, s)
  PROVE  Good(e, {}) /\ Spares(d, e, {}) /\ Mends(d, e) /\ e.hash = d.hash
<1> DEFINE cut == [d EXCEPT !.dynamic = @ \ {s}]
<1> DEFINE same == SetFiles(cut, {}, "OUTDATED")
<1>1. /\ Good(cut, {}) /\ cut.state = d.state /\ cut.fstate = d.fstate /\ cut.hash = d.hash
  <2> DEFINE D == d.dynamic \ {s}
  <2>1. cut = [d EXCEPT !.dynamic = D] /\ D \in SUBSET Step
    BY DEF Good, Tables
  <2>2. \A t \in d.deferred : t \in D <=> t \in d.dynamic
    BY BusyFacts
  <2> HIDE DEF cut, D
  <2> QED BY <2>1, <2>2, DynamicGood
<1>2. e = MarkPending(same, Consumers(cut, {}))
  BY BusyFacts DEF ResetForRerun, MarkOutdated
<1> HIDE DEF cut
<1>3. /\ Tables(same) /\ Same(cut, same) /\ same.state = cut.state /\ same.deferred = cut.deferred
      /\ same.fstate = [f \in File |-> cut.fstate[f]]
  BY <1>1, SetFilesTables DEF Good, FileState
<1> HIDE DEF same
<1>4. Good(same, {})
  <2>1. same.fstate = cut.fstate
    BY <1>1, <1>3 DEF Good, Tables
  <2> QED BY <1>1, <1>3, <2>1 DEF Good, Files, Known, Agree, Blocked, DynInputs, Available, Same
<1>5. /\ Good(e, {}) /\ Spares(same, e, {}) /\ (\A f \in File : Ages(same, e, f))
      /\ e.hash = same.hash
  BY <1>2, <1>4, MarkPendingGood DEF Consumers
<1> QED BY <1>1, <1>3, <1>5 DEF Spares, Busy, Ages, Mends, Same

LEMMA ResetToPendingGood ==
  ASSUME NEW d, Good(d, {}), NEW s \in Busy(d), NEW e, e = ResetToPending(d, s)
  PROVE  Good(e, {}) /\ Spares(d, e, {s}) /\ Mends(d, e) /\ e.state[s] = "PENDING"
<1> DEFINE r == ResetForRerun(d, s)
<1> DEFINE p == SetStates(r, {s}, "PENDING")
<1>1. Good(r, {}) /\ Spares(d, r, {}) /\ Mends(d, r)
  BY ResetForRerunGood
<1>2. e = [p EXCEPT !.hash[s] = NoHash]
  BY DEF ResetToPending
<1>3. s \in Step /\ s \in Busy(r) /\ s \notin r.deferred /\ r.state[s] # "SUCCEEDED"
  <2>1. s \in Step /\ r.state[s] = d.state[s]
    BY <1>1, BusyFacts DEF Spares
  <2>2. s \in Busy(r)
    BY <2>1 DEF Busy
  <2> QED BY <1>1, <2>1, <2>2, BusyFacts
<1> HIDE DEF r
<1>4. Good(p, {}) /\ Spares(r, p, {s}) /\ Mends(r, p) /\ p.state[s] = "PENDING"
  <2>1. "PENDING" \in StepState
    BY DEF StepState
  <2> QED BY <1>1, <1>3, <2>1, SetStateGood
<1> HIDE DEF p
<1>5. /\ Tables(e) /\ e.state = p.state /\ e.deferred = p.deferred /\ e.fstate = p.fstate
      /\ e.fhash = p.fhash /\ e.dynamic = p.dynamic
      /\ e.hash = [t \in Step |-> IF t = s THEN NoHash ELSE p.hash[t]]
  BY <1>2, <1>3, <1>4 DEF Good, Tables
<1>6. Good(e, {})
  <2>1. Files(e) /\ Agree(e, {}) /\ Blocked(e)
    BY <1>4, <1>5 DEF Good, Files, Agree, Blocked, DynInputs, Available
  <2>2. Known(e)
    BY <1>3, <1>4, <1>5 DEF Good, Known
  <2> QED BY <1>5, <2>1, <2>2 DEF Good
<1>7. Spares(d, e, {s})
  BY <1>1, <1>4, <1>5 DEF Spares, Busy
<1>8. Mends(d, e)
  BY <1>1, <1>4, <1>5 DEF Mends
<1> QED BY <1>4, <1>5, <1>6, <1>7, <1>8

\* A step hash h that records no missing output.
Whole(s, h) == h # NoHash /\ \A f \in Outputs(s) : h[2][f] # Absent

LEMMA MarkSucceededGood ==
  ASSUME NEW d, NEW s, Good(d, {s}), s \in Busy(d), NEW h, Whole(s, h),
         \A f \in Outputs(s) : d.fstate[f] \in {"BUILT", "OUTDATED"},
         NEW e, e = MarkSucceeded(d, s, h)
  PROVE  Good(e, {}) /\ Spares(d, e, {s}) /\ Mends(d, e) /\ s \notin Busy(e)
<1> DEFINE outs == {f \in Outputs(s) : d.fstate[f] = "OUTDATED"}
<1> DEFINE d1 == SetStates(d, {s}, "SUCCEEDED")
<1> DEFINE d2 == SetFiles(d1, outs, "BUILT")
<1> DEFINE done == [d2 EXCEPT !.hash[s] = h, !.count[s] = 0, !.deferred = @ \ {s}]
<1> DEFINE S == Consumers(d, outs)
<1>0. s \in Step /\ Tables(d)
  BY BusyFacts DEF Good
<1>1. e = MarkPending(done, S) /\ S \in SUBSET Step
  <2>1. e = MarkPending(done, S)
    BY DEF MarkSucceeded
  <2> QED BY <2>1 DEF Consumers
<1>2. /\ Tables(d1) /\ Same(d, d1) /\ d1.deferred = d.deferred /\ d1.fstate = d.fstate
      /\ d1.state = [t \in Step |-> IF t \in {s} THEN "SUCCEEDED" ELSE d.state[t]]
  <2>1. "SUCCEEDED" \in StepState
    BY DEF StepState
  <2> QED BY <1>0, <2>1, SetStatesTables
<1> HIDE DEF d1
<1>3. /\ Tables(d2) /\ Same(d1, d2) /\ d2.deferred = d1.deferred /\ d2.state = d1.state
      /\ d2.fstate = [f \in File |-> IF f \in outs THEN "BUILT" ELSE d1.fstate[f]]
  <2>1. "BUILT" \in FileState
    BY DEF FileState
  <2> QED BY <1>2, <2>1, SetFilesTables
<1> HIDE DEF d2
<1>4. /\ Tables(done) /\ done.state = d2.state /\ done.fstate = d2.fstate /\ done.fhash = d2.fhash
      /\ done.dynamic = d2.dynamic /\ done.deferred = d2.deferred \ {s}
      /\ done.hash = [t \in Step |-> IF t = s THEN h ELSE d2.hash[t]]
  <2>1. done = [d2 EXCEPT !.hash = [d2.hash EXCEPT ![s] = h], !.count = [d2.count EXCEPT ![s] = 0],
                          !.deferred = d2.deferred \ {s}]
    BY <1>3 DEF Tables
  <2> HIDE DEF done
  <2>2. done = [state |-> d2.state, deferred |-> d2.deferred \ {s},
                count |-> [d2.count EXCEPT ![s] = 0], dynamic |-> d2.dynamic,
                hash |-> [d2.hash EXCEPT ![s] = h], fstate |-> d2.fstate, fhash |-> d2.fhash]
    BY <1>3, <2>1 DEF Tables
  <2> QED BY <1>0, <1>3, <2>2 DEF Tables
<1> HIDE DEF done
<1>5. /\ done.state = [t \in Step |-> IF t = s THEN "SUCCEEDED" ELSE d.state[t]]
      /\ done.fstate = [f \in File |-> IF f \in outs THEN "BUILT" ELSE d.fstate[f]]
      /\ done.fhash = d.fhash /\ done.dynamic = d.dynamic /\ done.deferred = d.deferred \ {s}
      /\ done.hash = [t \in Step |-> IF t = s THEN h ELSE d.hash[t]]
  BY <1>2, <1>3, <1>4 DEF Same
<1>6. outs \subseteq Products /\ \A f \in outs : d.fstate[f] = "OUTDATED"
  BY <1>0, Makers
<1>7. Files(done)
  BY <1>5, <1>6 DEF Good, Files, Products
<1>8. Known(done)
  BY <1>5 DEF Good, Known, Whole
<1>9. AgreeBut(done, {}, S)
  <2> SUFFICES ASSUME NEW f \in Products
               PROVE  done.fstate[f] = "BUILT" <=> done.state[Maker[f]] = "SUCCEEDED"
    BY DEF AgreeBut
  <2>1. Maker[f] \in Step /\ f \in File
    BY Makers DEF Products
  <2>2. CASE Maker[f] = s
    <3>1. f \in Outputs(s)
      BY <2>1, <2>2 DEF Outputs
    <3> QED BY <1>5, <2>1, <2>2, <3>1
  <2>3. CASE Maker[f] # s
    <3>1. f \notin outs
      BY <1>0, <2>3, Makers
    <3> QED BY <1>5, <2>1, <2>3, <3>1 DEF Good, Agree
  <2> QED BY <2>2, <2>3
<1>10. BlockedBut(done, S)
  <2> SUFFICES ASSUME NEW t \in done.deferred
               PROVE  /\ done.state[t] = "PENDING"
                      /\ t \in S \/ \E f \in DynInputs(done, t) : ~Available(done, f)
    BY DEF BlockedBut
  <2>1. t \in Step /\ t # s /\ done.state[t] = "PENDING" /\ t \in d.deferred
    BY <1>0, <1>5 DEF Good, Blocked, Tables
  <2>2. PICK f \in DynInputs(d, t) : ~Available(d, f)
    BY <2>1 DEF Good, Blocked
  <2>3. f \in DynInputs(done, t) /\ f \in Inputs(d, t) /\ f \in File
    BY <1>5, <2>1, <2>2, GraphType DEF DynInputs, Inputs
  <2>4. CASE f \in outs
    BY <2>1, <2>3, <2>4 DEF Consumers
  <2>5. CASE f \notin outs
    BY <1>5, <2>1, <2>2, <2>3, <2>5 DEF Available
  <2> QED BY <2>4, <2>5
<1> HIDE DEF S, outs
<1>11. /\ Good(e, {}) /\ Spares(done, e, {}) /\ \A f \in File : Ages(done, e, f)
  BY <1>1, <1>4, <1>7, <1>8, <1>9, <1>10, MarkPendingRestores
<1>12. Mends(d, e)
  BY <1>5, <1>6, <1>11 DEF Ages, Mends
<1>13. Spares(d, e, {s}) /\ s \notin Busy(e)
  BY <1>0, <1>5, <1>11 DEF Spares, Busy
<1> QED BY <1>11, <1>12, <1>13

\* What mark_completed without a step hash does to the columns.
LEMMA MarkUnsuccessfulTables ==
  ASSUME NEW d, Good(d, {}), NEW s \in Busy(d), NEW w \in BOOLEAN,
         NEW e, e = MarkUnsuccessful(d, s, w)
  PROVE  /\ Tables(e) /\ e.fstate = d.fstate /\ e.fhash = d.fhash /\ e.dynamic = d.dynamic
         /\ e.hash = [t \in Step |-> IF t = s THEN NoHash ELSE d.hash[t]]
         /\ \A t \in Step \ {s} : e.state[t] = d.state[t]
         /\ e.state[s] \in {"PENDING", "FAILED"}
         /\ \/ e.deferred = d.deferred \ {s}
            \/ /\ e.deferred = d.deferred \cup {s} /\ e.state[s] = "PENDING"
               /\ \E f \in DynInputs(d, s) : ~Available(d, f)
<1> DEFINE defers == w /\ d.count[s] < DeferCap
<1> DEFINE blocked == \E f \in DynInputs(d, s) : ~Available(d, f)
<1> DEFINE st == IF defers THEN "PENDING" ELSE "FAILED"
<1> DEFINE back == SetFiles(d, BuiltOutputs(d, {s}), "OUTDATED")
<1> DEFINE d1 == SetStates(back, {s}, st)
<1>3. e = [d1 EXCEPT !.hash[s] = NoHash, !.count[s] = IF w /\ @ <= DeferCap THEN @ + 1 ELSE @,
                     !.deferred = IF defers /\ blocked THEN @ \cup {s} ELSE @ \ {s}]
  BY DEF MarkUnsuccessful
<1>0. s \in Step /\ Tables(d) /\ BuiltOutputs(d, {s}) = {} /\ d.state[s] \in {"CHECKING", "RUNNING"}
  BY BusyFacts DEF Good
<1>1. /\ Tables(back) /\ Same(d, back) /\ back.deferred = d.deferred /\ back.state = d.state
      /\ back.fstate = d.fstate
  <2>1. "OUTDATED" \in FileState
    BY DEF FileState
  <2> DEFINE B == BuiltOutputs(d, {s})
  <2>2. /\ Tables(back) /\ Same(d, back) /\ back.deferred = d.deferred /\ back.state = d.state
        /\ back.fstate = [f \in File |-> IF f \in B THEN "OUTDATED" ELSE d.fstate[f]]
    <3>1. back = SetFiles(d, B, "OUTDATED")
      OBVIOUS
    <3> HIDE DEF B, back
    <3> QED BY <1>0, <2>1, <3>1, SetFilesTables
  <2> QED BY <1>0, <2>2 DEF Tables
<1> HIDE DEF back
<1>2. /\ Tables(d1) /\ Same(back, d1) /\ d1.deferred = back.deferred /\ d1.fstate = back.fstate
      /\ d1.state = [t \in Step |-> IF t \in {s} THEN st ELSE back.state[t]]
  <2>1. st \in StepState
    BY DEF StepState
  <2> HIDE DEF st
  <2> QED BY <1>1, <2>1, SetStatesTables
<1> DEFINE count == IF w /\ d1.count[s] <= DeferCap THEN d1.count[s] + 1 ELSE d1.count[s]
<1> DEFINE deferred == IF defers /\ blocked THEN d1.deferred \cup {s} ELSE d1.deferred \ {s}
<1> HIDE DEF d1
<1>4. /\ Tables(e) /\ e.state = d1.state /\ e.fstate = d1.fstate /\ e.fhash = d1.fhash
      /\ e.dynamic = d1.dynamic
      /\ e.deferred = IF defers /\ blocked THEN d1.deferred \cup {s} ELSE d1.deferred \ {s}
      /\ e.hash = [t \in Step |-> IF t = s THEN NoHash ELSE d1.hash[t]]
  <2>1. count \in Nat /\ deferred \in SUBSET Step
    BY <1>0, <1>2 DEF Tables
  <2>2. e = [d1 EXCEPT !.hash = [d1.hash EXCEPT ![s] = NoHash],
                       !.count = [d1.count EXCEPT ![s] = count], !.deferred = deferred]
    BY <1>2, <1>3 DEF Tables
  <2> HIDE DEF count, deferred
  <2>3. e = [state |-> d1.state, deferred |-> deferred,
             count |-> [d1.count EXCEPT ![s] = count], dynamic |-> d1.dynamic,
             hash |-> [d1.hash EXCEPT ![s] = NoHash], fstate |-> d1.fstate, fhash |-> d1.fhash]
    BY <1>2, <2>2 DEF Tables
  <2> QED BY <1>0, <1>2, <2>1, <2>3 DEF Tables, deferred
<1>5. /\ e.state = [t \in Step |-> IF t = s THEN st ELSE d.state[t]]
      /\ e.fstate = d.fstate /\ e.fhash = d.fhash /\ e.dynamic = d.dynamic
      /\ e.deferred = IF defers /\ blocked THEN d.deferred \cup {s} ELSE d.deferred \ {s}
      /\ e.hash = [t \in Step |-> IF t = s THEN NoHash ELSE d.hash[t]]
  BY <1>1, <1>2, <1>4 DEF Same
<1> QED BY <1>0, <1>4, <1>5

LEMMA MarkUnsuccessfulGood ==
  ASSUME NEW d, Good(d, {}), NEW s \in Busy(d), NEW w \in BOOLEAN,
         NEW e, e = MarkUnsuccessful(d, s, w)
  PROVE  Good(e, {}) /\ Spares(d, e, {s}) /\ Mends(d, e) /\ s \notin Busy(e)
<1>0. s \in Step /\ Tables(d) /\ BuiltOutputs(d, {s}) = {} /\ d.state[s] \in {"CHECKING", "RUNNING"}
  BY BusyFacts DEF Good
<1>4. Tables(e)
  BY MarkUnsuccessfulTables
<1>5. /\ e.fstate = d.fstate /\ e.fhash = d.fhash /\ e.dynamic = d.dynamic
      /\ e.hash = [t \in Step |-> IF t = s THEN NoHash ELSE d.hash[t]]
      /\ \A t \in Step \ {s} : e.state[t] = d.state[t]
      /\ e.state[s] \in {"PENDING", "FAILED"}
      /\ \/ e.deferred = d.deferred \ {s}
         \/ /\ e.deferred = d.deferred \cup {s} /\ e.state[s] = "PENDING"
            /\ \E f \in DynInputs(d, s) : ~Available(d, f)
  BY MarkUnsuccessfulTables
<1>6. Files(e) /\ Known(e)
  <2>1. Files(e)
    BY <1>5 DEF Good, Files
  <2>2. Known(e)
    BY <1>5 DEF Good, Known
  <2> QED BY <2>1, <2>2
<1>7. Agree(e, {})
  BY <1>0, <1>5, Makers DEF Good, Agree
<1>8. Blocked(e)
  <2>1. \A t \in Step : DynInputs(e, t) = DynInputs(d, t)
    BY <1>5 DEF DynInputs
  <2>2. \A f \in File : Available(e, f) <=> Available(d, f)
    BY <1>5 DEF Available
  <2>3. ASSUME NEW t \in e.deferred
        PROVE  e.state[t] = "PENDING" /\ \E f \in DynInputs(e, t) : ~Available(e, f)
    <3>1. CASE t = s
      BY <1>0, <1>5, <2>1, <2>2, <2>3, <3>1 DEF Available
    <3>2. CASE t # s
      <4>1. t \in d.deferred /\ t \in Step
        BY <1>5, <2>3, <3>2, <1>0 DEF Tables
      <4> QED BY <1>5, <2>1, <3>2, <4>1 DEF Good, Blocked, Available
    <3> QED BY <3>1, <3>2
  <2> QED BY <2>3 DEF Blocked
<1>9. Spares(d, e, {s}) /\ Mends(d, e) /\ s \notin Busy(e)
  BY <1>0, <1>5 DEF Spares, Mends, Busy
<1> QED BY <1>4, <1>6, <1>7, <1>8, <1>9 DEF Good
-----------------------------------------------------------------------------
(***************************************************************************)
(* The inductive invariant.                                                *)
(***************************************************************************)
Shape(j) ==
  /\ j = [at |-> j.at, inp |-> j.inp, read |-> j.read, bad |-> j.bad, out |-> j.out,
          fresh |-> j.fresh, amended |-> j.amended, ok |-> j.ok, wait |-> j.wait]
  /\ j.ok \in BOOLEAN /\ j.wait \in BOOLEAN

\* The job of s, and what it has seen of the files: during a build no output
\* is lost from the disk, nor does the database forget one.
JobInv(s) ==
  /\ Shape(job[s])
  /\ job[s].at = "none" <=> s \notin Busy(db)
  /\ job[s].at \in {"noskip", "valid", "outs"} => db.state[s] = "CHECKING"
  /\ job[s].at \in {"reset", "run", "collect", "hash", "settle"} => db.state[s] = "RUNNING"
  /\ job[s].at # "none" =>
       \A f \in DOMAIN job[s].inp : f \in File /\ (f \in Products => disk[f] # Absent)
  /\ job[s].at \in {"reject", "settle"} =>
       /\ job[s].bad \subseteq DOMAIN job[s].inp
       /\ \A f \in job[s].bad \cap Products : job[s].read[f] # Absent
  /\ job[s].at = "hash" =>
       \A f \in Outputs(s) : job[s].out[f] # Absent => db.fstate[f] # "PLANNED"
  /\ job[s].at = "settle" =>
       /\ job[s].fresh \subseteq Outputs(s)
       /\ \A f \in job[s].fresh : job[s].out[f] # Absent /\ disk[f] # Absent
       /\ job[s].ok => \A f \in Outputs(s) :
            job[s].out[f] # Absent /\ (f \in job[s].fresh \/ db.fstate[f] # "PLANNED")

Jobs == job = [s \in Step |-> job[s]] /\ \A s \in Step : JobInv(s)

Modes ==
  /\ mode \in {"build", "watch", "rescan", "raised"} /\ draining \in BOOLEAN /\ due \in BOOLEAN
  /\ events \in 0 .. MaxEvents
  /\ mode \in {"watch", "rescan"} => ~due /\ \A s \in Step : job[s].at = "none"
  /\ mode = "watch" /\ ~draining => \A s \in Step : ~Eligible(db, s)

\* What is yet to be rescanned is in the table of state transitions.
Changes ==
  /\ changed \subseteq File
  /\ \A f \in changed : db.fstate[f] # "PLANNED"
  /\ mode = "rescan" => \A f \in changed : db.fstate[f] = "MISSING" => disk[f] # Absent
  /\ mode \notin {"watch", "rescan"} => changed \subseteq StaticFiles

\* An output that is missing on disk is known to be, or is yet to be rescanned.
Present ==
  /\ disk = [f \in File |-> disk[f]]
  /\ \A f \in Products \ changed : db.fstate[f] # "PLANNED" => disk[f] # Absent

IInv == Good(db, {}) /\ Jobs /\ Modes /\ Changes /\ Present

LEMMA Contents ==
  /\ \A n : Typed(n) # Absent
  /\ \A s, inputs : Made(s, inputs) # Absent
BY DEF Typed, Made, Absent

LEMMA IInvInit == Init => IInv
<1> SUFFICES ASSUME Init PROVE IInv
  OBVIOUS
<1>1. /\ db.state = [s \in Step |-> "PENDING"] /\ db.deferred = {} /\ db.dynamic = {}
      /\ db.hash = [s \in Step |-> NoHash] /\ db.count = [s \in Step |-> 0]
      /\ db.fstate = [f \in File |-> IF f \in StaticFiles THEN "CONFIRMED" ELSE "PLANNED"]
      /\ db.fhash = [f \in File |-> IF f \in StaticFiles THEN Typed(0) ELSE Absent]
      /\ db = [state |-> db.state, deferred |-> db.deferred, count |-> db.count,
               dynamic |-> db.dynamic, hash |-> db.hash, fstate |-> db.fstate, fhash |-> db.fhash]
  BY DEF Init
<1>2. Good(db, {})
  <2>1. Tables(db)
    BY <1>1 DEF Tables, StepState, FileState
  <2>2. Files(db)
    BY <1>1, Contents DEF Files
  <2>3. Agree(db, {}) /\ Known(db) /\ Blocked(db)
    BY <1>1, Makers DEF Agree, Known, Blocked, Products
  <2> QED BY <2>1, <2>2, <2>3 DEF Good
<1>3. Jobs
  BY <1>1 DEF Init, Jobs, JobInv, Shape, NoJob, Busy
<1>4. Modes /\ Changes /\ Present
  <2>1. disk = [f \in File |-> disk[f]] /\ \A f \in Products : db.fstate[f] = "PLANNED"
    BY <1>1 DEF Init, Products
  <2>2. Modes
    <3>1. mode = "build" /\ draining = FALSE /\ due = FALSE /\ events = 0
      BY DEF Init
    <3>2. 0 \in 0 .. MaxEvents
      BY UseType
    <3> QED BY <3>1, <3>2 DEF Modes
  <2>3. Changes /\ Present
    BY <2>1 DEF Init, Changes, Present
  <2> QED BY <2>2, <2>3
<1> QED BY <1>2, <1>3, <1>4 DEF IInv
-----------------------------------------------------------------------------
(***************************************************************************)
(* A step of a job during a build.                                         *)
(***************************************************************************)
\* No output appears in the database that is not on disk.
Gains(d, e) ==
  \A f \in Products : e.fstate[f] # "PLANNED" => d.fstate[f] # "PLANNED" \/ disk[f] # Absent

LEMMA MendsKeeps ==
  ASSUME NEW d, NEW e, Mends(d, e)
  PROVE  Keeps(d, e) /\ Gains(d, e)
BY DEF Mends, Keeps, Gains, Products

LEMMA JobSteps ==
  ASSUME IInv, mode = "build", NEW s \in Step,
         Good(db', {}), Spares(db, db', {s}), Keeps(db, db'), Gains(db, db'),
         disk' = [f \in File |-> disk'[f]], \A f \in Products : disk[f] # Absent => disk'[f] # Absent,
         job' = [job EXCEPT ![s] = job'[s]], JobInv(s)',
         due' \in BOOLEAN, UNCHANGED <<mode, draining, changed, events>>
  PROVE  IInv'
<1>1. \A t \in Step \ {s} : job'[t] = job[t]
  BY DEF IInv, Jobs
<1>2. Jobs'
  <2>1. ASSUME NEW t \in Step, t # s
        PROVE  JobInv(t)'
    <3>1. job'[t] = job[t] /\ JobInv(t)
      BY <1>1, <2>1 DEF IInv, Jobs
    <3>2. IF t \in Busy(db) THEN db'.state[t] = db.state[t] ELSE t \notin Busy(db')
      BY <2>1 DEF Spares
    <3>3. t \in Busy(db) <=> t \in Busy(db')
      BY <3>2 DEF Busy
    <3>4. \A f \in Outputs(t) : db.fstate[f] # "PLANNED" => db'.fstate[f] # "PLANNED"
      BY Makers DEF Keeps
    <3>5. job[t].at = "settle" => \A f \in job[t].fresh : f \in Products
      BY <3>1, Makers DEF JobInv
    <3>6. /\ Shape(job'[t]) /\ (job'[t].at = "none" <=> t \notin Busy(db'))
          /\ job'[t].at \in {"noskip", "valid", "outs"} => db'.state[t] = "CHECKING"
          /\ job'[t].at \in {"reset", "run", "collect", "hash", "settle"} => db'.state[t] = "RUNNING"
      BY <3>1, <3>2, <3>3 DEF JobInv
    <3>7. /\ job'[t].at # "none" =>
               \A f \in DOMAIN job'[t].inp : f \in File /\ (f \in Products => disk'[f] # Absent)
          /\ job'[t].at \in {"reject", "settle"} =>
               /\ job'[t].bad \subseteq DOMAIN job'[t].inp
               /\ \A f \in job'[t].bad \cap Products : job'[t].read[f] # Absent
          /\ job'[t].at = "hash" =>
               \A f \in Outputs(t) : job'[t].out[f] # Absent => db'.fstate[f] # "PLANNED"
      BY <3>1, <3>4 DEF JobInv
    <3>8. job'[t].at = "settle" =>
            /\ job'[t].fresh \subseteq Outputs(t)
            /\ \A f \in job'[t].fresh : job'[t].out[f] # Absent /\ disk'[f] # Absent
            /\ job'[t].ok => \A f \in Outputs(t) :
                 job'[t].out[f] # Absent /\ (f \in job'[t].fresh \/ db'.fstate[f] # "PLANNED")
      BY <3>1, <3>4, <3>5 DEF JobInv
    <3> QED BY <3>6, <3>7, <3>8 DEF JobInv
  <2>2. job' = [t \in Step |-> job'[t]]
    BY DEF IInv, Jobs
  <2> QED BY <2>1, <2>2 DEF Jobs
<1>3. Modes'
  BY DEF IInv, Modes
<1>4. changed \subseteq StaticFiles /\ changed \subseteq File
  BY DEF IInv, Changes
<1>5. Changes'
  BY <1>4 DEF Changes, Good, Files
<1>6. Present'
  BY <1>4 DEF IInv, Present, Gains, Products
<1> QED BY <1>2, <1>3, <1>5, <1>6 DEF IInv

LEMMA DiskStays ==
  ASSUME IInv, disk' = disk
  PROVE  disk' = [f \in File |-> disk'[f]] /\ \A f \in Products : disk[f] # Absent => disk'[f] # Absent
BY DEF IInv, Present

\* Only the job changes.
LEMMA QuietSteps ==
  ASSUME IInv, mode = "build", NEW s \in Step, s \in Busy(db),
         disk' = [f \in File |-> disk'[f]], \A f \in Products : disk[f] # Absent => disk'[f] # Absent,
         job' = [job EXCEPT ![s] = job'[s]], JobInv(s)',
         UNCHANGED <<db, due, mode, draining, changed, events>>
  PROVE  IInv'
<1>1. Spares(db, db', {s}) /\ Keeps(db, db') /\ Gains(db, db')
  BY DEF Spares, Keeps, Gains, Busy
<1>2. Good(db', {}) /\ due' \in BOOLEAN
  BY DEF IInv, Modes
<1> QED BY <1>1, <1>2, JobSteps

\* The job is done.
LEMMA EndSteps ==
  ASSUME IInv, mode = "build", NEW s \in Step, NEW e,
         Good(e, {}), Spares(db, e, {s}), Keeps(db, e), Gains(db, e), s \notin Busy(e),
         db' = e, disk' = disk, job' = [job EXCEPT ![s] = NoJob],
         due' \in BOOLEAN, UNCHANGED <<mode, draining, changed, events>>
  PROVE  IInv'
<1>1. job'[s] = NoJob /\ job' = [job EXCEPT ![s] = job'[s]]
  BY DEF IInv, Jobs
<1>2. JobInv(s)'
  <2>1. Shape(NoJob) /\ NoJob.at = "none"
    BY DEF Shape, NoJob
  <2> QED BY <1>1, <2>1 DEF JobInv
<1> QED BY <1>1, <1>2, DiskStays, JobSteps

\* What is recorded of available files, while no output is missing.
LEMMA RecordedFacts ==
  ASSUME IInv, mode = "build", NEW s \in Step
  PROVE  \A f \in DOMAIN Recorded(db, s) : f \in File /\ (f \in Products => disk[f] # Absent)
<1>1. ASSUME NEW f \in Inputs(db, s), Available(db, f), f \in Products
      PROVE  disk[f] # Absent
  <2>1. f \notin changed
    BY <1>1 DEF IInv, Changes, Products
  <2> QED BY <1>1, <2>1 DEF IInv, Present, Available
<1>2. Inputs(db, s) \subseteq File
  BY GraphType DEF Inputs, DynInputs
<1> QED BY <1>1, <1>2 DEF Recorded

LEMMA PopKeeps ==
  ASSUME IInv, NEW s \in Step, Pop(s)
  PROVE  IInv'
<1> DEFINE st == IF db.hash[s] # NoHash THEN "CHECKING" ELSE "RUNNING"
<1>1. /\ mode = "build" /\ db.state[s] = "PENDING" /\ s \notin db.deferred
      /\ db' = SetStates(db, {s}, st) /\ disk' = disk
      /\ job' = [job EXCEPT ![s] = [NoJob EXCEPT !.at = "verify", !.inp = Recorded(db, s)]]
      /\ UNCHANGED <<due, mode, draining, changed, events>>
  BY DEF Pop, Eligible, KeepBuild
<1>2. /\ Good(db', {}) /\ Spares(db, db', {s}) /\ Mends(db, db')
      /\ db'.state[s] = st /\ db'.hash = db.hash
  <2>1. /\ st \in StepState /\ st # "SUCCEEDED"
        /\ st = "RUNNING" => db.hash[s] = NoHash
        /\ st = "CHECKING" => db.hash[s] # NoHash
    BY DEF StepState
  <2> HIDE DEF st
  <2> QED BY <1>1, <2>1, SetStateGood DEF IInv
<1>3. /\ job' = [job EXCEPT ![s] = job'[s]]
      /\ job'[s] = [NoJob EXCEPT !.at = "verify", !.inp = Recorded(db, s)]
  BY <1>1 DEF IInv, Jobs
<1>4. \A f \in DOMAIN Recorded(db, s) : f \in File /\ (f \in Products => disk[f] # Absent)
  BY <1>1, RecordedFacts
<1>5. JobInv(s)'
  <2>1. /\ job'[s].at = "verify" /\ job'[s].inp = Recorded(db, s) /\ Shape(job'[s])
    BY <1>3 DEF NoJob, Shape
  <2>2. s \in Busy(db')
    BY <1>2 DEF Busy
  <2> QED BY <1>1, <1>4, <2>1, <2>2 DEF JobInv
<1> QED BY <1>1, <1>2, <1>3, <1>5, DiskStays, JobSteps, MendsKeeps DEF IInv, Modes

\* A job in flight, and its record after an EXCEPT.
LEMMA AtFacts ==
  ASSUME IInv, NEW s \in Step, job[s].at # "none"
  PROVE  /\ s \in Busy(db) /\ Shape(job[s]) /\ JobInv(s) /\ db.state[s] \in {"CHECKING", "RUNNING"}
         /\ \A j : job' = [job EXCEPT ![s] = j] => job'[s] = j /\ job' = [job EXCEPT ![s] = job'[s]]
BY DEF IInv, Jobs, JobInv, Busy

LEMMA RaiseKeeps ==
  ASSUME IInv, mode = "build", Raise
  PROVE  IInv'
<1>1. mode' = "raised" /\ UNCHANGED <<db, disk, job, draining, due, changed, events>>
  BY DEF Raise
<1>2. Jobs'
  BY <1>1 DEF IInv, Jobs, JobInv
<1>3. Modes'
  BY <1>1 DEF IInv, Modes
<1>4. Changes' /\ Present'
  BY <1>1 DEF IInv, Changes, Present
<1> QED BY <1>1, <1>2, <1>3, <1>4 DEF IInv

LEMMA VerifyKeeps ==
  ASSUME IInv, NEW s \in Step, Verify(s)
  PROVE  IInv'
<1> DEFINE bad == {f \in DOMAIN job[s].inp : disk[f] # job[s].inp[f]}
<1> DEFINE to == IF bad # {} THEN "reject"
                 ELSE IF db.state[s] = "RUNNING" THEN "reset"
                 ELSE IF job[s].inp # db.hash[s][1] THEN "noskip"
                 ELSE IF DOMAIN job[s].inp # Inputs(db, s) THEN "valid" ELSE "outs"
<1> DEFINE j == [job[s] EXCEPT !.at = to, !.bad = bad, !.read = [f \in bad |-> disk[f]]]
<1>1. /\ mode = "build" /\ job[s].at = "verify" /\ job' = [job EXCEPT ![s] = j]
      /\ UNCHANGED <<db, disk, due, mode, draining, changed, events>>
  BY DEF Verify, At, KeepTimes, KeepBuild
<1>2. /\ s \in Busy(db) /\ Shape(job[s]) /\ JobInv(s) /\ db.state[s] \in {"CHECKING", "RUNNING"}
      /\ job'[s] = j /\ job' = [job EXCEPT ![s] = job'[s]]
  <2> HIDE DEF j
  <2> QED BY <1>1, AtFacts
<1>3. /\ to \in {"reject", "reset", "noskip", "valid", "outs"} /\ (to = "reject" => bad # {})
      /\ to = "reset" => db.state[s] = "RUNNING"
      /\ to \in {"noskip", "valid", "outs"} => db.state[s] # "RUNNING"
  OBVIOUS
<1>4. \A f \in bad \cap Products : disk[f] # Absent
  BY <1>1, <1>2 DEF JobInv
<1> HIDE DEF to
<1>5. /\ Shape(j) /\ j.at = to /\ j.inp = job[s].inp /\ j.bad = bad
      /\ j.read = [f \in bad |-> disk[f]]
  BY <1>2 DEF Shape
<1>6. bad \subseteq DOMAIN job[s].inp
  OBVIOUS
<1> HIDE DEF j, bad
<1>7. JobInv(s)'
  BY <1>1, <1>2, <1>3, <1>4, <1>5, <1>6 DEF JobInv
<1> QED BY <1>1, <1>2, <1>7, DiskStays, QuietSteps

LEMMA RejectKeeps ==
  ASSUME IInv, NEW s \in Step, Reject(s)
  PROVE  IInv'
<1> DEFINE new == [f \in job[s].bad |-> job[s].read[f]]
<1> DEFINE j == [job[s] EXCEPT !.at = "giveup"]
<1>1. mode = "build" /\ job[s].at = "reject"
  BY DEF Reject, At
<1>2. CASE ~Expected(db, new, "FAILED")
  BY <1>1, <1>2, RaiseKeeps DEF Reject
<1>3. CASE Expected(db, new, "FAILED")
  <2>1. /\ db' = UpdateHashes(db, new, "FAILED") /\ job' = [job EXCEPT ![s] = j]
        /\ UNCHANGED <<disk, due, mode, draining, changed, events>>
    BY <1>3 DEF Reject, KeepTimes, KeepBuild
  <2>2. /\ s \in Busy(db) /\ Shape(job[s]) /\ JobInv(s) /\ db.state[s] \in {"CHECKING", "RUNNING"}
        /\ job'[s] = j /\ job' = [job EXCEPT ![s] = job'[s]]
    BY <1>1, <2>1, AtFacts
  <2>3. /\ DOMAIN new \subseteq File
        /\ \A f \in DOMAIN new : f \in Products => new[f] # Absent /\ disk[f] # Absent
    BY <1>1, <2>2 DEF JobInv
  <2>4. /\ Good(db', {}) /\ Spares(db, db', {})
        /\ \A f \in File : IF f \in DOMAIN new THEN Updated(new, "FAILED", db', f)
                           ELSE Ages(db, db', f)
    <3>1. "FAILED" \in Causes /\ "FAILED" # "SUCCEEDED"
      BY DEF Causes
    <3> HIDE DEF new
    <3> QED BY <1>3, <2>1, <2>3, <3>1, UpdateHashesGood DEF IInv
  <2> HIDE DEF new
  <2>5. Keeps(db, db') /\ Gains(db, db')
    BY <2>3, <2>4 DEF Keeps, Gains, Updated, Ages, Products
  <2>6. /\ s \in Busy(db') /\ Spares(db, db', {s})
    BY <2>2, <2>4 DEF Spares, Busy
  <2>7. Shape(j) /\ j.at = "giveup" /\ j.inp = job[s].inp
    BY <2>2 DEF Shape
  <2> HIDE DEF j
  <2>8. JobInv(s)'
    BY <1>1, <2>1, <2>2, <2>6, <2>7 DEF JobInv
  <2> QED BY <1>1, <2>1, <2>2, <2>4, <2>5, <2>6, <2>8, DiskStays, JobSteps DEF IInv, Modes
<1> QED BY <1>2, <1>3

LEMMA GiveUpKeeps ==
  ASSUME IInv, NEW s \in Step, GiveUp(s)
  PROVE  IInv'
<1>1. /\ mode = "build" /\ job[s].at = "giveup" /\ db' = MarkUnsuccessful(db, s, FALSE)
      /\ job' = [job EXCEPT ![s] = NoJob] /\ due' = TRUE
      /\ UNCHANGED <<disk, mode, draining, changed, events>>
  BY DEF GiveUp, At, KeepBuild
<1>2. s \in Busy(db)
  BY <1>1, AtFacts
<1>3. Good(db', {}) /\ Spares(db, db', {s}) /\ Mends(db, db') /\ s \notin Busy(db')
  BY <1>1, <1>2, MarkUnsuccessfulGood DEF IInv
<1> QED BY <1>1, <1>3, MendsKeeps, EndSteps

LEMMA EndJobKeeps ==
  ASSUME IInv, mode = "build", NEW s \in Step, NEW e,
         Good(e, {}), Spares(db, e, {s}), Mends(db, e), s \notin Busy(e), EndJob(s, e)
  PROVE  IInv'
<1>1. /\ db' = e /\ job' = [job EXCEPT ![s] = NoJob]
      /\ UNCHANGED <<disk, due, mode, draining, changed, events>>
  BY DEF EndJob, KeepTimes, KeepBuild
<1> QED BY <1>1, MendsKeeps, EndSteps DEF IInv, Modes

LEMMA NoSkipKeeps ==
  ASSUME IInv, NEW s \in Step, NoSkip(s) \/ StillValid(s)
  PROVE  IInv'
<1>1. mode = "build" /\ job[s].at \in {"noskip", "valid"}
  BY DEF NoSkip, StillValid, At
<1>2. s \in Busy(db) /\ db.state[s] \in {"CHECKING", "RUNNING"}
  BY <1>1, AtFacts
<1>3. CASE NoSkip(s)
  <2> DEFINE e == ResetToPending(db, s)
  <2>1. Good(e, {}) /\ Spares(db, e, {s}) /\ Mends(db, e) /\ e.state[s] = "PENDING"
    BY <1>2, ResetToPendingGood DEF IInv
  <2>2. EndJob(s, e)
    BY <1>3 DEF NoSkip
  <2> HIDE DEF e
  <2> QED BY <1>1, <2>1, <2>2, EndJobKeeps DEF Busy
<1>4. CASE StillValid(s)
  <2> DEFINE e == SetStates(db, {s}, "PENDING")
  <2>1. Good(e, {}) /\ Spares(db, e, {s}) /\ Mends(db, e) /\ e.state[s] = "PENDING"
    <3>1. "PENDING" \in StepState /\ s \notin db.deferred
      BY <1>2, BusyFacts DEF StepState, IInv
    <3>2. Good(db, {}) /\ db.state[s] # "SUCCEEDED"
      BY <1>2 DEF IInv
    <3> QED BY <3>1, <3>2, SetStateGood
  <2>2. EndJob(s, e)
    BY <1>4 DEF StillValid
  <2> HIDE DEF e
  <2> QED BY <1>1, <2>1, <2>2, EndJobKeeps DEF Busy
<1> QED BY <1>3, <1>4

LEMMA ResetKeeps ==
  ASSUME IInv, NEW s \in Step, Reset(s)
  PROVE  IInv'
<1> DEFINE j == [job[s] EXCEPT !.at = "run", !.amended = (Dyn[s] = {})]
<1>1. /\ mode = "build" /\ job[s].at = "reset" /\ db' = ResetForRerun(db, s)
      /\ job' = [job EXCEPT ![s] = j]
      /\ UNCHANGED <<disk, due, mode, draining, changed, events>>
  BY DEF Reset, At, KeepTimes, KeepBuild
<1>2. /\ s \in Busy(db) /\ Shape(job[s]) /\ JobInv(s)
      /\ job'[s] = j /\ job' = [job EXCEPT ![s] = job'[s]]
  <2> HIDE DEF j
  <2> QED BY <1>1, AtFacts
<1>3. Good(db', {}) /\ Spares(db, db', {}) /\ Mends(db, db')
  BY <1>1, <1>2, ResetForRerunGood DEF IInv
<1>4. Shape(j) /\ j.at = "run" /\ j.inp = job[s].inp
  BY <1>2 DEF Shape
<1> HIDE DEF j
<1>5. s \in Busy(db') /\ db'.state[s] = "RUNNING" /\ Spares(db, db', {s})
  BY <1>1, <1>2, <1>3 DEF Spares, Busy, JobInv
<1>6. JobInv(s)'
  BY <1>1, <1>2, <1>4, <1>5 DEF JobInv
<1> QED BY <1>1, <1>2, <1>3, <1>5, <1>6, MendsKeeps, DiskStays, JobSteps DEF IInv, Modes

\* Steps of the command that leave the database alone.
LEMMA CommandKeeps ==
  ASSUME IInv, NEW s \in Step, Read(s) \/ Stumble(s) \/ Write(s)
  PROVE  IInv'
<1>1. /\ mode = "build" /\ job[s].at = "run"
      /\ UNCHANGED <<db, due, mode, draining, changed, events>>
  BY DEF Read, Stumble, Write, At, KeepTimes, KeepBuild
<1>2. s \in Busy(db) /\ Shape(job[s]) /\ JobInv(s)
  BY <1>1, AtFacts
<1>3. \/ /\ Read(s) \/ Stumble(s)
         /\ disk' = disk
      \/ disk' = [f \in File |-> IF Maker[f] = s THEN Made(s, job[s].read) ELSE disk[f]]
  BY DEF Read, Stumble, Write
<1>4. disk' = [f \in File |-> disk'[f]] /\ \A f \in File : disk[f] # Absent => disk'[f] # Absent
  BY <1>3, Contents DEF IInv, Present
<1>5. /\ job' = [job EXCEPT ![s] = job'[s]] /\ Shape(job'[s])
      /\ job'[s].at \in {"run", "collect"} /\ job'[s].inp = job[s].inp
  <2>1. CASE Read(s)
    <3> DEFINE r == [f \in Inp[s] \cup Dyn[s] |-> disk[f]]
    <3>1. job' = [job EXCEPT ![s].read = r]
      BY <2>1 DEF Read
    <3> HIDE DEF r
    <3> QED BY <1>1, <1>2, <3>1 DEF Shape, IInv, Jobs
  <2>2. CASE Stumble(s)
    BY <1>2, <2>2 DEF Stumble, Shape, IInv, Jobs
  <2>3. CASE Write(s)
    BY <1>2, <2>3 DEF Write, Shape, IInv, Jobs
  <2> QED BY <2>1, <2>2, <2>3
<1>6. JobInv(s)'
  BY <1>1, <1>2, <1>4, <1>5 DEF JobInv
<1> QED BY <1>1, <1>2, <1>4, <1>5, <1>6, QuietSteps DEF Products

Amended(j0, a, w, o, to) == [j0 EXCEPT !.amended = a, !.wait = w, !.ok = o, !.at = to]

LEMMA AmendShape ==
  ASSUME NEW j0, Shape(j0), NEW a, NEW w \in BOOLEAN, NEW o \in BOOLEAN, NEW to,
         NEW j, j = Amended(j0, a, w, o, to)
  PROVE  Shape(j) /\ j.at = to /\ j.inp = j0.inp
<1>0. j = [j0 EXCEPT !.amended = a, !.wait = w, !.ok = o, !.at = to] /\ w \in BOOLEAN /\ o \in BOOLEAN
  BY DEF Amended
<1>1. j.ok = o /\ j.wait = w /\ j.at = to /\ j.inp = j0.inp
  BY <1>0 DEF Shape
<1>2. j = [at |-> to, inp |-> j0.inp, read |-> j0.read, bad |-> j0.bad, out |-> j0.out,
           fresh |-> j0.fresh, amended |-> a, ok |-> o, wait |-> w]
  BY <1>0 DEF Shape
<1> QED BY <1>0, <1>1, <1>2 DEF Shape

LEMMA AmendKeeps ==
  ASSUME IInv, NEW s \in Step, Amend(s)
  PROVE  IInv'
<1> DEFINE D == db.dynamic \cup {s}
<1>1. /\ mode = "build" /\ job[s].at = "run" /\ db' = [db EXCEPT !.dynamic = D]
      /\ UNCHANGED <<disk, due, mode, draining, changed, events>>
  BY DEF Amend, At, KeepTimes, KeepBuild
<1>2. /\ s \in Busy(db) /\ Shape(job[s]) /\ JobInv(s) /\ s \notin db.deferred
  BY <1>1, AtFacts, BusyFacts DEF IInv
<1>3. /\ D \in SUBSET Step /\ \A t \in db.deferred : t \in D <=> t \in db.dynamic
  BY <1>2 DEF IInv, Good, Tables
<1> HIDE DEF D
<1>4. Good(db', {}) /\ db'.state = db.state /\ db'.fstate = db.fstate
  BY <1>1, <1>3, DynamicGood DEF IInv
<1>5. /\ job' = [job EXCEPT ![s] = job'[s]] /\ Shape(job'[s])
      /\ job'[s].at \in {"run", "collect"} /\ job'[s].inp = job[s].inp
  <2>1. PICK w \in BOOLEAN :
          job' = [job EXCEPT ![s].amended = TRUE, ![s].wait = w, ![s].ok = ~w,
                             ![s].at = IF w THEN "collect" ELSE "run"]
    BY DEF Amend
  <2> DEFINE to == IF w THEN "collect" ELSE "run"
  <2> DEFINE okay == ~w
  <2> DEFINE waits == w
  <2>2. to \in {"run", "collect"} /\ okay \in BOOLEAN /\ waits \in BOOLEAN
    BY <2>1
  <2> DEFINE j == [job[s] EXCEPT !.amended = TRUE, !.wait = waits, !.ok = okay, !.at = to]
  <2>3. job' = [job EXCEPT ![s] = j]
    BY <2>1 DEF IInv, Jobs
  <2> HIDE DEF to, okay, waits
  <2> DEFINE yes == TRUE
  <2>4. j = Amended(job[s], yes, waits, okay, to)
    BY DEF Amended
  <2> HIDE DEF j, yes
  <2>5. Shape(j) /\ j.at = to /\ j.inp = job[s].inp
    BY <1>2, <2>2, <2>4, AmendShape
  <2> QED BY <2>2, <2>3, <2>5 DEF IInv, Jobs
<1>6. Spares(db, db', {s}) /\ Mends(db, db') /\ Busy(db') = Busy(db)
  BY <1>4 DEF Spares, Mends, Busy
<1>7. JobInv(s)'
  BY <1>1, <1>2, <1>4, <1>5, <1>6 DEF JobInv
<1> QED BY <1>1, <1>4, <1>5, <1>6, <1>7, MendsKeeps, DiskStays, JobSteps DEF IInv, Modes

LEMMA CollectKeeps ==
  ASSUME IInv, NEW s \in Step, Collect(s)
  PROVE  IInv'
<1> DEFINE out == [f \in Outputs(s) |-> db.fhash[f]]
<1> DEFINE inp == Recorded(db, s)
<1> DEFINE j == [job[s] EXCEPT !.at = "hash", !.inp = inp, !.read = <<>>, !.out = out]
<1>1. /\ mode = "build" /\ job[s].at = "collect" /\ job' = [job EXCEPT ![s] = j]
      /\ UNCHANGED <<db, disk, due, mode, draining, changed, events>>
  BY DEF Collect, At, KeepTimes, KeepBuild, IInv, Jobs
<1>2. /\ s \in Busy(db) /\ Shape(job[s]) /\ JobInv(s)
      /\ job'[s] = j /\ job' = [job EXCEPT ![s] = job'[s]]
  <2> HIDE DEF j
  <2> QED BY <1>1, AtFacts
<1>3. \A f \in DOMAIN inp : f \in File /\ (f \in Products => disk[f] # Absent)
  BY <1>1, RecordedFacts
<1>4. \A f \in Outputs(s) : out[f] # Absent => db.fstate[f] # "PLANNED"
  BY DEF IInv, Good, Files, Outputs
<1> HIDE DEF inp, out
<1>5. Shape(j) /\ j.at = "hash" /\ j.inp = inp /\ j.out = out
  BY <1>2 DEF Shape
<1> HIDE DEF j
<1>6. JobInv(s)'
  BY <1>1, <1>2, <1>3, <1>4, <1>5 DEF JobInv
<1> QED BY <1>1, <1>2, <1>6, DiskStays, QuietSteps

LEMMA HashFilesKeeps ==
  ASSUME IInv, NEW s \in Step, HashFiles(s)
  PROVE  IInv'
<1> DEFINE bad == {f \in DOMAIN job[s].inp : disk[f] # job[s].inp[f]}
<1> DEFINE lost == \E f \in Outputs(s) : disk[f] = Absent
<1> DEFINE read == [f \in bad |-> disk[f]]
<1> DEFINE out == [f \in Outputs(s) |-> disk[f]]
<1> DEFINE fresh == {f \in Outputs(s) : disk[f] # job[s].out[f]}
<1> DEFINE good == job[s].ok /\ bad = {} /\ ~lost
<1> DEFINE j == [job[s] EXCEPT !.at = "settle", !.bad = bad, !.read = read, !.out = out,
                               !.fresh = fresh, !.ok = good]
<1>1. /\ mode = "build" /\ job[s].at = "hash" /\ job' = [job EXCEPT ![s] = j]
      /\ UNCHANGED <<db, disk, due, mode, draining, changed, events>>
  BY DEF HashFiles, At, KeepTimes, KeepBuild, IInv, Jobs
<1>2. /\ s \in Busy(db) /\ Shape(job[s]) /\ JobInv(s)
      /\ job'[s] = j /\ job' = [job EXCEPT ![s] = job'[s]]
  <2> HIDE DEF j
  <2> QED BY <1>1, AtFacts
<1>3. bad \subseteq DOMAIN job[s].inp /\ \A f \in bad \cap Products : read[f] # Absent
  BY <1>1, <1>2 DEF JobInv
<1>4. \A f \in Outputs(s) : db.fstate[f] # "PLANNED" => disk[f] # Absent
  BY <1>1, Makers DEF IInv, Changes, Present, Products
<1>5. \A f \in fresh : f \in Outputs(s) /\ out[f] # Absent /\ disk[f] # Absent
  BY <1>1, <1>2, <1>4 DEF JobInv
<1>6. good => \A f \in Outputs(s) : out[f] # Absent /\ (f \in fresh \/ db.fstate[f] # "PLANNED")
  BY <1>1, <1>2, <1>4 DEF JobInv
<1>7. good \in BOOLEAN
  OBVIOUS
<1> HIDE DEF bad, read, out, fresh, good, lost
<1>8. /\ Shape(j) /\ j.at = "settle" /\ j.inp = job[s].inp /\ j.bad = bad /\ j.read = read
      /\ j.out = out /\ j.fresh = fresh /\ j.ok = good
  BY <1>2, <1>7 DEF Shape
<1> HIDE DEF j
<1>9. JobInv(s)'
  BY <1>1, <1>2, <1>3, <1>5, <1>6, <1>8 DEF JobInv
<1> QED BY <1>1, <1>2, <1>9, DiskStays, QuietSteps

\* Only the files F appear.
Gained(d, e, F) ==
  \A f \in Products : e.fstate[f] # "PLANNED" => d.fstate[f] # "PLANNED" \/ f \in F

\* Steps that are recorded as successful.
LEMMA SucceedGood ==
  ASSUME NEW d, Good(d, {}), NEW s \in Busy(d), NEW new, DOMAIN new \subseteq Outputs(s),
         Expected(d, new, "SUCCEEDED"), \A f \in DOMAIN new : new[f] # Absent,
         \A f \in Outputs(s) : f \in DOMAIN new \/ d.fstate[f] # "PLANNED",
         NEW h, Whole(s, h), NEW e, e = MarkSucceeded(UpdateHashes(d, new, "SUCCEEDED"), s, h)
  PROVE  /\ Good(e, {}) /\ Spares(d, e, {s}) /\ s \notin Busy(e)
         /\ Keeps(d, e) /\ Gained(d, e, DOMAIN new)
<1> DEFINE u == UpdateHashes(d, new, "SUCCEEDED")
<1>0. s \in Step
  BY BusyFacts
<1>1. Good(d, {s})
  BY DEF Good, Agree
<1>2. /\ Good(u, {s}) /\ Spares(d, u, {})
      /\ \A f \in File : IF f \in DOMAIN new THEN Updated(new, "SUCCEEDED", u, f) ELSE Ages(d, u, f)
  <2>1. "SUCCEEDED" \in Causes /\ DOMAIN new \subseteq {f \in Products : Maker[f] \in {s}}
    BY <1>0, Makers DEF Causes
  <2>2. DOMAIN new \subseteq File
    BY <1>0, Makers DEF Products
  <2> QED BY <1>1, <2>1, <2>2, UpdateHashesGood
<1>3. s \in Busy(u)
  BY <1>0, <1>2 DEF Spares, Busy
<1> HIDE DEF u
<1>4. \A f \in Outputs(s) : u.fstate[f] \in {"BUILT", "OUTDATED"}
  <2> SUFFICES ASSUME NEW f \in Outputs(s)
               PROVE  u.fstate[f] \in {"BUILT", "OUTDATED"}
    OBVIOUS
  <2>1. f \in File /\ f \notin StaticFiles /\ f \in Products
    BY <1>0, Makers DEF Products
  <2>2. d.fstate[f] \in {"PLANNED", "BUILT", "OUTDATED"}
    BY <2>1 DEF Good, Files
  <2> QED BY <1>2, <2>1, <2>2 DEF Updated, Ages
<1>5. Good(e, {}) /\ Spares(u, e, {s}) /\ Mends(u, e) /\ s \notin Busy(e)
  BY <1>2, <1>3, <1>4, MarkSucceededGood DEF u
<1>6. Spares(d, e, {s})
  BY <1>2, <1>5 DEF Spares, Busy
<1>7. \A f \in DOMAIN new : f \in Outputs(s) /\ f \in File
  BY <1>0, Makers DEF Products
<1>8. \A f \in Products : \/ f \in DOMAIN new /\ e.fstate[f] # "PLANNED"
                          \/ f \notin DOMAIN new /\ (e.fstate[f] = "PLANNED" <=> d.fstate[f] = "PLANNED")
  BY <1>2, <1>4, <1>5, <1>7 DEF Mends, Ages, Products
<1> QED BY <1>5, <1>6, <1>8 DEF Keeps, Gained

\* Hashes of a run that failed.
LEMMA FailHashesGood ==
  ASSUME NEW d, Good(d, {}), NEW new, DOMAIN new \subseteq File,
         Expected(d, new, "FAILED"), \A f \in DOMAIN new \cap Products : new[f] # Absent,
         NEW e, e = UpdateHashes(d, new, "FAILED")
  PROVE  Good(e, {}) /\ Spares(d, e, {}) /\ Keeps(d, e) /\ Gained(d, e, DOMAIN new)
<1>1. /\ Good(e, {}) /\ Spares(d, e, {})
      /\ \A f \in File : IF f \in DOMAIN new THEN Updated(new, "FAILED", e, f) ELSE Ages(d, e, f)
  <2>1. "FAILED" \in Causes /\ "FAILED" # "SUCCEEDED"
    BY DEF Causes
  <2> QED BY <2>1, UpdateHashesGood
<1> QED BY <1>1 DEF Keeps, Gained, Updated, Ages, Products

LEMMA TrySkipKeeps ==
  ASSUME IInv, NEW s \in Step, TrySkip(s)
  PROVE  IInv'
<1> DEFINE out == [f \in Outputs(s) |-> disk[f]]
<1> DEFINE new == [f \in {g \in Outputs(s) : disk[g] # db.fhash[g]} |-> disk[f]]
<1>1. mode = "build" /\ job[s].at = "outs"
  BY DEF TrySkip, At
<1>2. s \in Busy(db) /\ db.state[s] = "CHECKING"
  BY <1>1, AtFacts DEF JobInv
<1>3. CASE out # db.hash[s][2]
  <2> DEFINE e == ResetToPending(db, s)
  <2>1. Good(e, {}) /\ Spares(db, e, {s}) /\ Mends(db, e) /\ e.state[s] = "PENDING"
    BY <1>2, ResetToPendingGood DEF IInv
  <2>2. EndJob(s, e)
    BY <1>3 DEF TrySkip
  <2> HIDE DEF e
  <2> QED BY <1>1, <2>1, <2>2, EndJobKeeps DEF Busy
<1>4. CASE out = db.hash[s][2] /\ ~Expected(db, new, "SUCCEEDED")
  BY <1>1, <1>4, RaiseKeeps DEF TrySkip
<1>5. CASE out = db.hash[s][2] /\ Expected(db, new, "SUCCEEDED")
  <2> DEFINE h == db.hash[s]
  <2> DEFINE e == MarkSucceeded(UpdateHashes(db, new, "SUCCEEDED"), s, h)
  <2>1. EndJob(s, e)
    BY <1>5 DEF TrySkip
  <2>2. Whole(s, h)
    BY <1>2 DEF IInv, Good, Known, Whole
  <2>3. \A f \in Outputs(s) : disk[f] # Absent
    BY <1>5, <2>2 DEF Whole
  <2>4. /\ DOMAIN new \subseteq Outputs(s)
        /\ \A f \in DOMAIN new : new[f] # Absent /\ disk[f] # Absent
        /\ \A f \in Outputs(s) : f \in DOMAIN new \/ db.fhash[f] # Absent
    BY <2>3
  <2>5. \A f \in Outputs(s) : f \in DOMAIN new \/ db.fstate[f] # "PLANNED"
    <3>1. \A f \in Outputs(s) : f \in File
      BY DEF Outputs
    <3> HIDE DEF new
    <3> QED BY <2>4, <3>1 DEF IInv, Good, Files
  <2> HIDE DEF new, h
  <2>6. /\ Good(e, {}) /\ Spares(db, e, {s}) /\ s \notin Busy(e)
        /\ Keeps(db, e) /\ Gained(db, e, DOMAIN new)
    BY <1>2, <1>5, <2>2, <2>4, <2>5, SucceedGood DEF IInv
  <2>7. /\ db' = e /\ job' = [job EXCEPT ![s] = NoJob] /\ due' \in BOOLEAN
        /\ UNCHANGED <<disk, mode, draining, changed, events>>
    BY <2>1 DEF EndJob, KeepTimes, KeepBuild, IInv, Modes
  <2> HIDE DEF e
  <2>8. Gains(db, e)
    BY <2>4, <2>6 DEF Gained, Gains
  <2> QED BY <1>1, <2>6, <2>7, <2>8, EndSteps
<1> QED BY <1>3, <1>4, <1>5

LEMMA SettleKeeps ==
  ASSUME IInv, NEW s \in Step, Settle(s)
  PROVE  IInv'
<1> DEFINE j == job[s]
<1> DEFINE badHashes == [f \in j.bad |-> j.read[f]]
<1> DEFINE judged == IF j.bad = {} THEN db ELSE UpdateHashes(db, badHashes, "FAILED")
<1> DEFINE new == [f \in j.fresh |-> j.out[f]]
<1> DEFINE cause == IF j.ok THEN "SUCCEEDED" ELSE "FAILED"
<1> DEFINE stored == UpdateHashes(judged, new, cause)
<1> DEFINE h == <<j.inp, j.out>>
<1> DEFINE late == j.wait /\ j.bad = {}
<1> DEFINE e == IF j.ok THEN MarkSucceeded(stored, s, h) ELSE MarkUnsuccessful(stored, s, late)
<1>1. mode = "build" /\ j.at = "settle"
  BY DEF Settle, At
<1>2. CASE ~Expected(db, badHashes, "FAILED") \/ ~Expected(judged, new, cause)
  BY <1>1, <1>2, RaiseKeeps DEF Settle
<1>3. CASE Expected(db, badHashes, "FAILED") /\ Expected(judged, new, cause)
  <2>1. /\ db' = e /\ due' \in BOOLEAN /\ job' = [job EXCEPT ![s] = NoJob]
        /\ UNCHANGED <<disk, mode, draining, changed, events>>
    BY <1>3 DEF Settle, KeepBuild, IInv, Modes
  <2>2. s \in Busy(db) /\ JobInv(s) /\ Shape(j)
    BY <1>1, AtFacts
  <2>3. /\ DOMAIN badHashes \subseteq File
        /\ \A f \in DOMAIN badHashes \cap Products : badHashes[f] # Absent /\ disk[f] # Absent
    BY <1>1, <2>2 DEF JobInv
  <2>4. /\ DOMAIN new \subseteq Outputs(s)
        /\ \A f \in DOMAIN new : new[f] # Absent /\ disk[f] # Absent
        /\ j.ok => \A f \in Outputs(s) :
             j.out[f] # Absent /\ (f \in DOMAIN new \/ db.fstate[f] # "PLANNED")
    BY <1>1, <2>2 DEF JobInv
  <2>5. j.ok => Whole(s, h)
    BY <2>4 DEF Whole, NoHash
  <2>6. late \in BOOLEAN
    OBVIOUS
  <2> HIDE DEF badHashes, new, h, late
  <2>7. /\ Good(judged, {}) /\ Spares(db, judged, {}) /\ Keeps(db, judged)
        /\ Gained(db, judged, DOMAIN badHashes)
    <3>1. CASE j.bad = {}
      BY <3>1 DEF IInv, Spares, Keeps, Gained, Busy
    <3>2. CASE j.bad # {}
      BY <1>3, <2>3, <3>2, FailHashesGood DEF IInv
    <3> QED BY <3>1, <3>2
  <2> HIDE DEF judged
  <2>8. s \in Busy(judged)
    BY <2>2, <2>7 DEF Spares, Busy
  <2>9. DOMAIN new \subseteq File /\ \A f \in Outputs(s) : f \in Products
    BY <2>4, Makers DEF Outputs
  <2>10. /\ Good(e, {}) /\ Spares(judged, e, {s}) /\ s \notin Busy(e)
         /\ Keeps(judged, e) /\ Gained(judged, e, DOMAIN new)
    <3>1. CASE j.ok
      <4>1. e = MarkSucceeded(UpdateHashes(judged, new, "SUCCEEDED"), s, h)
        BY <3>1
      <4>2. Expected(judged, new, "SUCCEEDED")
        BY <1>3, <3>1
      <4>3. \A f \in Outputs(s) : f \in DOMAIN new \/ judged.fstate[f] # "PLANNED"
        BY <2>4, <2>7, <2>9, <3>1 DEF Keeps
      <4> HIDE DEF e
      <4> QED BY <2>4, <2>5, <2>7, <2>8, <3>1, <4>1, <4>2, <4>3, SucceedGood
    <3>2. CASE ~j.ok
      <4> DEFINE u == UpdateHashes(judged, new, "FAILED")
      <4>1. e = MarkUnsuccessful(u, s, late)
        BY <3>2
      <4>2. Expected(judged, new, "FAILED")
        BY <1>3, <3>2
      <4>3. /\ Good(u, {}) /\ Spares(judged, u, {}) /\ Keeps(judged, u)
            /\ Gained(judged, u, DOMAIN new)
        BY <2>4, <2>7, <2>9, <4>2, FailHashesGood
      <4> HIDE DEF e, u
      <4>4. s \in Busy(u)
        BY <2>8, <4>3 DEF Spares, Busy
      <4>5. Good(e, {}) /\ Spares(u, e, {s}) /\ Mends(u, e) /\ s \notin Busy(e)
        BY <2>6, <4>1, <4>3, <4>4, MarkUnsuccessfulGood
      <4>6. Spares(judged, e, {s})
        BY <4>3, <4>5 DEF Spares, Busy
      <4>7. Keeps(judged, e) /\ Gained(judged, e, DOMAIN new)
        BY <4>3, <4>5 DEF Mends, Keeps, Gained, Products
      <4> QED BY <4>5, <4>6, <4>7
    <3> QED BY <3>1, <3>2
  <2> HIDE DEF e
  <2>11. Spares(db, e, {s})
    BY <2>7, <2>10 DEF Spares, Busy
  <2>12. Keeps(db, e) /\ Gains(db, e)
    <3>1. Keeps(db, e)
      BY <2>7, <2>10 DEF Keeps
    <3>2. Gains(db, e)
      BY <2>3, <2>4, <2>7, <2>10 DEF Gained, Gains
    <3> QED BY <3>1, <3>2
  <2> QED BY <1>1, <2>1, <2>10, <2>11, <2>12, EndSteps
<1> QED BY <1>2, <1>3
-----------------------------------------------------------------------------
(***************************************************************************)
(* Between the jobs, and between the builds.                               *)
(***************************************************************************)
\* Without jobs.
LEMMA IdleJobs ==
  ASSUME job' = [s \in Step |-> NoJob] \/ (Jobs /\ UNCHANGED job /\ \A s \in Step : job[s].at = "none"),
         Busy(db') = {}
  PROVE  Jobs'
<1>1. job' = [s \in Step |-> job'[s]] /\ \A s \in Step : Shape(job'[s]) /\ job'[s].at = "none"
  <2>1. Shape(NoJob) /\ NoJob.at = "none"
    BY DEF NoJob, Shape
  <2>2. CASE job' = [s \in Step |-> NoJob]
    BY <2>1, <2>2
  <2>3. CASE Jobs /\ UNCHANGED job /\ \A s \in Step : job[s].at = "none"
    BY <2>3 DEF Jobs, JobInv
  <2> QED BY <2>2, <2>3
<1> QED BY <1>1 DEF Jobs, JobInv

LEMMA DrainKeeps ==
  ASSUME IInv, Drain
  PROVE  IInv'
<1>1. /\ mode = "build" /\ draining' = TRUE /\ due' = FALSE
      /\ UNCHANGED <<db, disk, job, mode, changed, events>>
  BY DEF Drain
<1>2. Jobs'
  BY <1>1 DEF IInv, Jobs, JobInv
<1>3. Modes'
  BY <1>1 DEF IInv, Modes
<1>4. Changes' /\ Present'
  BY <1>1 DEF IInv, Changes, Present
<1> QED BY <1>1, <1>2, <1>3, <1>4 DEF IInv

LEMMA EndBuildKeeps ==
  ASSUME IInv, EndBuild
  PROVE  IInv'
<1>1. /\ mode = "build" /\ ~due /\ \A s \in Step : job[s].at = "none"
      /\ draining \/ \A s \in Step : ~Eligible(db, s)
      /\ mode' = "watch" /\ UNCHANGED <<db, disk, job, draining, due, changed, events>>
  BY DEF EndBuild
<1>2. Jobs'
  BY <1>1 DEF IInv, Jobs, JobInv
<1>3. Modes'
  BY <1>1 DEF IInv, Modes
<1>4. Changes' /\ Present'
  BY <1>1 DEF IInv, Changes, Present
<1> QED BY <1>1, <1>2, <1>3, <1>4 DEF IInv

LEMMA EndWatchKeeps ==
  ASSUME IInv, EndWatch
  PROVE  IInv'
<1> DEFINE failed == {s \in Step : db.state[s] = "FAILED"}
<1>1. /\ mode = "watch" /\ mode' = "rescan" /\ db' = MarkPending(db, failed)
      /\ changed' = {f \in changed : disk[f] # db.fhash[f]}
      /\ UNCHANGED <<disk, job, draining, due, events>>
  BY DEF EndWatch
<1>2. failed \in SUBSET Step
  OBVIOUS
<1> HIDE DEF failed
<1>3. /\ Good(db', {}) /\ Spares(db, db', {}) /\ db'.fhash = db.fhash
      /\ \A f \in File : Ages(db, db', f)
  BY <1>1, <1>2, MarkPendingGood DEF IInv
<1>4. Busy(db) = {} /\ \A s \in Step : job[s].at = "none"
  BY <1>1 DEF IInv, Modes, Jobs, JobInv, Busy
<1>5. Jobs'
  <2>1. Busy(db') = {}
    BY <1>3, <1>4 DEF Spares, Busy
  <2> QED BY <1>1, <1>4, <2>1, IdleJobs DEF IInv
<1>6. Modes'
  BY <1>1 DEF IInv, Modes
<1>7. Changes'
  BY <1>1, <1>3 DEF IInv, Changes, Good, Files, Ages
<1>8. Present'
  <2>1. disk' = [f \in File |-> disk'[f]]
    BY <1>1 DEF IInv, Present
  <2>2. ASSUME NEW f \in Products \ changed', db'.fstate[f] # "PLANNED"
        PROVE  disk[f] # Absent
    <3>1. f \in File /\ f \notin StaticFiles /\ db.fstate[f] # "PLANNED"
      BY <1>3, <2>2 DEF Products, Ages
    <3>2. CASE f \in changed
      <4>1. disk[f] = db.fhash[f]
        BY <1>1, <2>2, <3>2
      <4>2. db.fstate[f] \notin {"PLANNED", "MISSING"}
        BY <3>1 DEF IInv, Good, Files
      <4> QED BY <3>1, <4>1, <4>2 DEF IInv, Good, Files
    <3>3. CASE f \notin changed
      BY <2>2, <3>1, <3>3 DEF IInv, Present
    <3> QED BY <3>2, <3>3
  <2> QED BY <1>1, <2>1, <2>2 DEF Present
<1> QED BY <1>3, <1>5, <1>6, <1>7, <1>8 DEF IInv

LEMMA StartBuildKeeps ==
  ASSUME IInv, StartBuild
  PROVE  IInv'
<1>1. /\ mode = "rescan" /\ mode' = "build" /\ changed = {} /\ draining' = FALSE
      /\ UNCHANGED <<db, disk, job, due, changed, events>>
  BY DEF StartBuild
<1>2. Jobs'
  BY <1>1 DEF IInv, Jobs, JobInv
<1>3. Modes'
  BY <1>1 DEF IInv, Modes
<1>4. Changes' /\ Present'
  BY <1>1 DEF IInv, Changes, Present
<1> QED BY <1>1, <1>2, <1>3, <1>4 DEF IInv

\* The rows of the table for the causes EXTERNAL.
LEMMA ExternalRow ==
  ASSUME NEW old \in FileState \ {"PLANNED"}, NEW known \in BOOLEAN, old = "MISSING" => known
  PROVE  \E t \in Transitions : t[1] = "EXTERNAL" /\ t[2] = old /\ t[3] = known
<1> DEFINE Row(new, act) == <<"EXTERNAL", old, known, new, act>>
<1>1. CASE old \in {"CONFIRMED", "MISSING"} /\ known = TRUE
  <2>1. Row("CONFIRMED", "updated") \in Transitions
    BY <1>1 DEF Transitions
  <2> QED BY <2>1
<1>2. CASE old = "CONFIRMED" /\ known = FALSE
  <2>1. Row("MISSING", "deleted") \in Transitions
    BY <1>2 DEF Transitions
  <2> QED BY <2>1
<1>3. CASE old \in {"BUILT", "OUTDATED"} /\ known = TRUE
  <2>1. Row("PLANNED", "updated") \in Transitions
    BY <1>3 DEF Transitions
  <2> QED BY <2>1
<1>4. CASE old \in {"BUILT", "OUTDATED"} /\ known = FALSE
  <2>1. Row("PLANNED", "deleted") \in Transitions
    BY <1>4 DEF Transitions
  <2> QED BY <2>1
<1> QED BY <1>1, <1>2, <1>3, <1>4 DEF FileState

\* What is to be rescanned has a row in the table.
LEMMA RescanExpected ==
  ASSUME IInv, NEW f \in File, mode = "rescan", f \in changed,
         NEW new, new = [g \in {f} |-> disk[g]]
  PROVE  Expected(db, new, "EXTERNAL")
<1>1. db.fstate[f] \in FileState \ {"PLANNED"} /\ (db.fstate[f] = "MISSING" => disk[f] # Absent)
  BY DEF IInv, Changes, Good, Tables
<1> DEFINE known == disk[f] # Absent
<1>2. \E t \in Transitions : t[1] = "EXTERNAL" /\ t[2] = db.fstate[f] /\ t[3] = known
  <2>1. known \in BOOLEAN /\ (db.fstate[f] = "MISSING" => known)
    BY <1>1
  <2> HIDE DEF known
  <2> QED BY <1>1, <2>1, ExternalRow
<1>3. \A g \in DOMAIN new : g = f /\ (new[g] # Absent) = known
  OBVIOUS
<1> HIDE DEF known
<1> QED BY <1>2, <1>3 DEF Expected, Applies

LEMMA RescanKeeps ==
  ASSUME IInv, NEW f \in File, Rescan(f)
  PROVE  IInv'
<1> DEFINE new == [g \in {f} |-> disk[g]]
<1>1. /\ mode = "rescan" /\ f \in changed /\ db' = UpdateHashes(db, new, "EXTERNAL")
      /\ changed' = changed \ {f}
      /\ UNCHANGED <<disk, job, mode, draining, due, events>>
  BY DEF Rescan
<1>2. Expected(db, new, "EXTERNAL")
  <2>1. new = [g \in {f} |-> disk[g]]
    OBVIOUS
  <2> HIDE DEF new
  <2> QED BY <1>1, <2>1, RescanExpected
<1>3. /\ Good(db', {}) /\ Spares(db, db', {})
      /\ \A g \in File : IF g = f THEN Updated(new, "EXTERNAL", db', g) ELSE Ages(db, db', g)
  <2>1. DOMAIN new = {f} /\ "EXTERNAL" \in Causes /\ "EXTERNAL" # "SUCCEEDED"
    BY DEF Causes
  <2> HIDE DEF new
  <2> QED BY <1>1, <1>2, <2>1, UpdateHashesGood DEF IInv
<1>4. new[f] = disk[f]
  OBVIOUS
<1> HIDE DEF new
<1>5. Busy(db) = {} /\ \A s \in Step : job[s].at = "none"
  BY <1>1 DEF IInv, Modes, Jobs, JobInv, Busy
<1>6. Jobs'
  <2>1. Busy(db') = {}
    BY <1>3, <1>5 DEF Spares, Busy
  <2> QED BY <1>1, <1>5, <2>1, IdleJobs DEF IInv
<1>7. Modes'
  BY <1>1 DEF IInv, Modes
<1>8. Changes'
  BY <1>1, <1>3 DEF IInv, Changes, Ages
<1>9. Present'
  <2>1. disk' = [g \in File |-> disk'[g]]
    BY <1>1 DEF IInv, Present
  <2>2. ASSUME NEW g \in Products \ changed', db'.fstate[g] # "PLANNED"
        PROVE  disk[g] # Absent
    <3>1. g \in File /\ g \notin StaticFiles
      BY DEF Products
    <3>2. CASE g = f
      BY <1>3, <1>4, <2>2, <3>1, <3>2 DEF Updated
    <3>3. CASE g # f
      <4>1. g \notin changed /\ db.fstate[g] # "PLANNED"
        BY <1>1, <1>3, <2>2, <3>1, <3>3 DEF Ages
      <4> QED BY <4>1 DEF IInv, Present
    <3> QED BY <3>2, <3>3
  <2> QED BY <1>1, <2>1, <2>2 DEF Present
<1> QED BY <1>3, <1>6, <1>7, <1>8, <1>9 DEF IInv

LEMMA EditKeeps ==
  ASSUME IInv, NEW f \in File, Edit(f)
  PROVE  IInv'
<1>1. /\ events < MaxEvents /\ events' = events + 1
      /\ \/ mode = "watch" /\ f \in WatchEdits
         \/ mode = "build" /\ f \in BuildEdits
      /\ changed' = IF db.fstate[f] = "PLANNED" THEN changed ELSE changed \cup {f}
      /\ UNCHANGED <<db, job, mode, draining, due>>
  BY DEF Edit
<1>2. /\ disk' = [g \in File |-> disk'[g]] /\ \A g \in File \ {f} : disk'[g] = disk[g]
  BY DEF Edit, IInv, Present
<1>3. mode = "build" => f \in StaticFiles
  BY <1>1, UseType DEF StaticFiles
<1>4. Jobs'
  <2> SUFFICES ASSUME NEW s \in Step
               PROVE  JobInv(s)'
    BY <1>1 DEF IInv, Jobs
  <2>1. JobInv(s) /\ \A g \in Outputs(s) : g \in Products
    BY Makers DEF IInv, Jobs
  <2>2. CASE mode = "watch"
    <3>1. job[s].at = "none"
      BY <2>2 DEF IInv, Modes
    <3> QED BY <1>1, <2>1, <3>1 DEF JobInv
  <2>3. CASE mode = "build"
    <3>1. \A g \in Products : disk'[g] = disk[g]
      BY <1>2, <1>3, <2>3 DEF Products
    <3>2. /\ Shape(job'[s]) /\ (job'[s].at = "none" <=> s \notin Busy(db'))
          /\ job'[s].at \in {"noskip", "valid", "outs"} => db'.state[s] = "CHECKING"
          /\ job'[s].at \in {"reset", "run", "collect", "hash", "settle"} => db'.state[s] = "RUNNING"
      BY <1>1, <2>1 DEF JobInv
    <3>3. /\ job'[s].at # "none" =>
               \A g \in DOMAIN job'[s].inp : g \in File /\ (g \in Products => disk'[g] # Absent)
          /\ job'[s].at \in {"reject", "settle"} =>
               /\ job'[s].bad \subseteq DOMAIN job'[s].inp
               /\ \A g \in job'[s].bad \cap Products : job'[s].read[g] # Absent
          /\ job'[s].at = "hash" =>
               \A g \in Outputs(s) : job'[s].out[g] # Absent => db'.fstate[g] # "PLANNED"
      BY <1>1, <2>1, <3>1 DEF JobInv
    <3>4. job'[s].at = "settle" =>
            /\ job'[s].fresh \subseteq Outputs(s)
            /\ \A g \in job'[s].fresh : job'[s].out[g] # Absent /\ disk'[g] # Absent
            /\ job'[s].ok => \A g \in Outputs(s) :
                 job'[s].out[g] # Absent /\ (g \in job'[s].fresh \/ db'.fstate[g] # "PLANNED")
      BY <1>1, <2>1, <3>1 DEF JobInv
    <3> QED BY <3>2, <3>3, <3>4 DEF JobInv
  <2> QED BY <1>1, <2>2, <2>3
<1>5. Modes'
  <2>1. events' \in 0 .. MaxEvents
    BY <1>1, UseType DEF IInv, Modes
  <2> QED BY <1>1, <2>1 DEF IInv, Modes
<1>6. Changes'
  BY <1>1, <1>3 DEF IInv, Changes
<1>7. Present'
  BY <1>1, <1>2 DEF IInv, Present, Products
<1> QED BY <1>1, <1>4, <1>5, <1>6, <1>7 DEF IInv

\* The database when interrupted steps are reset, before they are marked.
Failing(d) == {s \in Step : d.state[s] \in {"RUNNING", "FAILED"}}
Checking(d) == {s \in Step : d.state[s] = "CHECKING"}
Interrupted(d) ==
  [SetStates(SetStates(d, Failing(d), "FAILED"), Checking(d), "PENDING")
     EXCEPT !.deferred = @ \ Failing(d)]

LEMMA RestartTables ==
  ASSUME IInv, NEW d2, d2 = Interrupted(db)
  PROVE  /\ Good(d2, {}) /\ Busy(d2) = {}
         /\ \A s \in Step : d2.state[s] = "SUCCEEDED" => db.state[s] = "SUCCEEDED"
         /\ d2.fstate = db.fstate /\ d2.fhash = db.fhash /\ d2.hash = db.hash
         /\ d2.dynamic = db.dynamic
<1> DEFINE failed == Failing(db)
<1> DEFINE checked == Checking(db)
<1> DEFINE d0 == SetStates(db, failed, "FAILED")
<1> DEFINE d1 == SetStates(d0, checked, "PENDING")
<1>0. Tables(db) /\ "FAILED" \in StepState /\ "PENDING" \in StepState
  BY DEF IInv, Good, StepState
<1>1. /\ Tables(d0) /\ Same(db, d0) /\ d0.deferred = db.deferred /\ d0.fstate = db.fstate
      /\ d0.state = [s \in Step |-> IF s \in failed THEN "FAILED" ELSE db.state[s]]
  BY <1>0, SetStatesTables
<1> HIDE DEF d0
<1>2. /\ Tables(d1) /\ Same(d0, d1) /\ d1.deferred = d0.deferred /\ d1.fstate = d0.fstate
      /\ d1.state = [s \in Step |-> IF s \in checked THEN "PENDING" ELSE d0.state[s]]
  BY <1>0, <1>1, SetStatesTables
<1> HIDE DEF d1
<1>3. /\ Tables(d2) /\ d2.state = d1.state /\ d2.deferred = d1.deferred \ failed
      /\ d2.fstate = d1.fstate /\ d2.fhash = d1.fhash /\ d2.hash = d1.hash
      /\ d2.dynamic = d1.dynamic
  <2> DEFINE D == d1.deferred \ failed
  <2>1. d2 = [d1 EXCEPT !.deferred = D] /\ D \in SUBSET Step
    BY <1>2 DEF Tables, d0, d1, Interrupted
  <2> HIDE DEF D
  <2>2. Tables(d2) /\ d2.deferred = D
    BY <1>2, <2>1 DEF Tables
  <2>3. /\ d2.state = d1.state /\ d2.fstate = d1.fstate /\ d2.fhash = d1.fhash
        /\ d2.hash = d1.hash /\ d2.dynamic = d1.dynamic
    BY <1>2, <2>1 DEF Tables
  <2> QED BY <2>2, <2>3 DEF D
<1>4. /\ \A s \in Step : \/ d2.state[s] = db.state[s] /\ db.state[s] \in {"PENDING", "SUCCEEDED"}
                         \/ d2.state[s] = "FAILED" /\ db.state[s] \in {"RUNNING", "FAILED"}
                         \/ d2.state[s] = "PENDING" /\ db.state[s] = "CHECKING"
      /\ d2.deferred \subseteq db.deferred /\ d2.fstate = db.fstate /\ d2.fhash = db.fhash
      /\ d2.hash = db.hash /\ d2.dynamic = db.dynamic
  <2>1. \A s \in Step : db.state[s] \in StepState
    BY <1>0 DEF Tables
  <2> QED BY <1>1, <1>2, <1>3, <2>1 DEF Same, StepState, Failing, Checking
<1>5. Busy(d2) = {}
  BY <1>4 DEF Busy
<1>6. Files(d2)
  BY <1>4 DEF IInv, Good, Files
<1>7. Known(d2)
  BY <1>4 DEF IInv, Good, Known
<1>8. Agree(d2, {})
  BY <1>4, Makers DEF IInv, Good, Agree
<1>9. Blocked(d2)
  <2>1. \A s \in d2.deferred : s \in db.deferred /\ s \in Step
    BY <1>0, <1>4 DEF Tables
  <2> QED BY <1>4, <2>1 DEF IInv, Good, Blocked, DynInputs, Available
<1> QED BY <1>3, <1>4, <1>5, <1>6, <1>7, <1>8, <1>9 DEF Good

LEMMA RestartKeeps ==
  ASSUME IInv, Restart
  PROVE  IInv'
<1> DEFINE failed == {s \in Step : db.state[s] \in {"RUNNING", "FAILED"}}
<1> DEFINE checked == {s \in Step : db.state[s] = "CHECKING"}
<1> DEFINE d0 == SetStates(db, failed, "FAILED")
<1> DEFINE d1 == SetStates(d0, checked, "PENDING")
<1> DEFINE d2 == [d1 EXCEPT !.deferred = @ \ failed]
<1>1. /\ events < MaxEvents /\ events' = events + 1 /\ db' = MarkPending(d2, failed)
      /\ changed' = {f \in File : db'.fstate[f] # "PLANNED" /\ disk[f] # db'.fhash[f]}
      /\ job' = [s \in Step |-> NoJob] /\ mode' = "rescan" /\ due' = FALSE
      /\ UNCHANGED <<disk, draining>>
  BY DEF Restart
<1>2. Good(d2, {}) /\ Busy(d2) = {}
  <2>1. d2 = Interrupted(db)
    BY DEF Interrupted, Failing, Checking
  <2> HIDE DEF d2
  <2> QED BY <2>1, RestartTables
<1> HIDE DEF d2, failed
<1>3. Good(db', {}) /\ Busy(db') = {}
  <2>1. Good(db', {}) /\ Spares(d2, db', {})
    <3>1. failed \in SUBSET Step
      BY DEF failed
    <3> QED BY <1>1, <1>2, <3>1, MarkPendingGood
  <2> QED BY <1>2, <2>1 DEF Spares, Busy
<1>4. Jobs'
  BY <1>1, <1>3, IdleJobs
<1>5. Modes'
  <2>1. events' \in 0 .. MaxEvents
    BY <1>1, UseType DEF IInv, Modes
  <2>2. \A s \in Step : job'[s].at = "none"
    BY <1>1 DEF NoJob
  <2> QED BY <1>1, <2>1, <2>2 DEF IInv, Modes
<1>6. Changes'
  BY <1>1, <1>3 DEF Changes, Good, Files
<1>7. Present'
  BY <1>1, <1>3 DEF IInv, Present, Good, Files, Products
<1> QED BY <1>3, <1>4, <1>5, <1>6, <1>7 DEF IInv
-----------------------------------------------------------------------------
LEMMA JobStepKeeps ==
  ASSUME IInv, NEW s \in Step, JobStep(s)
  PROVE  IInv'
BY VerifyKeeps, RejectKeeps, GiveUpKeeps, NoSkipKeeps, TrySkipKeeps, ResetKeeps, CommandKeeps,
   AmendKeeps, CollectKeeps, HashFilesKeeps, SettleKeeps DEF JobStep

LEMMA IInvNext ==
  ASSUME IInv, [Next]_vars
  PROVE  IInv'
<1>1. CASE UNCHANGED vars
  <2>1. UNCHANGED <<db, disk, job, mode, draining, due, changed, events>>
    BY <1>1 DEF vars
  <2>2. Jobs'
    BY <2>1 DEF IInv, Jobs, JobInv
  <2>3. Modes' /\ Changes' /\ Present'
    BY <2>1 DEF IInv, Modes, Changes, Present
  <2> QED BY <2>1, <2>2, <2>3 DEF IInv
<1>2. CASE \E s \in Step : Pop(s) \/ JobStep(s)
  BY <1>2, PopKeeps, JobStepKeeps
<1>3. CASE Drain \/ EndBuild \/ EndWatch \/ StartBuild \/ Restart
  BY <1>3, DrainKeeps, EndBuildKeeps, EndWatchKeeps, StartBuildKeeps, RestartKeeps
<1>4. CASE \E f \in File : Rescan(f) \/ Edit(f)
  BY <1>4, RescanKeeps, EditKeeps
<1> QED BY <1>1, <1>2, <1>3, <1>4 DEF Next

(***************************************************************************)
(* The inductive invariant: between two transactions the tables of files   *)
(* and of steps agree, a job in flight belongs to a busy step and knows    *)
(* outputs that exist, and what is to be rescanned has a state transition. *)
(***************************************************************************)
THEOREM IInvAlways == Spec => []IInv
<1>1. Init => IInv
  BY IInvInit
<1>2. IInv /\ [Next]_vars => IInv'
  BY IInvNext
<1> QED BY <1>1, <1>2, PTL DEF Spec

(***************************************************************************)
(* The types, and the CHECK constraints of the step and file tables: only  *)
(* PENDING steps are deferred, a hash is known of exactly the files that   *)
(* are not PLANNED or MISSING, SUCCEEDED steps have a hash, RUNNING none.  *)
(***************************************************************************)
THEOREM TypeOKAlways == Spec => []TypeOK
<1>1. IInv => TypeOK
  <2> SUFFICES ASSUME IInv PROVE TypeOK
    OBVIOUS
  <2>1. /\ db.state \in [Step -> {"PENDING", "CHECKING", "RUNNING", "SUCCEEDED", "FAILED"}]
        /\ db.count \in [Step -> Nat] /\ db.dynamic \subseteq Step
        /\ db.fstate \in [File -> {"CONFIRMED", "MISSING", "PLANNED", "BUILT", "OUTDATED"}]
    BY DEF IInv, Good, Tables, StepState, FileState
  <2>2. db.deferred \subseteq {s \in Step : db.state[s] = "PENDING"}
    BY DEF IInv, Good, Tables, Blocked
  <2>3. \A f \in File : db.fhash[f] = Absent <=> db.fstate[f] \in {"PLANNED", "MISSING"}
    BY DEF IInv, Good, Files
  <2>4. /\ \A s \in Step : db.state[s] = "SUCCEEDED" => db.hash[s] # NoHash
        /\ \A s \in Step : db.state[s] = "RUNNING" => db.hash[s] = NoHash
    BY DEF IInv, Good, Known
  <2>5. /\ mode \in {"build", "watch", "rescan", "raised"} /\ {draining, due} \subseteq BOOLEAN
        /\ changed \subseteq File /\ events \in 0 .. MaxEvents
    BY DEF IInv, Modes, Changes
  <2> QED BY <2>1, <2>2, <2>3, <2>4, <2>5 DEF TypeOK
<1> QED BY <1>1, IInvAlways, PTL

(***************************************************************************)
(* An output is BUILT exactly while the step that makes it is SUCCEEDED,   *)
(* whatever jobs, edits, deferrals and restarts come between: consumers    *)
(* use it only then, and mark_step_pending takes all of them along.        *)
(***************************************************************************)
THEOREM BuiltBySucceededAlways == Spec => []BuiltBySucceeded
<1>1. IInv => BuiltBySucceeded
  BY DEF IInv, Good, Agree, Products, BuiltBySucceeded
<1> QED BY <1>1, IInvAlways, PTL

(***************************************************************************)
(* No wake-up is lost: whichever way an amended input becomes available,   *)
(* the steps that were deferred for it and now have all are released.      *)
(***************************************************************************)
THEOREM DeferredIsBlockedAlways == Spec => []DeferredIsBlocked
<1>1. IInv => DeferredIsBlocked
  BY DEF IInv, Good, Blocked, DeferredIsBlocked
<1> QED BY <1>1, IInvAlways, PTL

(***************************************************************************)
(* When a build that was not drained is over, each step that is left       *)
(* PENDING lacks an input that is MISSING or whose maker did not succeed:  *)
(* the scheduler never stops short of a step that it could hand out.       *)
(***************************************************************************)
THEOREM PendingHasCauseAlways == Spec => []PendingHasCause
<1>1. IInv => PendingHasCause
  <2> SUFFICES ASSUME IInv, mode = "watch", ~draining,
                      NEW s \in Step, db.state[s] = "PENDING"
               PROVE  \E f \in Inputs(db, s) : Unmade(f)
    BY DEF PendingHasCause
  <2>1. Inputs(db, s) \subseteq File /\ Inp[s] \cup DynInputs(db, s) = Inputs(db, s)
    BY GraphType DEF Inputs, DynInputs
  <2>2. PICK f \in Inputs(db, s) : ~Available(db, f)
    <3>1. CASE s \in db.deferred
      BY <2>1, <3>1 DEF IInv, Good, Blocked
    <3>2. CASE s \notin db.deferred
      <4>1. ~Ready(db, s)
        BY <3>2 DEF IInv, Modes, Eligible
      <4> QED BY <2>1, <4>1 DEF Ready, Available
    <3> QED BY <3>1, <3>2
  <2>3. f \in File
    BY <2>1, <2>2
  <2>4. CASE f \in StaticFiles
    BY <2>2, <2>3, <2>4 DEF IInv, Good, Files, Available, Unmade
  <2>5. CASE f \notin StaticFiles
    BY <2>2, <2>3, <2>5 DEF IInv, Good, Agree, Products, Available, Unmade
  <2> QED BY <2>2, <2>4, <2>5
<1> QED BY <1>1, IInvAlways, PTL
-----------------------------------------------------------------------------
(***************************************************************************)
(* What the files hold, in workflows of which the user edits only the      *)
(* sources, and only between builds.  (With other edits a step may record  *)
(* a hash of inputs that its command did not read.)                        *)
(***************************************************************************)
SourceEdits == WatchEdits \subseteq StaticFiles /\ BuildEdits = {}

\* All inputs of s, whether amended already or not.
Uses(s) == Inp[s] \cup Dyn[s]

\* What is recorded of sources and of BUILT files is on disk, or to be rescanned.
OnRecord ==
  /\ \A f \in StaticFiles \ changed : disk[f] = db.fhash[f]
  /\ \A f \in Products : db.fstate[f] = "BUILT" => disk[f] = db.fhash[f]
  /\ mode \in {"build", "raised"} => changed = {}
  /\ mode = "watch" => changed \subseteq StaticFiles
  /\ \A f \in changed \cap Products : db.fstate[f] = "OUTDATED"

\* A step hash tells what the command makes of all its inputs.
HashTrue(d, s) ==
  d.hash[s] # NoHash =>
    /\ s \in d.dynamic \/ Dyn[s] = {}
    /\ d.hash[s][1] = [f \in Uses(s) |-> d.hash[s][1][f]]
    /\ d.hash[s][2] = [f \in Outputs(s) |-> Made(s, d.hash[s][1])]

\* The hash of a SUCCEEDED step is about the present inputs and outputs.
HashCurrent(d, s) ==
  d.state[s] = "SUCCEEDED" =>
    /\ \A f \in Uses(s) : Available(d, f) /\ d.hash[s][1][f] = d.fhash[f]
    /\ \A f \in Outputs(s) : d.fhash[f] = Made(s, d.hash[s][1])

\* The steps S are about to be marked.
Truth(d, S) == \A s \in Step : HashTrue(d, s) /\ (s \notin S => HashCurrent(d, s))

\* An input that s has yet to amend and that was, or is being, made again since
\* s started.
Remade(s, f) ==
  /\ f \in Products \cap Dyn[s] /\ ~job[s].amended
  /\ Maker[f] \in overlap[s] \/ db.hash[Maker[f]] = NoHash

\* What the command of s has read is on disk still, or will be found unfresh.
ReadTrue(s) ==
  /\ job[s].read = [f \in DOMAIN job[s].read |-> job[s].read[f]]
  /\ DOMAIN job[s].read \in {{}, Uses(s)}
  /\ \A f \in DOMAIN job[s].read : job[s].read[f] = disk[f] \/ Remade(s, f)

\* All inputs of s are there, the amended ones included.
Complete(s) == (s \in db.dynamic \/ Dyn[s] = {}) /\ \A f \in Uses(s) : Available(db, f)

\* What the job of s knows of its inputs stays true.
InputsTrue(s) ==
  /\ \A f \in Inp[s] : Available(db, f)
  /\ job[s].inp = [f \in DOMAIN job[s].inp |-> job[s].inp[f]]
  /\ \A f \in DOMAIN job[s].inp : Available(db, f) /\ job[s].inp[f] = db.fhash[f]

\* What it knows of its outputs, which are made of these inputs.
Ending == {"collect", "hash", "settle"}
OutputsTrue(s) ==
  /\ job[s].at \in Ending /\ job[s].ok =>
       Complete(s) /\ \A f \in Outputs(s) : disk[f] = Made(s, [g \in Uses(s) |-> db.fhash[g]])
  /\ job[s].at \in {"hash", "settle"} /\ job[s].ok => DOMAIN job[s].inp = Uses(s)
  /\ job[s].at = "hash" => job[s].out = [f \in Outputs(s) |-> db.fhash[f]]
  /\ job[s].at = "settle" => /\ job[s].out = [f \in Outputs(s) |-> disk[f]]
                             /\ job[s].fresh = {f \in Outputs(s) : disk[f] # db.fhash[f]}

JobTrue(s) ==
  /\ job[s].at # "none" => InputsTrue(s)
  /\ job[s].at \notin {"reject", "giveup"}
  /\ job[s].at \in {"reset", "settle"} => job[s].bad = {}
  /\ job[s].at = "reset" => job[s].read = [f \in {} |-> disk[f]]
  /\ job[s].at = "outs" => job[s].inp = db.hash[s][1] /\ DOMAIN job[s].inp = Inputs(db, s)
  /\ job[s].at = "run" => ReadTrue(s) /\ (job[s].amended => Complete(s))
  /\ OutputsTrue(s)

Overlaps == overlap = [s \in Step |-> overlap[s]]

TrueInv == OnRecord /\ Overlaps /\ Truth(db, {}) /\ \A s \in Step : JobTrue(s)
-----------------------------------------------------------------------------
(***************************************************************************)
(* What transactions leave alone.                                          *)
(***************************************************************************)
LEMMA UsesType ==
  ASSUME NEW s \in Step
  PROVE  /\ Uses(s) \subseteq File /\ \A f \in Uses(s) : Maker[f] # s
         /\ \A d : Inputs(d, s) \subseteq Uses(s) /\ Inp[s] \subseteq Inputs(d, s)
         /\ \A d : (s \in d.dynamic \/ Dyn[s] = {}) => Inputs(d, s) = Uses(s)
BY GraphType DEF Uses, Inputs, DynInputs

LEMMA MarkPendingAges ==
  ASSUME NEW d, Tables(d), NEW S \in SUBSET Step, NEW e, e = MarkPending(d, S)
  PROVE  e.fhash = d.fhash /\ \A f \in File : Ages(d, e, f)
<1> DEFINE M == Marked(d, S)
<1>1. /\ Same(d, e) /\ M \subseteq Step \ Busy(d) /\ S \ Busy(d) \subseteq M
      /\ e.state = [s \in Step |-> IF s \in M THEN "PENDING" ELSE d.state[s]]
      /\ e.fstate = [f \in File |-> IF f \in BuiltOutputs(d, M \cap Completed(d))
                                    THEN "OUTDATED" ELSE d.fstate[f]]
  BY MarkPendingTables, MarkedIdle
<1> HIDE DEF M
<1> QED BY <1>1 DEF Same, Ages, BuiltOutputs

LEMMA MarkedClosed ==
  ASSUME NEW d, NEW S \in SUBSET Step, NEW M, M = Marked(d, S)
  PROVE  Consumers(d, BuiltOutputs(d, M \cap Completed(d))) \ Busy(d) \subseteq M
<1> DEFINE idle == Step \ Busy(d)
<1> DEFINE Closed(T) == Consumers(d, BuiltOutputs(d, T \cap Completed(d))) \cap idle \subseteq T
<1>1. SUFFICES ASSUME NEW t \in Consumers(d, BuiltOutputs(d, M \cap Completed(d))), t \notin Busy(d),
                      NEW T \in SUBSET idle, S \cap idle \subseteq T, Closed(T)
               PROVE  t \in T
  BY DEF Marked, Consumers
<1>2. M \subseteq T
  BY <1>1 DEF Marked
<1>3. BuiltOutputs(d, M \cap Completed(d)) \subseteq BuiltOutputs(d, T \cap Completed(d))
  BY <1>2 DEF BuiltOutputs
<1>4. t \in Consumers(d, BuiltOutputs(d, T \cap Completed(d))) \cap idle
  BY <1>1, <1>3 DEF Consumers
<1> QED BY <1>1, <1>4

\* Without BUILT outputs the marking does not spread.
LEMMA MarkedStops ==
  ASSUME NEW d, NEW S \in SUBSET Step, BuiltOutputs(d, (S \ Busy(d)) \cap Completed(d)) = {}
  PROVE  Marked(d, S) = S \ Busy(d)
<1>1. S \ Busy(d) \subseteq Marked(d, S)
  BY MarkedIdle
<1>2. Consumers(d, {}) = {}
  BY DEF Consumers
<1>3. S \cap (Step \ Busy(d)) = S \ Busy(d)
  OBVIOUS
<1>4. Marked(d, S) \subseteq S \ Busy(d)
  BY <1>2, <1>3 DEF Marked
<1> QED BY <1>1, <1>4

\* Marking a step without BUILT outputs changes no file.
LEMMA MarkPendingStops ==
  ASSUME NEW d, Tables(d), NEW S \in SUBSET Step,
         BuiltOutputs(d, (S \ Busy(d)) \cap Completed(d)) = {},
         NEW e, e = MarkPending(d, S)
  PROVE  /\ Tables(e)
         /\ e.fstate = d.fstate /\ e.fhash = d.fhash /\ e.hash = d.hash /\ e.dynamic = d.dynamic
         /\ e.state = [s \in Step |-> IF s \in S \ Busy(d) THEN "PENDING" ELSE d.state[s]]
<1> DEFINE M == Marked(d, S)
<1>1. M = S \ Busy(d)
  BY MarkedStops
<1> HIDE DEF M
<1>2. /\ Tables(e) /\ Same(d, e)
      /\ e.state = [s \in Step |-> IF s \in M THEN "PENDING" ELSE d.state[s]]
      /\ e.fstate = [f \in File |-> IF f \in BuiltOutputs(d, M \cap Completed(d))
                                    THEN "OUTDATED" ELSE d.fstate[f]]
  BY MarkPendingTables DEF M
<1>3. e.fstate = [f \in File |-> d.fstate[f]]
  BY <1>1, <1>2
<1> QED BY <1>1, <1>2, <1>3 DEF Same, Tables

\* Marking steps, with all that depends on them, restores the truth.
LEMMA MarkPendingTrue ==
  ASSUME NEW d, Tables(d), Known(d), NEW S \in SUBSET Step, S \cap Busy(d) = {}, Truth(d, S),
         NEW e, e = MarkPending(d, S)
  PROVE  Truth(e, {})
<1> DEFINE M == Marked(d, S)
<1>1. /\ Same(d, e) /\ M \subseteq Step \ Busy(d) /\ S \ Busy(d) \subseteq M
      /\ e.state = [s \in Step |-> IF s \in M THEN "PENDING" ELSE d.state[s]]
      /\ e.fstate = [f \in File |-> IF f \in BuiltOutputs(d, M \cap Completed(d))
                                    THEN "OUTDATED" ELSE d.fstate[f]]
  BY MarkPendingTables, MarkedIdle
<1>2. Consumers(d, BuiltOutputs(d, M \cap Completed(d))) \ Busy(d) \subseteq M
  BY MarkedClosed
<1> HIDE DEF M
<1>3. ASSUME NEW s \in Step
      PROVE  HashTrue(e, s)
  BY <1>1 DEF Same, Truth, HashTrue
<1>4. ASSUME NEW s \in Step, e.state[s] = "SUCCEEDED"
      PROVE  HashCurrent(e, s)
  <2>1. s \notin M /\ d.state[s] = "SUCCEEDED" /\ s \notin S /\ s \notin Busy(d)
    BY <1>1, <1>4 DEF Busy
  <2>2. HashCurrent(d, s) /\ HashTrue(d, s) /\ d.hash[s] # NoHash
    BY <2>1 DEF Truth, Known
  <2>3. Inputs(d, s) = Uses(s) /\ Uses(s) \subseteq File
    BY <2>2, UsesType DEF HashTrue
  <2>4. ASSUME NEW f \in Uses(s)
        PROVE  e.fstate[f] = d.fstate[f]
    <3>1. f \notin BuiltOutputs(d, M \cap Completed(d))
      BY <1>2, <2>1, <2>3 DEF Consumers
    <3> QED BY <1>1, <2>3, <3>1
  <2>5. e.hash = d.hash /\ e.fhash = d.fhash
    BY <1>1 DEF Same
  <2> QED BY <2>1, <2>2, <2>4, <2>5 DEF HashCurrent, Available
<1> QED BY <1>3, <1>4 DEF Truth, HashCurrent
-----------------------------------------------------------------------------
(***************************************************************************)
(* The transactions of a job of the step s leave alone what is available,  *)
(* the files and hashes of other steps, and make no other step SUCCEEDED.  *)
(***************************************************************************)
Steady(d, e, s) ==
  /\ \A f \in File : Available(d, f) \/ Maker[f] # s =>
       e.fstate[f] = d.fstate[f] /\ e.fhash[f] = d.fhash[f]
  /\ \A t \in Step \ {s} :
       /\ e.hash[t] = d.hash[t] /\ (t \in e.dynamic <=> t \in d.dynamic)
       /\ e.state[t] = "SUCCEEDED" => d.state[t] = "SUCCEEDED"

LEMMA SteadyTwice ==
  ASSUME NEW d, NEW u, NEW e, NEW s, Steady(d, u, s), Steady(u, e, s)
  PROVE  Steady(d, e, s)
BY DEF Steady, Available

\* An available file is not the output of a busy step.
LEMMA AvailableMade ==
  ASSUME NEW d, NEW X, Good(d, X), NEW f \in File, Available(d, f)
  PROVE  \/ f \in StaticFiles /\ d.fstate[f] = "CONFIRMED"
         \/ /\ f \in Products /\ Maker[f] \in Step /\ d.fstate[f] = "BUILT"
            /\ Maker[f] \in X \/ d.state[Maker[f]] = "SUCCEEDED"
<1>1. CASE f \in StaticFiles
  BY <1>1 DEF Good, Files, Available
<1>2. CASE f \notin StaticFiles
  <2>1. f \in Products /\ Maker[f] \in Step
    BY <1>2, Makers DEF Products
  <2>2. d.fstate[f] = "BUILT"
    BY <1>2 DEF Good, Files, Available
  <2> QED BY <2>1, <2>2 DEF Good, Agree
<1> QED BY <1>1, <1>2

LEMMA BusyOutputs ==
  ASSUME NEW d, Good(d, {}), NEW s \in Busy(d), NEW f \in File, Available(d, f)
  PROVE  Maker[f] # s
BY AvailableMade, GraphType DEF Busy, StaticFiles

\* Nobody else that succeeded uses an output that is not available.
LEMMA NotUsed ==
  ASSUME NEW d, NEW t \in Step, HashCurrent(d, t), d.state[t] = "SUCCEEDED",
         NEW f \in Inputs(d, t)
  PROVE  Available(d, f)
BY UsesType DEF HashCurrent

LEMMA SteadyTruth ==
  ASSUME NEW d, NEW e, NEW s \in Step, Steady(d, e, s), NEW t \in Step \ {s},
         HashTrue(d, t), HashCurrent(d, t)
  PROVE  HashTrue(e, t) /\ HashCurrent(e, t)
<1>1. HashTrue(e, t)
  BY DEF Steady, HashTrue
<1>2. HashCurrent(e, t)
  <2> SUFFICES ASSUME e.state[t] = "SUCCEEDED" PROVE HashCurrent(e, t)
    BY DEF HashCurrent
  <2>1. d.state[t] = "SUCCEEDED" /\ e.hash[t] = d.hash[t]
    BY DEF Steady
  <2>2. \A f \in Uses(t) : f \in File /\ Available(d, f)
    BY <2>1, UsesType DEF HashCurrent
  <2>3. \A f \in Outputs(t) : f \in File /\ Maker[f] = t /\ t # s
    BY DEF Outputs
  <2> QED BY <2>1, <2>2, <2>3 DEF Steady, HashCurrent, Available
<1> QED BY <1>1, <1>2

LEMMA SetStateSteady ==
  ASSUME NEW d, Tables(d), NEW s \in Step, NEW st \in StepState, NEW e, e = SetStates(d, {s}, st)
  PROVE  /\ Steady(d, e, s) /\ e.hash = d.hash /\ e.dynamic = d.dynamic /\ e.state[s] = st
         /\ e.fstate = d.fstate /\ e.fhash = d.fhash /\ Tables(e)
<1>1. /\ Tables(e) /\ Same(d, e) /\ e.state = [t \in Step |-> IF t \in {s} THEN st ELSE d.state[t]]
      /\ e.fstate = d.fstate
  BY SetStatesTables
<1> QED BY <1>1 DEF Same, Steady

LEMMA ResetForRerunSteady ==
  ASSUME NEW d, Good(d, {}), NEW s \in Busy(d), NEW e, e = ResetForRerun(d, s)
  PROVE  /\ Steady(d, e, s) /\ e.hash = d.hash /\ e.fstate = d.fstate /\ e.fhash = d.fhash
         /\ e.state = d.state /\ Tables(e)
<1> DEFINE D == d.dynamic \ {s}
<1> DEFINE cut == [d EXCEPT !.dynamic = D]
<1> DEFINE same == SetFiles(cut, {}, "OUTDATED")
<1>1. /\ Tables(cut) /\ cut.state = d.state /\ cut.fstate = d.fstate /\ cut.hash = d.hash
      /\ cut.fhash = d.fhash /\ cut.dynamic = D
  <2>1. D \in SUBSET Step
    BY DEF Good, Tables
  <2> HIDE DEF D
  <2> QED BY <2>1 DEF Good, Tables
<1>2. e = MarkPending(same, {})
  <2>1. BuiltOutputs(d, {s}) = {}
    BY BusyFacts
  <2>2. cut = [d EXCEPT !.dynamic = @ \ {s}]
    OBVIOUS
  <2>3. BuiltOutputs(cut, {s}) = {} /\ Consumers(cut, {}) = {}
    BY <1>1, <2>1 DEF BuiltOutputs, Consumers
  <2> HIDE DEF cut, D
  <2> QED BY <2>1, <2>2, <2>3 DEF ResetForRerun, MarkOutdated
<1> HIDE DEF cut
<1>3. /\ Tables(same) /\ Same(cut, same) /\ same.state = cut.state
      /\ same.fstate = [f \in File |-> cut.fstate[f]]
  BY <1>1, SetFilesTables DEF FileState
<1> HIDE DEF same
<1>4. BuiltOutputs(same, ({} \ Busy(same)) \cap Completed(same)) = {}
  BY DEF BuiltOutputs
<1>5. /\ e.fstate = same.fstate /\ e.fhash = same.fhash /\ e.hash = same.hash
      /\ e.dynamic = same.dynamic /\ Tables(e)
      /\ e.state = [t \in Step |-> IF t \in {} \ Busy(same) THEN "PENDING" ELSE same.state[t]]
  BY <1>2, <1>3, <1>4, MarkPendingStops
<1>6. same.fstate = cut.fstate /\ e.state = same.state
  BY <1>1, <1>3, <1>5 DEF Tables
<1> QED BY <1>1, <1>3, <1>5, <1>6 DEF Same, Steady

LEMMA ResetToPendingSteady ==
  ASSUME NEW d, Good(d, {}), NEW s \in Busy(d), NEW e, e = ResetToPending(d, s)
  PROVE  /\ Steady(d, e, s) /\ e.hash[s] = NoHash /\ e.state[s] = "PENDING"
         /\ e.fstate = d.fstate /\ e.fhash = d.fhash
<1> DEFINE r == ResetForRerun(d, s)
<1> DEFINE p == SetStates(r, {s}, "PENDING")
<1>0. s \in Step /\ "PENDING" \in StepState
  BY BusyFacts DEF StepState
<1>1. Steady(d, r, s) /\ r.fstate = d.fstate /\ r.fhash = d.fhash /\ Tables(r)
  BY ResetForRerunSteady
<1>2. e = [p EXCEPT !.hash[s] = NoHash]
  BY DEF ResetToPending
<1> HIDE DEF r
<1>3. /\ Steady(r, p, s) /\ Tables(p) /\ p.state[s] = "PENDING"
      /\ p.fstate = r.fstate /\ p.fhash = r.fhash
  BY <1>0, <1>1, SetStateSteady
<1> HIDE DEF p
<1>4. /\ e.state = p.state /\ e.fstate = p.fstate /\ e.fhash = p.fhash /\ e.dynamic = p.dynamic
      /\ e.hash = [t \in Step |-> IF t = s THEN NoHash ELSE p.hash[t]]
  BY <1>0, <1>2, <1>3 DEF Tables
<1>5. Steady(p, e, s)
  BY <1>4 DEF Steady
<1> QED BY <1>0, <1>1, <1>3, <1>4, <1>5, SteadyTwice

\* The table, for the outputs of a step that is not SUCCEEDED.
LEMMA QuietRow ==
  ASSUME NEW t \in Transitions, t[1] = "FAILED", t[2] \in {"PLANNED", "OUTDATED"}
  PROVE  t[5] = "none"
<1>1. CASE \E old, known, new, act : t = <<"EXTERNAL", old, known, new, act>>
  BY <1>1
<1>2. CASE \E old, known, new, act : t = <<"SUCCEEDED", old, known, new, act>>
  BY <1>2
<1>3. CASE \E known, new, act : t = <<"FAILED", "CONFIRMED", known, new, act>>
  BY <1>3
<1>4. CASE \E known, new, act : t = <<"FAILED", "BUILT", known, new, act>>
  BY <1>4
<1>5. CASE \E old, known, new : t = <<"FAILED", old, known, new, "none">>
  BY <1>5
<1> QED BY <1>1, <1>2, <1>3, <1>4, <1>5 DEF Transitions

LEMMA UpdateOwnHashes ==
  ASSUME NEW d, Good(d, {}), NEW s \in Busy(d), Truth(d, {s}),
         NEW new, DOMAIN new \subseteq Outputs(s), \A f \in DOMAIN new : new[f] # Absent,
         NEW cause \in {"SUCCEEDED", "FAILED"}, Expected(d, new, cause),
         NEW e, e = UpdateHashes(d, new, cause)
  PROVE  /\ Steady(d, e, s) /\ e.hash = d.hash /\ e.dynamic = d.dynamic /\ Tables(e)
         /\ \A f \in File \ DOMAIN new : e.fhash[f] = d.fhash[f]
         /\ \A f \in DOMAIN new : e.fhash[f] = new[f]
         /\ \A f \in Outputs(s) : cause = "FAILED" => e.fstate[f] # "BUILT"
<1> DEFINE rule == Rules(d, new, cause)
<1> DEFINE d1 == StoreHashes(d, new, rule)
<1> DEFINE S == FollowUps(d, rule)
<1>0. s \in Step /\ d.state[s] \in {"CHECKING", "RUNNING"}
  BY BusyFacts
<1>1. e = MarkPending(d1, S) /\ S \in SUBSET Step /\ DOMAIN rule = DOMAIN new
  <2>1. e = MarkPending(d1, S)
    BY DEF UpdateHashes
  <2>2. S \in SUBSET Step
    BY DEF FollowUps, Consumers
  <2> QED BY <2>1, <2>2 DEF Rules
<1>2. ASSUME NEW f \in DOMAIN new
      PROVE  /\ f \in File /\ f \in Products /\ Maker[f] = s
             /\ d.fstate[f] \in {"PLANNED", "OUTDATED"}
             /\ rule[f][4] = IF cause = "SUCCEEDED" THEN "BUILT" ELSE "OUTDATED"
             /\ rule[f][5] = IF cause = "SUCCEEDED" THEN "completed" ELSE "none"
  <2> DEFINE t == rule[f]
  <2>1. t \in Transitions /\ t[1] = cause /\ t[2] = d.fstate[f] /\ t[3] = (new[f] # Absent)
    BY RowTaken
  <2>2. f \in File /\ f \in Products /\ Maker[f] = s /\ f \notin StaticFiles
    BY <1>0, Makers DEF Products
  <2>3. d.fstate[f] \in {"PLANNED", "OUTDATED"}
    BY <1>0, <2>2 DEF Good, Files, Agree
  <2> HIDE DEF t, rule
  <2>4. t[3]
    BY <2>1
  <2>5. /\ cause = "SUCCEEDED" => t[4] = "BUILT" /\ t[5] = "completed"
        /\ cause = "FAILED" => t[4] = "OUTDATED"
    BY <2>1, <2>3, <2>4, TableRows
  <2>6. cause = "FAILED" => t[5] = "none"
    BY <2>1, <2>3, QuietRow
  <2> QED BY <2>2, <2>3, <2>5, <2>6 DEF t
<1>3. /\ Tables(d1) /\ d1.state = d.state
      /\ d1.dynamic = d.dynamic /\ d1.hash = d.hash
      /\ d1.fstate = [f \in File |-> IF f \in DOMAIN new THEN rule[f][4] ELSE d.fstate[f]]
      /\ d1.fhash = [f \in File |-> IF f \in DOMAIN new THEN StoredHash(rule[f][4], new[f])
                                    ELSE d.fhash[f]]
  BY <1>2, StoreHashesTables DEF Good, FileState
<1>4. S \subseteq Consumers(d, DOMAIN new)
  BY <1>1, <1>2 DEF FollowUps, ActsOnConsumers, Consumers
<1>5. \A f \in DOMAIN new : d1.fhash[f] = new[f] /\ (cause = "FAILED" => d1.fstate[f] = "OUTDATED")
  BY <1>2, <1>3 DEF StoredHash
<1> HIDE DEF d1, S, rule
<1>6. ASSUME NEW t \in S
      PROVE  t \in Step /\ t # s /\ d.state[t] # "SUCCEEDED"
  <2>1. PICK f \in DOMAIN new : f \in Inputs(d, t) /\ t \in Step
    BY <1>4 DEF Consumers
  <2>2. t # s
    BY <1>2, <2>1, UsesType
  <2>3. ~Available(d, f)
    BY <1>2, <2>1 DEF Available
  <2> QED BY <2>1, <2>2, <2>3, NotUsed DEF Truth
<1>7. BuiltOutputs(d1, (S \ Busy(d1)) \cap Completed(d1)) = {}
  <2> SUFFICES ASSUME NEW f \in BuiltOutputs(d1, (S \ Busy(d1)) \cap Completed(d1))
               PROVE  FALSE
    OBVIOUS
  <2>1. f \in File /\ Maker[f] \in S /\ d1.fstate[f] = "BUILT"
    BY DEF BuiltOutputs
  <2>2. f \in Products /\ Maker[f] # s /\ d.state[Maker[f]] # "SUCCEEDED"
    BY <1>6, <2>1, Makers
  <2>3. d.fstate[f] = "BUILT"
    BY <1>2, <1>3, <2>1, <2>2
  <2> QED BY <2>2, <2>3 DEF Good, Agree
<1>8. /\ e.fstate = d1.fstate /\ e.fhash = d1.fhash /\ e.hash = d1.hash /\ e.dynamic = d1.dynamic
      /\ e.state = [t \in Step |-> IF t \in S \ Busy(d1) THEN "PENDING" ELSE d1.state[t]]
      /\ Tables(e)
  BY <1>1, <1>3, <1>7, MarkPendingStops
<1>9. \A f \in File : Available(d, f) \/ Maker[f] # s => f \notin DOMAIN new
  BY <1>2 DEF Available
<1>10. /\ Steady(d, e, s) /\ e.hash = d.hash /\ e.dynamic = d.dynamic /\ Tables(e)
  BY <1>3, <1>8, <1>9 DEF Steady
<1>13. /\ e.fhash = d1.fhash /\ e.fstate = d1.fstate
       /\ \A f \in File \ DOMAIN new : d1.fhash[f] = d.fhash[f] /\ d1.fstate[f] = d.fstate[f]
  BY <1>3, <1>8
<1>12. /\ \A f \in File \ DOMAIN new : e.fhash[f] = d.fhash[f]
       /\ \A f \in DOMAIN new : e.fhash[f] = new[f]
  BY <1>5, <1>13
<1>11. \A f \in Outputs(s) : cause = "FAILED" => e.fstate[f] # "BUILT"
  <2>1. \A f \in Outputs(s) : f \in Products /\ f \in File /\ d.fstate[f] # "BUILT"
    BY <1>0, Makers DEF Good, Agree, Products
  <2> QED BY <1>5, <1>13, <2>1
<1> QED BY <1>10, <1>11, <1>12

LEMMA MarkSucceededSteady ==
  ASSUME NEW d, NEW s \in Step, Good(d, {s}), s \in Busy(d), Truth(d, {s}), NEW h,
         NEW e, e = MarkSucceeded(d, s, h)
  PROVE  /\ Steady(d, e, s) /\ e.fhash = d.fhash /\ e.dynamic = d.dynamic /\ e.hash[s] = h
<1> DEFINE outs == {f \in Outputs(s) : d.fstate[f] = "OUTDATED"}
<1> DEFINE d1 == SetStates(d, {s}, "SUCCEEDED")
<1> DEFINE d2 == SetFiles(d1, outs, "BUILT")
<1> DEFINE H == [d2.hash EXCEPT ![s] = h]
<1> DEFINE C == [d2.count EXCEPT ![s] = 0]
<1> DEFINE D == d2.deferred \ {s}
<1> DEFINE done == [d2 EXCEPT !.hash = H, !.count = C, !.deferred = D]
<1> DEFINE S == Consumers(d, outs)
<1>0. Tables(d)
  BY DEF Good
<1>2. /\ Tables(d1) /\ Same(d, d1) /\ d1.deferred = d.deferred /\ d1.fstate = d.fstate
      /\ d1.state = [t \in Step |-> IF t \in {s} THEN "SUCCEEDED" ELSE d.state[t]]
  <2>1. "SUCCEEDED" \in StepState
    BY DEF StepState
  <2> QED BY <1>0, <2>1, SetStatesTables
<1>3. /\ Tables(d2) /\ Same(d1, d2) /\ d2.deferred = d1.deferred /\ d2.state = d1.state
      /\ d2.fstate = [f \in File |-> IF f \in outs THEN "BUILT" ELSE d1.fstate[f]]
  <2>1. "BUILT" \in FileState
    BY DEF FileState
  <2> HIDE DEF d1
  <2> QED BY <1>2, <2>1, SetFilesTables
<1>1. e = MarkPending(done, S) /\ S \in SUBSET Step
  <2>1. done = [d2 EXCEPT !.hash[s] = h, !.count[s] = 0, !.deferred = @ \ {s}]
    <3> HIDE DEF d2
    <3> QED BY <1>3 DEF Tables
  <2>2. e = MarkPending(done, S)
    <3> HIDE DEF done
    <3> QED BY <2>1 DEF MarkSucceeded
  <2> QED BY <2>2 DEF Consumers
<1> HIDE DEF d1
<1> HIDE DEF d2
<1>4. /\ Tables(done) /\ done.state = d2.state /\ done.fstate = d2.fstate /\ done.fhash = d2.fhash
      /\ done.dynamic = d2.dynamic
      /\ done.hash = [t \in Step |-> IF t = s THEN h ELSE d2.hash[t]]
  <2>1. /\ H = [t \in Step |-> IF t = s THEN h ELSE d2.hash[t]] /\ C \in [Step -> Nat]
        /\ D \in SUBSET Step
    BY <1>3 DEF Tables
  <2> HIDE DEF H, C, D
  <2>3. done = [d2 EXCEPT !.hash = H, !.count = C, !.deferred = D]
    OBVIOUS
  <2> HIDE DEF done
  <2>2. done = [state |-> d2.state, deferred |-> D, count |-> C, dynamic |-> d2.dynamic,
                hash |-> H, fstate |-> d2.fstate, fhash |-> d2.fhash]
    BY <1>3, <2>3 DEF Tables
  <2> QED BY <1>3, <2>1, <2>2 DEF Tables
<1> HIDE DEF done
<1>5. /\ done.state = [t \in Step |-> IF t = s THEN "SUCCEEDED" ELSE d.state[t]]
      /\ done.fstate = [f \in File |-> IF f \in outs THEN "BUILT" ELSE d.fstate[f]]
      /\ done.fhash = d.fhash /\ done.dynamic = d.dynamic
      /\ done.hash = [t \in Step |-> IF t = s THEN h ELSE d.hash[t]]
  BY <1>2, <1>3, <1>4 DEF Same
<1>6. /\ \A f \in outs : f \in Products /\ f \in File /\ Maker[f] = s /\ d.fstate[f] = "OUTDATED"
  BY Makers DEF Products
<1>7. ASSUME NEW t \in S
      PROVE  t \in Step /\ t # s /\ d.state[t] # "SUCCEEDED"
  <2>1. PICK f \in outs : f \in Inputs(d, t) /\ t \in Step
    BY DEF Consumers
  <2>2. t # s
    BY <1>6, <2>1, UsesType
  <2>3. ~Available(d, f)
    BY <1>6, <2>1 DEF Available
  <2> QED BY <2>1, <2>2, <2>3, NotUsed DEF Truth
<1> HIDE DEF S, outs
<1>8. BuiltOutputs(done, (S \ Busy(done)) \cap Completed(done)) = {}
  <2> SUFFICES ASSUME NEW f \in BuiltOutputs(done, (S \ Busy(done)) \cap Completed(done))
               PROVE  FALSE
    OBVIOUS
  <2>1. f \in File /\ Maker[f] \in S /\ done.fstate[f] = "BUILT"
    BY DEF BuiltOutputs
  <2>2. f \in Products /\ Maker[f] # s /\ d.state[Maker[f]] # "SUCCEEDED"
    BY <1>7, <2>1, Makers
  <2>3. d.fstate[f] = "BUILT"
    BY <1>5, <1>6, <2>1, <2>2
  <2> QED BY <2>2, <2>3 DEF Good, Agree
<1>9. /\ e.fstate = done.fstate /\ e.fhash = done.fhash /\ e.hash = done.hash
      /\ e.dynamic = done.dynamic
      /\ e.state = [t \in Step |-> IF t \in S \ Busy(done) THEN "PENDING" ELSE done.state[t]]
  BY <1>1, <1>4, <1>8, MarkPendingStops
<1>10. \A f \in File : Available(d, f) \/ Maker[f] # s => f \notin outs
  BY <1>6 DEF Available
<1>11. Steady(d, e, s)
  BY <1>5, <1>9, <1>10 DEF Steady
<1> QED BY <1>5, <1>9, <1>11

LEMMA MarkUnsuccessfulSteady ==
  ASSUME NEW d, Good(d, {}), NEW s \in Busy(d), NEW w \in BOOLEAN,
         NEW e, e = MarkUnsuccessful(d, s, w)
  PROVE  /\ Steady(d, e, s) /\ e.hash[s] = NoHash /\ e.state[s] # "SUCCEEDED"
         /\ e.fstate = d.fstate /\ e.fhash = d.fhash
<1>1. /\ e.fstate = d.fstate /\ e.fhash = d.fhash /\ e.dynamic = d.dynamic
      /\ e.hash = [t \in Step |-> IF t = s THEN NoHash ELSE d.hash[t]]
      /\ \A t \in Step \ {s} : e.state[t] = d.state[t]
      /\ e.state[s] \in {"PENDING", "FAILED"}
  BY MarkUnsuccessfulTables
<1>2. s \in Step
  BY BusyFacts
<1> QED BY <1>1, <1>2 DEF Steady

\* A hash of the inputs and outputs of s.
HashShape(s, h) ==
  /\ h # NoHash /\ h[1] = [f \in Uses(s) |-> h[1][f]]
  /\ h[2] = [f \in Outputs(s) |-> Made(s, h[1])]

\* A step that is recorded as successful, when what it made is on disk.
LEMMA SucceedTrue ==
  ASSUME NEW d, Good(d, {}), NEW s \in Busy(d), Truth(d, {}),
         NEW new, new = [f \in {g \in Outputs(s) : disk[g] # d.fhash[g]} |-> disk[f]],
         Expected(d, new, "SUCCEEDED"), NEW h, HashShape(s, h),
         s \in d.dynamic \/ Dyn[s] = {},
         \A f \in Uses(s) : Available(d, f) /\ h[1][f] = d.fhash[f],
         \A f \in Outputs(s) : disk[f] = Made(s, h[1]),
         NEW e, e = MarkSucceeded(UpdateHashes(d, new, "SUCCEEDED"), s, h)
  PROVE  /\ Steady(d, e, s) /\ HashTrue(e, s) /\ HashCurrent(e, s)
         /\ \A f \in Outputs(s) : e.fhash[f] = disk[f]
<1>00. s \in Step
  BY BusyFacts
<1>0. /\ s \in Step /\ DOMAIN new \subseteq Outputs(s) /\ DOMAIN new \subseteq File
      /\ \A f \in DOMAIN new : new[f] = disk[f] /\ new[f] # Absent
      /\ \A f \in Outputs(s) \ DOMAIN new : d.fhash[f] = disk[f]
  BY <1>00, Contents DEF Outputs
<1> DEFINE u == UpdateHashes(d, new, "SUCCEEDED")
<1>1. "SUCCEEDED" \in {"SUCCEEDED", "FAILED"} /\ "SUCCEEDED" \in Causes /\ Truth(d, {s})
  BY DEF Truth, Causes
<1>2. /\ Steady(d, u, s) /\ u.hash = d.hash /\ u.dynamic = d.dynamic
      /\ \A f \in File \ DOMAIN new : u.fhash[f] = d.fhash[f]
      /\ \A f \in DOMAIN new : u.fhash[f] = new[f]
  BY <1>0, <1>1, UpdateOwnHashes
<1>3. Good(u, {s}) /\ Spares(d, u, {})
  <2>1. Good(d, {s}) /\ DOMAIN new \subseteq {f \in Products : Maker[f] \in {s}}
    BY <1>0, Makers DEF Good, Agree
  <2> QED BY <1>0, <1>1, <2>1, UpdateHashesGood
<1> HIDE DEF u
<1>4. s \in Busy(u)
  BY <1>0, <1>3 DEF Spares, Busy
<1>5. Truth(u, {s})
  <2>1. \A t \in Step \ {s} : HashTrue(u, t) /\ HashCurrent(u, t)
    BY <1>0, <1>2, SteadyTruth DEF Truth
  <2>2. HashTrue(u, s)
    BY <1>0, <1>2 DEF Truth, HashTrue
  <2> QED BY <2>1, <2>2 DEF Truth
<1>6. Steady(u, e, s) /\ e.fhash = u.fhash /\ e.dynamic = u.dynamic /\ e.hash[s] = h
  BY <1>0, <1>3, <1>4, <1>5, MarkSucceededSteady DEF u
<1>7. Steady(d, e, s)
  BY <1>2, <1>6, SteadyTwice
<1>8. \A f \in Outputs(s) : e.fhash[f] = disk[f]
  <2>1. \A f \in Outputs(s) : f \in File
    BY DEF Outputs
  <2> QED BY <1>0, <1>2, <1>6, <2>1
<1>9. HashTrue(e, s)
  BY <1>2, <1>6 DEF HashTrue, HashShape
<1>10. HashCurrent(e, s)
  <2>1. \A f \in Uses(s) : Available(e, f) /\ e.fhash[f] = d.fhash[f]
    BY <1>0, <1>7, UsesType DEF Steady, Available
  <2> QED BY <1>6, <1>8, <2>1 DEF HashCurrent
<1> QED BY <1>7, <1>8, <1>9, <1>10
-----------------------------------------------------------------------------
(***************************************************************************)
(* A step of a job during a build.                                         *)
(***************************************************************************)
LEMMA TrueSteps ==
  ASSUME IInv, TrueInv, mode = "build", NEW s \in Step,
         Steady(db, db', s), HashTrue(db', s), HashCurrent(db', s),
         \A f \in File : disk'[f] # disk[f] =>
           Maker[f] = s /\ ~Available(db, f) /\ db.hash[s] = NoHash,
         \A f \in Outputs(s) : db'.fstate[f] = "BUILT" => disk'[f] = db'.fhash[f],
         Overlaps', \A t \in Step \ {s} : overlap[t] \subseteq overlap'[t],
         db.hash[s] = NoHash =>
           db'.hash[s] = NoHash \/ \A t \in Step \ {s} : db.state[t] = "RUNNING" => s \in overlap'[t],
         job' = [job EXCEPT ![s] = job'[s]], JobTrue(s)', UNCHANGED <<mode, changed>>
  PROVE  TrueInv'
<1>1. Truth(db', {})
  <2>1. \A t \in Step \ {s} : HashTrue(db, t) /\ HashCurrent(db, t)
    BY DEF TrueInv, Truth
  <2> QED BY <2>1, SteadyTruth DEF Truth
<1>2. OnRecord'
  <2>0. changed = {} /\ changed' = {} /\ mode' = "build"
    BY DEF TrueInv, OnRecord
  <2>1. ASSUME NEW f \in StaticFiles
        PROVE  disk'[f] = db'.fhash[f]
    <3>1. f \in File /\ Maker[f] # s
      BY GraphType DEF StaticFiles
    <3> QED BY <2>0, <3>1 DEF Steady, TrueInv, OnRecord
  <2>2. ASSUME NEW f \in Products, db'.fstate[f] = "BUILT"
        PROVE  disk'[f] = db'.fhash[f]
    <3>0. f \in File
      BY DEF Products
    <3>1. CASE Maker[f] = s
      BY <2>2, <3>0, <3>1 DEF Outputs
    <3>2. CASE Maker[f] # s
      BY <2>2, <3>0, <3>2 DEF Steady, TrueInv, OnRecord
    <3> QED BY <3>1, <3>2
  <2> QED BY <2>0, <2>1, <2>2 DEF OnRecord
<1>3. ASSUME NEW t \in Step, t # s
      PROVE  JobTrue(t)'
  <2>1. job'[t] = job[t] /\ JobTrue(t) /\ JobInv(t)
    BY <1>3 DEF IInv, Jobs, TrueInv
  <2>2. \A f \in File : Available(db, f) => Available(db', f) /\ db'.fhash[f] = db.fhash[f]
    BY DEF Steady, Available
  <2>3. \A f \in Outputs(t) : f \in File /\ disk'[f] = disk[f] /\ db'.fhash[f] = db.fhash[f]
    BY <1>3 DEF Outputs, Steady
  <2>4. db'.hash[t] = db.hash[t] /\ (t \in db'.dynamic <=> t \in db.dynamic)
    BY <1>3 DEF Steady
  <2>5. Inp[t] \subseteq File /\ Uses(t) \subseteq File
    BY UsesType DEF Uses
  <2>6. job[t].at # "none" => InputsTrue(t)'
    <3>1. ASSUME job[t].at # "none", NEW f \in DOMAIN job[t].inp
          PROVE  Available(db', f) /\ job[t].inp[f] = db'.fhash[f]
      BY <2>1, <2>2, <3>1 DEF JobTrue, InputsTrue, JobInv
    <3> QED BY <2>1, <2>2, <2>5, <3>1 DEF JobTrue, InputsTrue
  <2>7. Inputs(db', t) = Inputs(db, t)
    BY <2>4 DEF Inputs, DynInputs
  <2>8. Complete(t) => Complete(t)'
    BY <2>2, <2>4, <2>5 DEF Complete
  <2>9. job[t].at = "run" => ReadTrue(t)'
    <3> SUFFICES ASSUME job[t].at = "run", NEW f \in DOMAIN job[t].read
                 PROVE  job[t].read[f] = disk'[f] \/ Remade(t, f)'
      BY <2>1 DEF JobTrue, ReadTrue
    <3>1. f \in Uses(t) /\ f \in File /\ (job[t].read[f] = disk[f] \/ Remade(t, f))
      BY <2>1, <2>5 DEF JobTrue, ReadTrue
    <3>2. (\A g \in Inp[t] : Available(db, g)) /\ (job[t].amended => Complete(t))
      BY <2>1 DEF JobTrue, InputsTrue
    <3>3. db.state[t] = "RUNNING"
      BY <2>1 DEF JobInv
    <3>4. CASE Remade(t, f)
      <4>1. Maker[f] \in Step
        BY <3>4, Makers DEF Remade
      <4>2. Maker[f] \in overlap'[t] \/ db'.hash[Maker[f]] = NoHash
        BY <1>3, <3>3, <3>4, <4>1 DEF Remade, Steady
      <4> QED BY <2>1, <3>4, <4>2 DEF Remade
    <3>5. CASE job[t].read[f] = disk[f] /\ disk'[f] # disk[f]
      <4>1. Maker[f] = s /\ ~Available(db, f) /\ db.hash[s] = NoHash
        BY <3>1, <3>5
      <4>2. f \in Dyn[t] /\ ~job[t].amended /\ f \in Products
        BY <3>1, <3>2, <4>1, Makers DEF Complete, Uses
      <4>3. s \in overlap'[t] \/ db'.hash[s] = NoHash
        BY <1>3, <3>3, <4>1
      <4> QED BY <2>1, <4>1, <4>2, <4>3 DEF Remade
    <3> QED BY <3>1, <3>4, <3>5
  <2>10. OutputsTrue(t)'
    <3>1. Complete(t) =>
            [g \in Uses(t) |-> db'.fhash[g]] = [g \in Uses(t) |-> db.fhash[g]]
      BY <2>2, <2>5 DEF Complete
    <3>2. [f \in Outputs(t) |-> db'.fhash[f]] = [f \in Outputs(t) |-> db.fhash[f]]
      BY <2>3
    <3>3. [f \in Outputs(t) |-> disk'[f]] = [f \in Outputs(t) |-> disk[f]]
      BY <2>3
    <3>4. {f \in Outputs(t) : disk'[f] # db'.fhash[f]} = {f \in Outputs(t) : disk[f] # db.fhash[f]}
      BY <2>3
    <3>5. OutputsTrue(t)
      BY <2>1 DEF JobTrue
    <3>6. job'[t].at \in Ending /\ job'[t].ok =>
            /\ Complete(t)'
            /\ \A f \in Outputs(t) : disk'[f] = Made(t, [g \in Uses(t) |-> db'.fhash[g]])
      BY <2>1, <2>3, <2>8, <3>1, <3>5 DEF OutputsTrue
    <3>7. job'[t].at \in {"hash", "settle"} /\ job'[t].ok => DOMAIN job'[t].inp = Uses(t)
      BY <2>1, <3>5 DEF OutputsTrue
    <3>8. /\ job'[t].at = "hash" => job'[t].out = [f \in Outputs(t) |-> db'.fhash[f]]
          /\ job'[t].at = "settle" =>
               /\ job'[t].out = [f \in Outputs(t) |-> disk'[f]]
               /\ job'[t].fresh = {f \in Outputs(t) : disk'[f] # db'.fhash[f]}
      BY <2>1, <3>2, <3>3, <3>4, <3>5 DEF OutputsTrue
    <3> QED BY <3>6, <3>7, <3>8 DEF OutputsTrue
  <2> QED BY <2>1, <2>4, <2>6, <2>7, <2>8, <2>9, <2>10 DEF JobTrue
<1> QED BY <1>1, <1>2, <1>3 DEF TrueInv

LEMMA AvailableOnDisk ==
  ASSUME IInv, TrueInv, mode = "build", NEW f \in File, Available(db, f)
  PROVE  disk[f] = db.fhash[f]
<1>1. changed = {} /\ Good(db, {})
  BY DEF IInv, TrueInv, OnRecord
<1> QED BY <1>1, AvailableMade DEF TrueInv, OnRecord

\* What is BUILT of the outputs of s is on disk.
LEMMA OutputsOnDisk ==
  ASSUME TrueInv, NEW s \in Step, NEW f \in Outputs(s), db.fstate[f] = "BUILT"
  PROVE  disk[f] = db.fhash[f]
BY Makers DEF TrueInv, OnRecord

\* Only the job changes.
LEMMA QuietTrue ==
  ASSUME IInv, TrueInv, mode = "build", NEW s \in Step,
         job' = [job EXCEPT ![s] = job'[s]], JobTrue(s)',
         UNCHANGED <<db, disk, mode, changed, overlap>>
  PROVE  TrueInv'
<1>1. Steady(db, db', s) /\ HashTrue(db', s) /\ HashCurrent(db', s)
  BY DEF Steady, TrueInv, Truth
<1>2. \A f \in Outputs(s) : db'.fstate[f] = "BUILT" => disk'[f] = db'.fhash[f]
  BY OutputsOnDisk
<1>3. Overlaps' /\ \A t \in Step \ {s} : overlap[t] \subseteq overlap'[t]
  BY DEF TrueInv, Overlaps
<1>4. \A f \in File : disk'[f] # disk[f] => Maker[f] = s /\ ~Available(db, f) /\ db.hash[s] = NoHash
  OBVIOUS
<1>5. db.hash[s] = NoHash =>
        db'.hash[s] = NoHash \/ \A t \in Step \ {s} : db.state[t] = "RUNNING" => s \in overlap'[t]
  OBVIOUS
<1> QED BY <1>1, <1>2, <1>3, <1>4, <1>5, TrueSteps

\* The job changes, and the database without files.
LEMMA ChangeTrue ==
  ASSUME IInv, TrueInv, mode = "build", NEW s \in Step,
         Steady(db, db', s), db'.fstate = db.fstate, db'.fhash = db.fhash,
         HashTrue(db', s), HashCurrent(db', s), db.hash[s] = NoHash => db'.hash[s] = NoHash,
         job' = [job EXCEPT ![s] = job'[s]], JobTrue(s)',
         Overlaps', \A t \in Step \ {s} : overlap[t] \subseteq overlap'[t],
         UNCHANGED <<disk, mode, changed>>
  PROVE  TrueInv'
<1>2. \A f \in Outputs(s) : db'.fstate[f] = "BUILT" => disk'[f] = db'.fhash[f]
  BY OutputsOnDisk
<1>4. \A f \in File : disk'[f] # disk[f] => Maker[f] = s /\ ~Available(db, f) /\ db.hash[s] = NoHash
  OBVIOUS
<1> QED BY <1>2, <1>4, TrueSteps

\* The job is done.
LEMMA EndTrue ==
  ASSUME IInv, TrueInv, mode = "build", NEW s \in Step, NEW e,
         Steady(db, e, s), HashTrue(e, s), HashCurrent(e, s),
         \A f \in Outputs(s) : e.fstate[f] = "BUILT" => disk[f] = e.fhash[f],
         Overlaps', \A t \in Step \ {s} : overlap[t] \subseteq overlap'[t],
         db.hash[s] = NoHash =>
           e.hash[s] = NoHash \/ \A t \in Step \ {s} : db.state[t] = "RUNNING" => s \in overlap'[t],
         db' = e, job' = [job EXCEPT ![s] = NoJob], UNCHANGED <<disk, mode, changed>>
  PROVE  TrueInv'
<1>1. job'[s] = NoJob /\ job' = [job EXCEPT ![s] = job'[s]]
  BY DEF IInv, Jobs
<1>2. JobTrue(s)'
  <2>1. job'[s].at = "none"
    BY <1>1 DEF NoJob
  <2> QED BY <2>1 DEF JobTrue, OutputsTrue, Ending
<1>3. \A f \in File : disk'[f] # disk[f] => Maker[f] = s /\ ~Available(db, f) /\ db.hash[s] = NoHash
  OBVIOUS
<1> QED BY <1>1, <1>2, <1>3, TrueSteps

LEMMA EndJobTrue ==
  ASSUME IInv, TrueInv, mode = "build", NEW s \in Step, NEW e,
         Steady(db, e, s), HashTrue(e, s), HashCurrent(e, s),
         \A f \in Outputs(s) : e.fstate[f] = "BUILT" => disk[f] = e.fhash[f],
         db.hash[s] = NoHash => e.hash[s] = NoHash, EndJob(s, e)
  PROVE  TrueInv'
<1>1. /\ db' = e /\ job' = [job EXCEPT ![s] = NoJob] /\ overlap' = overlap
      /\ UNCHANGED <<disk, mode, changed>>
  BY DEF EndJob, KeepTimes, KeepBuild
<1>2. Overlaps' /\ \A t \in Step \ {s} : overlap[t] \subseteq overlap'[t]
  BY <1>1 DEF TrueInv, Overlaps
<1> QED BY <1>1, <1>2, EndTrue

LEMMA SameJobs ==
  ASSUME NEW s \in Step, JobTrue(s), UNCHANGED <<db, disk, job, overlap>>
  PROVE  JobTrue(s)'
<1>1. Complete(s) => Complete(s)'
  BY DEF Complete
<1>2. InputsTrue(s) => InputsTrue(s)'
  BY DEF InputsTrue
<1>3. ReadTrue(s) => ReadTrue(s)'
  BY DEF ReadTrue, Remade
<1>4. OutputsTrue(s) => OutputsTrue(s)'
  BY <1>1 DEF OutputsTrue
<1> QED BY <1>1, <1>2, <1>3, <1>4 DEF JobTrue

LEMMA IdleTrue ==
  ASSUME NEW s \in Step, job'[s].at = "none"
  PROVE  JobTrue(s)'
BY DEF JobTrue, OutputsTrue, Ending

LEMMA RaiseTrue ==
  ASSUME TrueInv, mode = "build", Raise
  PROVE  TrueInv'
<1>1. mode' = "raised" /\ UNCHANGED <<db, disk, job, overlap, changed>>
  BY DEF Raise
<1>2. OnRecord' /\ Overlaps' /\ Truth(db', {})
  BY <1>1 DEF TrueInv, OnRecord, Overlaps
<1>3. \A s \in Step : JobTrue(s)'
  BY <1>1, SameJobs DEF TrueInv
<1> QED BY <1>2, <1>3 DEF TrueInv

RecordOf(d, r) ==
  /\ r = [f \in DOMAIN r |-> r[f]]
  /\ \A f \in DOMAIN r : Available(d, f) /\ r[f] = d.fhash[f]

LEMMA RecordedTrue ==
  ASSUME NEW d, NEW s \in Step
  PROVE  /\ RecordOf(d, Recorded(d, s))
         /\ DOMAIN Recorded(d, s) = {f \in Inputs(d, s) : Available(d, f)}
BY DEF Recorded, RecordOf

LEMMA PopTrue ==
  ASSUME IInv, TrueInv, NEW s \in Step, Pop(s)
  PROVE  TrueInv'
<1> DEFINE st == IF db.hash[s] # NoHash THEN "CHECKING" ELSE "RUNNING"
<1> DEFINE r == Recorded(db, s)
<1>1. /\ mode = "build" /\ Ready(db, s)
      /\ db' = SetStates(db, {s}, st) /\ disk' = disk
      /\ job' = [job EXCEPT ![s] = [NoJob EXCEPT !.at = "verify", !.inp = r]]
      /\ overlap' = [overlap EXCEPT ![s] = {}] /\ UNCHANGED <<mode, changed>>
  BY DEF Pop, Eligible, KeepBuild
<1>2. /\ Steady(db, db', s) /\ db'.hash = db.hash /\ db'.dynamic = db.dynamic /\ db'.state[s] = st
      /\ db'.fstate = db.fstate /\ db'.fhash = db.fhash
  <2>1. st \in StepState /\ Tables(db)
    BY DEF StepState, IInv, Good
  <2> HIDE DEF st
  <2> QED BY <1>1, <2>1, SetStateSteady
<1>3. HashTrue(db', s) /\ HashCurrent(db', s)
  <2>1. HashTrue(db, s)
    BY DEF TrueInv, Truth
  <2> QED BY <1>2, <2>1 DEF HashTrue, HashCurrent
<1>4. r = Recorded(db, s)
  OBVIOUS
<1> HIDE DEF r, st
<1>41. RecordOf(db, r)
  BY <1>4, RecordedTrue
<1>5. job'[s] = [NoJob EXCEPT !.at = "verify", !.inp = r] /\ job' = [job EXCEPT ![s] = job'[s]]
  BY <1>1 DEF IInv, Jobs
<1>6. job'[s].at = "verify" /\ job'[s].inp = r
  BY <1>5 DEF NoJob
<1>7. JobTrue(s)'
  <2>1. InputsTrue(s)'
    BY <1>1, <1>2, <1>41, <1>6 DEF InputsTrue, RecordOf, Ready, Available
  <2> QED BY <1>6, <2>1 DEF JobTrue, OutputsTrue, Ending
<1>8. Overlaps' /\ \A t \in Step \ {s} : overlap[t] \subseteq overlap'[t]
  BY <1>1 DEF TrueInv, Overlaps
<1> QED BY <1>1, <1>2, <1>3, <1>5, <1>7, <1>8, ChangeTrue

LEMMA VerifyTrue ==
  ASSUME IInv, TrueInv, NEW s \in Step, Verify(s)
  PROVE  TrueInv'
<1> DEFINE bad == {f \in DOMAIN job[s].inp : disk[f] # job[s].inp[f]}
<1> DEFINE to == IF bad # {} THEN "reject"
                 ELSE IF db.state[s] = "RUNNING" THEN "reset"
                 ELSE IF job[s].inp # db.hash[s][1] THEN "noskip"
                 ELSE IF DOMAIN job[s].inp # Inputs(db, s) THEN "valid" ELSE "outs"
<1> DEFINE read == [f \in bad |-> disk[f]]
<1> DEFINE j == [job[s] EXCEPT !.at = to, !.bad = bad, !.read = read]
<1>1. /\ mode = "build" /\ job[s].at = "verify" /\ job' = [job EXCEPT ![s] = j]
      /\ UNCHANGED <<db, disk, mode, changed, overlap>>
  BY DEF Verify, At, KeepTimes, KeepBuild
<1>2. /\ Shape(job[s]) /\ job'[s] = j /\ job' = [job EXCEPT ![s] = job'[s]]
      /\ JobInv(s)
  <2> HIDE DEF j
  <2> QED BY <1>1, AtFacts
<1>3. InputsTrue(s)
  BY <1>1 DEF TrueInv, JobTrue
<1>4. bad = {}
  <2>1. ASSUME NEW f \in DOMAIN job[s].inp
        PROVE  disk[f] = job[s].inp[f]
    <3>1. f \in File
      BY <1>1, <1>2 DEF JobInv
    <3> QED BY <1>1, <1>3, <3>1, AvailableOnDisk DEF InputsTrue
  <2> QED BY <2>1
<1>5. /\ to \in {"reset", "noskip", "valid", "outs"}
      /\ to = "outs" => job[s].inp = db.hash[s][1] /\ DOMAIN job[s].inp = Inputs(db, s)
  BY <1>4
<1>6. read = [f \in {} |-> disk[f]]
  BY <1>4
<1> HIDE DEF to, bad, read
<1>7. j.at = to /\ j.bad = bad /\ j.read = read /\ j.inp = job[s].inp
  BY <1>2 DEF Shape
<1> HIDE DEF j
<1>8. JobTrue(s)'
  <2>1. InputsTrue(s)'
    BY <1>1, <1>2, <1>3, <1>7 DEF InputsTrue
  <2> QED BY <1>1, <1>2, <1>4, <1>5, <1>6, <1>7, <2>1 DEF JobTrue, OutputsTrue, Ending
<1> QED BY <1>1, <1>2, <1>8, QuietTrue

LEMMA NoSkipTrue ==
  ASSUME IInv, TrueInv, NEW s \in Step, NoSkip(s) \/ StillValid(s)
  PROVE  TrueInv'
<1>1. mode = "build" /\ job[s].at \in {"noskip", "valid"}
  BY DEF NoSkip, StillValid, At
<1>2. s \in Busy(db) /\ Good(db, {}) /\ Tables(db)
  BY <1>1, AtFacts DEF IInv, Good
<1>3. CASE NoSkip(s)
  <2> DEFINE e == ResetToPending(db, s)
  <2>1. /\ Steady(db, e, s) /\ e.hash[s] = NoHash /\ e.state[s] = "PENDING"
        /\ e.fstate = db.fstate /\ e.fhash = db.fhash
    BY <1>2, ResetToPendingSteady
  <2>2. EndJob(s, e)
    BY <1>3 DEF NoSkip
  <2> HIDE DEF e
  <2>3. HashTrue(e, s) /\ HashCurrent(e, s)
    BY <2>1 DEF HashTrue, HashCurrent
  <2> QED BY <1>1, <2>1, <2>2, <2>3, OutputsOnDisk, EndJobTrue
<1>4. CASE StillValid(s)
  <2> DEFINE e == SetStates(db, {s}, "PENDING")
  <2>1. /\ Steady(db, e, s) /\ e.hash = db.hash /\ e.dynamic = db.dynamic
        /\ e.state[s] = "PENDING" /\ e.fstate = db.fstate /\ e.fhash = db.fhash
    <3>1. "PENDING" \in StepState
      BY DEF StepState
    <3> QED BY <1>2, <3>1, SetStateSteady
  <2>2. EndJob(s, e)
    BY <1>4 DEF StillValid
  <2> HIDE DEF e
  <2>3. HashTrue(e, s) /\ HashCurrent(e, s)
    <3>1. HashTrue(db, s)
      BY DEF TrueInv, Truth
    <3> QED BY <2>1, <3>1 DEF HashTrue, HashCurrent
  <2> QED BY <1>1, <2>1, <2>2, <2>3, OutputsOnDisk, EndJobTrue
<1> QED BY <1>3, <1>4

LEMMA TrySkipTrue ==
  ASSUME IInv, TrueInv, NEW s \in Step, TrySkip(s)
  PROVE  TrueInv'
<1> DEFINE out == [f \in Outputs(s) |-> disk[f]]
<1> DEFINE new == [f \in {g \in Outputs(s) : disk[g] # db.fhash[g]} |-> disk[f]]
<1>1. mode = "build" /\ job[s].at = "outs"
  BY DEF TrySkip, At
<1>2. s \in Busy(db) /\ Good(db, {}) /\ db.state[s] = "CHECKING"
  BY <1>1, AtFacts DEF IInv, JobInv
<1>3. CASE out # db.hash[s][2]
  <2> DEFINE e == ResetToPending(db, s)
  <2>1. /\ Steady(db, e, s) /\ e.hash[s] = NoHash /\ e.state[s] = "PENDING"
        /\ e.fstate = db.fstate /\ e.fhash = db.fhash
    BY <1>2, ResetToPendingSteady
  <2>2. EndJob(s, e)
    BY <1>3 DEF TrySkip
  <2> HIDE DEF e
  <2>3. HashTrue(e, s) /\ HashCurrent(e, s)
    BY <2>1 DEF HashTrue, HashCurrent
  <2> QED BY <1>1, <2>1, <2>2, <2>3, OutputsOnDisk, EndJobTrue
<1>4. CASE out = db.hash[s][2] /\ ~Expected(db, new, "SUCCEEDED")
  BY <1>1, <1>4, RaiseTrue DEF TrySkip
<1>5. CASE out = db.hash[s][2] /\ Expected(db, new, "SUCCEEDED")
  <2> DEFINE h == db.hash[s]
  <2> DEFINE e == MarkSucceeded(UpdateHashes(db, new, "SUCCEEDED"), s, h)
  <2>1. EndJob(s, e)
    BY <1>5 DEF TrySkip
  <2>2. h # NoHash /\ HashTrue(db, s)
    BY <1>2 DEF Good, Known, TrueInv, Truth
  <2>3. HashShape(s, h) /\ (s \in db.dynamic \/ Dyn[s] = {})
    BY <2>2 DEF HashTrue, HashShape
  <2>4. \A f \in Outputs(s) : disk[f] = Made(s, h[1])
    BY <1>5, <2>3 DEF HashShape
  <2>5. \A f \in Uses(s) : Available(db, f) /\ h[1][f] = db.fhash[f]
    <3>1. job[s].inp = h[1] /\ DOMAIN job[s].inp = Inputs(db, s) /\ InputsTrue(s)
      BY <1>1 DEF TrueInv, JobTrue
    <3>2. Inputs(db, s) = Uses(s)
      BY <2>3, UsesType
    <3> QED BY <3>1, <3>2 DEF InputsTrue
  <2>6. Truth(db, {})
    BY DEF TrueInv
  <2>61. new = [f \in {g \in Outputs(s) : disk[g] # db.fhash[g]} |-> disk[f]]
    OBVIOUS
  <2> HIDE DEF new, h, out
  <2>7. e = MarkSucceeded(UpdateHashes(db, new, "SUCCEEDED"), s, h)
    OBVIOUS
  <2> HIDE DEF e
  <2>8. /\ Steady(db, e, s) /\ HashTrue(e, s) /\ HashCurrent(e, s)
        /\ \A f \in Outputs(s) : e.fhash[f] = disk[f]
    BY <1>2, <1>5, <2>3, <2>4, <2>5, <2>6, <2>61, <2>7, SucceedTrue
  <2>9. db.hash[s] # NoHash
    BY <2>2 DEF h
  <2> QED BY <1>1, <2>1, <2>8, <2>9, EndJobTrue
<1> QED BY <1>3, <1>4, <1>5

LEMMA ResetTrue ==
  ASSUME IInv, TrueInv, NEW s \in Step, Reset(s)
  PROVE  TrueInv'
<1> DEFINE a == Dyn[s] = {}
<1> DEFINE j == [job[s] EXCEPT !.at = "run", !.amended = a]
<1>1. /\ mode = "build" /\ job[s].at = "reset" /\ db' = ResetForRerun(db, s)
      /\ job' = [job EXCEPT ![s] = j] /\ UNCHANGED <<disk, mode, changed, overlap>>
  BY DEF Reset, At, KeepTimes, KeepBuild
<1>2. /\ s \in Busy(db) /\ Shape(job[s]) /\ JobInv(s)
      /\ job'[s] = j /\ job' = [job EXCEPT ![s] = job'[s]]
  <2> HIDE DEF j
  <2> QED BY <1>1, AtFacts
<1>3. /\ Steady(db, db', s) /\ db'.hash = db.hash /\ db'.fstate = db.fstate
      /\ db'.fhash = db.fhash /\ db'.state = db.state
  BY <1>1, <1>2, ResetForRerunSteady DEF IInv
<1>4. db.state[s] = "RUNNING" /\ db.hash[s] = NoHash
  BY <1>1, <1>2 DEF JobInv, IInv, Good, Known
<1>5. a <=> Dyn[s] = {}
  OBVIOUS
<1> HIDE DEF a
<1>6. j.at = "run" /\ j.amended = a /\ j.inp = job[s].inp /\ j.read = job[s].read
  BY <1>2 DEF Shape
<1> HIDE DEF j
<1>7. InputsTrue(s) /\ job[s].read = [f \in {} |-> disk[f]]
  BY <1>1 DEF TrueInv, JobTrue
<1>8. JobTrue(s)'
  <2>1. InputsTrue(s)'
    BY <1>2, <1>3, <1>6, <1>7 DEF InputsTrue, Available
  <2>2. ReadTrue(s)'
    <3>1. DOMAIN job'[s].read = {} /\ job'[s].read = [f \in {} |-> disk[f]]
      BY <1>2, <1>6, <1>7
    <3>2. job'[s].read = [f \in DOMAIN job'[s].read |-> job'[s].read[f]]
      BY <3>1
    <3> QED BY <3>1, <3>2 DEF ReadTrue
  <2>3. a => Complete(s)'
    BY <1>5, <2>1 DEF Complete, InputsTrue, Uses
  <2> QED BY <1>2, <1>6, <2>1, <2>2, <2>3 DEF JobTrue, OutputsTrue, Ending
<1>9. HashTrue(db', s) /\ HashCurrent(db', s)
  BY <1>3, <1>4 DEF HashTrue, HashCurrent
<1>10. Overlaps' /\ \A t \in Step \ {s} : overlap[t] \subseteq overlap'[t]
  BY <1>1 DEF TrueInv, Overlaps
<1> QED BY <1>1, <1>2, <1>3, <1>8, <1>9, <1>10, ChangeTrue

LEMMA ReadStep ==
  ASSUME IInv, TrueInv, NEW s \in Step, Read(s) \/ Stumble(s)
  PROVE  TrueInv'
<1>1. /\ mode = "build" /\ job[s].at = "run" /\ UNCHANGED <<db, disk, mode, changed, overlap>>
  BY DEF Read, Stumble, At, KeepTimes, KeepBuild
<1>2. Shape(job[s]) /\ InputsTrue(s) /\ (job[s].amended => Complete(s))
  BY <1>1, AtFacts DEF TrueInv, JobTrue
<1>3. CASE Read(s)
  <2> DEFINE r == [f \in Uses(s) |-> disk[f]]
  <2> DEFINE j == [job[s] EXCEPT !.read = r]
  <2>1. job' = [job EXCEPT ![s] = j]
    BY <1>3 DEF Read, Uses, IInv, Jobs
  <2>2. job'[s] = j /\ job' = [job EXCEPT ![s] = job'[s]]
    <3> HIDE DEF j
    <3> QED BY <1>1, <2>1, AtFacts
  <2>3. r = [f \in DOMAIN r |-> r[f]] /\ DOMAIN r = Uses(s) /\ \A f \in DOMAIN r : r[f] = disk[f]
    OBVIOUS
  <2> HIDE DEF r
  <2>4. j.at = "run" /\ j.amended = job[s].amended /\ j.inp = job[s].inp /\ j.read = r
    BY <1>1, <1>2 DEF Shape
  <2> HIDE DEF j
  <2>5. JobTrue(s)'
    <3>1. InputsTrue(s)'
      BY <1>1, <1>2, <2>2, <2>4 DEF InputsTrue
    <3>2. ReadTrue(s)'
      BY <1>1, <2>2, <2>3, <2>4 DEF ReadTrue
    <3>3. job'[s].amended => Complete(s)'
      BY <1>1, <1>2, <2>2, <2>4 DEF Complete
    <3> QED BY <2>2, <2>4, <3>1, <3>2, <3>3 DEF JobTrue, OutputsTrue, Ending
  <2> QED BY <1>1, <2>2, <2>5, QuietTrue
<1>4. CASE Stumble(s)
  <2> DEFINE j == [job[s] EXCEPT !.at = "collect", !.ok = FALSE]
  <2>1. job' = [job EXCEPT ![s] = j]
    BY <1>4 DEF Stumble, IInv, Jobs
  <2>2. job'[s] = j /\ job' = [job EXCEPT ![s] = job'[s]]
    <3> HIDE DEF j
    <3> QED BY <1>1, <2>1, AtFacts
  <2>3. j.at = "collect" /\ ~j.ok /\ j.inp = job[s].inp
    BY <1>2 DEF Shape
  <2> HIDE DEF j
  <2>4. JobTrue(s)'
    <3>1. InputsTrue(s)'
      BY <1>1, <1>2, <2>2, <2>3 DEF InputsTrue
    <3> QED BY <2>2, <2>3, <3>1 DEF JobTrue, OutputsTrue
  <2> QED BY <1>1, <2>2, <2>4, QuietTrue
<1> QED BY <1>3, <1>4

LEMMA EmptyRead ==
  ASSUME NEW r, r = [f \in DOMAIN r |-> r[f]], DOMAIN r = {}
  PROVE  r = <<>>
OBVIOUS

LEMMA WriteTrue ==
  ASSUME IInv, TrueInv, NEW s \in Step, Write(s)
  PROVE  TrueInv'
<1> DEFINE j == [job[s] EXCEPT !.at = "collect"]
<1>1. /\ mode = "build" /\ job[s].at = "run" /\ HasRead(s) /\ job[s].amended
      /\ disk' = [f \in File |-> IF Maker[f] = s THEN Made(s, job[s].read) ELSE disk[f]]
      /\ job' = [job EXCEPT ![s] = j] /\ UNCHANGED <<db, mode, changed, overlap>>
  BY DEF Write, At, KeepTimes, KeepBuild, IInv, Jobs
<1>2. /\ s \in Busy(db) /\ Shape(job[s]) /\ JobInv(s)
      /\ job'[s] = j /\ job' = [job EXCEPT ![s] = job'[s]]
  <2> HIDE DEF j
  <2> QED BY <1>1, AtFacts
<1>3. /\ InputsTrue(s) /\ Complete(s) /\ ReadTrue(s) /\ Good(db, {})
  BY <1>1 DEF TrueInv, JobTrue, IInv
<1>4. db.state[s] = "RUNNING" /\ db.hash[s] = NoHash
  BY <1>1, <1>2, <1>3 DEF JobInv, Good, Known
<1>5. j.at = "collect" /\ j.inp = job[s].inp
  BY <1>2 DEF Shape
<1> HIDE DEF j
<1>6. DOMAIN job[s].read = Uses(s)
  <2>1. CASE DOMAIN job[s].read = {}
    BY <1>1, <1>3, <2>1, EmptyRead DEF ReadTrue, HasRead, Uses
  <2> QED BY <1>3, <2>1 DEF ReadTrue
<1>7. job[s].read = [g \in Uses(s) |-> db.fhash[g]]
  <2>1. \A f \in Uses(s) : job[s].read[f] = db.fhash[f]
    <3> SUFFICES ASSUME NEW f \in Uses(s) PROVE job[s].read[f] = db.fhash[f]
      OBVIOUS
    <3>1. f \in File /\ Available(db, f)
      BY <1>3, UsesType DEF Complete
    <3>2. job[s].read[f] = disk[f]
      BY <1>1, <1>3, <1>6 DEF ReadTrue, Remade
    <3> QED BY <1>1, <3>1, <3>2, AvailableOnDisk
  <2>2. job[s].read = [f \in DOMAIN job[s].read |-> job[s].read[f]]
    BY <1>3 DEF ReadTrue
  <2> QED BY <1>6, <2>1, <2>2
<1>8. \A f \in Outputs(s) : disk'[f] = Made(s, job[s].read) /\ ~Available(db, f) /\ f \in File
  BY <1>1, <1>2, <1>3, BusyOutputs DEF Outputs
<1>9. JobTrue(s)'
  <2>1. InputsTrue(s)'
    BY <1>1, <1>2, <1>3, <1>5 DEF InputsTrue
  <2>2. Complete(s)'
    BY <1>1, <1>3 DEF Complete
  <2>3. \A f \in Outputs(s) : disk'[f] = Made(s, [g \in Uses(s) |-> db'.fhash[g]])
    BY <1>1, <1>7, <1>8
  <2> QED BY <1>2, <1>5, <2>1, <2>2, <2>3 DEF JobTrue, OutputsTrue
<1>10. Steady(db, db', s) /\ HashTrue(db', s) /\ HashCurrent(db', s)
  BY <1>1, <1>4 DEF Steady, HashTrue, HashCurrent
<1>11. Overlaps' /\ \A t \in Step \ {s} : overlap[t] \subseteq overlap'[t]
  BY <1>1 DEF TrueInv, Overlaps
<1>12. \A f \in File : disk'[f] # disk[f] => Maker[f] = s /\ ~Available(db, f) /\ db.hash[s] = NoHash
  BY <1>1, <1>4, <1>8 DEF Outputs
<1>13. \A f \in Outputs(s) : db'.fstate[f] # "BUILT"
  BY <1>1, <1>8 DEF Available
<1>14. db'.hash[s] = NoHash
  BY <1>1, <1>4
<1> QED BY <1>1, <1>2, <1>9, <1>10, <1>11, <1>12, <1>13, <1>14, TrueSteps

LEMMA AmendTrue ==
  ASSUME IInv, TrueInv, NEW s \in Step, Amend(s)
  PROVE  TrueInv'
<1> DEFINE D == db.dynamic \cup {s}
<1> DEFINE unavailable == {f \in Dyn[s] : ~Available(db, f)}
<1> DEFINE unfresh == {f \in Dyn[s] : db.fstate[f] = "BUILT" /\ Maker[f] \in overlap[s]}
<1> DEFINE w == unavailable \cup unfresh # {}
<1> DEFINE to == IF w THEN "collect" ELSE "run"
<1> DEFINE okay == ~w
<1> DEFINE yes == TRUE
<1> DEFINE j == [job[s] EXCEPT !.amended = yes, !.wait = w, !.ok = okay, !.at = to]
<1>1. /\ mode = "build" /\ job[s].at = "run" /\ db' = [db EXCEPT !.dynamic = D]
      /\ ~job[s].amended
      /\ job' = [job EXCEPT ![s] = j] /\ UNCHANGED <<disk, mode, changed, overlap>>
  BY DEF Amend, At, KeepTimes, KeepBuild, IInv, Jobs
<1>2. /\ s \in Busy(db) /\ Shape(job[s]) /\ JobInv(s)
      /\ job'[s] = j /\ job' = [job EXCEPT ![s] = job'[s]]
  <2> HIDE DEF j
  <2> QED BY <1>1, AtFacts
<1>3. InputsTrue(s) /\ ReadTrue(s) /\ Good(db, {}) /\ Tables(db)
  BY <1>1 DEF TrueInv, JobTrue, IInv, Good
<1>4. db.state[s] = "RUNNING" /\ db.hash[s] = NoHash
  BY <1>1, <1>2, <1>3 DEF JobInv, Good, Known
<1>5. /\ ~w => \A f \in Dyn[s] : /\ Available(db, f)
                                /\ ~(db.fstate[f] = "BUILT" /\ Maker[f] \in overlap[s])
      /\ w => to = "collect" /\ ~okay
      /\ ~w => to = "run"
      /\ okay \in BOOLEAN /\ w \in BOOLEAN
  OBVIOUS
<1>6. s \in D /\ D \in SUBSET Step /\ \A t \in Step \ {s} : t \in D <=> t \in db.dynamic
  BY <1>3 DEF Tables
<1> HIDE DEF D, unavailable, unfresh, w, to, okay
<1>7. /\ db'.state = db.state /\ db'.fstate = db.fstate /\ db'.fhash = db.fhash
      /\ db'.hash = db.hash /\ db'.dynamic = D
  BY <1>1, <1>3 DEF Tables
<1>8. j.at = to /\ j.amended /\ (j.ok <=> okay) /\ j.inp = job[s].inp /\ j.read = job[s].read
  <2>1. /\ j.at = to /\ j.amended = yes /\ j.inp = job[s].inp /\ j.read = job[s].read
        /\ j.ok = okay
    <3> HIDE DEF yes
    <3> QED BY <1>2 DEF Shape
  <2> QED BY <2>1
<1> HIDE DEF j, yes
<1>9. InputsTrue(s)'
  BY <1>2, <1>3, <1>7, <1>8 DEF InputsTrue, Available
<1>10. ASSUME ~w
       PROVE  JobTrue(s)'
  <2>1. Complete(s)'
    <3>1. \A f \in Uses(s) : Available(db, f)
      BY <1>3, <1>5, <1>10 DEF Uses, InputsTrue
    <3> QED BY <1>6, <1>7, <3>1 DEF Complete, Available
  <2>2. ASSUME NEW f \in DOMAIN job[s].read
        PROVE  job[s].read[f] = disk[f]
    <3> SUFFICES ASSUME Remade(s, f) PROVE FALSE
      BY <1>3 DEF ReadTrue
    <3>1. /\ f \in Products /\ f \in Dyn[s] /\ Available(db, f)
          /\ ~(db.fstate[f] = "BUILT" /\ Maker[f] \in overlap[s])
      BY <1>5, <1>10 DEF Remade
    <3>2. f \in File /\ f \notin StaticFiles /\ Maker[f] \in Step
      BY <3>1, Makers DEF Products
    <3>3. db.fstate[f] = "BUILT" /\ db.state[Maker[f]] = "SUCCEEDED"
      BY <1>3, <3>1, <3>2, AvailableMade
    <3> QED BY <1>3, <3>1, <3>2, <3>3 DEF Remade, Good, Known
  <2>3. ReadTrue(s)'
    <3>1. job'[s].read = job[s].read
      BY <1>2, <1>8
    <3> QED BY <1>1, <1>3, <2>2, <3>1 DEF ReadTrue
  <2> QED BY <1>2, <1>5, <1>8, <1>9, <1>10, <2>1, <2>3 DEF JobTrue, OutputsTrue, Ending
<1>11. ASSUME w
       PROVE  JobTrue(s)'
  BY <1>2, <1>5, <1>8, <1>9, <1>11 DEF JobTrue, OutputsTrue
<1>12. Steady(db, db', s) /\ HashTrue(db', s) /\ HashCurrent(db', s)
  BY <1>4, <1>6, <1>7 DEF Steady, HashTrue, HashCurrent
<1>13. Overlaps' /\ \A t \in Step \ {s} : overlap[t] \subseteq overlap'[t]
  BY <1>1 DEF TrueInv, Overlaps
<1> QED BY <1>1, <1>2, <1>4, <1>7, <1>10, <1>11, <1>12, <1>13, ChangeTrue

LEMMA CollectTrue ==
  ASSUME IInv, TrueInv, NEW s \in Step, Collect(s)
  PROVE  TrueInv'
<1> DEFINE out == [f \in Outputs(s) |-> db.fhash[f]]
<1> DEFINE inp == Recorded(db, s)
<1> DEFINE j == [job[s] EXCEPT !.at = "hash", !.inp = inp, !.read = <<>>, !.out = out]
<1>1. /\ mode = "build" /\ job[s].at = "collect" /\ job' = [job EXCEPT ![s] = j]
      /\ UNCHANGED <<db, disk, mode, changed, overlap>>
  BY DEF Collect, At, KeepTimes, KeepBuild, IInv, Jobs
<1>2. /\ s \in Busy(db) /\ Shape(job[s]) /\ JobInv(s)
      /\ job'[s] = j /\ job' = [job EXCEPT ![s] = job'[s]]
  <2> HIDE DEF j
  <2> QED BY <1>1, AtFacts
<1>3. RecordOf(db, inp) /\ DOMAIN inp = {f \in Inputs(db, s) : Available(db, f)}
  BY RecordedTrue
<1>4. out = [f \in Outputs(s) |-> db.fhash[f]]
  OBVIOUS
<1> HIDE DEF inp, out
<1>5. j.at = "hash" /\ j.inp = inp /\ j.out = out /\ j.ok = job[s].ok
  BY <1>2 DEF Shape
<1> HIDE DEF j
<1>6. InputsTrue(s) /\ OutputsTrue(s)
  BY <1>1 DEF TrueInv, JobTrue
<1>7. InputsTrue(s)'
  BY <1>1, <1>2, <1>3, <1>5, <1>6 DEF InputsTrue, RecordOf
<1>8. OutputsTrue(s)'
  <2>1. job[s].ok => /\ Complete(s) /\ DOMAIN inp = Uses(s)
                     /\ \A f \in Outputs(s) : disk[f] = Made(s, [g \in Uses(s) |-> db.fhash[g]])
    <3>1. job[s].ok => /\ Complete(s)
                       /\ \A f \in Outputs(s) : disk[f] = Made(s, [g \in Uses(s) |-> db.fhash[g]])
      BY <1>1, <1>6 DEF OutputsTrue, Ending
    <3>2. Complete(s) => DOMAIN inp = Uses(s)
      BY <1>3, UsesType DEF Complete
    <3> QED BY <3>1, <3>2
  <2>2. Complete(s) => Complete(s)'
    BY <1>1 DEF Complete
  <2>3. \A f \in Outputs(s) : disk[f] = Made(s, [g \in Uses(s) |-> db.fhash[g]]) =>
          disk'[f] = Made(s, [g \in Uses(s) |-> db'.fhash[g]])
    BY <1>1
  <2> QED BY <1>1, <1>2, <1>4, <1>5, <2>1, <2>2, <2>3 DEF OutputsTrue
<1>9. JobTrue(s)'
  BY <1>2, <1>5, <1>7, <1>8 DEF JobTrue
<1> QED BY <1>1, <1>2, <1>9, QuietTrue

LEMMA HashFilesTrue ==
  ASSUME IInv, TrueInv, NEW s \in Step, HashFiles(s)
  PROVE  TrueInv'
<1> DEFINE bad == {f \in DOMAIN job[s].inp : disk[f] # job[s].inp[f]}
<1> DEFINE lost == \E f \in Outputs(s) : disk[f] = Absent
<1> DEFINE read == [f \in bad |-> disk[f]]
<1> DEFINE out == [f \in Outputs(s) |-> disk[f]]
<1> DEFINE fresh == {f \in Outputs(s) : disk[f] # job[s].out[f]}
<1> DEFINE good == job[s].ok /\ bad = {} /\ ~lost
<1> DEFINE j == [job[s] EXCEPT !.at = "settle", !.bad = bad, !.read = read, !.out = out,
                               !.fresh = fresh, !.ok = good]
<1>1. /\ mode = "build" /\ job[s].at = "hash" /\ job' = [job EXCEPT ![s] = j]
      /\ UNCHANGED <<db, disk, mode, changed, overlap>>
  BY DEF HashFiles, At, KeepTimes, KeepBuild, IInv, Jobs
<1>2. /\ s \in Busy(db) /\ Shape(job[s]) /\ JobInv(s)
      /\ job'[s] = j /\ job' = [job EXCEPT ![s] = job'[s]]
  <2> HIDE DEF j
  <2> QED BY <1>1, AtFacts
<1>3. InputsTrue(s) /\ OutputsTrue(s)
  BY <1>1 DEF TrueInv, JobTrue
<1>4. bad = {}
  <2>1. ASSUME NEW f \in DOMAIN job[s].inp
        PROVE  disk[f] = job[s].inp[f]
    <3>1. f \in File
      BY <1>1, <1>2 DEF JobInv
    <3> QED BY <1>1, <1>3, <3>1, AvailableOnDisk DEF InputsTrue
  <2> QED BY <2>1
<1>5. job[s].out = [f \in Outputs(s) |-> db.fhash[f]]
  BY <1>1, <1>3 DEF OutputsTrue
<1>6. /\ out = [f \in Outputs(s) |-> disk[f]]
      /\ fresh = {f \in Outputs(s) : disk[f] # db.fhash[f]} /\ (good => job[s].ok)
  BY <1>5
<1> HIDE DEF bad, read, out, fresh, good, lost
<1>7. j.at = "settle" /\ j.inp = job[s].inp /\ j.bad = bad /\ j.out = out /\ j.fresh = fresh /\ j.ok = good
  BY <1>2 DEF Shape
<1> HIDE DEF j
<1>8. InputsTrue(s)'
  BY <1>1, <1>2, <1>3, <1>7 DEF InputsTrue
<1>9. OutputsTrue(s)'
  <2>1. job[s].ok => /\ Complete(s) /\ DOMAIN job[s].inp = Uses(s)
                     /\ \A f \in Outputs(s) : disk[f] = Made(s, [g \in Uses(s) |-> db.fhash[g]])
    BY <1>1, <1>3 DEF OutputsTrue, Ending
  <2>2. Complete(s) => Complete(s)'
    BY <1>1 DEF Complete
  <2>3. \A f \in Outputs(s) : disk[f] = Made(s, [g \in Uses(s) |-> db.fhash[g]]) =>
          disk'[f] = Made(s, [g \in Uses(s) |-> db'.fhash[g]])
    BY <1>1
  <2>4. job'[s].ok => job[s].ok
    BY <1>2, <1>6, <1>7
  <2>5. /\ job'[s].out = [f \in Outputs(s) |-> disk'[f]]
        /\ job'[s].fresh = {f \in Outputs(s) : disk'[f] # db'.fhash[f]}
    BY <1>1, <1>2, <1>6, <1>7
  <2> QED BY <1>2, <1>7, <2>1, <2>2, <2>3, <2>4, <2>5 DEF OutputsTrue
<1>10. JobTrue(s)'
  BY <1>2, <1>4, <1>7, <1>8, <1>9 DEF JobTrue
<1> QED BY <1>1, <1>2, <1>10, QuietTrue

LEMMA SettleTrue ==
  ASSUME IInv, TrueInv, NEW s \in Step, Settle(s)
  PROVE  TrueInv'
<1> DEFINE j == job[s]
<1> DEFINE badHashes == [f \in j.bad |-> j.read[f]]
<1> DEFINE judged == IF j.bad = {} THEN db ELSE UpdateHashes(db, badHashes, "FAILED")
<1> DEFINE new == [f \in j.fresh |-> j.out[f]]
<1> DEFINE cause == IF j.ok THEN "SUCCEEDED" ELSE "FAILED"
<1> DEFINE stored == UpdateHashes(judged, new, cause)
<1> DEFINE h == <<j.inp, j.out>>
<1> DEFINE late == j.wait /\ j.bad = {}
<1> DEFINE e == IF j.ok THEN MarkSucceeded(stored, s, h) ELSE MarkUnsuccessful(stored, s, late)
<1>1. mode = "build" /\ j.at = "settle"
  BY DEF Settle, At
<1>2. CASE ~Expected(db, badHashes, "FAILED") \/ ~Expected(judged, new, cause)
  BY <1>1, <1>2, RaiseTrue DEF Settle
<1>3. CASE Expected(db, badHashes, "FAILED") /\ Expected(judged, new, cause)
  <2>1. /\ db' = e /\ job' = [job EXCEPT ![s] = NoJob] /\ UNCHANGED <<disk, mode, changed>>
        /\ overlap' = [t \in Step |-> IF t = s THEN {}
                         ELSE IF j.ok /\ db.state[t] = "RUNNING" THEN overlap[t] \cup {s}
                         ELSE overlap[t]]
    BY <1>3 DEF Settle, KeepBuild
  <2>2. s \in Busy(db) /\ JobInv(s) /\ Shape(j)
    BY <1>1, AtFacts
  <2>3. InputsTrue(s) /\ OutputsTrue(s) /\ j.bad = {}
    BY <1>1 DEF TrueInv, JobTrue
  <2>4. judged = db
    BY <2>3
  <2>5. Good(db, {}) /\ Truth(db, {}) /\ db.hash[s] = NoHash
    <3>1. db.state[s] = "RUNNING" /\ Good(db, {})
      BY <1>1, <2>2 DEF JobInv, IInv
    <3> QED BY <3>1 DEF Good, Known, TrueInv
  <2>6. new = [f \in {g \in Outputs(s) : disk[g] # db.fhash[g]} |-> disk[f]]
    <3>1. /\ j.out = [f \in Outputs(s) |-> disk[f]]
          /\ j.fresh = {f \in Outputs(s) : disk[f] # db.fhash[f]}
      BY <1>1, <2>3 DEF OutputsTrue
    <3> QED BY <3>1
  <2>7. DOMAIN new \subseteq Outputs(s) /\ \A f \in DOMAIN new : new[f] # Absent
    BY <1>1, <2>2 DEF JobInv
  <2>8. Overlaps' /\ \A t \in Step \ {s} : overlap[t] \subseteq overlap'[t]
    BY <2>1 DEF Overlaps
  <2>9. CASE j.ok
    <3>1. e = MarkSucceeded(UpdateHashes(db, new, "SUCCEEDED"), s, h)
      BY <2>4, <2>9
    <3>2. Expected(db, new, "SUCCEEDED")
      BY <1>3, <2>4, <2>9
    <3>3. /\ Complete(s) /\ DOMAIN j.inp = Uses(s) /\ j.out = [f \in Outputs(s) |-> disk[f]]
          /\ \A f \in Outputs(s) : disk[f] = Made(s, [g \in Uses(s) |-> db.fhash[g]])
      BY <1>1, <2>3, <2>9 DEF OutputsTrue, Ending
    <3>4. \A f \in Uses(s) : Available(db, f) /\ j.inp[f] = db.fhash[f]
      BY <2>3, <3>3 DEF InputsTrue
    <3>5. j.inp = [g \in Uses(s) |-> db.fhash[g]]
      <4>1. j.inp = [f \in DOMAIN j.inp |-> j.inp[f]]
        BY <2>3 DEF InputsTrue
      <4> QED BY <3>3, <3>4, <4>1
    <3>6. h # NoHash /\ h[1] = j.inp /\ h[2] = j.out
      BY DEF NoHash
    <3> HIDE DEF h
    <3>7. HashShape(s, h)
      BY <3>3, <3>5, <3>6 DEF HashShape
    <3>8. /\ \A f \in Outputs(s) : disk[f] = Made(s, h[1])
          /\ \A f \in Uses(s) : Available(db, f) /\ h[1][f] = db.fhash[f]
          /\ s \in db.dynamic \/ Dyn[s] = {}
      BY <3>3, <3>4, <3>5, <3>6 DEF Complete
    <3> HIDE DEF e, new, j
    <3>9. /\ Steady(db, e, s) /\ HashTrue(e, s) /\ HashCurrent(e, s)
          /\ \A f \in Outputs(s) : e.fhash[f] = disk[f]
      BY <2>2, <2>5, <2>6, <3>1, <3>2, <3>7, <3>8, SucceedTrue
    <3>10. \A t \in Step \ {s} : db.state[t] = "RUNNING" => s \in overlap'[t]
      BY <2>1, <2>9
    <3> QED BY <1>1, <2>1, <2>8, <3>9, <3>10, EndTrue
  <2>10. CASE ~j.ok
    <3> DEFINE u == UpdateHashes(db, new, "FAILED")
    <3>1. e = MarkUnsuccessful(u, s, late)
      BY <2>4, <2>10
    <3>2. Expected(db, new, "FAILED")
      BY <1>3, <2>4, <2>10
    <3>3. late \in BOOLEAN
      OBVIOUS
    <3>4. "FAILED" \in {"SUCCEEDED", "FAILED"} /\ Truth(db, {s}) /\ DOMAIN new \subseteq File
      BY <2>5, <2>7 DEF Truth, Outputs
    <3> HIDE DEF new, late, e
    <3>5. Steady(db, u, s) /\ \A f \in Outputs(s) : u.fstate[f] # "BUILT"
      BY <2>2, <2>5, <2>7, <3>2, <3>4, UpdateOwnHashes
    <3>6. Good(u, {}) /\ Spares(db, u, {})
      BY <2>5, <2>7, <3>2, <3>4, FailHashesGood
    <3>7. s \in Busy(u)
      BY <2>2, <3>6 DEF Spares, Busy
    <3> HIDE DEF u
    <3>8. /\ Steady(u, e, s) /\ e.hash[s] = NoHash /\ e.state[s] # "SUCCEEDED"
          /\ e.fstate = u.fstate /\ e.fhash = u.fhash
      BY <3>1, <3>3, <3>6, <3>7, MarkUnsuccessfulSteady
    <3>9. Steady(db, e, s) /\ HashTrue(e, s) /\ HashCurrent(e, s)
      BY <3>5, <3>8, SteadyTwice DEF HashTrue, HashCurrent
    <3> QED BY <1>1, <2>1, <2>8, <3>5, <3>8, <3>9, EndTrue
  <2> QED BY <2>9, <2>10
<1> QED BY <1>2, <1>3
-----------------------------------------------------------------------------
(***************************************************************************)
(* Between the jobs, and between the builds.                               *)
(***************************************************************************)
LEMMA DrainTrue ==
  ASSUME TrueInv, Drain
  PROVE  TrueInv'
<1>1. UNCHANGED <<db, disk, job, mode, overlap, changed>>
  BY DEF Drain
<1>2. OnRecord' /\ Overlaps' /\ Truth(db', {})
  BY <1>1 DEF TrueInv, OnRecord, Overlaps
<1> QED BY <1>1, <1>2, SameJobs DEF TrueInv

LEMMA EndBuildTrue ==
  ASSUME TrueInv, EndBuild
  PROVE  TrueInv'
<1>1. /\ mode = "build" /\ mode' = "watch" /\ overlap' = [s \in Step |-> {}]
      /\ \A s \in Step : job'[s].at = "none"
      /\ UNCHANGED <<db, disk, changed>>
  BY DEF EndBuild
<1>2. OnRecord' /\ Overlaps' /\ Truth(db', {})
  BY <1>1 DEF TrueInv, OnRecord, Overlaps
<1> QED BY <1>1, <1>2, IdleTrue DEF TrueInv

LEMMA EndWatchTrue ==
  ASSUME IInv, TrueInv, EndWatch
  PROVE  TrueInv'
<1> DEFINE failed == {s \in Step : db.state[s] = "FAILED"}
<1>1. /\ mode = "watch" /\ mode' = "rescan" /\ db' = MarkPending(db, failed)
      /\ changed' = {f \in changed : disk[f] # db.fhash[f]}
      /\ UNCHANGED <<disk, job, overlap>>
  BY DEF EndWatch
<1>2. failed \in SUBSET Step
  OBVIOUS
<1> HIDE DEF failed
<1>3. \A s \in Step : job'[s].at = "none"
  BY <1>1 DEF IInv, Modes
<1>4. Tables(db) /\ Known(db) /\ Busy(db) = {}
  BY <1>1 DEF IInv, Good, Modes, Jobs, JobInv, Busy
<1>5. db'.fhash = db.fhash /\ \A f \in File : Ages(db, db', f)
  BY <1>1, <1>2, <1>4, MarkPendingAges
<1>6. Truth(db', {})
  <2>1. Truth(db, failed)
    BY DEF TrueInv, Truth
  <2> QED BY <1>1, <1>2, <1>4, <2>1, MarkPendingTrue
<1>7. Overlaps'
  BY <1>1 DEF TrueInv, Overlaps
<1>8. OnRecord'
  BY <1>1, <1>5 DEF TrueInv, OnRecord, StaticFiles, Products, Ages
<1> QED BY <1>3, <1>6, <1>7, <1>8, IdleTrue DEF TrueInv

LEMMA StartBuildTrue ==
  ASSUME IInv, TrueInv, StartBuild
  PROVE  TrueInv'
<1>1. \A s \in Step : job'[s].at = "none"
  BY DEF StartBuild, IInv, Modes
<1>2. Overlaps' /\ Truth(db', {}) /\ OnRecord'
  BY DEF StartBuild, TrueInv, Overlaps, OnRecord
<1> QED BY <1>1, <1>2, IdleTrue DEF TrueInv

LEMMA RescanTrue ==
  ASSUME IInv, TrueInv, NEW f \in File, Rescan(f)
  PROVE  TrueInv'
<1> DEFINE new == [g \in {f} |-> disk[g]]
<1> DEFINE rule == Rules(db, new, "EXTERNAL")
<1> DEFINE d1 == StoreHashes(db, new, rule)
<1> DEFINE S == FollowUps(db, rule)
<1>1. /\ mode = "rescan" /\ mode' = "rescan" /\ f \in changed /\ changed' = changed \ {f}
      /\ UNCHANGED <<disk, overlap>> /\ db' = UpdateHashes(db, new, "EXTERNAL")
      /\ \A s \in Step : job'[s].at = "none"
  BY DEF Rescan, IInv, Modes
<1>2. db' = MarkPending(d1, S) /\ S \in SUBSET Step /\ DOMAIN rule = {f} /\ DOMAIN new = {f}
  <2>1. db' = MarkPending(d1, S)
    BY <1>1 DEF UpdateHashes
  <2>2. S \in SUBSET Step
    BY DEF FollowUps, Consumers
  <2> QED BY <2>1, <2>2 DEF Rules
<1>3. Expected(db, new, "EXTERNAL") /\ new[f] = disk[f]
  <2>1. new = [g \in {f} |-> disk[g]] /\ new[f] = disk[f]
    OBVIOUS
  <2> HIDE DEF new
  <2> QED BY <1>1, <2>1, RescanExpected
<1> DEFINE row == rule[f]
<1>4. row \in Transitions /\ row[1] = "EXTERNAL" /\ row[2] = db.fstate[f] /\ row[3] = (disk[f] # Absent)
  <2> HIDE DEF new
  <2> QED BY <1>2, <1>3, RowTaken
<1>5. S = ({Maker[g] : g \in {h \in {f} : rule[h][5] \in {"updated", "deleted"}
                                          /\ rule[h][4] \in {"PLANNED", "OUTDATED"}}} \cap Step)
          \cup Consumers(db, {h \in {f} : ActsOnConsumers(rule[h][5], rule[h][4])})
  BY <1>2 DEF FollowUps
<1>6. Tables(db) /\ Known(db) /\ Good(db, {})
  BY DEF IInv, Good
<1>7. /\ row[4] \in FileState
      /\ f \in StaticFiles => /\ row[4] = IF disk[f] # Absent THEN "CONFIRMED" ELSE "MISSING"
                              /\ row[5] = IF disk[f] # Absent THEN "updated" ELSE "deleted"
      /\ f \notin StaticFiles => row[4] \in {"PLANNED", "OUTDATED"}
  <2>1. f \in StaticFiles <=> row[2] \in {"CONFIRMED", "MISSING"}
    BY <1>4, <1>6 DEF Good, Files
  <2> HIDE DEF row
  <2> QED BY <1>4, <2>1, TableRows
<1>8. /\ Tables(d1) /\ d1.state = db.state /\ d1.dynamic = db.dynamic /\ d1.hash = db.hash
      /\ d1.fstate = [g \in File |-> IF g \in {f} THEN rule[g][4] ELSE db.fstate[g]]
      /\ d1.fhash = [g \in File |-> IF g \in {f} THEN StoredHash(rule[g][4], new[g]) ELSE db.fhash[g]]
  <2>1. \A g \in DOMAIN new : rule[g][4] \in FileState
    BY <1>2, <1>7
  <2> HIDE DEF new, rule
  <2> QED BY <1>2, <1>6, <2>1, StoreHashesTables
<1>9. /\ d1.fstate = [g \in File |-> IF g = f THEN row[4] ELSE db.fstate[g]]
      /\ \A g \in File : g # f => d1.fhash[g] = db.fhash[g]
      /\ d1.fhash[f] = StoredHash(row[4], disk[f])
  BY <1>3, <1>8
<1>10. f \in StaticFiles => Consumers(db, {f}) \subseteq S
  <2>1. f \in StaticFiles => ActsOnConsumers(row[5], row[4])
    BY <1>7 DEF ActsOnConsumers
  <2> QED BY <1>5, <2>1
<1> HIDE DEF d1, S, row, rule, new
<1>11. Busy(db) = {} /\ Busy(d1) = {}
  BY <1>1, <1>8 DEF IInv, Modes, Jobs, JobInv, Busy
<1>12. f \in Products => db.fstate[f] = "OUTDATED"
  BY <1>1 DEF TrueInv, OnRecord
<1>13. Truth(d1, S)
  <2>1. ASSUME NEW s \in Step
        PROVE  HashTrue(d1, s)
    BY <1>8 DEF TrueInv, Truth, HashTrue
  <2>2. ASSUME NEW s \in Step, s \notin S, d1.state[s] = "SUCCEEDED"
        PROVE  HashCurrent(d1, s)
    <3>1. db.state[s] = "SUCCEEDED" /\ HashCurrent(db, s) /\ HashTrue(db, s) /\ db.hash[s] # NoHash
      BY <1>6, <1>8, <2>2 DEF TrueInv, Truth, Known
    <3>2. Inputs(db, s) = Uses(s) /\ Uses(s) \subseteq File
      BY <3>1, UsesType DEF HashTrue
    <3>3. f \notin Uses(s)
      <4>1. CASE f \in StaticFiles
        BY <1>10, <2>2, <3>2, <4>1 DEF Consumers
      <4>2. CASE f \notin StaticFiles
        BY <1>12, <3>1, <4>2 DEF HashCurrent, Available, Products
      <4> QED BY <4>1, <4>2
    <3>4. f \notin Outputs(s)
      <4>1. ASSUME f \in Outputs(s) PROVE FALSE
        <5>1. f \in Products /\ Maker[f] = s
          BY <4>1, Makers
        <5> QED BY <1>6, <1>12, <3>1, <5>1 DEF Good, Agree
      <4> QED BY <4>1
    <3>5. \A g \in Uses(s) : d1.fstate[g] = db.fstate[g] /\ d1.fhash[g] = db.fhash[g]
      BY <1>9, <3>2, <3>3
    <3>6. \A g \in Outputs(s) : d1.fhash[g] = db.fhash[g]
      BY <1>9, <3>4 DEF Outputs
    <3> QED BY <1>8, <3>1, <3>5, <3>6 DEF HashCurrent, Available
  <2> QED BY <2>1, <2>2 DEF Truth, HashCurrent
<1>14. Truth(db', {})
  <2>1. Known(d1) /\ S \cap Busy(d1) = {}
    BY <1>6, <1>8, <1>11 DEF Known
  <2> QED BY <1>2, <1>8, <1>13, <2>1, MarkPendingTrue
<1>15. /\ db'.fhash = d1.fhash
       /\ \A g \in File : Ages(d1, db', g)
  BY <1>2, <1>8, MarkPendingAges
<1>16. OnRecord'
  <2>1. ASSUME NEW g \in StaticFiles \ changed'
        PROVE  disk[g] = db'.fhash[g]
    <3>0. g \in File
      BY DEF StaticFiles
    <3>1. CASE g = f
      BY <1>7, <1>9, <1>15, <2>1, <3>1 DEF StoredHash
    <3>2. CASE g # f
      BY <1>1, <1>9, <1>15, <2>1, <3>0, <3>2 DEF TrueInv, OnRecord
    <3> QED BY <3>1, <3>2
  <2>2. ASSUME NEW g \in Products, db'.fstate[g] = "BUILT"
        PROVE  disk[g] = db'.fhash[g]
    <3>0. g \in File /\ g \notin StaticFiles /\ d1.fstate[g] = "BUILT"
      BY <1>15, <2>2 DEF Products, Ages
    <3>1. g # f /\ db.fstate[g] = "BUILT"
      BY <1>7, <1>9, <3>0
    <3> QED BY <1>9, <1>15, <3>0, <3>1 DEF TrueInv, OnRecord
  <2>3. ASSUME NEW g \in changed' \cap Products
        PROVE  db'.fstate[g] = "OUTDATED"
    <3>1. g \in File /\ g # f /\ db.fstate[g] = "OUTDATED"
      BY <1>1, <2>3 DEF TrueInv, OnRecord, Products
    <3> QED BY <1>9, <1>15, <3>1 DEF Ages
  <2> QED BY <1>1, <2>1, <2>2, <2>3 DEF OnRecord
<1>17. Overlaps'
  BY <1>1 DEF TrueInv, Overlaps
<1> QED BY <1>1, <1>14, <1>16, <1>17, IdleTrue DEF TrueInv

LEMMA EditTrue ==
  ASSUME SourceEdits, IInv, TrueInv, NEW f \in File, Edit(f)
  PROVE  TrueInv'
<1>1. /\ mode = "watch" /\ f \in StaticFiles /\ UNCHANGED <<db, job, mode, overlap>>
      /\ changed' = IF db.fstate[f] = "PLANNED" THEN changed ELSE changed \cup {f}
      /\ \A g \in File : g # f => disk'[g] = disk[g]
  BY DEF Edit, SourceEdits, IInv, Present
<1>2. changed' = changed \cup {f}
  BY <1>1 DEF IInv, Good, Files
<1>3. OnRecord'
  <2>1. /\ \A g \in StaticFiles \ changed' : disk'[g] = db'.fhash[g]
        /\ \A g \in Products : db'.fstate[g] = "BUILT" => disk'[g] = db'.fhash[g]
    BY <1>1, <1>2 DEF TrueInv, OnRecord, Products, StaticFiles
  <2>2. changed' \subseteq StaticFiles
    BY <1>1, <1>2 DEF TrueInv, OnRecord
  <2> QED BY <1>1, <2>1, <2>2 DEF OnRecord, Products
<1>4. \A s \in Step : job'[s].at = "none"
  BY <1>1 DEF IInv, Modes
<1>5. Overlaps' /\ Truth(db', {})
  BY <1>1 DEF TrueInv, Overlaps
<1> QED BY <1>3, <1>4, <1>5, IdleTrue DEF TrueInv

LEMMA RestartTrue ==
  ASSUME IInv, IInv', TrueInv, Restart
  PROVE  TrueInv'
<1> DEFINE d2 == Interrupted(db)
<1> DEFINE S == Failing(db)
<1>1. /\ db' = MarkPending(d2, S) /\ job' = [s \in Step |-> NoJob] /\ mode' = "rescan"
      /\ changed' = {f \in File : db'.fstate[f] # "PLANNED" /\ disk[f] # db'.fhash[f]}
      /\ overlap' = [s \in Step |-> {}] /\ disk' = disk
  BY DEF Restart, Interrupted, Failing, Checking
<1>2. S \in SUBSET Step
  BY DEF Failing
<1>3. /\ Good(d2, {}) /\ Busy(d2) = {}
      /\ \A s \in Step : d2.state[s] = "SUCCEEDED" => db.state[s] = "SUCCEEDED"
      /\ d2.fstate = db.fstate /\ d2.fhash = db.fhash /\ d2.hash = db.hash /\ d2.dynamic = db.dynamic
  BY RestartTables
<1> HIDE DEF d2, S
<1>4. Truth(d2, S)
  <2>1. ASSUME NEW s \in Step
        PROVE  HashTrue(d2, s) /\ HashCurrent(d2, s)
    <3>1. HashTrue(db, s) /\ HashCurrent(db, s)
      BY DEF TrueInv, Truth
    <3>2. HashTrue(d2, s)
      BY <1>3, <3>1 DEF HashTrue
    <3>3. HashCurrent(d2, s)
      BY <1>3, <3>1 DEF HashCurrent, Available
    <3> QED BY <3>2, <3>3
  <2> QED BY <2>1 DEF Truth
<1>5. Tables(d2) /\ Known(d2)
  BY <1>3 DEF Good
<1>6. Truth(db', {})
  BY <1>1, <1>2, <1>3, <1>4, <1>5, MarkPendingTrue
<1>7. /\ db'.fhash = db.fhash
      /\ \A f \in File : db'.fstate[f] = "BUILT" => db.fstate[f] = "BUILT"
  <2>1. db'.fhash = d2.fhash /\ \A f \in File : Ages(d2, db', f)
    BY <1>1, <1>2, <1>5, MarkPendingAges
  <2> QED BY <1>3, <2>1 DEF Ages
<1>8. Files(db')
  BY DEF IInv, Good
<1>9. OnRecord'
  <2>1. \A f \in StaticFiles \ changed' : disk[f] = db'.fhash[f]
    BY <1>1, <1>8 DEF Files, StaticFiles
  <2>2. \A f \in Products : db'.fstate[f] = "BUILT" => disk[f] = db'.fhash[f]
    BY <1>7 DEF TrueInv, OnRecord, Products
  <2>3. \A f \in changed' \cap Products : db'.fstate[f] = "OUTDATED"
    BY <1>1, <1>8, <2>2 DEF Files, Products
  <2> QED BY <1>1, <2>1, <2>2, <2>3 DEF OnRecord
<1>10. Overlaps' /\ \A s \in Step : job'[s].at = "none"
  BY <1>1 DEF Overlaps, NoJob
<1> QED BY <1>6, <1>9, <1>10, IdleTrue DEF TrueInv

LEMMA TrueInvInit == Init => TrueInv
<1> SUFFICES ASSUME Init PROVE TrueInv
  OBVIOUS
<1>1. /\ db.state = [s \in Step |-> "PENDING"] /\ db.hash = [s \in Step |-> NoHash]
      /\ db.fstate = [f \in File |-> IF f \in StaticFiles THEN "CONFIRMED" ELSE "PLANNED"]
      /\ disk = db.fhash /\ changed = {} /\ mode = "build" /\ overlap = [s \in Step |-> {}]
      /\ job = [s \in Step |-> NoJob]
  BY DEF Init
<1>2. OnRecord
  BY <1>1 DEF OnRecord
<1>3. Truth(db, {}) /\ Overlaps
  BY <1>1 DEF Truth, HashTrue, HashCurrent, Overlaps
<1>4. ASSUME NEW s \in Step
      PROVE  JobTrue(s)
  <2>1. job[s].at = "none"
    BY <1>1 DEF NoJob
  <2> QED BY <2>1 DEF JobTrue, OutputsTrue, Ending
<1> QED BY <1>2, <1>3, <1>4 DEF TrueInv

LEMMA JobStepTrue ==
  ASSUME IInv, TrueInv, NEW s \in Step, JobStep(s)
  PROVE  TrueInv'
<1>1. ~Reject(s) /\ ~GiveUp(s)
  BY DEF TrueInv, JobTrue, Reject, GiveUp, At
<1> QED BY <1>1, VerifyTrue, NoSkipTrue, TrySkipTrue, ResetTrue, ReadStep, AmendTrue, WriteTrue,
           CollectTrue, HashFilesTrue, SettleTrue DEF JobStep

LEMMA TrueInvNext ==
  ASSUME SourceEdits, IInv, IInv', TrueInv, [Next]_vars
  PROVE  TrueInv'
<1>1. CASE UNCHANGED vars
  <2>1. UNCHANGED <<db, disk, job, mode, overlap, changed>>
    BY <1>1 DEF vars
  <2>2. OnRecord' /\ Overlaps' /\ Truth(db', {})
    BY <2>1 DEF TrueInv, OnRecord, Overlaps
  <2> QED BY <2>1, <2>2, SameJobs DEF TrueInv
<1>2. CASE \E s \in Step : Pop(s) \/ JobStep(s)
  BY <1>2, PopTrue, JobStepTrue
<1>3. CASE Drain \/ EndBuild \/ EndWatch \/ StartBuild \/ Restart
  BY <1>3, DrainTrue, EndBuildTrue, EndWatchTrue, StartBuildTrue, RestartTrue
<1>4. CASE \E f \in File : Rescan(f) \/ Edit(f)
  BY <1>4, RescanTrue, EditTrue
<1> QED BY <1>1, <1>2, <1>3, <1>4 DEF Next

\* Only the user and the command of a step write files.
LEMMA WhoWrites ==
  ASSUME IInv, [Next]_vars, NEW f \in File, disk'[f] # disk[f]
  PROVE  (\E t \in Step : Write(t) /\ Maker[f] = t) \/ Edit(f)
<1>1. CASE UNCHANGED vars
  BY <1>1 DEF vars
<1>2. ASSUME NEW t \in Step, Pop(t) \/ JobStep(t)
      PROVE  Write(t) /\ Maker[f] = t
  <2>1. CASE Pop(t)
    BY <2>1 DEF Pop
  <2>2. CASE Verify(t) \/ Read(t) \/ Amend(t) \/ Stumble(t) \/ Collect(t) \/ HashFiles(t) \/ Reset(t)
    BY <2>2 DEF Verify, Read, Amend, Stumble, Collect, HashFiles, Reset
  <2>3. CASE Reject(t) \/ GiveUp(t) \/ NoSkip(t) \/ StillValid(t) \/ TrySkip(t) \/ Settle(t)
    BY <2>3 DEF Reject, GiveUp, NoSkip, StillValid, TrySkip, Settle, EndJob, Raise
  <2>4. CASE Write(t)
    BY <2>4 DEF Write
  <2> QED BY <1>2, <2>1, <2>2, <2>3, <2>4 DEF JobStep
<1>3. CASE Drain \/ EndBuild \/ EndWatch \/ StartBuild \/ Restart
  BY <1>3 DEF Drain, EndBuild, EndWatch, StartBuild, Restart
<1>4. ASSUME NEW g \in File, Rescan(g) \/ Edit(g)
      PROVE  Edit(f)
  BY <1>4 DEF Rescan, Edit, IInv, Present
<1> QED BY <1>1, <1>2, <1>3, <1>4 DEF Next

(***************************************************************************)
(* The truth about the files, when the user edits only the sources and     *)
(* only between builds: what is recorded of sources and of BUILT files is  *)
(* on disk or to be rescanned, step hashes tell what commands make of all  *)
(* their inputs, those of SUCCEEDED steps are about the present files, and *)
(* what a running command has read is still there or will be found unfresh.*)
(***************************************************************************)
THEOREM TrueInvAlways ==
  ASSUME SourceEdits
  PROVE  Spec => []TrueInv
<1>1. Init => TrueInv
  BY TrueInvInit
<1>2. IInv /\ IInv' /\ TrueInv /\ [Next]_vars => TrueInv'
  BY TrueInvNext
<1> QED BY <1>1, <1>2, IInvAlways, PTL DEF Spec

(***************************************************************************)
(* Reproducibility: when what is recorded of a SUCCEEDED step and its      *)
(* files is on disk, its outputs are what its command makes of the inputs  *)
(* that are there now, although commands read files without any lock,      *)
(* amend inputs after they read them, are skipped on the strength of old   *)
(* hashes and are cut off by restarts.                                     *)
(***************************************************************************)
THEOREM UpToDateAlways ==
  ASSUME SourceEdits
  PROVE  Spec => []UpToDate
<1>1. IInv /\ TrueInv => UpToDate
  <2> SUFFICES ASSUME IInv, TrueInv, NEW s \in Step, db.state[s] = "SUCCEEDED", Recent(s),
                      NEW f \in Outputs(s)
               PROVE  disk[f] = Made(s, [g \in Inp[s] \cup Dyn[s] |-> disk[g]])
    BY DEF UpToDate
  <2>1. HashTrue(db, s) /\ HashCurrent(db, s) /\ db.hash[s] # NoHash
    BY DEF TrueInv, Truth, IInv, Good, Known
  <2>2. \A g \in Uses(s) : db.hash[s][1][g] = disk[g]
    BY <2>1 DEF HashCurrent, Recent, Uses
  <2>3. db.hash[s][1] = [g \in Uses(s) |-> disk[g]]
    BY <2>1, <2>2 DEF HashTrue
  <2>4. disk[f] = Made(s, db.hash[s][1])
    BY <2>1 DEF HashCurrent, Recent
  <2> QED BY <2>3, <2>4 DEF Uses
<1> QED BY <1>1, TrueInvAlways, IInvAlways, PTL

(***************************************************************************)
(* What a command reads of its initial inputs is not rebuilt under it: an  *)
(* input of a RUNNING step was made by a step that is SUCCEEDED, and is    *)
(* not run again before this one has ended.                                *)
(***************************************************************************)
THEOREM InputsStayAlways ==
  ASSUME SourceEdits
  PROVE  Spec => InputsStay
<1>1. ASSUME IInv, TrueInv, [Next]_vars, mode = "build", NEW s \in Step, db.state[s] = "RUNNING",
             NEW f \in Inp[s] \ StaticFiles
      PROVE  disk'[f] = disk[f]
  <2>0. f \in File
    BY GraphType
  <2> SUFFICES ASSUME disk'[f] # disk[f] PROVE FALSE
    OBVIOUS
  <2>1. job[s].at # "none"
    BY <1>1 DEF IInv, Jobs, JobInv, Busy
  <2>2. Available(db, f)
    BY <1>1, <2>1 DEF TrueInv, JobTrue, InputsTrue
  <2>3. ~Edit(f)
    BY <1>1 DEF Edit, SourceEdits
  <2>4. PICK t \in Step : Write(t) /\ Maker[f] = t
    BY <1>1, <2>0, <2>3, WhoWrites
  <2>5. job[t].at # "none"
    BY <2>4 DEF Write, At
  <2>6. t \in Busy(db)
    BY <1>1, <2>5, AtFacts
  <2> QED BY <1>1, <2>0, <2>2, <2>4, <2>6, BusyOutputs DEF IInv
<1>2. IInv /\ TrueInv /\ [Next]_vars =>
        [mode = "build" => \A s \in Step : db.state[s] = "RUNNING" =>
           \A f \in Inp[s] \ StaticFiles : disk'[f] = disk[f]]_vars
  BY <1>1
<1> QED BY <1>2, TrueInvAlways, IInvAlways, PTL DEF Spec, InputsStay
=============================================================================
