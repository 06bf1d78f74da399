----------------------------- MODULE JobLoopProofs -----------------------------
(***************************************************************************)
(* Proofs about JobLoop, for any steps, any finite set of files and any    *)
(* number of slots: one thread hashes a path at a time within the slots,   *)
(* the loop never sleeps through work, and a step that wakes up reads the  *)
(* state that the hash job wrote.                                          *)
(***************************************************************************)
EXTENDS JobLoop, FiniteSetTheorems, SequenceTheorems, TLAPS

Places == {"undefined", "pending", "running", "checking", "amending", "ended", "succeeded",
           "deferred"}
FileState == {"none", "UNCONFIRMED", "CONFIRMED", "MISSING"}
JobState == {"queued", "hashing", "apply", "ended"}
Future == {"none", "result", "failed", "cancelled"}
Runner == Step \cup {"loop"}
Job == [path : File, at : JobState, runners : SUBSET Runner, future : Future]

\* The shape of the variables.
Types ==
  /\ loop \in {"poll", "pop", "parked", "left", "raised", "stopped"}
  /\ wake \in BOOLEAN
  /\ running \subseteq Step \cup DOMAIN job /\ IsFiniteSet(running)
  /\ at \in [Step -> Places]
  /\ waits \in [Step -> SUBSET (File \cup Nat)]
  /\ file \in [File -> FileState]
  /\ job \in Seq(Job) /\ queue \subseteq DOMAIN job

\* While the scheduler is asked for a step there is a slot for it.
Slots ==
  /\ Cardinality(running) <= NJob
  /\ loop = "pop" => Cardinality(running) < NJob

\* A job is claimed once, by the job loop or by a step, before it is hashed.
ClaimsOf(js, q, run) ==
  \A j \in DOMAIN js :
    /\ js[j].future = "none" /\ js[j].runners = {} => js[j].at = "queued"
    /\ j \in q /\ js[j].runners = {} => js[j].future = "none"
    /\ js[j].at = "queued" => js[j].runners = {}
    /\ js[j].at \in {"hashing", "apply"} =>
         js[j].future = "none" /\ \E r \in Runner : js[j].runners = {r}
    /\ j \in run => js[j].runners # {}
ClaimedOnce == ClaimsOf(job, queue, running)

\* HashQueue.in_flight has one job for a path.
OneFor(js) ==
  \A j, k \in DOMAIN js :
    js[j].future = "none" /\ js[k].future = "none" /\ js[j].path = js[k].path => j = k
OneInFlight == OneFor(job)

\* What the loop has seen when it asks for a step or sleeps.
Awake ==
  /\ loop \in {"pop", "parked"} /\ ~wake =>
       /\ done = {}
       /\ Cardinality(running) < NJob => \A j \in queue : job[j].runners # {}
  /\ loop = "parked" /\ ~wake => running # {}

\* A result is written before its future is resolved.
SettledIn(js, known) ==
  \A j \in DOMAIN js : js[j].future = "result" => known[js[j].path] \in {"CONFIRMED", "MISSING"}
Settled == SettledIn(job, file)

\* What amend_step holds: paths to check, then jobs.
Awaited ==
  \A s \in Step : /\ at[s] = "checking" => waits[s] \subseteq File
                  /\ at[s] = "amending" => waits[s] \subseteq DOMAIN job

IInv == Types /\ Slots /\ ClaimedOnce /\ OneInFlight /\ Awake /\ Settled /\ Awaited
-----------------------------------------------------------------------------
(***************************************************************************)
(* The jobs: what is added, claimed and ended.                             *)
(***************************************************************************)
LEMMA OneFresh ==
  ASSUME NEW S, IsFiniteSet(S)
  PROVE  /\ SetToSeq(S) \in Seq(S)
         /\ \A a, b \in 1 .. Len(SetToSeq(S)) : SetToSeq(S)[a] = SetToSeq(S)[b] => a = b
<1> DEFINE n == Cardinality(S)
           q == SetToSeq(S)
<1>1. n \in Nat /\ ExistsBijection(1 .. n, S)
  BY FS_CardinalityType
<1>2. PICK f : f \in Bijection(1 .. n, S)
  BY <1>1 DEF ExistsBijection
<1>3. f \in [1 .. n -> S] /\ IsInjective(f)
  BY <1>2 DEF Bijection, Injection, IsInjective
<1>4. q \in [1 .. n -> S] /\ IsInjective(q)
  BY <1>3 DEF SetToSeq
<1> HIDE DEF q, n
<1>5. q \in Seq(S) /\ Len(q) = n
  BY <1>1, <1>4
<1>6. \A a, b \in 1 .. Len(q) : q[a] = q[b] => a = b
  BY <1>4, <1>5 DEF IsInjective
<1> QED BY <1>5, <1>6 DEF q

\* js is job and new jobs with the numbers N, each for a path without a job.
Grown(js, N) ==
  /\ js \in Seq(Job) /\ DOMAIN js = DOMAIN job \cup N /\ N \cap DOMAIN job = {}
  /\ \A j \in DOMAIN job : js[j] = job[j]
  /\ \A j \in N : js[j].at = "queued" /\ js[j].runners = {} /\ js[j].future = "none"
  /\ \A j \in N, k \in DOMAIN job : job[k].future = "none" => job[k].path # js[j].path
  /\ \A j, k \in N : js[j].path = js[k].path => j = k

LEMMA NewJob ==
  ASSUME NEW f \in File
  PROVE  /\ New(f) \in Job /\ New(f).path = f /\ New(f).at = "queued" /\ New(f).runners = {}
         /\ New(f).future = "none"
BY DEF New, Job, JobState, Future

LEMMA Submission ==
  ASSUME Types, NEW F \in SUBSET File
  PROVE  Grown(Submitted(F), Numbers(F))
<1> DEFINE S == {f \in F : InFlight(f) = {}}
           q == Fresh(F)
           m == Len(job)
           new == [i \in DOMAIN q |-> New(q[i])]
           js == Submitted(F)
<1>1. /\ q \in Seq(S) /\ \A a, b \in 1 .. Len(q) : q[a] = q[b] => a = b
  <2>1. IsFiniteSet(S)
    <3>1. S \subseteq File
      OBVIOUS
    <3> QED BY <3>1, FilesAssumption, FS_Subset
  <2> QED BY <2>1, OneFresh DEF Fresh
<1>2. \A i \in DOMAIN q : q[i] \in F /\ q[i] \in File /\ InFlight(q[i]) = {}
  <2>1. \A i \in DOMAIN q : q[i] \in S
    BY <1>1
  <2> QED BY <2>1
<1>3. Len(q) \in Nat /\ DOMAIN q = 1 .. Len(q) /\ m \in Nat /\ job \in Seq(Job)
      /\ DOMAIN job = 1 .. m
  BY <1>1 DEF Types
<1> HIDE DEF S, q
<1>4. new \in Seq(Job) /\ Len(new) = Len(q)
  <2>1. \A i \in DOMAIN q : New(q[i]) \in Job
    BY <1>2, NewJob
  <2>2. new \in [1 .. Len(q) -> Job]
    BY <1>3, <2>1
  <2> HIDE DEF new
  <2> QED BY <1>3, <2>2
<1>5. \A i \in 1 .. Len(q) : new[i] = New(q[i])
  BY <1>3
<1>6. js = job \o new
  BY DEF Submitted, q
<1> HIDE DEF new, js
<1>7. /\ js \in Seq(Job) /\ Len(js) = m + Len(q) /\ DOMAIN js = 1 .. m + Len(q)
      /\ \A j \in 1 .. m : js[j] = job[j]
      /\ \A i \in 1 .. Len(q) : js[m + i] = new[i]
  <2> HIDE DEF m
  <2>1. m = Len(job)
    BY DEF m
  <2>2. /\ js \in Seq(Job) /\ Len(js) = m + Len(q)
        /\ \A j \in 1 .. m + Len(q) : js[j] = IF j <= m THEN job[j] ELSE new[j - m]
    <3>1. /\ job \o new \in Seq(Job) /\ Len(job \o new) = Len(job) + Len(new)
          /\ \A j \in 1 .. Len(job) + Len(new) :
               (job \o new)[j] = IF j <= Len(job) THEN job[j] ELSE new[j - Len(job)]
      BY <1>3, <1>4, ConcatProperties
    <3> QED BY <1>4, <1>6, <2>1, <3>1
  <2>3. DOMAIN js = 1 .. m + Len(q)
    BY <2>2
  <2>4. ASSUME NEW j \in 1 .. m PROVE js[j] = job[j]
    BY <1>3, <2>2
  <2>5. ASSUME NEW i \in 1 .. Len(q) PROVE js[m + i] = new[i]
    <3> DEFINE j == m + i
    <3>1. j \in 1 .. m + Len(q) /\ ~(j <= m) /\ j - m = i
      BY <1>3
    <3> HIDE DEF j
    <3>2. js[j] = new[i]
      BY <2>2, <3>1
    <3> QED BY <3>2 DEF j
  <2> QED BY <2>2, <2>3, <2>4, <2>5
<1> DEFINE N == Numbers(F)
<1>8. N = m + 1 .. m + Len(q)
  BY DEF Numbers, q
<1> HIDE DEF m, N
<1>9. \A j \in N : \E i \in 1 .. Len(q) : j = m + i /\ js[j] = New(q[i]) /\ q[i] \in File
  <2> SUFFICES ASSUME NEW j \in N
               PROVE  \E i \in 1 .. Len(q) : j = m + i /\ js[j] = New(q[i]) /\ q[i] \in File
    OBVIOUS
  <2>1. j - m \in 1 .. Len(q) /\ j = m + (j - m)
    BY <1>3, <1>8
  <2> QED BY <1>2, <1>3, <1>5, <1>7, <2>1
<1>10. DOMAIN js = DOMAIN job \cup N /\ N \cap DOMAIN job = {}
  BY <1>3, <1>7, <1>8
<1>11. \A j \in N : js[j].at = "queued" /\ js[j].runners = {} /\ js[j].future = "none"
  BY <1>9, NewJob
<1>12. ASSUME NEW j \in N, NEW k \in DOMAIN job, job[k].future = "none"
       PROVE  job[k].path # js[j].path
  <2>1. PICK i \in 1 .. Len(q) : js[j].path = q[i]
    BY <1>9, NewJob
  <2>2. InFlight(q[i]) = {}
    BY <1>2, <1>3
  <2> QED BY <1>12, <2>1, <2>2 DEF InFlight
<1>13. ASSUME NEW j \in N, NEW k \in N, js[j].path = js[k].path PROVE j = k
  <2>1. PICK a \in 1 .. Len(q) : j = m + a /\ js[j].path = q[a]
    BY <1>9, NewJob
  <2>2. PICK b \in 1 .. Len(q) : k = m + b /\ js[k].path = q[b]
    BY <1>9, NewJob
  <2> QED BY <1>1, <1>13, <2>1, <2>2
<1>14. \A j \in DOMAIN job : js[j] = job[j]
  BY <1>3, <1>7
<1> QED
  BY <1>7, <1>10, <1>11, <1>12, <1>13, <1>14 DEF Grown, js, N

\* A path gets a job where none is in flight, and nobody has claimed it yet.
LEMMA GrownJobs ==
  ASSUME Types, ClaimedOnce, OneInFlight, Settled, NEW js, NEW N, Grown(js, N)
  PROVE  /\ ClaimsOf(js, queue \cup N, running) /\ OneFor(js) /\ SettledIn(js, file)
         /\ queue \cup N \subseteq DOMAIN js
<1>1. ClaimsOf(js, queue \cup N, running)
  <2>1. ASSUME NEW j \in N PROVE j \notin running
    <3>1. j \in Nat
      BY DEF Grown
    <3> QED BY <3>1, PhaseAssumption DEF Types, Grown
  <2> SUFFICES ASSUME NEW j \in DOMAIN js
               PROVE  /\ js[j].future = "none" /\ js[j].runners = {} => js[j].at = "queued"
                      /\ j \in queue \cup N /\ js[j].runners = {} => js[j].future = "none"
                      /\ js[j].at = "queued" => js[j].runners = {}
                      /\ js[j].at \in {"hashing", "apply"} =>
                           js[j].future = "none" /\ \E r \in Runner : js[j].runners = {r}
                      /\ j \in running => js[j].runners # {}
    BY DEF ClaimsOf
  <2>2. CASE j \in N
    BY <2>1, <2>2 DEF Grown
  <2>3. CASE j \in DOMAIN job
    <3>1. js[j] = job[j] /\ j \notin N
      BY <2>3 DEF Grown
    <3> QED BY <2>3, <3>1 DEF ClaimedOnce, ClaimsOf
  <2> QED BY <2>2, <2>3 DEF Grown
<1>2. OneFor(js)
  <2> SUFFICES ASSUME NEW j \in DOMAIN js, NEW k \in DOMAIN js,
                      js[j].future = "none", js[k].future = "none", js[j].path = js[k].path
               PROVE  j = k
    BY DEF OneFor
  <2>1. CASE j \in DOMAIN job /\ k \in DOMAIN job
    BY <2>1 DEF Grown, OneInFlight, OneFor
  <2>2. CASE j \in N /\ k \in N
    BY <2>2 DEF Grown
  <2>3. CASE j \in N /\ k \in DOMAIN job
    BY <2>3 DEF Grown
  <2>4. CASE j \in DOMAIN job /\ k \in N
    BY <2>4 DEF Grown
  <2> QED BY <2>1, <2>2, <2>3, <2>4 DEF Grown
<1>3. SettledIn(js, file)
  <2> SUFFICES ASSUME NEW j \in DOMAIN js, js[j].future = "result"
               PROVE  file[js[j].path] \in {"CONFIRMED", "MISSING"}
    BY DEF SettledIn
  <2>1. j \in DOMAIN job /\ js[j] = job[j]
    BY DEF Grown
  <2> QED BY <2>1 DEF Settled, SettledIn
<1>4. queue \cup N \subseteq DOMAIN js
  BY DEF Types, Grown
<1> QED BY <1>1, <1>2, <1>3, <1>4

IsClaim(x, e, r) == x = [e EXCEPT !.at = "hashing", !.runners = @ \cup {r}]

LEMMA ClaimFields ==
  ASSUME NEW e \in Job, NEW r \in Runner, NEW x, IsClaim(x, e, r)
  PROVE  /\ x \in Job /\ x.path = e.path /\ x.future = e.future /\ x.at = "hashing"
         /\ x.runners = e.runners \cup {r}
<1> DEFINE R == e.runners \cup {r}
<1>1. /\ e = [path |-> e.path, at |-> e.at, runners |-> e.runners, future |-> e.future]
      /\ e.path \in File /\ e.future \in Future /\ R \in SUBSET Runner
  BY DEF Job
<1>2. x = [e EXCEPT !.at = "hashing", !.runners = R]
  BY DEF IsClaim
<1> HIDE DEF R
<1>3. x = [path |-> e.path, at |-> "hashing", runners |-> R, future |-> e.future]
  BY <1>1, <1>2
<1>4. x.path = e.path /\ x.future = e.future /\ x.at = "hashing" /\ x.runners = R
  BY <1>3
<1>5. x \in Job
  BY <1>1, <1>3 DEF Job, JobState
<1> QED BY <1>4, <1>5 DEF R

\* r claims the jobs J, that nobody runs, and q2 stays in the queue.
Claimable(js, q, run, known, J, r, q2) ==
  /\ js \in Seq(Job) /\ J \subseteq DOMAIN js /\ r \in Runner /\ q2 \subseteq q
  /\ ClaimsOf(js, q, run) /\ OneFor(js) /\ SettledIn(js, known)
  /\ \A j \in J : js[j].runners = {} /\ js[j].future = "none"

\* The jobs c are those of js, and the ones in J have a runner.
Held(c, js, q, run, known, J) ==
  /\ c \in Seq(Job) /\ DOMAIN c = DOMAIN js
  /\ \A j \in J : c[j].runners # {}
  /\ \A j \in DOMAIN js : /\ js[j].runners # {} => c[j].runners # {}
                          /\ c[j].path = js[j].path /\ c[j].future = js[j].future
  /\ ClaimsOf(c, q, run) /\ OneFor(c) /\ SettledIn(c, known)

\* Who claims a job that nobody runs is the only one to run it.
LEMMA ClaimedJobs ==
  ASSUME NEW js, NEW q, NEW run, NEW known, NEW J, NEW r, NEW q2,
         Claimable(js, q, run, known, J, r, q2)
  PROVE  Held(Claimed(js, J, r), js, q2, run \cup J, known, J)
<1> DEFINE c == Claimed(js, J, r)
<1> USE DEF Claimable
<1>1. ASSUME NEW j \in DOMAIN js
      PROVE  /\ js[j] \in Job /\ c[j] \in Job /\ c[j].path = js[j].path
             /\ c[j].future = js[j].future
             /\ j \notin J => c[j] = js[j]
             /\ j \in J => c[j].at = "hashing" /\ c[j].runners = {r}
  <2>1. js[j] \in Job
    OBVIOUS
  <2>2. CASE j \notin J
    <3>1. c[j] = js[j]
      BY <2>2 DEF Claimed
    <3> QED BY <2>1, <2>2, <3>1
  <2>3. CASE j \in J
    <3>1. IsClaim(c[j], js[j], r)
      BY <2>3 DEF Claimed, IsClaim
    <3>2. js[j].runners \cup {r} = {r}
      BY <2>3
    <3> HIDE DEF c
    <3> QED BY <2>1, <2>3, <3>1, <3>2, ClaimFields
  <2> QED BY <2>2, <2>3
<1>2. c \in Seq(Job) /\ DOMAIN c = DOMAIN js
  <2>1. PICK n \in Nat : DOMAIN js = 1 .. n
    OBVIOUS
  <2>2. DOMAIN c = 1 .. n /\ c = [j \in 1 .. n |-> c[j]]
    BY <2>1 DEF Claimed
  <2>3. \A j \in 1 .. n : c[j] \in Job
    BY <1>1, <2>1
  <2> HIDE DEF c
  <2>4. c \in [1 .. n -> Job]
    BY <2>2, <2>3
  <2> QED BY <2>1, <2>2, <2>4, SeqDef
<1> HIDE DEF c
<1>3. ClaimsOf(c, q2, run \cup J)
  <2> SUFFICES ASSUME NEW j \in DOMAIN js
               PROVE  /\ c[j].future = "none" /\ c[j].runners = {} => c[j].at = "queued"
                      /\ j \in q2 /\ c[j].runners = {} => c[j].future = "none"
                      /\ c[j].at = "queued" => c[j].runners = {}
                      /\ c[j].at \in {"hashing", "apply"} =>
                           c[j].future = "none" /\ \E s \in Runner : c[j].runners = {s}
                      /\ j \in run \cup J => c[j].runners # {}
    BY <1>2 DEF ClaimsOf
  <2>1. CASE j \in J
    BY <1>1, <2>1
  <2>2. CASE j \notin J
    <3>1. c[j] = js[j]
      BY <1>1, <2>2
    <3> QED BY <2>2, <3>1 DEF ClaimsOf
  <2> QED BY <2>1, <2>2
<1>4. OneFor(c)
  BY <1>1, <1>2 DEF OneFor
<1>5. SettledIn(c, known)
  BY <1>1, <1>2 DEF SettledIn
<1>6. \A j \in J : c[j].runners # {}
  BY <1>1
<1>7. \A j \in DOMAIN js : js[j].runners # {} => c[j].runners # {}
  BY <1>1
<1> QED BY <1>1, <1>2, <1>3, <1>4, <1>5, <1>6, <1>7 DEF c, Held

\* The job j goes to the state a, with the future f.
Moved(j, a, f) ==
  /\ job' \in Seq(Job) /\ DOMAIN job' = DOMAIN job
  /\ \A k \in DOMAIN job : k # j => job'[k] = job[k]
  /\ job'[j].at = a /\ job'[j].future = f
  /\ job'[j].path = job[j].path /\ job'[j].runners = job[j].runners

IsMove(x, e, a, f) == x = [[e EXCEPT !.at = a] EXCEPT !.future = f]

LEMMA MoveFields ==
  ASSUME NEW e \in Job, NEW a \in JobState, NEW f \in Future, NEW x, IsMove(x, e, a, f)
  PROVE  x \in Job /\ x.at = a /\ x.future = f /\ x.path = e.path /\ x.runners = e.runners
<1>1. e = [path |-> e.path, at |-> e.at, runners |-> e.runners, future |-> e.future]
      /\ e.path \in File /\ e.runners \in SUBSET Runner
  BY DEF Job
<1>2. x = [path |-> e.path, at |-> a, runners |-> e.runners, future |-> f]
  BY <1>1 DEF IsMove
<1>3. x.at = a /\ x.future = f /\ x.path = e.path /\ x.runners = e.runners
  BY <1>2
<1>4. x \in Job
  BY <1>1, <1>2 DEF Job
<1> QED BY <1>3, <1>4

LEMMA Moves ==
  ASSUME job \in Seq(Job), NEW j \in DOMAIN job, NEW a \in JobState, NEW f \in Future,
         NEW x, IsMove(x, job[j], a, f), job' = [job EXCEPT ![j] = x]
  PROVE  Moved(j, a, f)
<1>1. job[j] \in Job
  OBVIOUS
<1>2. x \in Job /\ x.at = a /\ x.future = f /\ x.path = job[j].path /\ x.runners = job[j].runners
  BY <1>1, MoveFields
<1>3. /\ job' \in Seq(Job) /\ DOMAIN job' = DOMAIN job /\ job'[j] = x
      /\ \A k \in DOMAIN job : k # j => job'[k] = job[k]
  BY <1>2, ExceptSeq
<1> QED BY <1>2, <1>3 DEF Moved

LEMMA HashSteps ==
  ASSUME job \in Seq(Job), NEW j \in DOMAIN job
  PROVE  /\ HashDone(j) => job[j].at = "hashing" /\ Moved(j, "apply", job[j].future)
         /\ HashFails(j) => job[j].at = "hashing" /\ Moved(j, "ended", "failed")
         /\ HashCancelled(j) => job[j].at = "hashing" /\ Moved(j, "ended", "cancelled")
         /\ Apply(j) => job[j].at = "apply" /\ Moved(j, "ended", "result")
<1>1. job[j] \in Job
  OBVIOUS
<1>2. ASSUME HashDone(j) PROVE Moved(j, "apply", job[j].future)
  <2> DEFINE x == [[job[j] EXCEPT !.at = "apply"] EXCEPT !.future = job[j].future]
  <2>1. job[j].future \in Future
    BY <1>1 DEF Job
  <2>2. x = [job[j] EXCEPT !.at = "apply"]
    BY <1>1 DEF Job
  <2>3. job' = [job EXCEPT ![j] = x]
    BY <1>2, <2>2 DEF HashDone
  <2>4. IsMove(x, job[j], "apply", job[j].future)
    BY DEF IsMove
  <2> HIDE DEF x
  <2> QED BY <2>1, <2>3, <2>4, Moves DEF JobState
<1>3. ASSUME NEW f \in Future, job' = [job EXCEPT ![j].at = "ended", ![j].future = f]
      PROVE  Moved(j, "ended", f)
  <2> DEFINE x == [[job[j] EXCEPT !.at = "ended"] EXCEPT !.future = f]
  <2>1. job' = [job EXCEPT ![j] = x]
    BY <1>3
  <2>2. IsMove(x, job[j], "ended", f)
    BY DEF IsMove
  <2> HIDE DEF x
  <2> QED BY <2>1, <2>2, Moves DEF JobState
<1>4. HashDone(j) \/ HashFails(j) \/ HashCancelled(j) => job[j].at = "hashing"
  BY DEF HashDone, HashFails, HashCancelled
<1>5. HashFails(j) => Moved(j, "ended", "failed")
  BY <1>3 DEF HashFails, Future
<1>6. HashCancelled(j) => Moved(j, "ended", "cancelled")
  BY <1>3 DEF HashCancelled, Future
<1>7. Apply(j) => job[j].at = "apply" /\ Moved(j, "ended", "result")
  BY <1>3 DEF Apply, Future
<1> QED BY <1>2, <1>4, <1>5, <1>6, <1>7

LEMMA MovedJobs ==
  ASSUME Types, ClaimedOnce, OneInFlight, NEW j \in DOMAIN job, NEW a, NEW f, Moved(j, a, f),
         job[j].at \in {"hashing", "apply"},
         \/ a = "apply" /\ f = job[j].future
         \/ a = "ended" /\ f # "none"
  PROVE  ClaimsOf(job', queue, running) /\ OneFor(job')
<1>1. job[j].future = "none" /\ job[j].runners # {} /\ \E r \in Runner : job[j].runners = {r}
  BY DEF ClaimedOnce, ClaimsOf
<1>2. ClaimsOf(job', queue, running)
  <2> SUFFICES ASSUME NEW k \in DOMAIN job
               PROVE  /\ job'[k].future = "none" /\ job'[k].runners = {} => job'[k].at = "queued"
                      /\ k \in queue /\ job'[k].runners = {} => job'[k].future = "none"
                      /\ job'[k].at = "queued" => job'[k].runners = {}
                      /\ job'[k].at \in {"hashing", "apply"} =>
                           job'[k].future = "none" /\ \E r \in Runner : job'[k].runners = {r}
                      /\ k \in running => job'[k].runners # {}
    BY DEF ClaimsOf, Moved
  <2>1. CASE k = j
    BY <1>1, <2>1 DEF Moved
  <2>2. CASE k # j
    <3>1. job'[k] = job[k]
      BY <2>2 DEF Moved
    <3> QED BY <3>1 DEF ClaimedOnce, ClaimsOf
  <2> QED BY <2>1, <2>2
<1>3. OneFor(job')
  <2>1. \A k \in DOMAIN job :
          /\ job'[k].path = job[k].path
          /\ job'[k].future = "none" => job[k].future = "none"
    BY <1>1 DEF Moved
  <2> QED BY <2>1 DEF OneFor, OneInFlight, Moved
<1> QED BY <1>2, <1>3

\* A file that is in the graph keeps its state when it is declared.
LEMMA DeclaredFiles ==
  ASSUME Types, NEW F \in SUBSET File
  PROVE  /\ Declared(F) \in [File -> FileState] /\ Unconfirmed(F) \in SUBSET File
         /\ \A f \in File : file[f] # "none" => Declared(F)[f] = file[f]
BY DEF Types, Declared, Unconfirmed, FileState

LEMMA SettledKept ==
  ASSUME Types, NEW js \in Seq(Job), NEW known, SettledIn(js, file),
         \A f \in File : file[f] # "none" => known[f] = file[f]
  PROVE  SettledIn(js, known)
<1> SUFFICES ASSUME NEW j \in DOMAIN js, js[j].future = "result"
             PROVE  known[js[j].path] \in {"CONFIRMED", "MISSING"}
  BY DEF SettledIn
<1>1. js[j] \in Job
  OBVIOUS
<1>2. js[j].path \in File
  BY <1>1 DEF Job
<1> QED BY <1>2 DEF SettledIn
-----------------------------------------------------------------------------
(***************************************************************************)
(* The job loop.                                                           *)
(***************************************************************************)
\* What the loop finds at its start.
LEMMA IInvInit == Init => IInv
<1> SUFFICES ASSUME Init PROVE IInv
  OBVIOUS
<1>1. job = << >> /\ DOMAIN job = {} /\ queue = {} /\ running = {}
  BY DEF Init
<1>2. IsFiniteSet({}) /\ Cardinality({}) = 0
  BY FS_EmptySet
<1>3. Types
  <2>1. job \in Seq(Job) /\ queue \subseteq DOMAIN job
    BY <1>1
  <2>2. running \subseteq Step \cup DOMAIN job /\ IsFiniteSet(running)
    BY <1>1, <1>2
  <2>3. /\ at \in [Step -> Places] /\ waits \in [Step -> SUBSET (File \cup Nat)]
        /\ file \in [File -> FileState]
    BY DEF Init, Places, FileState
  <2> QED BY <2>1, <2>2, <2>3 DEF Init, Types
<1>4. Slots
  BY <1>1, <1>2, PhaseAssumption DEF Init, Slots
<1>5. ClaimedOnce /\ OneInFlight /\ Settled
  BY <1>1 DEF ClaimedOnce, ClaimsOf, OneInFlight, OneFor, Settled, SettledIn
<1>6. Awake /\ Awaited
  BY DEF Init, Awake, Awaited
<1> QED BY <1>3, <1>4, <1>5, <1>6 DEF IInv

\* Where no job is touched and no task is started.
LEMMA JobsUntouched ==
  ASSUME IInv, UNCHANGED <<job, queue, file>>, running' \subseteq running
  PROVE  /\ ClaimedOnce' /\ OneInFlight' /\ Settled'
         /\ IsFiniteSet(running') /\ running' \subseteq Step \cup DOMAIN job'
         /\ Cardinality(running') \in Nat /\ Cardinality(running') <= Cardinality(running)
<1>1. IsFiniteSet(running') /\ Cardinality(running') \in Nat
      /\ Cardinality(running') <= Cardinality(running)
  BY FS_Subset, FS_CardinalityType DEF IInv, Types
<1>2. ClaimedOnce'
  BY DEF IInv, ClaimedOnce, ClaimsOf
<1>3. OneInFlight' /\ Settled'
  BY DEF IInv, OneInFlight, OneFor, Settled, SettledIn
<1> QED BY <1>1, <1>2, <1>3 DEF IInv, Types

LEMMA LoopSteps ==
  ASSUME IInv, PollRaises \/ PopNothing \/ Wake \/ \E t \in running : TaskDone(t)
  PROVE  IInv'
<1>1. Cardinality(running) \in Nat /\ NJob \in Nat
  BY FS_CardinalityType, PhaseAssumption DEF IInv, Types
<1>2. CASE PollRaises
  <2>1. UNCHANGED <<job, queue, file, at, waits, running, wake>> /\ loop' = "raised"
    BY <1>2 DEF PollRaises, step, hash
  <2>2. Types' /\ Slots' /\ Awake' /\ Awaited'
    BY <2>1 DEF IInv, Types, Slots, Awake, Awaited
  <2> QED BY <2>1, <2>2, JobsUntouched DEF IInv
<1>3. CASE PopNothing
  <2>1. /\ UNCHANGED <<job, queue, file, at, waits, running, done>> /\ loop = "pop"
        /\ loop' = IF running \cup done = {} THEN "left" ELSE IF wake THEN "poll" ELSE "parked"
        /\ wake' = (wake /\ running \cup done = {})
    BY <1>3 DEF PopNothing, Rest, step, hash
  <2>2. Types' /\ Slots' /\ Awaited'
    BY <2>1 DEF IInv, Types, Slots, Awaited
  <2>3. Awake'
    BY <2>1 DEF IInv, Awake
  <2> QED BY <2>1, <2>2, <2>3, JobsUntouched DEF IInv
<1>4. CASE Wake
  <2>1. UNCHANGED <<job, queue, file, at, waits, running>> /\ loop' = "poll" /\ wake' = FALSE
    BY <1>4 DEF Wake, step, hash
  <2>2. Types' /\ Slots' /\ Awake' /\ Awaited'
    BY <2>1 DEF IInv, Types, Slots, Awake, Awaited
  <2> QED BY <2>1, <2>2, JobsUntouched DEF IInv
<1>5. ASSUME NEW t \in running, TaskDone(t) PROVE IInv'
  <2>1. /\ UNCHANGED <<loop, job, queue, file, waits>> /\ wake' /\ wake' \in BOOLEAN
        /\ running' = running \ {t} /\ at' = AfterRun(t)
    BY <1>5 DEF TaskDone, hash
  <2>2. /\ at' \in [Step -> Places]
        /\ \A s \in Step : at'[s] \in {at[s], "succeeded", "deferred"}
    BY <2>1 DEF AfterRun, IInv, Types, Places
  <2>3. /\ ClaimedOnce' /\ OneInFlight' /\ Settled'
        /\ IsFiniteSet(running') /\ running' \subseteq Step \cup DOMAIN job'
        /\ Cardinality(running') \in Nat /\ Cardinality(running') <= Cardinality(running)
    BY <2>1, JobsUntouched
  <2>4. Types'
    BY <2>1, <2>2, <2>3 DEF IInv, Types
  <2>5. Slots'
    BY <1>1, <2>1, <2>3 DEF IInv, Slots
  <2>6. Awake'
    BY <2>1 DEF Awake
  <2>7. Awaited'
    BY <2>1, <2>2 DEF IInv, Awaited
  <2> QED BY <2>3, <2>4, <2>5, <2>6, <2>7 DEF IInv
<1> QED BY <1>2, <1>3, <1>4, <1>5

LEMMA PopStepStep ==
  ASSUME IInv, NEW s \in Step, PopStep(s) PROVE IInv'
<1>1. /\ UNCHANGED <<wake, job, queue, file, waits>> /\ loop = "pop" /\ loop' = "poll"
      /\ running' = running \cup {s} /\ at' = [at EXCEPT ![s] = "running"]
  BY DEF PopStep, hash
<1>2. /\ IsFiniteSet(running') /\ Cardinality(running') \in Nat
      /\ Cardinality(running') <= Cardinality(running) + 1 /\ Cardinality(running) \in Nat
  <2>1. IsFiniteSet(running) /\ Cardinality(running) \in Nat
    BY FS_CardinalityType DEF IInv, Types
  <2>2. IsFiniteSet(running') /\ Cardinality(running') \in Nat
    BY <1>1, <2>1, FS_AddElement, FS_CardinalityType
  <2>3. Cardinality(running \cup {s}) \in {Cardinality(running), Cardinality(running) + 1}
    BY <2>1, FS_AddElement
  <2> QED BY <1>1, <2>1, <2>2, <2>3
<1>3. Types'
  BY <1>1, <1>2 DEF IInv, Types, Places
<1>4. Slots'
  BY <1>1, <1>2, PhaseAssumption DEF IInv, Slots
<1>5. ClaimedOnce'
  <2>1. s \notin DOMAIN job
    BY PhaseAssumption DEF IInv, Types
  <2> QED BY <1>1, <2>1 DEF IInv, ClaimedOnce, ClaimsOf
<1>6. OneInFlight' /\ Settled'
  BY <1>1 DEF IInv, OneInFlight, OneFor, Settled, SettledIn
<1>7. Awake' /\ Awaited'
  BY <1>1 DEF IInv, Types, Awake, Awaited
<1> QED BY <1>3, <1>4, <1>5, <1>6, <1>7 DEF IInv

\* The loop claims as many of the jobs as it has slots, and sleeps only when
\* no slot or no job is left.
LEMMA PollStep ==
  ASSUME IInv, Poll PROVE IInv'
<1>1. PICK popped \in SUBSET Unclaimed :
        /\ Poppable(popped)
        /\ job' = Claimed(job, popped, "loop")
        /\ queue' = Unclaimed \ popped
        /\ running' = running \cup popped
        /\ LET woken == wake \/ done # {}
           IN IF Cardinality(popped) < FreeSlots /\ ~draining THEN loop' = "pop" /\ wake' = woken
              ELSE Rest(running \cup popped, {}, woken)
  BY DEF Poll
<1>2. done' = {} /\ UNCHANGED <<file, at, waits>>
  BY DEF Poll, step
<1>3. /\ Unclaimed \subseteq queue /\ queue \subseteq DOMAIN job /\ popped \subseteq DOMAIN job
      /\ job \in Seq(Job)
      /\ \A j \in popped : job[j].runners = {} /\ job[j].future = "none" /\ j \notin running
  <2>1. Unclaimed \subseteq queue /\ queue \subseteq DOMAIN job /\ popped \subseteq DOMAIN job
        /\ job \in Seq(Job)
    BY <1>1 DEF Unclaimed, IInv, Types
  <2>2. ASSUME NEW j \in popped
        PROVE  job[j].runners = {} /\ job[j].future = "none" /\ j \notin running
    BY <1>1, <2>1 DEF Unclaimed, IInv, ClaimedOnce, ClaimsOf
  <2> QED BY <2>1, <2>2
<1>4. /\ IsFiniteSet(running') /\ Cardinality(running') = Cardinality(running) + Cardinality(popped)
      /\ Cardinality(running) \in Nat /\ Cardinality(popped) \in Nat
  <2>1. IsFiniteSet(popped)
    <3>1. Len(job) \in Nat /\ DOMAIN job = 1 .. Len(job)
      BY <1>3
    <3>2. IsFiniteSet(1 .. Len(job))
      BY <3>1, FS_Interval
    <3> QED BY <1>3, <3>1, <3>2, FS_Subset
  <2>2. IsFiniteSet(running)
    BY DEF IInv, Types
  <2>3. running \cap popped = {} /\ Cardinality({}) = 0
    BY <1>3, FS_EmptySet
  <2>4. Cardinality(running) \in Nat /\ Cardinality(popped) \in Nat
    BY <2>1, <2>2, FS_CardinalityType
  <2>5. /\ IsFiniteSet(running \cup popped)
        /\ Cardinality(running \cup popped) =
             Cardinality(running) + Cardinality(popped) - Cardinality(running \cap popped)
    BY <2>1, <2>2, FS_Union
  <2> DEFINE both == running \cup popped
             shared == running \cap popped
  <2>6. running' = both /\ shared = {}
    BY <1>1, <2>3
  <2> HIDE DEF both, shared
  <2>7. /\ IsFiniteSet(both)
        /\ Cardinality(both) = Cardinality(running) + Cardinality(popped) - Cardinality(shared)
    BY <2>5 DEF both, shared
  <2>8. Cardinality(shared) = 0
    BY <2>3, <2>6
  <2> QED BY <2>4, <2>6, <2>7, <2>8
<1>5. /\ Cardinality(popped) <= FreeSlots /\ (popped = Unclaimed \/ Cardinality(popped) = FreeSlots)
      /\ FreeSlots = NJob - Cardinality(running) /\ NJob \in Nat
  BY <1>1, PhaseAssumption DEF Poppable, FreeSlots
<1>6. /\ job' \in Seq(Job) /\ DOMAIN job' = DOMAIN job
      /\ ClaimedOnce' /\ OneInFlight' /\ Settled'
  <2>1. /\ queue' \in SUBSET queue /\ popped \in SUBSET DOMAIN job /\ "loop" \in Runner
    BY <1>1, <1>3 DEF Runner
  <2>2. ClaimsOf(job, queue, running) /\ OneFor(job) /\ SettledIn(job, file)
    BY DEF IInv, ClaimedOnce, OneInFlight, Settled
  <2>3. /\ Claimed(job, popped, "loop") \in Seq(Job)
        /\ DOMAIN Claimed(job, popped, "loop") = DOMAIN job
        /\ ClaimsOf(Claimed(job, popped, "loop"), queue', running \cup popped)
        /\ OneFor(Claimed(job, popped, "loop")) /\ SettledIn(Claimed(job, popped, "loop"), file)
    <3>1. \A j \in popped : job[j].runners = {} /\ job[j].future = "none"
      BY <1>3
    <3>2. job \in Seq(Job)
      BY <1>3
    <3> DEFINE r == "loop"
               q2 == queue'
               both == running \cup popped
    <3>3. q2 \in SUBSET queue /\ popped \in SUBSET DOMAIN job /\ r \in Runner
      BY <2>1
    <3>5. Claimable(job, queue, running, file, popped, r, q2)
      BY <2>2, <3>1, <3>2, <3>3 DEF Claimable
    <3> HIDE DEF r, q2
    <3>4. Held(Claimed(job, popped, r), job, q2, both, file, popped)
      BY <3>5, ClaimedJobs
    <3> QED BY <3>4 DEF Held, r, q2
  <2>4. job' = Claimed(job, popped, "loop") /\ running' = running \cup popped
    BY <1>1
  <2> QED BY <1>2, <2>3, <2>4 DEF ClaimedOnce, OneInFlight, Settled
<1>7. \/ /\ Cardinality(popped) < FreeSlots /\ loop' = "pop" /\ wake' \in BOOLEAN
      \/ /\ ~(Cardinality(popped) < FreeSlots /\ ~draining)
         /\ loop' \in {"left", "poll", "parked"} /\ wake' \in BOOLEAN
         /\ loop' = "parked" => running' # {}
  BY <1>1 DEF Rest, IInv, Types
<1>8. Types'
  <2>1. queue' \subseteq DOMAIN job' /\ running' \subseteq Step \cup DOMAIN job'
    BY <1>1, <1>3, <1>6 DEF IInv, Types
  <2> QED BY <1>2, <1>4, <1>6, <1>7, <2>1 DEF IInv, Types
<1>9. Slots'
  BY <1>4, <1>5, <1>7 DEF Slots
<1>10. Awake'
  <2>1. Cardinality(running') < NJob => queue' = {}
    BY <1>1, <1>4, <1>5
  <2> QED BY <1>2, <1>7, <2>1 DEF Awake
<1>11. Awaited'
  BY <1>2, <1>6 DEF IInv, Awaited
<1> QED BY <1>6, <1>8, <1>9, <1>10, <1>11 DEF IInv
-----------------------------------------------------------------------------
(***************************************************************************)
(* The remote calls.                                                       *)
(***************************************************************************)
LEMMA CallSteps ==
  ASSUME IInv, NEW s \in Step, AmendReturns(s) \/ CommandEnds(s) PROVE IInv'
<1>1. /\ UNCHANGED <<phase, wake, hash>>
      /\ waits' = waits \/ waits' = [waits EXCEPT ![s] = {}]
      /\ \E p \in {"running", "ended"} : at' = [at EXCEPT ![s] = p]
  BY DEF AmendReturns, CommandEnds
<1>2. UNCHANGED <<loop, wake, running, done, file, job, queue>>
  BY <1>1 DEF phase, hash
<1>3. Types'
  BY <1>1, <1>2 DEF IInv, Types, Places
<1>4. Slots' /\ Awake'
  BY <1>2 DEF IInv, Slots, Awake
<1>5. Awaited'
  BY <1>1, <1>2 DEF IInv, Types, Awaited
<1> QED BY <1>2, <1>3, <1>4, <1>5, JobsUntouched DEF IInv

LEMMA AmendStep ==
  ASSUME IInv, NEW s \in Step, Amend(s) PROVE IInv'
<1> DEFINE used == TreeFile \cap Amends[s]
           known == [f \in File |-> IF f \in used THEN Declared(used)[f] ELSE file[f]]
<1>1. /\ UNCHANGED <<loop, running, done, wake, job, queue>> /\ file' = known
      /\ at' = [at EXCEPT ![s] = "checking"]
      /\ waits' = [waits EXCEPT ![s] = {f \in Amends[s] : known[f] = "UNCONFIRMED"}]
  BY DEF Amend, phase
<1>2. Amends[s] \in SUBSET File /\ used \in SUBSET File
  BY RequestsAssumption
<1>3. known \in [File -> FileState] /\ \A f \in File : file[f] # "none" => known[f] = file[f]
  BY <1>2, DeclaredFiles DEF IInv, Types
<1> HIDE DEF known, used
<1>4. Types'
  BY <1>1, <1>2, <1>3 DEF IInv, Types, Places
<1>5. Slots' /\ Awake' /\ ClaimedOnce' /\ OneInFlight'
  BY <1>1 DEF IInv, Slots, Awake, ClaimedOnce, ClaimsOf, OneInFlight, OneFor
<1>6. Settled'
  <2>1. SettledIn(job, known)
    BY <1>3, SettledKept DEF IInv, Types, Settled
  <2> QED BY <1>1, <2>1 DEF Settled
<1>7. Awaited'
  BY <1>1, <1>2 DEF IInv, Types, Awaited
<1> QED BY <1>4, <1>5, <1>6, <1>7 DEF IInv

\* The files F enter the graph, and those that are not confirmed get a job.
LEMMA Declaring ==
  ASSUME IInv, NEW F \in SUBSET File,
         file' = Declared(F), job' = Submitted(Unconfirmed(F)),
         queue' = queue \cup Numbers(Unconfirmed(F)),
         wake' \in BOOLEAN, wake \/ Numbers(Unconfirmed(F)) # {} => wake',
         UNCHANGED <<loop, running, done, waits>>, at' \in [Step -> Places],
         \A t \in Step : at'[t] = at[t] \/ at'[t] \notin {"checking", "amending"}
  PROVE  IInv'
<1> DEFINE U == Unconfirmed(F)
           N == Numbers(U)
           js == Submitted(U)
           q == queue \cup N
<1>1. /\ Declared(F) \in [File -> FileState] /\ U \in SUBSET File
      /\ \A f \in File : file[f] # "none" => Declared(F)[f] = file[f]
  BY DeclaredFiles DEF IInv
<1>2. file' = Declared(F) /\ job' = js /\ queue' = q
  OBVIOUS
<1>3. wake \/ N # {} => wake'
  OBVIOUS
<1> HIDE DEF U
<1>4. Grown(js, N)
  BY <1>1, Submission DEF IInv
<1> HIDE DEF N, js
<1>5. ClaimsOf(js, q, running) /\ OneFor(js) /\ SettledIn(js, file) /\ q \subseteq DOMAIN js
  BY <1>4, GrownJobs DEF IInv
<1> HIDE DEF q
<1>6. /\ js \in Seq(Job) /\ DOMAIN job \subseteq DOMAIN js
      /\ \A j \in DOMAIN job : js[j] = job[j]
  BY <1>4 DEF Grown
<1>7. Types'
  BY <1>1, <1>2, <1>5, <1>6 DEF IInv, Types
<1>8. Slots' /\ ClaimedOnce' /\ OneInFlight'
  BY <1>2, <1>5 DEF IInv, Slots, ClaimedOnce, OneInFlight
<1>9. Settled'
  <2>1. SettledIn(js, Declared(F))
    BY <1>1, <1>5, <1>6, SettledKept DEF IInv
  <2> QED BY <1>2, <2>1 DEF Settled
<1>10. Awake'
  <2>1. ~wake' => ~wake /\ q = queue
    BY <1>3 DEF q
  <2>2. \A j \in queue : job'[j] = job[j]
    BY <1>2, <1>6 DEF IInv, Types
  <2> QED BY <1>2, <2>1, <2>2 DEF IInv, Awake
<1>11. Awaited'
  BY <1>2, <1>6 DEF IInv, Awaited
<1> QED BY <1>7, <1>8, <1>9, <1>10, <1>11 DEF IInv

LEMMA DeclareSteps ==
  ASSUME IInv, NEW s \in Step, DeclareStatic(s) \/ DefineSteps(s) PROVE IInv'
<1>1. CASE DeclareStatic(s)
  <2> DEFINE F == Declares[s]
  <2>1. F \in SUBSET File
    BY RequestsAssumption
  <2>2. /\ file' = Declared(F) /\ job' = Submitted(Unconfirmed(F))
        /\ queue' = queue \cup Numbers(Unconfirmed(F))
        /\ wake' = (wake \/ Numbers(Unconfirmed(F)) # {})
        /\ UNCHANGED <<loop, running, done, at, waits>>
    BY <1>1 DEF DeclareStatic, Enqueue, phase
  <2>3. wake' \in BOOLEAN /\ (wake \/ Numbers(Unconfirmed(F)) # {} => wake')
    BY <2>2 DEF IInv, Types
  <2>4. at' \in [Step -> Places] /\ \A t \in Step : at'[t] = at[t]
    BY <2>2 DEF IInv, Types
  <2> HIDE DEF F
  <2> QED BY <2>1, <2>2, <2>3, <2>4, Declaring
<1>2. CASE DefineSteps(s)
  <2> DEFINE new == {t \in Creates[s] : at[t] = "undefined"}
             F == TreeFile \cap UNION {Uses[t] : t \in new}
  <2>1. F \in SUBSET File
    BY FilesAssumption
  <2>2. /\ file' = Declared(F) /\ job' = Submitted(Unconfirmed(F))
        /\ queue' = queue \cup Numbers(Unconfirmed(F)) /\ wake' = TRUE
        /\ at' = [t \in Step |-> IF t \in new THEN "pending" ELSE at[t]]
        /\ UNCHANGED <<loop, running, done, waits>>
    BY <1>2 DEF DefineSteps, phase
  <2> HIDE DEF F, new
  <2>3. wake' \in BOOLEAN /\ (wake \/ Numbers(Unconfirmed(F)) # {} => wake')
    BY <2>2
  <2>4. /\ at' \in [Step -> Places]
        /\ \A t \in Step : at'[t] = at[t] \/ at'[t] \notin {"checking", "amending"}
    BY <2>2 DEF IInv, Types, Places
  <2> QED BY <2>1, <2>2, <2>3, <2>4, Declaring
<1> QED BY <1>1, <1>2

\* A step that waits claims the jobs that nobody runs, so that it needs no slot.
LEMMA PromoteStep ==
  ASSUME IInv, NEW s \in Step, Promote(s) PROVE IInv'
<1> DEFINE F == waits[s]
           N == Numbers(F)
           js == Submitted(F)
           J == {j \in DOMAIN js : js[j].path \in F /\ js[j].future = "none"}
           K == {j \in J : js[j].runners = {}}
           q == queue \cup N
           c == Claimed(js, K, s)
           run == running \cup K
<1>1. /\ at[s] = "checking" /\ job' = c /\ queue' = q /\ wake' = (wake \/ N # {})
      /\ waits' = [waits EXCEPT ![s] = J] /\ at' = [at EXCEPT ![s] = "amending"]
      /\ UNCHANGED <<loop, running, done, file>>
  BY DEF Promote, Enqueue, phase
<1>2. F \in SUBSET File
  BY <1>1 DEF IInv, Awaited
<1>3. /\ J \subseteq DOMAIN js /\ K \subseteq DOMAIN js
      /\ \A j \in K : js[j].runners = {} /\ js[j].future = "none"
  OBVIOUS
<1> HIDE DEF F, J, K
<1>4. Grown(js, N)
  BY <1>2, Submission DEF IInv
<1> HIDE DEF N, js
<1>5. ClaimsOf(js, q, running) /\ OneFor(js) /\ SettledIn(js, file) /\ q \subseteq DOMAIN js
  BY <1>4, GrownJobs DEF IInv
<1>6. /\ js \in Seq(Job) /\ DOMAIN job \subseteq DOMAIN js
      /\ \A j \in DOMAIN job : js[j] = job[j]
  BY <1>4 DEF Grown
<1> HIDE DEF q
<1>7. Held(c, js, q, run, file, K)
  <2>1. s \in Runner
    BY DEF Runner
  <2>2. Claimable(js, q, running, file, K, s, q)
    BY <1>3, <1>5, <1>6, <2>1 DEF Claimable
  <2> QED BY <2>2, ClaimedJobs
<1>8. running \subseteq run
  OBVIOUS
<1> HIDE DEF c, run
<1>9. c \in Seq(Job) /\ DOMAIN c = DOMAIN js /\ OneFor(c) /\ SettledIn(c, file)
  BY <1>7 DEF Held
<1>10. DOMAIN c \subseteq Nat
  BY <1>9
<1>11. Types'
  <2>1. waits' \in [Step -> SUBSET (File \cup Nat)]
    BY <1>1, <1>3, <1>9, <1>10 DEF IInv, Types
  <2>2. at' \in [Step -> Places] /\ wake' \in BOOLEAN
    BY <1>1 DEF IInv, Types, Places
  <2> QED BY <1>1, <1>5, <1>6, <1>9, <2>1, <2>2 DEF IInv, Types
<1>12. Slots' /\ OneInFlight' /\ Settled'
  BY <1>1, <1>9 DEF IInv, Slots, OneInFlight, Settled
<1>13. ClaimedOnce'
  <2>1. ClaimsOf(c, q, run)
    BY <1>7 DEF Held
  <2>2. ClaimsOf(c, q, running)
    BY <1>8, <2>1 DEF ClaimsOf
  <2> QED BY <1>1, <2>2 DEF ClaimedOnce
<1>14. Awake'
  <2>1. ~wake' => ~wake /\ q = queue
    BY <1>1 DEF q
  <2>2. \A j \in queue : job[j].runners # {} => c[j].runners # {}
    BY <1>6, <1>7 DEF Held, IInv, Types
  <2> QED BY <1>1, <2>1, <2>2 DEF IInv, Awake
<1>15. Awaited'
  BY <1>1, <1>3, <1>6, <1>9 DEF IInv, Types, Awaited
<1> QED BY <1>11, <1>12, <1>13, <1>14, <1>15 DEF IInv
-----------------------------------------------------------------------------
(***************************************************************************)
(* The hash jobs, and the end of a phase that raised.                      *)
(***************************************************************************)
\* A file gets its state in the step that resolves the future.
LEMMA WrittenFiles ==
  ASSUME IInv, NEW j \in DOMAIN job, HashDone(j) \/ HashFails(j) \/ HashCancelled(j) \/ Apply(j)
  PROVE  /\ file' \in [File -> FileState]
         /\ \A f \in File : file'[f] = file[f] \/ file'[f] \in {"CONFIRMED", "MISSING"}
         /\ Apply(j) => file'[job[j].path] \in {"CONFIRMED", "MISSING"}
         /\ UNCHANGED <<loop, wake, running, done, at, waits, queue>>
<1>1. job[j] \in Job
  BY DEF IInv, Types
<1>2. file \in [File -> FileState] /\ job[j].path \in File
  BY <1>1 DEF IInv, Types, Job
<1>3. UNCHANGED <<loop, wake, running, done, at, waits, queue>>
  BY DEF HashDone, HashFails, HashCancelled, Apply, phase, step
<1>4. CASE Apply(j)
  <2>1. PICK x \in {"CONFIRMED", "MISSING"} : file' = [file EXCEPT ![job[j].path] = x]
    BY <1>4 DEF Apply
  <2>2. /\ file' \in [File -> FileState]
        /\ \A f \in File : file'[f] = file[f] \/ file'[f] \in {"CONFIRMED", "MISSING"}
    BY <1>2, <2>1 DEF FileState
  <2>3. file'[job[j].path] \in {"CONFIRMED", "MISSING"}
    BY <1>2, <2>1
  <2> QED BY <1>3, <2>2, <2>3
<1>5. CASE ~Apply(j)
  <2>1. file' = file
    BY <1>5 DEF HashDone, HashFails, HashCancelled
  <2> QED BY <1>2, <1>3, <1>5, <2>1
<1> QED BY <1>4, <1>5

LEMMA HashJobSteps ==
  ASSUME IInv, NEW j \in DOMAIN job, HashDone(j) \/ HashFails(j) \/ HashCancelled(j) \/ Apply(j)
  PROVE  IInv'
<1>1. PICK a \in JobState, f \in Future :
        /\ Moved(j, a, f) /\ job[j].at \in {"hashing", "apply"}
        /\ (a = "apply" /\ f = job[j].future) \/ (a = "ended" /\ f # "none")
        /\ f = "result" => Apply(j) \/ f = job[j].future
  <2>1. job \in Seq(Job) /\ job[j].future \in Future
    <3>1. job[j] \in Job
      BY DEF IInv, Types
    <3> QED BY <3>1 DEF IInv, Types, Job
  <2>2. CASE HashDone(j)
    <3>1. Moved(j, "apply", job[j].future) /\ job[j].at = "hashing"
      BY <2>1, <2>2, HashSteps
    <3> QED BY <2>1, <3>1 DEF JobState
  <2>3. CASE HashFails(j)
    <3>1. Moved(j, "ended", "failed") /\ job[j].at = "hashing"
      BY <2>1, <2>3, HashSteps
    <3> QED BY <3>1 DEF JobState, Future
  <2>4. CASE HashCancelled(j)
    <3>1. Moved(j, "ended", "cancelled") /\ job[j].at = "hashing"
      BY <2>1, <2>4, HashSteps
    <3> QED BY <3>1 DEF JobState, Future
  <2>5. CASE Apply(j)
    <3>1. Moved(j, "ended", "result") /\ job[j].at = "apply"
      BY <2>1, <2>5, HashSteps
    <3> QED BY <2>5, <3>1 DEF JobState, Future
  <2> QED BY <2>2, <2>3, <2>4, <2>5
<1>2. /\ file' \in [File -> FileState]
      /\ \A g \in File : file'[g] = file[g] \/ file'[g] \in {"CONFIRMED", "MISSING"}
      /\ Apply(j) => file'[job[j].path] \in {"CONFIRMED", "MISSING"}
      /\ UNCHANGED <<loop, wake, running, done, at, waits, queue>>
  BY WrittenFiles
<1>3. /\ job' \in Seq(Job) /\ DOMAIN job' = DOMAIN job /\ job'[j].future = f
      /\ \A k \in DOMAIN job : k # j => job'[k] = job[k]
      /\ \A k \in DOMAIN job : job'[k].path = job[k].path /\ job'[k].runners = job[k].runners
  BY <1>1 DEF Moved
<1>4. ClaimsOf(job', queue, running) /\ OneFor(job')
  BY <1>1, MovedJobs DEF IInv
<1>5. Types'
  BY <1>2, <1>3 DEF IInv, Types
<1>6. Slots' /\ ClaimedOnce' /\ OneInFlight'
  BY <1>2, <1>4 DEF IInv, Slots, ClaimedOnce, OneInFlight
<1>7. Awake'
  <2>1. \A k \in queue : job'[k].runners = job[k].runners
    BY <1>3 DEF IInv, Types
  <2> QED BY <1>2, <2>1 DEF IInv, Awake
<1>8. Settled'
  <2> SUFFICES ASSUME NEW k \in DOMAIN job, job'[k].future = "result"
               PROVE  file'[job'[k].path] \in {"CONFIRMED", "MISSING"}
    BY <1>3 DEF Settled, SettledIn
  <2>1. job[k] \in Job
    BY DEF IInv, Types
  <2>2. job[k].path \in File /\ job'[k].path = job[k].path
    BY <1>3, <2>1 DEF Job
  <2>3. CASE job[k].future = "result"
    BY <1>2, <2>2, <2>3 DEF IInv, Settled, SettledIn
  <2>4. CASE job[k].future # "result"
    BY <1>1, <1>2, <1>3, <2>2, <2>4
  <2> QED BY <2>3, <2>4
<1>9. Awaited'
  BY <1>2, <1>3 DEF IInv, Awaited
<1> QED BY <1>5, <1>6, <1>7, <1>8, <1>9 DEF IInv

\* A job that is stopped in the queue is cancelled; one that runs ends unresolved.
LEMMA StopStep ==
  ASSUME IInv, Stop PROVE IInv'
<1> DEFINE e(j) == IF j \in running THEN [job[j] EXCEPT !.at = "ended"]
                   ELSE IF job[j].at = "queued"
                        THEN [job[j] EXCEPT !.at = "ended", !.future = "cancelled"]
                        ELSE job[j]
<1>1. /\ loop' = "stopped" /\ running' = {} /\ queue' = {} /\ UNCHANGED <<wake, file, waits>>
      /\ job' = [j \in DOMAIN job |-> e(j)]
      /\ at' = [s \in Step |-> IF s \in running /\ at[s] = "running" THEN "ended" ELSE at[s]]
  BY DEF Stop
<1>2. ASSUME NEW j \in DOMAIN job
      PROVE  /\ e(j) \in Job /\ e(j).path = job[j].path /\ e(j).runners = job[j].runners
             /\ \/ e(j) = job[j] /\ job[j].at # "queued"
                \/ e(j).at = "ended" /\ e(j).future = job[j].future /\ j \in running
                \/ e(j).at = "ended" /\ e(j).future = "cancelled"
  <2>1. job[j] \in Job
    BY DEF IInv, Types
  <2>2. job[j].future \in Future
    BY <2>1 DEF Job
  <2>3. CASE j \in running
    <3> DEFINE x == [[job[j] EXCEPT !.at = "ended"] EXCEPT !.future = job[j].future]
    <3>1. x = [job[j] EXCEPT !.at = "ended"]
      BY <2>1 DEF Job
    <3>2. e(j) = x
      BY <2>3, <3>1
    <3>3. IsMove(x, job[j], "ended", job[j].future)
      BY DEF IsMove
    <3> HIDE DEF x, e
    <3> QED BY <2>1, <2>2, <2>3, <3>2, <3>3, MoveFields DEF JobState
  <2>4. CASE j \notin running /\ job[j].at = "queued"
    <3>1. IsMove(e(j), job[j], "ended", "cancelled")
      BY <2>4 DEF IsMove
    <3> HIDE DEF e
    <3> QED BY <2>1, <3>1, MoveFields DEF JobState, Future
  <2>5. CASE j \notin running /\ job[j].at # "queued"
    BY <2>1, <2>5
  <2> QED BY <2>3, <2>4, <2>5
<1> HIDE DEF e
<1>3. DOMAIN job' = DOMAIN job /\ \A j \in DOMAIN job : job'[j] = e(j)
  BY <1>1
<1>4. job' \in Seq(Job)
  <2>1. PICK n \in Nat : DOMAIN job = 1 .. n
    BY DEF IInv, Types
  <2>2. job' \in [1 .. n -> Job]
    BY <1>1, <1>2, <2>1
  <2> QED BY <2>1, <2>2, SeqDef
<1>5. Types' /\ Slots' /\ Awake'
  <2>1. IsFiniteSet(running') /\ Cardinality(running') = 0
    BY <1>1, FS_EmptySet
  <2>2. at' \in [Step -> Places]
    BY <1>1 DEF IInv, Types, Places
  <2>3. Types'
    BY <1>1, <1>3, <1>4, <2>1, <2>2 DEF IInv, Types
  <2> QED BY <1>1, <2>1, <2>3, PhaseAssumption DEF Slots, Awake
<1>6. ClaimedOnce'
  <2> SUFFICES ASSUME NEW j \in DOMAIN job
               PROVE  /\ e(j).future = "none" /\ e(j).runners = {} => e(j).at = "queued"
                      /\ e(j).at = "queued" => e(j).runners = {}
                      /\ e(j).at \in {"hashing", "apply"} =>
                           e(j).future = "none" /\ \E r \in Runner : e(j).runners = {r}
    BY <1>1, <1>3 DEF ClaimedOnce, ClaimsOf
  <2> QED BY <1>2 DEF IInv, ClaimedOnce, ClaimsOf
<1>7. OneInFlight'
  <2>1. \A j \in DOMAIN job : e(j).path = job[j].path /\ (e(j).future = "none" => job[j].future = "none")
    BY <1>2
  <2> QED BY <1>3, <2>1 DEF IInv, OneInFlight, OneFor
<1>8. Settled'
  <2>1. \A j \in DOMAIN job :
          e(j).path = job[j].path /\ (e(j).future = "result" => job[j].future = "result")
    BY <1>2
  <2> QED BY <1>1, <1>3, <2>1 DEF IInv, Settled, SettledIn
<1>9. Awaited'
  BY <1>1, <1>3 DEF IInv, Awaited
<1> QED BY <1>5, <1>6, <1>7, <1>8, <1>9 DEF IInv

LEMMA IInvNext == IInv /\ [Next]_vars => IInv'
<1> SUFFICES ASSUME IInv, [Next]_vars PROVE IInv'
  OBVIOUS
<1>1. CASE UNCHANGED vars
  <2>1. UNCHANGED <<loop, wake, running, done, at, waits, file, job, queue>>
    BY <1>1 DEF vars, step, hash
  <2> QED
    BY <2>1 DEF IInv, Types, Slots, ClaimedOnce, ClaimsOf, OneInFlight, OneFor, Awake, Settled,
                SettledIn, Awaited
<1>2. CASE Poll
  BY <1>2, PollStep
<1>3. CASE PollRaises \/ PopNothing \/ Wake \/ \E t \in running : TaskDone(t)
  BY <1>3, LoopSteps
<1>4. CASE Stop
  BY <1>4, StopStep
<1>5. ASSUME NEW s \in Step,
             PopStep(s) \/ DeclareStatic(s) \/ DefineSteps(s) \/ CommandEnds(s) PROVE IInv'
  BY <1>5, PopStepStep, DeclareSteps, CallSteps
<1>6. ASSUME NEW s \in Step, Amend(s) \/ Promote(s) \/ AmendReturns(s) PROVE IInv'
  BY <1>6, AmendStep, PromoteStep, CallSteps
<1>7. ASSUME NEW j \in DOMAIN job, HashDone(j) \/ HashFails(j) \/ Apply(j) \/ HashCancelled(j)
      PROVE  IInv'
  BY <1>7, HashJobSteps
<1> QED BY <1>1, <1>2, <1>3, <1>4, <1>5, <1>6, <1>7 DEF Next
-----------------------------------------------------------------------------
(***************************************************************************)
(* The theorems.                                                           *)
(***************************************************************************)
\* Builder.job_loop and HashQueue: every reachable state has the shape of the
\* variables, tasks within the slots, one claim and one job in flight for a
\* path, a loop that has seen all work, and results that are written.
THEOREM IInvAlways == Spec => []IInv
BY IInvInit, IInvNext, PTL DEF Spec

\* HashQueue.claim and in_flight: no path is hashed by two threads at a time,
\* whoever asks for its hash, and the loop keeps to its job slots.
THEOREM HashedOnceAlways == Spec => []HashedOnce
<1>1. IInv => HashedOnce
  <2> SUFFICES ASSUME IInv PROVE HashedOnce
    OBVIOUS
  <2>1. \A j \in DOMAIN job : job[j].future \in Future
    <3>1. \A j \in DOMAIN job : job[j] \in Job
      BY DEF IInv, Types
    <3> QED BY <3>1 DEF Job
  <2>2. TypeOK
    BY <2>1 DEF IInv, Types, Slots, TypeOK, Places, FileState, Future
  <2>3. ASSUME NEW f \in File PROVE Cardinality(HashedBy(f)) <= 1
    <3> DEFINE H == HashedBy(f)
    <3>1. ASSUME NEW x \in H, NEW y \in H PROVE x = y
      <4>1. /\ x = <<x[1], x[2]>> /\ y = <<y[1], y[2]>>
            /\ x[1] \in DOMAIN job /\ y[1] \in DOMAIN job
            /\ job[x[1]].path = f /\ job[x[1]].at \in {"hashing", "apply"}
            /\ job[y[1]].path = f /\ job[y[1]].at \in {"hashing", "apply"}
            /\ x[2] \in job[x[1]].runners /\ y[2] \in job[y[1]].runners
        <5>1. ASSUME NEW z \in H
              PROVE  /\ z = <<z[1], z[2]>> /\ z[1] \in DOMAIN job /\ z[2] \in job[z[1]].runners
                     /\ job[z[1]].path = f /\ job[z[1]].at \in {"hashing", "apply"}
          <6>1. /\ z[2] \in job[z[1]].runners /\ job[z[1]].path = f
                /\ job[z[1]].at \in {"hashing", "apply"}
            BY DEF HashedBy
          <6>2. z \in (DOMAIN job) \X (Step \cup {"loop"})
            BY DEF HashedBy
          <6> HIDE DEF H
          <6> QED BY <6>1, <6>2
        <5> QED BY <5>1
      <4>2. /\ job[x[1]].future = "none" /\ job[y[1]].future = "none"
            /\ \E r \in Runner : job[x[1]].runners = {r}
        BY <4>1 DEF IInv, ClaimedOnce, ClaimsOf
      <4>3. x[1] = y[1]
        BY <4>1, <4>2 DEF IInv, OneInFlight, OneFor
      <4>4. x[2] = y[2]
        BY <4>1, <4>2, <4>3
      <4> QED BY <4>1, <4>3, <4>4
    <3> HIDE DEF H
    <3>2. CASE H = {}
      BY <3>2, FS_EmptySet DEF H
    <3>3. CASE H # {}
      <4>1. PICK x : x \in H
        BY <3>3
      <4>2. H = {x}
        BY <3>1, <4>1
      <4>3. Cardinality(H) = 1
        BY <4>2, FS_Singleton
      <4> QED BY <4>3 DEF H
    <3> QED BY <3>2, <3>3
  <2> QED BY <2>2, <2>3 DEF HashedOnce, OneRunner
<1> QED BY <1>1, IInvAlways, PTL

\* Builder.wake_job_loop: whatever ends, is submitted or is claimed while the
\* loop is about to wait, the loop does not sleep on it.
THEOREM NoLostWakeAlways == Spec => []NoLostWake
<1>1. IInv => NoLostWake
  BY DEF IInv, Awake, NoLostWake
<1> QED BY <1>1, IInvAlways, PTL

\* DirectorHandler.amend_step reads the states of its inputs after the hash
\* jobs it waited for: each has been written by then.
THEOREM AmendSeesStateAlways == Spec => []AmendSeesState
<1>1. IInv => AmendSeesState
  BY DEF IInv, Settled, SettledIn, Awaited, AmendSeesState
<1> QED BY <1>1, IInvAlways, PTL
=============================================================================
