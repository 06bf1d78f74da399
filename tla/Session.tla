--------------------------------- MODULE Session ---------------------------------
(***************************************************************************)
(* The database session of the director: one connection, a lock, explicit  *)
(* transactions, and a schema that is checked, wiped or created at startup *)
(* (core/sqlite3.py, Trellis.initialize in core/trellis.py).               *)
(*                                                                         *)
(* Tasks of one event loop enter and leave the contexts of DBSession, may  *)
(* raise or be cancelled anywhere, and the director may crash between two  *)
(* statements.  A transaction adds one to every row of Row, one statement  *)
(* at a time, so that a transaction that is cut in two, that is lost, or   *)
(* that takes part in another one shows in the rows.  Outside transactions *)
(* every statement is committed on its own.  What a crash of the machine   *)
(* may lose (PRAGMA synchronous) is left out.                              *)
(***************************************************************************)
EXTENDS Integers, Sequences, SequencesExt

CONSTANTS Task,        \* the tasks that use the session once the director is up
          Row,         \* the rows that a transaction changes
          Table,       \* the tables of the schema
          NodeTable,   \* the table that holds the root node
          MaxCommits,  \* bound on transactions
          MaxCrashes   \* bound on crashes and stops

None == "none"

ASSUME NodeTableType == NodeTable \in Table
ASSUME NoneIsNoTask == None \notin Task
ASSUME BoundType == MaxCommits \in Nat /\ MaxCrashes \in Nat

VARIABLES
  file,     \* what is committed: application_id, user_version, tables, root, rows
  tx,       \* the rows as the open transaction sees them, or << >>
  held,     \* DBSession._held: the task with exclusive access, or None
  opened,   \* whether it opened a transaction (_Held.opened_transaction)
  queue,    \* the tasks that wait for DBSession._lock
  wants,    \* wants[t]: whether a waiting task t will open a transaction
  left,     \* left[t]: the rows that the body of t has yet to change
  phase,    \* the statement of the startup that is next, or "up", "closed", "down", "failed"
  fresh,    \* is_fresh of DBSession.apply_schema
  commits,  \* the number of contexts that were left without an exception
  crashes   \* the number of crashes and stops

session == <<tx, held, opened, queue, wants, left>>
sessionVars == <<file, session, phase, fresh, commits, crashes>>

Empty == [k \in Table |-> None]
Full(version) == [k \in Table |-> version]
Zero == [r \in Row |-> 0]

\* The files that a start may find: none, one of this schema, one of an older
\* schema, and a database of another application.
Files ==
  {[app |-> None, version |-> None, tables |-> Empty, root |-> FALSE, rows |-> Zero],
   [app |-> "ours", version |-> "now", tables |-> Full("now"), root |-> TRUE, rows |-> Zero],
   [app |-> "ours", version |-> "old", tables |-> Full("old"), root |-> TRUE, rows |-> Zero],
   [app |-> "other", version |-> "now", tables |-> Full("old"), root |-> FALSE, rows |-> Zero]}

Unused ==
  /\ tx = << >> /\ held = None /\ opened = FALSE /\ queue = << >>
  /\ wants = [t \in Task |-> FALSE] /\ left = [t \in Task |-> Row]

SessionInit ==
  /\ file \in Files /\ Unused
  /\ phase = "down" /\ fresh = FALSE /\ commits = 0 /\ crashes = 0
-----------------------------------------------------------------------------
(***************************************************************************)
(* Startup: connect, apply_schema in autocommit mode, and the transaction  *)
(* of Trellis.initialize.                                                  *)
(***************************************************************************)
Boot ==
  /\ phase \in {"down", "failed"} /\ crashes < MaxCrashes
  /\ phase' = "inspect" /\ fresh' = FALSE
  /\ UNCHANGED <<file, session, commits, crashes>>

Startup(at, f, to) ==
  /\ phase = at /\ file' = f /\ phase' = to
  /\ UNCHANGED <<session, commits, crashes>>

\* Mutant: the application is not looked at.
SeenAny == IF file.tables = Empty \/ file.version = "now" THEN "app" ELSE "wipe"

\* What apply_schema does next with the database that it finds.  One without
\* tables is taken for a new one, whatever its pragmas.
Seen ==
  IF file.tables = Empty \/ (file.app = "ours" /\ file.version = "now") THEN "app"
  ELSE IF file.app = "ours" THEN "wipe" ELSE "failed"

\* Mutant: the version is written before the older tables are wiped.
InspectMarking ==
  /\ fresh' = (file.tables = Empty)
  /\ Startup("inspect", IF Seen = "wipe" THEN [file EXCEPT !.version = "now"] ELSE file, Seen)

Inspect == fresh' = (file.tables = Empty) /\ Startup("inspect", file, Seen)

\* _wipe_database, one table at a time.  Nothing was committed to an older
\* database here, so that file.rows has nothing to lose.
Drop(k) ==
  /\ file.tables[k] # None
  /\ Startup("wipe", [file EXCEPT !.tables[k] = None, !.root = @ /\ k # NodeTable], "wipe")
  /\ UNCHANGED fresh

Wiped == file.tables = Empty /\ Startup("wipe", file, "app") /\ fresh' = TRUE

SetApplicationId == Startup("app", [file EXCEPT !.app = "ours"], "version") /\ UNCHANGED fresh

SetUserVersion == Startup("version", [file EXCEPT !.version = "now"], "scripts") /\ UNCHANGED fresh

\* CREATE TABLE IF NOT EXISTS.
CreateTable(k) ==
  /\ file.tables[k] = None
  /\ Startup("scripts", [file EXCEPT !.tables[k] = "now"], "scripts")
  /\ UNCHANGED fresh

SchemaApplied ==
  /\ \A k \in Table : file.tables[k] # None
  /\ Startup("scripts", file, "root") /\ UNCHANGED fresh

\* Trellis.initialize: the root node is created in a new database, and without
\* one the consistency check of an existing database raises.
InitializeRoot ==
  /\ Startup("root", [file EXCEPT !.root = @ \/ fresh],
             IF fresh \/ file.root THEN "up" ELSE "failed")
  /\ UNCHANGED fresh
-----------------------------------------------------------------------------
(***************************************************************************)
(* Exclusive access.                                                       *)
(***************************************************************************)
Keep == UNCHANGED <<phase, fresh, crashes>>

\* DBSession._release.
Released == held' = None /\ opened' = FALSE /\ tx' = << >>

\* A task that waits for the lock runs nothing else.
Runs(t) == t \notin ToSet(queue)

\* Mutant: whoever finds a transaction open takes part in it.
RequireAny(t) == held # None /\ opened /\ Runs(t)

\* DBSession._require_transaction_con; it raises otherwise.
Require(t) == held = t /\ opened /\ Runs(t)

\* The context is left with an exception: rollback in a transaction.
Fail(t) ==
  /\ held = t /\ Runs(t)
  /\ Released /\ left' = [left EXCEPT ![t] = Row]
  /\ UNCHANGED <<file, queue, wants, commits>> /\ Keep

Wait(t, transaction) ==
  /\ queue' = Append(queue, t)
  /\ wants' = [wants EXCEPT ![t] = transaction]
  /\ UNCHANGED <<file, tx, held, opened, left, commits>> /\ Keep

\* Mutant: a task that holds the connection waits for it.
EnterAgain(t, transaction) ==
  /\ phase = "up" /\ Runs(t)
  /\ transaction => commits < MaxCommits
  /\ Wait(t, transaction)

\* A task asks for a transaction (__aenter__) or for autocommit mode; inside a
\* context of its own that raises.
Enter(t, transaction) ==
  /\ phase = "up" /\ Runs(t)
  /\ transaction => commits < MaxCommits
  /\ IF held = t THEN Fail(t) ELSE Wait(t, transaction)

Leave == queue' = Tail(queue) /\ UNCHANGED <<file, wants, left, commits>> /\ Keep

\* DBSession._acquire returns to the first task that waits, which begins a
\* transaction if it wants one.
Acquire(t) ==
  /\ held = None /\ queue # << >> /\ Head(queue) = t /\ phase = "up"
  /\ held' = t /\ opened' = wants[t]
  /\ tx' = IF wants[t] THEN file.rows ELSE << >>
  /\ Leave

\* The session is closed, or BEGIN IMMEDIATE raises.
AcquireFails(t) ==
  /\ held = None /\ queue # << >> /\ Head(queue) = t
  /\ phase = "up" => wants[t]
  /\ Leave /\ UNCHANGED <<tx, held, opened>>

\* A task that waits is cancelled.
Cancel(t) ==
  /\ \E i \in DOMAIN queue : queue[i] = t /\ queue' = RemoveAt(queue, i)
  /\ UNCHANGED <<file, tx, held, opened, wants, left, commits>> /\ Keep

\* DBSession.execute and executemany: one more row of the body of t.
Execute(t, r) ==
  /\ Require(t) /\ r \in left[t]
  /\ tx' = [tx EXCEPT ![r] = @ + 1]
  /\ left' = [left EXCEPT ![t] = @ \ {r}]
  /\ UNCHANGED <<file, held, opened, queue, wants, commits>> /\ Keep

\* DBSession.__aexit__ without an exception.
Commit(t) ==
  /\ Require(t) /\ left[t] = {}
  /\ file' = [file EXCEPT !.rows = tx] /\ commits' = commits + 1
  /\ Released /\ left' = [left EXCEPT ![t] = Row]
  /\ UNCHANGED <<queue, wants>> /\ Keep

\* reclaim_free_space frees pages and returns.
Reclaim(t) == held = t /\ ~opened /\ Fail(t)

\* The end of the context of DBSession.open, which nobody may hold then.
Close ==
  /\ phase = "up" /\ held = None /\ crashes < MaxCrashes
  /\ phase' = "closed" /\ crashes' = crashes + 1
  /\ UNCHANGED <<file, session, fresh, commits>>

\* A crash, or the end of the process after the session is closed.
Crash ==
  /\ phase \notin {"down", "failed"}
  /\ phase # "closed" => crashes < MaxCrashes
  /\ phase' = "down" /\ crashes' = IF phase = "closed" THEN crashes ELSE crashes + 1
  /\ tx' = << >> /\ held' = None /\ opened' = FALSE /\ queue' = << >>
  /\ wants' = [t \in Task |-> FALSE] /\ left' = [t \in Task |-> Row]
  /\ UNCHANGED <<file, fresh, commits>>
-----------------------------------------------------------------------------
Start ==
  \/ Inspect \/ (\E k \in Table : Drop(k)) \/ Wiped
  \/ SetApplicationId \/ SetUserVersion
  \/ (\E k \in Table : CreateTable(k)) \/ SchemaApplied \/ InitializeRoot

\* What gives the lock to a task, and what ends the context of the one that has it.
Serve == \E t \in Task : Acquire(t) \/ AcquireFails(t)
Proceed == \E t \in Task : (\E r \in Row : Execute(t, r)) \/ Commit(t) \/ Reclaim(t)

SessionNext ==
  \/ Boot \/ Start \/ Serve \/ Proceed \/ Close \/ Crash
  \/ \E t \in Task : Fail(t) \/ Cancel(t) \/ (\E b \in BOOLEAN : Enter(t, b))

\* asyncio.Lock wakes the first task that waits, and the bodies of the contexts
\* end: they wait for nothing that needs the session.
SessionSpec == SessionInit /\ [][SessionNext]_sessionVars /\ WF_sessionVars(Serve) /\ WF_sessionVars(Proceed)
-----------------------------------------------------------------------------
SessionTypeOK ==
  /\ file \in [app : {None, "ours", "other"}, version : {None, "now", "old"},
               tables : [Table -> {None, "now", "old"}], root : BOOLEAN, rows : [Row -> Nat]]
  /\ held \in Task \cup {None} /\ opened \in BOOLEAN
  /\ IF held # None /\ opened THEN tx \in [Row -> Nat] ELSE tx = << >>
  /\ queue \in Seq(Task) /\ IsInjective(queue)
  /\ wants \in [Task -> BOOLEAN] /\ left \in [Task -> SUBSET Row]
  /\ phase \in {"inspect", "wipe", "app", "version", "scripts", "root",
                "up", "closed", "down", "failed"}
  /\ fresh \in BOOLEAN /\ commits \in Nat /\ crashes \in 0 .. MaxCrashes

\* What is committed is every transaction that was left without an exception,
\* each as a whole, and nothing of one that raised, was cancelled or was cut
\* short by a crash, with tasks that take turns between its statements
\* (DBSession._require_transaction_con, __aexit__).
CommittedExactly == \A r \in Row : file.rows[r] = commits

\* The director only comes up with a database of its own that has every table
\* of this schema and the root node, whatever an earlier start left half done
\* (DBSession.apply_schema, Trellis.initialize).
UpIsComplete ==
  phase = "up" => /\ file.app = "ours" /\ file.version = "now"
                  /\ file.tables = Full("now") /\ file.root

\* No start changes the database of another application, however often it is
\* tried (DBSession.apply_schema).
ForeignUntouched == [][file.app = "other" => UNCHANGED file]_sessionVars

\* Every task that waits for the session gets it, is refused or is cancelled:
\* no order of contexts deadlocks, with tasks that ask for a context inside
\* another one, raise, are cancelled or find the session closed
\* (DBSession._acquire, __aenter__).
WaitersServed == \A t \in Task : t \in ToSet(queue) ~> t \notin ToSet(queue)

\* The types, and the transactions.
Isolated == SessionTypeOK /\ CommittedExactly
=============================================================================
