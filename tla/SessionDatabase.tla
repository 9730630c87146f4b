--------------------------- MODULE SessionDatabase ---------------------------
(***************************************************************************)
(* The file of the session store: two tables, the schema version, and the  *)
(* locks under which the statements of internal/session run.  Every kagen  *)
(* process has one connection.  The statements are parts of actions: the   *)
(* module that extends this one says which command issues which, and when. *)
(*                                                                         *)
(* The locks are those of SQLite with a rollback journal.  SHARED and      *)
(* RESERVED are modelled; a reader does not keep a SHARED lock beyond its   *)
(* statement, except for a transaction that has only read so far.  PENDING *)
(* and EXCLUSIVE are the instant of the commit, which waits until nobody   *)
(* else has SHARED; that PENDING keeps new readers out in the meantime is  *)
(* left out.  What a transaction wrote is seen by nobody before its        *)
(* commit, so it is applied there, and a process that dies has written     *)
(* nothing.                                                                *)
(***************************************************************************)
EXTENDS Naturals, FiniteSets

CONSTANTS
  Starts,    \* kagen start processes, and the sessions they persist
  Attaches,  \* kagen attach processes
  Doctors,   \* kagen doctor processes
  None       \* nothing, nobody

Operations == Starts \union Attaches
Processes == Operations \union Doctors

ASSUME ProcessAssumption ==
  /\ IsFiniteSet(Processes)
  /\ Starts \intersect Attaches = {}
  /\ Operations \intersect Doctors = {}
  /\ None \notin Processes

VARIABLES
  version,  \* PRAGMA user_version, as committed
  tables,   \* whether the tables and indexes of migration 1 are committed
  session,  \* kagen_sessions: the status and last_used_at of every session
  nested,   \* agent_sessions: the rows of every session, named by their process
  lock      \* what every process holds on the file

dbVars == <<version, tables, session, nested, lock>>

Statuses == {"none", "starting", "ready", "failed"}
Locks == {"none", "shared", "reserved"}

DatabaseTypeOK ==
  /\ version \in {0, 1}
  /\ tables \in BOOLEAN
  /\ session \in [Starts -> [status : Statuses, lastUsed : Nat]]
  /\ nested \in [Starts -> SUBSET Operations]
  /\ lock \in [Processes -> Locks]

\* No file, or the empty one that sql.Open makes.
DatabaseInit ==
  /\ version = 0
  /\ tables = FALSE
  /\ session = [s \in Starts |-> [status |-> "none", lastUsed |-> 0]]
  /\ nested = [s \in Starts |-> {}]
  /\ lock = [p \in Processes |-> "none"]

-----------------------------------------------------------------------------
(* Locks. *)

Takes(p, l) == lock' = [lock EXCEPT ![p] = l]

OtherHas(p, l) == \E q \in Processes \ {p} : lock[q] = l

\* The first writing statement of a transaction; it waits for another writer.
Reserves(p) == ~OtherHas(p, "reserved") /\ Takes(p, "reserved")

\* PRAGMA busy_timeout: the wait for another writer ends with an error.
TimesOut(p) == OtherHas(p, "reserved") /\ Takes(p, "none")

CanCommit(p) == lock[p] = "reserved" /\ ~OtherHas(p, "shared")

\* The end of a transaction, or of the process.
Releases(p) == Takes(p, "none")

-----------------------------------------------------------------------------
(* Open. *)

\* CREATE TABLE IF NOT EXISTS, compiled while the tables are there: it only reads.
TablesExist(p) == tables /\ Takes(p, "shared")

\* Mutant: the migration reads before it writes.
ReservesAfterReading(p) == Takes(p, "shared")

\* The statements compiled while the tables are not there write, even if another
\* process creates the tables during the wait.
CreateTables(p) == Reserves(p)

\* PRAGMA user_version = 1.
UserVersion(p) ==
  \/ lock[p] = "reserved" /\ UNCHANGED lock
  \/ lock[p] = "shared" /\ Reserves(p)

\* A transaction that has read does not wait for another writer: SQLite returns
\* SQLITE_BUSY at once, since that writer waits for this reader.
UserVersionBusy(p) == lock[p] = "shared" /\ TimesOut(p)

\* Mutant: the version is written by the first of two transactions.
CommitVersionOnly(p) ==
  /\ CanCommit(p)
  /\ version' = 1
  /\ Releases(p)
  /\ UNCHANGED <<tables, session, nested>>

CommitMigration(p) ==
  /\ CanCommit(p)
  /\ version' = 1
  /\ tables' = TRUE
  /\ Releases(p)
  /\ UNCHANGED <<session, nested>>

-----------------------------------------------------------------------------
(* The statements of the commands, each as its commit. *)

CreateKagenSession(s, createdAt) ==
  /\ CanCommit(s)
  /\ session' = [session EXCEPT ![s] = [status |-> "starting", lastUsed |-> createdAt]]
  /\ Releases(s)
  /\ UNCHANGED <<version, tables, nested>>

CreateAgentSession(p, s) ==
  /\ CanCommit(p)
  /\ nested' = [nested EXCEPT ![s] = @ \union {p}]
  /\ Releases(p)
  /\ UNCHANGED <<version, tables, session>>

UpdateKagenSessionStatus(p, s, status) ==
  /\ CanCommit(p)
  /\ session' = [session EXCEPT ![s].status = status]
  /\ Releases(p)
  /\ UNCHANGED <<version, tables, nested>>

\* Both updates of the transaction; that of the agent session repeats the time the
\* row was created with.
RecordAttach(p, s, attachedAt) ==
  /\ CanCommit(p)
  /\ session' = [session EXCEPT ![s].lastUsed = attachedAt]
  /\ Releases(p)
  /\ UNCHANGED <<version, tables, nested>>

=============================================================================
