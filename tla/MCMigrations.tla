---------------------------- MODULE MCMigrations ----------------------------
(***************************************************************************)
(* Two processes that start together on one database, on either backend:   *)
(* Init chooses it, and the two specifications share the variables that    *)
(* both kinds of database have.                                            *)
(***************************************************************************)
EXTENDS MigrationScripts

CONSTANT MaxStops

ASSUME StopsAssumption == MaxStops \in Nat

VARIABLES
  backend,
  overlapped,            \* did two runs ever take place at once?
  schema, recorded, writer, pc, applied,
  line,                  \* SQLite only
  tracked, work, stops   \* PostgreSQL only

Sqlite == INSTANCE SqliteMigration
Postgres == INSTANCE PostgresMigration

OnSqlite == backend = "sqlite"
OnPostgres == backend = "postgresql"

Start ==
  \/ /\ OnSqlite /\ Sqlite!Init
     /\ tracked = FALSE /\ work = schema /\ stops = 0
  \/ /\ OnPostgres /\ Postgres!Init
     /\ line = [m \in Migrators |-> 1]

Init == Start /\ overlapped = FALSE

PostgresStep(A) == OnPostgres /\ A /\ UNCHANGED <<backend, line>>

Running(m) == pc[m] \notin {"idle", "done", "stopped", "failed"}

Watch ==
  overlapped' = (overlapped \/ \E m, n \in Migrators : m # n /\ Running(m)' /\ Running(n)')

Step ==
  \/ OnSqlite /\ Sqlite!Next /\ UNCHANGED <<backend, tracked, work, stops>>
  \/ PostgresStep(Postgres!Next)

Next == Step /\ Watch

\* Runs on PostgreSQL go on and are repeated, see PostgresMigration; nothing is
\* assumed of those on SQLite.
Spec ==
  /\ Init
  /\ [][Next]_<<backend, overlapped, Sqlite!vars, tracked, work, stops>>
  /\ \A m \in Migrators :
       WF_<<backend, Postgres!vars, line>>(PostgresStep(Postgres!Migrate(m)))

-----------------------------------------------------------------------------

\* The types of both.
TypeOK == (OnSqlite => Sqlite!TypeOK) /\ (OnPostgres => Postgres!TypeOK)

\* On both backends the rows of a service in use survive, wherever a run stops.
RowsAreKept == Sqlite!RowsAreKept

\* On SQLite, where each statement stands by itself and the record comes last, a
\* service that finds every version recorded (verify_database_ready) finds the
\* tables and columns it writes, however many runs died or were refused before,
\* as long as no two took place at once.
ReadyIsMigrated ==
  (OnSqlite /\ ~overlapped /\ recorded = Versions) =>
    \A v \in Versions : Provides(SqliteScripts, schema, v)

\* What is recorded is there, and nothing half, on PostgreSQL.
RecordedIsMigrated == OnPostgres => Postgres!RecordedIsMigrated

\* On PostgreSQL a run is refused only when another one has migrated the database.
RefusedOnlyWhenDone == OnPostgres => Postgres!RefusedOnlyWhenDone

\* On PostgreSQL the database ends up migrated.
Migrated == OnPostgres => Postgres!Migrated

=============================================================================
