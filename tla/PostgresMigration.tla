-------------------------- MODULE PostgresMigration --------------------------
(***************************************************************************)
(* postgresql_migrations.migrate on one database, run by any number of     *)
(* processes, any of which may die at any point and be started again.      *)
(*                                                                         *)
(* PostgreSQL runs DDL inside transactions, and the whole run, from the    *)
(* CREATE TABLE of schema_migrations to the last record, is one of them.   *)
(* The first statement of a script locks what it alters until the end of   *)
(* the transaction, so one process at a time is past it; it then sees the  *)
(* tables the previous one committed.                                      *)
(***************************************************************************)
EXTENDS MigrationScripts

CONSTANT MaxStops  \* bound on the failures and deaths of one behaviour

VARIABLES
  schema,    \* the tables, as committed
  recorded,  \* the committed rows of schema_migrations
  tracked,   \* schema_migrations exists, as committed
  writer,    \* whose transaction holds the locks
  work,      \* its uncommitted tables
  pc,
  applied,   \* the versions a migrator read, and those it did since
  stops

vars == <<schema, recorded, tracked, writer, work, pc, applied, stops>>

Init ==
  /\ \/ schema = Empty /\ recorded = {} /\ tracked = FALSE
     \/ \E k \in Versions :
          schema = InUse(PostgresScripts, k) /\ recorded = 4..k /\ tracked = TRUE
  /\ writer = Nobody
  /\ work = schema
  /\ pc = [m \in Migrators |-> "idle"]
  /\ applied = [m \in Migrators |-> {}]
  /\ stops = 0

Goto(m, p) == pc' = [pc EXCEPT ![m] = p]

Current(m) == NextVersion(applied[m])

\* Rolls back what m did, and with it its records.
RollBack(m, outcome) ==
  /\ Goto(m, outcome)
  /\ IF writer = m THEN writer' = Nobody /\ work' = schema ELSE UNCHANGED <<writer, work>>
  /\ UNCHANGED <<schema, recorded, tracked, applied>>

\* CREATE TABLE IF NOT EXISTS schema_migrations looks for the table first.
Start(m) ==
  /\ pc[m] = "idle"
  /\ Goto(m, IF tracked THEN "read" ELSE "create")
  /\ UNCHANGED <<schema, recorded, tracked, writer, work, applied, stops>>

\* It is created, behind whoever is creating it.
Create(m) ==
  /\ pc[m] = "create" /\ ~tracked
  /\ writer = Nobody
  /\ writer' = m
  /\ Goto(m, "read")
  /\ UNCHANGED <<schema, recorded, tracked, work, applied, stops>>

\* Whoever it waited for has created the table: the catalogue refuses it, here and
\* at the tables of the first scripts.
CreatedTwice(m) ==
  /\ \/ pc[m] = "create" /\ tracked
     \/ pc[m] = "script" /\ Current(m) = 4 /\ 4 \in recorded
  /\ RollBack(m, "refused")
  /\ UNCHANGED stops

\* The versions it has.
Read(m) ==
  /\ pc[m] = "read"
  /\ applied' = [applied EXCEPT ![m] = recorded]
  /\ Goto(m, IF Pending(recorded) = {} THEN "commit" ELSE "script")
  /\ UNCHANGED <<schema, recorded, tracked, writer, work, stops>>

ScriptUnlocked(m) ==  \* Mutant: the script is run in autocommit mode
  /\ pc[m] = "script" /\ writer \in {Nobody, m}
  /\ writer' = m
  /\ work' = RunScript(work, Script(PostgresScripts, Current(m)))
  /\ schema' = work'
  /\ Goto(m, "record")
  /\ UNCHANGED <<recorded, tracked, applied, stops>>

\* cur.execute of the whole file, behind whoever holds the tables.
RunPending(m) ==
  /\ pc[m] = "script"
  /\ writer \in {Nobody, m}
  /\ writer' = m
  /\ work' = RunScript(work, Script(PostgresScripts, Current(m)))
  /\ Goto(m, "record")
  /\ UNCHANGED <<schema, recorded, tracked, applied, stops>>

RecordAtOnce(m) ==  \* Mutant: each version is committed when it is recorded
  /\ pc[m] = "record" /\ Current(m) \notin recorded
  /\ schema' = work /\ recorded' = recorded \cup {Current(m)} /\ tracked' = TRUE
  /\ writer' = Nobody
  /\ applied' = [applied EXCEPT ![m] = recorded']
  /\ Goto(m, IF Pending(recorded') = {} THEN "commit" ELSE "script")
  /\ UNCHANGED <<work, stops>>

\* INSERT INTO schema_migrations.
Record(m) ==
  /\ pc[m] = "record"
  /\ Current(m) \notin recorded
  /\ applied' = [applied EXCEPT ![m] = @ \cup {Current(m)}]
  /\ Goto(m, IF Pending(applied'[m]) = {} THEN "commit" ELSE "script")
  /\ UNCHANGED <<schema, recorded, tracked, writer, work, stops>>

\* The primary key refuses it: whoever it waited for has recorded the version.
RecordedTwice(m) ==
  /\ pc[m] = "record"
  /\ Current(m) \in recorded
  /\ RollBack(m, "refused")
  /\ UNCHANGED stops

CommitForgotten(m) ==  \* Mutant: the connection is closed without a commit
  /\ pc[m] = "commit" /\ stops' = stops /\ RollBack(m, "done")

\* The end of the with block.
Commit(m) ==
  /\ pc[m] = "commit"
  /\ IF writer = m
       THEN /\ schema' = work
            /\ recorded' = recorded \cup applied[m]
            /\ tracked' = TRUE
            /\ writer' = Nobody
       ELSE UNCHANGED <<schema, recorded, tracked, writer>>
  /\ Goto(m, "done")
  /\ UNCHANGED <<work, applied, stops>>

\* A statement raises, the connection is lost, or the process dies.
Stop(m) ==
  /\ pc[m] \in {"create", "read", "script", "record", "commit"}
  /\ stops < MaxStops
  /\ stops' = stops + 1
  /\ RollBack(m, "stopped")

\* The migration is run again.
Rerun(m) ==
  /\ pc[m] \in {"done", "refused", "stopped"}
  /\ Goto(m, "idle")
  /\ applied' = [applied EXCEPT ![m] = {}]
  /\ UNCHANGED <<schema, recorded, tracked, writer, work, stops>>

\* A run that was started, and is run again as long as it fails.
Migrate(m) ==
  \/ Start(m) \/ Create(m) \/ CreatedTwice(m) \/ Read(m) \/ RunPending(m) \/ Record(m)
  \/ RecordedTwice(m) \/ Commit(m)
  \/ pc[m] # "done" /\ Rerun(m)

Next == \E m \in Migrators : Migrate(m) \/ Rerun(m) \/ Stop(m)

Spec == Init /\ [][Next]_vars

\* The statements of a run that is not interrupted are executed one after the
\* other, and PostgreSQL grants its locks in turn.
FairSpec == Spec /\ \A m \in Migrators : WF_vars(Migrate(m))

-----------------------------------------------------------------------------

TypeOK ==
  /\ schema \in Schemas /\ work \in Schemas
  /\ recorded \subseteq Versions /\ tracked \in BOOLEAN
  /\ writer \in Migrators \cup {Nobody}
  /\ pc \in [Migrators -> {"idle", "create", "read", "script", "record", "commit",
                           "done", "refused", "stopped"}]
  /\ applied \in [Migrators -> SUBSET Versions]
  /\ stops \in 0..MaxStops

\* What is recorded is there, and nothing half: at every instant the database is
\* one of some release, with the tables of exactly the versions it records, in
\* spite of processes that start together and processes that die.
RecordedIsMigrated ==
  \E k \in {3} \cup Versions :
    /\ recorded = 4..k
    /\ \A t \in Tables :
         schema[t] \ {"rows"} = InUse(PostgresScripts, k)[t] \ {"rows"}

\* A run is refused only when another run has migrated the database since it
\* looked, never because of what a failed run has left behind.
RefusedOnlyWhenDone == \A m \in Migrators : pc[m] = "refused" => recorded = Versions

\* However many runs die, the database ends up migrated if one is always tried again.
Migrated == <>[](recorded = Versions)

=============================================================================
