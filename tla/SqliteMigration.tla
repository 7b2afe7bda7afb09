--------------------------- MODULE SqliteMigration ---------------------------
(***************************************************************************)
(* database.migrate on one SQLite file, run by any number of processes,    *)
(* any of which may die at any point and be started again.                 *)
(*                                                                         *)
(* executescript first commits what is pending and then runs each          *)
(* statement in a transaction of its own; the INSERT that records the      *)
(* version opens a transaction that the next executescript, or the end of  *)
(* the with block, commits.  So a script and its record are not one        *)
(* transaction.                                                            *)
(***************************************************************************)
EXTENDS MigrationScripts

VARIABLES
  schema,    \* the tables, as committed
  recorded,  \* the committed rows of schema_migrations
  writer,    \* who has an uncommitted INSERT, and so the write lock
  pc,
  applied,   \* the versions a migrator read, and those it did since
  line       \* the next statement of the script it is running

vars == <<schema, recorded, writer, pc, applied, line>>

Init ==
  /\ \/ schema = Empty /\ recorded = {}
     \/ \E k \in Versions : schema = InUse(SqliteScripts, k) /\ recorded = 4..k
  /\ writer = Nobody
  /\ pc = [m \in Migrators |-> "idle"]
  /\ applied = [m \in Migrators |-> {}]
  /\ line = [m \in Migrators |-> 1]

Goto(m, p) == pc' = [pc EXCEPT ![m] = p]

\* The version a migrator is at, and its pending INSERT once it has recorded it.
Current(m) == NextVersion(applied[m])

\* CREATE TABLE IF NOT EXISTS schema_migrations, and the versions it has.
Start(m) ==
  /\ pc[m] = "idle"
  /\ applied' = [applied EXCEPT ![m] = recorded]
  /\ Goto(m, IF Pending(recorded) = {} THEN "done" ELSE "script")
  /\ line' = [line EXCEPT ![m] = 1]
  /\ UNCHANGED <<schema, recorded, writer>>

OneLineTooMany(m) ==  \* Mutant: one line too many is run
  LET script == Script(SqliteScripts, Current(m))
      stmt == script[line[m]]
  IN
  /\ pc[m] = "script" /\ writer = Nobody
  /\ Accepts(schema, stmt)
  /\ schema' = Result(schema, stmt)
  /\ IF line[m] <= Len(script)
       THEN line' = [line EXCEPT ![m] = @ + 1] /\ UNCHANGED pc
       ELSE Goto(m, "record") /\ UNCHANGED line
  /\ UNCHANGED <<recorded, writer, applied>>

\* One statement of executescript, in autocommit mode.
Statement(m) ==
  LET script == Script(SqliteScripts, Current(m))
      stmt == script[line[m]]
  IN
  /\ pc[m] = "script"
  /\ writer = Nobody
  /\ Accepts(schema, stmt)
  /\ schema' = Result(schema, stmt)
  /\ IF line[m] < Len(script)
       THEN line' = [line EXCEPT ![m] = @ + 1] /\ UNCHANGED pc
       ELSE Goto(m, "record") /\ UNCHANGED line
  /\ UNCHANGED <<recorded, writer, applied>>

\* INSERT INTO schema_migrations, whose primary key refuses a version twice.
Record(m) ==
  /\ pc[m] = "record"
  /\ writer = Nobody
  /\ Current(m) \notin recorded
  /\ writer' = m
  /\ Goto(m, "commit")
  /\ UNCHANGED <<schema, recorded, applied, line>>

\* The commit of the record: at the start of the next script, or at the end.
Commit(m) ==
  /\ pc[m] = "commit"
  /\ recorded' = recorded \cup {Current(m)}
  /\ applied' = [applied EXCEPT ![m] = @ \cup {Current(m)}]
  /\ writer' = Nobody
  /\ line' = [line EXCEPT ![m] = 1]
  /\ Goto(m, IF Pending(applied'[m]) = {} THEN "done" ELSE "script")
  /\ UNCHANGED schema

\* Mutant: what cannot be applied again is taken for applied.
RefusedIsDone(m) ==
  /\ pc[m] = "script" /\ writer = Nobody
  /\ ~Accepts(schema, Script(SqliteScripts, Current(m))[line[m]])
  /\ Goto(m, "record")
  /\ UNCHANGED <<schema, recorded, writer, applied, line>>

\* A statement is refused, and the migration ends with an exception.
Refused(m) ==
  /\ \/ pc[m] = "script" /\ writer = Nobody
        /\ ~Accepts(schema, Script(SqliteScripts, Current(m))[line[m]])
     \/ pc[m] = "record" /\ writer = Nobody /\ Current(m) \in recorded
  /\ Goto(m, "failed")
  /\ UNCHANGED <<schema, recorded, writer, applied, line>>

\* "database is locked" after busy_timeout, or the process dies; the uncommitted
\* record is rolled back.
Stop(m) ==
  /\ pc[m] \in {"script", "record", "commit"}
  /\ Goto(m, "stopped")
  /\ writer' = IF writer = m THEN Nobody ELSE writer
  /\ UNCHANGED <<schema, recorded, applied, line>>

\* The migration is run again, as the README says it may.
Rerun(m) ==
  /\ pc[m] \in {"done", "stopped", "failed"}
  /\ Goto(m, "idle")
  /\ applied' = [applied EXCEPT ![m] = {}]
  /\ line' = [line EXCEPT ![m] = 1]
  /\ UNCHANGED <<schema, recorded, writer>>

Next == \E m \in Migrators :
          Start(m) \/ Statement(m) \/ Record(m) \/ Commit(m) \/ Refused(m) \/ Stop(m) \/ Rerun(m)

Spec == Init /\ [][Next]_vars

-----------------------------------------------------------------------------

TypeOK ==
  /\ schema \in Schemas
  /\ recorded \subseteq Versions
  /\ writer \in Migrators \cup {Nobody}
  /\ pc \in [Migrators -> {"idle", "script", "record", "commit", "done", "stopped", "failed"}]
  /\ applied \in [Migrators -> SUBSET Versions]
  /\ line \in [Migrators -> Nat]
  /\ \A m \in Migrators : pc[m] = "script" => line[m] \in DOMAIN Script(SqliteScripts, Current(m))

\* The rows of a service in use survive the rebuilding of their table, wherever
\* it stops.
RowsAreKept ==
  [][\A t \in Tables : "rows" \in schema[t] => \E u \in Tables : "rows" \in schema'[u]]_vars

\* "Migrations ... are safe to run repeatedly" (README.md:34): no run meets a
\* statement that the database refuses.
RerunIsSafe == \A m \in Migrators : pc[m] # "failed"

=============================================================================
