-------------------------- MODULE MigrationScripts --------------------------
(***************************************************************************)
(* What the migration scripts of both databases do to the schema, one      *)
(* statement after the other.                                              *)
(*                                                                         *)
(* A table is the set of its columns and constraints, {} while it does not *)
(* exist.  Tables, triggers and indexes that are only ever created IF NOT  *)
(* EXISTS behave alike on every run, and are here by way of checkouts and  *)
(* qr_tokens, the two such tables that later scripts alter.                *)
(***************************************************************************)
EXTENDS Naturals, Sequences

CONSTANTS Migrators, Nobody  \* the processes that run them

ASSUME MigratorsAssumption == Nobody \notin Migrators

\* Migrations 0001 to 0003 have only such statements, and one INSERT OR IGNORE;
\* 0004 stands for them.
Versions == 4..7

Tables == {"checkouts", "checkouts_new", "qr_tokens"}

\* "rows" says that the rows the service had before the upgrade are in the table.
Columns == {"id", "booking_required", "is_admin_override", "override_reason",
            "override_consistency", "encrypted_token", "rows"}

Schemas == [Tables -> SUBSET Columns]

Empty == [t \in Tables |-> {}]

-----------------------------------------------------------------------------
(* The scripts: a script is a sequence of statements <<what, table, columns>>. *)

\* migrations/: "booking_required" is the NOT NULL of checkouts.booking_id, which
\* SQLite can only drop by building the table again.
SqliteLifecycle == << <<"create if missing", "qr_tokens", {"id"}>>,
                      <<"create if missing", "checkouts", {"id", "booking_required"}>> >>
SqliteRebuild == << <<"create", "checkouts_new", {"id"}>>,
                    <<"copy", "checkouts", {}>>,
                    <<"drop", "checkouts", {}>>,
                    <<"rename", "checkouts_new", {}>> >>
SqliteOverrides == << <<"add", "checkouts", {"is_admin_override"}>>,
                      <<"add", "checkouts", {"override_reason"}>> >>
SqliteEncryption == << <<"add", "qr_tokens", {"encrypted_token"}>> >>

\* Mutant: the old table is dropped before its rows are copied.
DropsFirst == << SqliteLifecycle,
                 << SqliteRebuild[1], SqliteRebuild[3], SqliteRebuild[4] >>,
                 SqliteOverrides, SqliteEncryption >>

SqliteScripts == <<SqliteLifecycle, SqliteRebuild, SqliteOverrides, SqliteEncryption>>

\* migrations_postgresql/
PostgresLifecycle == << <<"create if missing", "qr_tokens", {"id"}>>,
                        <<"create if missing", "checkouts", {"id"}>> >>
PostgresOverrides == << <<"add if missing", "checkouts", {"is_admin_override"}>>,
                        <<"add if missing", "checkouts", {"override_reason"}>> >>
PostgresConsistency == << <<"remove", "checkouts", {"override_consistency"}>>,
                          <<"add", "checkouts", {"override_consistency"}>> >>
PostgresEncryption == << <<"add if missing", "qr_tokens", {"encrypted_token"}>> >>

PostgresScripts ==
  <<PostgresLifecycle, PostgresOverrides, PostgresConsistency, PostgresEncryption>>

\* The script of version v.
Script(scripts, v) == scripts[v - 3]

-----------------------------------------------------------------------------
(* What the database does with a statement. *)

\* Whether the database accepts a statement.
Accepts(schema, stmt) ==
  LET what == stmt[1]
      table == stmt[2]
  IN CASE what = "create if missing" -> TRUE
       [] what = "create" -> schema[table] = {}
       [] what = "rename" -> schema[table] # {} /\ schema["checkouts"] = {}
       [] what = "add" -> schema[table] # {} /\ stmt[3] \cap schema[table] = {}
       [] OTHER -> schema[table] # {}

\* The schema after a statement it accepts.
Result(schema, stmt) ==
  LET what == stmt[1]
      table == stmt[2]
      columns == stmt[3]
  IN CASE what = "create if missing" ->
            IF schema[table] = {} THEN [schema EXCEPT ![table] = columns] ELSE schema
       [] what = "create" -> [schema EXCEPT ![table] = columns]
       [] what = "copy" ->
            [schema EXCEPT !["checkouts_new"] = @ \cup (schema[table] \cap {"rows"})]
       [] what = "drop" -> [schema EXCEPT ![table] = {}]
       [] what = "rename" -> [schema EXCEPT !["checkouts"] = schema[table], ![table] = {}]
       [] what = "remove" -> [schema EXCEPT ![table] = @ \ columns]
       [] OTHER -> [schema EXCEPT ![table] = @ \cup columns]

\* The schema after a whole script.
RunScript(schema, script) ==
  LET after[n \in 0..Len(script)] ==
        IF n = 0 THEN schema ELSE Result(after[n - 1], script[n])
  IN  after[Len(script)]

\* The tables of version k, those of the versions before it migrated.
Release(scripts, k) ==
  LET migrated[v \in {3} \cup Versions] ==
        IF v = 3 THEN Empty ELSE RunScript(migrated[v - 1], Script(scripts, v))
  IN  migrated[k]

WithRows(schema) == [schema EXCEPT !["checkouts"] = @ \cup {"rows"}]

\* A database of an earlier release, in use: migrated up to version k.
InUse(scripts, k) == WithRows(Release(scripts, k))

-----------------------------------------------------------------------------

\* What the application relies on once version v is recorded: the tables it has
\* statements for, without the columns that older versions lack or have to fill.
Provides(scripts, schema, v) ==
  LET promised == InUse(scripts, v) IN
  \A t \in Tables \ {"checkouts_new"} :
    /\ schema[t] # {}
    /\ promised[t] \ {"rows", "booking_required"} \subseteq schema[t]
    /\ v >= 5 => "booking_required" \notin schema[t]

\* The migrations that come first, in file order, of those not in applied.
Pending(applied) == Versions \ applied
NextVersion(applied) == CHOOSE v \in Pending(applied) : \A u \in Pending(applied) : v <= u

=============================================================================
