--------------------------- MODULE MigrationProofs ---------------------------
(***************************************************************************)
(* The migrations of either kind of database, for any number of processes  *)
(* that run them, die and run them again.                                  *)
(*                                                                         *)
(* First what each statement and each script does to the tables.  On       *)
(* PostgreSQL the invariant is that what is committed is always a release, *)
(* and that the holder of the locks has a later release in hand.  On       *)
(* SQLite there are two: a run that rebuilds checkouts is the only one,    *)
(* and has copied the rows before it drops them; and while no two runs     *)
(* have overlapped, the database is at the version it records, with the    *)
(* beginning of the next script that the present run has done.             *)
(***************************************************************************)
EXTENDS MCMigrations, TLAPS

-----------------------------------------------------------------------------
(* Statements. *)

Kinds == {"create if missing", "create", "copy", "drop", "rename", "remove",
          "add", "add if missing"}

\* What a statement of each kind does to the tables.
LEMMA Creates ==
  ASSUME NEW d, NEW s
  PROVE  /\ s[1] = "create if missing" /\ d[s[2]] = {} => Result(d, s) = [d EXCEPT ![s[2]] = s[3]]
         /\ s[1] = "create if missing" /\ d[s[2]] # {} => Result(d, s) = d
         /\ s[1] = "create" => Result(d, s) = [d EXCEPT ![s[2]] = s[3]]
BY DEF Result

LEMMA Moves ==
  ASSUME NEW d, NEW s
  PROVE  /\ s[1] = "copy" =>
              Result(d, s) = [d EXCEPT !["checkouts_new"] = @ \cup (d[s[2]] \cap {"rows"})]
         /\ s[1] = "drop" => Result(d, s) = [d EXCEPT ![s[2]] = {}]
         /\ s[1] = "rename" => Result(d, s) = [d EXCEPT !["checkouts"] = d[s[2]], ![s[2]] = {}]
BY DEF Result

LEMMA Alters ==
  ASSUME NEW d, NEW s
  PROVE  /\ s[1] = "remove" => Result(d, s) = [d EXCEPT ![s[2]] = @ \ s[3]]
         /\ s[1] \in {"add", "add if missing"} => Result(d, s) = [d EXCEPT ![s[2]] = @ \cup s[3]]
BY DEF Result

\* Table by table.
LEMMA AltersTables ==
  ASSUME NEW d \in Schemas, NEW s, s[2] \in Tables, NEW t \in Tables
  PROVE  /\ s[1] = "remove" => Result(d, s)[t] = IF t = s[2] THEN d[t] \ s[3] ELSE d[t]
         /\ s[1] \in {"add", "add if missing"} =>
              Result(d, s)[t] = IF t = s[2] THEN d[t] \cup s[3] ELSE d[t]
<1>1. ASSUME s[1] = "remove"
      PROVE  Result(d, s)[t] = IF t = s[2] THEN d[t] \ s[3] ELSE d[t]
  <2>. DEFINE rest == d[s[2]] \ s[3]
  <2>1. Result(d, s) = [d EXCEPT ![s[2]] = rest]
    BY <1>1, Alters
  <2>. HIDE DEF rest
  <2>2. Result(d, s)[t] = IF t = s[2] THEN rest ELSE d[t]
    BY <2>1 DEF Schemas
  <2>. QED
    BY <2>2 DEF rest
<1>2. ASSUME s[1] \in {"add", "add if missing"}
      PROVE  Result(d, s)[t] = IF t = s[2] THEN d[t] \cup s[3] ELSE d[t]
  <2>. DEFINE all == d[s[2]] \cup s[3]
  <2>1. Result(d, s) = [d EXCEPT ![s[2]] = all]
    BY <1>2, Alters
  <2>. HIDE DEF all
  <2>2. Result(d, s)[t] = IF t = s[2] THEN all ELSE d[t]
    BY <2>1 DEF Schemas
  <2>. QED
    BY <2>2 DEF all
<1>. QED
  BY <1>1, <1>2

\* A statement of a script: it names a table and columns.
IsStatement(s) == s[1] \in Kinds /\ s[2] \in Tables /\ s[3] \in SUBSET Columns

\* Whatever it is run on, the tables remain tables.
LEMMA ResultIsSchema ==
  ASSUME NEW d \in Schemas, NEW s, IsStatement(s)
  PROVE  Result(d, s) \in Schemas
<1>1. "rows" \in Columns /\ "checkouts" \in Tables /\ "checkouts_new" \in Tables
  BY DEF Columns, Tables
<1>2. CASE s[1] \in {"create if missing", "create"}
  BY <1>2, Creates DEF IsStatement, Schemas
<1>3. CASE s[1] = "copy"
  BY <1>1, <1>3, Moves DEF IsStatement, Schemas
<1>4. CASE s[1] = "drop"
  BY <1>4, Moves DEF IsStatement, Schemas
<1>5. CASE s[1] = "rename"
  BY <1>1, <1>5, Moves DEF IsStatement, Schemas
<1>6. CASE s[1] = "remove"
  <2>. DEFINE rest == d[s[2]] \ s[3]
  <2>1. rest \in SUBSET Columns
    BY DEF IsStatement, Schemas
  <2>2. Result(d, s) = [d EXCEPT ![s[2]] = rest]
    BY <1>6, Alters
  <2>. HIDE DEF rest
  <2>. QED
    BY <2>1, <2>2 DEF IsStatement, Schemas
<1>7. CASE s[1] \in {"add", "add if missing"}
  <2>. DEFINE all == d[s[2]] \cup s[3]
  <2>1. all \in SUBSET Columns
    BY DEF IsStatement, Schemas
  <2>2. Result(d, s) = [d EXCEPT ![s[2]] = all]
    BY <1>7, Alters
  <2>. HIDE DEF all
  <2>. QED
    BY <2>1, <2>2 DEF IsStatement, Schemas
<1>. QED
  BY <1>2, <1>3, <1>4, <1>5, <1>6, <1>7 DEF IsStatement, Kinds

\* A script of up to four statements runs them in turn.
LEMMA ScriptRuns ==
  ASSUME NEW d, NEW script, Len(script) \in 0..4
  PROVE  /\ Len(script) = 1 => RunScript(d, script) = Result(d, script[1])
         /\ Len(script) = 2 => RunScript(d, script) = Result(Result(d, script[1]), script[2])
         /\ Len(script) = 4 =>
              RunScript(d, script)
                = Result(Result(Result(Result(d, script[1]), script[2]), script[3]), script[4])
<1>0. \A n \in 0..Len(script) : n = 0 \/ n = 1 \/ n = 2 \/ n = 3 \/ n = 4
  <2>1. \A l \in 0..4 : \A n \in 0..l : n = 0 \/ n = 1 \/ n = 2 \/ n = 3 \/ n = 4
    OBVIOUS
  <2>. QED
    BY <2>1, Zenon
<1>. DEFINE one == Result(d, script[1])
            two == Result(one, script[2])
            three == Result(two, script[3])
            four == Result(three, script[4])
            From(f, n) == IF n = 0 THEN d ELSE Result(f[n - 1], script[n])
            after == CHOOSE f : f = [n \in 0..Len(script) |-> From(f, n)]
            in == [n \in 0..Len(script) |-> IF n = 0 THEN d ELSE IF n = 1 THEN one
                     ELSE IF n = 2 THEN two ELSE IF n = 3 THEN three ELSE four]
<1>1. RunScript(d, script) = after[Len(script)]
  BY DEF RunScript
<1>2. \A n \in 0..Len(script) : in[n] = From(in, n)
  <2>. TAKE n \in 0..Len(script)
  <2>1. n = 0 \/ n = 1 \/ n = 2 \/ n = 3 \/ n = 4
    BY <1>0
  <2>. HIDE DEF one, two, three, four
  <2>2. CASE n = 0
    BY <2>2
  <2>3. CASE n = 1
    <3>1. in[n - 1] = d /\ in[n] = one
      BY <2>3
    <3>. QED
      BY <2>3, <3>1 DEF one
  <2>4. CASE n = 2
    <3>1. in[n - 1] = one /\ in[n] = two
      BY <2>4
    <3>. QED
      BY <2>4, <3>1 DEF two
  <2>5. CASE n = 3
    <3>1. in[n - 1] = two /\ in[n] = three
      BY <2>5
    <3>. QED
      BY <2>5, <3>1 DEF three
  <2>6. CASE n = 4
    <3>1. in[n - 1] = three /\ in[n] = four
      BY <2>6
    <3>. QED
      BY <2>6, <3>1 DEF four
  <2>. QED
    BY <2>1, <2>2, <2>3, <2>4, <2>5, <2>6
<1>3. in = [n \in 0..Len(script) |-> From(in, n)]
  <2>1. in = [n \in 0..Len(script) |-> in[n]]
    OBVIOUS
  <2>. HIDE DEF in, From
  <2>. QED
    BY <1>2, <2>1
<1>4. after = [n \in 0..Len(script) |-> From(after, n)]
  <2>1. \E f : f = [n \in 0..Len(script) |-> From(f, n)]
    BY <1>3
  <2>. HIDE DEF From
  <2>. QED
    BY <2>1, Zenon
<1>. HIDE DEF after, in
<1>5. \A n \in 0..Len(script) : after[n] = From(after, n)
  BY <1>4
<1>6. Len(script) >= 1 => after[1] = one
  BY <1>5
<1>7. Len(script) >= 2 => after[2] = two
  BY <1>5, <1>6
<1>8. Len(script) >= 3 => after[3] = three
  BY <1>5, <1>7
<1>9. Len(script) >= 4 => after[4] = four
  BY <1>5, <1>8
<1>. HIDE DEF one, two, three, four
<1>10. \A l \in 0..4 : (l = 1 => l >= 1) /\ (l = 2 => l >= 2) /\ (l = 4 => l >= 4)
  OBVIOUS
<1>11. /\ Len(script) = 1 => after[1] = one
       /\ Len(script) = 2 => after[2] = two
       /\ Len(script) = 4 => after[4] = four
  BY <1>6, <1>7, <1>9, <1>10, Zenon
<1>12. /\ Len(script) = 1 => RunScript(d, script) = one
       /\ Len(script) = 2 => RunScript(d, script) = two
       /\ Len(script) = 4 => RunScript(d, script) = four
  BY <1>1, <1>11, Zenon
<1>. QED
  BY <1>12 DEF one, two, three, four


LEMMA VersionsAre == Versions = {4, 5, 6, 7} /\ {3} \cup Versions = 3..7
BY DEF Versions

\* The tables of the releases, one after the other.
LEMMA Releases ==
  ASSUME NEW scripts
  PROVE  /\ Release(scripts, 3) = Empty
         /\ \A v \in Versions :
              Release(scripts, v) = RunScript(Release(scripts, v - 1), Script(scripts, v))
<1>. DEFINE From(f, v) == IF v = 3 THEN Empty ELSE RunScript(f[v - 1], Script(scripts, v))
            migrated == CHOOSE f : f = [v \in {3} \cup Versions |-> From(f, v)]
            d4 == RunScript(Empty, Script(scripts, 4))
            d5 == RunScript(d4, Script(scripts, 5))
            d6 == RunScript(d5, Script(scripts, 6))
            d7 == RunScript(d6, Script(scripts, 7))
            through == [v \in {3} \cup Versions |->
                          IF v = 3 THEN Empty ELSE IF v = 4 THEN d4 ELSE IF v = 5 THEN d5
                          ELSE IF v = 6 THEN d6 ELSE d7]
<1>1. \A k : Release(scripts, k) = migrated[k]
  BY DEF Release
<1>2. \A v \in {3} \cup Versions : through[v] = From(through, v)
  <2>1. From(through, 3) = through[3]
    BY VersionsAre
  <2>2. From(through, 4) = through[4]
    BY VersionsAre
  <2>3. From(through, 5) = through[5]
    BY VersionsAre
  <2>4. From(through, 6) = through[6]
    BY VersionsAre
  <2>5. From(through, 7) = through[7]
    BY VersionsAre
  <2>. HIDE DEF From, through
  <2>. QED
    BY <2>1, <2>2, <2>3, <2>4, <2>5, VersionsAre
<1>3. through = [v \in {3} \cup Versions |-> From(through, v)]
  <2>1. through = [v \in {3} \cup Versions |-> through[v]]
    OBVIOUS
  <2>. HIDE DEF From, through
  <2>. QED
    BY <1>2, <2>1
<1>4. migrated = [v \in {3} \cup Versions |-> From(migrated, v)]
  <2>1. \E f : f = [v \in {3} \cup Versions |-> From(f, v)]
    BY <1>3
  <2>. HIDE DEF From
  <2>. QED
    BY <2>1, Zenon
<1>. HIDE DEF migrated, through
<1>5. \A v \in {3} \cup Versions : migrated[v] = From(migrated, v)
  BY <1>4
<1>6. migrated[3] = Empty
  BY <1>5
<1>7. \A v \in Versions : migrated[v] = RunScript(migrated[v - 1], Script(scripts, v))
  BY <1>5, VersionsAre
<1>. QED
  BY <1>1, <1>6, <1>7

-----------------------------------------------------------------------------
(* The PostgreSQL scripts. *)

\* They take no rows away, and from 0005 on they only alter tables.
PostgresStatement(s, v) ==
  /\ IsStatement(s) /\ "rows" \notin s[3]
  /\ s[1] \in {"create if missing", "remove", "add", "add if missing"}
  /\ s[1] = "create if missing" => v = 4

LEMMA PostgresStatements ==
  ASSUME NEW v \in Versions
  PROVE  /\ Len(Script(PostgresScripts, v)) \in {1, 2}
         /\ \A i \in 1..Len(Script(PostgresScripts, v)) :
              PostgresStatement(Script(PostgresScripts, v)[i], v)
<1>1. CASE v = 4
  <2>1. Script(PostgresScripts, v) = PostgresLifecycle
    BY <1>1 DEF Script, PostgresScripts
  <2>2. Len(PostgresLifecycle) = 2
    BY DEF PostgresLifecycle
  <2>3. PostgresStatement(PostgresLifecycle[1], 4)
    BY DEF PostgresLifecycle, PostgresStatement, IsStatement, Kinds, Tables, Columns
  <2>4. PostgresStatement(PostgresLifecycle[2], 4)
    BY DEF PostgresLifecycle, PostgresStatement, IsStatement, Kinds, Tables, Columns
  <2>. QED
    BY <1>1, <2>1, <2>2, <2>3, <2>4
<1>2. CASE v = 5
  <2>1. Script(PostgresScripts, v) = PostgresOverrides
    BY <1>2 DEF Script, PostgresScripts
  <2>2. Len(PostgresOverrides) = 2
    BY DEF PostgresOverrides
  <2>3. PostgresStatement(PostgresOverrides[1], 5)
    BY DEF PostgresOverrides, PostgresStatement, IsStatement, Kinds, Tables, Columns
  <2>4. PostgresStatement(PostgresOverrides[2], 5)
    BY DEF PostgresOverrides, PostgresStatement, IsStatement, Kinds, Tables, Columns
  <2>. QED
    BY <1>2, <2>1, <2>2, <2>3, <2>4
<1>3. CASE v = 6
  <2>1. Script(PostgresScripts, v) = PostgresConsistency
    BY <1>3 DEF Script, PostgresScripts
  <2>2. Len(PostgresConsistency) = 2
    BY DEF PostgresConsistency
  <2>3. PostgresStatement(PostgresConsistency[1], 6)
    BY DEF PostgresConsistency, PostgresStatement, IsStatement, Kinds, Tables, Columns
  <2>4. PostgresStatement(PostgresConsistency[2], 6)
    BY DEF PostgresConsistency, PostgresStatement, IsStatement, Kinds, Tables, Columns
  <2>. QED
    BY <1>3, <2>1, <2>2, <2>3, <2>4
<1>4. CASE v = 7
  <2>1. Script(PostgresScripts, v) = PostgresEncryption
    BY <1>4 DEF Script, PostgresScripts
  <2>2. Len(PostgresEncryption) = 1
    BY DEF PostgresEncryption
  <2>3. PostgresStatement(PostgresEncryption[1], 7)
    BY DEF PostgresEncryption, PostgresStatement, IsStatement, Kinds, Tables, Columns
  <2>. QED
    BY <1>4, <2>1, <2>2, <2>3
<1>. QED
  BY <1>1, <1>2, <1>3, <1>4, VersionsAre

\* Each keeps the rows of every table, and does the same with and without rows.
LEMMA PostgresStatementKeepsRows ==
  ASSUME NEW d \in Schemas, NEW s, NEW v, PostgresStatement(s, v),
         NEW t \in Tables, "rows" \in d[t]
  PROVE  "rows" \in Result(d, s)[t]
<1>1. s[2] \in Tables /\ DOMAIN d = Tables /\ "rows" \notin s[3]
  BY DEF PostgresStatement, IsStatement, Schemas
<1>2. CASE s[1] = "create if missing"
  BY <1>1, <1>2, Creates
<1>3. CASE s[1] = "remove"
  BY <1>1, <1>3, AltersTables
<1>4. CASE s[1] \in {"add", "add if missing"}
  BY <1>1, <1>4, AltersTables
<1>. QED
  BY <1>2, <1>3, <1>4 DEF PostgresStatement

LEMMA WithRowsIsSchema ==
  ASSUME NEW d \in Schemas
  PROVE  /\ WithRows(d) \in Schemas
         /\ \A t \in Tables : WithRows(d)[t] = IF t = "checkouts" THEN d[t] \cup {"rows"} ELSE d[t]
<1>. DEFINE all == d["checkouts"] \cup {"rows"}
<1>1. all \in SUBSET Columns
  BY DEF Schemas, Columns, Tables
<1>2. WithRows(d) = [d EXCEPT !["checkouts"] = all]
  BY DEF WithRows
<1>. HIDE DEF all
<1>3. WithRows(d) \in Schemas
  BY <1>1, <1>2 DEF Schemas
<1>4. \A t \in Tables : WithRows(d)[t] = IF t = "checkouts" THEN all ELSE d[t]
  BY <1>2 DEF Schemas
<1>. QED
  BY <1>3, <1>4 DEF all

LEMMA PostgresStatementCommutes ==
  ASSUME NEW d \in Schemas, NEW s, NEW v, PostgresStatement(s, v), v # 4
  PROVE  Result(WithRows(d), s) = WithRows(Result(d, s))
<1>1. s[2] \in Tables /\ "rows" \notin s[3] /\ IsStatement(s)
  BY DEF PostgresStatement, IsStatement
<1>2. WithRows(d) \in Schemas /\ Result(d, s) \in Schemas
  BY <1>1, WithRowsIsSchema, ResultIsSchema
<1>3. WithRows(Result(d, s)) \in Schemas /\ Result(WithRows(d), s) \in Schemas
  BY <1>1, <1>2, WithRowsIsSchema, ResultIsSchema
<1>4. ASSUME NEW t \in Tables
      PROVE  Result(WithRows(d), s)[t] = WithRows(Result(d, s))[t]
  <2>1. /\ WithRows(d)[t] = IF t = "checkouts" THEN d[t] \cup {"rows"} ELSE d[t]
        /\ WithRows(Result(d, s))[t]
             = IF t = "checkouts" THEN Result(d, s)[t] \cup {"rows"} ELSE Result(d, s)[t]
    BY <1>2, WithRowsIsSchema
  <2>3. CASE s[1] = "remove"
    <3>1. /\ Result(d, s)[t] = IF t = s[2] THEN d[t] \ s[3] ELSE d[t]
          /\ Result(WithRows(d), s)[t]
               = IF t = s[2] THEN WithRows(d)[t] \ s[3] ELSE WithRows(d)[t]
      BY <1>1, <1>2, <2>3, AltersTables
    <3>2. \A x : (x \cup {"rows"}) \ s[3] = (x \ s[3]) \cup {"rows"}
      BY <1>1
    <3>. QED
      BY <2>1, <3>1, <3>2
  <2>4. CASE s[1] \in {"add", "add if missing"}
    <3>1. /\ Result(d, s)[t] = IF t = s[2] THEN d[t] \cup s[3] ELSE d[t]
          /\ Result(WithRows(d), s)[t]
               = IF t = s[2] THEN WithRows(d)[t] \cup s[3] ELSE WithRows(d)[t]
      BY <1>1, <1>2, <2>4, AltersTables
    <3>2. \A x : (x \cup {"rows"}) \cup s[3] = (x \cup s[3]) \cup {"rows"}
      OBVIOUS
    <3>. QED
      BY <2>1, <3>1, <3>2
  <2>. QED
    BY <2>3, <2>4 DEF PostgresStatement
<1>. QED
  BY <1>3, <1>4 DEF Schemas

\* So does each script.
LEMMA PostgresScriptRuns ==
  ASSUME NEW d \in Schemas, NEW v \in Versions
  PROVE  LET script == Script(PostgresScripts, v)
             e == RunScript(d, script)
         IN  /\ e \in Schemas
             /\ \A t \in Tables : "rows" \in d[t] => "rows" \in e[t]
             /\ v # 4 => RunScript(WithRows(d), script) = WithRows(e)
<1>. DEFINE script == Script(PostgresScripts, v)
            e == RunScript(d, script)
<1>1. Len(script) \in {1, 2} /\ \A i \in 1..Len(script) : PostgresStatement(script[i], v)
  BY PostgresStatements
<1>2. WithRows(d) \in Schemas
  BY WithRowsIsSchema
<1>. HIDE DEF script
<1>3. Len(script) \in 0..4
  <2>1. 1 \in 0..4 /\ 2 \in 0..4
    OBVIOUS
  <2>. QED
    BY <1>1, <2>1
<1>4. ASSUME NEW s, NEW x \in Schemas, PostgresStatement(s, v)
      PROVE  /\ Result(x, s) \in Schemas
             /\ \A t \in Tables : "rows" \in x[t] => "rows" \in Result(x, s)[t]
             /\ v # 4 => Result(WithRows(x), s) = WithRows(Result(x, s))
  <2>1. IsStatement(s)
    BY <1>4 DEF PostgresStatement
  <2>. QED
    BY <1>4, <2>1, ResultIsSchema, PostgresStatementKeepsRows, PostgresStatementCommutes
<1>5. CASE Len(script) = 1
  <2>1. PostgresStatement(script[1], v)
    BY <1>1, <1>5
  <2>2. /\ e = Result(d, script[1])
        /\ RunScript(WithRows(d), script) = Result(WithRows(d), script[1])
    BY <1>3, <1>5, ScriptRuns
  <2>. QED
    BY <1>4, <2>1, <2>2 DEF script
<1>6. CASE Len(script) = 2
  <2>1. PostgresStatement(script[1], v) /\ PostgresStatement(script[2], v)
    BY <1>1, <1>6
  <2>. DEFINE x == Result(d, script[1])
  <2>2. /\ e = Result(x, script[2])
        /\ RunScript(WithRows(d), script) = Result(Result(WithRows(d), script[1]), script[2])
    BY <1>3, <1>6, ScriptRuns
  <2>3. /\ x \in Schemas
        /\ \A t \in Tables : "rows" \in d[t] => "rows" \in x[t]
        /\ v # 4 => Result(WithRows(d), script[1]) = WithRows(x)
    BY <1>4, <2>1
  <2>. HIDE DEF x
  <2>4. /\ Result(x, script[2]) \in Schemas
        /\ \A t \in Tables : "rows" \in x[t] => "rows" \in Result(x, script[2])[t]
        /\ v # 4 => Result(WithRows(x), script[2]) = WithRows(Result(x, script[2]))
    BY <1>4, <2>1, <2>3
  <2>. QED
    BY <2>2, <2>3, <2>4 DEF script
<1>. QED
  BY <1>1, <1>5, <1>6

\* The tables of a release, as committed before anyone used it or since.
Released(d, k) ==
  \/ d = Release(PostgresScripts, k)
  \/ k \in Versions /\ d = InUse(PostgresScripts, k)

\* Every script takes a database from one release to the next.
LEMMA ReleaseIsSchema ==
  ASSUME NEW k \in 3..7
  PROVE  Release(PostgresScripts, k) \in Schemas
<1>1. Release(PostgresScripts, 3) \in Schemas
  BY Releases DEF Empty, Schemas
<1>2. ASSUME NEW v \in Versions, Release(PostgresScripts, v - 1) \in Schemas
      PROVE  Release(PostgresScripts, v) \in Schemas
  BY <1>2, Releases, PostgresScriptRuns
<1>3. Release(PostgresScripts, 4) \in Schemas
  BY <1>1, <1>2, VersionsAre
<1>4. Release(PostgresScripts, 5) \in Schemas
  BY <1>2, <1>3, VersionsAre
<1>5. Release(PostgresScripts, 6) \in Schemas
  BY <1>2, <1>4, VersionsAre
<1>6. Release(PostgresScripts, 7) \in Schemas
  BY <1>2, <1>5, VersionsAre
<1>. QED
  BY <1>1, <1>3, <1>4, <1>5, <1>6

LEMMA ReleasedIsSchema ==
  ASSUME NEW k \in 3..7, NEW d, Released(d, k)
  PROVE  d \in Schemas
BY ReleaseIsSchema, WithRowsIsSchema DEF Released, InUse

LEMMA ReleasedRuns ==
  ASSUME NEW k \in 3..6, NEW d, Released(d, k)
  PROVE  Released(RunScript(d, Script(PostgresScripts, k + 1)), k + 1)
<1>1. k + 1 \in Versions /\ (k + 1) - 1 = k /\ k \in 3..7
  BY VersionsAre
<1>2. Release(PostgresScripts, k + 1)
        = RunScript(Release(PostgresScripts, k), Script(PostgresScripts, k + 1))
  BY <1>1, Releases
<1>3. CASE d = Release(PostgresScripts, k)
  BY <1>2, <1>3 DEF Released
<1>4. CASE k \in Versions /\ d = InUse(PostgresScripts, k)
  <2>1. k + 1 # 4
    BY <1>4, VersionsAre
  <2>2. Release(PostgresScripts, k) \in Schemas
    BY <1>1, ReleaseIsSchema
  <2>3. RunScript(WithRows(Release(PostgresScripts, k)), Script(PostgresScripts, k + 1))
          = WithRows(RunScript(Release(PostgresScripts, k), Script(PostgresScripts, k + 1)))
    BY <1>1, <2>1, <2>2, PostgresScriptRuns
  <2>. QED
    BY <1>1, <1>2, <1>4, <2>3 DEF Released, InUse
<1>. QED
  BY <1>3, <1>4 DEF Released

\* Apart from the rows, it is the same database.
LEMMA ReleasedIsInUse ==
  ASSUME NEW k \in 3..7, NEW d, Released(d, k), NEW t \in Tables
  PROVE  d[t] \ {"rows"} = InUse(PostgresScripts, k)[t] \ {"rows"}
<1>. DEFINE r == Release(PostgresScripts, k)
<1>1. r \in Schemas
  BY ReleaseIsSchema
<1>. HIDE DEF r
<1>2. WithRows(r)[t] = IF t = "checkouts" THEN r[t] \cup {"rows"} ELSE r[t]
  BY <1>1, WithRowsIsSchema
<1>3. \A x : (x \cup {"rows"}) \ {"rows"} = x \ {"rows"}
  OBVIOUS
<1>4. WithRows(r)[t] \ {"rows"} = r[t] \ {"rows"}
  BY <1>2, <1>3
<1>5. d = r \/ d = WithRows(r)
  BY DEF r, Released, InUse
<1>. QED
  BY <1>4, <1>5 DEF r, InUse

-----------------------------------------------------------------------------
(* The versions that are still pending. *)

LEMMA NextIs ==
  ASSUME NEW j \in 3..6
  PROVE  /\ NextVersion(4..j) = j + 1
         /\ j + 1 \in Versions /\ j + 1 \notin 4..j
         /\ (4..j) \cup {j + 1} = 4..(j + 1)
         /\ Pending(4..j) # {}
         /\ 4..j \subseteq Versions /\ 4..j # Versions
<1>1. j + 1 \in Versions /\ j + 1 \notin 4..j
  BY VersionsAre
<1>2. (4..j) \cup {j + 1} = 4..(j + 1)
  OBVIOUS
<1>3. 4..j \subseteq Versions /\ 4..j # Versions
  BY <1>1, VersionsAre
<1>4. Pending(4..j) = (j + 1)..7
  BY VersionsAre DEF Pending
<1>5. j + 1 \in (j + 1)..7 /\ \A u \in (j + 1)..7 : j + 1 <= u
  OBVIOUS
<1>6. \A v \in (j + 1)..7 : (\A u \in (j + 1)..7 : v <= u) => v = j + 1
  BY <1>5
<1>7. NextVersion(4..j) = CHOOSE v \in (j + 1)..7 : \A u \in (j + 1)..7 : v <= u
  BY <1>4 DEF NextVersion
<1>8. NextVersion(4..j) = j + 1
  BY <1>5, <1>6, <1>7
<1>. QED
  BY <1>1, <1>2, <1>3, <1>4, <1>5, <1>8

LEMMA AllDone ==
  /\ 4..7 = Versions /\ 4..3 = {} /\ Versions # {} /\ Pending(Versions) = {}
  /\ \A r \in SUBSET Versions : Pending(r) = {} => r = Versions
  /\ \A k \in 3..7 : 4..k \subseteq Versions /\ (4..k = {} => k = 3)
<1>1. 4..7 = Versions
  BY VersionsAre
<1>2. 4..3 = {}
  OBVIOUS
<1>3. Versions # {} /\ Pending(Versions) = {}
  BY VersionsAre DEF Pending
<1>4. \A r \in SUBSET Versions : Pending(r) = {} => r = Versions
  BY DEF Pending
<1>5. ASSUME NEW k \in 3..7
      PROVE  4..k \subseteq Versions /\ (4..k = {} => k = 3)
  <2>1. k # 3 => 4 \in 4..k
    OBVIOUS
  <2>. QED
    BY <2>1, VersionsAre
<1>. QED
  BY <1>1, <1>2, <1>3, <1>4, <1>5

LEMMA SameRecords ==
  ASSUME NEW a \in 3..7, NEW b \in 3..7, 4..a = 4..b
  PROVE  a = b
<1>1. CASE a < b
  <2>1. b \in 4..b /\ b \notin 4..a
    BY <1>1
  <2>. QED
    BY <2>1
<1>2. CASE b < a
  <2>1. a \in 4..a /\ a \notin 4..b
    BY <1>2
  <2>. QED
    BY <2>1
<1>. QED
  BY <1>1, <1>2

-----------------------------------------------------------------------------
(* PostgreSQL. *)

LEMMA PostgresNames ==
  /\ Postgres!Versions = Versions /\ Postgres!Tables = Tables /\ Postgres!Schemas = Schemas
  /\ Postgres!Empty = Empty /\ Postgres!PostgresScripts = PostgresScripts
  /\ \A d, s : Postgres!RunScript(d, s) = RunScript(d, s)
  /\ \A s, v : Postgres!Script(s, v) = Script(s, v)
  /\ \A s, k : Postgres!InUse(s, k) = InUse(s, k)
  /\ \A a : Postgres!Pending(a) = Pending(a) /\ Postgres!NextVersion(a) = NextVersion(a)
<1>1. Postgres!Versions = Versions /\ Postgres!Tables = Tables
  BY DEF Postgres!Versions, Versions, Postgres!Tables, Tables
<1>2. Postgres!Columns = Columns
  BY DEF Postgres!Columns, Columns
<1>3. Postgres!Schemas = Schemas /\ Postgres!Empty = Empty
  BY <1>1, <1>2 DEF Postgres!Schemas, Schemas, Postgres!Empty, Empty
<1>4. Postgres!PostgresScripts = PostgresScripts
  BY DEF Postgres!PostgresScripts, PostgresScripts, Postgres!PostgresLifecycle,
         PostgresLifecycle, Postgres!PostgresOverrides, PostgresOverrides,
         Postgres!PostgresConsistency, PostgresConsistency, Postgres!PostgresEncryption,
         PostgresEncryption
<1>5. \A d, s : Postgres!Result(d, s) = Result(d, s)
  BY Zenon DEF Postgres!Result, Result
<1>6. \A d, s : Postgres!RunScript(d, s) = RunScript(d, s)
  BY <1>5, Zenon DEF Postgres!RunScript, RunScript
<1>7. \A s, v : Postgres!Script(s, v) = Script(s, v)
  BY DEF Postgres!Script, Script
<1>8. \A s, k : Postgres!Release(s, k) = Release(s, k)
  BY <1>1, <1>3, <1>6, <1>7, Zenon DEF Postgres!Release, Release
<1>9. \A s, k : Postgres!InUse(s, k) = InUse(s, k)
  BY <1>8 DEF Postgres!InUse, InUse, Postgres!WithRows, WithRows
<1>10. \A a : Postgres!Pending(a) = Pending(a)
  BY <1>1 DEF Postgres!Pending, Pending
<1>11. \A a : Postgres!NextVersion(a) = NextVersion(a)
  BY <1>10 DEF Postgres!NextVersion, NextVersion
<1>. QED
  BY <1>1, <1>3, <1>4, <1>6, <1>7, <1>9, <1>10, <1>11

PostgresPlaces == {"idle", "create", "read", "script", "record", "commit",
                   "done", "refused", "stopped"}

PostgresTypes ==
  /\ schema \in Schemas /\ work \in Schemas
  /\ recorded \in SUBSET Versions /\ tracked \in BOOLEAN
  /\ writer \in Migrators \cup {Nobody}
  /\ pc \in [Migrators -> PostgresPlaces]
  /\ applied \in [Migrators -> SUBSET Versions]
  /\ stops \in 0..MaxStops

LEMMA PostgresTypesAre == PostgresTypes <=> Postgres!TypeOK
BY PostgresNames DEF PostgresTypes, Postgres!TypeOK, PostgresPlaces

\* What is committed is a release, with the records of its versions.
Committed == \E k \in 3..7 : recorded = 4..k /\ Released(schema, k) /\ (tracked <=> k # 3)

\* The holder of the locks has what is committed, migrated up to version j.
Migrating(j) ==
  /\ Released(work, j)
  /\ \A t \in Tables : "rows" \in schema[t] => "rows" \in work[t]

\* A run at version j + 1 is up to date, or all is recorded behind its back: it
\* will then be refused.
AtScript(m, j) ==
  /\ applied[m] = 4..j
  /\ IF writer = m THEN recorded \subseteq 4..j /\ Migrating(j)
     ELSE recorded = 4..j \/ recorded = Versions

AtRecord(m, j) ==
  /\ applied[m] = 4..j
  /\ writer = m
  /\ recorded = Versions \/ (recorded \subseteq 4..j /\ Migrating(j + 1))

Place(m) ==
  /\ writer = m => pc[m] \in {"read", "script", "record", "commit"}
  /\ pc[m] = "create" /\ tracked => recorded = Versions
  /\ pc[m] = "read" /\ writer = m => recorded = {} /\ work = schema
  /\ pc[m] = "script" => \E j \in 3..6 : AtScript(m, j)
  /\ pc[m] = "record" => \E j \in 3..6 : AtRecord(m, j)
  /\ pc[m] = "commit" => IF writer = m THEN applied[m] = Versions /\ Migrating(7)
                         ELSE recorded = Versions
  /\ pc[m] = "refused" => recorded = Versions

PostgresInvariant ==
  /\ PostgresTypes
  /\ Committed
  /\ writer = Nobody => work = schema
  /\ \A m \in Migrators : Place(m)

\* What another run does before it commits leaves a run where it is.
LEMMA OthersStay ==
  ASSUME NEW m \in Migrators, Place(m),
         UNCHANGED <<schema, recorded, tracked>>,
         pc'[m] = pc[m], applied'[m] = applied[m],
         (writer = m) <=> (writer' = m), writer = m => work' = work
  PROVE  Place(m)'
<1>1. ASSUME NEW j, writer = m
      PROVE  Migrating(j)' <=> Migrating(j)
  BY <1>1 DEF Migrating, Released
<1>2. ASSUME NEW j, AtScript(m, j)
      PROVE  AtScript(m, j)'
  BY <1>1, <1>2 DEF AtScript
<1>3. ASSUME NEW j, AtRecord(m, j)
      PROVE  AtRecord(m, j)'
  BY <1>1, <1>3 DEF AtRecord
<1>. QED
  BY <1>1, <1>2, <1>3 DEF Place

\* A commit leaves a run that waits behind it with its versions recorded.
LEMMA OthersWait ==
  ASSUME NEW m \in Migrators, Place(m), recorded' = Versions,
         pc'[m] = pc[m], applied'[m] = applied[m], writer # m, writer' # m
  PROVE  Place(m)'
<1>1. ASSUME NEW j, AtScript(m, j)
      PROVE  AtScript(m, j)'
  BY <1>1 DEF AtScript
<1>2. pc[m] # "record"
  BY DEF Place, AtRecord
<1>. QED
  BY <1>1, <1>2 DEF Place

LEMMA PostgresStarts ==
  ASSUME Postgres!Init
  PROVE  PostgresInvariant
<1>1. \/ schema = Empty /\ recorded = {} /\ tracked = FALSE
      \/ \E k \in Versions : schema = InUse(PostgresScripts, k) /\ recorded = 4..k /\ tracked = TRUE
  BY PostgresNames DEF Postgres!Init
<1>2. /\ writer = Nobody /\ work = schema /\ stops = 0
      /\ pc = [m \in Migrators |-> "idle"]
      /\ applied = [m \in Migrators |-> {}]
  BY DEF Postgres!Init
<1>3. Committed
  <2>1. CASE schema = Empty /\ recorded = {} /\ tracked = FALSE
    BY <2>1, AllDone, Releases DEF Committed, Released
  <2>2. ASSUME NEW k \in Versions, schema = InUse(PostgresScripts, k), recorded = 4..k,
               tracked = TRUE
        PROVE  Committed
    <3>1. k \in 3..7 /\ k # 3
      BY VersionsAre
    <3>2. Released(schema, k)
      BY <2>2 DEF Released
    <3>. QED
      BY <2>2, <3>1, <3>2 DEF Committed
  <2>. QED
    BY <1>1, <2>1, <2>2
<1>4. schema \in Schemas /\ recorded \in SUBSET Versions /\ tracked \in BOOLEAN
  <2>1. schema \in Schemas /\ recorded \in SUBSET Versions
    BY <1>3, AllDone, ReleasedIsSchema DEF Committed
  <2>2. tracked \in BOOLEAN
    BY <1>1
  <2>. QED
    BY <2>1, <2>2
<1>5. PostgresTypes
  BY <1>2, <1>4, StopsAssumption DEF PostgresTypes, PostgresPlaces
<1>6. \A m \in Migrators : Place(m)
  BY <1>2, MigratorsAssumption DEF Place
<1>. QED
  BY <1>2, <1>3, <1>5, <1>6 DEF PostgresInvariant

\* A run that is rolled back leaves what is committed, and lets the next one in.
LEMMA RollsBack ==
  ASSUME PostgresInvariant, NEW m \in Migrators, NEW outcome \in {"refused", "stopped"},
         Postgres!RollBack(m, outcome), stops' \in 0..MaxStops,
         outcome = "refused" => recorded = Versions
  PROVE  PostgresInvariant'
<1>. USE DEF PostgresInvariant
<1>1. /\ UNCHANGED <<schema, recorded, tracked, applied>>
      /\ pc' = [pc EXCEPT ![m] = outcome]
      /\ IF writer = m THEN writer' = Nobody /\ work' = schema ELSE UNCHANGED <<writer, work>>
  BY DEF Postgres!RollBack, Postgres!Goto
<1>2. PostgresTypes'
  BY <1>1 DEF PostgresTypes, PostgresPlaces
<1>3. pc'[m] = outcome /\ \A n \in Migrators \ {m} : pc'[n] = pc[n]
  BY <1>1 DEF PostgresTypes
<1>4. writer' # m
  BY <1>1, MigratorsAssumption
<1>5. Place(m)'
  BY <1>1, <1>3, <1>4 DEF Place
<1>6. ASSUME NEW n \in Migrators \ {m}
      PROVE  Place(n)'
  <2>1. (writer = n) <=> (writer' = n)
    BY <1>1, MigratorsAssumption
  <2>2. writer = n => work' = work
    BY <1>1
  <2>. QED
    BY <1>1, <1>3, <2>1, <2>2, OthersStay
<1>7. Committed'
  BY <1>1 DEF Committed, Released
<1>8. writer' = Nobody => work' = schema'
  BY <1>1
<1>. QED
  BY <1>2, <1>5, <1>6, <1>7, <1>8

LEMMA PostgresKeepsGoing ==
  ASSUME PostgresInvariant, NEW m \in Migrators, Postgres!Migrate(m) \/ Postgres!Rerun(m)
  PROVE  PostgresInvariant'
<1>. USE DEF PostgresInvariant
<1>0. /\ PostgresTypes /\ Committed /\ Place(m)
      /\ writer = Nobody => work = schema
  OBVIOUS
<1>1. CASE Postgres!Start(m)
  <2>1. /\ pc[m] = "idle"
        /\ UNCHANGED <<schema, recorded, tracked, writer, work, applied, stops>>
        /\ pc' = [pc EXCEPT ![m] = IF tracked THEN "read" ELSE "create"]
    BY <1>1 DEF Postgres!Start, Postgres!Goto
  <2>2. PostgresTypes'
    BY <2>1 DEF PostgresTypes, PostgresPlaces
  <2>3. /\ pc'[m] = IF tracked THEN "read" ELSE "create"
        /\ \A n \in Migrators \ {m} : pc'[n] = pc[n]
    BY <2>1 DEF PostgresTypes
  <2>4. writer # m
    BY <2>1 DEF Place
  <2>5. Place(m)'
    BY <2>1, <2>3, <2>4 DEF Place
  <2>6. \A n \in Migrators \ {m} : Place(n)'
    BY <2>1, <2>3, OthersStay
  <2>7. Committed'
    BY <2>1 DEF Committed, Released
  <2>. QED
    BY <2>1, <2>2, <2>5, <2>6, <2>7
<1>2. CASE Postgres!Create(m)
  <2>1. /\ pc[m] = "create" /\ ~tracked /\ writer = Nobody /\ writer' = m
        /\ UNCHANGED <<schema, recorded, tracked, work, applied, stops>>
        /\ pc' = [pc EXCEPT ![m] = "read"]
    BY <1>2 DEF Postgres!Create, Postgres!Goto
  <2>2. PostgresTypes'
    BY <2>1 DEF PostgresTypes, PostgresPlaces
  <2>3. pc'[m] = "read" /\ \A n \in Migrators \ {m} : pc'[n] = pc[n]
    BY <2>1 DEF PostgresTypes
  <2>4. recorded = {}
    BY <2>1, AllDone DEF Committed
  <2>5. Place(m)'
    BY <2>1, <2>3, <2>4 DEF Place
  <2>6. \A n \in Migrators \ {m} : Place(n)'
    BY <2>1, <2>3, MigratorsAssumption, OthersStay
  <2>7. Committed'
    BY <2>1 DEF Committed, Released
  <2>. QED
    BY <2>1, <2>2, <2>5, <2>6, <2>7, MigratorsAssumption
<1>3. CASE Postgres!CreatedTwice(m)
  <2>1. /\ \/ pc[m] = "create" /\ tracked
           \/ pc[m] = "script" /\ NextVersion(applied[m]) = 4 /\ 4 \in recorded
        /\ Postgres!RollBack(m, "refused") /\ stops' = stops
    BY <1>3, PostgresNames DEF Postgres!CreatedTwice, Postgres!Current
  <2>2. stops' \in 0..MaxStops
    BY <2>1 DEF PostgresTypes
  <2>3. recorded = Versions
    <3>1. CASE pc[m] = "create" /\ tracked
      BY <3>1 DEF Place
    <3>2. CASE pc[m] = "script" /\ NextVersion(applied[m]) = 4 /\ 4 \in recorded
      <4>1. PICK j \in 3..6 : AtScript(m, j)
        BY <3>2 DEF Place
      <4>2. NextVersion(4..j) = j + 1 /\ j + 1 \notin 4..j
        BY NextIs
      <4>3. 4 \notin 4..j
        BY <3>2, <4>1, <4>2 DEF AtScript
      <4>. QED
        BY <3>2, <4>1, <4>3 DEF AtScript
    <3>. QED
      BY <2>1, <3>1, <3>2
  <2>. QED
    BY <2>1, <2>2, <2>3, RollsBack
<1>4. CASE Postgres!Read(m)
  <2>1. /\ pc[m] = "read"
        /\ UNCHANGED <<schema, recorded, tracked, writer, work, stops>>
        /\ applied' = [applied EXCEPT ![m] = recorded]
        /\ pc' = [pc EXCEPT ![m] = IF Pending(recorded) = {} THEN "commit" ELSE "script"]
    BY <1>4, PostgresNames DEF Postgres!Read, Postgres!Goto
  <2>2. PostgresTypes'
    BY <2>1 DEF PostgresTypes, PostgresPlaces
  <2>3. /\ pc'[m] = IF Pending(recorded) = {} THEN "commit" ELSE "script"
        /\ applied'[m] = recorded
        /\ \A n \in Migrators \ {m} : pc'[n] = pc[n] /\ applied'[n] = applied[n]
    BY <2>1 DEF PostgresTypes
  <2>4. PICK k \in 3..7 : recorded = 4..k /\ Released(schema, k)
    BY DEF Committed
  <2>5. Place(m)'
    <3>1. CASE Pending(recorded) = {}
      <4>1. recorded = Versions
        BY <3>1, AllDone DEF PostgresTypes
      <4>2. writer # m
        BY <2>1, <4>1, AllDone DEF Place
      <4>. QED
        BY <2>1, <2>3, <3>1, <4>1, <4>2 DEF Place
    <3>2. CASE Pending(recorded) # {}
      <4>1. k # 7
        BY <2>4, <3>2, AllDone
      <4>. k \in 3..6
        BY <4>1
      <4>2. writer = m => work = schema
        BY <2>1 DEF Place
      <4>3. writer = m => Migrating(k)
        BY <2>4, <4>2 DEF Migrating
      <4>4. (writer = m => Migrating(k))'
        BY <2>1, <4>3 DEF Migrating, Released
      <4>5. AtScript(m, k)'
        BY <2>1, <2>3, <2>4, <4>4 DEF AtScript
      <4>. QED
        BY <2>1, <2>3, <3>2, <4>5 DEF Place
    <3>. QED
      BY <3>1, <3>2
  <2>6. \A n \in Migrators \ {m} : Place(n)'
    BY <2>1, <2>3, OthersStay
  <2>7. Committed'
    BY <2>1 DEF Committed, Released
  <2>. QED
    BY <2>1, <2>2, <2>5, <2>6, <2>7
<1>5. CASE Postgres!RunPending(m)
  <2>. DEFINE script == Script(PostgresScripts, NextVersion(applied[m]))
  <2>1. /\ pc[m] = "script" /\ writer \in {Nobody, m} /\ writer' = m
        /\ work' = RunScript(work, script)
        /\ UNCHANGED <<schema, recorded, tracked, applied, stops>>
        /\ pc' = [pc EXCEPT ![m] = "record"]
    BY <1>5, PostgresNames DEF Postgres!RunPending, Postgres!Goto, Postgres!Current
  <2>2. PICK j \in 3..6 : AtScript(m, j)
    BY <2>1 DEF Place
  <2>3. script = Script(PostgresScripts, j + 1) /\ j + 1 \in Versions
    BY <2>2, NextIs DEF AtScript
  <2>4. /\ work' \in Schemas
        /\ \A t \in Tables : "rows" \in work[t] => "rows" \in work'[t]
    BY <2>1, <2>3, PostgresScriptRuns DEF PostgresTypes
  <2>5. PostgresTypes'
    BY <2>1, <2>4 DEF PostgresTypes, PostgresPlaces
  <2>6. pc'[m] = "record" /\ \A n \in Migrators \ {m} : pc'[n] = pc[n]
    BY <2>1 DEF PostgresTypes
  <2>7. recorded = Versions \/ (recorded \subseteq 4..j /\ Released(work, j)
           /\ \A t \in Tables : "rows" \in schema[t] => "rows" \in work[t])
    <3>1. CASE writer = m
      BY <2>2, <3>1 DEF AtScript, Migrating
    <3>2. CASE writer = Nobody /\ recorded = 4..j
      <4>1. PICK k \in 3..7 : recorded = 4..k /\ Released(schema, k)
        BY DEF Committed
      <4>2. k = j
        BY <3>2, <4>1, SameRecords
      <4>. QED
        BY <3>2, <4>1, <4>2
    <3>. QED
      BY <2>1, <2>2, <3>1, <3>2, MigratorsAssumption DEF AtScript
  <2>8. recorded = Versions \/ (recorded \subseteq 4..j /\ Migrating(j + 1)')
    <3>1. Released(work, j) => Released(work', j + 1)
      BY <2>1, <2>3, ReleasedRuns
    <3>. QED
      BY <2>1, <2>4, <2>7, <3>1 DEF Migrating, Released
  <2>9. AtRecord(m, j)'
    BY <2>1, <2>2, <2>8 DEF AtRecord, AtScript
  <2>10. Place(m)'
    BY <2>1, <2>6, <2>9 DEF Place
  <2>11. \A n \in Migrators \ {m} : Place(n)'
    BY <2>1, <2>6, MigratorsAssumption, OthersStay
  <2>12. Committed'
    BY <2>1 DEF Committed, Released
  <2>. QED
    BY <2>1, <2>5, <2>10, <2>11, <2>12, MigratorsAssumption
<1>6. CASE Postgres!Record(m)
  <2>. DEFINE next == NextVersion(applied[m])
  <2>1. /\ pc[m] = "record" /\ next \notin recorded
        /\ UNCHANGED <<schema, recorded, tracked, writer, work, stops>>
        /\ applied' = [applied EXCEPT ![m] = applied[m] \cup {next}]
        /\ pc' = [pc EXCEPT ![m] = IF Pending(applied'[m]) = {} THEN "commit" ELSE "script"]
    BY <1>6, PostgresNames DEF Postgres!Record, Postgres!Goto, Postgres!Current
  <2>2. PICK j \in 3..6 : AtRecord(m, j)
    BY <2>1 DEF Place
  <2>3. next = j + 1 /\ j + 1 \in Versions /\ applied[m] \cup {next} = 4..(j + 1)
    BY <2>2, NextIs DEF AtRecord
  <2>. HIDE DEF next
  <2>4. PostgresTypes'
    <3>1. applied[m] \cup {next} \in SUBSET Versions
      BY <2>3 DEF PostgresTypes
    <3>2. applied' \in [Migrators -> SUBSET Versions]
      BY <2>1, <3>1 DEF PostgresTypes
    <3>. QED
      BY <2>1, <3>2 DEF PostgresTypes, PostgresPlaces
  <2>5. applied'[m] = 4..(j + 1)
    BY <2>1, <2>3 DEF PostgresTypes
  <2>6. /\ pc'[m] = IF Pending(4..(j + 1)) = {} THEN "commit" ELSE "script"
        /\ \A n \in Migrators \ {m} : pc'[n] = pc[n] /\ applied'[n] = applied[n]
    BY <2>1, <2>5 DEF PostgresTypes
  <2>7. recorded \subseteq 4..j /\ Migrating(j + 1) /\ writer = m
    BY <2>1, <2>2, <2>3 DEF AtRecord
  <2>8. Migrating(j + 1)'
    BY <2>1, <2>7 DEF Migrating, Released
  <2>9. Place(m)'
    <3>1. CASE j = 6
      <4>. j + 1 = 7
        BY <3>1
      <4>1. applied'[m] = Versions /\ Pending(4..(j + 1)) = {}
        BY <2>5, AllDone
      <4>2. pc'[m] = "commit"
        BY <2>6, <4>1
      <4>. QED
        BY <2>1, <2>7, <2>8, <4>1, <4>2 DEF Place
    <3>2. CASE j # 6
      <4>1. j + 1 \in 3..6 /\ recorded \subseteq 4..(j + 1)
        BY <2>7, <3>2
      <4>2. pc'[m] = "script"
        BY <2>6, <4>1, NextIs
      <4>3. AtScript(m, j + 1)'
        BY <2>1, <2>5, <2>7, <2>8, <4>1 DEF AtScript
      <4>. QED
        BY <2>1, <2>7, <4>1, <4>2, <4>3 DEF Place
    <3>. QED
      BY <3>1, <3>2
  <2>10. \A n \in Migrators \ {m} : Place(n)'
    BY <2>1, <2>6, OthersStay
  <2>11. Committed'
    BY <2>1 DEF Committed, Released
  <2>. QED
    BY <2>1, <2>4, <2>9, <2>10, <2>11
<1>7. CASE Postgres!RecordedTwice(m)
  <2>1. /\ pc[m] = "record" /\ NextVersion(applied[m]) \in recorded
        /\ Postgres!RollBack(m, "refused") /\ stops' = stops
    BY <1>7, PostgresNames DEF Postgres!RecordedTwice, Postgres!Current
  <2>2. stops' \in 0..MaxStops
    BY <2>1 DEF PostgresTypes
  <2>3. recorded = Versions
    <3>1. PICK j \in 3..6 : AtRecord(m, j)
      BY <2>1 DEF Place
    <3>2. NextVersion(applied[m]) = j + 1 /\ j + 1 \notin 4..j
      BY <3>1, NextIs DEF AtRecord
    <3>. QED
      BY <2>1, <3>1, <3>2 DEF AtRecord
  <2>. QED
    BY <2>1, <2>2, <2>3, RollsBack
<1>8. CASE Postgres!Commit(m)
  <2>1. /\ pc[m] = "commit"
        /\ IF writer = m
             THEN /\ schema' = work /\ recorded' = recorded \cup applied[m] /\ tracked' = TRUE
                  /\ writer' = Nobody
             ELSE UNCHANGED <<schema, recorded, tracked, writer>>
        /\ pc' = [pc EXCEPT ![m] = "done"]
        /\ UNCHANGED <<work, applied, stops>>
    BY <1>8 DEF Postgres!Commit, Postgres!Goto
  <2>2. pc'[m] = "done" /\ \A n \in Migrators \ {m} : pc'[n] = pc[n]
    BY <2>1 DEF PostgresTypes
  <2>3. CASE writer = m
    <3>1. applied[m] = Versions /\ Migrating(7)
      BY <2>1, <2>3 DEF Place
    <3>2. recorded' = Versions
      BY <2>1, <2>3, <3>1 DEF PostgresTypes
    <3>3. PostgresTypes'
      BY <2>1, <2>3, <3>2 DEF PostgresTypes, PostgresPlaces
    <3>4. Committed'
      BY <2>1, <2>3, <3>1, <3>2, AllDone DEF Committed, Migrating, Released
    <3>5. Place(m)'
      BY <2>1, <2>2, <2>3, MigratorsAssumption DEF Place
    <3>6. \A n \in Migrators \ {m} : Place(n)'
      BY <2>1, <2>2, <2>3, <3>2, MigratorsAssumption, OthersWait
    <3>. QED
      BY <2>1, <2>3, <3>3, <3>4, <3>5, <3>6
  <2>4. CASE writer # m
    <3>1. PostgresTypes'
      BY <2>1, <2>4 DEF PostgresTypes, PostgresPlaces
    <3>2. Committed'
      BY <2>1, <2>4 DEF Committed, Released
    <3>3. Place(m)'
      BY <2>1, <2>2, <2>4 DEF Place
    <3>4. \A n \in Migrators \ {m} : Place(n)'
      BY <2>1, <2>2, <2>4, OthersStay
    <3>. QED
      BY <2>1, <2>4, <3>1, <3>2, <3>3, <3>4
  <2>. QED
    BY <2>3, <2>4
<1>9. CASE Postgres!Rerun(m)
  <2>1. /\ pc[m] \in {"done", "refused", "stopped"}
        /\ UNCHANGED <<schema, recorded, tracked, writer, work, stops>>
        /\ applied' = [applied EXCEPT ![m] = {}]
        /\ pc' = [pc EXCEPT ![m] = "idle"]
    BY <1>9 DEF Postgres!Rerun, Postgres!Goto
  <2>2. PostgresTypes'
    BY <2>1 DEF PostgresTypes, PostgresPlaces
  <2>3. /\ pc'[m] = "idle"
        /\ \A n \in Migrators \ {m} : pc'[n] = pc[n] /\ applied'[n] = applied[n]
    BY <2>1 DEF PostgresTypes
  <2>4. writer # m
    BY <2>1 DEF Place
  <2>5. Place(m)'
    BY <2>1, <2>3, <2>4 DEF Place
  <2>6. \A n \in Migrators \ {m} : Place(n)'
    BY <2>1, <2>3, OthersStay
  <2>7. Committed'
    BY <2>1 DEF Committed, Released
  <2>. QED
    BY <2>1, <2>2, <2>5, <2>6, <2>7
<1>. QED
  BY <1>1, <1>2, <1>3, <1>4, <1>5, <1>6, <1>7, <1>8, <1>9 DEF Postgres!Migrate

LEMMA PostgresSteps ==
  ASSUME PostgresInvariant, Postgres!Next
  PROVE  PostgresInvariant'
<1>1. PICK m \in Migrators : Postgres!Migrate(m) \/ Postgres!Rerun(m) \/ Postgres!Stop(m)
  BY DEF Postgres!Next
<1>2. CASE Postgres!Stop(m)
  <2>1. stops < MaxStops /\ stops' = stops + 1 /\ Postgres!RollBack(m, "stopped")
    BY <1>2 DEF Postgres!Stop
  <2>2. stops' \in 0..MaxStops
    BY <2>1, StopsAssumption DEF PostgresInvariant, PostgresTypes
  <2>. QED
    BY <2>1, <2>2, RollsBack
<1>. QED
  BY <1>1, <1>2, PostgresKeepsGoing

\* What holds at every commit of a run.
LEMMA PostgresKeepsRows ==
  ASSUME PostgresInvariant, Postgres!Next
  PROVE  \A t \in Tables : "rows" \in schema[t] => "rows" \in schema'[t]
<1>1. PICK m \in Migrators : Postgres!Migrate(m) \/ Postgres!Rerun(m) \/ Postgres!Stop(m)
  BY DEF Postgres!Next
<1>2. schema' # schema => Postgres!Commit(m)
  BY <1>1 DEF Postgres!Migrate, Postgres!Start, Postgres!Create, Postgres!CreatedTwice,
              Postgres!RollBack, Postgres!Read, Postgres!RunPending, Postgres!Record,
              Postgres!RecordedTwice, Postgres!Rerun, Postgres!Stop
<1>3. CASE Postgres!Commit(m)
  <2>1. pc[m] = "commit" /\ IF writer = m THEN schema' = work ELSE schema' = schema
    BY <1>3 DEF Postgres!Commit
  <2>. QED
    BY <2>1 DEF PostgresInvariant, Place, Migrating
<1>. QED
  BY <1>2, <1>3

LEMMA PostgresPromises ==
  ASSUME PostgresInvariant
  PROVE  Postgres!TypeOK /\ Postgres!RecordedIsMigrated /\ Postgres!RefusedOnlyWhenDone
<1>1. PICK k \in 3..7 : recorded = 4..k /\ Released(schema, k)
  BY DEF PostgresInvariant, Committed
<1>2. k \in {3} \cup Versions
  BY VersionsAre
<1>3. \A t \in Tables : schema[t] \ {"rows"} = InUse(PostgresScripts, k)[t] \ {"rows"}
  BY <1>1, ReleasedIsInUse
<1>4. Postgres!RecordedIsMigrated
  BY <1>1, <1>2, <1>3, PostgresNames DEF Postgres!RecordedIsMigrated
<1>5. Postgres!RefusedOnlyWhenDone
  BY PostgresNames DEF PostgresInvariant, Place, Postgres!RefusedOnlyWhenDone
<1>. QED
  BY <1>4, <1>5, PostgresTypesAre DEF PostgresInvariant

-----------------------------------------------------------------------------
(* The SQLite scripts. *)

\* The columns that they create or add.
Id == {"id"}
IdAndBooking == {"id", "booking_required"}
Flag == {"is_admin_override"}
Reason == {"override_reason"}
Token == {"encrypted_token"}

\* The columns of the three tables.
Have(d, checkouts, new, tokens) ==
  d["checkouts"] = checkouts /\ d["checkouts_new"] = new /\ d["qr_tokens"] = tokens

LEMMA LifecycleLines ==
  ASSUME NEW d \in Schemas
  PROVE  /\ IsStatement(SqliteLifecycle[1]) /\ IsStatement(SqliteLifecycle[2])
         /\ Have(Result(d, SqliteLifecycle[1]), d["checkouts"], d["checkouts_new"],
                 IF d["qr_tokens"] = {} THEN Id ELSE d["qr_tokens"])
         /\ Have(Result(d, SqliteLifecycle[2]),
                 IF d["checkouts"] = {} THEN IdAndBooking ELSE d["checkouts"],
                 d["checkouts_new"], d["qr_tokens"])
<1>. DEFINE a == SqliteLifecycle[1]
            b == SqliteLifecycle[2]
<1>1. a[1] = "create if missing" /\ a[2] = "qr_tokens" /\ a[3] = Id
  BY DEF SqliteLifecycle, Id, IdAndBooking
<1>2. b[1] = "create if missing" /\ b[2] = "checkouts" /\ b[3] = IdAndBooking
  BY DEF SqliteLifecycle, Id, IdAndBooking
<1>. HIDE DEF a, b
<1>3. IsStatement(a) /\ IsStatement(b)
  BY <1>1, <1>2 DEF IsStatement, Kinds, Tables, Columns, Id, IdAndBooking, Flag, Reason, Token
<1>4. Have(Result(d, a), d["checkouts"], d["checkouts_new"],
           IF d["qr_tokens"] = {} THEN Id ELSE d["qr_tokens"])
  <2>1. CASE d["qr_tokens"] = {}
    <3>1. Result(d, a) = [d EXCEPT !["qr_tokens"] = Id]
      BY <1>1, <2>1, Creates
    <3>. QED
      BY <2>1, <3>1 DEF Have, Schemas, Tables
  <2>2. CASE d["qr_tokens"] # {}
    <3>1. Result(d, a) = d
      BY <1>1, <2>2, Creates
    <3>. QED
      BY <2>2, <3>1 DEF Have
  <2>. QED
    BY <2>1, <2>2
<1>5. Have(Result(d, b),
           IF d["checkouts"] = {} THEN IdAndBooking ELSE d["checkouts"],
           d["checkouts_new"], d["qr_tokens"])
  <2>1. CASE d["checkouts"] = {}
    <3>1. Result(d, b) = [d EXCEPT !["checkouts"] = IdAndBooking]
      BY <1>2, <2>1, Creates
    <3>. QED
      BY <2>1, <3>1 DEF Have, Schemas, Tables
  <2>2. CASE d["checkouts"] # {}
    <3>1. Result(d, b) = d
      BY <1>2, <2>2, Creates
    <3>. QED
      BY <2>2, <3>1 DEF Have
  <2>. QED
    BY <2>1, <2>2
<1>. QED
  BY <1>3, <1>4, <1>5 DEF a, b

LEMMA RebuildLines ==
  ASSUME NEW d \in Schemas
  PROVE  /\ \A i \in 1..4 : IsStatement(SqliteRebuild[i])
         /\ Have(Result(d, SqliteRebuild[1]), d["checkouts"], Id, d["qr_tokens"])
         /\ Have(Result(d, SqliteRebuild[2]), d["checkouts"],
                 d["checkouts_new"] \cup (d["checkouts"] \cap {"rows"}), d["qr_tokens"])
         /\ Have(Result(d, SqliteRebuild[3]), {}, d["checkouts_new"], d["qr_tokens"])
         /\ Have(Result(d, SqliteRebuild[4]), d["checkouts_new"], {}, d["qr_tokens"])
         /\ Accepts(d, SqliteRebuild[1]) => d["checkouts_new"] = {}
         /\ Accepts(d, SqliteRebuild[4]) => d["checkouts"] = {}
<1>. DEFINE a == SqliteRebuild[1]
            b == SqliteRebuild[2]
            e == SqliteRebuild[3]
            f == SqliteRebuild[4]
<1>1. a[1] = "create" /\ a[2] = "checkouts_new" /\ a[3] = Id
  BY DEF SqliteRebuild, Id
<1>2. b[1] = "copy" /\ b[2] = "checkouts" /\ b[3] = {}
  BY DEF SqliteRebuild, Id
<1>3. e[1] = "drop" /\ e[2] = "checkouts" /\ e[3] = {}
  BY DEF SqliteRebuild, Id
<1>4. f[1] = "rename" /\ f[2] = "checkouts_new" /\ f[3] = {}
  BY DEF SqliteRebuild, Id
<1>. HIDE DEF a, b, e, f
<1>5. IsStatement(a) /\ IsStatement(b) /\ IsStatement(e) /\ IsStatement(f)
  BY <1>1, <1>2, <1>3, <1>4 DEF IsStatement, Kinds, Tables, Columns, Id, IdAndBooking, Flag, Reason, Token
<1>6. \A i \in 1..4 : IsStatement(SqliteRebuild[i])
  <2>1. \A i \in 1..4 : i = 1 \/ i = 2 \/ i = 3 \/ i = 4
    OBVIOUS
  <2>. QED
    BY <1>5, <2>1 DEF a, b, e, f
<1>7. Have(Result(d, a), d["checkouts"], Id, d["qr_tokens"])
  <2>1. Result(d, a) = [d EXCEPT !["checkouts_new"] = Id]
    BY <1>1, Creates
  <2>. QED
    BY <2>1 DEF Have, Schemas, Tables
<1>8. Have(Result(d, b), d["checkouts"], d["checkouts_new"] \cup (d["checkouts"] \cap {"rows"}),
           d["qr_tokens"])
  <2>. DEFINE all == d["checkouts_new"] \cup (d["checkouts"] \cap {"rows"})
  <2>1. Result(d, b) = [d EXCEPT !["checkouts_new"] = all]
    BY <1>2, Moves
  <2>. HIDE DEF all
  <2>2. Have(Result(d, b), d["checkouts"], all, d["qr_tokens"])
    BY <2>1 DEF Have, Schemas, Tables
  <2>. QED
    BY <2>2 DEF all
<1>9. Have(Result(d, e), {}, d["checkouts_new"], d["qr_tokens"])
  BY <1>3, Moves DEF Have, Schemas, Tables
<1>10. Have(Result(d, f), d["checkouts_new"], {}, d["qr_tokens"])
  BY <1>4, Moves DEF Have, Schemas, Tables
<1>11. Accepts(d, a) => d["checkouts_new"] = {}
  BY <1>1 DEF Accepts
<1>12. Accepts(d, f) => d["checkouts"] = {}
  BY <1>4 DEF Accepts
<1>. QED
  BY <1>6, <1>7, <1>8, <1>9, <1>10, <1>11, <1>12 DEF a, b, e, f

LEMMA AddingLines ==
  ASSUME NEW d \in Schemas
  PROVE  /\ IsStatement(SqliteOverrides[1]) /\ IsStatement(SqliteOverrides[2])
         /\ IsStatement(SqliteEncryption[1])
         /\ Have(Result(d, SqliteOverrides[1]), d["checkouts"] \cup Flag,
                 d["checkouts_new"], d["qr_tokens"])
         /\ Have(Result(d, SqliteOverrides[2]), d["checkouts"] \cup Reason,
                 d["checkouts_new"], d["qr_tokens"])
         /\ Have(Result(d, SqliteEncryption[1]), d["checkouts"], d["checkouts_new"],
                 d["qr_tokens"] \cup Token)
<1>. DEFINE a == SqliteOverrides[1]
            b == SqliteOverrides[2]
            e == SqliteEncryption[1]
<1>1. a[1] = "add" /\ a[2] = "checkouts" /\ a[3] = Flag
  BY DEF SqliteOverrides, Flag, Reason
<1>2. b[1] = "add" /\ b[2] = "checkouts" /\ b[3] = Reason
  BY DEF SqliteOverrides, Flag, Reason
<1>3. e[1] = "add" /\ e[2] = "qr_tokens" /\ e[3] = Token
  BY DEF SqliteEncryption, Token
<1>. HIDE DEF a, b, e
<1>4. IsStatement(a) /\ IsStatement(b) /\ IsStatement(e)
  BY <1>1, <1>2, <1>3 DEF IsStatement, Kinds, Tables, Columns, Id, IdAndBooking, Flag, Reason, Token
<1>5. Have(Result(d, a), d["checkouts"] \cup Flag, d["checkouts_new"],
           d["qr_tokens"])
  <2>. DEFINE all == d["checkouts"] \cup Flag
  <2>1. Result(d, a) = [d EXCEPT !["checkouts"] = all]
    BY <1>1, Alters
  <2>. HIDE DEF all
  <2>2. Have(Result(d, a), all, d["checkouts_new"], d["qr_tokens"])
    BY <2>1 DEF Have, Schemas, Tables
  <2>. QED
    BY <2>2 DEF all
<1>6. Have(Result(d, b), d["checkouts"] \cup Reason, d["checkouts_new"],
           d["qr_tokens"])
  <2>. DEFINE all == d["checkouts"] \cup Reason
  <2>1. Result(d, b) = [d EXCEPT !["checkouts"] = all]
    BY <1>2, Alters
  <2>. HIDE DEF all
  <2>2. Have(Result(d, b), all, d["checkouts_new"], d["qr_tokens"])
    BY <2>1 DEF Have, Schemas, Tables
  <2>. QED
    BY <2>2 DEF all
<1>7. Have(Result(d, e), d["checkouts"], d["checkouts_new"],
           d["qr_tokens"] \cup Token)
  <2>. DEFINE all == d["qr_tokens"] \cup Token
  <2>1. Result(d, e) = [d EXCEPT !["qr_tokens"] = all]
    BY <1>3, Alters
  <2>. HIDE DEF all
  <2>2. Have(Result(d, e), d["checkouts"], d["checkouts_new"], all)
    BY <2>1 DEF Have, Schemas, Tables
  <2>. QED
    BY <2>2 DEF all
<1>. QED
  BY <1>4, <1>5, <1>6, <1>7 DEF a, b, e

\* The lines of each script.
LEMMA SqliteScriptsAre ==
  /\ Script(SqliteScripts, 4) = SqliteLifecycle /\ Script(SqliteScripts, 5) = SqliteRebuild
  /\ Script(SqliteScripts, 6) = SqliteOverrides /\ Script(SqliteScripts, 7) = SqliteEncryption
  /\ Len(SqliteLifecycle) = 2 /\ Len(SqliteRebuild) = 4
  /\ Len(SqliteOverrides) = 2 /\ Len(SqliteEncryption) = 1
<1>1. Script(SqliteScripts, 4) = SqliteLifecycle /\ Script(SqliteScripts, 5) = SqliteRebuild
  BY DEF Script, SqliteScripts
<1>2. Script(SqliteScripts, 6) = SqliteOverrides /\ Script(SqliteScripts, 7) = SqliteEncryption
  BY DEF Script, SqliteScripts
<1>3. Len(SqliteLifecycle) = 2
  BY DEF SqliteLifecycle
<1>4. Len(SqliteRebuild) = 4
  BY DEF SqliteRebuild
<1>5. Len(SqliteOverrides) = 2
  BY DEF SqliteOverrides
<1>6. Len(SqliteEncryption) = 1
  BY DEF SqliteEncryption
<1>. QED
  BY <1>1, <1>2, <1>3, <1>4, <1>5, <1>6

LEMMA SqliteDomains ==
  ASSUME NEW v \in Versions
  PROVE  /\ DOMAIN Script(SqliteScripts, v) = 1..Len(Script(SqliteScripts, v))
         /\ Len(Script(SqliteScripts, v)) \in 1..4
<1>1. DOMAIN SqliteLifecycle = 1..2
  BY DEF SqliteLifecycle
<1>2. DOMAIN SqliteRebuild = 1..4
  BY DEF SqliteRebuild
<1>3. DOMAIN SqliteOverrides = 1..2
  BY DEF SqliteOverrides
<1>4. DOMAIN SqliteEncryption = 1..1
  BY DEF SqliteEncryption
<1>5. 1 \in 1..4 /\ 2 \in 1..4 /\ 4 \in 1..4
  OBVIOUS
<1>6. v = 4 \/ v = 5 \/ v = 6 \/ v = 7
  BY VersionsAre
<1>. QED
  BY <1>1, <1>2, <1>3, <1>4, <1>5, <1>6, SqliteScriptsAre

LEMMA SqliteStatements ==
  ASSUME NEW v \in Versions, NEW l \in 1..Len(Script(SqliteScripts, v))
  PROVE  /\ IsStatement(Script(SqliteScripts, v)[l])
         /\ \/ v = 4 /\ (l = 1 \/ l = 2)
            \/ v = 5 /\ (l = 1 \/ l = 2 \/ l = 3 \/ l = 4)
            \/ v = 6 /\ (l = 1 \/ l = 2)
            \/ v = 7 /\ l = 1
<1>1. Empty \in Schemas
  BY DEF Empty, Schemas
<1>2. CASE v = 4
  <2>1. (l = 1 \/ l = 2) /\ Script(SqliteScripts, v) = SqliteLifecycle
    <3>1. Script(SqliteScripts, v) = SqliteLifecycle
      BY <1>2, SqliteScriptsAre
    <3>2. Len(Script(SqliteScripts, v)) = 2
      BY <3>1, SqliteScriptsAre
    <3>3. l \in 1..2
      BY <3>2
    <3>. QED
      BY <3>1, <3>3
  <2>2. IsStatement(SqliteLifecycle[1]) /\ IsStatement(SqliteLifecycle[2])
    BY <1>1, LifecycleLines
  <2>. QED
    BY <1>2, <2>1, <2>2
<1>3. CASE v = 5
  <2>1. l \in 1..4 /\ Script(SqliteScripts, v) = SqliteRebuild
    BY <1>3, SqliteScriptsAre
  <2>2. IsStatement(SqliteRebuild[l])
    BY <1>1, <2>1, RebuildLines
  <2>. QED
    BY <1>3, <2>1, <2>2
<1>4. CASE v = 6
  <2>1. (l = 1 \/ l = 2) /\ Script(SqliteScripts, v) = SqliteOverrides
    <3>1. Script(SqliteScripts, v) = SqliteOverrides
      BY <1>4, SqliteScriptsAre
    <3>2. Len(Script(SqliteScripts, v)) = 2
      BY <3>1, SqliteScriptsAre
    <3>3. l \in 1..2
      BY <3>2
    <3>. QED
      BY <3>1, <3>3
  <2>2. IsStatement(SqliteOverrides[1]) /\ IsStatement(SqliteOverrides[2])
    BY <1>1, AddingLines
  <2>. QED
    BY <1>4, <2>1, <2>2
<1>5. CASE v = 7
  <2>1. l = 1 /\ Script(SqliteScripts, v) = SqliteEncryption
    <3>1. Script(SqliteScripts, v) = SqliteEncryption
      BY <1>5, SqliteScriptsAre
    <3>2. Len(Script(SqliteScripts, v)) = 1
      BY <3>1, SqliteScriptsAre
    <3>3. l \in 1..1
      BY <3>2
    <3>. QED
      BY <3>1, <3>3
  <2>2. IsStatement(SqliteEncryption[1])
    BY <1>1, AddingLines
  <2>. QED
    BY <1>5, <2>1, <2>2
<1>. QED
  BY <1>2, <1>3, <1>4, <1>5, VersionsAre

\* The tables of the SQLite releases.
LEMMA SqliteReleases ==
  /\ Have(Release(SqliteScripts, 4), IdAndBooking, {}, Id)
  /\ Have(Release(SqliteScripts, 5), Id, {}, Id)
  /\ Have(Release(SqliteScripts, 6), (Id \cup Flag) \cup Reason, {}, Id)
  /\ Have(Release(SqliteScripts, 7), (Id \cup Flag) \cup Reason, {}, Id \cup Token)
  /\ \A k \in 3..7 : Release(SqliteScripts, k) \in Schemas
<1>. DEFINE d3 == Release(SqliteScripts, 3)
            d4 == Release(SqliteScripts, 4)
            d5 == Release(SqliteScripts, 5)
            d6 == Release(SqliteScripts, 6)
            d7 == Release(SqliteScripts, 7)
<1>1. ASSUME NEW d \in Schemas, NEW s, IsStatement(s)
      PROVE  Result(d, s) \in Schemas
  BY <1>1, ResultIsSchema
<1>2. /\ d3 = Empty
      /\ d4 = RunScript(d3, SqliteLifecycle) /\ d5 = RunScript(d4, SqliteRebuild)
      /\ d6 = RunScript(d5, SqliteOverrides) /\ d7 = RunScript(d6, SqliteEncryption)
  <2>1. /\ 4 \in Versions /\ 5 \in Versions /\ 6 \in Versions /\ 7 \in Versions
        /\ 4 - 1 = 3 /\ 5 - 1 = 4 /\ 6 - 1 = 5 /\ 7 - 1 = 6
    BY VersionsAre
  <2>. QED
    BY <2>1, Releases, SqliteScriptsAre
<1>. HIDE DEF d3, d4, d5, d6, d7
<1>3. 1 \in 0..4 /\ 2 \in 0..4 /\ 4 \in 0..4
  OBVIOUS
<1>4. d3 \in Schemas /\ Have(d3, {}, {}, {})
  BY <1>2 DEF Empty, Schemas, Have, Tables
<1>5. d4 \in Schemas /\ Have(d4, IdAndBooking, {}, Id)
  <2>. DEFINE x == Result(d3, SqliteLifecycle[1])
  <2>1. d4 = Result(x, SqliteLifecycle[2])
    BY <1>2, <1>3, ScriptRuns, SqliteScriptsAre
  <2>2. x \in Schemas /\ Have(x, {}, {}, Id)
    BY <1>1, <1>4, LifecycleLines DEF Have
  <2>. HIDE DEF x
  <2>3. Result(x, SqliteLifecycle[2]) \in Schemas
    BY <1>1, <2>2, LifecycleLines
  <2>4. Have(Result(x, SqliteLifecycle[2]), IdAndBooking, {}, Id)
    BY <2>2, LifecycleLines DEF Have
  <2>. QED
    BY <2>1, <2>3, <2>4
<1>6. d5 \in Schemas /\ Have(d5, Id, {}, Id)
  <2>. DEFINE x == Result(d4, SqliteRebuild[1])
              y == Result(x, SqliteRebuild[2])
              z == Result(y, SqliteRebuild[3])
  <2>0. \A i \in 1..4 : IsStatement(SqliteRebuild[i])
    BY <1>4, RebuildLines
  <2>1. d5 = Result(z, SqliteRebuild[4])
    BY <1>2, <1>3, ScriptRuns, SqliteScriptsAre
  <2>2. x \in Schemas /\ Have(x, IdAndBooking, Id, Id)
    <3>1. x \in Schemas
      BY <1>1, <1>5, <2>0
    <3>2. Have(x, IdAndBooking, Id, Id)
      BY <1>5, RebuildLines DEF Have
    <3>. QED
      BY <3>1, <3>2
  <2>. HIDE DEF x
  <2>3. y \in Schemas /\ Have(y, IdAndBooking, Id, Id)
    <3>1. y \in Schemas
      BY <1>1, <2>0, <2>2
    <3>2. Have(y, x["checkouts"], x["checkouts_new"] \cup (x["checkouts"] \cap {"rows"}),
               x["qr_tokens"])
      BY <2>2, RebuildLines
    <3>3. Id \cup (IdAndBooking \cap {"rows"}) = Id
      BY DEF Id, IdAndBooking
    <3>. QED
      BY <2>2, <3>1, <3>2, <3>3 DEF Have
  <2>. HIDE DEF y
  <2>4. z \in Schemas /\ Have(z, {}, Id, Id)
    <3>1. z \in Schemas
      BY <1>1, <2>0, <2>3
    <3>2. Have(z, {}, y["checkouts_new"], y["qr_tokens"])
      BY <2>3, RebuildLines
    <3>. QED
      BY <2>3, <3>1, <3>2 DEF Have
  <2>. HIDE DEF z
  <2>5. Result(z, SqliteRebuild[4]) \in Schemas
    BY <1>1, <2>0, <2>4
  <2>6. Have(Result(z, SqliteRebuild[4]), z["checkouts_new"], {}, z["qr_tokens"])
    BY <2>4, RebuildLines
  <2>. QED
    BY <2>1, <2>4, <2>5, <2>6 DEF Have
<1>7. d6 \in Schemas /\ Have(d6, (Id \cup Flag) \cup Reason, {}, Id)
  <2>. DEFINE x == Result(d5, SqliteOverrides[1])
  <2>1. d6 = Result(x, SqliteOverrides[2])
    BY <1>2, <1>3, ScriptRuns, SqliteScriptsAre
  <2>2. x \in Schemas
    BY <1>1, <1>6, AddingLines
  <2>3. Have(x, Id \cup Flag, {}, Id)
    BY <1>6, AddingLines DEF Have
  <2>. HIDE DEF x
  <2>4. Result(x, SqliteOverrides[2]) \in Schemas
    BY <1>1, <2>2, AddingLines
  <2>5. Have(Result(x, SqliteOverrides[2]), x["checkouts"] \cup Reason, x["checkouts_new"],
             x["qr_tokens"])
    BY <2>2, AddingLines
  <2>. QED
    BY <2>1, <2>3, <2>4, <2>5 DEF Have
<1>8. d7 \in Schemas /\ Have(d7, (Id \cup Flag) \cup Reason, {}, Id \cup Token)
  <2>1. d7 = Result(d6, SqliteEncryption[1])
    BY <1>2, <1>3, ScriptRuns, SqliteScriptsAre
  <2>2. Result(d6, SqliteEncryption[1]) \in Schemas
    BY <1>1, <1>7, AddingLines
  <2>3. Have(Result(d6, SqliteEncryption[1]), d6["checkouts"], d6["checkouts_new"],
             d6["qr_tokens"] \cup Token)
    BY <1>7, AddingLines
  <2>. QED
    BY <1>7, <2>1, <2>2, <2>3 DEF Have
<1>9. \A k \in 3..7 : k = 3 \/ k = 4 \/ k = 5 \/ k = 6 \/ k = 7
  OBVIOUS
<1>. QED
  BY <1>4, <1>5, <1>6, <1>7, <1>8, <1>9 DEF d3, d4, d5, d6, d7

LEMMA SqliteInUse ==
  ASSUME NEW k \in Versions
  PROVE  /\ InUse(SqliteScripts, k) \in Schemas
         /\ LET d == Release(SqliteScripts, k)
            IN  Have(InUse(SqliteScripts, k), d["checkouts"] \cup {"rows"}, d["checkouts_new"],
                     d["qr_tokens"])
<1>1. k \in 3..7
  BY VersionsAre
<1>2. Release(SqliteScripts, k) \in Schemas
  BY <1>1, SqliteReleases
<1>. QED
  BY <1>2, WithRowsIsSchema DEF InUse, Have, Tables

\* A database that is at version k, whatever the script of the next has done to it.
Basis(d, k) ==
  /\ "booking_required" \notin d["qr_tokens"]
  /\ "booking_required" \notin d["checkouts_new"]
  /\ d["qr_tokens"] # {} => "id" \in d["qr_tokens"]
  /\ k >= 4 => "id" \in d["qr_tokens"]
  /\ k >= 5 => "id" \in d["checkouts"] /\ "booking_required" \notin d["checkouts"]
  /\ k >= 6 => "is_admin_override" \in d["checkouts"] /\ "override_reason" \in d["checkouts"]
  /\ k >= 7 => "encrypted_token" \in d["qr_tokens"]

\* What a run before line l of script v has done itself.
Midway(d, v, l) ==
  /\ v = 4 /\ l >= 2 => "id" \in d["qr_tokens"]
  /\ v = 5 /\ l >= 2 => "id" \in d["checkouts_new"]
  /\ v = 6 /\ l >= 2 => "is_admin_override" \in d["checkouts"]

ColumnsAre ==
  /\ "id" \in Id /\ "id" \in IdAndBooking /\ "is_admin_override" \in Flag
  /\ "override_reason" \in Reason /\ "encrypted_token" \in Token
  /\ "booking_required" \notin Id /\ "booking_required" \notin Flag
  /\ "booking_required" \notin Reason /\ "booking_required" \notin Token
  /\ "rows" \notin Id /\ "rows" \notin IdAndBooking /\ "rows" \notin Flag
  /\ "rows" \notin Reason /\ "rows" \notin Token

LEMMA ColumnsAreSo == ColumnsAre
BY DEF ColumnsAre, Id, IdAndBooking, Flag, Reason, Token

LEMMA ReleasesHaveBasis ==
  ASSUME NEW k \in Versions
  PROVE  Basis(InUse(SqliteScripts, k), k)
<1>. DEFINE d == InUse(SqliteScripts, k)
            r == Release(SqliteScripts, k)
<1>1. Have(d, r["checkouts"] \cup {"rows"}, r["checkouts_new"], r["qr_tokens"])
  BY SqliteInUse
<1>2. k = 4 \/ k = 5 \/ k = 6 \/ k = 7
  BY VersionsAre
<1>3. CASE k = 4
  <2>1. Have(d, IdAndBooking \cup {"rows"}, {}, Id)
    BY <1>1, <1>3, SqliteReleases DEF Have
  <2>. QED
    BY <1>3, <2>1, ColumnsAreSo DEF Basis, Have, ColumnsAre
<1>4. CASE k = 5
  <2>1. Have(d, Id \cup {"rows"}, {}, Id)
    BY <1>1, <1>4, SqliteReleases DEF Have
  <2>. QED
    BY <1>4, <2>1, ColumnsAreSo DEF Basis, Have, ColumnsAre
<1>5. CASE k = 6
  <2>1. Have(d, ((Id \cup Flag) \cup Reason) \cup {"rows"}, {}, Id)
    BY <1>1, <1>5, SqliteReleases DEF Have
  <2>. QED
    BY <1>5, <2>1, ColumnsAreSo DEF Basis, Have, ColumnsAre
<1>6. CASE k = 7
  <2>1. Have(d, ((Id \cup Flag) \cup Reason) \cup {"rows"}, {}, Id \cup Token)
    BY <1>1, <1>6, SqliteReleases DEF Have
  <2>. QED
    BY <1>6, <2>1, ColumnsAreSo DEF Basis, Have, ColumnsAre
<1>. QED
  BY <1>2, <1>3, <1>4, <1>5, <1>6

\* A database that is at version 7 has all that the application relies on.
LEMMA BasisProvides ==
  ASSUME NEW d, Basis(d, 7), NEW v \in Versions
  PROVE  Provides(SqliteScripts, d, v)
<1>. DEFINE p == InUse(SqliteScripts, v)
            r == Release(SqliteScripts, v)
<1>1. Have(p, r["checkouts"] \cup {"rows"}, r["checkouts_new"], r["qr_tokens"])
  BY SqliteInUse
<1>2. v = 4 \/ v = 5 \/ v = 6 \/ v = 7
  BY VersionsAre
<1>3. /\ r["checkouts"] \subseteq {"id", "booking_required", "is_admin_override", "override_reason"}
      /\ r["qr_tokens"] \subseteq {"id", "encrypted_token"}
  <2>1. r["checkouts"] \in {IdAndBooking, Id, (Id \cup Flag) \cup Reason}
    BY <1>2, SqliteReleases DEF Have
  <2>2. r["qr_tokens"] \in {Id, Id \cup Token}
    BY <1>2, SqliteReleases DEF Have
  <2>3. \A x \in {IdAndBooking, Id, (Id \cup Flag) \cup Reason} :
          x \subseteq {"id", "booking_required", "is_admin_override", "override_reason"}
    BY DEF IdAndBooking, Id, Flag, Reason
  <2>4. \A x \in {Id, Id \cup Token} : x \subseteq {"id", "encrypted_token"}
    BY DEF Id, Token
  <2>5. r["checkouts"] \subseteq {"id", "booking_required", "is_admin_override", "override_reason"}
    BY <2>1, <2>3, Zenon
  <2>6. r["qr_tokens"] \subseteq {"id", "encrypted_token"}
    BY <2>2, <2>4, Zenon
  <2>. QED
    BY <2>5, <2>6
<1>4. /\ "id" \in d["checkouts"] /\ "is_admin_override" \in d["checkouts"]
      /\ "override_reason" \in d["checkouts"] /\ "booking_required" \notin d["checkouts"]
      /\ "id" \in d["qr_tokens"] /\ "encrypted_token" \in d["qr_tokens"]
      /\ "booking_required" \notin d["qr_tokens"]
  BY DEF Basis
<1>5. /\ d["checkouts"] # {} /\ p["checkouts"] \ {"rows", "booking_required"} \subseteq d["checkouts"]
      /\ "booking_required" \notin d["checkouts"]
  BY <1>1, <1>3, <1>4 DEF Have
<1>6. /\ d["qr_tokens"] # {} /\ p["qr_tokens"] \ {"rows", "booking_required"} \subseteq d["qr_tokens"]
      /\ "booking_required" \notin d["qr_tokens"]
  BY <1>1, <1>3, <1>4 DEF Have
<1>7. \A t \in Tables \ {"checkouts_new"} : t = "checkouts" \/ t = "qr_tokens"
  BY DEF Tables
<1>. QED
  BY <1>5, <1>6, <1>7 DEF Provides

\* A line takes the database towards the version of its script, and nothing back
\* from the versions before.
LEMMA LinesProgress ==
  ASSUME NEW d \in Schemas, NEW v \in Versions, NEW l \in 1..Len(Script(SqliteScripts, v)),
         Basis(d, v - 1), Midway(d, v, l)
  PROVE  LET e == Result(d, Script(SqliteScripts, v)[l])
         IN  IF l < Len(Script(SqliteScripts, v)) THEN Basis(e, v - 1) /\ Midway(e, v, l + 1)
             ELSE Basis(e, v)
<1>. DEFINE e == Result(d, Script(SqliteScripts, v)[l])
<1>1. CASE v = 4
  <2>1. Script(SqliteScripts, v) = SqliteLifecycle /\ Len(SqliteLifecycle) = 2
    BY <1>1, SqliteScriptsAre
  <2>2. l = 1 \/ l = 2
    BY <1>1, SqliteStatements
  <2>3. CASE l = 1
    <3>1. Have(e, d["checkouts"], d["checkouts_new"],
               IF d["qr_tokens"] = {} THEN Id ELSE d["qr_tokens"])
      BY <2>1, <2>3, LifecycleLines
    <3>. HIDE DEF e
    <3>2. Basis(e, v - 1) /\ Midway(e, v, l + 1)
      BY <1>1, <2>3, <3>1, ColumnsAreSo DEF Basis, Midway, Have, ColumnsAre
    <3>. QED
      BY <2>1, <2>3, <3>2 DEF e
  <2>4. CASE l = 2
    <3>1. /\ e["checkouts_new"] = d["checkouts_new"] /\ e["qr_tokens"] = d["qr_tokens"]
      BY <2>1, <2>4, LifecycleLines DEF Have
    <3>. HIDE DEF e
    <3>2. Basis(e, v)
      BY <1>1, <2>4, <3>1 DEF Basis, Midway
    <3>. QED
      BY <2>1, <2>4, <3>2 DEF e
  <2>. QED
    BY <2>2, <2>3, <2>4
<1>2. CASE v = 5
  <2>1. Script(SqliteScripts, v) = SqliteRebuild /\ Len(SqliteRebuild) = 4
    BY <1>2, SqliteScriptsAre
  <2>2. l = 1 \/ l = 2 \/ l = 3 \/ l = 4
    BY <1>2, SqliteStatements
  <2>3. CASE l = 1
    <3>1. Have(e, d["checkouts"], Id, d["qr_tokens"])
      BY <2>1, <2>3, RebuildLines
    <3>. HIDE DEF e
    <3>2. Basis(e, v - 1) /\ Midway(e, v, l + 1)
      BY <1>2, <2>3, <3>1, ColumnsAreSo DEF Basis, Midway, Have, ColumnsAre
    <3>. QED
      BY <2>1, <2>3, <3>2 DEF e
  <2>4. CASE l = 2
    <3>1. Have(e, d["checkouts"], d["checkouts_new"] \cup (d["checkouts"] \cap {"rows"}),
               d["qr_tokens"])
      BY <2>1, <2>4, RebuildLines
    <3>. HIDE DEF e
    <3>2. Basis(e, v - 1) /\ Midway(e, v, l + 1)
      BY <1>2, <2>4, <3>1 DEF Basis, Midway, Have
    <3>. QED
      BY <2>1, <2>4, <3>2 DEF e
  <2>5. CASE l = 3
    <3>1. Have(e, {}, d["checkouts_new"], d["qr_tokens"])
      BY <2>1, <2>5, RebuildLines
    <3>. HIDE DEF e
    <3>2. Basis(e, v - 1) /\ Midway(e, v, l + 1)
      BY <1>2, <2>5, <3>1 DEF Basis, Midway, Have
    <3>. QED
      BY <2>1, <2>5, <3>2 DEF e
  <2>6. CASE l = 4
    <3>1. Have(e, d["checkouts_new"], {}, d["qr_tokens"])
      BY <2>1, <2>6, RebuildLines
    <3>. HIDE DEF e
    <3>2. Basis(e, v)
      BY <1>2, <2>6, <3>1 DEF Basis, Midway, Have
    <3>. QED
      BY <2>1, <2>6, <3>2 DEF e
  <2>. QED
    BY <2>2, <2>3, <2>4, <2>5, <2>6
<1>3. CASE v = 6
  <2>1. Script(SqliteScripts, v) = SqliteOverrides /\ Len(SqliteOverrides) = 2
    BY <1>3, SqliteScriptsAre
  <2>2. l = 1 \/ l = 2
    BY <1>3, SqliteStatements
  <2>3. CASE l = 1
    <3>1. Have(e, d["checkouts"] \cup Flag, d["checkouts_new"], d["qr_tokens"])
      BY <2>1, <2>3, AddingLines
    <3>. HIDE DEF e
    <3>2. Basis(e, v - 1) /\ Midway(e, v, l + 1)
      BY <1>3, <2>3, <3>1, ColumnsAreSo DEF Basis, Midway, Have, ColumnsAre
    <3>. QED
      BY <2>1, <2>3, <3>2 DEF e
  <2>4. CASE l = 2
    <3>1. Have(e, d["checkouts"] \cup Reason, d["checkouts_new"], d["qr_tokens"])
      BY <2>1, <2>4, AddingLines
    <3>. HIDE DEF e
    <3>2. Basis(e, v)
      BY <1>3, <2>4, <3>1, ColumnsAreSo DEF Basis, Midway, Have, ColumnsAre
    <3>. QED
      BY <2>1, <2>4, <3>2 DEF e
  <2>. QED
    BY <2>2, <2>3, <2>4
<1>4. CASE v = 7
  <2>1. Script(SqliteScripts, v) = SqliteEncryption /\ Len(SqliteEncryption) = 1
    BY <1>4, SqliteScriptsAre
  <2>2. l = 1
    BY <1>4, SqliteStatements
  <2>3. Have(e, d["checkouts"], d["checkouts_new"], d["qr_tokens"] \cup Token)
    BY <2>1, <2>2, AddingLines
  <2>. HIDE DEF e
  <2>4. Basis(e, v)
    BY <1>4, <2>2, <2>3, ColumnsAreSo DEF Basis, Midway, Have, ColumnsAre
  <2>. QED
    BY <2>1, <2>2, <2>4 DEF e
<1>. QED
  BY <1>1, <1>2, <1>3, <1>4, VersionsAre

\* Only the script that rebuilds checkouts moves rows, and touches checkouts_new.
LEMMA OtherLinesKeepRows ==
  ASSUME NEW d \in Schemas, NEW v \in Versions, NEW l \in 1..Len(Script(SqliteScripts, v)), v # 5
  PROVE  LET e == Result(d, Script(SqliteScripts, v)[l])
         IN  /\ e["checkouts_new"] = d["checkouts_new"]
             /\ \A t \in Tables : "rows" \in e[t] <=> "rows" \in d[t]
<1>. DEFINE e == Result(d, Script(SqliteScripts, v)[l])
<1>1. \E c, q : /\ Have(e, c, d["checkouts_new"], q)
                /\ ("rows" \in c) <=> ("rows" \in d["checkouts"])
                /\ ("rows" \in q) <=> ("rows" \in d["qr_tokens"])
  <2>1. CASE v = 4 /\ l = 1
    BY <2>1, LifecycleLines, SqliteScriptsAre, ColumnsAreSo DEF ColumnsAre
  <2>2. CASE v = 4 /\ l = 2
    BY <2>2, LifecycleLines, SqliteScriptsAre, ColumnsAreSo DEF ColumnsAre
  <2>3. CASE v = 6 /\ l = 1
    <3>1. Have(e, d["checkouts"] \cup Flag, d["checkouts_new"], d["qr_tokens"])
      BY <2>3, AddingLines, SqliteScriptsAre
    <3>2. ("rows" \in d["checkouts"] \cup Flag) <=> ("rows" \in d["checkouts"])
      BY ColumnsAreSo DEF ColumnsAre
    <3>. QED
      BY <3>1, <3>2, Zenon
  <2>4. CASE v = 6 /\ l = 2
    <3>1. Have(e, d["checkouts"] \cup Reason, d["checkouts_new"], d["qr_tokens"])
      BY <2>4, AddingLines, SqliteScriptsAre
    <3>2. ("rows" \in d["checkouts"] \cup Reason) <=> ("rows" \in d["checkouts"])
      BY ColumnsAreSo DEF ColumnsAre
    <3>. QED
      BY <3>1, <3>2, Zenon
  <2>5. CASE v = 7 /\ l = 1
    <3>1. Have(e, d["checkouts"], d["checkouts_new"], d["qr_tokens"] \cup Token)
      BY <2>5, AddingLines, SqliteScriptsAre
    <3>2. ("rows" \in d["qr_tokens"] \cup Token) <=> ("rows" \in d["qr_tokens"])
      BY ColumnsAreSo DEF ColumnsAre
    <3>. QED
      BY <3>1, <3>2, Zenon
  <2>. QED
    BY <2>1, <2>2, <2>3, <2>4, <2>5, SqliteStatements
<1>. QED
  BY <1>1 DEF Have, Tables

-----------------------------------------------------------------------------
(* SQLite. *)

LEMMA SqliteNames ==
  /\ Sqlite!Versions = Versions /\ Sqlite!Tables = Tables /\ Sqlite!Schemas = Schemas
  /\ Sqlite!Empty = Empty /\ Sqlite!SqliteScripts = SqliteScripts
  /\ \A d, s : Sqlite!Result(d, s) = Result(d, s) /\ Sqlite!Accepts(d, s) = Accepts(d, s)
  /\ \A s, v : Sqlite!Script(s, v) = Script(s, v)
  /\ \A s, k : Sqlite!InUse(s, k) = InUse(s, k)
  /\ \A a : Sqlite!Pending(a) = Pending(a) /\ Sqlite!NextVersion(a) = NextVersion(a)
<1>1. Sqlite!Versions = Versions /\ Sqlite!Tables = Tables
  BY DEF Sqlite!Versions, Versions, Sqlite!Tables, Tables
<1>2. Sqlite!Columns = Columns
  BY DEF Sqlite!Columns, Columns
<1>3. Sqlite!Schemas = Schemas /\ Sqlite!Empty = Empty
  BY <1>1, <1>2 DEF Sqlite!Schemas, Schemas, Sqlite!Empty, Empty
<1>4. Sqlite!SqliteScripts = SqliteScripts
  BY DEF Sqlite!SqliteScripts, SqliteScripts, Sqlite!SqliteLifecycle, SqliteLifecycle,
         Sqlite!SqliteRebuild, SqliteRebuild, Sqlite!SqliteOverrides, SqliteOverrides,
         Sqlite!SqliteEncryption, SqliteEncryption
<1>5. \A d, s : Sqlite!Result(d, s) = Result(d, s)
  BY Zenon DEF Sqlite!Result, Result
<1>6. \A d, s : Sqlite!Accepts(d, s) = Accepts(d, s)
  BY Zenon DEF Sqlite!Accepts, Accepts
<1>7. \A d, s : Sqlite!RunScript(d, s) = RunScript(d, s)
  BY <1>5, Zenon DEF Sqlite!RunScript, RunScript
<1>8. \A s, v : Sqlite!Script(s, v) = Script(s, v)
  BY DEF Sqlite!Script, Script
<1>9. \A s, k : Sqlite!Release(s, k) = Release(s, k)
  BY <1>1, <1>3, <1>7, <1>8, Zenon DEF Sqlite!Release, Release
<1>10. \A s, k : Sqlite!InUse(s, k) = InUse(s, k)
  BY <1>9 DEF Sqlite!InUse, InUse, Sqlite!WithRows, WithRows
<1>11. \A a : Sqlite!Pending(a) = Pending(a)
  BY <1>1 DEF Sqlite!Pending, Pending
<1>12. \A a : Sqlite!NextVersion(a) = NextVersion(a)
  BY <1>11 DEF Sqlite!NextVersion, NextVersion
<1>. QED
  BY <1>1, <1>3, <1>4, <1>5, <1>6, <1>8, <1>10, <1>11, <1>12

\* Whatever was applied, the next version is one that was not.
LEMMA NextIsPending ==
  ASSUME NEW a \in SUBSET Versions, Pending(a) # {}
  PROVE  NextVersion(a) \in Versions /\ NextVersion(a) \notin a
<1>1. \E v \in Pending(a) : \A u \in Pending(a) : v <= u
  <2>1. CASE 4 \in Pending(a)
    BY <2>1, VersionsAre DEF Pending
  <2>2. CASE 4 \notin Pending(a) /\ 5 \in Pending(a)
    BY <2>2, VersionsAre DEF Pending
  <2>3. CASE 4 \notin Pending(a) /\ 5 \notin Pending(a) /\ 6 \in Pending(a)
    BY <2>3, VersionsAre DEF Pending
  <2>4. CASE 4 \notin Pending(a) /\ 5 \notin Pending(a) /\ 6 \notin Pending(a)
    BY <2>4, VersionsAre DEF Pending
  <2>. QED
    BY <2>1, <2>2, <2>3, <2>4
<1>2. NextVersion(a) \in Pending(a)
  BY <1>1 DEF NextVersion
<1>. QED
  BY <1>2 DEF Pending

At(m) == NextVersion(applied[m])

SqlitePlaces == {"idle", "script", "record", "commit", "done", "stopped", "failed"}

\* A run that is at a version has it before it, and is at a line of its script.
SqliteTypes ==
  /\ schema \in Schemas
  /\ recorded \in SUBSET Versions
  /\ writer \in Migrators \cup {Nobody}
  /\ pc \in [Migrators -> SqlitePlaces]
  /\ applied \in [Migrators -> SUBSET Versions]
  /\ line \in [Migrators -> Nat]
  /\ \A m \in Migrators : pc[m] \in {"script", "record", "commit"} => Pending(applied[m]) # {}
  /\ \A m \in Migrators : pc[m] = "script" => line[m] \in 1..Len(Script(SqliteScripts, At(m)))

\* A run that has created checkouts_new and not yet renamed it: it is the only one,
\* and has copied the rows before it drops the table they were in.
Rebuilding(m) == pc[m] = "script" /\ At(m) = 5 /\ line[m] # 1

RowsCopied ==
  /\ \A m \in Migrators : Rebuilding(m) => schema["checkouts_new"] # {}
  /\ \A m, n \in Migrators : Rebuilding(m) /\ Rebuilding(n) => m = n
  /\ \A m \in Migrators :
       Rebuilding(m) /\ line[m] = 3 /\ "rows" \in schema["checkouts"]
         => "rows" \in schema["checkouts_new"]

\* Without a second run, the database is at the version it records, and what the
\* run that there may be has done since is the beginning of the next script.
AtVersion(m, k) ==
  /\ pc[m] \in {"script", "record", "commit"} => k # 7 /\ applied[m] = 4..k
  /\ pc[m] = "script" => Midway(schema, k + 1, line[m])
  /\ pc[m] \in {"record", "commit"} => Basis(schema, k + 1)

Alone == \A m, n \in Migrators : Running(m) /\ Running(n) => m = n

InOrder ==
  \E k \in 3..7 :
    /\ recorded = 4..k /\ Basis(schema, k)
    /\ \A m \in Migrators : AtVersion(m, k)

SqliteInvariant ==
  SqliteTypes /\ RowsCopied /\ (~overlapped => Alone /\ InOrder)

LEMMA SqliteStarts ==
  ASSUME Sqlite!Init, overlapped = FALSE
  PROVE  SqliteInvariant
<1>1. \/ schema = Empty /\ recorded = {}
      \/ \E k \in Versions : schema = InUse(SqliteScripts, k) /\ recorded = 4..k
  BY SqliteNames DEF Sqlite!Init
<1>2. /\ writer = Nobody
      /\ pc = [m \in Migrators |-> "idle"]
      /\ applied = [m \in Migrators |-> {}]
      /\ line = [m \in Migrators |-> 1]
  BY DEF Sqlite!Init
<1>3. schema \in Schemas /\ \E k \in 3..7 : recorded = 4..k /\ Basis(schema, k)
  <2>1. CASE schema = Empty /\ recorded = {}
    <3>1. Empty \in Schemas /\ Basis(Empty, 3)
      BY DEF Empty, Schemas, Basis, Tables
    <3>. QED
      BY <2>1, <3>1, AllDone
  <2>2. ASSUME NEW k \in Versions, schema = InUse(SqliteScripts, k), recorded = 4..k
        PROVE  schema \in Schemas /\ \E i \in 3..7 : recorded = 4..i /\ Basis(schema, i)
    <3>1. k \in 3..7
      BY VersionsAre
    <3>. QED
      BY <2>2, <3>1, SqliteInUse, ReleasesHaveBasis
  <2>. QED
    BY <1>1, <2>1, <2>2
<1>4. recorded \in SUBSET Versions
  BY <1>3, AllDone
<1>5. SqliteTypes
  BY <1>2, <1>3, <1>4 DEF SqliteTypes, SqlitePlaces
<1>6. RowsCopied
  BY <1>2 DEF RowsCopied, Rebuilding
<1>7. Alone
  BY <1>2 DEF Alone, Running
<1>8. InOrder
  BY <1>2, <1>3 DEF InOrder, AtVersion
<1>. QED
  BY <1>5, <1>6, <1>7, <1>8 DEF SqliteInvariant

\* Steps of m after which nobody but m is anywhere else, and m is not rebuilding.
LEMMA RowsStayCopied ==
  ASSUME RowsCopied, schema' = schema, NEW m \in Migrators, ~Rebuilding(m)',
         \A n \in Migrators \ {m} :
           pc'[n] = pc[n] /\ applied'[n] = applied[n] /\ line'[n] = line[n]
  PROVE  RowsCopied'
<1>1. \A n \in Migrators \ {m} : Rebuilding(n)' <=> Rebuilding(n)
  BY DEF Rebuilding, At
<1>2. \A n \in Migrators : Rebuilding(n)' => Rebuilding(n) /\ line'[n] = line[n]
  BY <1>1
<1>. QED
  BY <1>2 DEF RowsCopied

\* A statement moves the rows before it drops their table.
LEMMA StatementKeepsRows ==
  ASSUME SqliteTypes, RowsCopied, NEW m \in Migrators, Sqlite!Statement(m)
  PROVE  /\ RowsCopied'
         /\ \A t \in Tables : "rows" \in schema[t] => \E u \in Tables : "rows" \in schema'[u]
<1>. DEFINE v == At(m)
            l == line[m]
            script == Script(SqliteScripts, v)
<1>1. /\ pc[m] = "script" /\ Accepts(schema, script[l]) /\ schema' = Result(schema, script[l])
      /\ IF l < Len(script) THEN line' = [line EXCEPT ![m] = l + 1] /\ pc' = pc
         ELSE pc' = [pc EXCEPT ![m] = "record"] /\ line' = line
      /\ applied' = applied
  BY SqliteNames DEF Sqlite!Statement, Sqlite!Goto, Sqlite!Current, At
<1>2. v \in Versions /\ l \in 1..Len(script)
  BY <1>1, NextIsPending DEF SqliteTypes, At
<1>3. /\ v = 4 \/ v = 5 \/ v = 6 \/ v = 7
      /\ v = 5 => l = 1 \/ l = 2 \/ l = 3 \/ l = 4
  BY <1>2, SqliteStatements
<1>4. /\ \A n \in Migrators \ {m} : pc'[n] = pc[n] /\ line'[n] = line[n]
      /\ IF l < Len(script) THEN pc'[m] = "script" /\ line'[m] = l + 1 ELSE pc'[m] = "record"
  BY <1>1 DEF SqliteTypes
<1>5. \A n \in Migrators : At(n)' = At(n)
  BY <1>1 DEF At
<1>6. \A n \in Migrators \ {m} : Rebuilding(n)' <=> Rebuilding(n)
  BY <1>4, <1>5 DEF Rebuilding
<1>7. schema \in Schemas /\ At(m) = v
  BY DEF SqliteTypes
<1>. HIDE DEF v, l
<1>8. CASE v # 5
  <2>1. /\ schema'["checkouts_new"] = schema["checkouts_new"]
        /\ \A t \in Tables : "rows" \in schema'[t] <=> "rows" \in schema[t]
    BY <1>1, <1>2, <1>7, <1>8, OtherLinesKeepRows
  <2>2. ~Rebuilding(m)'
    BY <1>5, <1>7, <1>8 DEF Rebuilding
  <2>3. "checkouts" \in Tables
    BY DEF Tables
  <2>4. \A n \in Migrators : Rebuilding(n)' => Rebuilding(n) /\ line'[n] = line[n]
    BY <1>4, <1>6, <2>2
  <2>. QED
    BY <2>1, <2>3, <2>4 DEF RowsCopied
<1>9. CASE v = 5
  <2>1. script = SqliteRebuild /\ Len(script) = 4
    BY <1>9, SqliteScriptsAre
  <2>2. l = line[m] /\ v = At(m)
    BY DEF l, v
  <2>3. Rebuilding(m) <=> l # 1
    BY <1>1, <1>9, <2>2 DEF Rebuilding
  <2>4. l # 1 => \A n \in Migrators \ {m} : ~Rebuilding(n)'
    BY <1>6, <2>3 DEF RowsCopied
  <2>5. CASE l = 1
    <3>1. schema["checkouts_new"] = {}
      BY <1>1, <1>7, <2>1, <2>5, RebuildLines
    <3>2. Have(schema', schema["checkouts"], Id, schema["qr_tokens"])
      BY <1>1, <1>7, <2>1, <2>5, RebuildLines
    <3>3. \A n \in Migrators \ {m} : ~Rebuilding(n)'
      BY <1>6, <3>1 DEF RowsCopied
    <3>4. line'[m] = 2
      BY <1>4, <2>1, <2>5
    <3>5. Id # {}
      BY DEF Id
    <3>6. RowsCopied'
      BY <3>2, <3>3, <3>4, <3>5 DEF RowsCopied, Have
    <3>. QED
      BY <3>1, <3>2, <3>6 DEF Have, Tables
  <2>6. CASE l = 2
    <3>1. Have(schema', schema["checkouts"],
               schema["checkouts_new"] \cup (schema["checkouts"] \cap {"rows"}),
               schema["qr_tokens"])
      BY <1>1, <1>7, <2>1, <2>6, RebuildLines
    <3>2. schema["checkouts_new"] # {}
      BY <2>3, <2>6 DEF RowsCopied
    <3>3. RowsCopied'
      BY <2>4, <2>6, <3>1, <3>2 DEF RowsCopied, Have
    <3>. QED
      BY <3>1, <3>3 DEF Have, Tables
  <2>7. CASE l = 3
    <3>1. Have(schema', {}, schema["checkouts_new"], schema["qr_tokens"])
      BY <1>1, <1>7, <2>1, <2>7, RebuildLines
    <3>2. /\ schema["checkouts_new"] # {}
          /\ "rows" \in schema["checkouts"] => "rows" \in schema["checkouts_new"]
      <4>1. line[m] = 3
        BY <2>2, <2>7
      <4>2. Rebuilding(m)
        BY <2>3, <2>7
      <4>. QED
        BY <4>1, <4>2 DEF RowsCopied
    <3>3. RowsCopied'
      BY <2>4, <2>7, <3>1, <3>2 DEF RowsCopied, Have
    <3>. QED
      BY <3>1, <3>2, <3>3 DEF Have, Tables
  <2>8. CASE l = 4
    <3>1. /\ Have(schema', schema["checkouts_new"], {}, schema["qr_tokens"])
          /\ schema["checkouts"] = {}
      BY <1>1, <1>7, <2>1, <2>8, RebuildLines
    <3>2. ~Rebuilding(m)'
      BY <1>4, <2>1, <2>8 DEF Rebuilding
    <3>3. RowsCopied'
      BY <2>4, <2>8, <3>2 DEF RowsCopied
    <3>. QED
      BY <3>1, <3>3 DEF Have, Tables
  <2>. QED
    BY <1>3, <1>9, <2>5, <2>6, <2>7, <2>8
<1>. QED
  BY <1>8, <1>9

LEMMA StatementKeepsTypes ==
  ASSUME SqliteTypes, NEW m \in Migrators, Sqlite!Statement(m)
  PROVE  SqliteTypes'
<1>. DEFINE script == Script(SqliteScripts, At(m))
<1>1. /\ pc[m] = "script" /\ schema' = Result(schema, script[line[m]])
      /\ IF line[m] < Len(script) THEN line' = [line EXCEPT ![m] = line[m] + 1] /\ pc' = pc
         ELSE pc' = [pc EXCEPT ![m] = "record"] /\ line' = line
      /\ UNCHANGED <<recorded, writer, applied>>
  BY SqliteNames DEF Sqlite!Statement, Sqlite!Goto, Sqlite!Current, At
<1>2. At(m) \in Versions /\ line[m] \in 1..Len(script) /\ line[m] \in Nat
  BY <1>1, NextIsPending DEF SqliteTypes, At
<1>3. Len(script) \in 1..4
  BY <1>2, SqliteDomains
<1>4. schema' \in Schemas
  BY <1>1, <1>2, SqliteStatements, ResultIsSchema DEF SqliteTypes
<1>. HIDE DEF script
<1>5. pc' \in [Migrators -> SqlitePlaces] /\ line' \in [Migrators -> Nat]
  <2>1. line[m] + 1 \in Nat
    BY <1>2
  <2>. QED
    BY <1>1, <2>1 DEF SqliteTypes, SqlitePlaces
<1>6. \A n \in Migrators : At(n)' = At(n)
  BY <1>1 DEF At
<1>7. /\ \A n \in Migrators \ {m} : pc'[n] = pc[n] /\ line'[n] = line[n]
      /\ IF line[m] < Len(script) THEN pc'[m] = "script" /\ line'[m] = line[m] + 1
         ELSE pc'[m] = "record"
  BY <1>1 DEF SqliteTypes
<1>8. ASSUME NEW n \in Migrators, pc'[n] = "script"
      PROVE  line'[n] \in 1..Len(Script(SqliteScripts, At(n)'))
  <2>1. CASE n = m
    <3>1. line[m] < Len(script) /\ line'[m] = line[m] + 1
      BY <1>7, <1>8, <2>1
    <3>2. line'[m] \in 1..Len(script)
      BY <1>2, <1>3, <3>1
    <3>. QED
      BY <1>6, <2>1, <3>2 DEF script
  <2>2. CASE n # m
    BY <1>6, <1>7, <1>8, <2>2 DEF SqliteTypes
  <2>. QED
    BY <2>1, <2>2
<1>9. \A n \in Migrators : pc'[n] \in {"script", "record", "commit"} => Pending(applied'[n]) # {}
  BY <1>1, <1>7 DEF SqliteTypes
<1>. QED
  BY <1>1, <1>4, <1>5, <1>8, <1>9 DEF SqliteTypes

\* Without a second run, it brings the database closer to the next version.
LEMMA StatementInOrder ==
  ASSUME SqliteTypes, Alone, InOrder, NEW m \in Migrators, Sqlite!Statement(m)
  PROVE  InOrder'
<1>. DEFINE script == Script(SqliteScripts, At(m))
<1>1. /\ pc[m] = "script" /\ schema' = Result(schema, script[line[m]])
      /\ IF line[m] < Len(script) THEN line' = [line EXCEPT ![m] = line[m] + 1] /\ pc' = pc
         ELSE pc' = [pc EXCEPT ![m] = "record"] /\ line' = line
      /\ UNCHANGED <<recorded, writer, applied>>
  BY SqliteNames DEF Sqlite!Statement, Sqlite!Goto, Sqlite!Current, At
<1>2. PICK k \in 3..7 :
        recorded = 4..k /\ Basis(schema, k) /\ \A n \in Migrators : AtVersion(n, k)
  BY DEF InOrder
<1>3. k # 7 /\ applied[m] = 4..k /\ Midway(schema, k + 1, line[m])
  BY <1>1, <1>2 DEF AtVersion
<1>. k \in 3..6 /\ (k + 1) - 1 = k
  BY <1>3
<1>4. At(m) = k + 1 /\ k + 1 \in Versions
  BY <1>3, NextIs DEF At
<1>5. line[m] \in 1..Len(script) /\ schema \in Schemas
  BY <1>1 DEF SqliteTypes
<1>6. IF line[m] < Len(script) THEN Basis(schema', k) /\ Midway(schema', k + 1, line[m] + 1)
      ELSE Basis(schema', k + 1)
  BY <1>1, <1>2, <1>3, <1>4, <1>5, LinesProgress
<1>. HIDE DEF script
<1>7. Basis(schema', k)
  <2>1. \A d : Basis(d, k + 1) => Basis(d, k)
    BY DEF Basis
  <2>. QED
    BY <1>6, <2>1
<1>8. \A n \in Migrators \ {m} : ~Running(n) /\ pc'[n] = pc[n]
  BY <1>1 DEF Alone, Running, SqliteTypes
<1>9. ASSUME NEW n \in Migrators \ {m}
      PROVE  AtVersion(n, k)'
  BY <1>8 DEF AtVersion, Running
<1>10. AtVersion(m, k)'
  <2>1. CASE line[m] < Len(script)
    <3>1. pc'[m] = "script" /\ line'[m] = line[m] + 1
      BY <1>1, <2>1 DEF SqliteTypes
    <3>. QED
      BY <1>1, <1>3, <1>6, <2>1, <3>1 DEF AtVersion
  <2>2. CASE ~(line[m] < Len(script))
    <3>1. pc'[m] = "record"
      BY <1>1, <2>2 DEF SqliteTypes
    <3>. QED
      BY <1>1, <1>3, <1>6, <2>2, <3>1 DEF AtVersion
  <2>. QED
    BY <2>1, <2>2
<1>. QED
  BY <1>1, <1>2, <1>7, <1>9, <1>10 DEF InOrder

\* Steps of m that leave the tables and the records alone.
LEMMA OthersInOrder ==
  ASSUME UNCHANGED <<schema, recorded>>, NEW m \in Migrators,
         \A n \in Migrators \ {m} :
           pc'[n] = pc[n] /\ applied'[n] = applied[n] /\ line'[n] = line[n],
         NEW k \in 3..7, recorded = 4..k, Basis(schema, k),
         \A n \in Migrators \ {m} : AtVersion(n, k), AtVersion(m, k)'
  PROVE  InOrder'
<1>1. \A n \in Migrators \ {m} : AtVersion(n, k)'
  BY DEF AtVersion
<1>2. \A n \in Migrators : AtVersion(n, k)'
  BY <1>1
<1>3. recorded' = 4..k /\ Basis(schema', k)
  OBVIOUS
<1>. QED
  BY <1>2, <1>3 DEF InOrder

\* Other steps of a run on SQLite.
LEMMA SqliteKeepsGoing ==
  ASSUME SqliteTypes, RowsCopied, NEW m \in Migrators,
         \/ Sqlite!Start(m) \/ Sqlite!Record(m) \/ Sqlite!Commit(m) \/ Sqlite!Refused(m)
         \/ Sqlite!Stop(m) \/ Sqlite!Rerun(m)
  PROVE  SqliteTypes' /\ RowsCopied' /\ schema' = schema /\ (Alone /\ InOrder => InOrder')
<1>1. CASE Sqlite!Start(m)
  <2>1. /\ pc[m] = "idle" /\ applied' = [applied EXCEPT ![m] = recorded]
        /\ pc' = [pc EXCEPT ![m] = IF Pending(recorded) = {} THEN "done" ELSE "script"]
        /\ line' = [line EXCEPT ![m] = 1]
        /\ UNCHANGED <<schema, recorded, writer>>
    BY <1>1, SqliteNames DEF Sqlite!Start, Sqlite!Goto
  <2>2. /\ applied'[m] = recorded /\ line'[m] = 1
        /\ pc'[m] = IF Pending(recorded) = {} THEN "done" ELSE "script"
        /\ \A n \in Migrators \ {m} :
             pc'[n] = pc[n] /\ applied'[n] = applied[n] /\ line'[n] = line[n]
    BY <2>1 DEF SqliteTypes
  <2>3. SqliteTypes'
    <3>1. /\ pc' \in [Migrators -> SqlitePlaces] /\ line' \in [Migrators -> Nat]
          /\ applied' \in [Migrators -> SUBSET Versions]
      BY <2>1 DEF SqliteTypes, SqlitePlaces
    <3>2. \A n \in Migrators \ {m} :
            /\ pc'[n] \in {"script", "record", "commit"} => Pending(applied'[n]) # {}
            /\ pc'[n] = "script" => line'[n] \in 1..Len(Script(SqliteScripts, At(n)'))
      BY <2>2 DEF SqliteTypes, At
    <3>3. pc'[m] \in {"script", "record", "commit"} => Pending(applied'[m]) # {}
      BY <2>2
    <3>4. pc'[m] = "script" => line'[m] \in 1..Len(Script(SqliteScripts, At(m)'))
      <4>1. ASSUME Pending(recorded) # {}
            PROVE  1 \in 1..Len(Script(SqliteScripts, NextVersion(recorded)))
        <5>1. NextVersion(recorded) \in Versions
          BY <4>1, NextIsPending DEF SqliteTypes
        <5>2. Len(Script(SqliteScripts, NextVersion(recorded))) \in 1..4
          BY <5>1, SqliteDomains
        <5>. QED
          BY <5>2
      <4>. QED
        BY <2>2, <4>1 DEF At
    <3>. QED
      BY <2>1, <3>1, <3>2, <3>3, <3>4 DEF SqliteTypes
  <2>4. RowsCopied'
    BY <2>1, <2>2, RowsStayCopied DEF Rebuilding
  <2>5. ASSUME InOrder
        PROVE  InOrder'
    <3>1. PICK k \in 3..7 :
            recorded = 4..k /\ Basis(schema, k) /\ \A n \in Migrators : AtVersion(n, k)
      BY <2>5 DEF InOrder
    <3>2. Pending(recorded) # {} => k # 7
      BY <3>1, AllDone
    <3>3. AtVersion(m, k)'
      BY <2>1, <2>2, <3>1, <3>2 DEF AtVersion, Midway
    <3>. QED
      BY <2>1, <2>2, <3>1, <3>3, OthersInOrder
  <2>. QED
    BY <2>1, <2>3, <2>4, <2>5
<1>2. CASE Sqlite!Record(m) \/ Sqlite!Refused(m) \/ Sqlite!Stop(m)
  <2>1. PICK place \in {"commit", "failed", "stopped"} :
          /\ pc[m] \in {"script", "record", "commit"}
          /\ place = "commit" => pc[m] = "record"
          /\ \A n \in Migrators : pc'[n] = IF n = m THEN place ELSE pc[n]
          /\ pc' \in [Migrators -> SqlitePlaces]
          /\ writer' \in Migrators \cup {Nobody}
          /\ UNCHANGED <<schema, recorded, applied, line>>
    <3>1. ASSUME NEW place \in {"commit", "failed", "stopped"}, pc' = [pc EXCEPT ![m] = place]
          PROVE  /\ \A n \in Migrators : pc'[n] = IF n = m THEN place ELSE pc[n]
                 /\ pc' \in [Migrators -> SqlitePlaces]
      BY <3>1 DEF SqliteTypes, SqlitePlaces
    <3>2. CASE Sqlite!Record(m)
      <4>1. /\ pc[m] = "record" /\ pc' = [pc EXCEPT ![m] = "commit"] /\ writer' = m
            /\ UNCHANGED <<schema, recorded, applied, line>>
        BY <3>2 DEF Sqlite!Record, Sqlite!Goto
      <4>. QED
        BY <3>1, <4>1
    <3>3. CASE Sqlite!Refused(m)
      <4>1. /\ pc[m] \in {"script", "record"} /\ pc' = [pc EXCEPT ![m] = "failed"]
            /\ UNCHANGED <<schema, recorded, writer, applied, line>>
        BY <3>3 DEF Sqlite!Refused, Sqlite!Goto
      <4>. QED
        BY <3>1, <4>1 DEF SqliteTypes
    <3>4. CASE Sqlite!Stop(m)
      <4>1. /\ pc[m] \in {"script", "record", "commit"} /\ pc' = [pc EXCEPT ![m] = "stopped"]
            /\ writer' = IF writer = m THEN Nobody ELSE writer
            /\ UNCHANGED <<schema, recorded, applied, line>>
        BY <3>4 DEF Sqlite!Stop, Sqlite!Goto
      <4>. QED
        BY <3>1, <4>1 DEF SqliteTypes
    <3>. QED
      BY <1>2, <3>2, <3>3, <3>4
  <2>2. pc'[m] = place /\ \A n \in Migrators \ {m} : pc'[n] = pc[n]
    BY <2>1
  <2>3. SqliteTypes'
    <3>1. \A n \in Migrators : pc'[n] \in {"script", "record", "commit"} => Pending(applied'[n]) # {}
      BY <2>1, <2>2 DEF SqliteTypes
    <3>2. \A n \in Migrators :
            pc'[n] = "script" => line'[n] \in 1..Len(Script(SqliteScripts, At(n)'))
      BY <2>1, <2>2 DEF SqliteTypes, At
    <3>. QED
      BY <2>1, <3>1, <3>2 DEF SqliteTypes
  <2>4. RowsCopied'
    BY <2>1, <2>2, RowsStayCopied DEF Rebuilding
  <2>5. ASSUME InOrder
        PROVE  InOrder'
    <3>1. PICK k \in 3..7 :
            recorded = 4..k /\ Basis(schema, k) /\ \A n \in Migrators : AtVersion(n, k)
      BY <2>5 DEF InOrder
    <3>2. AtVersion(m, k)'
      BY <2>1, <2>2, <3>1 DEF AtVersion
    <3>. QED
      BY <2>1, <2>2, <3>1, <3>2, OthersInOrder
  <2>. QED
    BY <2>1, <2>3, <2>4, <2>5
<1>3. CASE Sqlite!Commit(m)
  <2>. DEFINE all == applied[m] \cup {At(m)}
  <2>1. /\ pc[m] = "commit" /\ recorded' = recorded \cup {At(m)} /\ writer' = Nobody
        /\ applied' = [applied EXCEPT ![m] = all]
        /\ line' = [line EXCEPT ![m] = 1]
        /\ pc' = [pc EXCEPT ![m] = IF Pending(applied'[m]) = {} THEN "done" ELSE "script"]
        /\ UNCHANGED schema
    BY <1>3, SqliteNames DEF Sqlite!Commit, Sqlite!Goto, Sqlite!Current, At
  <2>2. At(m) \in Versions /\ all \in SUBSET Versions
    BY <2>1, NextIsPending DEF SqliteTypes, At
  <2>. HIDE DEF all
  <2>3. applied'[m] = all /\ line'[m] = 1
    BY <2>1 DEF SqliteTypes
  <2>4. /\ pc'[m] = IF Pending(all) = {} THEN "done" ELSE "script"
        /\ \A n \in Migrators \ {m} :
             pc'[n] = pc[n] /\ applied'[n] = applied[n] /\ line'[n] = line[n]
    BY <2>1, <2>3 DEF SqliteTypes
  <2>5. SqliteTypes'
    <3>1. /\ pc' \in [Migrators -> SqlitePlaces] /\ line' \in [Migrators -> Nat]
          /\ applied' \in [Migrators -> SUBSET Versions]
      BY <2>1, <2>2 DEF SqliteTypes, SqlitePlaces
    <3>2. \A n \in Migrators \ {m} :
            /\ pc'[n] \in {"script", "record", "commit"} => Pending(applied'[n]) # {}
            /\ pc'[n] = "script" => line'[n] \in 1..Len(Script(SqliteScripts, At(n)'))
      BY <2>4 DEF SqliteTypes, At
    <3>3. pc'[m] \in {"script", "record", "commit"} => Pending(applied'[m]) # {}
      BY <2>3, <2>4
    <3>4. pc'[m] = "script" => line'[m] \in 1..Len(Script(SqliteScripts, At(m)'))
      <4>1. ASSUME Pending(all) # {}
            PROVE  1 \in 1..Len(Script(SqliteScripts, NextVersion(all)))
        <5>1. NextVersion(all) \in Versions
          BY <2>2, <4>1, NextIsPending
        <5>2. Len(Script(SqliteScripts, NextVersion(all))) \in 1..4
          BY <5>1, SqliteDomains
        <5>. QED
          BY <5>2
      <4>. QED
        BY <2>3, <2>4, <4>1 DEF At
    <3>5. recorded' \in SUBSET Versions
      BY <2>1, <2>2 DEF SqliteTypes
    <3>. QED
      BY <2>1, <3>1, <3>2, <3>3, <3>4, <3>5 DEF SqliteTypes
  <2>6. RowsCopied'
    BY <2>1, <2>3, <2>4, RowsStayCopied DEF Rebuilding
  <2>7. ASSUME Alone, InOrder
        PROVE  InOrder'
    <3>1. PICK k \in 3..7 :
            recorded = 4..k /\ Basis(schema, k) /\ \A n \in Migrators : AtVersion(n, k)
      BY <2>7 DEF InOrder
    <3>2. k # 7 /\ applied[m] = 4..k /\ Basis(schema, k + 1)
      BY <2>1, <3>1 DEF AtVersion
    <3>. k \in 3..6 /\ k + 1 \in 3..7
      BY <3>2
    <3>3. At(m) = k + 1 /\ (4..k) \cup {k + 1} = 4..(k + 1)
      BY <3>2, NextIs DEF At
    <3>4. recorded' = 4..(k + 1) /\ all = 4..(k + 1)
      BY <2>1, <3>1, <3>2, <3>3 DEF all
    <3>5. \A n \in Migrators \ {m} : ~Running(n) /\ pc'[n] = pc[n]
      BY <2>1, <2>4, <2>7 DEF Alone, Running
    <3>6. \A n \in Migrators \ {m} : AtVersion(n, k + 1)'
      BY <3>5 DEF AtVersion, Running
    <3>7. AtVersion(m, k + 1)'
      <4>1. Pending(all) # {} => k + 1 # 7
        BY <3>4, AllDone
      <4>. QED
        BY <2>3, <2>4, <3>4, <4>1 DEF AtVersion, Midway
    <3>8. \A n \in Migrators : AtVersion(n, k + 1)'
      BY <3>6, <3>7
    <3>9. Basis(schema', k + 1)
      BY <2>1, <3>2
    <3>. QED
      BY <3>4, <3>8, <3>9 DEF InOrder
  <2>. QED
    BY <2>1, <2>5, <2>6, <2>7
<1>4. CASE Sqlite!Rerun(m)
  <2>1. /\ pc[m] \in {"done", "stopped", "failed"}
        /\ pc' = [pc EXCEPT ![m] = "idle"] /\ applied' = [applied EXCEPT ![m] = {}]
        /\ line' = [line EXCEPT ![m] = 1]
        /\ UNCHANGED <<schema, recorded, writer>>
    BY <1>4 DEF Sqlite!Rerun, Sqlite!Goto
  <2>2. /\ pc'[m] = "idle"
        /\ \A n \in Migrators \ {m} :
             pc'[n] = pc[n] /\ applied'[n] = applied[n] /\ line'[n] = line[n]
    BY <2>1 DEF SqliteTypes
  <2>3. SqliteTypes'
    <3>1. /\ pc' \in [Migrators -> SqlitePlaces] /\ line' \in [Migrators -> Nat]
          /\ applied' \in [Migrators -> SUBSET Versions]
      BY <2>1 DEF SqliteTypes, SqlitePlaces
    <3>2. \A n \in Migrators :
            /\ pc'[n] \in {"script", "record", "commit"} => Pending(applied'[n]) # {}
            /\ pc'[n] = "script" => line'[n] \in 1..Len(Script(SqliteScripts, At(n)'))
      BY <2>2 DEF SqliteTypes, At
    <3>. QED
      BY <2>1, <3>1, <3>2 DEF SqliteTypes
  <2>4. RowsCopied'
    BY <2>1, <2>2, RowsStayCopied DEF Rebuilding
  <2>5. ASSUME InOrder
        PROVE  InOrder'
    <3>1. PICK k \in 3..7 :
            recorded = 4..k /\ Basis(schema, k) /\ \A n \in Migrators : AtVersion(n, k)
      BY <2>5 DEF InOrder
    <3>2. AtVersion(m, k)'
      BY <2>2 DEF AtVersion
    <3>. QED
      BY <2>1, <2>2, <3>1, <3>2, OthersInOrder
  <2>. QED
    BY <2>1, <2>3, <2>4, <2>5
<1>. QED
  BY <1>1, <1>2, <1>3, <1>4

LEMMA SqliteSteps ==
  ASSUME SqliteInvariant, Sqlite!Next, Watch
  PROVE  /\ SqliteInvariant'
         /\ \A t \in Tables : "rows" \in schema[t] => \E u \in Tables : "rows" \in schema'[u]
<1>1. SqliteTypes /\ RowsCopied /\ (~overlapped => Alone /\ InOrder)
  BY DEF SqliteInvariant
<1>2. ~overlapped' => ~overlapped /\ Alone'
  BY DEF Watch, Alone
<1>3. PICK m \in Migrators :
        \/ Sqlite!Statement(m)
        \/ Sqlite!Start(m) \/ Sqlite!Record(m) \/ Sqlite!Commit(m) \/ Sqlite!Refused(m)
        \/ Sqlite!Stop(m) \/ Sqlite!Rerun(m)
  BY DEF Sqlite!Next
<1>4. CASE Sqlite!Statement(m)
  BY <1>1, <1>2, <1>4, StatementKeepsTypes, StatementKeepsRows, StatementInOrder
     DEF SqliteInvariant
<1>5. CASE \/ Sqlite!Start(m) \/ Sqlite!Record(m) \/ Sqlite!Commit(m) \/ Sqlite!Refused(m)
           \/ Sqlite!Stop(m) \/ Sqlite!Rerun(m)
  BY <1>1, <1>2, <1>5, SqliteKeepsGoing DEF SqliteInvariant
<1>. QED
  BY <1>3, <1>4, <1>5

-----------------------------------------------------------------------------
(* Both. *)

Invariant ==
  /\ backend \in {"sqlite", "postgresql"}
  /\ OnSqlite => SqliteInvariant
  /\ OnPostgres => PostgresInvariant

AllVars == <<backend, overlapped, Sqlite!vars, tracked, work, stops>>

\* A step on either keeps the invariant and the rows.
RowsInPlace == \A t \in Tables : "rows" \in schema[t] => \E u \in Tables : "rows" \in schema'[u]

LEMMA InvariantStarts ==
  ASSUME Init
  PROVE  Invariant
<1>1. Start /\ overlapped = FALSE
  BY DEF Init
<1>2. CASE OnSqlite /\ Sqlite!Init
  BY <1>1, <1>2, SqliteStarts DEF Invariant, OnSqlite, OnPostgres
<1>3. CASE OnPostgres /\ Postgres!Init
  BY <1>3, PostgresStarts DEF Invariant, OnSqlite, OnPostgres
<1>. QED
  BY <1>1, <1>2, <1>3 DEF Start

LEMMA InvariantSteps ==
  ASSUME Invariant, Next
  PROVE  Invariant' /\ RowsInPlace
<1>1. Watch /\ Step
  BY DEF Next
<1>2. CASE OnSqlite /\ Sqlite!Next /\ UNCHANGED backend
  <2>1. SqliteInvariant' /\ RowsInPlace
    BY <1>1, <1>2, SqliteSteps DEF Invariant, RowsInPlace
  <2>. QED
    BY <1>2, <2>1 DEF Invariant, OnSqlite, OnPostgres
<1>3. CASE OnPostgres /\ Postgres!Next /\ UNCHANGED backend
  <2>1. PostgresInvariant' /\ RowsInPlace
    BY <1>3, PostgresSteps, PostgresKeepsRows DEF Invariant, RowsInPlace
  <2>. QED
    BY <1>3, <2>1 DEF Invariant, OnSqlite, OnPostgres
<1>. QED
  BY <1>1, <1>2, <1>3 DEF Step, PostgresStep

LEMMA InvariantStutters ==
  ASSUME Invariant, UNCHANGED AllVars
  PROVE  Invariant'
<1>1. UNCHANGED <<backend, overlapped, schema, recorded, writer, pc, applied, line,
                  tracked, work, stops>>
  BY DEF AllVars, Sqlite!vars
<1>2. ASSUME SqliteInvariant PROVE SqliteInvariant'
  <2>1. SqliteTypes'
    BY <1>1, <1>2 DEF SqliteInvariant, SqliteTypes, At
  <2>2. RowsCopied'
    BY <1>1, <1>2 DEF SqliteInvariant, RowsCopied, Rebuilding, At
  <2>3. Alone => Alone'
    BY <1>1 DEF Alone, Running
  <2>4. ASSUME InOrder PROVE InOrder'
    <3>1. PICK k \in 3..7 :
            recorded = 4..k /\ Basis(schema, k) /\ \A n \in Migrators : AtVersion(n, k)
      BY <2>4 DEF InOrder
    <3>2. \A n \in Migrators : AtVersion(n, k)'
      BY <1>1, <3>1 DEF AtVersion
    <3>. QED
      BY <1>1, <3>1, <3>2 DEF InOrder
  <2>. QED
    BY <1>1, <1>2, <2>1, <2>2, <2>3, <2>4 DEF SqliteInvariant
<1>3. ASSUME PostgresInvariant PROVE PostgresInvariant'
  <2>1. PostgresTypes'
    BY <1>1, <1>3 DEF PostgresInvariant, PostgresTypes
  <2>2. Committed'
    BY <1>1, <1>3 DEF PostgresInvariant, Committed, Released
  <2>3. \A m \in Migrators : Place(m)'
    BY <1>1, <1>3, OthersStay DEF PostgresInvariant
  <2>. QED
    BY <1>1, <1>3, <2>1, <2>2, <2>3 DEF PostgresInvariant
<1>. QED
  BY <1>1, <1>2, <1>3 DEF Invariant, OnSqlite, OnPostgres

LEMMA InvariantHolds == Spec => []Invariant
<1>1. Invariant /\ [Next]_AllVars => Invariant'
  BY InvariantSteps, InvariantStutters
<1>. QED
  BY <1>1, InvariantStarts, PTL DEF Spec, AllVars

\* What the invariants are for.
LEMMA SqlitePromises ==
  ASSUME SqliteInvariant
  PROVE  /\ Sqlite!TypeOK
         /\ ~overlapped /\ recorded = Versions =>
              \A v \in Versions : Provides(SqliteScripts, schema, v)
<1>1. Sqlite!TypeOK
  <2>1. \A m \in Migrators :
          pc[m] = "script" => line[m] \in DOMAIN Script(SqliteScripts, NextVersion(applied[m]))
    <3>1. ASSUME NEW m \in Migrators, pc[m] = "script"
          PROVE  line[m] \in DOMAIN Script(SqliteScripts, At(m))
      <4>1. At(m) \in Versions
        BY <3>1, NextIsPending DEF SqliteInvariant, SqliteTypes, At
      <4>. QED
        BY <3>1, <4>1, SqliteDomains DEF SqliteInvariant, SqliteTypes
    <3>. QED
      BY <3>1 DEF At
  <2>. QED
    BY <2>1, SqliteNames DEF SqliteInvariant, SqliteTypes, SqlitePlaces, Sqlite!TypeOK,
                             Sqlite!Current
<1>2. ASSUME ~overlapped, recorded = Versions, NEW v \in Versions
      PROVE  Provides(SqliteScripts, schema, v)
  <2>1. PICK k \in 3..7 : recorded = 4..k /\ Basis(schema, k)
    BY <1>2 DEF SqliteInvariant, InOrder
  <2>2. k = 7
    BY <1>2, <2>1, AllDone, SameRecords
  <2>. QED
    BY <2>1, <2>2, BasisProvides
<1>. QED
  BY <1>1, <1>2

\* Every state of a migration on either backend is well typed, for any number of
\* processes: the variables of both models, and a run on SQLite is always at a line
\* that its script has.
THEOREM MigrationTypes == Spec => []TypeOK
<1>1. Invariant => TypeOK
  BY SqlitePromises, PostgresPromises DEF Invariant, TypeOK
<1>. QED
  BY <1>1, InvariantHolds, PTL

\* Wherever runs stop, and however many there are at once, the rows a service had
\* before the upgrade are in one of the tables after every statement of database.migrate
\* and every commit of postgresql_migrations.migrate.
THEOREM NoRowIsLost == Spec => RowsAreKept
<1>1. Invariant /\ [Next]_AllVars => [RowsInPlace]_Sqlite!vars
  <2>1. UNCHANGED AllVars => UNCHANGED Sqlite!vars
    BY DEF AllVars
  <2>. QED
    BY <2>1, InvariantSteps
<1>2. RowsInPlace <=> \A t \in Sqlite!Tables :
        "rows" \in schema[t] => \E u \in Sqlite!Tables : "rows" \in schema'[u]
  BY SqliteNames DEF RowsInPlace
<1>. QED
  BY <1>1, <1>2, InvariantHolds, PTL DEF Spec, AllVars, RowsAreKept, Sqlite!RowsAreKept

\* A SQLite database on which no two runs took place at once has, when all versions are
\* recorded, what every version promises: verify_database_ready does not pass a
\* database that a run has left half migrated.
THEOREM ReadyMeansMigrated == Spec => []ReadyIsMigrated
<1>1. Invariant => ReadyIsMigrated
  BY SqlitePromises DEF Invariant, ReadyIsMigrated
<1>. QED
  BY <1>1, InvariantHolds, PTL

\* On PostgreSQL what is recorded is there at every instant, and nothing half, whatever
\* number of processes start together on it and die.
THEOREM RecordsAreTrue == Spec => []RecordedIsMigrated
<1>1. Invariant => RecordedIsMigrated
  BY PostgresPromises DEF Invariant, RecordedIsMigrated
<1>. QED
  BY <1>1, InvariantHolds, PTL

\* On PostgreSQL no run is ever refused for what a run that failed has left behind.
THEOREM RefusedRunsAreLate == Spec => []RefusedOnlyWhenDone
<1>1. Invariant => RefusedOnlyWhenDone
  BY PostgresPromises DEF Invariant, RefusedOnlyWhenDone
<1>. QED
  BY <1>1, InvariantHolds, PTL

=============================================================================
