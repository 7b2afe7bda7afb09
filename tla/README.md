# Verification of the resource platform

TLA+ modules, TLC configurations and TLAPS proofs for the program in `resource_platform/`: a WSGI
application on one SQLite file through which employees book resources (vans, tablets, rooms), take them
out, bring them back, and administrators label and edit them; its schema migrations, on SQLite and on
PostgreSQL; and the PostgreSQL connectivity that is being prepared.

Line numbers below are those of `resource_platform/` unless another path is given.

## 1. Inventory

| Part | State | Operations | What is hard about it |
|---|---|---|---|
| booking and lifecycle routes (`application.py` 170-300, `schemas.py`, `models.py`, `audit.py`) | tables `bookings`, `checkouts`, `checkins`, `resources.status`, `audit_logs` | book, cancel, check out, check in | requests run concurrently and read before they lock; several tables per request; every error path has to roll back; a clock compared as text |
| SQLite's constraints (`migrations/0001`-`0006`) | - | overlap trigger, unique keys, partial indexes, NOT NULL | they are the second line behind the handlers' own checks |
| QR labels (`application.py` 72-81, 131-169, `qr.py`) | table `qr_tokens`, the encryption key of each process | print, regenerate, scan | two statements per token, a key that may differ between processes, a label that hangs on a wall |
| SQLite migrations (`database.py`, `migrations/`) | the schema, `schema_migrations` | migrate at start or by hand, `verify_database_ready` | each statement commits by itself; processes start together and die |
| PostgreSQL migrations (`postgresql_migrations.py`, `migrations_postgresql/`) | the same | migrate by hand | the versions are read without a lock |
| PostgreSQL pool and transactions (`database_backend.py` 68-91, 225-389, `transaction_service.py`) | `_pool`, the connections lent, the transaction of each | open, acquire, begin, commit, rollback, release, discard, close, health check | unsynchronised open and close; connections that break anywhere; what happens when rollback or commit fails |
| repositories (`repositories/`) | - | one statement per method, in the caller's transaction | - |
| query renderer (`database_backend.py` 122-188) | - | `render_named_query` | a tokenizer with five states |
| administration of resources (`application.py` 305-335) | `resources`, `audit_logs` | create, edit | the before-image is read outside the transaction |
| login, sessions (`application.py` 119-130, 301-303, `security.py`, `dependencies.py`) | signed cookies, `users.status` | login, logout, verify | expiry, clock skew; logout does not revoke |
| time (`time_handling.py`, `schemas.py` 18-43) | - | parse local time, display | skipped and repeated hours |
| server (`__main__.py`, `wsgi.py`) | stop event, shutdown thread | serve, signal, close | a signal at any moment |
| request wrapper, health (`application.py` 102-118, 339-360) | - | answer, log | last resort for every exception |
| configuration, seed, pages, error classification | - | pure functions, run once, or read only | - |

How they interact: every request opens one connection to the file, calls the authorization rules on what it
reads, changes the tables in one transaction that includes its audit row, and closes the connection. The
requests share nothing but the file, so the file's tables and its single write lock are the whole interface
between them. Migrations run on the same file before a process serves.

What makes each part correct:

* *bookings*: confirmed bookings of a resource never overlap; only a confirmed booking is cancelled; nothing
  out of service is booked.
* *lifecycle*: a resource says `checked_out` exactly while it has one open checkout; a checkout rests on a
  booking of its holder or on an administrator; one check-in closes one checkout and completes its booking.
* *both*: a request is all or nothing; what was acknowledged is recorded; the audit rows alone explain the
  tables; everyone is answered, and the lock is always given back.
* *labels*: one live token per resource; nothing but a regeneration makes a label stop scanning; a printed
  label scans.
* *migrations*: recorded means there; rows survive; a run may be repeated.
* *pool*: a thread finds nothing of another one's transaction; no connection is lost; the bound on connections and a
  clean shutdown.
* *sessions*: a cookie is good on every host for as long as it should be, and no longer.
* *resource console*: every change is by someone of whom the log says that he signed in; the log ends with what the
  tables hold; an edit undoes nothing it did not mean to.
* *server*: a signal at any moment stops it, once. (It need not: section 5.)
* *local times*: one that is accepted means the one instant at which a clock shows it.
* *query renderer*: values in the order of the markers, and nothing else touched.

## 2. Modules

    PlatformTables          tables as values, SQL statements, constraints, authorization rules
      ReservationLedger     ABSTRACT: one indivisible step per acknowledged request
        RequestWorkers      workers, lock, transactions, failures, crashes; implements the ledger
          MCRequestWorkers  constants and symmetry for TLC
      ReservationLedgerProofs <- RequestWorkersProofs
    LabelRegistry           ABSTRACT: a resource gets a label, a label replaces a label
      QrLabels              print and regenerate; implements the registry
        MCQrLabels
      QrLabelsProofs
    MigrationScripts        the scripts of both databases, statement by statement
      SqliteMigration       autocommitted statements, one record per script
        MCSqliteMigration
      PostgresMigration     one transaction per run
        MCMigrations        both, on a database of either kind
      MigrationProofs       of both
    ConnectionPool          threads, one backend, its pool objects and their connections
      ConnectionPoolProofs
    Sessions                cookies, accounts, the clocks of several hosts
    Catalogue               ABSTRACT: sign in or out, create, edit, each with its audit row, in one step
      AdminConsole          hosts, reads, lock, transactions, failures; uses Sessions; implements the catalogue
        AdminConsoleProofs  of both
    Shutdown                signal handlers, shutdown threads, the serving loop
    LocalTime               both parsers of local times
    QueryRenderer           render_named_query, character by character; what a statement of SQL tokens means
      QueryRendererProofs
    MCService               the console, the cookies, Shutdown, LocalTime and QueryRenderer, each on its own
      ServiceProofs         Sessions, Shutdown and LocalTime; MCService, with AdminConsoleProofs and QueryRendererProofs

### PlatformTables, ReservationLedger

A database value is a record of the five tables. Rows are appended and never deleted, so a table is a sequence
and an id is a position. `Overlaps`, `ActiveBookings`, `Rentable`, `CheckoutConstraintFails` and their like are
the WHERE clauses and constraints; `InsertCheckout`, `ReturnCheckout` and the others are the statements a route
runs. Abstracted: names, purposes, conditions other than `damaged`, who changed which column when.

Time is a count of ticks, `DayLength` to the UTC day. `TextStarted` and `TextNotEnded` are what line 200 of
`application.py` computes: it compares `YYYY-MM-DDTHH:MM:SS+00:00` with `YYYY-MM-DD HH:MM:SS` as text, which
are ordered by their dates and, on the same date, by `T` and space.

`ReservationLedger` is the promise: `LedgerStep(d, e)` relates the tables before and after one acknowledged
request. It has no workers, and states the invariants of the tables.

### RequestWorkers

One action per stage of a handler. `pc` runs `idle -> read -> begin -> body -> audit -> commit -> done`:

| Action | Code |
|---|---|
| `Receive` | 102-118: a request reaches a worker |
| `ReadForBook`, `ReadForCancel`, `ReadForCheckout`, `ReadForCheckin` | the reads and refusals before the transaction, in autocommit mode |
| `Begin`, `Busy` | `BEGIN IMMEDIATE` (cancel: the first UPDATE) gets the lock, or `busy_timeout` passes |
| `BookBody`, `CancelBody`, `CheckoutBody`, `CheckinBody` | what is read again under the lock, the refusals with their rollback, the statements |
| `Audit`, `Commit` | the audit row; the commit |
| `Fail` | any statement or the commit raises; the except clauses, the close of line 338, the wrapper |
| `Respond` | the answer is sent |
| `Crash` | the worker dies at any point; SQLite rolls back |
| `Tick` | the clock advances |

`db` is what is committed, `work` the working copy of the one worker that holds the lock (`writer`). A body is
one step: no other worker can see the statements one by one, and `Fail` and `Crash` undo any number of them.

### QrLabels, LabelRegistry

`tokens` are the rows of `qr_tokens`, each with the key it was encrypted with. `Look`, `Invalidate`, `Insert` and
`Commit` are the statements of the print and regenerate routes and of `_new_qr`; `Insert` fails without a valid
key; the drawing of the code may fail after the commit. `Restart` gives a process another key, or none.
Refinement: `LabelOf` is the live token of each resource.

### MigrationScripts, SqliteMigration, PostgresMigration

A table is its set of columns, and `"rows"` stands for the data that was in it. Versions 1 to 3 only create what
does not exist, and 4 stands for them. A SQLite statement is a step and commits; an INSERT into
`schema_migrations` commits with the next `executescript` or at the end of the `with` block. A PostgreSQL run
works on a copy (`work`) and commits everything at once. Runs start from an empty database or from that of any
earlier release, die anywhere, and are started again.

PostgreSQL's locks are modelled as one, taken by the first DDL statement of a run: runs that overlap have read the
same versions and so alter the same objects in the same order. That 0006 may refuse rows that violate its CHECK
is not modelled: no released code writes such rows on PostgreSQL.

`MCMigrations` chooses the backend in its initial state, as `DATABASE_BACKEND` does, and composes the two by the
variables both databases have; so what they promise alike is stated once for both. `overlapped` remembers whether
two runs ever took place at once: on SQLite that is where `ReadyIsMigrated` ends (section 5).

### ConnectionPool

| Action | Code (`database_backend.py`) |
|---|---|
| `Call` | a thread calls `open`, `transaction` (`TransactionService` included), `health_check` or `close` |
| `Open`, `Create`, `CreateFails`, `Publish` | 268-287: the test of `_pool`, the pool object that is opened, the assignment |
| `Get`, `GetFails`, `Examine`, `Replace` | 299-310: `getconn`, the test of the connection, one exchange |
| `Use`, `Body`, `Finish` | 79-88, 357-367: BEGIN or SELECT 1, the block, commit or rollback, with or without success |
| `ReleaseClosed`, `Release`, `Drop`, `Put` | 327-351 |
| `Discard` | 312-325 |
| `Swap`, `ClosePool` | 372-378 |

Each read or write of `_pool` that another thread could come before is a step of its own. External, as far as the code relies
on it: `getconn` lends an idle connection or makes one up to `max_size`, or raises; `putconn` takes back connections of
its own pool only, has no argument `destroy`, and makes a new connection for a closed one, or leaves its place free; the
server drops a connection at any time, noticed at once or by the next statement (`Lose`); a pool object nothing refers
to is freed with its idle connections (`Collect`). Which of several equal pool objects or connections is taken
does not matter. Left out: `connect()`, which nothing calls, and `transaction(connection)` with a connection of the
caller's, which only a SQLite test uses.

### Sessions, Catalogue, AdminConsole

`Sessions` has no list of sessions because the code has none: `issued` is every cookie ever signed, each with the true
time of its signature, which only the property looks at. `VerifySession` is lines 26-37 of `security.py` on the
clock of the host that verifies, `CurrentUser` lines 4-15 of `dependencies.py`. `SetAccount` is an operator's: no route
writes `users.status`. A logout clears the browser's cookie and revokes nothing, so it leaves `issued` alone.

`AdminConsole` has the routes with `pc` running `idle -> read -> write -> audit -> commit (-> sign)`:

| Action | Code (`application.py`) |
|---|---|
| `Receive` | 116-118: the wrapper and `current_user` |
| `ReadForLogin`, `ReadForLogout`, `ReadForCreate`, `ReadForEdit` | 119-125, 301-315, 321-330, with the redirect of line 304 |
| `WriteVisit`, `InsertResource`, `UpdateResource` | 126, 302, 316, 331: the first statement, which takes the lock |
| `Constraint`, `Busy`, `Fail` | 319, 334, 338: the UNIQUE asset number, `busy_timeout`, any exception or the death of the process |
| `Audit`, `Commit` | 317, 332 |
| `Sign` | 127-129: the cookie, after the commit |
| `StatusChanges` | a lifecycle route (`RequestWorkers`) writes the status of a resource |

No route here says BEGIN: the reads run in autocommit mode, and the row read at line 323 may be old when line 331
writes. The columns of the form are one value (`asset`), because they are written together; the status is not among
them. Permissions by key are membership in `Admins` or `Managers`.

`Catalogue` is what the committed tables go through. `EditResource` lets the before-image be any value the resource
ever had according to the log: the weakest promise the code keeps, see section 5.

### Shutdown

`handlers` is the stack of Python signal handlers on the main thread, each at its next statement: a signal may arrive
inside the handler of another. `stop_event.set()` is three steps (`Acquire`, `SetFlag`, `Release`): `Event` is Python
code, and takes a lock that is not reentrant before it sets the flag that `is_set()` reads. `main` is the main thread's own place,
which goes on when the stack is empty; `shutdowns` are the threads that call `server.shutdown()`. External: `serve_forever` of the standard library, its flag and
its event. `JoinThreads` may time out, so it waits for nothing.

### LocalTime, QueryRenderer

`LocalTime` takes a zone with two changes of its offset and both parsers through the two folds. `OffsetOf` is how zoneinfo
reads a local time under a fold (external); `Happens` is the definition to compare with: the instants at which a
clock shows that time. `ZonesSettle` says of a zone what holds in the tz database: before a change makes the clock
repeat or skip a time, the change before is past, on both clocks. `MCService` assumes it of its zones, and the
theorem of any.

`QueryRenderer` makes a step per character or pair, as the loop does, with `i`, `mode` and `out` as the
code has them. The reference is by construction: a statement is a sequence of tokens (markers, literals with quotes and
colons in them, casts, comments, array slices), which are written out to the text the loop is given, so what the
text means is known. `IsToken` is the grammar of a token: a marker, a literal in which quotes are doubled, a comment or
nothing, and plain text behind it. `Closed` says that the next token may follow, as behind a blank; only the last
need not be, so that a statement can end in a marker, as most queries do, or in a literal or a block comment. `MCService`
assumes `TokensAreSql` of its tokens, and the theorem of any. Left out are statements that end inside a literal or a
comment, whose text no token means, `style`, the types of the arguments and the values.

### MCService

Five modules that share nothing but the cookies, so one run: `Init` chooses a part, and the others stay as they start (the
console, the cookies and the server) or are 0. The console has one moment and clocks that agree, in which every cookie holds.

## 3. Runs

| Run | Question | Bounds |
|---|---|---|
| `workers_lifecycle` | do the tables stay consistent and does the code implement the ledger over the whole life of a booking? | 2 workers, employee and administrator, 1 resource, 2 overlapping windows over a midnight, 1 booking |
| `workers_bookings` | do racing bookings, cancellations and returns keep slots, history and audit trail? | 2 workers, 1 client, 3 windows that touch and overlap, 2 bookings |
| `workers_managers` | who may write which row; is everyone answered, and the lock released? | 2 workers, anonymous, the responsible and another manager, 1 booking, fairness |
| `qr_labels` | one live label, replaced only by regeneration | 2 workers, 2 keys or none, 2 resources, 4 tokens |
| `migrations` | survival of rows; what a complete record means; on PostgreSQL all or nothing, and completion | 2 processes, either backend, every earlier release; on PostgreSQL 2 deaths, fairness |
| `service` | do sessions last as long as they should, does the console implement the catalogue, does a signal stop the server unless it hangs in `set()`, are local times and markers read right? | 2 hosts; cookies: skew 1 = tolerance, age 2, time 4, 2 cookies; console: an administrator and a manager, 1 asset number, 2 resources, 4 audit rows; 3 signals; zones that go forward and back, or twice the same way, by up to an hour in half hours; statements of up to 3 of 28 tokens, all but the last with a blank behind them, every subset of two names; fairness of the server |
| `connection_pool` | private transactions, recovered capacity, bound and shutdown | 2 threads, 2 pool objects, 1 to 2 connections each, fairness |
| `finding_*` | see section 5 | those of the same module's runs, or fewer |

Why the bounds are enough: the write lock serializes transactions, so a conflict has two parties, one that holds
what it read and one that commits in between; the overlap query and the unique indexes relate two rows. Two
workers and two bookings are the least that show each of these, and the proofs of section 4 have no bounds.
`MaxBookings` and `MaxTokens` bound rows in the guards of `Receive` and `Insert`, `MaxTime` the clock, `MaxStops`
the deaths. Two threads can leave at most one pool behind, so two pool objects suffice when freed ones are used again;
two connections each let a pool grow, and both threads hold one of the same pool. Symmetry is used for workers, keys, resources and processes, and in no run with a liveness property.
Deadlock is checked
in every run but `service` and `finding_comments`, where a server ends or hangs, a cookie's time runs out and a parser has read
its input.

In `service`, a conflict on a row has one host that read it and one that commits in between; four audit rows are two
logins, a creation and an edit, or two edits. Three signals are one that stops, one nested in it and one after it. Three
tokens put every token that others may follow between any two others, and every token at the end. `MaxAudit`, `MaxRows`, `MaxCookies` and `MaxSignals` bound the
guards of `Receive`, `SessionsNext` and `Deliver`, and `MaxTime` the clock.

Fairness: `FairSpec` of `RequestWorkers` is weak fairness of `Handle(w)` for each worker: the interpreter goes on
executing a handler it has started, and a wait for SQLite's lock ends, with the lock or with `busy_timeout`
(5 s, `database_backend.py` 203). Nothing is assumed of clients, crashes, failures or the clock. `FairSpec` of
`PostgresMigration`, and `MCMigrations` for that backend: a run goes on unless it dies, and an operator repeats one
that failed. `ConnectionPool`: a call that has begun goes on (`getconn` has a timeout, blocks end), and unreachable
objects are freed; threads need not call anything, and the server may drop connections forever. `MCService`, for the
server: handlers, the main thread and the shutdown threads go on; a handler that waits for a lock goes on when it is
free; a request ends; signals need not come.

Each property has a mutant in `PROJECT.json`: a definition of the code's model changed the way a bug would change
it, for which TLC reports the property violated. The mutants stand before the definitions they replace.

## 4. Proofs

All are checked by `tlapm`, and hold for every value of the constants that the named assumptions allow, which say no more
than what the constants are. For booking and lifecycle those are `RolesAssumption`, `ClockAssumption`, `StatusAssumption`
(a resource is not out before its first checkout) and `WorkersAssumption`; for the console `HostsAssumption` (`NoHost` is none
of the hosts); for the labels `LabelsAssumption` (`NoWorker` and `NoKey` are none, there is room for a token); for the pool
`PoolAssumption` and `ConnectionAssumption` (`NoPool` and `NoConnection` are none, sizes are numbers in order, and there are
as many names for pool objects as threads); for the migrations `MigratorsAssumption` and `StopsAssumption` (`Nobody` is none
of the processes, the bound on deaths is a number). `ServiceProofs` states its hypotheses in the theorems: numbers, `NoCookie` is no
cookie, and `ZonesSettle`; those about `MCService` are `Sizes` and `ServiceSizes`, which only say that bounds are numbers and that
the names for none are none. `TokensAreSql` is the hypothesis about the renderer: the tokens are tokens, and neither
`:` nor the end of a text is a letter.

| Theorem | Statement |
|---|---|
| `LedgerNeverDoubleBooks`, `LedgerKeepsCustody` | `LedgerSpec => []NoDoubleBooking`, `LedgerSpec => []CustodyMatchesStatus` |
| `WorkersTypeCorrect` | `Spec => []TypeOK` |
| `TransactionsAtomic` | `Spec => []TransactionsAreAtomic` |
| `WorkersImplementLedger` | `Spec => LedgerSpec`, that is `ImplementsLedger` |
| `WorkersNeverDoubleBook`, `WorkersKeepCustody` | the two invariants of the ledger, for the workers |
| `WorkersKeepDamaged` | `Spec => DamagedStaysOut` |
| `WorkersBackCheckouts`, `WorkersMatchReturns` | `CheckoutsAreBacked` and `ReturnsMatchCheckins`, for the workers |
| `WorkersKeepHistory` | `Spec => HistoryIsKept` |
| `LedgerActorsEntitled`, `WorkersActorsEntitled` | `[]EntitledActors`, of the ledger and of the workers |
| `LedgerAuditExplains`, `WorkersAuditExplains` | `[]AuditExplainsTables`, of the ledger and of the workers |
| `WorkersFindOneBooking` | `Spec => []OneActiveBooking` |
| `WorkersMeetNoConstraint` | `Spec => ConstraintsAreABackstop` |
| `WorkersRecordWhatTheyAcknowledge` | `Spec => []AcknowledgedIsRecorded` |
| `LabelsTyped`, `IndexNeverRefuses`, `LabelsScan` | `[]TypeOK`, `[]IndexIsABackstop`, `[]LabelsAreRecorded`, of `QrLabels` |
| `OnlyRegenerationEnds` | `Spec => OnlyRegenerationReplaces` |
| `LabelsImplementRegistry` | `Spec => ImplementsRegistry`, the refinement of `LabelRegistry` |
| `PoolTyped`, `TransactionsPrivate`, `CapacityRecovered` | `[]TypeOK`, `[]TransactionsArePrivate`, `[]CapacityIsRecovered`, of `ConnectionPool` |
| `CatalogueIsDescribed` | `CatalogueSpec => []LastAuditDescribesRow` |
| `ConsoleImplementsCatalogue` | `ConsoleSpec => CatalogueSpec`, that is `ImplementsCatalogue` |
| `ConsoleIsDescribed` | `ConsoleSpec => []LastAuditDescribesRow` |
| `MigrationTypes`, `RecordsAreTrue` | `[]TypeOK`, `[]RecordedIsMigrated`, of `MCMigrations` |
| `NoRowIsLost` | `Spec => RowsAreKept`, on both backends |
| `ReadyMeansMigrated`, `RefusedRunsAreLate` | `[]ReadyIsMigrated`, on SQLite; `[]RefusedOnlyWhenDone`, on PostgreSQL |
| `SessionsLast`, `ServerStopsOnce`, `LocalTimesMeanOneInstant` | `[]SessionLifetime`, `[]StopsOnce`, `[]AcceptsWhatHappensOnce`, each of its part |
| `RenderingIsMeant`, `RendererTypes` | `RendererSpec => []RendersMarkers` and `=> []RendererTypeOK`, for any tokens of SQL |
| `ConsoleIsTyped` | `ConsoleSpec => []ConsoleTypeOK`, with the bounds on rows and log |
| `ServiceTypes`, `ServiceRenders` | `Spec => []TypeOK` and `Spec => []RendersMarkers`, of `MCService`, whatever part is chosen |

Booking and lifecycle. The ledger's inductive invariant is `LedgerInvariant`: types, slots, custody, and `Trail`. A booking cannot break the
slots because it requires the slot to be free; a cancellation or return never makes a booking confirmed. A checkout
requires that none is open, a return closes the one it names. `Trail` is `CheckoutsAreBacked`, `ReturnsMatchCheckins` and what
makes them inductive, `Spent`: a booking whose checkout was closed is confirmed no more, and every check-in is of a
checkout that exists. A booking with an open checkout is still confirmed, so it is the rule of one open checkout per
resource that keeps a second checkout from being made on it; once the first is closed, it is `Spent`.

The workers' invariant is `TypeOK /\ TransactionsAreAtomic`, of three parts. `LockDiscipline`: a worker is between
BEGIN and COMMIT if and only if it is the writer, and the working copy equals the tables until somebody stages
something. `AuthorizationHolds`: what a handler read before the lock and relies on under it (ids, owners, managers,
`is_bookable`) cannot have changed. `StagedIsOneStep`: after the body, the working copy with its audit row is one
`LedgerStep` ahead of the tables. None is inductive alone: a commit is a ledger step by the third, the third is kept
while other workers move by the first, and the first body establishes the third by the second. Every action then
either leaves `db` alone or, for `Commit`, takes a `LedgerStep`; so the invariants of the ledger carry over.

The audit trail needs an invariant of its own, `Audited`: everyone whose name stands in a row was entitled to write it
(`AllEntitled`: this is where `LedgerStep` has to say that a manager checks out only what he manages, lines 181-184 of
`application.py`); the last audit row about a booking gives its status, and each row of a table has one audit row that
creates it (`Explained`); and no audit row is about a row to come. A step appends one row to the log and changes one
row of the tables, so what was explained stays explained, and the new row is the last about what it changed.

`AcknowledgedIsRecorded` rests on `Delivers`: from the body of a handler until its answer, the row it made is in the working
copy, with what the answer says, and after the commit in the tables; other commits keep it (`RecordedStays`, by the ledger).
`ConstraintsAreABackstop`: under the lock a body has read that the slot is free, that no checkout is open and that the
booking is not used, on the same tables its statement is checked against. `OneActiveBooking`: a booking is active after the day it begins
and up to the day it ends, so of two active ones neither ends before the other begins, and they would overlap.

The console's invariant is `ConsoleInvariant` (`AdminConsoleProofs`). `Visitors`: the bearer of every cookie has a login in
the log. `Locked`: a host is between its first statement and its commit if and only if it is the writer. `Acting`: whoever a
host acts for has signed in and may do what is asked, and the row it read is one the log knows (the catalogue's
`AssetsAudited`). `Staged`: the working copy is the tables with exactly the change asked for, then with its audit row. A
commit is a catalogue step by the last two; other hosts keep theirs because the tables only grow and, by `Locked`, do not
change during a transaction; `Visitors` is kept by `Sign` because the login is committed before. The catalogue's own
invariant adds `IdsExist`: no audit row is about a resource to come, so the row of a creation is the last about it.

The labels' invariant has `OneLive` (a resource has one live token at most), `Fits`, `Settled` and, for each worker,
`WorkerInv`: only the writer is inside a transaction; what it staged is the committed tokens with its own changes; between
the UPDATE and the INSERT no token of the resource is live in the working copy, so the index has nothing to refuse; and the
token of a worker that will answer with a label is recorded for its resource. A commit that ends a token has staged
its successor, which is the action property and the step of the registry at once.

The pool's invariant: `Lending` (a lent connection is held by exactly one thread, at a place where it needs one), `Clean` (a
transaction is open only between BEGIN and the end of it), `Referenced` (a pool object that a variable names is not
freed), `Unpublished` (the pool that `open()` has made is known to its thread alone and has lent nothing) and `LostWithPool` (the code
closes a connection outright only when its pool is not the current one). The last is inductive because a pool that was
replaced never becomes the current one again, which in turn needs `Unpublished`.

`SessionLifetime` follows from `SignedInTime`: a cookie carries the clock of the host that signed it, at most `MaxSkew`
ahead of the true time. `StopsOnce` from `Orderly`: without nesting there is at most one handler, `stop_event` is set exactly
when all it has left is to start the one thread, and none is told that another was first. For `AcceptsWhatHappensOnce` the
invariant is that the parser holds those of the offsets tried that give the time back (`FoldsSoFar`); what carries the
theorem is `FoldsFindOffset`: fold 0 and fold 1 read a local time by thresholds that enclose those of the instants, so no
offset at which the clock shows the time escapes both, and offsets and instants correspond one to one.

The migrations. The scripts are data, so the first half of `MigrationProofs` says what each statement does to the tables
and what each script amounts to (`PostgresScriptRuns`, `LinesProgress`). The scripts of this release have at most four
statements, and the recursive functions of `MigrationScripts` are unfolded that far: no induction is needed. On PostgreSQL the invariant is
`Committed` (the committed tables are a release, with the records of its versions) and, for each process, `Place`: only the
holder of the locks has changed anything; what it has is the release of the version it is at, with the rows that are
committed (`Migrating`); and whoever read older records than are committed sees all versions recorded, which is why it can
only be refused. A script takes one release to the next with or without rows in it (`PostgresStatementCommutes`), because
only 0004 asks whether a table exists. On SQLite there are two arguments. `RowsCopied`: whoever is between the first and the
last line of 0005 is the only one, because `checkouts_new` exists and nobody else can create it, and before the DROP it has
copied the rows; this needs no assumption about who overlaps whom or dies where. `InOrder`, while no two runs have
overlapped: the database is at the version it records (`Basis`), plus what the present run has done of the next script
(`Midway`). A run that died leaves `Basis` behind, and the statement that is refused at the next run is what keeps the version from
being recorded.

The renderer. What a statement means is defined by concatenation (`FlattenSeq`), so the first part of `QueryRendererProofs` is
about sequences of sequences. The induction on their number takes no operator: `Induction` is about a set of numbers, from
the well-foundedness of `<`, and what is proved of `n` is the set `{n \in Nat : ...}`. With it, `FlattenAppend` (one more
sequence comes behind those before it) and `FlattenAt` (each stands in the whole at its place). The invariant, `Where`,
says that the scanner is at the end, or at some position of some token, in the mode that belongs there (`Inside`), with
what the tokens before mean and `Done` of this one. One lemma per action follows it through one kind of token
(`PlainLands`, `OpenLands`, `QuotedLands`, `LineCommentLands`, `BlockCommentLands`, `MarkerReaches`); `Settles` takes it from
the end of a token to the next one. What a marker needs of its neighbours, that no colon is before it and no letter behind, is
why `Closed` is asked of all tokens but the last; at the last, the end of the text does the same (`TextEnds`,
`SeesEnd`). After a block comment the text is not `Meant` (section 5), but the scanner is at a place of the plain text,
so the values are still those of the markers.

The types of `MCService`. `ServiceInvariant` is the invariant of the chosen part and, of the others, that they rest as they
start. New in it is the console's `Bounded`: the rows and audit rows there are, with those that a host still owes
(`Creating`, `Owing`), are within `MaxRows` and `MaxAudit`; `Receive` tests the bound, and the promise of another host has to be
counted with it. The renderer's theorems come by `INSTANCE`, and `SameTokens`, `SameInit` and `SameNext` say that the two instances of
`QueryRenderer` are the same.

Only model-checked: liveness (`RequestsAreAnswered`, `WriterLockIsReleased`, `Stops`, `Migrated`, `BoundIsRestored`,
`ShutdownIsClean`), which is beyond this prover, as is everything with `ENABLED`. Every
invariant and every action property of the runs that pass is proved; the refinements are too.

## 5. What the runs found

* `finding_same_day` (`application.py:200`): a booking stored by the application cannot be checked out on the UTC day
  it begins, so one that begins and ends on a day never can. The acceptance script writes its own bookings in
  the other format.
* `finding_override` (`application.py:245`): a resource taken on an administrator's override cannot be checked in.
* `finding_cancel` (`application.py:298`): a cancellation that raced a check-in cancels a completed booking.
* `finding_rerun` (`database.py:69`): a SQLite migration that died inside a script cannot be repeated.
* `finding_comments` (`database_backend.py:171`): the character behind a block comment is lost; if it is the colon of a
  marker, the query is refused.

Worth knowing, though the runs above do not check a line of the repository against it:

* `application.py:272`: `user_can_use_resource` is asked before the transaction and not again. Worker 1 reads the resource;
  worker 2 checks it in as damaged and commits; worker 1 begins and books a resource that is out of service, which
  `tests/test_mvp.py:109` expects to be refused.
* `database.py:61`: two processes that migrate one SQLite file at once read the versions before either has the lock. If the
  second repeats 0005 after the first has run 0006, `checkouts` is rebuilt without the columns of 0006, and every version is
  recorded. `ReadyIsMigrated` is stated for databases on which no two runs took place at once.
* `application.py:328`: the before-image of an edit is that of line 323, read outside the transaction. Two edits at once
  audit the same before-image, and the later overwrites the earlier without a word; `Catalogue!EditResource` allows for it.
* `application.py:134`: an archived resource's label is hidden from a signed-in employee and shown to an anonymous client,
  because the conditional binds looser than the `and` before it.
* `__main__.py:12`: a second signal that comes while the handler of the first is inside `stop_event.set()`, with its lock and
  not yet with its flag, passes the tests of lines 33 and 10 and waits at line 12 for that lock, on the thread that holds
  it. No shutdown thread is started, and the server goes on neither serving nor stopping (observed with CPython 3.11 as
  well). `tests/test_increment4.py:72` calls `request_shutdown` idempotent and bounded, and tries calls that come one after
  the other. `Stops` says that this is the only way: a signal leads to the end of the server or to `Hung`.
* `__main__.py:33`: a second signal between the first handler's test of line 33 and its line 12 has two more outcomes.
  Before the test of line 10 of the outer handler is reached, `False` joins the list, and the `join` of line 41
  raises before the socket is closed; between that test and line 12, a second shutdown thread starts. The server stops
  in both.
* `database_backend.py:269`: two threads that call `open()` at once open two pools, and the program then holds up to twice
  `max_size` connections until those lent come back; `BoundIsRestored` states what remains true.
* `database_backend.py:122`: PostgreSQL's nested block comments, dollar quotes and a literal `%` are not treated; no query of
  the repositories has one.
* `security.py`: a logout does not revoke the cookie; it stays good until its age.

`OverrideCanBeReturned` and the others are stated next to the properties that hold, each with the line it quotes.

## 6. Plan

Done: the core (booking and lifecycle), its abstract specification, invariants, refinement and their proofs; labels; both
migrations; the pool; sessions and the resource console with its abstract specification and the proof that it implements
it; server, local times, query renderer; proofs of every safety property of all of them. Left, in this order:

1. The races of two SQLite runs (`ReadyIsMigrated` says nothing of them): which of them end in a database that every
   version promises, and a proof of that.
2. Releases of different versions that migrate one database (the code has no downgrade, and one set of scripts).

Not modelled: configuration and the classification of errors are functions of their input without state; the
repositories are one statement each inside their caller's transaction, and the application does not call them yet;
pages and lists only read; seed data is inserted by hand before the service starts; the scripts and workflows test the
program; `request_shutdown(wait=True)` is only called by tests. The component list is in `PROJECT.json`.
