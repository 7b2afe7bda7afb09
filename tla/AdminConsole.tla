---------------------------- MODULE AdminConsole ----------------------------
(***************************************************************************)
(* The routes of application.py by which people sign in and out and by     *)
(* which managers create and edit resources, served by several hosts on    *)
(* one SQLite file, next to the lifecycle routes (RequestWorkers), of      *)
(* which only the statuses they write matter here.                         *)
(*                                                                         *)
(* No route here begins a transaction: it reads in autocommit mode, and    *)
(* its first INSERT or UPDATE takes the write lock.  Catalogue has what the *)
(* committed tables go through.                                            *)
(***************************************************************************)
EXTENDS Catalogue, FiniteSets

CONSTANTS
  Nobody, Hosts, NoHost, NoCookie,
  MaxAge, Tolerance, MaxSkew, MaxTime, MaxCookies,  \* see Sessions
  MaxRows, MaxAudit                                 \* bounds on the tables

ASSUME HostsAssumption == NoHost \notin Hosts

VARIABLES
  clock, skew, active, issued,  \* see Sessions
  writer,  \* the host whose transaction holds the write lock, or NoHost
  work,    \* its uncommitted tables; the committed ones when there is no writer
  pc, req,
  user,    \* on whose behalf each host acts
  seen     \* the row each host read before its transaction

INSTANCE Sessions

sessionVars == <<clock, skew, active, issued>>
consoleVars == <<rows, audit, writer, work, pc, req, user, seen>>

Requests ==
  [op : {"login"}, user : Users] \cup [op : {"logout"}]
    \cup [op : {"create"}, asset : Assets \cup {NoAsset}]
    \cup [op : {"edit"}, id : 1..MaxRows, asset : Assets \cup {NoAsset}]

NoRequest == [op |-> "none"]
NoRow == [asset |-> NoAsset, status |-> "none"]

Tables == [rows |-> rows, audit |-> audit]

ConsoleTypeOK ==
  /\ SessionsTypeOK
  /\ CatalogueTypeOK
  /\ Len(rows) <= MaxRows /\ Len(audit) <= MaxAudit
  /\ writer \in Hosts \cup {NoHost}
  /\ writer = NoHost => work = Tables
  /\ pc \in [Hosts -> {"idle", "read", "write", "audit", "commit", "sign"}]
  /\ req \in [Hosts -> Requests \cup {NoRequest}]
  /\ user \in [Hosts -> Users \cup {Nobody}]
  /\ seen \in [Hosts -> Rows \cup {NoRow}]

ConsoleInit ==
  /\ SessionsInit
  /\ CatalogueInit
  /\ writer = NoHost
  /\ work = Tables
  /\ pc = [h \in Hosts |-> "idle"]
  /\ req = [h \in Hosts |-> NoRequest]
  /\ user = [h \in Hosts |-> Nobody]
  /\ seen = [h \in Hosts |-> NoRow]

-----------------------------------------------------------------------------
(* Steps every handler is made of. *)

Goto(h, p) == pc' = [pc EXCEPT ![h] = p]

AnswerWithoutRollback(h) ==  \* Mutant: keeps what was not committed
  /\ Goto(h, "idle")
  /\ req' = [req EXCEPT ![h] = NoRequest]
  /\ user' = [user EXCEPT ![h] = Nobody]
  /\ seen' = [seen EXCEPT ![h] = NoRow]
  /\ writer' = IF writer = h THEN NoHost ELSE writer
  /\ UNCHANGED <<rows, audit, work, sessionVars>>

\* The handler answers without having committed, or dies: db.close(), or SQLite
\* itself, rolls back.  What it answers is not recorded.
Answer(h) ==
  /\ Goto(h, "idle")
  /\ req' = [req EXCEPT ![h] = NoRequest]
  /\ user' = [user EXCEPT ![h] = Nobody]
  /\ seen' = [seen EXCEPT ![h] = NoRow]
  /\ IF writer = h THEN writer' = NoHost /\ work' = Tables ELSE UNCHANGED <<writer, work>>
  /\ UNCHANGED <<rows, audit, sessionVars>>

Proceed(h, u, row) ==
  /\ Goto(h, "write")
  /\ user' = [user EXCEPT ![h] = u]
  /\ seen' = [seen EXCEPT ![h] = row]
  /\ UNCHANGED <<rows, audit, writer, work, req, sessionVars>>

-----------------------------------------------------------------------------
(* The reads. *)

InFlight == {h \in Hosts : pc[h] # "idle"}

\* The wrapper, the cookie and the account: current_user.
Receive(h) ==
  /\ pc[h] = "idle"
  /\ Len(audit) + Cardinality(InFlight) < MaxAudit
  /\ \E q \in Requests, c \in issued \cup {NoCookie} :
       /\ q.op = "create" => Len(rows) + Cardinality(InFlight) < MaxRows
       /\ req' = [req EXCEPT ![h] = q]
       /\ user' = [user EXCEPT ![h] = CurrentUser(h, c)]
  /\ Goto(h, "read")
  /\ UNCHANGED <<rows, audit, writer, work, seen, sessionVars>>

\* The password may be wrong.
ReadForLogin(h) ==
  /\ pc[h] = "read" /\ req[h].op = "login"
  /\ \/ Answer(h)
     \/ req[h].user \in active /\ Proceed(h, req[h].user, NoRow)

ReadForLogout(h) ==
  /\ pc[h] = "read" /\ req[h].op = "logout"
  /\ IF user[h] = Nobody THEN Answer(h) ELSE Proceed(h, user[h], NoRow)

\* The form may be invalid, or its resource type or the location archived.
ReadForCreate(h) ==
  /\ pc[h] = "read" /\ req[h].op = "create"
  /\ \/ Answer(h)
     \/ user[h] # Nobody /\ CanWrite(user[h]) /\ Proceed(h, user[h], NoRow)

ReadForEdit(h) ==
  /\ pc[h] = "read" /\ req[h].op = "edit"
  /\ \/ Answer(h)
     \/ /\ user[h] # Nobody
        /\ req[h].id \in DOMAIN rows /\ CanManage(user[h], req[h].id)
        /\ Proceed(h, user[h], rows[req[h].id])

-----------------------------------------------------------------------------
(* The transaction. *)

Write(h, tables, next) ==
  /\ writer = NoHost
  /\ writer' = h
  /\ work' = tables
  /\ Goto(h, next)
  /\ UNCHANGED <<rows, audit, req, user, seen, sessionVars>>

\* Signing in or out writes the audit row and nothing else.
WriteVisit(h) ==
  /\ pc[h] = "write" /\ req[h].op \in {"login", "logout"}
  /\ LET action == IF req[h].op = "login" THEN "login_success" ELSE "logout"
     IN  Write(h, [Tables EXCEPT !.audit =
                     Append(@, Row(action, user[h], 0, NoAsset, NoAsset))], "commit")

InsertResource(h) ==
  /\ pc[h] = "write" /\ req[h].op = "create" /\ ~Taken(req[h].asset, 0)
  /\ Write(h, [Tables EXCEPT !.rows =
                 Append(@, [asset |-> req[h].asset, status |-> "available"])], "audit")

\* Mutant: writes back the whole row it read, the status too.
UpdateWholeRow(h) ==
  /\ pc[h] = "write" /\ req[h].op = "edit" /\ ~Taken(req[h].asset, req[h].id)
  /\ Write(h, [Tables EXCEPT !.rows[req[h].id] =
                 [seen[h] EXCEPT !.asset = req[h].asset]], "audit")

\* The columns of the form, not the status.
UpdateResource(h) ==
  /\ pc[h] = "write" /\ req[h].op = "edit" /\ ~Taken(req[h].asset, req[h].id)
  /\ Write(h, [Tables EXCEPT !.rows[req[h].id].asset = req[h].asset], "audit")

\* The asset number is another resource's (UNIQUE): rolled back, 400.
Constraint(h) ==
  /\ pc[h] = "write" /\ writer = NoHost
  /\ req[h].op \in {"create", "edit"}
  /\ Taken(req[h].asset, IF req[h].op = "edit" THEN req[h].id ELSE 0)
  /\ Answer(h)

\* "database is locked" after busy_timeout.
Busy(h) == pc[h] = "write" /\ writer # NoHost /\ Answer(h)

\* Mutant: what the form holds is committed before its audit row is written.
AuditAfterCommit(h) ==
  /\ pc[h] = "audit"
  /\ rows' = work.rows
  /\ work' = [work EXCEPT !.audit = Append(@,
       IF req[h].op = "create"
         THEN Row("resource.create", user[h], Len(work.rows), NoAsset, req[h].asset)
         ELSE Row("resource.update", user[h], req[h].id, seen[h].asset, req[h].asset))]
  /\ Goto(h, "commit")
  /\ UNCHANGED <<audit, writer, req, user, seen, sessionVars>>

Audit(h) ==
  /\ pc[h] = "audit"
  /\ work' = [work EXCEPT !.audit = Append(@,
       IF req[h].op = "create"
         THEN Row("resource.create", user[h], Len(work.rows), NoAsset, req[h].asset)
         ELSE Row("resource.update", user[h], req[h].id, seen[h].asset, req[h].asset))]
  /\ Goto(h, "commit")
  /\ UNCHANGED <<rows, audit, writer, req, user, seen, sessionVars>>

\* The first commit of a login is that of its audit row; the cookie comes after.
Commit(h) ==
  /\ pc[h] = "commit"
  /\ rows' = work.rows /\ audit' = work.audit
  /\ writer' = NoHost
  /\ Goto(h, IF req[h].op = "login" THEN "sign" ELSE "idle")
  /\ req' = [req EXCEPT ![h] = IF @.op = "login" THEN @ ELSE NoRequest]
  /\ user' = [user EXCEPT ![h] = IF req[h].op = "login" THEN @ ELSE Nobody]
  /\ seen' = [seen EXCEPT ![h] = NoRow]
  /\ UNCHANGED <<work, sessionVars>>

\* Anything may raise, and the process may die at any point.
Fail(h) == pc[h] # "idle" /\ Answer(h)

Sign(h) ==
  /\ pc[h] = "sign"
  /\ Issue(h, user[h])
  /\ Goto(h, "idle")
  /\ req' = [req EXCEPT ![h] = NoRequest]
  /\ user' = [user EXCEPT ![h] = Nobody]
  /\ UNCHANGED <<rows, audit, writer, work, seen>>

-----------------------------------------------------------------------------

\* A lifecycle route, in a transaction of its own.
StatusChanges(id) ==
  /\ writer = NoHost
  /\ ChangeStatus(id)
  /\ work' = [work EXCEPT !.rows = rows']
  /\ UNCHANGED <<writer, pc, req, user, seen, sessionVars>>

Step(h) ==
  \/ Receive(h) \/ ReadForLogin(h) \/ ReadForLogout(h) \/ ReadForCreate(h) \/ ReadForEdit(h)
  \/ WriteVisit(h) \/ InsertResource(h) \/ UpdateResource(h) \/ Constraint(h) \/ Busy(h)
  \/ Audit(h) \/ Commit(h) \/ Fail(h) \/ Sign(h)

Environment ==
  \/ (Tick \/ \E u \in Users : SetAccount(u)) /\ UNCHANGED consoleVars
  \/ \E id \in DOMAIN rows : StatusChanges(id)

ConsoleNext == Environment \/ \E h \in Hosts : Step(h)

ConsoleSpec == ConsoleInit /\ [][ConsoleNext]_<<sessionVars, consoleVars>>

-----------------------------------------------------------------------------

\* With all their interleavings, failures and crashes the hosts do nothing to the
\* tables but the steps of the catalogue: whoever creates, edits or signs out has
\* an earlier row of having signed in, since the cookie is signed only when that
\* row is committed; a before-image is one the resource has had; and an edit that
\* read the resource before a lifecycle route wrote its status leaves that alone.
ImplementsCatalogue == CatalogueSpec

=============================================================================
