--------------------------- MODULE RequestWorkers ---------------------------
(***************************************************************************)
(* Concurrent workers serving the booking, cancellation, checkout and      *)
(* check-in routes of application.py on one SQLite file.                   *)
(*                                                                         *)
(* A worker reads and authorizes in autocommit mode, so it sees the last   *)
(* committed tables and holds nothing; then it takes SQLite's single       *)
(* writer lock (BEGIN IMMEDIATE, or the first UPDATE where the route has   *)
(* no explicit BEGIN), changes a working copy no other worker sees, adds   *)
(* the audit row and commits.  Anything that goes wrong on the way rolls   *)
(* the working copy back and frees the lock.                               *)
(***************************************************************************)
EXTENDS ReservationLedger, FiniteSets

CONSTANTS
  Workers,      \* request handlers of all server processes
  NoWorker,
  Clients,      \* who sends requests: users, and Nobody for a client not signed in
  MinDuration, MaxDuration, AdvanceLimit,  \* the row of booking_rules, in ticks
  MaxTime,      \* bound on the clock
  MaxBookings   \* bound on the rows of bookings

ASSUME WorkersAssumption ==
  /\ NoWorker \notin Workers
  /\ Clients \subseteq Users \cup {Nobody}
  /\ MinDuration \in Nat /\ MaxDuration \in Nat /\ AdvanceLimit \in Nat
  /\ MaxTime \in Nat /\ MaxBookings \in Nat

VARIABLES
  now,     \* the clock: datetime.now and CURRENT_TIMESTAMP
  writer,  \* the worker that holds the write lock, or NoWorker
  work,    \* that worker's uncommitted tables; db when there is no writer
  pc,      \* where each worker is in its handler
  req,     \* the request it serves
  rowid,   \* cursor.lastrowid, the entity of the audit row
  reply    \* what it answers

vars == <<db, now, writer, work, pc, req, rowid, reply>>

BookRequests == [op : {"book"}, user : Clients, resource : Resources, window : Windows]
CancelRequests == [op : {"cancel"}, user : Clients, booking : 1..MaxBookings]
CheckoutRequests == [op : {"checkout"}, user : Clients, resource : Resources, notes : BOOLEAN]
CheckinRequests == [op : {"checkin"}, user : Clients, resource : Resources, damaged : BOOLEAN]

Requests == BookRequests \cup CancelRequests \cup CheckoutRequests \cup CheckinRequests

NoRequest == [op |-> "none"]

Phases == {"idle", "read", "begin", "body", "audit", "commit", "done"}

InTransaction == {"body", "audit", "commit"}

Replies == {"none", "ok",
            "unauthenticated", "forbidden", "not_found", "invalid", "error",
            "not_confirmed", "busy", "failed", "constraint",
            "conflict", "checked_out", "not_usable", "no_booking", "no_reason",
            "not_out", "not_allowed"}

Init ==
  /\ db \in InitialDatabases
  /\ now = 0
  /\ writer = NoWorker
  /\ work = db
  /\ pc = [w \in Workers |-> "idle"]
  /\ req = [w \in Workers |-> NoRequest]
  /\ rowid = [w \in Workers |-> 0]
  /\ reply = [w \in Workers |-> "none"]

-----------------------------------------------------------------------------
(* Steps every handler is made of. *)

Goto(w, p) == pc' = [pc EXCEPT ![w] = p]

\* The handler returns an error page, which has nothing of the request in it.
Refuse(w, r) ==
  /\ Goto(w, "done")
  /\ reply' = [reply EXCEPT ![w] = r]
  /\ req' = [req EXCEPT ![w] = NoRequest]
  /\ rowid' = [rowid EXCEPT ![w] = 0]
  /\ UNCHANGED <<db, now>>

\* Outside a transaction: an early return.
Answer(w, r) == Refuse(w, r) /\ UNCHANGED <<writer, work>>

\* Mutants: the error path commits; the error path forgets to roll back.
AbortCommits(w, r) ==
  /\ Goto(w, "done")
  /\ reply' = [reply EXCEPT ![w] = r]
  /\ req' = [req EXCEPT ![w] = NoRequest]
  /\ rowid' = [rowid EXCEPT ![w] = 0]
  /\ writer' = NoWorker /\ db' = work
  /\ UNCHANGED <<now, work>>
AbortKeepsLock(w, r) == Refuse(w, r) /\ UNCHANGED <<writer, work>>

\* Inside a transaction: rollback, then the error page.
Abort(w, r) == Refuse(w, r) /\ writer' = NoWorker /\ work' = db

\* Authorized: go for the write lock.
Proceed(w) ==
  /\ Goto(w, "begin")
  /\ UNCHANGED <<db, now, writer, work, req, rowid, reply>>

\* The handler's writes are in the working copy; id is the row they are about.
Stage(w, tables, id) ==
  /\ work' = tables
  /\ rowid' = [rowid EXCEPT ![w] = id]
  /\ Goto(w, "audit")
  /\ UNCHANGED <<db, now, writer, req, reply>>

Serving(w, p, op) == pc[w] = p /\ req[w].op = op

-----------------------------------------------------------------------------
(* Up to the transaction: reads of committed tables, in autocommit mode. *)

\* Room for a booking row, counting those other workers may still insert.
BookingsInFlight == {w \in Workers : req[w].op = "book" /\ pc[w] # "done"}

Receive(w) ==
  /\ pc[w] = "idle"
  /\ \E q \in Requests :
       /\ q.op = "book" => Len(db.bookings) + Cardinality(BookingsInFlight) < MaxBookings
       /\ req' = [req EXCEPT ![w] = q]
  /\ Goto(w, "read")
  /\ UNCHANGED <<db, now, writer, work, rowid, reply>>

\* booking_form: in order, and not in the past.
FormAllows(s, e) == s < e /\ s >= now

\* The row of booking_rules: duration and advance limits.
RulesAllow(s, e) ==
  /\ e - s >= MinDuration
  /\ e - s <= MaxDuration
  /\ s <= now + AdvanceLimit

ReadForBook(w) ==
  LET q == req[w] IN
  /\ Serving(w, "read", "book")
  /\ \/ q.user = Nobody /\ Answer(w, "error")
     \/ q.user # Nobody /\ ~CanUse(db, q.resource) /\ Answer(w, "forbidden")
     \/ /\ q.user # Nobody /\ CanUse(db, q.resource)
        /\ \/ Answer(w, "invalid")
           \/ /\ FormAllows(q.window[1], q.window[2])
              /\ RulesAllow(q.window[1], q.window[2])
              /\ Proceed(w)

ReadForCancel(w) ==
  LET q == req[w]
      known == q.booking \in DOMAIN db.bookings
      visible == known /\ CanView(q.user, db.bookings[q.booking])
  IN
  /\ Serving(w, "read", "cancel")
  /\ \/ known /\ q.user = Nobody /\ Answer(w, "error")
     \/ ~known /\ Answer(w, "not_found")
     \/ known /\ q.user # Nobody /\ ~visible /\ Answer(w, "not_found")
     \/ /\ q.user # Nobody /\ visible
        /\ IF db.bookings[q.booking].status = "confirmed"
             THEN Proceed(w)
             ELSE Answer(w, "not_confirmed")

ReadForCheckout(w) ==
  LET q == req[w] IN
  /\ Serving(w, "read", "checkout")
  /\ \/ q.user = Nobody /\ Answer(w, "unauthenticated")
     \/ q.user # Nobody /\ ~MayCheckOut(db, q.user, q.resource) /\ Answer(w, "forbidden")
     \/ /\ q.user # Nobody /\ MayCheckOut(db, q.user, q.resource)
        /\ Answer(w, "invalid") \/ Proceed(w)

ReadForCheckin(w) ==
  /\ Serving(w, "read", "checkin")
  /\ \/ req[w].user = Nobody /\ Answer(w, "unauthenticated")
     \/ req[w].user # Nobody /\ (Answer(w, "invalid") \/ Proceed(w))

-----------------------------------------------------------------------------
(* The transaction. *)

\* Mutant: a plain BEGIN, which does not take the write lock.
BeginDeferred(w) ==
  /\ pc[w] = "begin"
  /\ writer' = w
  /\ Goto(w, "body")
  /\ UNCHANGED <<db, now, work, req, rowid, reply>>

Begin(w) ==
  /\ pc[w] = "begin"
  /\ writer = NoWorker
  /\ writer' = w
  /\ Goto(w, "body")
  /\ UNCHANGED <<db, now, work, req, rowid, reply>>

WaitForever(w) == FALSE  \* Mutant: no busy_timeout

\* "database is locked" after busy_timeout.
Busy(w) ==
  /\ pc[w] = "begin"
  /\ writer # NoWorker
  /\ Answer(w, "busy")

BookBody(w) ==
  LET q == req[w]
      new == [resource |-> q.resource, owner |-> q.user, start |-> q.window[1],
              end |-> q.window[2], status |-> "confirmed"]
  IN
  /\ Serving(w, "body", "book")
  /\ IF ConflictingBooking(work, q.resource, new.start, new.end) THEN Abort(w, "conflict")
     ELSE IF OverlapTriggerAborts(work, new) THEN Abort(w, "constraint")
     ELSE Stage(w, InsertBooking(work, new), Len(work.bookings) + 1)

CancelBody(w) ==
  /\ Serving(w, "body", "cancel")
  /\ Stage(w, CancelBooking(work, req[w].booking), req[w].booking)

CheckoutBody(w) ==
  LET q == req[w]
      active == ActiveBookings(work, q.user, q.resource, now)
      booking == IF active = {} THEN NoBooking ELSE FirstToStart(work, active)
      new == [resource |-> q.resource, booking |-> booking, user |-> q.user, open |-> TRUE]
  IN
  /\ Serving(w, "body", "checkout")
  /\ IF OpenCheckouts(work, q.resource) # {} THEN Abort(w, "checked_out")
     ELSE IF ~Rentable(work, q.resource) THEN Abort(w, "not_usable")
     ELSE IF booking = NoBooking /\ ~IsAdmin(q.user) THEN Abort(w, "no_booking")
     ELSE IF booking = NoBooking /\ ~q.notes THEN Abort(w, "no_reason")
     ELSE IF CheckoutConstraintFails(work, new) THEN Abort(w, "constraint")
     ELSE Stage(w, InsertCheckout(work, new), Len(work.checkouts) + 1)

CheckinBody(w) ==
  LET q == req[w]
      out == OpenCheckouts(work, q.resource)
      c == CheckoutToClose(work, q.resource)
      allowed == work.checkouts[c].user = q.user \/ CanManage(q.user, q.resource)
  IN
  /\ Serving(w, "body", "checkin")
  /\ IF out = {} THEN Abort(w, "not_out")
     ELSE IF ~allowed THEN Abort(w, "not_allowed")
     ELSE IF CheckinBookingIsNull(work, c) \/ CheckinExists(work, c) THEN Abort(w, "constraint")
     ELSE Stage(w, ReturnCheckout(work, c, q.user, q.damaged), Len(work.checkins) + 1)

AuditAction(op) ==
  CASE op = "book" -> "booking.create"
    [] op = "cancel" -> "booking.cancel"
    [] op = "checkout" -> "checkout.create"
    [] OTHER -> "checkin.create"

Audit(w) ==
  /\ pc[w] = "audit"
  /\ work' = InsertAudit(work, req[w].user, AuditAction(req[w].op), rowid[w])
  /\ Goto(w, "commit")
  /\ UNCHANGED <<db, now, writer, req, rowid, reply>>

\* Mutant: the connection is closed without a commit.
CommitForgotten(w) ==
  /\ pc[w] = "commit"
  /\ writer' = NoWorker
  /\ work' = db
  /\ Goto(w, "done")
  /\ reply' = [reply EXCEPT ![w] = "ok"]
  /\ UNCHANGED <<db, now, req, rowid>>

Commit(w) ==
  /\ pc[w] = "commit"
  /\ db' = work
  /\ writer' = NoWorker
  /\ Goto(w, "done")
  /\ reply' = [reply EXCEPT ![w] = "ok"]
  /\ UNCHANGED <<now, work, req, rowid>>

\* A query, a statement of the transaction, or its COMMIT raises.
Fail(w) ==
  \/ pc[w] = "read" /\ Answer(w, "failed")
  \/ pc[w] \in InTransaction /\ Abort(w, "failed")

Respond(w) ==
  /\ pc[w] = "done"
  /\ Goto(w, "idle")
  /\ req' = [req EXCEPT ![w] = NoRequest]
  /\ rowid' = [rowid EXCEPT ![w] = 0]
  /\ reply' = [reply EXCEPT ![w] = "none"]
  /\ UNCHANGED <<db, now, writer, work>>

-----------------------------------------------------------------------------
(* The environment. *)

\* The worker's process dies, or its connection is closed without a commit.
Crash(w) ==
  /\ pc[w] # "idle"
  /\ Goto(w, "idle")
  /\ req' = [req EXCEPT ![w] = NoRequest]
  /\ rowid' = [rowid EXCEPT ![w] = 0]
  /\ reply' = [reply EXCEPT ![w] = "none"]
  /\ IF writer = w THEN writer' = NoWorker /\ work' = db ELSE UNCHANGED <<writer, work>>
  /\ UNCHANGED <<db, now>>

Tick ==
  /\ now < MaxTime
  /\ now' = now + 1
  /\ UNCHANGED <<db, writer, work, pc, req, rowid, reply>>

\* What a worker does once it has a request.
Handle(w) ==
  \/ ReadForBook(w) \/ ReadForCancel(w) \/ ReadForCheckout(w) \/ ReadForCheckin(w)
  \/ Begin(w) \/ Busy(w)
  \/ BookBody(w) \/ CancelBody(w) \/ CheckoutBody(w) \/ CheckinBody(w)
  \/ Audit(w) \/ Commit(w) \/ Fail(w)
  \/ Respond(w)

Next ==
  \/ Tick
  \/ \E w \in Workers : Receive(w) \/ Handle(w) \/ Crash(w)

Spec == Init /\ [][Next]_vars

\* The interpreter keeps running a handler it has started, and a wait for the
\* lock ends by getting it or by the timeout.
FairSpec == Spec /\ \A w \in Workers : WF_vars(Handle(w))

-----------------------------------------------------------------------------
(* Types. *)

TypeOK ==
  /\ db \in Database /\ work \in Database
  /\ now \in 0..MaxTime
  /\ writer \in Workers \cup {NoWorker}
  /\ pc \in [Workers -> Phases]
  /\ req \in [Workers -> Requests \cup {NoRequest}]
  /\ rowid \in [Workers -> Nat]
  /\ reply \in [Workers -> Replies]

-----------------------------------------------------------------------------
(* Safety, besides what the ledger's tables promise. *)

Answers(w, r) == reply'[w] = r /\ reply[w] # r

\* A request answered with success is in the committed tables, as asked for and
\* under the name of the client who asked.
AcknowledgedIsRecorded ==
  \A w \in Workers :
    pc[w] = "done" /\ reply[w] = "ok" =>
      LET q == req[w]
          id == rowid[w]
      IN /\ \E i \in DOMAIN db.audit :
              db.audit[i] = [actor |-> q.user, action |-> AuditAction(q.op), id |-> id]
         /\ q.op = "book" =>
              /\ db.bookings[id].owner = q.user /\ db.bookings[id].resource = q.resource
              /\ <<db.bookings[id].start, db.bookings[id].end>> = q.window
         /\ q.op = "checkout" =>
              db.checkouts[id].user = q.user /\ db.checkouts[id].resource = q.resource
         /\ q.op = "checkin" =>
              LET c == db.checkins[id].checkout IN
              /\ db.checkins[id].user = q.user /\ ~db.checkouts[c].open
              /\ db.checkouts[c].resource = q.resource

\* The checks the handlers make under the lock leave nothing for the trigger and
\* the unique indexes to catch; the only constraint that ever fires is NOT NULL
\* on checkins.booking_id, for a resource that is out on an override.
ConstraintsAreABackstop ==
  [][\A w \in Workers :
       Answers(w, "constraint") =>
         /\ req[w].op = "checkin"
         /\ \E c \in OpenCheckouts(db, req[w].resource) : CheckinBookingIsNull(db, c)
    ]_vars

\* The checkout query never has two bookings to choose from, so its ORDER BY
\* ... LIMIT 1 hides no ambiguity.
OneActiveBooking ==
  \A u \in Users, r \in Resources : Cardinality(ActiveBookings(db, u, r, now)) <= 1

-----------------------------------------------------------------------------
(* What a step may never do. *)

\* Committed history is never lost to another worker's commit: rows stay, keep
\* the facts they were written with, and a returned checkout is not reopened.
HistoryIsKept ==
  [][/\ \A k \in DOMAIN db.bookings :
          /\ k \in DOMAIN db'.bookings
          /\ [db'.bookings[k] EXCEPT !.status = "confirmed"] =
               [db.bookings[k] EXCEPT !.status = "confirmed"]
          /\ db'.bookings[k].status = "confirmed" => db.bookings[k].status = "confirmed"
     /\ \A c \in DOMAIN db.checkouts :
          /\ c \in DOMAIN db'.checkouts
          /\ db'.checkouts[c] \in {db.checkouts[c], [db.checkouts[c] EXCEPT !.open = FALSE]}
     /\ \A i \in DOMAIN db.audit : i \in DOMAIN db'.audit /\ db'.audit[i] = db.audit[i]
    ]_vars

\* A resource reported damaged is never handed out or put back in service by a
\* request that looked at it before the report.
DamagedStaysOut ==
  [][\A r \in Resources : db.status[r] = "damaged" => db'.status[r] = "damaged"]_vars

-----------------------------------------------------------------------------
(* What the repository says of the program and the program does not do. *)

\* "A confirmed active booking is required" (application.py:203) is said only to
\* a client who has none: scripts/ci_acceptance.py:162-165 takes the stored text
\* and CURRENT_TIMESTAMP to be of one format.
ActiveBookingIsSeen ==
  [][\A w \in Workers : Answers(w, "no_booking") =>
       ~\E k \in DOMAIN db.bookings :
          /\ db.bookings[k].resource = req[w].resource
          /\ db.bookings[k].owner = req[w].user
          /\ db.bookings[k].status = "confirmed"
          /\ db.bookings[k].start <= now /\ now <= db.bookings[k].end
    ]_vars

\* What is out can be returned: "migration 0005 permits a documented administrator
\* checkout override without a booking" (README.md:94).
OverrideCanBeReturned == [][\A w \in Workers : ~Answers(w, "constraint")]_vars

\* A booking that is no longer confirmed "cannot be cancelled" (application.py:297).
OnlyConfirmedIsCancelled ==
  [][\A k \in DOMAIN db.bookings :
       db.bookings[k].status = "completed" => db'.bookings[k].status = "completed"]_vars

-----------------------------------------------------------------------------
(* Refinement and liveness. *)

\* With all their interleavings, failures and crashes the workers implement the
\* ledger of indivisible steps; its tables are the committed ones.
ImplementsLedger == LedgerSpec

\* No request hangs: it is answered unless its worker dies.
RequestsAreAnswered ==
  \A w \in Workers : pc[w] = "read" ~> pc[w] \in {"done", "idle"}

\* Every way out of a transaction gives the write lock back.
WriterLockIsReleased == \A w \in Workers : writer = w ~> writer # w

-----------------------------------------------------------------------------
(* The inductive part of the refinement: who holds the lock, and what the    *)
(* working copy is at each point of the transaction.                         *)

LockDiscipline ==
  /\ \A w \in Workers : pc[w] \in InTransaction <=> writer = w
  /\ (writer = NoWorker \/ \E w \in Workers : writer = w /\ pc[w] = "body") => work = db

\* Once staged, the working copy is one ledger step ahead of the tables, its
\* audit row included or still to come.
StagedIsOneStep ==
  \A w \in Workers :
    /\ pc[w] = "audit" =>
         LedgerStep(db, InsertAudit(work, req[w].user, AuditAction(req[w].op), rowid[w]))
    /\ pc[w] = "commit" => LedgerStep(db, work)

\* What the reads established still holds when the lock is taken, as far as the
\* handler relies on it: ids stay valid, owners and managers do not change.
AuthorizationHolds ==
  \A w \in Workers :
    /\ pc[w] = "read" => req[w] \in Requests
    /\ pc[w] \in {"begin"} \cup InTransaction =>
         /\ req[w] \in Requests
         /\ req[w].user \in Users
         /\ req[w].op = "book" =>
              req[w].window[1] < req[w].window[2] /\ req[w].resource \in Bookable
         /\ req[w].op = "cancel" =>
              /\ req[w].booking \in DOMAIN db.bookings
              /\ CanView(req[w].user, db.bookings[req[w].booking])
         /\ req[w].op = "checkout" =>
              (req[w].user \in Managers => CanManage(req[w].user, req[w].resource))

\* All three together: nothing but a finished transaction ever reaches the tables.
TransactionsAreAtomic == LockDiscipline /\ AuthorizationHolds /\ StagedIsOneStep

=============================================================================
