------------------------ MODULE RequestWorkersProofs ------------------------
(***************************************************************************)
(* The concurrent workers keep their types, run their transactions         *)
(* atomically and implement the reservation ledger, for any number of      *)
(* workers, users, resources and bookings.                                 *)
(***************************************************************************)
EXTENDS RequestWorkers, ReservationLedgerProofs, FiniteSetTheorems

\* The fields each kind of request has.
LEMMA RequestFields ==
  ASSUME NEW q \in Requests
  PROVE  /\ q.op \in {"book", "cancel", "checkout", "checkin"}
         /\ q.user \in Users \cup {Nobody}
         /\ q.op = "book" => /\ q.resource \in Resources
                             /\ q.window \in Windows
                             /\ q.window[1] \in Nat /\ q.window[2] \in Nat
         /\ q.op = "cancel" => q.booking \in Nat
         /\ q.op = "checkout" => q.resource \in Resources /\ q.notes \in BOOLEAN
         /\ q.op = "checkin" => q.resource \in Resources /\ q.damaged \in BOOLEAN
BY WorkersAssumption, ClockAssumption
   DEF Requests, BookRequests, CancelRequests, CheckoutRequests, CheckinRequests

LEMMA AuditActionType == ASSUME NEW op PROVE AuditAction(op) \in AuditActions
BY DEF AuditAction, AuditActions

\* The steps all handlers share keep the types.
LEMMA RefuseType ==
  ASSUME TypeOK, NEW w \in Workers, NEW r \in Replies, Refuse(w, r),
         work' \in Database, writer' \in Workers \cup {NoWorker}
  PROVE  TypeOK'
BY DEF TypeOK, Refuse, Goto, Phases

LEMMA AnswerType ==
  ASSUME TypeOK, NEW w \in Workers, NEW r \in Replies, Answer(w, r)
  PROVE  TypeOK'
BY RefuseType DEF TypeOK, Answer

LEMMA AbortType ==
  ASSUME TypeOK, NEW w \in Workers, NEW r \in Replies, Abort(w, r)
  PROVE  TypeOK'
BY RefuseType DEF TypeOK, Abort

LEMMA ProceedType ==
  ASSUME TypeOK, NEW w \in Workers, Proceed(w)
  PROVE  TypeOK'
BY DEF TypeOK, Proceed, Goto, Phases

LEMMA StageType ==
  ASSUME TypeOK, NEW w \in Workers, NEW tables \in Database, NEW id \in Nat, Stage(w, tables, id)
  PROVE  TypeOK'
BY DEF TypeOK, Stage, Goto, Phases

-----------------------------------------------------------------------------
(* Types.                                                                  *)

\* A worker that serves an operation has a request with its fields.
LEMMA ServedRequest ==
  ASSUME TypeOK, NEW w \in Workers, req[w].op \in {"book", "cancel", "checkout", "checkin"}
  PROVE  req[w] \in Requests
BY DEF TypeOK, NoRequest

\* The handlers up to their transaction.
LEMMA ReadType ==
  ASSUME TypeOK, NEW w \in Workers,
         ReadForBook(w) \/ ReadForCancel(w) \/ ReadForCheckout(w) \/ ReadForCheckin(w)
  PROVE  TypeOK'
BY AnswerType, ProceedType
   DEF ReadForBook, ReadForCancel, ReadForCheckout, ReadForCheckin, Replies

LEMMA BookBodyType ==
  ASSUME TypeOK, AuthorizationHolds, NEW w \in Workers, BookBody(w)
  PROVE  TypeOK'
<1>. DEFINE q == req[w]
            new == [resource |-> q.resource, owner |-> q.user, start |-> q.window[1],
                    end |-> q.window[2], status |-> "confirmed"]
<1>1. q \in Requests /\ q.op = "book"
  BY ServedRequest DEF BookBody, Serving
<1>2. q.user \in Users
  BY DEF AuthorizationHolds, BookBody, Serving, InTransaction
<1>3. new \in BookingRows
  BY <1>1, <1>2, RequestFields DEF BookingRows
<1>4. work \in Database /\ Len(work.bookings) + 1 \in Nat
  BY DatabaseFields DEF TypeOK
<1>5. InsertBooking(work, new) \in Database
  BY <1>3, <1>4, InsertBookingType
<1>. QED
  BY <1>4, <1>5, AbortType, StageType DEF BookBody, Replies

LEMMA CancelBodyType ==
  ASSUME TypeOK, NEW w \in Workers, CancelBody(w)
  PROVE  TypeOK'
<1>1. req[w] \in Requests /\ req[w].op = "cancel"
  BY ServedRequest DEF CancelBody, Serving
<1>2. req[w].booking \in Nat
  BY <1>1, RequestFields
<1>3. CancelBooking(work, req[w].booking) \in Database
  BY <1>2, CancelBookingType DEF TypeOK
<1>. QED
  BY <1>2, <1>3, StageType DEF CancelBody

LEMMA CheckoutBodyType ==
  ASSUME TypeOK, AuthorizationHolds, NEW w \in Workers, CheckoutBody(w)
  PROVE  TypeOK'
<1>. DEFINE q == req[w]
            active == ActiveBookings(work, q.user, q.resource, now)
            booking == IF active = {} THEN NoBooking ELSE FirstToStart(work, active)
            new == [resource |-> q.resource, booking |-> booking, user |-> q.user, open |-> TRUE]
<1>1. q \in Requests /\ q.op = "checkout"
  BY ServedRequest DEF CheckoutBody, Serving
<1>2. q.user \in Users
  BY DEF AuthorizationHolds, CheckoutBody, Serving, InTransaction
<1>3. work \in Database /\ Len(work.checkouts) + 1 \in Nat
  BY DatabaseFields DEF TypeOK
<1>4. booking \in Nat
  <2>1. active \in SUBSET DOMAIN work.bookings
    BY DEF ActiveBookings
  <2>2. DOMAIN work.bookings \subseteq Nat
    BY <1>3, DatabaseFields
  <2>. QED
    BY <1>3, <2>1, <2>2, FirstToStartIsOne DEF NoBooking
<1>5. new \in CheckoutRows
  BY <1>1, <1>2, <1>4, RequestFields DEF CheckoutRows
<1>6. InsertCheckout(work, new) \in Database
  BY <1>3, <1>5, InsertCheckoutType
<1>. QED
  BY <1>3, <1>6, AbortType, StageType DEF CheckoutBody, Replies

LEMMA CheckinBodyType ==
  ASSUME TypeOK, AuthorizationHolds, NEW w \in Workers, CheckinBody(w)
  PROVE  TypeOK'
<1>. DEFINE q == req[w]
            out == OpenCheckouts(work, q.resource)
            c == CheckoutToClose(work, q.resource)
<1>1. q \in Requests /\ q.op = "checkin" /\ q.damaged \in BOOLEAN
  BY ServedRequest, RequestFields DEF CheckinBody, Serving
<1>2. q.user \in Users
  BY DEF AuthorizationHolds, CheckinBody, Serving, InTransaction
<1>3. work \in Database /\ Len(work.checkins) + 1 \in Nat
  BY DatabaseFields DEF TypeOK
<1>4. out # {} => c \in DOMAIN work.checkouts
  BY <1>3, ClosedIsOpen DEF OpenCheckouts
<1>5. out # {} => ReturnCheckout(work, c, q.user, q.damaged) \in Database
  BY <1>1, <1>2, <1>3, <1>4, ReturnCheckoutType
<1>. QED
  BY <1>3, <1>5, AbortType, StageType DEF CheckinBody, Replies

\* Every step keeps the types.
LEMMA TypeStep ==
  ASSUME TypeOK, AuthorizationHolds, [Next]_vars
  PROVE  TypeOK'
<1>1. CASE UNCHANGED vars
  BY <1>1 DEF TypeOK, vars
<1>2. CASE Tick
  BY <1>2, WorkersAssumption DEF TypeOK, Tick
<1>3. ASSUME NEW w \in Workers, Receive(w) PROVE TypeOK'
  BY <1>3 DEF TypeOK, Receive, Goto, Phases
<1>4. ASSUME NEW w \in Workers, Handle(w) PROVE TypeOK'
  <2>1. CASE ReadForBook(w) \/ ReadForCancel(w) \/ ReadForCheckout(w) \/ ReadForCheckin(w)
    BY <2>1, ReadType
  <2>2. CASE Begin(w)
    BY <2>2 DEF TypeOK, Begin, Goto, Phases
  <2>3. CASE Busy(w)
    BY <2>3, AnswerType DEF Busy, Replies
  <2>4. CASE BookBody(w) \/ CancelBody(w) \/ CheckoutBody(w) \/ CheckinBody(w)
    BY <2>4, BookBodyType, CancelBodyType, CheckoutBodyType, CheckinBodyType
  <2>5. CASE Audit(w)
    <3>1. req[w].user \in Users /\ rowid[w] \in Nat
      BY <2>5 DEF Audit, AuthorizationHolds, InTransaction, TypeOK
    <3>2. InsertAudit(work, req[w].user, AuditAction(req[w].op), rowid[w]) \in Database
      BY <3>1, InsertAuditType, AuditActionType DEF TypeOK
    <3>. QED
      BY <2>5, <3>2 DEF TypeOK, Audit, Goto, Phases
  <2>6. CASE Commit(w)
    BY <2>6 DEF TypeOK, Commit, Goto, Phases, Replies
  <2>7. CASE Fail(w)
    BY <2>7, AbortType, AnswerType DEF Fail, Replies
  <2>8. CASE Respond(w)
    BY <2>8 DEF TypeOK, Respond, Goto, Phases, Replies
  <2>. QED
    BY <1>4, <2>1, <2>2, <2>3, <2>4, <2>5, <2>6, <2>7, <2>8 DEF Handle
<1>5. ASSUME NEW w \in Workers, Crash(w) PROVE TypeOK'
  BY <1>5 DEF TypeOK, Crash, Goto, Phases, Replies
<1>. QED
  BY <1>1, <1>2, <1>3, <1>4, <1>5 DEF Next

-----------------------------------------------------------------------------
(* Atomicity: the lock, the authorization and the staged step.             *)

\* A worker's step is its own: the others keep their place and their request,
\* and while one of them is in its transaction neither the tables, nor its
\* working copy, nor the lock change.
LEMMA OthersUndisturbed ==
  ASSUME TypeOK, LockDiscipline, NEW w \in Workers, NEW v \in Workers, v # w,
         Receive(w) \/ Handle(w) \/ Crash(w)
  PROVE  /\ pc'[v] = pc[v] /\ req'[v] = req[v] /\ rowid'[v] = rowid[v]
         /\ pc[v] \in InTransaction => UNCHANGED <<db, work, writer>>
<1>1. writer = v => writer # w /\ pc[w] \notin InTransaction /\ v # NoWorker
  BY WorkersAssumption DEF LockDiscipline
<1>2. pc[v] \in InTransaction => writer = v
  BY DEF LockDiscipline
<1>. USE DEF Goto, Refuse, Answer, Abort, Proceed, Stage, Serving
<1>3. CASE Receive(w)
  BY <1>3 DEF TypeOK, Receive
<1>4. CASE ReadForBook(w)
  BY <1>4 DEF TypeOK, ReadForBook
<1>5. CASE ReadForCancel(w)
  BY <1>5 DEF TypeOK, ReadForCancel
<1>6. CASE ReadForCheckout(w)
  BY <1>6 DEF TypeOK, ReadForCheckout
<1>7. CASE ReadForCheckin(w)
  BY <1>7 DEF TypeOK, ReadForCheckin
<1>8. CASE Begin(w) \/ Busy(w) \/ Respond(w) \/ Crash(w)
  BY <1>1, <1>2, <1>8 DEF TypeOK, Begin, Busy, Respond, Crash
<1>9. CASE BookBody(w) \/ CancelBody(w) \/ CheckoutBody(w) \/ CheckinBody(w)
  BY <1>1, <1>2, <1>9 DEF TypeOK, BookBody, CancelBody, CheckoutBody, CheckinBody, InTransaction
<1>10. CASE Audit(w) \/ Commit(w) \/ Fail(w)
  BY <1>1, <1>2, <1>10 DEF TypeOK, Audit, Commit, Fail, InTransaction
<1>. QED
  BY <1>3, <1>4, <1>5, <1>6, <1>7, <1>8, <1>9, <1>10 DEF Handle

\* What a step of worker w does to its own place and to the lock.
LEMMA OwnStep ==
  ASSUME TypeOK, LockDiscipline, NEW w \in Workers,
         Receive(w) \/ Handle(w) \/ Crash(w)
  PROVE  /\ pc'[w] \in InTransaction <=> writer' = w
         /\ writer' = w \/ writer' = NoWorker \/ writer' = writer
         /\ (writer' = NoWorker \/ (writer' = w /\ pc'[w] = "body")) => work' = db'
         /\ writer' = writer /\ writer # w => UNCHANGED <<db, work>>
<1>1. w # NoWorker /\ (pc[w] \in InTransaction <=> writer = w)
  BY WorkersAssumption DEF LockDiscipline
<1>2. writer = NoWorker => work = db
  BY DEF LockDiscipline
<1>. USE DEF Goto, Refuse, Answer, Abort, Proceed, Stage, Serving, InTransaction
<1>3. CASE Receive(w)
  BY <1>1, <1>2, <1>3 DEF TypeOK, Receive
<1>4. CASE ReadForBook(w)
  BY <1>1, <1>2, <1>4 DEF TypeOK, ReadForBook
<1>5. CASE ReadForCancel(w)
  BY <1>1, <1>2, <1>5 DEF TypeOK, ReadForCancel
<1>6. CASE ReadForCheckout(w)
  BY <1>1, <1>2, <1>6 DEF TypeOK, ReadForCheckout
<1>7. CASE ReadForCheckin(w)
  BY <1>1, <1>2, <1>7 DEF TypeOK, ReadForCheckin
<1>8. CASE Begin(w) \/ Busy(w) \/ Respond(w) \/ Crash(w)
  BY <1>1, <1>2, <1>8 DEF TypeOK, Begin, Busy, Respond, Crash
<1>9. CASE BookBody(w)
  BY <1>1, <1>2, <1>9 DEF TypeOK, BookBody
<1>10. CASE CancelBody(w)
  BY <1>1, <1>2, <1>10 DEF TypeOK, CancelBody
<1>11. CASE CheckoutBody(w)
  BY <1>1, <1>2, <1>11 DEF TypeOK, CheckoutBody
<1>12. CASE CheckinBody(w)
  BY <1>1, <1>2, <1>12 DEF TypeOK, CheckinBody
<1>13. CASE Audit(w) \/ Commit(w) \/ Fail(w)
  BY <1>1, <1>2, <1>13 DEF TypeOK, Audit, Commit, Fail
<1>. QED
  BY <1>3, <1>4, <1>5, <1>6, <1>7, <1>8, <1>9, <1>10, <1>11, <1>12, <1>13 DEF Handle

\* The lock is held exactly by the worker in its transaction.
LEMMA LockStep ==
  ASSUME TypeOK, LockDiscipline, [Next]_vars
  PROVE  LockDiscipline'
<1>1. CASE UNCHANGED vars \/ Tick
  BY <1>1 DEF LockDiscipline, vars, Tick
<1>2. ASSUME NEW w \in Workers, Receive(w) \/ Handle(w) \/ Crash(w)
      PROVE  LockDiscipline'
  <2>1. ASSUME NEW v \in Workers PROVE pc'[v] \in InTransaction <=> writer' = v
    <3>1. CASE v = w
      BY <1>2, <3>1, OwnStep
    <3>2. CASE v # w
      <4>1. pc'[v] = pc[v] /\ (pc[v] \in InTransaction <=> writer = v)
        BY <1>2, <3>2, OthersUndisturbed DEF LockDiscipline
      <4>2. pc[v] \in InTransaction => writer' = writer
        BY <1>2, <3>2, OthersUndisturbed
      <4>3. writer' = v => writer = v
        BY <1>2, <3>2, OwnStep, WorkersAssumption
      <4>4. pc[v] \in InTransaction => writer' = v
        BY <4>1, <4>2
      <4>. QED
        BY <4>1, <4>3, <4>4
    <3>. QED
      BY <3>1, <3>2
  <2>2. (writer' = NoWorker \/ \E v \in Workers : writer' = v /\ pc'[v] = "body") => work' = db'
    <3>1. writer' = NoWorker => work' = db'
      BY <1>2, OwnStep
    <3>2. ASSUME NEW v \in Workers, writer' = v, pc'[v] = "body" PROVE work' = db'
      <4>1. CASE v = w
        BY <1>2, <3>2, <4>1, OwnStep
      <4>2. CASE v # w
        <5>1. pc[v] = "body" /\ pc[v] \in InTransaction
          BY <1>2, <3>2, <4>2, OthersUndisturbed DEF InTransaction
        <5>2. work = db
          BY <5>1 DEF LockDiscipline
        <5>. QED
          BY <1>2, <4>2, <5>1, <5>2, OthersUndisturbed
      <4>. QED
        BY <4>1, <4>2
    <3>. QED
      BY <3>1, <3>2
  <2>. QED
    BY <2>1, <2>2 DEF LockDiscipline
<1>. QED
  BY <1>1, <1>2 DEF Next

\* The committed tables change only by a ledger step.
LEMMA TablesStep ==
  ASSUME TypeOK, TransactionsAreAtomic, [Next]_vars
  PROVE  db' = db \/ LedgerStep(db, db')
<1>1. CASE UNCHANGED vars \/ Tick
  BY <1>1 DEF vars, Tick
<1>2. ASSUME NEW w \in Workers, Receive(w) \/ Crash(w) PROVE db' = db
  BY <1>2 DEF Receive, Crash
<1>3. ASSUME NEW w \in Workers, Handle(w) PROVE db' = db \/ LedgerStep(db, db')
  <2>1. CASE Commit(w)
    BY <2>1 DEF Commit, TransactionsAreAtomic, StagedIsOneStep
  <2>2. CASE ~Commit(w)
    BY <1>3, <2>2
       DEF Handle, ReadForBook, ReadForCancel, ReadForCheckout, ReadForCheckin, Begin, Busy,
           BookBody, CancelBody, CheckoutBody, CheckinBody, Audit, Fail, Respond,
           Refuse, Answer, Abort, Proceed, Stage
  <2>. QED
    BY <2>1, <2>2
<1>. QED
  BY <1>1, <1>2, <1>3 DEF Next

\* A worker in its transaction works on the committed tables and has been let in.
LEMMA InBody ==
  ASSUME TypeOK, TransactionsAreAtomic, NEW w \in Workers, pc[w] = "body"
  PROVE  work = db /\ req[w] \in Requests /\ req[w].user \in Users
<1>1. pc[w] \in InTransaction
  BY DEF InTransaction
<1>. QED
  BY <1>1 DEF TransactionsAreAtomic, LockDiscipline, AuthorizationHolds

\* What each handler stages is one ledger step ahead, its audit row to come.
LEMMA BookStages ==
  ASSUME TypeOK, TransactionsAreAtomic, NEW w \in Workers, BookBody(w), pc'[w] = "audit"
  PROVE  LedgerStep(db', InsertAudit(work', req'[w].user, AuditAction(req'[w].op), rowid'[w]))
<1>. DEFINE q == req[w]
            new == [resource |-> q.resource, owner |-> q.user, start |-> q.window[1],
                    end |-> q.window[2], status |-> "confirmed"]
<1>1. pc[w] = "body" /\ q.op = "book"
  BY DEF BookBody, Serving
<1>2. work = db /\ q.user \in Users /\ q.resource \in Resources /\ q.window \in Windows
  BY <1>1, InBody, RequestFields
<1>3. q.window[1] < q.window[2] /\ q.resource \in Bookable
  BY <1>1 DEF TransactionsAreAtomic, AuthorizationHolds, InTransaction
<1>4. /\ ~ConflictingBooking(db, q.resource, q.window[1], q.window[2])
      /\ Stage(w, InsertBooking(db, new), Len(db.bookings) + 1)
  BY <1>2 DEF BookBody, Abort, Refuse, Goto, TypeOK
<1>5. /\ work' = InsertBooking(db, new) /\ rowid'[w] = Len(db.bookings) + 1
      /\ db' = db /\ req' = req
  BY <1>4 DEF Stage, TypeOK
<1>6. AuditAction(q.op) = "booking.create"
  BY <1>1 DEF AuditAction
<1>7. Book(db, InsertAudit(work', q.user, "booking.create", rowid'[w]), q.user, q.resource,
           q.window[1], q.window[2])
  BY <1>3, <1>4, <1>5 DEF Book
<1>. QED
  BY <1>2, <1>5, <1>6, <1>7 DEF LedgerStep

LEMMA CancelStages ==
  ASSUME TypeOK, TransactionsAreAtomic, NEW w \in Workers, CancelBody(w)
  PROVE  LedgerStep(db', InsertAudit(work', req'[w].user, AuditAction(req'[w].op), rowid'[w]))
<1>. DEFINE q == req[w]
<1>1. pc[w] = "body" /\ q.op = "cancel"
  BY DEF CancelBody, Serving
<1>2. work = db /\ q.user \in Users
  BY <1>1, InBody
<1>3. q.booking \in DOMAIN db.bookings /\ CanView(q.user, db.bookings[q.booking])
  BY <1>1 DEF TransactionsAreAtomic, AuthorizationHolds, InTransaction
<1>4. work' = CancelBooking(db, q.booking) /\ rowid'[w] = q.booking /\ db' = db /\ req' = req
  BY <1>2 DEF CancelBody, Stage, TypeOK
<1>5. AuditAction(q.op) = "booking.cancel"
  BY <1>1 DEF AuditAction
<1>6. Cancel(db, InsertAudit(work', q.user, "booking.cancel", rowid'[w]), q.user, q.booking)
  BY <1>3, <1>4 DEF Cancel
<1>. QED
  BY <1>2, <1>3, <1>4, <1>5, <1>6 DEF LedgerStep

LEMMA CheckoutStages ==
  ASSUME TypeOK, TransactionsAreAtomic, NEW w \in Workers, CheckoutBody(w), pc'[w] = "audit"
  PROVE  LedgerStep(db', InsertAudit(work', req'[w].user, AuditAction(req'[w].op), rowid'[w]))
<1>. DEFINE q == req[w]
            active == ActiveBookings(db, q.user, q.resource, now)
            k == IF active = {} THEN NoBooking ELSE FirstToStart(db, active)
            new == [resource |-> q.resource, booking |-> k, user |-> q.user, open |-> TRUE]
<1>1. pc[w] = "body" /\ q.op = "checkout"
  BY DEF CheckoutBody, Serving
<1>2. work = db /\ q.user \in Users /\ q.resource \in Resources
  BY <1>1, InBody, RequestFields
<1>3. /\ OpenCheckouts(db, q.resource) = {}
      /\ Rentable(db, q.resource)
      /\ k = NoBooking => IsAdmin(q.user)
      /\ Stage(w, InsertCheckout(db, new), Len(db.checkouts) + 1)
  BY <1>2 DEF CheckoutBody, Abort, Refuse, Goto, TypeOK
<1>4. /\ work' = InsertCheckout(db, new) /\ rowid'[w] = Len(db.checkouts) + 1
      /\ db' = db /\ req' = req
  BY <1>3 DEF Stage, TypeOK
<1>5. AuditAction(q.op) = "checkout.create"
  BY <1>1 DEF AuditAction
<1>6. k # NoBooking => k \in active
  BY FirstToStartIsOne DEF TypeOK, ActiveBookings
<1>. HIDE DEF k
<1>7. k # NoBooking => /\ k \in DOMAIN db.bookings
                       /\ db.bookings[k].resource = q.resource
                       /\ db.bookings[k].owner = q.user
                       /\ db.bookings[k].status = "confirmed"
  BY <1>6 DEF ActiveBookings
<1>8. q.user \in Managers => CanManage(q.user, q.resource)
  BY <1>1 DEF TransactionsAreAtomic, AuthorizationHolds, InTransaction
<1>9. CheckOut(db, InsertAudit(work', q.user, "checkout.create", rowid'[w]), q.user,
               q.resource, k)
  BY <1>3, <1>4, <1>7, <1>8 DEF CheckOut
<1>. QED
  BY <1>2, <1>4, <1>5, <1>7, <1>9 DEF LedgerStep

LEMMA CheckinStages ==
  ASSUME TypeOK, TransactionsAreAtomic, NEW w \in Workers, CheckinBody(w), pc'[w] = "audit"
  PROVE  LedgerStep(db', InsertAudit(work', req'[w].user, AuditAction(req'[w].op), rowid'[w]))
<1>. DEFINE q == req[w]
            out == OpenCheckouts(db, q.resource)
            c == CheckoutToClose(db, q.resource)
<1>1. pc[w] = "body" /\ q.op = "checkin"
  BY DEF CheckinBody, Serving
<1>2. work = db /\ q.user \in Users /\ q.damaged \in BOOLEAN
  BY <1>1, InBody, RequestFields
<1>3. /\ out # {}
      /\ db.checkouts[c].user = q.user \/ CanManage(q.user, q.resource)
      /\ Stage(w, ReturnCheckout(db, c, q.user, q.damaged), Len(db.checkins) + 1)
  BY <1>2 DEF CheckinBody, Abort, Refuse, Goto, TypeOK
<1>4. /\ work' = ReturnCheckout(db, c, q.user, q.damaged) /\ rowid'[w] = Len(db.checkins) + 1
      /\ db' = db /\ req' = req
  BY <1>3 DEF Stage, TypeOK
<1>5. AuditAction(q.op) = "checkin.create"
  BY <1>1 DEF AuditAction
<1>6. c \in DOMAIN db.checkouts /\ db.checkouts[c].resource = q.resource /\ db.checkouts[c].open
  BY <1>3, ClosedIsOpen DEF OpenCheckouts, TypeOK
<1>7. CheckIn(db, InsertAudit(work', q.user, "checkin.create", rowid'[w]), q.user, c, q.damaged)
  BY <1>3, <1>4, <1>6 DEF CheckIn
<1>. QED
  BY <1>2, <1>4, <1>5, <1>6, <1>7 DEF LedgerStep

\* The working copy is one step ahead while it is staged.
LEMMA StagedStep ==
  ASSUME TypeOK, TransactionsAreAtomic, [Next]_vars
  PROVE  StagedIsOneStep'
<1>1. CASE UNCHANGED vars \/ Tick
  BY <1>1 DEF TransactionsAreAtomic, StagedIsOneStep, vars, Tick
<1>2. ASSUME NEW w \in Workers, Receive(w) \/ Handle(w) \/ Crash(w), NEW v \in Workers
      PROVE  /\ pc'[v] = "audit" =>
                  LedgerStep(db', InsertAudit(work', req'[v].user, AuditAction(req'[v].op), rowid'[v]))
             /\ pc'[v] = "commit" => LedgerStep(db', work')
  <2>1. CASE v # w
    <3>1. LockDiscipline
      BY DEF TransactionsAreAtomic
    <3>2. /\ pc'[v] = pc[v] /\ req'[v] = req[v] /\ rowid'[v] = rowid[v]
          /\ pc[v] \in InTransaction => UNCHANGED <<db, work, writer>>
      BY <1>2, <2>1, <3>1, OthersUndisturbed
    <3>. QED
      BY <3>2 DEF TransactionsAreAtomic, StagedIsOneStep, InTransaction
  <2>2. CASE v = w
    <3>1. CASE Audit(w)
      <4>1. /\ pc[w] = "audit" /\ pc'[w] = "commit" /\ db' = db
            /\ work' = InsertAudit(work, req[w].user, AuditAction(req[w].op), rowid[w])
        BY <3>1 DEF Audit, Goto, TypeOK
      <4>. QED
        BY <2>2, <4>1 DEF TransactionsAreAtomic, StagedIsOneStep
    <3>2. CASE ~Audit(w)
      <4>1. pc'[w] # "commit"
        BY <1>2, <3>2
           DEF Handle, ReadForBook, ReadForCancel, ReadForCheckout, ReadForCheckin, Begin, Busy,
               BookBody, CancelBody, CheckoutBody, CheckinBody, Commit, Fail, Respond, Receive,
               Crash, Refuse, Answer, Abort, Proceed, Stage, Goto, TypeOK
      <4>2. pc'[w] = "audit" =>
              BookBody(w) \/ CancelBody(w) \/ CheckoutBody(w) \/ CheckinBody(w)
        BY <1>2, <3>2
           DEF Handle, ReadForBook, ReadForCancel, ReadForCheckout, ReadForCheckin, Begin, Busy,
               Commit, Fail, Respond, Receive, Crash, Refuse, Answer, Abort, Proceed, Goto, TypeOK
      <4>. QED
        BY <2>2, <4>1, <4>2, BookStages, CancelStages, CheckoutStages, CheckinStages
    <3>. QED
      BY <3>1, <3>2
  <2>. QED
    BY <2>1, <2>2
<1>. QED
  BY <1>1, <1>2 DEF Next, StagedIsOneStep

\* What lets worker v go on, in the state given by these values.
MayGoOn(d, q) ==
  /\ q \in Requests
  /\ q.user \in Users
  /\ q.op = "book" => q.window[1] < q.window[2] /\ q.resource \in Bookable
  /\ q.op = "cancel" =>
       q.booking \in DOMAIN d.bookings /\ CanView(q.user, d.bookings[q.booking])
  /\ q.op = "checkout" => (q.user \in Managers => CanManage(q.user, q.resource))

\* Whoever may go on may still do so after any change of the tables.
LEMMA MayStillGoOn ==
  ASSUME NEW d, NEW e, SameBookings(d, e), NEW q, MayGoOn(d, q)
  PROVE  MayGoOn(e, q)
BY DEF MayGoOn, SameBookings, CanView

\* Nobody gets as far as the lock without having been let in.
LEMMA AuthorizationStep ==
  ASSUME TypeOK, TransactionsAreAtomic, [Next]_vars
  PROVE  AuthorizationHolds'
<1>. DEFINE Past(p) == p \in {"begin"} \cup InTransaction
<1>1. \A v \in Workers : /\ pc[v] = "read" => req[v] \in Requests
                         /\ Past(pc[v]) => MayGoOn(db, req[v])
  BY DEF TransactionsAreAtomic, AuthorizationHolds, MayGoOn
<1>2. SUFFICES ASSUME NEW v \in Workers
               PROVE  /\ pc'[v] = "read" => req'[v] \in Requests
                      /\ Past(pc'[v]) => MayGoOn(db', req'[v])
  BY DEF AuthorizationHolds, MayGoOn
<1>3. db' = db \/ SameBookings(db, db')
  BY TablesStep, LedgerStepKeeps DEF TypeOK
<1>4. CASE pc'[v] = pc[v] /\ req'[v] = req[v]
  BY <1>1, <1>3, <1>4, MayStillGoOn
<1>5. CASE UNCHANGED vars \/ Tick
  BY <1>4, <1>5 DEF vars, Tick
<1>6. ASSUME NEW w \in Workers, Receive(w) \/ Handle(w) \/ Crash(w)
      PROVE  /\ pc'[v] = "read" => req'[v] \in Requests
             /\ Past(pc'[v]) => MayGoOn(db', req'[v])
  <2>1. CASE v # w
    BY <1>4, <1>6, <2>1, OthersUndisturbed DEF TransactionsAreAtomic
  <2>2. CASE v = w
    <3>. USE DEF Goto, Refuse, Answer, Abort, Proceed, Stage, Serving, InTransaction
    <3>1. CASE Receive(w)
      BY <2>2, <3>1 DEF Receive, TypeOK
    <3>2. CASE ReadForBook(w)
      <4>1. req[w] \in Requests /\ req[w].user \in Users \cup {Nobody}
        BY <1>1, <3>2, RequestFields DEF ReadForBook
      <4>. QED
        BY <2>2, <3>2, <4>1 DEF ReadForBook, TypeOK, MayGoOn, FormAllows, CanUse
    <3>3. CASE ReadForCancel(w)
      <4>1. req[w] \in Requests /\ req[w].user \in Users \cup {Nobody}
        BY <1>1, <3>3, RequestFields DEF ReadForCancel
      <4>. QED
        BY <2>2, <3>3, <4>1 DEF ReadForCancel, TypeOK, MayGoOn
    <3>4. CASE ReadForCheckout(w)
      <4>1. req[w] \in Requests /\ req[w].user \in Users \cup {Nobody}
        BY <1>1, <3>4, RequestFields DEF ReadForCheckout
      <4>. QED
        BY <2>2, <3>4, <4>1 DEF ReadForCheckout, TypeOK, MayGoOn, MayCheckOut, CanManage
    <3>5. CASE ReadForCheckin(w)
      <4>1. req[w] \in Requests /\ req[w].user \in Users \cup {Nobody}
        BY <1>1, <3>5, RequestFields DEF ReadForCheckin
      <4>. QED
        BY <2>2, <3>5, <4>1 DEF ReadForCheckin, TypeOK, MayGoOn
    <3>6. CASE Begin(w) \/ Audit(w)
      BY <1>1, <2>2, <3>6 DEF Begin, Audit, TypeOK
    <3>7. CASE Busy(w) \/ Commit(w) \/ Fail(w) \/ Respond(w) \/ Crash(w)
      BY <2>2, <3>7 DEF Busy, Commit, Fail, Respond, Crash, TypeOK
    <3>8. CASE BookBody(w) \/ CancelBody(w) \/ CheckoutBody(w) \/ CheckinBody(w)
      <4>1. /\ pc[w] = "body" /\ db' = db /\ pc'[w] \in {"done", "audit"}
            /\ pc'[w] = "audit" => req' = req
        BY <3>8 DEF BookBody, CancelBody, CheckoutBody, CheckinBody, TypeOK
      <4>. QED
        BY <1>1, <2>2, <4>1
    <3>. QED
      BY <1>6, <3>1, <3>2, <3>3, <3>4, <3>5, <3>6, <3>7, <3>8 DEF Handle
  <2>. QED
    BY <2>1, <2>2
<1>. QED
  BY <1>5, <1>6 DEF Next

-----------------------------------------------------------------------------
(* The theorems.                                                           *)

\* The workers start with well-typed, untouched tables and nobody at work.
LEMMA InitHolds == Init => TypeOK /\ TransactionsAreAtomic
<1>. SUFFICES ASSUME Init PROVE TypeOK /\ TransactionsAreAtomic
  OBVIOUS
<1>1. db \in Database
  BY InitialType DEF Init
<1>2. TypeOK
  BY <1>1, WorkersAssumption DEF Init, TypeOK, Phases, Replies, NoRequest
<1>3. LockDiscipline
  BY WorkersAssumption DEF Init, LockDiscipline, InTransaction
<1>4. AuthorizationHolds /\ StagedIsOneStep
  BY DEF Init, AuthorizationHolds, StagedIsOneStep, InTransaction
<1>. QED
  BY <1>2, <1>3, <1>4 DEF TransactionsAreAtomic

\* The inductive invariant: types, and the state of the one open transaction.
LEMMA Inductive == Spec => [](TypeOK /\ TransactionsAreAtomic)
<1>1. TypeOK /\ TransactionsAreAtomic /\ [Next]_vars => (TypeOK /\ TransactionsAreAtomic)'
  BY TypeStep, LockStep, AuthorizationStep, StagedStep DEF TransactionsAreAtomic
<1>. QED
  BY InitHolds, <1>1, PTL DEF Spec

\* Every variable keeps its type, for any number of workers, users and rows.
THEOREM WorkersTypeCorrect == Spec => []TypeOK
BY Inductive, PTL

\* Between BEGIN IMMEDIATE and COMMIT (application.py:190-209 and its siblings)
\* one worker alone has the lock, its working copy is the committed tables or one
\* whole ledger step ahead of them, and what let it in still holds.
THEOREM TransactionsAtomic == Spec => []TransactionsAreAtomic
BY Inductive, PTL

\* The workers implement the ledger: the committed tables change by whole
\* bookings, cancellations, checkouts and check-ins, audit row included.
THEOREM WorkersImplementLedger == Spec => ImplementsLedger
<1>1. Init => db \in InitialDatabases
  BY DEF Init
<1>2. TypeOK /\ TransactionsAreAtomic /\ [Next]_vars => [LedgerStep(db, db')]_db
  BY TablesStep
<1>. QED
  BY Inductive, <1>1, <1>2, PTL DEF Spec, ImplementsLedger, LedgerSpec

\* Concurrent workers never double-book a resource (application.py:278-282).
THEOREM WorkersNeverDoubleBook == Spec => []NoDoubleBooking
BY WorkersImplementLedger, LedgerNeverDoubleBooks, PTL DEF ImplementsLedger

\* Concurrent workers never hand out what is out, and the status a resource shows
\* is where it is (application.py:192-209 and 240-250).
THEOREM WorkersKeepCustody == Spec => []CustodyMatchesStatus
BY WorkersImplementLedger, LedgerKeepsCustody, PTL DEF ImplementsLedger

\* Concurrent workers never hand out a resource on a booking of somebody else, or
\* on one that is used or completed (application.py:200-205).
THEOREM WorkersBackCheckouts == Spec => []CheckoutsAreBacked
BY WorkersImplementLedger, LedgerBacksCheckouts, PTL DEF ImplementsLedger

\* Concurrent returns of one resource leave one check-in, and nothing but a return
\* completes a booking (application.py:240-250).
THEOREM WorkersMatchReturns == Spec => []ReturnsMatchCheckins
BY WorkersImplementLedger, LedgerMatchesReturns, PTL DEF ImplementsLedger

\* A damage report stands: no request that looked before it hands the resource
\* out or puts it back in service (application.py:197-199, 244-249).
THEOREM WorkersKeepDamaged == Spec => DamagedStaysOut
<1>1. ASSUME TypeOK, TransactionsAreAtomic, CustodyMatchesStatus, [Next]_vars
      PROVE  [\A r \in Resources : db.status[r] = "damaged" => db'.status[r] = "damaged"]_vars
  <2>1. db \in Database
    BY <1>1 DEF TypeOK
  <2>2. CASE db' = db
    BY <2>2
  <2>3. CASE LedgerStep(db, db')
    <3>1. Custody(db)
      BY <1>1 DEF CustodyMatchesStatus, Custody
    <3>. QED
      BY <2>1, <2>3, <3>1, CustodyStep
  <2>. QED
    BY <1>1, <2>2, <2>3, TablesStep
<1>. QED
  BY <1>1, Inductive, WorkersKeepCustody, PTL DEF Spec, DamagedStaysOut

\* Nothing a commit wrote is undone by a later one: rows stay, keep their facts,
\* and bookings and checkouts that ended stay ended (application.py:190-302).
THEOREM WorkersKeepHistory == Spec => HistoryIsKept
<1>1. ASSUME TypeOK, TransactionsAreAtomic, [Next]_vars
      PROVE  [HistoryKept(db, db')]_vars
  <2>1. db \in Database
    BY <1>1 DEF TypeOK
  <2>2. CASE db' = db
    BY <2>2 DEF HistoryKept
  <2>3. CASE LedgerStep(db, db')
    BY <2>1, <2>3, HistoryStep
  <2>. QED
    BY <1>1, <2>2, <2>3, TablesStep
<1>. QED
  BY <1>1, Inductive, PTL DEF Spec, HistoryIsKept, HistoryKept

\* Whoever is named in the audit log of the workers was entitled to act, although
\* the rights of some are read before the lock (application.py:181-184 and 296).
THEOREM WorkersActorsEntitled == Spec => []EntitledActors
BY WorkersImplementLedger, LedgerActorsEntitled, PTL DEF ImplementsLedger

\* The audit log of the workers explains their tables, however handlers race, fail
\* half-way or die (application.py:190-302).
THEOREM WorkersAuditExplains == Spec => []AuditExplainsTables
BY WorkersImplementLedger, LedgerAuditExplains, PTL DEF ImplementsLedger

-----------------------------------------------------------------------------
(* The active booking.                                                     *)

\* A later moment is not on an earlier day.
LEMMA DaysInOrder ==
  ASSUME NEW s \in Nat, NEW t \in Nat, s <= t
  PROVE  Day(s) \in Nat /\ Day(t) \in Nat /\ Day(s) <= Day(t)
BY ClockAssumption DEF Day

\* Of two bookings that do not overlap at most one is active: the day of now lies
\* after the day one starts and not after the day the other ends.
THEOREM WorkersFindOneBooking == Spec => []OneActiveBooking
<1>1. TypeOK /\ NoDoubleBooking => OneActiveBooking
  <2>. SUFFICES ASSUME TypeOK, NoDoubleBooking, NEW u \in Users, NEW r \in Resources
                PROVE  Cardinality(ActiveBookings(db, u, r, now)) <= 1
    BY DEF OneActiveBooking
  <2>. DEFINE active == ActiveBookings(db, u, r, now)
  <2>1. ASSUME NEW j \in DOMAIN db.bookings, NEW k \in DOMAIN db.bookings,
               TextStarted(db.bookings[k], now), TextNotEnded(db.bookings[j], now)
        PROVE  ~(db.bookings[j].end <= db.bookings[k].start)
    <3>1. db.bookings[j] \in BookingRows /\ db.bookings[k] \in BookingRows
      BY DatabaseFields DEF TypeOK
    <3>2. db.bookings[j].end \in Nat /\ db.bookings[k].start \in Nat /\ now \in Nat
      BY <3>1 DEF BookingRows, TypeOK
    <3>3. Day(now) \in Nat
      BY <3>2, DaysInOrder
    <3>. QED
      BY <2>1, <3>2, <3>3, DaysInOrder DEF TextStarted, TextNotEnded
  <2>2. \A j, k \in active : j = k
    BY <2>1 DEF NoDoubleBooking, ActiveBookings
  <2>3. active = {} \/ \E k : active = {k}
    BY <2>2
  <2>. HIDE DEF active
  <2>4. Cardinality(active) \in {0, 1}
    BY <2>3, FS_EmptySet, FS_Singleton
  <2>. QED
    BY <2>4 DEF active
<1>. QED
  BY <1>1, WorkersTypeCorrect, WorkersNeverDoubleBook, PTL

-----------------------------------------------------------------------------
(* The constraints behind the checks.                                      *)

\* What a worker answers is set by its own steps.
LEMMA ReplyIsOwn ==
  ASSUME NEW w, Receive(w) \/ Handle(w) \/ Crash(w)
  PROVE  reply' = reply \/ \E r : reply' = [reply EXCEPT ![w] = r]
<1>. USE DEF Refuse, Answer, Abort, Proceed, Stage
<1>1. CASE Receive(w) \/ Crash(w)
  BY <1>1 DEF Receive, Crash
<1>2. CASE ReadForBook(w)
  BY <1>2 DEF ReadForBook
<1>3. CASE ReadForCancel(w)
  BY <1>3 DEF ReadForCancel
<1>4. CASE ReadForCheckout(w)
  BY <1>4 DEF ReadForCheckout
<1>5. CASE ReadForCheckin(w)
  BY <1>5 DEF ReadForCheckin
<1>6. CASE Begin(w) \/ Busy(w) \/ Audit(w) \/ Commit(w) \/ Fail(w) \/ Respond(w)
  BY <1>6 DEF Begin, Busy, Audit, Commit, Fail, Respond
<1>7. CASE BookBody(w)
  BY <1>7 DEF BookBody
<1>8. CASE CancelBody(w)
  BY <1>8 DEF CancelBody
<1>9. CASE CheckoutBody(w)
  BY <1>9 DEF CheckoutBody
<1>10. CASE CheckinBody(w)
  BY <1>10 DEF CheckinBody
<1>. HIDE DEF Refuse, Answer, Abort, Proceed, Stage
<1>. QED
  BY <1>1, <1>2, <1>3, <1>4, <1>5, <1>6, <1>7, <1>8, <1>9, <1>10 DEF Handle

\* Only the bodies of three transactions can meet a constraint.
LEMMA WhoMeetsConstraints ==
  ASSUME TypeOK, [Next]_vars, NEW w \in Workers, Answers(w, "constraint")
  PROVE  BookBody(w) \/ CheckoutBody(w) \/ CheckinBody(w)
<1>1. ~(UNCHANGED vars \/ Tick)
  BY DEF vars, Tick, Answers
<1>2. PICK v \in Workers : Receive(v) \/ Handle(v) \/ Crash(v)
  BY <1>1 DEF Next
<1>3. v = w
  BY <1>2, ReplyIsOwn DEF Answers, TypeOK
<1>. USE DEF Refuse, Answer, Proceed, Stage, Answers, TypeOK
<1>4. ~(Receive(w) \/ Crash(w))
  BY DEF Receive, Crash
<1>5. ~(ReadForBook(w) \/ ReadForCancel(w) \/ ReadForCheckout(w) \/ ReadForCheckin(w))
  BY DEF ReadForBook, ReadForCancel, ReadForCheckout, ReadForCheckin
<1>6. ~(Begin(w) \/ Busy(w) \/ CancelBody(w) \/ Audit(w) \/ Commit(w) \/ Fail(w) \/ Respond(w))
  BY DEF Begin, Busy, CancelBody, Audit, Commit, Fail, Respond, Abort
<1>. HIDE DEF Refuse, Answer, Proceed, Stage, Answers, TypeOK
<1>. QED
  BY <1>2, <1>3, <1>4, <1>5, <1>6 DEF Handle

\* The trigger asks what the route's own query has just answered.
LEMMA TriggerIsQuiet ==
  ASSUME TypeOK, NEW w \in Workers, BookBody(w)
  PROVE  ~Answers(w, "constraint")
BY DEF BookBody, OverlapTriggerAborts, Answers, Abort, Stage, Refuse, TypeOK

\* A confirmed booking of a resource that is not out has no checkout yet: a closed
\* one has spent it, and an open one would be of the same resource.
LEMMA CheckoutIndexesAreQuiet ==
  ASSUME TypeOK, TransactionsAreAtomic, Trail(db), NEW w \in Workers, CheckoutBody(w)
  PROVE  ~Answers(w, "constraint")
<1>. DEFINE q == req[w]
            active == ActiveBookings(db, q.user, q.resource, now)
            k == IF active = {} THEN NoBooking ELSE FirstToStart(db, active)
            new == [resource |-> q.resource, booking |-> k, user |-> q.user, open |-> TRUE]
<1>1. pc[w] = "body"
  BY DEF CheckoutBody, Serving
<1>2. work = db
  BY <1>1, InBody
<1>3. k # NoBooking => k \in active
  BY FirstToStartIsOne DEF TypeOK, ActiveBookings
<1>4. \A c \in DOMAIN db.checkouts : db.checkouts[c].open \in BOOLEAN
  <2>1. \A c \in DOMAIN db.checkouts : db.checkouts[c] \in CheckoutRows
    BY DatabaseFields DEF TypeOK
  <2>. QED
    BY <2>1 DEF CheckoutRows
<1>5. ASSUME OpenCheckouts(db, q.resource) = {} PROVE ~CheckoutConstraintFails(db, new)
  <2>. SUFFICES ASSUME NEW c \in DOMAIN db.checkouts,
                       \/ k # NoBooking /\ db.checkouts[c].booking = k
                       \/ db.checkouts[c].open /\ db.checkouts[c].resource = q.resource
                PROVE  FALSE
    BY DEF CheckoutConstraintFails
  <2>. HIDE DEF k
  <2>1. k # NoBooking /\ db.checkouts[c].booking = k
    BY <1>5 DEF OpenCheckouts
  <2>2. db.bookings[k].status = "confirmed" /\ db.bookings[k].resource = q.resource
    BY <1>3, <2>1 DEF ActiveBookings
  <2>3. db.checkouts[c].open
    BY <1>4, <2>1, <2>2 DEF Trail, Spent
  <2>4. db.checkouts[c].resource = q.resource
    BY <2>1, <2>2 DEF Trail, Backed
  <2>. QED
    BY <1>5, <2>3, <2>4 DEF OpenCheckouts
<1>. HIDE DEF k
<1>6. ASSUME Answers(w, "constraint")
      PROVE  OpenCheckouts(db, q.resource) = {} /\ CheckoutConstraintFails(db, new)
  BY <1>2, <1>6 DEF CheckoutBody, Answers, Abort, Stage, Refuse, TypeOK, k
<1>. QED
  BY <1>5, <1>6

\* An open checkout has no check-in yet, so the only constraint a return meets is
\* the NOT NULL of checkins.booking_id.
LEMMA CheckinMeetsNotNull ==
  ASSUME TypeOK, TransactionsAreAtomic, Trail(db), NEW w \in Workers, CheckinBody(w),
         Answers(w, "constraint")
  PROVE  /\ req[w].op = "checkin"
         /\ \E c \in OpenCheckouts(db, req[w].resource) : CheckinBookingIsNull(db, c)
<1>. DEFINE out == OpenCheckouts(db, req[w].resource)
            c == CheckoutToClose(db, req[w].resource)
<1>1. pc[w] = "body" /\ req[w].op = "checkin"
  BY DEF CheckinBody, Serving
<1>2. work = db
  BY <1>1, InBody
<1>3. out # {} /\ (CheckinBookingIsNull(db, c) \/ CheckinExists(db, c))
  BY <1>2 DEF CheckinBody, Answers, Abort, Stage, Refuse, TypeOK
<1>4. c \in out
  BY <1>3, ClosedIsOpen DEF TypeOK
<1>5. ~CheckinExists(db, c)
  BY <1>4 DEF OpenCheckouts, CheckinExists, Trail, Returned
<1>. QED
  BY <1>1, <1>3, <1>4, <1>5

\* The ledger's invariant holds of the tables the workers commit.
LEMMA WorkersKeepLedger == Spec => []LedgerInvariant
BY WorkersImplementLedger, LedgerInductive, PTL DEF ImplementsLedger

\* Under the lock the handlers check all that the trigger and the indexes check
\* (application.py:194-207, 240-249 and 279-281), except that checkins.booking_id
\* may not be NULL.
THEOREM WorkersMeetNoConstraint == Spec => ConstraintsAreABackstop
<1>1. ASSUME TypeOK, TransactionsAreAtomic, LedgerInvariant, [Next]_vars
      PROVE  [\A w \in Workers :
                Answers(w, "constraint") =>
                  /\ req[w].op = "checkin"
                  /\ \E c \in OpenCheckouts(db, req[w].resource) : CheckinBookingIsNull(db, c)]_vars
  <2>1. Trail(db)
    BY <1>1 DEF LedgerInvariant
  <2>. QED
    BY <1>1, <2>1, WhoMeetsConstraints, TriggerIsQuiet, CheckoutIndexesAreQuiet,
       CheckinMeetsNotNull
<1>. QED
  BY <1>1, Inductive, WorkersKeepLedger, PTL DEF Spec, ConstraintsAreABackstop

-----------------------------------------------------------------------------
(* Acknowledgements.                                                       *)

\* The tables d hold what request q asked for, in row id.
RowMade(d, q, id) ==
  /\ q.op = "book" =>
       /\ id \in DOMAIN d.bookings
       /\ d.bookings[id].owner = q.user /\ d.bookings[id].resource = q.resource
       /\ d.bookings[id].start = q.window[1] /\ d.bookings[id].end = q.window[2]
  /\ q.op = "checkout" =>
       /\ id \in DOMAIN d.checkouts
       /\ d.checkouts[id].user = q.user /\ d.checkouts[id].resource = q.resource
  /\ q.op = "checkin" =>
       /\ id \in DOMAIN d.checkins
       /\ d.checkins[id].user = q.user
       /\ d.checkins[id].checkout \in DOMAIN d.checkouts
       /\ ~d.checkouts[d.checkins[id].checkout].open
       /\ d.checkouts[d.checkins[id].checkout].resource = q.resource

\* And say so in the audit log.
Recorded(d, q, id) ==
  /\ RowMade(d, q, id)
  /\ \E i \in DOMAIN d.audit :
       d.audit[i] = [actor |-> q.user, action |-> AuditAction(q.op), id |-> id]

\* What worker w has made of its request, from its first write to its answer.
Delivers(w) ==
  /\ pc[w] = "audit" => RowMade(work, req[w], rowid[w])
  /\ pc[w] = "commit" => Recorded(work, req[w], rowid[w])
  /\ pc[w] = "done" /\ reply[w] = "ok" =>
       req[w] \in Requests /\ Recorded(db, req[w], rowid[w])

\* What makes AcknowledgedIsRecorded inductive.
Delivery == \A w \in Workers : Delivers(w)

\* What is recorded stays recorded, whatever other workers commit.
LEMMA RecordedStays ==
  ASSUME NEW d \in Database, NEW e, LedgerStep(d, e), NEW q, NEW id, Recorded(d, q, id)
  PROVE  Recorded(e, q, id)
<1>1. HistoryKept(d, e)
  BY HistoryStep
<1>2. \A k \in DOMAIN d.bookings : d.bookings[k] \in BookingRows
  BY DatabaseFields
<1>3. e \in Database
  BY LedgerStepKeeps
<1>4. \A k \in DOMAIN e.bookings : e.bookings[k] \in BookingRows
  BY <1>3, DatabaseFields
<1>5. \A k \in DOMAIN d.bookings :
        /\ k \in DOMAIN e.bookings
        /\ e.bookings[k].owner = d.bookings[k].owner
        /\ e.bookings[k].resource = d.bookings[k].resource
        /\ e.bookings[k].start = d.bookings[k].start
        /\ e.bookings[k].end = d.bookings[k].end
  <2>. SUFFICES ASSUME NEW k \in DOMAIN d.bookings
                PROVE  /\ k \in DOMAIN e.bookings
                       /\ e.bookings[k].owner = d.bookings[k].owner
                       /\ e.bookings[k].resource = d.bookings[k].resource
                       /\ e.bookings[k].start = d.bookings[k].start
                       /\ e.bookings[k].end = d.bookings[k].end
    OBVIOUS
  <2>. DEFINE x == d.bookings[k]
              y == e.bookings[k]
  <2>1. /\ k \in DOMAIN e.bookings /\ x \in BookingRows /\ y \in BookingRows
        /\ [y EXCEPT !.status = "confirmed"] = [x EXCEPT !.status = "confirmed"]
    BY <1>1, <1>2, <1>4 DEF HistoryKept
  <2>. HIDE DEF x, y
  <2>2. /\ [y EXCEPT !.status = "confirmed"].owner = y.owner
        /\ [x EXCEPT !.status = "confirmed"].owner = x.owner
        /\ [y EXCEPT !.status = "confirmed"].resource = y.resource
        /\ [x EXCEPT !.status = "confirmed"].resource = x.resource
        /\ [y EXCEPT !.status = "confirmed"].start = y.start
        /\ [x EXCEPT !.status = "confirmed"].start = x.start
        /\ [y EXCEPT !.status = "confirmed"].end = y.end
        /\ [x EXCEPT !.status = "confirmed"].end = x.end
    BY <2>1 DEF BookingRows
  <2>3. x.owner = y.owner /\ x.resource = y.resource /\ x.start = y.start /\ x.end = y.end
    BY <2>1, <2>2
  <2>. QED
    BY <2>1, <2>3 DEF x, y
<1>6. \A c \in DOMAIN d.checkouts :
        /\ c \in DOMAIN e.checkouts
        /\ e.checkouts[c].user = d.checkouts[c].user
        /\ e.checkouts[c].resource = d.checkouts[c].resource
        /\ ~d.checkouts[c].open => ~e.checkouts[c].open
  <2>1. \A c \in DOMAIN d.checkouts : d.checkouts[c] \in CheckoutRows
    BY DatabaseFields
  <2>. QED
    BY <1>1, <2>1 DEF HistoryKept, CheckoutRows
<1>7. \A i \in DOMAIN d.checkins : i \in DOMAIN e.checkins /\ e.checkins[i] = d.checkins[i]
  BY CheckinsStay
<1>8. \A i \in DOMAIN d.audit : i \in DOMAIN e.audit /\ e.audit[i] = d.audit[i]
  BY <1>1 DEF HistoryKept
<1>9. RowMade(e, q, id)
  BY <1>5, <1>6, <1>7 DEF Recorded, RowMade
<1>. QED
  BY <1>8, <1>9 DEF Recorded

\* What each handler stages is the row its request asked for.
LEMMA BookMakes ==
  ASSUME TypeOK, TransactionsAreAtomic, NEW w \in Workers, BookBody(w), pc'[w] = "audit"
  PROVE  RowMade(work', req'[w], rowid'[w])
<1>. DEFINE q == req[w]
            new == [resource |-> q.resource, owner |-> q.user, start |-> q.window[1],
                    end |-> q.window[2], status |-> "confirmed"]
            id == Len(work.bookings) + 1
<1>1. pc[w] = "body" /\ q.op = "book"
  BY DEF BookBody, Serving
<1>2. q \in Requests /\ q.user \in Users /\ work \in Database
  BY <1>1, InBody DEF TypeOK
<1>3. work' = InsertBooking(work, new) /\ rowid'[w] = id /\ req' = req
  BY DEF BookBody, Abort, Refuse, Stage, Goto, TypeOK
<1>4. /\ new \in BookingRows
      /\ new.owner = q.user /\ new.resource = q.resource
      /\ new.start = q.window[1] /\ new.end = q.window[2]
  BY <1>1, <1>2, RequestFields DEF BookingRows
<1>5. work'.bookings = Append(work.bookings, new) /\ work.bookings \in Seq(BookingRows)
  BY <1>2, <1>3, DatabaseFields DEF InsertBooking, Database
<1>. HIDE DEF new
<1>6. id \in DOMAIN work'.bookings /\ work'.bookings[id] = new
  BY <1>4, <1>5, AppendedRow
<1>. QED
  BY <1>1, <1>3, <1>4, <1>6 DEF RowMade

LEMMA CheckoutMakes ==
  ASSUME TypeOK, TransactionsAreAtomic, NEW w \in Workers, CheckoutBody(w), pc'[w] = "audit"
  PROVE  RowMade(work', req'[w], rowid'[w])
<1>. DEFINE q == req[w]
            active == ActiveBookings(work, q.user, q.resource, now)
            k == IF active = {} THEN NoBooking ELSE FirstToStart(work, active)
            new == [resource |-> q.resource, booking |-> k, user |-> q.user, open |-> TRUE]
            id == Len(work.checkouts) + 1
<1>1. pc[w] = "body" /\ q.op = "checkout"
  BY DEF CheckoutBody, Serving
<1>2. q \in Requests /\ q.user \in Users /\ work \in Database
  BY <1>1, InBody DEF TypeOK
<1>3. work' = InsertCheckout(work, new) /\ rowid'[w] = id /\ req' = req
  BY DEF CheckoutBody, Abort, Refuse, Stage, Goto, TypeOK
<1>4. k \in Nat
  <2>1. active \in SUBSET DOMAIN work.bookings /\ DOMAIN work.bookings \subseteq Nat
    BY <1>2, DatabaseFields DEF ActiveBookings
  <2>. QED
    BY <1>2, <2>1, FirstToStartIsOne DEF NoBooking
<1>. HIDE DEF k
<1>5. new \in CheckoutRows /\ new.user = q.user /\ new.resource = q.resource
  BY <1>1, <1>2, <1>4, RequestFields DEF CheckoutRows
<1>6. work'.checkouts = Append(work.checkouts, new) /\ work.checkouts \in Seq(CheckoutRows)
  BY <1>2, <1>3, DatabaseFields DEF InsertCheckout, Database
<1>. HIDE DEF new
<1>7. id \in DOMAIN work'.checkouts /\ work'.checkouts[id] = new
  BY <1>5, <1>6, AppendedRow
<1>. QED
  BY <1>1, <1>3, <1>5, <1>7 DEF RowMade

LEMMA CheckinMakes ==
  ASSUME TypeOK, TransactionsAreAtomic, NEW w \in Workers, CheckinBody(w), pc'[w] = "audit"
  PROVE  RowMade(work', req'[w], rowid'[w])
<1>. DEFINE q == req[w]
            c == CheckoutToClose(work, q.resource)
            new == [checkout |-> c, user |-> q.user, damaged |-> q.damaged]
            id == Len(work.checkins) + 1
<1>1. pc[w] = "body" /\ q.op = "checkin"
  BY DEF CheckinBody, Serving
<1>2. q \in Requests /\ q.user \in Users /\ q.damaged \in BOOLEAN /\ work \in Database
  BY <1>1, InBody, RequestFields DEF TypeOK
<1>3. /\ OpenCheckouts(work, q.resource) # {}
      /\ work' = ReturnCheckout(work, c, q.user, q.damaged) /\ rowid'[w] = id /\ req' = req
  BY DEF CheckinBody, Abort, Refuse, Stage, Goto, TypeOK
<1>4. c \in DOMAIN work.checkouts /\ work.checkouts[c].resource = q.resource
  BY <1>2, <1>3, ClosedIsOpen DEF OpenCheckouts
<1>5. work.checkins \in Seq(CheckinRows) /\ work.checkouts \in Seq(CheckoutRows)
  BY <1>2, DatabaseFields
<1>. HIDE DEF c
<1>6. /\ work'.checkins = Append(work.checkins, new)
      /\ work'.checkouts = [work.checkouts EXCEPT ![c].open = FALSE]
  BY <1>3 DEF ReturnCheckout
<1>7. new \in CheckinRows /\ new.user = q.user /\ new.checkout = c
  BY <1>2, <1>4, <1>5 DEF CheckinRows
<1>. HIDE DEF new
<1>8. id \in DOMAIN work'.checkins /\ work'.checkins[id] = new
  BY <1>5, <1>6, <1>7, AppendedRow
<1>9. /\ c \in DOMAIN work'.checkouts /\ ~work'.checkouts[c].open
      /\ work'.checkouts[c].resource = q.resource
  <2>1. work.checkouts[c] \in CheckoutRows
    BY <1>4, <1>5
  <2>. QED
    BY <1>4, <1>6, <2>1 DEF CheckoutRows
<1>. QED
  BY <1>1, <1>3, <1>7, <1>8, <1>9 DEF RowMade

\* The audit row leaves the staged row alone and names it.
LEMMA AuditMakes ==
  ASSUME TypeOK, TransactionsAreAtomic, NEW w \in Workers, Audit(w),
         RowMade(work, req[w], rowid[w])
  PROVE  Recorded(work', req'[w], rowid'[w])
<1>. DEFINE a == [actor |-> req[w].user, action |-> AuditAction(req[w].op), id |-> rowid[w]]
<1>1. pc[w] = "audit" /\ req' = req /\ rowid' = rowid /\ work \in Database
  BY DEF Audit, TypeOK
<1>2. /\ work'.bookings = work.bookings /\ work'.checkouts = work.checkouts
      /\ work'.checkins = work.checkins /\ work'.audit = Append(work.audit, a)
  BY <1>1 DEF Audit, InsertAudit, Database
<1>3. a \in AuditRows
  <2>1. req[w].user \in Users /\ rowid[w] \in Nat
    BY <1>1 DEF TransactionsAreAtomic, AuthorizationHolds, InTransaction, TypeOK
  <2>. QED
    BY <2>1, AuditActionType DEF AuditRows
<1>4. work.audit \in Seq(AuditRows)
  BY <1>1, DatabaseFields
<1>. HIDE DEF a
<1>5. \E i \in DOMAIN work'.audit : work'.audit[i] = a
  BY <1>2, <1>3, <1>4, AppendedRow
<1>6. RowMade(work', req[w], rowid[w])
  BY <1>2 DEF RowMade
<1>. QED
  BY <1>1, <1>5, <1>6 DEF Recorded, a

\* Every step keeps its worker's delivery and the others'.
LEMMA DeliveryStep ==
  ASSUME TypeOK, TransactionsAreAtomic, Delivery, [Next]_vars
  PROVE  Delivery'
<1>1. CASE UNCHANGED vars \/ Tick
  BY <1>1 DEF Delivery, Delivers, vars, Tick
<1>2. ASSUME NEW w \in Workers, Receive(w) \/ Handle(w) \/ Crash(w), NEW v \in Workers
      PROVE  Delivers(v)'
  <2>1. Delivers(v) /\ LockDiscipline
    BY DEF Delivery, TransactionsAreAtomic
  <2>2. CASE v # w
    <3>1. /\ pc'[v] = pc[v] /\ req'[v] = req[v] /\ rowid'[v] = rowid[v]
          /\ pc[v] \in InTransaction => work' = work
      BY <1>2, <2>1, <2>2, OthersUndisturbed
    <3>2. reply'[v] = reply[v]
      BY <1>2, <2>2, ReplyIsOwn DEF TypeOK
    <3>3. Recorded(db, req[v], rowid[v]) => Recorded(db', req[v], rowid[v])
      BY TablesStep, RecordedStays DEF TypeOK
    <3>. QED
      BY <2>1, <3>1, <3>2, <3>3 DEF Delivers, InTransaction
  <2>3. CASE v = w
    <3>1. CASE Audit(w)
      <4>1. pc[w] = "audit" /\ pc'[w] = "commit"
        BY <3>1 DEF Audit, Goto, TypeOK
      <4>2. Recorded(work', req'[w], rowid'[w])
        BY <2>1, <2>3, <3>1, <4>1, AuditMakes DEF Delivers
      <4>. QED
        BY <2>3, <4>1, <4>2 DEF Delivers
    <3>2. CASE Commit(w)
      <4>1. /\ pc[w] = "commit" /\ pc'[w] = "done" /\ db' = work
            /\ req' = req /\ rowid' = rowid
        BY <3>2 DEF Commit, Goto, TypeOK
      <4>2. req[w] \in Requests
        BY <4>1 DEF TransactionsAreAtomic, AuthorizationHolds, InTransaction
      <4>. QED
        BY <2>1, <2>3, <4>1, <4>2 DEF Delivers
    <3>3. CASE BookBody(w) \/ CancelBody(w) \/ CheckoutBody(w) \/ CheckinBody(w)
      <4>1. pc'[w] = "audit" \/ (pc'[w] = "done" /\ reply'[w] # "ok")
        BY <3>3 DEF BookBody, CancelBody, CheckoutBody, CheckinBody, Abort, Refuse, Stage, Goto,
                    TypeOK
      <4>2. CancelBody(w) => RowMade(work', req'[w], rowid'[w])
        BY DEF CancelBody, Serving, Stage, RowMade
      <4>3. pc'[w] = "audit" => RowMade(work', req'[w], rowid'[w])
        BY <3>3, <4>2, BookMakes, CheckoutMakes, CheckinMakes
      <4>. QED
        BY <2>3, <4>1, <4>3 DEF Delivers
    <3>4. CASE ReadForBook(w) \/ ReadForCancel(w) \/ ReadForCheckout(w) \/ ReadForCheckin(w)
      <4>1. pc'[w] = "begin" \/ (pc'[w] = "done" /\ reply'[w] # "ok")
        BY <3>4 DEF ReadForBook, ReadForCancel, ReadForCheckout, ReadForCheckin, Answer, Refuse,
                    Proceed, Goto, TypeOK
      <4>. QED
        BY <2>3, <4>1 DEF Delivers
    <3>5. CASE Receive(w) \/ Begin(w) \/ Busy(w) \/ Fail(w) \/ Respond(w) \/ Crash(w)
      <4>1. pc'[w] \in {"read", "body", "idle"} \/ (pc'[w] = "done" /\ reply'[w] # "ok")
        BY <3>5 DEF Receive, Begin, Busy, Fail, Respond, Crash, Abort, Answer, Refuse, Goto, TypeOK
      <4>. QED
        BY <2>3, <4>1 DEF Delivers
    <3>. QED
      BY <1>2, <3>1, <3>2, <3>3, <3>4, <3>5 DEF Handle
  <2>. QED
    BY <2>2, <2>3
<1>. QED
  BY <1>1, <1>2 DEF Next, Delivery

\* A success is only answered for what is committed, exactly as it was asked for,
\* and stays so while the answer is on its way (application.py:206-210, 245-253,
\* 281-283 and 298-300).
THEOREM WorkersRecordWhatTheyAcknowledge == Spec => []AcknowledgedIsRecorded
<1>1. Init => Delivery
  BY DEF Init, Delivery, Delivers
<1>2. TypeOK /\ TransactionsAreAtomic /\ Delivery /\ [Next]_vars => Delivery'
  BY DeliveryStep
<1>3. Delivery => AcknowledgedIsRecorded
  <2>. SUFFICES ASSUME Delivery, NEW w \in Workers, pc[w] = "done", reply[w] = "ok"
                PROVE  LET q == req[w]
                           id == rowid[w]
                       IN /\ \E i \in DOMAIN db.audit :
                               db.audit[i] = [actor |-> q.user, action |-> AuditAction(q.op),
                                              id |-> id]
                          /\ q.op = "book" =>
                               /\ db.bookings[id].owner = q.user
                               /\ db.bookings[id].resource = q.resource
                               /\ <<db.bookings[id].start, db.bookings[id].end>> = q.window
                          /\ q.op = "checkout" =>
                               /\ db.checkouts[id].user = q.user
                               /\ db.checkouts[id].resource = q.resource
                          /\ q.op = "checkin" =>
                               LET c == db.checkins[id].checkout IN
                               /\ db.checkins[id].user = q.user /\ ~db.checkouts[c].open
                               /\ db.checkouts[c].resource = q.resource
    BY DEF AcknowledgedIsRecorded
  <2>1. req[w] \in Requests /\ Recorded(db, req[w], rowid[w])
    BY DEF Delivery, Delivers
  <2>2. req[w].op = "book" => <<req[w].window[1], req[w].window[2]>> = req[w].window
    <3>1. req[w].op = "book" => req[w].window \in Nat \X Nat
      BY <2>1, RequestFields, ClockAssumption
    <3>. QED
      BY <3>1
  <2>. QED
    BY <2>1, <2>2 DEF Recorded, RowMade
<1>. QED
  BY <1>1, <1>2, <1>3, Inductive, PTL DEF Spec

=============================================================================
