----------------------- MODULE ReservationLedgerProofs -----------------------
(***************************************************************************)
(* What the statements of PlatformTables do to the types of the tables,    *)
(* facts about single ledger steps, and the invariants every sequence of   *)
(* them keeps.                                                             *)
(***************************************************************************)
EXTENDS ReservationLedger, SequenceTheorems, WellFoundedInduction, TLAPS

-----------------------------------------------------------------------------
(* Statements. *)

\* The fields of a database, one by one.
LEMMA DatabaseFields ==
  ASSUME NEW d \in Database
  PROVE  /\ d.status \in [Resources -> Statuses]
         /\ d.bookings \in Seq(BookingRows)
         /\ d.checkouts \in Seq(CheckoutRows)
         /\ d.checkins \in Seq(CheckinRows)
         /\ d.audit \in Seq(AuditRows)
BY DEF Database

\* Inserting a booking keeps the tables well typed.
LEMMA InsertBookingType ==
  ASSUME NEW d \in Database, NEW new \in BookingRows
  PROVE  InsertBooking(d, new) \in Database
<1>1. Append(d.bookings, new) \in Seq(BookingRows)
  BY DatabaseFields, AppendProperties
<1>. QED
  BY <1>1 DEF Database, InsertBooking

\* Cancelling a booking keeps the tables well typed, and the ids of the bookings.
LEMMA CancelBookingType ==
  ASSUME NEW d \in Database, NEW k \in Nat
  PROVE  /\ CancelBooking(d, k) \in Database
         /\ DOMAIN CancelBooking(d, k).bookings = DOMAIN d.bookings
<1>. DEFINE cancelled == [d.bookings EXCEPT ![k].status = "cancelled"]
<1>1. d.bookings \in Seq(BookingRows)
  BY DatabaseFields
<1>2. cancelled \in Seq(BookingRows) /\ DOMAIN cancelled = DOMAIN d.bookings
  <2>1. CASE k \in DOMAIN d.bookings
    <3>1. d.bookings[k] \in BookingRows
      BY <1>1, <2>1
    <3>2. [d.bookings[k] EXCEPT !.status = "cancelled"] \in BookingRows
      BY <3>1 DEF BookingRows
    <3>. QED
      BY <1>1, <2>1, <3>2, ExceptSeq
  <2>2. CASE k \notin DOMAIN d.bookings
    <3>1. cancelled = d.bookings
      BY <1>1, <2>2
    <3>. QED
      BY <3>1, <1>1
  <2>. QED
    BY <2>1, <2>2
<1>. QED
  BY <1>2 DEF Database, CancelBooking

\* Inserting a checkout keeps the tables well typed.
LEMMA InsertCheckoutType ==
  ASSUME NEW d \in Database, NEW new \in CheckoutRows
  PROVE  InsertCheckout(d, new) \in Database
<1>1. new.resource \in Resources
  BY DEF CheckoutRows
<1>2. [d.status EXCEPT ![new.resource] = "checked_out"] \in [Resources -> Statuses]
  BY <1>1, DatabaseFields DEF Statuses
<1>3. Append(d.checkouts, new) \in Seq(CheckoutRows)
  BY DatabaseFields
<1>. QED
  BY <1>2, <1>3 DEF Database, InsertCheckout

\* Returning a checkout keeps the tables well typed.
LEMMA ReturnCheckoutType ==
  ASSUME NEW d \in Database, NEW c \in DOMAIN d.checkouts, NEW u \in Users,
         NEW damaged \in BOOLEAN
  PROVE  ReturnCheckout(d, c, u, damaged) \in Database
<1>. DEFINE status == [d.status EXCEPT ![d.checkouts[c].resource] =
                         IF damaged THEN "damaged" ELSE "available"]
            Completed(k) == [d.bookings[k] EXCEPT !.status = "completed"]
            bookings == [k \in DOMAIN d.bookings |->
                           IF k = d.checkouts[c].booking THEN Completed(k) ELSE d.bookings[k]]
            checkouts == [d.checkouts EXCEPT ![c].open = FALSE]
            checkins == Append(d.checkins, [checkout |-> c, user |-> u, damaged |-> damaged])
<1>1. d.checkouts[c] \in CheckoutRows
  BY DatabaseFields
<1>2. status \in [Resources -> Statuses]
  BY <1>1, DatabaseFields DEF Statuses, CheckoutRows
<1>3. bookings \in Seq(BookingRows)
  <2>1. d.bookings \in Seq(BookingRows)
    BY DatabaseFields
  <2>2. ASSUME NEW k \in DOMAIN d.bookings
        PROVE  d.bookings[k] \in BookingRows /\ Completed(k) \in BookingRows
    <3>1. d.bookings[k] \in BookingRows
      BY <2>1
    <3>2. Completed(k) \in BookingRows
      BY <3>1 DEF BookingRows
    <3>. QED
      BY <3>1, <3>2
  <2>3. DOMAIN d.bookings = 1..Len(d.bookings) /\ Len(d.bookings) \in Nat
    BY <2>1
  <2>. QED
    BY <2>2, <2>3, <2>1
<1>4. checkouts \in Seq(CheckoutRows)
  <2>1. [d.checkouts[c] EXCEPT !.open = FALSE] \in CheckoutRows
    BY <1>1 DEF CheckoutRows
  <2>2. d.checkouts \in Seq(CheckoutRows) /\ c \in 1..Len(d.checkouts)
    BY DatabaseFields
  <2>. QED
    BY <2>1, <2>2, ExceptSeq
<1>5. checkins \in Seq(CheckinRows)
  <2>1. c \in Nat
    BY DatabaseFields
  <2>2. [checkout |-> c, user |-> u, damaged |-> damaged] \in CheckinRows
    BY <2>1 DEF CheckinRows
  <2>. QED
    BY <2>2, DatabaseFields, AppendProperties
<1>. QED
  BY <1>2, <1>3, <1>4, <1>5, DatabaseFields DEF Database, ReturnCheckout

\* Writing an audit row keeps the tables well typed.
LEMMA InsertAuditType ==
  ASSUME NEW d \in Database, NEW actor \in Users, NEW action \in AuditActions, NEW id \in Nat
  PROVE  InsertAudit(d, actor, action, id) \in Database
<1>1. [actor |-> actor, action |-> action, id |-> id] \in AuditRows
  BY DEF AuditRows
<1>2. Append(d.audit, [actor |-> actor, action |-> action, id |-> id]) \in Seq(AuditRows)
  BY <1>1, DatabaseFields, AppendProperties
<1>. QED
  BY <1>2 DEF Database, InsertAudit

-----------------------------------------------------------------------------
\* Natural numbers have a least one.
LEMMA LeastNatural ==
  ASSUME NEW T \in SUBSET Nat, T # {}
  PROVE  \E x \in T : \A y \in T : x <= y
<1>. DEFINE less == {ss \in Nat \X Nat : ss[1] < ss[2]}
<1>1. IsWellFoundedOn(less, Nat)
  BY NatLessThanWellFounded DEF OpToRel
<1>. HIDE DEF less
<1>2. PICK x \in T : \A y \in T : ~(<<y, x>> \in less)
  BY <1>1, WFMin
<1>3. \A y \in T : ~(y < x)
  BY <1>2 DEF less
<1>. QED
  BY <1>3

\* The checkout a check-in closes is one of those that are open.
LEMMA ClosedIsOpen ==
  ASSUME NEW d \in Database, NEW r, OpenCheckouts(d, r) # {}
  PROVE  CheckoutToClose(d, r) \in OpenCheckouts(d, r)
<1>1. OpenCheckouts(d, r) \in SUBSET Nat
  BY DatabaseFields DEF OpenCheckouts
<1>2. \E c \in OpenCheckouts(d, r) : \A j \in OpenCheckouts(d, r) : c <= j
  BY <1>1, LeastNatural
<1>. QED
  BY <1>2, Zenon DEF CheckoutToClose

\* The query's ORDER BY ... LIMIT 1 returns one of the rows it selected.
LEMMA FirstToStartIsOne ==
  ASSUME NEW d \in Database, NEW ks \in SUBSET DOMAIN d.bookings, ks # {}
  PROVE  FirstToStart(d, ks) \in ks
<1>. DEFINE starts == {d.bookings[k].start : k \in ks}
<1>1. \A k \in ks : d.bookings[k] \in BookingRows
  BY DatabaseFields
<1>2. starts \in SUBSET Nat /\ starts # {}
  BY <1>1 DEF BookingRows
<1>3. PICK x \in starts : \A y \in starts : x <= y
  BY <1>2, LeastNatural
<1>4. \E k \in ks : \A j \in ks : d.bookings[k].start <= d.bookings[j].start
  BY <1>3
<1>. QED
  BY <1>4 DEF FirstToStart

\* The empty tables the service starts with.
LEMMA InitialType == ASSUME NEW d \in InitialDatabases PROVE d \in Database
<1>1. /\ <<>> \in Seq(BookingRows) /\ <<>> \in Seq(CheckoutRows)
      /\ <<>> \in Seq(CheckinRows) /\ <<>> \in Seq(AuditRows)
  OBVIOUS
<1>2. [Resources -> InitialStatuses] \subseteq [Resources -> Statuses]
  BY StatusAssumption
<1>. QED
  BY <1>1, <1>2 DEF InitialDatabases, Database

-----------------------------------------------------------------------------
(* Steps. *)

\* A booking keeps its id, its owner and its resource.
SameBookings(d, e) ==
  \A k \in DOMAIN d.bookings :
    /\ k \in DOMAIN e.bookings
    /\ e.bookings[k].owner = d.bookings[k].owner
    /\ e.bookings[k].resource = d.bookings[k].resource

\* A new booking leaves the others alone.
LEMMA BookKeeps ==
  ASSUME NEW d \in Database, NEW u \in Users, NEW r \in Resources,
         NEW start \in Nat, NEW end \in Nat, NEW e, Book(d, e, u, r, start, end)
  PROVE  e \in Database /\ SameBookings(d, e)
<1>. DEFINE new == [resource |-> r, owner |-> u, start |-> start, end |-> end,
                    status |-> "confirmed"]
            f == InsertBooking(d, new)
<1>1. new \in BookingRows
  BY DEF BookingRows
<1>2. f \in Database /\ f.bookings = Append(d.bookings, new)
  BY <1>1, InsertBookingType DEF InsertBooking, Database
<1>3. d.bookings \in Seq(BookingRows) /\ Len(d.bookings) + 1 \in Nat
  BY DatabaseFields
<1>4. e = InsertAudit(f, u, "booking.create", Len(d.bookings) + 1)
  BY DEF Book
<1>5. e \in Database /\ e.bookings = f.bookings
  BY <1>2, <1>3, <1>4, InsertAuditType DEF InsertAudit, AuditActions, Database
<1>. QED
  BY <1>1, <1>2, <1>3, <1>5, AppendProperties DEF SameBookings

\* A cancellation changes one status and no owner.
LEMMA CancelKeeps ==
  ASSUME NEW d \in Database, NEW u \in Users, NEW k \in DOMAIN d.bookings,
         NEW e, Cancel(d, e, u, k)
  PROVE  e \in Database /\ SameBookings(d, e)
<1>. DEFINE f == CancelBooking(d, k)
<1>1. d.bookings \in Seq(BookingRows) /\ k \in Nat
  BY DatabaseFields
<1>2. f \in Database /\ f.bookings = [d.bookings EXCEPT ![k].status = "cancelled"]
  BY <1>1, CancelBookingType DEF CancelBooking, Database
<1>3. e = InsertAudit(f, u, "booking.cancel", k)
  BY DEF Cancel
<1>4. e \in Database /\ e.bookings = f.bookings
  BY <1>1, <1>2, <1>3, InsertAuditType DEF InsertAudit, AuditActions, Database
<1>5. \A j \in DOMAIN d.bookings : d.bookings[j] \in BookingRows
  BY <1>1
<1>. QED
  BY <1>1, <1>2, <1>4, <1>5 DEF SameBookings, BookingRows

\* A checkout leaves the bookings alone.
LEMMA CheckOutKeeps ==
  ASSUME NEW d \in Database, NEW u \in Users, NEW r \in Resources,
         NEW k \in {NoBooking} \cup DOMAIN d.bookings, NEW e, CheckOut(d, e, u, r, k)
  PROVE  e \in Database /\ SameBookings(d, e)
<1>. DEFINE new == [resource |-> r, booking |-> k, user |-> u, open |-> TRUE]
            f == InsertCheckout(d, new)
<1>1. new \in CheckoutRows
  BY DatabaseFields DEF CheckoutRows, NoBooking
<1>2. f \in Database /\ f.bookings = d.bookings
  BY <1>1, InsertCheckoutType DEF InsertCheckout, Database
<1>3. Len(d.checkouts) + 1 \in Nat
  BY DatabaseFields
<1>4. e = InsertAudit(f, u, "checkout.create", Len(d.checkouts) + 1)
  BY DEF CheckOut
<1>5. e \in Database /\ e.bookings = f.bookings
  BY <1>2, <1>3, <1>4, InsertAuditType DEF InsertAudit, AuditActions, Database
<1>. QED
  BY <1>2, <1>5 DEF SameBookings

\* A return changes one status and no owner.
LEMMA CheckInKeeps ==
  ASSUME NEW d \in Database, NEW u \in Users, NEW c \in DOMAIN d.checkouts,
         NEW damaged \in BOOLEAN, NEW e, CheckIn(d, e, u, c, damaged)
  PROVE  e \in Database /\ SameBookings(d, e)
<1>. DEFINE f == ReturnCheckout(d, c, u, damaged)
<1>1. f \in Database
  BY ReturnCheckoutType
<1>2. SameBookings(d, f)
  <2>1. \A j \in DOMAIN d.bookings : d.bookings[j] \in BookingRows
    BY DatabaseFields
  <2>. QED
    BY <2>1 DEF SameBookings, ReturnCheckout, BookingRows
<1>3. Len(d.checkins) + 1 \in Nat
  BY DatabaseFields
<1>4. e = InsertAudit(f, u, "checkin.create", Len(d.checkins) + 1)
  BY DEF CheckIn
<1>5. e \in Database /\ e.bookings = f.bookings
  BY <1>1, <1>3, <1>4, InsertAuditType DEF InsertAudit, AuditActions, Database
<1>. QED
  BY <1>2, <1>5 DEF SameBookings

\* Every ledger step keeps the types, and the identity of every booking.
LEMMA LedgerStepKeeps ==
  ASSUME NEW d \in Database, NEW e, LedgerStep(d, e)
  PROVE  e \in Database /\ SameBookings(d, e)
<1>1. \A win \in Windows : win[1] \in Nat /\ win[2] \in Nat
  BY ClockAssumption
<1>2. PICK u \in Users :
        \/ \E r \in Resources, win \in Windows : Book(d, e, u, r, win[1], win[2])
        \/ \E k \in DOMAIN d.bookings : Cancel(d, e, u, k)
        \/ \E r \in Resources, k \in {NoBooking} \cup DOMAIN d.bookings : CheckOut(d, e, u, r, k)
        \/ \E c \in DOMAIN d.checkouts, damaged \in BOOLEAN : CheckIn(d, e, u, c, damaged)
  BY DEF LedgerStep
<1>. QED
  BY <1>1, <1>2, BookKeeps, CancelKeeps, CheckOutKeeps, CheckInKeeps

-----------------------------------------------------------------------------
(* The tables as a step leaves them. *)

\* Where each table goes.
LEMMA BookTables ==
  ASSUME NEW d \in Database, NEW u \in Users, NEW r \in Resources,
         NEW start \in Nat, NEW end \in Nat, NEW e, Book(d, e, u, r, start, end)
  PROVE  e.bookings = Append(d.bookings, [resource |-> r, owner |-> u, start |-> start,
                                          end |-> end, status |-> "confirmed"])
BY DEF Book, InsertAudit, InsertBooking, Database

LEMMA CancelTables ==
  ASSUME NEW d \in Database, NEW u \in Users, NEW k \in DOMAIN d.bookings,
         NEW e, Cancel(d, e, u, k)
  PROVE  e.bookings = [d.bookings EXCEPT ![k].status = "cancelled"]
BY DEF Cancel, InsertAudit, CancelBooking, Database

-----------------------------------------------------------------------------
(* No double booking. *)

\* A confirmed booking after the step was confirmed before it, for the same slot,
\* or is the new one and its slot was free.
SlotsKept(d, e) ==
  \A k \in DOMAIN e.bookings :
    e.bookings[k].status = "confirmed" =>
      \/ /\ k \in DOMAIN d.bookings
         /\ d.bookings[k].status = "confirmed"
         /\ d.bookings[k].resource = e.bookings[k].resource
         /\ d.bookings[k].start = e.bookings[k].start
         /\ d.bookings[k].end = e.bookings[k].end
      \/ /\ k = Len(d.bookings) + 1
         /\ ~ConflictingBooking(d, e.bookings[k].resource, e.bookings[k].start, e.bookings[k].end)

LEMMA LedgerStepKeepsSlots ==
  ASSUME NEW d \in Database, NEW e, LedgerStep(d, e)
  PROVE  SlotsKept(d, e)
<1>0. /\ d.bookings \in Seq(BookingRows)
      /\ \A k \in DOMAIN d.bookings : d.bookings[k] \in BookingRows
      /\ DOMAIN d.bookings \subseteq Nat
  BY DatabaseFields
<1>1. ASSUME NEW u \in Users, NEW r \in Resources, NEW win \in Windows,
             Book(d, e, u, r, win[1], win[2])
      PROVE  SlotsKept(d, e)
  <2>. DEFINE new == [resource |-> r, owner |-> u, start |-> win[1], end |-> win[2],
                      status |-> "confirmed"]
  <2>1. win[1] \in Nat /\ win[2] \in Nat
    BY ClockAssumption
  <2>2. new \in BookingRows
    BY <2>1 DEF BookingRows
  <2>3. e.bookings = Append(d.bookings, new)
    BY <1>1, <2>1, BookTables
  <2>4. /\ \A k \in DOMAIN e.bookings : k \in DOMAIN d.bookings \/ k = Len(d.bookings) + 1
        /\ \A k \in DOMAIN d.bookings : e.bookings[k] = d.bookings[k]
        /\ e.bookings[Len(d.bookings) + 1] = new
    BY <1>0, <2>2, <2>3, AppendProperties
  <2>5. ~ConflictingBooking(d, r, win[1], win[2])
    BY <1>1 DEF Book
  <2>. QED
    BY <2>4, <2>5 DEF SlotsKept
<1>2. ASSUME NEW u \in Users, NEW k \in DOMAIN d.bookings, Cancel(d, e, u, k)
      PROVE  SlotsKept(d, e)
  <2>1. e.bookings = [d.bookings EXCEPT ![k].status = "cancelled"]
    BY <1>2, CancelTables
  <2>. QED
    BY <1>0, <2>1 DEF SlotsKept, BookingRows
<1>3. ASSUME NEW u \in Users, NEW r \in Resources, NEW k, CheckOut(d, e, u, r, k)
      PROVE  SlotsKept(d, e)
  <2>1. e.bookings = d.bookings
    BY <1>3 DEF CheckOut, InsertAudit, InsertCheckout, Database
  <2>. QED
    BY <2>1 DEF SlotsKept
<1>4. ASSUME NEW u \in Users, NEW c \in DOMAIN d.checkouts, NEW damaged \in BOOLEAN,
             CheckIn(d, e, u, c, damaged)
      PROVE  SlotsKept(d, e)
  <2>1. /\ DOMAIN e.bookings = DOMAIN d.bookings
        /\ \A k \in DOMAIN d.bookings :
             e.bookings[k] = IF k = d.checkouts[c].booking
                               THEN [d.bookings[k] EXCEPT !.status = "completed"]
                               ELSE d.bookings[k]
    BY <1>4 DEF CheckIn, InsertAudit, ReturnCheckout, Database
  <2>. QED
    BY <1>0, <2>1 DEF SlotsKept, BookingRows
<1>. QED
  BY <1>1, <1>2, <1>3, <1>4 DEF LedgerStep

\* One step does not create a double booking.
LEMMA DoubleBookingStep ==
  ASSUME db \in Database, db' \in Database, NoDoubleBooking, LedgerStep(db, db')
  PROVE  NoDoubleBooking'
<1>1. SlotsKept(db, db')
  BY LedgerStepKeepsSlots
<1>2. \A k \in DOMAIN db'.bookings : db'.bookings[k].start \in Nat /\ db'.bookings[k].end \in Nat
  <2>1. \A k \in DOMAIN db'.bookings : db'.bookings[k] \in BookingRows
    BY DatabaseFields
  <2>. QED
    BY <2>1 DEF BookingRows
<1>3. DOMAIN db.bookings \subseteq 1..Len(db.bookings) /\ Len(db.bookings) \in Nat
  BY DatabaseFields
<1>4. SUFFICES ASSUME NEW j \in DOMAIN db'.bookings, NEW k \in DOMAIN db'.bookings, j # k,
                      db'.bookings[j].resource = db'.bookings[k].resource,
                      db'.bookings[j].status = "confirmed",
                      db'.bookings[k].status = "confirmed"
               PROVE  \/ db'.bookings[j].end <= db'.bookings[k].start
                      \/ db'.bookings[k].end <= db'.bookings[j].start
  BY DEF NoDoubleBooking
<1>. DEFINE Old(i) == /\ i \in DOMAIN db.bookings
                      /\ db.bookings[i].status = "confirmed"
                      /\ db.bookings[i].resource = db'.bookings[i].resource
                      /\ db.bookings[i].start = db'.bookings[i].start
                      /\ db.bookings[i].end = db'.bookings[i].end
            Fresh(i) == /\ i = Len(db.bookings) + 1
                        /\ ~ConflictingBooking(db, db'.bookings[i].resource,
                                               db'.bookings[i].start, db'.bookings[i].end)
<1>5. (Old(j) \/ Fresh(j)) /\ (Old(k) \/ Fresh(k))
  BY <1>1, <1>4 DEF SlotsKept
<1>6. CASE Old(j) /\ Old(k)
  BY <1>4, <1>6 DEF NoDoubleBooking
<1>7. CASE Old(j) /\ Fresh(k)
  BY <1>2, <1>4, <1>7 DEF ConflictingBooking, Overlaps
<1>8. CASE Fresh(j) /\ Old(k)
  BY <1>2, <1>4, <1>8 DEF ConflictingBooking, Overlaps
<1>. QED
  BY <1>4, <1>5, <1>6, <1>7, <1>8

-----------------------------------------------------------------------------
(* Custody. *)

\* Bookings and cancellations hand nothing over.
LEMMA BookHandsNothingOver ==
  ASSUME NEW d \in Database, NEW u \in Users, NEW r \in Resources,
         NEW start \in Nat, NEW end \in Nat, NEW e, Book(d, e, u, r, start, end)
  PROVE  e.status = d.status /\ \A x : OpenCheckouts(e, x) = OpenCheckouts(d, x)
<1>1. e.status = d.status /\ e.checkouts = d.checkouts
  BY DEF Book, InsertAudit, InsertBooking, Database
<1>. QED
  BY <1>1 DEF OpenCheckouts

LEMMA CancelHandsNothingOver ==
  ASSUME NEW d \in Database, NEW u \in Users, NEW k \in DOMAIN d.bookings,
         NEW e, Cancel(d, e, u, k)
  PROVE  e.status = d.status /\ \A x : OpenCheckouts(e, x) = OpenCheckouts(d, x)
<1>1. e.status = d.status /\ e.checkouts = d.checkouts
  BY DEF Cancel, InsertAudit, CancelBooking, Database
<1>. QED
  BY <1>1 DEF OpenCheckouts

\* A checkout adds one open row, for its resource.
LEMMA CheckOutOpens ==
  ASSUME NEW d \in Database, NEW u \in Users, NEW r \in Resources,
         NEW k \in {NoBooking} \cup DOMAIN d.bookings, NEW e, CheckOut(d, e, u, r, k)
  PROVE  /\ e.status[r] = "checked_out"
         /\ \A x \in Resources : x # r => e.status[x] = d.status[x]
         /\ OpenCheckouts(d, r) = {}
         /\ d.status[r] \notin OutOfService
         /\ OpenCheckouts(e, r) = {Len(d.checkouts) + 1}
         /\ \A x : x # r => OpenCheckouts(e, x) = OpenCheckouts(d, x)
<1>. DEFINE new == [resource |-> r, booking |-> k, user |-> u, open |-> TRUE]
            n == Len(d.checkouts) + 1
<1>1. /\ e.status = [d.status EXCEPT ![r] = "checked_out"]
      /\ OpenCheckouts(d, r) = {} /\ Rentable(d, r)
  BY DEF CheckOut, InsertAudit, InsertCheckout, Database
<1>2. e.checkouts = Append(d.checkouts, new)
  BY DEF CheckOut, InsertAudit, InsertCheckout, Database
<1>3. new \in CheckoutRows
  BY DatabaseFields DEF CheckoutRows, NoBooking
<1>4. d.checkouts \in Seq(CheckoutRows)
  BY DatabaseFields
<1>. HIDE DEF new
<1>5. /\ DOMAIN e.checkouts = DOMAIN d.checkouts \cup {n}
      /\ \A c \in DOMAIN d.checkouts : e.checkouts[c] = d.checkouts[c]
      /\ e.checkouts[n] = new /\ n \notin DOMAIN d.checkouts
  BY <1>2, <1>3, <1>4, AppendProperties
<1>6. new.resource = r /\ new.open
  BY DEF new
<1>7. /\ e.status[r] = "checked_out"
      /\ \A x \in Resources : x # r => e.status[x] = d.status[x]
  BY <1>1, DatabaseFields
<1>. QED
  BY <1>1, <1>5, <1>6, <1>7 DEF OpenCheckouts, Rentable

\* A check-in closes one open row, and puts its resource in service or out of it.
LEMMA CheckInCloses ==
  ASSUME NEW d \in Database, NEW u \in Users, NEW c \in DOMAIN d.checkouts,
         NEW damaged \in BOOLEAN, NEW e, CheckIn(d, e, u, c, damaged)
  PROVE  /\ c \in OpenCheckouts(d, d.checkouts[c].resource)
         /\ d.checkouts[c].resource \in Resources
         /\ e.status[d.checkouts[c].resource] \in {"damaged", "available"}
         /\ \A x \in Resources :
              x # d.checkouts[c].resource => e.status[x] = d.status[x]
         /\ \A x : OpenCheckouts(e, x) = OpenCheckouts(d, x) \ {c}
<1>1. \A j \in DOMAIN d.checkouts : d.checkouts[j] \in CheckoutRows
  BY DatabaseFields
<1>2. d.checkouts[c].open
  BY DEF CheckIn
<1>3. e.status = [d.status EXCEPT ![d.checkouts[c].resource] =
                    IF damaged THEN "damaged" ELSE "available"]
  BY DEF CheckIn, InsertAudit, ReturnCheckout, Database
<1>4. e.checkouts = [d.checkouts EXCEPT ![c].open = FALSE]
  BY DEF CheckIn, InsertAudit, ReturnCheckout, Database
<1>5. /\ DOMAIN e.checkouts = DOMAIN d.checkouts
      /\ \A j \in DOMAIN d.checkouts : j # c => e.checkouts[j] = d.checkouts[j]
      /\ ~e.checkouts[c].open
  BY <1>1, <1>4 DEF CheckoutRows
<1>6. \A x : OpenCheckouts(e, x) = OpenCheckouts(d, x) \ {c}
  BY <1>5 DEF OpenCheckouts
<1>7. d.checkouts[c].resource \in Resources
  BY <1>1 DEF CheckoutRows
<1>8. /\ e.status[d.checkouts[c].resource] \in {"damaged", "available"}
      /\ \A x \in Resources : x # d.checkouts[c].resource => e.status[x] = d.status[x]
  BY <1>3, <1>7, DatabaseFields
<1>. QED
  BY <1>2, <1>6, <1>7, <1>8 DEF OpenCheckouts

\* CustodyMatchesStatus, of any database value.
Custody(d) ==
  \A r \in Resources :
    /\ (d.status[r] = "checked_out") = (OpenCheckouts(d, r) # {})
    /\ \A c1, c2 \in OpenCheckouts(d, r) : c1 = c2

\* One step does not make the two tables disagree, nor undoes a damage report.
LEMMA CustodyStep ==
  ASSUME NEW d \in Database, NEW e, Custody(d), LedgerStep(d, e)
  PROVE  /\ Custody(e)
         /\ \A r \in Resources : d.status[r] = "damaged" => e.status[r] = "damaged"
<1>. DEFINE Goal == /\ Custody(e)
                    /\ \A r \in Resources : d.status[r] = "damaged" => e.status[r] = "damaged"
<1>1. ASSUME e.status = d.status, \A x : OpenCheckouts(e, x) = OpenCheckouts(d, x)
      PROVE  Goal
  BY <1>1 DEF Custody
<1>2. ASSUME NEW u \in Users, NEW r \in Resources, NEW win \in Windows,
             Book(d, e, u, r, win[1], win[2])
      PROVE  Goal
  <2>1. win[1] \in Nat /\ win[2] \in Nat
    BY ClockAssumption
  <2>2. e.status = d.status /\ \A x : OpenCheckouts(e, x) = OpenCheckouts(d, x)
    BY <1>2, <2>1, BookHandsNothingOver
  <2>. QED
    BY <1>1, <2>2
<1>3. ASSUME NEW u \in Users, NEW k \in DOMAIN d.bookings, Cancel(d, e, u, k)
      PROVE  Goal
  <2>1. e.status = d.status /\ \A x : OpenCheckouts(e, x) = OpenCheckouts(d, x)
    BY <1>3, CancelHandsNothingOver
  <2>. QED
    BY <1>1, <2>1
<1>4. ASSUME NEW u \in Users, NEW r \in Resources, NEW k \in {NoBooking} \cup DOMAIN d.bookings,
             CheckOut(d, e, u, r, k)
      PROVE  Goal
  <2>1. /\ e.status[r] = "checked_out" /\ d.status[r] \notin OutOfService
        /\ \A x \in Resources : x # r => e.status[x] = d.status[x]
        /\ OpenCheckouts(e, r) = {Len(d.checkouts) + 1}
        /\ \A x : x # r => OpenCheckouts(e, x) = OpenCheckouts(d, x)
    BY <1>4, CheckOutOpens
  <2>2. d.status[r] # "damaged"
    BY <2>1 DEF OutOfService
  <2>3. OpenCheckouts(e, r) # {} /\ \A c1, c2 \in OpenCheckouts(e, r) : c1 = c2
    BY <2>1
  <2>4. Custody(e)
    BY <2>1, <2>3 DEF Custody
  <2>. QED
    BY <2>1, <2>2, <2>4
<1>5. ASSUME NEW u \in Users, NEW c \in DOMAIN d.checkouts, NEW damaged \in BOOLEAN,
             CheckIn(d, e, u, c, damaged)
      PROVE  Goal
  <2>. DEFINE r == d.checkouts[c].resource
  <2>1. /\ c \in OpenCheckouts(d, r) /\ r \in Resources
        /\ e.status[r] \in {"damaged", "available"}
        /\ \A x \in Resources : x # r => e.status[x] = d.status[x]
        /\ \A x : OpenCheckouts(e, x) = OpenCheckouts(d, x) \ {c}
    BY <1>5, CheckInCloses
  <2>2. d.status[r] = "checked_out" /\ OpenCheckouts(e, r) = {}
    BY <2>1 DEF Custody
  <2>3. ASSUME NEW x \in Resources, x # r
        PROVE  OpenCheckouts(e, x) = OpenCheckouts(d, x)
    <3>1. c \notin OpenCheckouts(d, x)
      BY <2>3 DEF OpenCheckouts
    <3>. QED
      BY <2>1, <3>1
  <2>. QED
    BY <2>1, <2>2, <2>3 DEF Custody
<1>. QED
  BY <1>2, <1>3, <1>4, <1>5 DEF LedgerStep

-----------------------------------------------------------------------------
(* Checkouts, the bookings they were made on, and the check-ins that close  *)
(* them.                                                                    *)

\* CheckoutsAreBacked, of any database value.
Backed(d) ==
  \A c \in DOMAIN d.checkouts :
    LET out == d.checkouts[c] IN
    IF out.booking = NoBooking
      THEN IsAdmin(out.user)
      ELSE /\ out.booking \in DOMAIN d.bookings
           /\ d.bookings[out.booking].owner = out.user
           /\ d.bookings[out.booking].resource = out.resource
           /\ out.open => d.bookings[out.booking].status # "completed"
           /\ \A c2 \in DOMAIN d.checkouts :
                d.checkouts[c2].booking = out.booking => c2 = c

\* ReturnsMatchCheckins, of any database value.
Returned(d) ==
  /\ \A c \in DOMAIN d.checkouts :
       ~d.checkouts[c].open <=> (\E i \in DOMAIN d.checkins : d.checkins[i].checkout = c)
  /\ \A i, j \in DOMAIN d.checkins : d.checkins[i].checkout = d.checkins[j].checkout => i = j
  /\ \A k \in DOMAIN d.bookings :
       d.bookings[k].status = "completed" =>
         \E c \in DOMAIN d.checkouts : d.checkouts[c].booking = k /\ ~d.checkouts[c].open

\* What makes the two inductive: a booking whose checkout was closed is confirmed
\* no more, so no second checkout is made on it, and a check-in is of a row that
\* exists, so the next checkout is not closed before it is made.
Spent(d) ==
  /\ \A c \in DOMAIN d.checkouts :
       d.checkouts[c].booking # NoBooking /\ ~d.checkouts[c].open =>
         d.bookings[d.checkouts[c].booking].status # "confirmed"
  /\ \A i \in DOMAIN d.checkins : d.checkins[i].checkout \in DOMAIN d.checkouts

Trail(d) == Backed(d) /\ Returned(d) /\ Spent(d)

\* Bookings and cancellations write neither table, and bring no booking back.
BookingsOnly(d, e) ==
  /\ e.checkouts = d.checkouts /\ e.checkins = d.checkins
  /\ DOMAIN d.bookings \subseteq DOMAIN e.bookings
  /\ \A k \in DOMAIN d.bookings :
       /\ e.bookings[k].owner = d.bookings[k].owner
       /\ e.bookings[k].resource = d.bookings[k].resource
       /\ e.bookings[k].status \in {d.bookings[k].status, "cancelled"}
  /\ \A k \in DOMAIN e.bookings \ DOMAIN d.bookings : e.bookings[k].status = "confirmed"

LEMMA BookOnly ==
  ASSUME NEW d \in Database, NEW u \in Users, NEW r \in Resources,
         NEW start \in Nat, NEW end \in Nat, NEW e, Book(d, e, u, r, start, end)
  PROVE  BookingsOnly(d, e)
<1>. DEFINE new == [resource |-> r, owner |-> u, start |-> start, end |-> end,
                    status |-> "confirmed"]
<1>1. e.checkouts = d.checkouts /\ e.checkins = d.checkins
  BY DEF Book, InsertAudit, InsertBooking, Database
<1>2. new \in BookingRows /\ new.status = "confirmed"
  BY DEF BookingRows
<1>3. e.bookings = Append(d.bookings, new) /\ d.bookings \in Seq(BookingRows)
  BY BookTables, DatabaseFields
<1>. HIDE DEF new
<1>4. /\ DOMAIN e.bookings = DOMAIN d.bookings \cup {Len(d.bookings) + 1}
      /\ \A k \in DOMAIN d.bookings : e.bookings[k] = d.bookings[k]
      /\ e.bookings[Len(d.bookings) + 1] = new
  BY <1>2, <1>3, AppendProperties
<1>. QED
  BY <1>1, <1>2, <1>4 DEF BookingsOnly

LEMMA CancelOnly ==
  ASSUME NEW d \in Database, NEW u \in Users, NEW k \in DOMAIN d.bookings,
         NEW e, Cancel(d, e, u, k)
  PROVE  BookingsOnly(d, e)
<1>1. e.checkouts = d.checkouts /\ e.checkins = d.checkins
  BY DEF Cancel, InsertAudit, CancelBooking, Database
<1>2. e.bookings = [d.bookings EXCEPT ![k].status = "cancelled"]
  BY CancelTables
<1>3. \A j \in DOMAIN d.bookings : d.bookings[j] \in BookingRows
  BY DatabaseFields
<1>. QED
  BY <1>1, <1>2, <1>3 DEF BookingsOnly, BookingRows

LEMMA BookingsOnlyKeepTrail ==
  ASSUME NEW d, NEW e, Trail(d), BookingsOnly(d, e)
  PROVE  Trail(e)
<1>1. Backed(e)
  BY DEF Trail, Backed, BookingsOnly
<1>2. Returned(e)
  <2>1. ASSUME NEW k \in DOMAIN e.bookings, e.bookings[k].status = "completed"
        PROVE  k \in DOMAIN d.bookings /\ d.bookings[k].status = "completed"
    BY <2>1 DEF BookingsOnly
  <2>2. ASSUME NEW k \in DOMAIN d.bookings, d.bookings[k].status = "completed"
        PROVE  \E c \in DOMAIN d.checkouts : d.checkouts[c].booking = k /\ ~d.checkouts[c].open
    BY <2>2 DEF Trail, Returned
  <2>3. e.checkouts = d.checkouts /\ e.checkins = d.checkins
    BY DEF BookingsOnly
  <2>4. \A k \in DOMAIN e.bookings :
          e.bookings[k].status = "completed" =>
            \E c \in DOMAIN e.checkouts : e.checkouts[c].booking = k /\ ~e.checkouts[c].open
    BY <2>1, <2>2, <2>3
  <2>. QED
    BY <2>3, <2>4 DEF Trail, Returned
<1>3. Spent(e)
  <2>1. ASSUME NEW c \in DOMAIN d.checkouts, d.checkouts[c].booking # NoBooking
        PROVE  d.checkouts[c].booking \in DOMAIN d.bookings
    BY <2>1 DEF Trail, Backed
  <2>. QED
    BY <2>1 DEF Trail, Spent, BookingsOnly
<1>. QED
  BY <1>1, <1>2, <1>3 DEF Trail

\* A checkout is made on a booking that has none: a closed one would have ended
\* the booking, an open one would have kept the resource out.
LEMMA CheckOutKeepsTrail ==
  ASSUME NEW d \in Database, NEW u \in Users, NEW r \in Resources,
         NEW k \in {NoBooking} \cup DOMAIN d.bookings, NEW e, CheckOut(d, e, u, r, k),
         Trail(d)
  PROVE  Trail(e)
<1>. DEFINE new == [resource |-> r, booking |-> k, user |-> u, open |-> TRUE]
            n == Len(d.checkouts) + 1
<1>1. /\ e.bookings = d.bookings /\ e.checkins = d.checkins
      /\ e.checkouts = Append(d.checkouts, new)
  BY DEF CheckOut, InsertAudit, InsertCheckout, Database
<1>2. new \in CheckoutRows
  BY DatabaseFields DEF CheckoutRows, NoBooking
<1>3. new.resource = r /\ new.booking = k /\ new.user = u /\ new.open
  OBVIOUS
<1>4. d.checkouts \in Seq(CheckoutRows)
  BY DatabaseFields
<1>. HIDE DEF new
<1>5. /\ DOMAIN e.checkouts = DOMAIN d.checkouts \cup {n}
      /\ \A c \in DOMAIN d.checkouts : e.checkouts[c] = d.checkouts[c]
      /\ e.checkouts[n] = new /\ n \notin DOMAIN d.checkouts
  BY <1>1, <1>2, <1>4, AppendProperties
<1>. HIDE DEF n
<1>6. /\ OpenCheckouts(d, r) = {}
      /\ k = NoBooking => IsAdmin(u)
      /\ k # NoBooking => /\ k \in DOMAIN d.bookings
                          /\ d.bookings[k].resource = r
                          /\ d.bookings[k].owner = u
                          /\ d.bookings[k].status = "confirmed"
  BY DEF CheckOut
<1>7. ASSUME k # NoBooking, NEW c \in DOMAIN d.checkouts, d.checkouts[c].booking = k
      PROVE  FALSE
  <2>1. d.checkouts[c].resource = r
    BY <1>6, <1>7 DEF Trail, Backed
  <2>2. CASE d.checkouts[c].open
    BY <1>6, <1>7, <2>1, <2>2 DEF OpenCheckouts
  <2>3. CASE ~d.checkouts[c].open
    BY <1>6, <1>7, <2>3 DEF Trail, Spent
  <2>. QED
    BY <2>2, <2>3
<1>8. Backed(e)
  <2>. SUFFICES ASSUME NEW c \in DOMAIN e.checkouts
                PROVE  LET out == e.checkouts[c] IN
                       IF out.booking = NoBooking
                         THEN IsAdmin(out.user)
                         ELSE /\ out.booking \in DOMAIN e.bookings
                              /\ e.bookings[out.booking].owner = out.user
                              /\ e.bookings[out.booking].resource = out.resource
                              /\ out.open => e.bookings[out.booking].status # "completed"
                              /\ \A c2 \in DOMAIN e.checkouts :
                                   e.checkouts[c2].booking = out.booking => c2 = c
    BY DEF Backed
  <2>1. CASE c = n
    BY <1>1, <1>3, <1>5, <1>6, <1>7, <2>1
  <2>2. CASE c \in DOMAIN d.checkouts
    BY <1>1, <1>3, <1>5, <1>7, <2>2 DEF Trail, Backed
  <2>. QED
    BY <1>5, <2>1, <2>2
<1>9. Returned(e)
  <2>1. ~(\E i \in DOMAIN d.checkins : d.checkins[i].checkout = n)
    BY <1>5 DEF Trail, Spent
  <2>2. \A c \in DOMAIN e.checkouts :
          ~e.checkouts[c].open <=> (\E i \in DOMAIN e.checkins : e.checkins[i].checkout = c)
    BY <1>1, <1>3, <1>5, <2>1 DEF Trail, Returned
  <2>3. \A i, j \in DOMAIN e.checkins :
          e.checkins[i].checkout = e.checkins[j].checkout => i = j
    BY <1>1 DEF Trail, Returned
  <2>4. \A j \in DOMAIN e.bookings :
          e.bookings[j].status = "completed" =>
            \E c \in DOMAIN e.checkouts : e.checkouts[c].booking = j /\ ~e.checkouts[c].open
    BY <1>1, <1>5 DEF Trail, Returned
  <2>. QED
    BY <2>2, <2>3, <2>4 DEF Returned
<1>10. Spent(e)
  BY <1>1, <1>3, <1>5 DEF Trail, Spent
<1>. QED
  BY <1>8, <1>9, <1>10 DEF Trail

\* A return closes one open checkout, adds its check-in and ends its booking,
\* which no other checkout was made on.
LEMMA CheckInKeepsTrail ==
  ASSUME NEW d \in Database, NEW u \in Users, NEW c \in DOMAIN d.checkouts,
         NEW damaged \in BOOLEAN, NEW e, CheckIn(d, e, u, c, damaged), Trail(d)
  PROVE  Trail(e)
<1>. DEFINE new == [checkout |-> c, user |-> u, damaged |-> damaged]
            n == Len(d.checkins) + 1
            b == d.checkouts[c].booking
<1>1. \A j \in DOMAIN d.checkouts : d.checkouts[j] \in CheckoutRows
  BY DatabaseFields
<1>2. /\ e.checkouts = [d.checkouts EXCEPT ![c].open = FALSE]
      /\ e.checkins = Append(d.checkins, new)
      /\ DOMAIN e.bookings = DOMAIN d.bookings
      /\ \A k \in DOMAIN d.bookings :
           e.bookings[k] = IF k = b THEN [d.bookings[k] EXCEPT !.status = "completed"]
                                    ELSE d.bookings[k]
  BY DEF CheckIn, InsertAudit, ReturnCheckout, Database
<1>3. /\ DOMAIN e.checkouts = DOMAIN d.checkouts
      /\ \A j \in DOMAIN d.checkouts :
           /\ j # c => e.checkouts[j] = d.checkouts[j]
           /\ e.checkouts[j].booking = d.checkouts[j].booking
           /\ e.checkouts[j].user = d.checkouts[j].user
           /\ e.checkouts[j].resource = d.checkouts[j].resource
      /\ ~e.checkouts[c].open
  BY <1>1, <1>2 DEF CheckoutRows
<1>4. new \in CheckinRows /\ new.checkout = c
  BY DatabaseFields DEF CheckinRows
<1>5. d.checkins \in Seq(CheckinRows)
  BY DatabaseFields
<1>. HIDE DEF new
<1>6. /\ DOMAIN e.checkins = DOMAIN d.checkins \cup {n}
      /\ \A i \in DOMAIN d.checkins : e.checkins[i] = d.checkins[i]
      /\ e.checkins[n] = new /\ n \notin DOMAIN d.checkins
  BY <1>2, <1>4, <1>5, AppendProperties
<1>. HIDE DEF n
<1>7. \A k \in DOMAIN d.bookings : d.bookings[k] \in BookingRows
  BY DatabaseFields
<1>8. \A k \in DOMAIN d.bookings :
        /\ e.bookings[k].owner = d.bookings[k].owner
        /\ e.bookings[k].resource = d.bookings[k].resource
        /\ e.bookings[k].status = IF k = b THEN "completed" ELSE d.bookings[k].status
  BY <1>2, <1>7 DEF BookingRows
<1>9. d.checkouts[c].open
  BY DEF CheckIn
<1>10. ASSUME NEW j \in DOMAIN d.checkouts, d.checkouts[j].booking = b, b # NoBooking
       PROVE  j = c
  BY <1>10 DEF Trail, Backed
<1>. HIDE DEF b
<1>11. Backed(e)
  <2>. SUFFICES ASSUME NEW j \in DOMAIN d.checkouts
                PROVE  LET out == e.checkouts[j] IN
                       IF out.booking = NoBooking
                         THEN IsAdmin(out.user)
                         ELSE /\ out.booking \in DOMAIN e.bookings
                              /\ e.bookings[out.booking].owner = out.user
                              /\ e.bookings[out.booking].resource = out.resource
                              /\ out.open => e.bookings[out.booking].status # "completed"
                              /\ \A c2 \in DOMAIN e.checkouts :
                                   e.checkouts[c2].booking = out.booking => c2 = j
    BY <1>3 DEF Backed
  <2>1. CASE d.checkouts[j].booking = NoBooking
    BY <1>3, <2>1 DEF Trail, Backed
  <2>2. CASE d.checkouts[j].booking # NoBooking
    <3>1. /\ d.checkouts[j].booking \in DOMAIN d.bookings
          /\ d.bookings[d.checkouts[j].booking].owner = d.checkouts[j].user
          /\ d.bookings[d.checkouts[j].booking].resource = d.checkouts[j].resource
          /\ \A c2 \in DOMAIN d.checkouts :
               d.checkouts[c2].booking = d.checkouts[j].booking => c2 = j
      BY <2>2 DEF Trail, Backed
    <3>2. ASSUME e.checkouts[j].open
          PROVE  e.bookings[d.checkouts[j].booking].status # "completed"
      <4>1. j # c /\ d.checkouts[j].open
        BY <1>3, <3>2
      <4>2. d.checkouts[j].booking # b
        BY <1>10, <2>2, <4>1
      <4>. QED
        BY <1>8, <2>2, <3>1, <4>1, <4>2 DEF Trail, Backed
    <3>. QED
      BY <1>2, <1>3, <1>8, <2>2, <3>1, <3>2
  <2>. QED
    BY <2>1, <2>2
<1>12. Returned(e)
  <2>1. ~(\E i \in DOMAIN d.checkins : d.checkins[i].checkout = c)
    BY <1>9 DEF Trail, Returned
  <2>2. \A j \in DOMAIN e.checkouts :
          ~e.checkouts[j].open <=> (\E i \in DOMAIN e.checkins : e.checkins[i].checkout = j)
    BY <1>3, <1>4, <1>6 DEF Trail, Returned
  <2>3. \A i, j \in DOMAIN e.checkins :
          e.checkins[i].checkout = e.checkins[j].checkout => i = j
    BY <1>4, <1>6, <2>1 DEF Trail, Returned
  <2>4. ASSUME NEW k \in DOMAIN e.bookings, e.bookings[k].status = "completed"
        PROVE  \E j \in DOMAIN e.checkouts : e.checkouts[j].booking = k /\ ~e.checkouts[j].open
    <3>1. CASE k = b
      BY <1>3, <3>1 DEF b
    <3>2. CASE k # b
      <4>1. k \in DOMAIN d.bookings /\ d.bookings[k].status = "completed"
        BY <1>2, <1>8, <2>4, <3>2
      <4>2. PICK j \in DOMAIN d.checkouts : d.checkouts[j].booking = k /\ ~d.checkouts[j].open
        BY <4>1 DEF Trail, Returned
      <4>. QED
        BY <1>3, <1>9, <4>2
    <3>. QED
      BY <3>1, <3>2
  <2>. QED
    BY <2>2, <2>3, <2>4 DEF Returned
<1>13. Spent(e)
  <2>1. ASSUME NEW j \in DOMAIN d.checkouts, d.checkouts[j].booking # NoBooking,
               ~e.checkouts[j].open
        PROVE  e.bookings[d.checkouts[j].booking].status # "confirmed"
    <3>1. d.checkouts[j].booking \in DOMAIN d.bookings
      BY <2>1 DEF Trail, Backed
    <3>2. CASE j = c
      BY <1>8, <3>1, <3>2 DEF b
    <3>3. CASE j # c
      BY <1>3, <1>8, <2>1, <3>1, <3>3 DEF Trail, Spent
    <3>. QED
      BY <3>2, <3>3
  <2>2. \A i \in DOMAIN e.checkins : e.checkins[i].checkout \in DOMAIN e.checkouts
    BY <1>3, <1>4, <1>6 DEF Trail, Spent
  <2>. QED
    BY <1>3, <2>1, <2>2 DEF Spent
<1>. QED
  BY <1>11, <1>12, <1>13 DEF Trail

LEMMA TrailStep ==
  ASSUME NEW d \in Database, NEW e, Trail(d), LedgerStep(d, e)
  PROVE  Trail(e)
<1>1. \A win \in Windows : win[1] \in Nat /\ win[2] \in Nat
  BY ClockAssumption
<1>2. PICK u \in Users :
        \/ \E r \in Resources, win \in Windows : Book(d, e, u, r, win[1], win[2])
        \/ \E k \in DOMAIN d.bookings : Cancel(d, e, u, k)
        \/ \E r \in Resources, k \in {NoBooking} \cup DOMAIN d.bookings : CheckOut(d, e, u, r, k)
        \/ \E c \in DOMAIN d.checkouts, damaged \in BOOLEAN : CheckIn(d, e, u, c, damaged)
  BY DEF LedgerStep
<1>. QED
  BY <1>1, <1>2, BookOnly, CancelOnly, BookingsOnlyKeepTrail, CheckOutKeepsTrail,
     CheckInKeepsTrail

-----------------------------------------------------------------------------
(* History. *)

\* Rows stay and keep the facts they were written with, ended bookings stay ended
\* and returned checkouts returned.
HistoryKept(d, e) ==
  /\ \A k \in DOMAIN d.bookings :
       /\ k \in DOMAIN e.bookings
       /\ [e.bookings[k] EXCEPT !.status = "confirmed"] =
            [d.bookings[k] EXCEPT !.status = "confirmed"]
       /\ e.bookings[k].status = "confirmed" => d.bookings[k].status = "confirmed"
  /\ \A c \in DOMAIN d.checkouts :
       /\ c \in DOMAIN e.checkouts
       /\ e.checkouts[c] \in {d.checkouts[c], [d.checkouts[c] EXCEPT !.open = FALSE]}
  /\ \A i \in DOMAIN d.audit : i \in DOMAIN e.audit /\ e.audit[i] = d.audit[i]

\* A sequence only grows when something is appended to it.
LEMMA AppendKeeps ==
  ASSUME NEW S, NEW s \in Seq(S), NEW x
  PROVE  \A i \in DOMAIN s : i \in DOMAIN Append(s, x) /\ Append(s, x)[i] = s[i]
OBVIOUS

LEMMA HistoryStep ==
  ASSUME NEW d \in Database, NEW e, LedgerStep(d, e)
  PROVE  HistoryKept(d, e)
<1>0. /\ \A k \in DOMAIN d.bookings : d.bookings[k] \in BookingRows
      /\ d.bookings \in Seq(BookingRows) /\ d.checkouts \in Seq(CheckoutRows)
      /\ d.audit \in Seq(AuditRows)
  BY DatabaseFields
<1>. DEFINE Same == \A k \in DOMAIN d.bookings :
                      /\ k \in DOMAIN e.bookings
                      /\ [e.bookings[k] EXCEPT !.status = "confirmed"] =
                           [d.bookings[k] EXCEPT !.status = "confirmed"]
                      /\ e.bookings[k].status = "confirmed" => d.bookings[k].status = "confirmed"
            Logged == \E x : e.audit = Append(d.audit, x)
<1>1. ASSUME Logged
      PROVE  \A i \in DOMAIN d.audit : i \in DOMAIN e.audit /\ e.audit[i] = d.audit[i]
  BY <1>0, <1>1, AppendKeeps
<1>2. ASSUME NEW u \in Users, NEW r \in Resources, NEW win \in Windows,
             Book(d, e, u, r, win[1], win[2])
      PROVE  HistoryKept(d, e)
  <2>1. /\ e.bookings = Append(d.bookings, [resource |-> r, owner |-> u, start |-> win[1],
                                            end |-> win[2], status |-> "confirmed"])
        /\ e.checkouts = d.checkouts /\ Logged
    BY <1>2 DEF Book, InsertAudit, InsertBooking, Database
  <2>2. Same
    BY <1>0, <2>1, AppendKeeps
  <2>. QED
    BY <1>1, <2>1, <2>2 DEF HistoryKept
<1>3. ASSUME NEW u \in Users, NEW k \in DOMAIN d.bookings, Cancel(d, e, u, k)
      PROVE  HistoryKept(d, e)
  <2>1. /\ e.bookings = [d.bookings EXCEPT ![k].status = "cancelled"]
        /\ e.checkouts = d.checkouts /\ Logged
    BY <1>3 DEF Cancel, InsertAudit, CancelBooking, Database
  <2>2. /\ DOMAIN e.bookings = DOMAIN d.bookings
        /\ \A j \in DOMAIN d.bookings :
             e.bookings[j] = IF j = k THEN [d.bookings[j] EXCEPT !.status = "cancelled"]
                                      ELSE d.bookings[j]
    BY <2>1
  <2>3. Same
    BY <1>0, <2>2 DEF BookingRows
  <2>. QED
    BY <1>1, <2>1, <2>3 DEF HistoryKept
<1>4. ASSUME NEW u \in Users, NEW r \in Resources, NEW k, CheckOut(d, e, u, r, k)
      PROVE  HistoryKept(d, e)
  <2>1. /\ e.bookings = d.bookings /\ Logged
        /\ e.checkouts = Append(d.checkouts, [resource |-> r, booking |-> k, user |-> u,
                                              open |-> TRUE])
    BY <1>4 DEF CheckOut, InsertAudit, InsertCheckout, Database
  <2>2. Same
    BY <2>1
  <2>3. \A c \in DOMAIN d.checkouts : c \in DOMAIN e.checkouts /\ e.checkouts[c] = d.checkouts[c]
    BY <1>0, <2>1, AppendKeeps
  <2>. QED
    BY <1>1, <2>1, <2>2, <2>3 DEF HistoryKept
<1>5. ASSUME NEW u \in Users, NEW c \in DOMAIN d.checkouts, NEW damaged \in BOOLEAN,
             CheckIn(d, e, u, c, damaged)
      PROVE  HistoryKept(d, e)
  <2>1. /\ DOMAIN e.bookings = DOMAIN d.bookings
        /\ \A k \in DOMAIN d.bookings :
             e.bookings[k] = IF k = d.checkouts[c].booking
                               THEN [d.bookings[k] EXCEPT !.status = "completed"]
                               ELSE d.bookings[k]
        /\ e.checkouts = [d.checkouts EXCEPT ![c].open = FALSE]
        /\ Logged
    BY <1>5 DEF CheckIn, InsertAudit, ReturnCheckout, Database
  <2>2. Same
    BY <1>0, <2>1 DEF BookingRows
  <2>3. \A j \in DOMAIN d.checkouts :
          /\ j \in DOMAIN e.checkouts
          /\ e.checkouts[j] \in {d.checkouts[j], [d.checkouts[j] EXCEPT !.open = FALSE]}
    BY <2>1
  <2>. QED
    BY <1>1, <2>1, <2>2, <2>3 DEF HistoryKept
<1>. QED
  BY <1>2, <1>3, <1>4, <1>5 DEF LedgerStep

\* Check-ins are only ever added.
LEMMA CheckinsStay ==
  ASSUME NEW d \in Database, NEW e, LedgerStep(d, e)
  PROVE  \A i \in DOMAIN d.checkins : i \in DOMAIN e.checkins /\ e.checkins[i] = d.checkins[i]
<1>1. d.checkins \in Seq(CheckinRows)
  BY DatabaseFields
<1>2. e.checkins = d.checkins \/ \E x : e.checkins = Append(d.checkins, x)
  <2>1. ASSUME NEW u, NEW r, NEW s, NEW t, Book(d, e, u, r, s, t)
        PROVE  e.checkins = d.checkins
    BY <2>1 DEF Book, InsertAudit, InsertBooking, Database
  <2>2. ASSUME NEW u, NEW k, Cancel(d, e, u, k)
        PROVE  e.checkins = d.checkins
    BY <2>2 DEF Cancel, InsertAudit, CancelBooking, Database
  <2>3. ASSUME NEW u, NEW r, NEW k, CheckOut(d, e, u, r, k)
        PROVE  e.checkins = d.checkins
    BY <2>3 DEF CheckOut, InsertAudit, InsertCheckout, Database
  <2>4. ASSUME NEW u, NEW c, NEW damaged, CheckIn(d, e, u, c, damaged)
        PROVE  \E x : e.checkins = Append(d.checkins, x)
    BY <2>4 DEF CheckIn, InsertAudit, ReturnCheckout, Database
  <2>. QED
    BY <2>1, <2>2, <2>3, <2>4 DEF LedgerStep
<1>. QED
  BY <1>1, <1>2, AppendKeeps

-----------------------------------------------------------------------------
(* The audit trail.                                                        *)

\* Every step writes one audit row, and the facts other rows refer to stay.
Logs(d, e, a) == a \in AuditRows /\ e.audit = Append(d.audit, a)

FactsKept(d, e) ==
  /\ \A k \in DOMAIN d.bookings :
       /\ k \in DOMAIN e.bookings
       /\ e.bookings[k].owner = d.bookings[k].owner
       /\ e.bookings[k].resource = d.bookings[k].resource
  /\ \A c \in DOMAIN d.checkouts :
       /\ c \in DOMAIN e.checkouts
       /\ e.checkouts[c].user = d.checkouts[c].user
       /\ e.checkouts[c].resource = d.checkouts[c].resource
       /\ e.checkouts[c].booking = d.checkouts[c].booking
  /\ \A i \in DOMAIN d.checkins :
       /\ i \in DOMAIN e.checkins
       /\ e.checkins[i] = d.checkins[i]

\* The row an audit row is about exists, and its actor was entitled to write it.
RowEntitled(d, a) ==
  /\ a.action = "booking.create" =>
       a.id \in DOMAIN d.bookings /\ d.bookings[a.id].owner = a.actor
  /\ a.action = "booking.cancel" =>
       a.id \in DOMAIN d.bookings /\ CanView(a.actor, d.bookings[a.id])
  /\ a.action = "checkout.create" =>
       /\ a.id \in DOMAIN d.checkouts
       /\ d.checkouts[a.id].user = a.actor
       /\ a.actor \in Managers => CanManage(a.actor, d.checkouts[a.id].resource)
  /\ a.action = "checkin.create" =>
       /\ a.id \in DOMAIN d.checkins
       /\ d.checkins[a.id].checkout \in DOMAIN d.checkouts
       /\ \/ d.checkouts[d.checkins[a.id].checkout].user = a.actor
          \/ CanManage(a.actor, d.checkouts[d.checkins[a.id].checkout].resource)

AllEntitled(d) == \A i \in DOMAIN d.audit : RowEntitled(d, d.audit[i])

\* Audit row a tells how booking k came about or ended.
About(d, a, k) ==
  \/ a.action \in {"booking.create", "booking.cancel"} /\ a.id = k
  \/ a.action = "checkin.create" /\ d.checkouts[d.checkins[a.id].checkout].booking = k

\* The last audit row about a booking gives its status.
Explained(d) ==
  \A k \in DOMAIN d.bookings :
    \E i \in DOMAIN d.audit :
      /\ About(d, d.audit[i], k)
      /\ \A j \in DOMAIN d.audit : About(d, d.audit[j], k) => j <= i
      /\ d.bookings[k].status = StatusAfter(d.audit[i].action)

\* What makes EntitledActors and AuditExplainsTables inductive.
Audited(d) ==
  /\ AllEntitled(d)
  /\ Explained(d)
  /\ WrittenOnce(d, "booking.create", Len(d.bookings))
  /\ WrittenOnce(d, "checkout.create", Len(d.checkouts))
  /\ WrittenOnce(d, "checkin.create", Len(d.checkins))

\* A row appended to a sequence is its last; the others keep their places.
LEMMA AppendedRow ==
  ASSUME NEW S, NEW s \in Seq(S), NEW x \in S
  PROVE  /\ Append(s, x) \in Seq(S)
         /\ Len(Append(s, x)) = Len(s) + 1
         /\ Len(s) \in Nat
         /\ \A i \in DOMAIN s : i \in DOMAIN Append(s, x) /\ Append(s, x)[i] = s[i]
         /\ \A i \in DOMAIN s : i \in 1..Len(s)
         /\ \A i \in DOMAIN Append(s, x) : i \in DOMAIN s \/ i = Len(s) + 1
         /\ Len(s) + 1 \in DOMAIN Append(s, x)
         /\ Append(s, x)[Len(s) + 1] = x
         /\ Len(s) + 1 \notin DOMAIN s
OBVIOUS

\* An entitled row stays entitled, and about the same booking.
LEMMA RowStays ==
  ASSUME NEW d, NEW e, FactsKept(d, e), NEW a, RowEntitled(d, a)
  PROVE  /\ RowEntitled(e, a)
         /\ \A k : About(e, a, k) <=> About(d, a, k)
BY DEF FactsKept, RowEntitled, About, CanView

\* The appended row adds one entry to the trail.
LEMMA AllEntitledStep ==
  ASSUME NEW d \in Database, NEW e, NEW a, Logs(d, e, a), FactsKept(d, e),
         AllEntitled(d), RowEntitled(e, a)
  PROVE  AllEntitled(e)
<1>1. /\ \A i \in DOMAIN e.audit : i \in DOMAIN d.audit \/ i = Len(d.audit) + 1
      /\ \A i \in DOMAIN d.audit : e.audit[i] = d.audit[i]
      /\ e.audit[Len(d.audit) + 1] = a
  BY AppendedRow, DatabaseFields DEF Logs
<1>. QED
  BY <1>1, RowStays DEF AllEntitled

\* If the step sets the status of exactly the booking its row is about, as the
\* row says, then the last rows explain the statuses again.
LEMMA ExplainedStep ==
  ASSUME NEW d \in Database, NEW e, NEW a, Logs(d, e, a), FactsKept(d, e),
         AllEntitled(d), Explained(d),
         \A k \in DOMAIN e.bookings :
           IF About(e, a, k)
             THEN e.bookings[k].status = StatusAfter(a.action)
             ELSE k \in DOMAIN d.bookings /\ e.bookings[k].status = d.bookings[k].status
  PROVE  Explained(e)
<1>. DEFINE m == Len(d.audit) + 1
<1>1. /\ \A i \in DOMAIN e.audit : i \in DOMAIN d.audit \/ i = m
      /\ \A i \in DOMAIN d.audit : i \in DOMAIN e.audit /\ e.audit[i] = d.audit[i]
      /\ e.audit[m] = a /\ m \in DOMAIN e.audit
      /\ \A i \in DOMAIN e.audit : i <= m
  <2>1. d.audit \in Seq(AuditRows)
    BY DatabaseFields
  <2>. QED
    BY <2>1, AppendedRow DEF Logs
<1>2. \A i \in DOMAIN d.audit : \A k :
        About(e, e.audit[i], k) <=> About(d, d.audit[i], k)
  BY <1>1, RowStays DEF AllEntitled
<1>. HIDE DEF m
<1>. SUFFICES ASSUME NEW k \in DOMAIN e.bookings
              PROVE  \E i \in DOMAIN e.audit :
                       /\ About(e, e.audit[i], k)
                       /\ \A j \in DOMAIN e.audit : About(e, e.audit[j], k) => j <= i
                       /\ e.bookings[k].status = StatusAfter(e.audit[i].action)
  BY DEF Explained
<1>3. CASE About(e, a, k)
  BY <1>1, <1>3
<1>4. CASE ~About(e, a, k)
  <2>1. k \in DOMAIN d.bookings /\ e.bookings[k].status = d.bookings[k].status
    BY <1>4
  <2>2. PICK i \in DOMAIN d.audit :
          /\ About(d, d.audit[i], k)
          /\ \A j \in DOMAIN d.audit : About(d, d.audit[j], k) => j <= i
          /\ d.bookings[k].status = StatusAfter(d.audit[i].action)
    BY <2>1 DEF Explained
  <2>3. \A j \in DOMAIN e.audit : About(e, e.audit[j], k) => j <= i
    BY <1>1, <1>2, <1>4, <2>2
  <2>. QED
    BY <1>1, <1>2, <2>1, <2>2, <2>3
<1>. QED
  BY <1>3, <1>4

\* A row of another action leaves what was written once as it was.
LEMMA OtherRowWritten ==
  ASSUME NEW d \in Database, NEW e, NEW a, Logs(d, e, a),
         NEW action, NEW n, WrittenOnce(d, action, n), a.action # action
  PROVE  WrittenOnce(e, action, n)
<1>1. /\ \A i \in DOMAIN e.audit : i \in DOMAIN d.audit \/ e.audit[i] = a
      /\ \A i \in DOMAIN d.audit : i \in DOMAIN e.audit /\ e.audit[i] = d.audit[i]
  BY AppendedRow, DatabaseFields DEF Logs
<1>. QED
  BY <1>1 DEF WrittenOnce

\* A row about the next id is the only one about it.
LEMMA NextRowWritten ==
  ASSUME NEW d \in Database, NEW e, NEW a, Logs(d, e, a),
         NEW action, NEW n \in Nat, WrittenOnce(d, action, n),
         a.action = action, a.id = n + 1,
         \A i \in DOMAIN d.audit : d.audit[i].action = action => d.audit[i].id \in 1..n
  PROVE  WrittenOnce(e, action, n + 1)
<1>. DEFINE m == Len(d.audit) + 1
<1>1. /\ \A i \in DOMAIN e.audit : i \in DOMAIN d.audit \/ i = m
      /\ \A i \in DOMAIN d.audit : i \in DOMAIN e.audit /\ e.audit[i] = d.audit[i]
      /\ e.audit[m] = a /\ m \in DOMAIN e.audit
  BY AppendedRow, DatabaseFields DEF Logs
<1>. HIDE DEF m
<1>2. ASSUME NEW id \in 1..n
      PROVE  \E i \in DOMAIN e.audit :
               /\ e.audit[i].action = action /\ e.audit[i].id = id
               /\ \A j \in DOMAIN e.audit :
                    e.audit[j].action = action /\ e.audit[j].id = id => j = i
  <2>1. PICK i \in DOMAIN d.audit :
          /\ d.audit[i].action = action /\ d.audit[i].id = id
          /\ \A j \in DOMAIN d.audit :
               d.audit[j].action = action /\ d.audit[j].id = id => j = i
    BY DEF WrittenOnce
  <2>2. a.id # id
    OBVIOUS
  <2>. QED
    BY <1>1, <2>1, <2>2
<1>3. \A i \in DOMAIN d.audit : d.audit[i].action = action => d.audit[i].id # n + 1
  OBVIOUS
<1>4. \E i \in DOMAIN e.audit :
        /\ e.audit[i].action = action /\ e.audit[i].id = n + 1
        /\ \A j \in DOMAIN e.audit :
             e.audit[j].action = action /\ e.audit[j].id = n + 1 => j = i
  BY <1>1, <1>3
<1>5. \A id \in 1..(n + 1) : id \in 1..n \/ id = n + 1
  OBVIOUS
<1>. QED
  BY <1>2, <1>4, <1>5 DEF WrittenOnce

\* Rows about what exists have ids the next row of that kind does not have.
LEMMA IdsInUse ==
  ASSUME NEW d \in Database, AllEntitled(d), NEW i \in DOMAIN d.audit
  PROVE  /\ d.audit[i].action = "booking.create" => d.audit[i].id \in 1..Len(d.bookings)
         /\ d.audit[i].action = "checkout.create" => d.audit[i].id \in 1..Len(d.checkouts)
         /\ d.audit[i].action = "checkin.create" => d.audit[i].id \in 1..Len(d.checkins)
<1>1. /\ DOMAIN d.bookings = 1..Len(d.bookings)
      /\ DOMAIN d.checkouts = 1..Len(d.checkouts)
      /\ DOMAIN d.checkins = 1..Len(d.checkins)
  BY DatabaseFields
<1>. QED
  BY <1>1 DEF AllEntitled, RowEntitled

LEMMA BookAudited ==
  ASSUME NEW d \in Database, NEW u \in Users, NEW r \in Resources,
         NEW start \in Nat, NEW end \in Nat, NEW e, Book(d, e, u, r, start, end), Audited(d)
  PROVE  Audited(e)
<1>. DEFINE new == [resource |-> r, owner |-> u, start |-> start, end |-> end,
                    status |-> "confirmed"]
            n == Len(d.bookings) + 1
            a == [actor |-> u, action |-> "booking.create", id |-> n]
<1>1. /\ e.checkouts = d.checkouts /\ e.checkins = d.checkins
      /\ e.bookings = Append(d.bookings, new) /\ e.audit = Append(d.audit, a)
  BY DEF Book, InsertAudit, InsertBooking, Database
<1>2. new \in BookingRows /\ new.owner = u /\ new.status = "confirmed"
  BY DEF BookingRows
<1>3. d.bookings \in Seq(BookingRows)
  BY DatabaseFields
<1>. HIDE DEF new
<1>4. /\ \A k \in DOMAIN d.bookings : k \in DOMAIN e.bookings /\ e.bookings[k] = d.bookings[k]
      /\ \A k \in DOMAIN e.bookings : k \in DOMAIN d.bookings \/ k = n
      /\ e.bookings[n] = new /\ n \in DOMAIN e.bookings /\ n \notin DOMAIN d.bookings
      /\ Len(e.bookings) = n /\ Len(d.bookings) \in Nat
  BY <1>1, <1>2, <1>3, AppendedRow
<1>5. Logs(d, e, a) /\ a.action = "booking.create" /\ a.id = n /\ a.actor = u
  BY <1>1, <1>4 DEF Logs, AuditRows, AuditActions
<1>. HIDE DEF n, a
<1>6. FactsKept(d, e)
  BY <1>1, <1>4 DEF FactsKept
<1>7. RowEntitled(e, a)
  BY <1>2, <1>4, <1>5 DEF RowEntitled
<1>8. AllEntitled(e)
  BY <1>5, <1>6, <1>7, AllEntitledStep DEF Audited
<1>9. \A k \in DOMAIN e.bookings :
        IF About(e, a, k)
          THEN e.bookings[k].status = StatusAfter(a.action)
          ELSE k \in DOMAIN d.bookings /\ e.bookings[k].status = d.bookings[k].status
  BY <1>2, <1>4, <1>5 DEF About, StatusAfter
<1>10. Explained(e)
  BY <1>5, <1>6, <1>9, ExplainedStep DEF Audited
<1>11. WrittenOnce(e, "booking.create", Len(e.bookings))
  BY <1>4, <1>5, IdsInUse, NextRowWritten DEF Audited, n
<1>12. /\ WrittenOnce(e, "checkout.create", Len(e.checkouts))
       /\ WrittenOnce(e, "checkin.create", Len(e.checkins))
  BY <1>1, <1>5, OtherRowWritten DEF Audited
<1>. QED
  BY <1>8, <1>10, <1>11, <1>12 DEF Audited

LEMMA CancelAudited ==
  ASSUME NEW d \in Database, NEW u \in Users, NEW k \in DOMAIN d.bookings,
         NEW e, Cancel(d, e, u, k), Audited(d)
  PROVE  Audited(e)
<1>. DEFINE a == [actor |-> u, action |-> "booking.cancel", id |-> k]
<1>1. /\ e.checkouts = d.checkouts /\ e.checkins = d.checkins
      /\ e.bookings = [d.bookings EXCEPT ![k].status = "cancelled"]
      /\ e.audit = Append(d.audit, a)
  BY DEF Cancel, InsertAudit, CancelBooking, Database
<1>2. /\ d.bookings \in Seq(BookingRows) /\ k \in Nat
      /\ \A j \in DOMAIN d.bookings : d.bookings[j] \in BookingRows
  BY DatabaseFields
<1>3. /\ DOMAIN e.bookings = DOMAIN d.bookings /\ Len(e.bookings) = Len(d.bookings)
      /\ \A j \in DOMAIN d.bookings :
           /\ e.bookings[j].owner = d.bookings[j].owner
           /\ e.bookings[j].resource = d.bookings[j].resource
           /\ e.bookings[j].status = IF j = k THEN "cancelled" ELSE d.bookings[j].status
  BY <1>1, <1>2 DEF BookingRows
<1>4. Logs(d, e, a) /\ a.action = "booking.cancel" /\ a.id = k /\ a.actor = u
  BY <1>1, <1>2 DEF Logs, AuditRows, AuditActions
<1>. HIDE DEF a
<1>5. FactsKept(d, e)
  BY <1>1, <1>3 DEF FactsKept
<1>6. CanView(u, d.bookings[k])
  BY DEF Cancel
<1>7. RowEntitled(e, a)
  BY <1>3, <1>4, <1>6 DEF RowEntitled, CanView
<1>8. AllEntitled(e)
  BY <1>4, <1>5, <1>7, AllEntitledStep DEF Audited
<1>9. \A j \in DOMAIN e.bookings :
        IF About(e, a, j)
          THEN e.bookings[j].status = StatusAfter(a.action)
          ELSE j \in DOMAIN d.bookings /\ e.bookings[j].status = d.bookings[j].status
  BY <1>3, <1>4 DEF About, StatusAfter
<1>10. Explained(e)
  BY <1>4, <1>5, <1>9, ExplainedStep DEF Audited
<1>11. /\ WrittenOnce(e, "booking.create", Len(e.bookings))
       /\ WrittenOnce(e, "checkout.create", Len(e.checkouts))
       /\ WrittenOnce(e, "checkin.create", Len(e.checkins))
  BY <1>1, <1>3, <1>4, OtherRowWritten DEF Audited
<1>. QED
  BY <1>8, <1>10, <1>11 DEF Audited

LEMMA CheckOutAudited ==
  ASSUME NEW d \in Database, NEW u \in Users, NEW r \in Resources,
         NEW k \in {NoBooking} \cup DOMAIN d.bookings, NEW e, CheckOut(d, e, u, r, k),
         Audited(d)
  PROVE  Audited(e)
<1>. DEFINE new == [resource |-> r, booking |-> k, user |-> u, open |-> TRUE]
            n == Len(d.checkouts) + 1
            a == [actor |-> u, action |-> "checkout.create", id |-> n]
<1>1. /\ e.bookings = d.bookings /\ e.checkins = d.checkins
      /\ e.checkouts = Append(d.checkouts, new) /\ e.audit = Append(d.audit, a)
  BY DEF CheckOut, InsertAudit, InsertCheckout, Database
<1>2. new \in CheckoutRows /\ new.user = u /\ new.resource = r
  BY DatabaseFields DEF CheckoutRows, NoBooking
<1>3. d.checkouts \in Seq(CheckoutRows)
  BY DatabaseFields
<1>. HIDE DEF new
<1>4. /\ \A c \in DOMAIN d.checkouts :
           c \in DOMAIN e.checkouts /\ e.checkouts[c] = d.checkouts[c]
      /\ e.checkouts[n] = new /\ n \in DOMAIN e.checkouts
      /\ Len(e.checkouts) = n /\ Len(d.checkouts) \in Nat
  BY <1>1, <1>2, <1>3, AppendedRow
<1>5. Logs(d, e, a) /\ a.action = "checkout.create" /\ a.id = n /\ a.actor = u
  BY <1>1, <1>4 DEF Logs, AuditRows, AuditActions
<1>. HIDE DEF n, a
<1>6. FactsKept(d, e)
  BY <1>1, <1>4 DEF FactsKept
<1>7. u \in Managers => CanManage(u, r)
  BY DEF CheckOut
<1>8. RowEntitled(e, a)
  BY <1>2, <1>4, <1>5, <1>7 DEF RowEntitled
<1>9. AllEntitled(e)
  BY <1>5, <1>6, <1>8, AllEntitledStep DEF Audited
<1>10. \A j \in DOMAIN e.bookings :
         IF About(e, a, j)
           THEN e.bookings[j].status = StatusAfter(a.action)
           ELSE j \in DOMAIN d.bookings /\ e.bookings[j].status = d.bookings[j].status
  BY <1>1, <1>5 DEF About
<1>11. Explained(e)
  BY <1>5, <1>6, <1>10, ExplainedStep DEF Audited
<1>12. WrittenOnce(e, "checkout.create", Len(e.checkouts))
  BY <1>4, <1>5, IdsInUse, NextRowWritten DEF Audited, n
<1>13. /\ WrittenOnce(e, "booking.create", Len(e.bookings))
       /\ WrittenOnce(e, "checkin.create", Len(e.checkins))
  BY <1>1, <1>5, OtherRowWritten DEF Audited
<1>. QED
  BY <1>9, <1>11, <1>12, <1>13 DEF Audited

LEMMA CheckInAudited ==
  ASSUME NEW d \in Database, NEW u \in Users, NEW c \in DOMAIN d.checkouts,
         NEW damaged \in BOOLEAN, NEW e, CheckIn(d, e, u, c, damaged), Audited(d)
  PROVE  Audited(e)
<1>. DEFINE new == [checkout |-> c, user |-> u, damaged |-> damaged]
            n == Len(d.checkins) + 1
            b == d.checkouts[c].booking
            a == [actor |-> u, action |-> "checkin.create", id |-> n]
<1>1. /\ e.checkouts = [d.checkouts EXCEPT ![c].open = FALSE]
      /\ e.checkins = Append(d.checkins, new)
      /\ e.audit = Append(d.audit, a)
      /\ e.bookings = [k \in DOMAIN d.bookings |->
                         IF k = b THEN [d.bookings[k] EXCEPT !.status = "completed"]
                                  ELSE d.bookings[k]]
  BY DEF CheckIn, InsertAudit, ReturnCheckout, Database
<1>2. /\ d.bookings \in Seq(BookingRows) /\ d.checkins \in Seq(CheckinRows)
      /\ d.checkouts \in Seq(CheckoutRows) /\ c \in Nat
      /\ \A k \in DOMAIN d.bookings : d.bookings[k] \in BookingRows
      /\ \A j \in DOMAIN d.checkouts : d.checkouts[j] \in CheckoutRows
  BY DatabaseFields
<1>3. /\ DOMAIN e.checkouts = DOMAIN d.checkouts /\ Len(e.checkouts) = Len(d.checkouts)
      /\ \A j \in DOMAIN d.checkouts :
           /\ e.checkouts[j].booking = d.checkouts[j].booking
           /\ e.checkouts[j].user = d.checkouts[j].user
           /\ e.checkouts[j].resource = d.checkouts[j].resource
  BY <1>1, <1>2 DEF CheckoutRows
<1>4. new \in CheckinRows /\ new.checkout = c
  BY <1>2 DEF CheckinRows
<1>. HIDE DEF new
<1>5. /\ \A i \in DOMAIN d.checkins : i \in DOMAIN e.checkins /\ e.checkins[i] = d.checkins[i]
      /\ e.checkins[n] = new /\ n \in DOMAIN e.checkins
      /\ Len(e.checkins) = n /\ Len(d.checkins) \in Nat
  BY <1>1, <1>2, <1>4, AppendedRow
<1>6. Logs(d, e, a) /\ a.action = "checkin.create" /\ a.id = n /\ a.actor = u
  BY <1>1, <1>5 DEF Logs, AuditRows, AuditActions
<1>. HIDE DEF n, a, b
<1>7. /\ DOMAIN e.bookings = DOMAIN d.bookings
      /\ \A k \in DOMAIN d.bookings :
           /\ e.bookings[k].owner = d.bookings[k].owner
           /\ e.bookings[k].resource = d.bookings[k].resource
           /\ e.bookings[k].status = IF k = b THEN "completed" ELSE d.bookings[k].status
  BY <1>1, <1>2 DEF BookingRows
<1>8. Len(e.bookings) = Len(d.bookings)
  BY <1>1, <1>2
<1>9. FactsKept(d, e)
  BY <1>3, <1>5, <1>7 DEF FactsKept
<1>10. d.checkouts[c].user = u \/ CanManage(u, d.checkouts[c].resource)
  BY DEF CheckIn
<1>11. RowEntitled(e, a)
  BY <1>3, <1>4, <1>5, <1>6, <1>10 DEF RowEntitled
<1>12. AllEntitled(e)
  BY <1>6, <1>9, <1>11, AllEntitledStep DEF Audited
<1>13. \A k : About(e, a, k) <=> k = b
  BY <1>3, <1>4, <1>5, <1>6 DEF About, b
<1>14. \A k \in DOMAIN e.bookings :
         IF About(e, a, k)
           THEN e.bookings[k].status = StatusAfter(a.action)
           ELSE k \in DOMAIN d.bookings /\ e.bookings[k].status = d.bookings[k].status
  BY <1>6, <1>7, <1>13 DEF StatusAfter
<1>15. Explained(e)
  BY <1>6, <1>9, <1>14, ExplainedStep DEF Audited
<1>16. WrittenOnce(e, "checkin.create", Len(e.checkins))
  BY <1>5, <1>6, IdsInUse, NextRowWritten DEF Audited, n
<1>17. /\ WrittenOnce(e, "booking.create", Len(e.bookings))
       /\ WrittenOnce(e, "checkout.create", Len(e.checkouts))
  BY <1>3, <1>6, <1>8, OtherRowWritten DEF Audited
<1>. QED
  BY <1>12, <1>15, <1>16, <1>17 DEF Audited

\* Every ledger step leaves an audit trail that explains the tables.
LEMMA AuditedStep ==
  ASSUME NEW d \in Database, NEW e, Audited(d), LedgerStep(d, e)
  PROVE  Audited(e)
<1>1. \A win \in Windows : win[1] \in Nat /\ win[2] \in Nat
  BY ClockAssumption
<1>2. PICK u \in Users :
        \/ \E r \in Resources, win \in Windows : Book(d, e, u, r, win[1], win[2])
        \/ \E k \in DOMAIN d.bookings : Cancel(d, e, u, k)
        \/ \E r \in Resources, k \in {NoBooking} \cup DOMAIN d.bookings : CheckOut(d, e, u, r, k)
        \/ \E c \in DOMAIN d.checkouts, damaged \in BOOLEAN : CheckIn(d, e, u, c, damaged)
  BY DEF LedgerStep
<1>. QED
  BY <1>1, <1>2, BookAudited, CancelAudited, CheckOutAudited, CheckInAudited

-----------------------------------------------------------------------------
(* The theorems.                                                           *)

LedgerInvariant == db \in Database /\ NoDoubleBooking /\ CustodyMatchesStatus /\ Trail(db)

\* The ledger's inductive invariant.
LEMMA LedgerInductive == LedgerSpec => []LedgerInvariant
<1>1. ASSUME db \in InitialDatabases PROVE LedgerInvariant
  <2>1. db \in Database
    BY <1>1, InitialType
  <2>2. /\ db.bookings = <<>> /\ db.checkouts = <<>>
        /\ \A r \in Resources : db.status[r] # "checked_out"
    BY <1>1, StatusAssumption DEF InitialDatabases
  <2>3. \A r \in Resources : OpenCheckouts(db, r) = {}
    BY <2>2 DEF OpenCheckouts
  <2>4. db.checkins = <<>>
    BY <1>1 DEF InitialDatabases
  <2>5. Trail(db)
    BY <2>2, <2>4 DEF Trail, Backed, Returned, Spent
  <2>. QED
    BY <2>1, <2>2, <2>3, <2>5 DEF LedgerInvariant, NoDoubleBooking, CustodyMatchesStatus
<1>2. ASSUME LedgerInvariant, [LedgerStep(db, db')]_db PROVE LedgerInvariant'
  <2>1. CASE db' = db
    BY <1>2, <2>1 DEF LedgerInvariant, NoDoubleBooking, CustodyMatchesStatus
  <2>2. CASE LedgerStep(db, db')
    <3>1. db' \in Database
      BY <1>2, <2>2, LedgerStepKeeps DEF LedgerInvariant
    <3>2. NoDoubleBooking'
      BY <1>2, <2>2, <3>1, DoubleBookingStep DEF LedgerInvariant
    <3>3. Custody(db)
      BY <1>2 DEF LedgerInvariant, CustodyMatchesStatus, Custody
    <3>4. Custody(db')
      BY <1>2, <2>2, <3>3, CustodyStep DEF LedgerInvariant
    <3>5. CustodyMatchesStatus'
      BY <3>4 DEF CustodyMatchesStatus, Custody
    <3>6. Trail(db')
      BY <1>2, <2>2, TrailStep DEF LedgerInvariant
    <3>. QED
      BY <3>1, <3>2, <3>5, <3>6 DEF LedgerInvariant
  <2>. QED
    BY <1>2, <2>1, <2>2
<1>. QED
  BY <1>1, <1>2, PTL DEF LedgerSpec

\* Two confirmed bookings of a resource never overlap, whatever is booked and
\* cancelled in whatever order (application.py:278-282).
THEOREM LedgerNeverDoubleBooks == LedgerSpec => []NoDoubleBooking
BY LedgerInductive, PTL DEF LedgerInvariant

\* A resource says "checked_out" exactly while its one checkout is open
\* (application.py:192-209 and 240-250).
THEOREM LedgerKeepsCustody == LedgerSpec => []CustodyMatchesStatus
BY LedgerInductive, PTL DEF LedgerInvariant

\* A resource is out on a booking of the person who took it, not completed and
\* used for nothing else, or on an administrator's word (application.py:200-205).
THEOREM LedgerBacksCheckouts == LedgerSpec => []CheckoutsAreBacked
<1>1. LedgerInvariant => CheckoutsAreBacked
  BY DEF LedgerInvariant, Trail, Backed, CheckoutsAreBacked
<1>. QED
  BY <1>1, LedgerInductive, PTL

\* A checkout is closed by one check-in, and nothing else completes a booking
\* (application.py:244-249).
THEOREM LedgerMatchesReturns == LedgerSpec => []ReturnsMatchCheckins
<1>1. LedgerInvariant => ReturnsMatchCheckins
  <2>. SUFFICES ASSUME LedgerInvariant PROVE ReturnsMatchCheckins
    OBVIOUS
  <2>1. \A c \in DOMAIN db.checkouts : db.checkouts[c] \in CheckoutRows
    BY DatabaseFields DEF LedgerInvariant
  <2>2. \A c \in DOMAIN db.checkouts : db.checkouts[c].open \in BOOLEAN
    BY <2>1 DEF CheckoutRows
  <2>3. Returned(db)
    BY DEF LedgerInvariant, Trail
  <2>. QED
    BY <2>2, <2>3 DEF Returned, ReturnsMatchCheckins
<1>. QED
  BY <1>1, LedgerInductive, PTL

AuditInvariant == Audited(db)

\* The audit trail's part of the ledger's inductive invariant.
LEMMA AuditInductive == LedgerSpec => []AuditInvariant
<1>1. db \in InitialDatabases => AuditInvariant
  <2>. SUFFICES ASSUME db \in InitialDatabases PROVE Audited(db)
    BY DEF AuditInvariant
  <2>1. /\ db.bookings = <<>> /\ db.checkouts = <<>> /\ db.checkins = <<>> /\ db.audit = <<>>
    BY DEF InitialDatabases
  <2>2. AllEntitled(db) /\ Explained(db)
    BY <2>1 DEF AllEntitled, Explained
  <2>3. \A action : WrittenOnce(db, action, 0)
    BY DEF WrittenOnce
  <2>. QED
    BY <2>1, <2>2, <2>3 DEF Audited
<1>2. LedgerInvariant /\ AuditInvariant /\ [LedgerStep(db, db')]_db => AuditInvariant'
  BY AuditedStep DEF LedgerInvariant, AuditInvariant
<1>. QED
  BY <1>1, <1>2, LedgerInductive, PTL DEF LedgerSpec

\* Every audit row names someone who was entitled to what it records
\* (application.py:181-184, 242-243, 281 and 296).
THEOREM LedgerActorsEntitled == LedgerSpec => []EntitledActors
<1>1. LedgerInvariant /\ AuditInvariant => EntitledActors
  <2>. SUFFICES ASSUME LedgerInvariant, AuditInvariant, NEW i \in DOMAIN db.audit
                PROVE  LET a == db.audit[i] IN
                       CASE a.action = "booking.create" -> db.bookings[a.id].owner = a.actor
                         [] a.action = "booking.cancel" -> CanView(a.actor, db.bookings[a.id])
                         [] a.action = "checkout.create" ->
                              /\ db.checkouts[a.id].user = a.actor
                              /\ a.actor \in Managers =>
                                   CanManage(a.actor, db.checkouts[a.id].resource)
                         [] a.action = "checkin.create" ->
                              LET out == db.checkouts[db.checkins[a.id].checkout] IN
                              out.user = a.actor \/ CanManage(a.actor, out.resource)
    BY DEF EntitledActors
  <2>1. db.audit[i] \in AuditRows
    BY DatabaseFields DEF LedgerInvariant
  <2>2. db.audit[i].action \in AuditActions
    BY <2>1 DEF AuditRows
  <2>3. RowEntitled(db, db.audit[i])
    BY DEF AuditInvariant, Audited, AllEntitled
  <2>. QED
    BY <2>2, <2>3 DEF RowEntitled, AuditActions
<1>. QED
  BY <1>1, LedgerInductive, AuditInductive, PTL

\* The audit log alone explains the tables: one row for each booking, checkout and
\* check-in, and the last row about a booking is what it is (the audit call of
\* each transaction of application.py:190-302).
THEOREM LedgerAuditExplains == LedgerSpec => []AuditExplainsTables
<1>1. AuditInvariant => AuditExplainsTables
  <2>. SUFFICES ASSUME Audited(db) PROVE AuditExplainsTables
    BY DEF AuditInvariant
  <2>1. \A k : \A i \in DOMAIN db.audit : i \in AboutBooking(db, k) <=> About(db, db.audit[i], k)
    BY DEF AboutBooking, About
  <2>2. \A k : AboutBooking(db, k) \subseteq DOMAIN db.audit
    BY DEF AboutBooking
  <2>3. \A k \in DOMAIN db.bookings :
          \E i \in AboutBooking(db, k) :
            /\ \A j \in AboutBooking(db, k) : j <= i
            /\ db.bookings[k].status = StatusAfter(db.audit[i].action)
    BY <2>1, <2>2 DEF Audited, Explained
  <2>. QED
    BY <2>3 DEF Audited, AuditExplainsTables
<1>. QED
  BY <1>1, AuditInductive, PTL

=============================================================================
