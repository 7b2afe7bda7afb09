-------------------------- MODULE ReservationLedger --------------------------
(***************************************************************************)
(* What the booking and lifecycle routes promise: each request that is     *)
(* acknowledged is one indivisible step of the tables, the audit row       *)
(* included, and each request that is not acknowledged is no step at all.  *)
(* There are no workers, locks or transactions here.                       *)
(*                                                                         *)
(* A promise is a relation between the tables d before the step and the    *)
(* tables e after it.                                                      *)
(***************************************************************************)
EXTENDS PlatformTables

VARIABLE db

\* A confirmed booking for a bookable resource whose slot is free.
Book(d, e, u, r, start, end) ==
  LET new == [resource |-> r, owner |-> u, start |-> start, end |-> end,
              status |-> "confirmed"]
  IN /\ start < end
     /\ r \in Bookable
     /\ ~ConflictingBooking(d, r, start, end)
     /\ e = InsertAudit(InsertBooking(d, new), u, "booking.create", Len(d.bookings) + 1)

\* The route reads the status before its transaction and does not look again,
\* so the step itself is not restricted to confirmed bookings.
Cancel(d, e, u, k) ==
  /\ CanView(u, d.bookings[k])
  /\ e = InsertAudit(CancelBooking(d, k), u, "booking.cancel", k)

\* The resource is handed to the owner of a confirmed booking, or to an
\* administrator without one; a manager is handed only what he manages.
CheckOut(d, e, u, r, k) ==
  LET new == [resource |-> r, booking |-> k, user |-> u, open |-> TRUE]
  IN /\ OpenCheckouts(d, r) = {}
     /\ Rentable(d, r)
     /\ u \in Managers => CanManage(u, r)
     /\ IF k = NoBooking
          THEN IsAdmin(u)
          ELSE /\ d.bookings[k].resource = r
               /\ d.bookings[k].owner = u
               /\ d.bookings[k].status = "confirmed"
     /\ e = InsertAudit(InsertCheckout(d, new), u, "checkout.create", Len(d.checkouts) + 1)

\* The holder, the responsible manager or an administrator returns it.
CheckIn(d, e, u, c, damaged) ==
  /\ d.checkouts[c].open
  /\ d.checkouts[c].user = u \/ CanManage(u, d.checkouts[c].resource)
  /\ e = InsertAudit(ReturnCheckout(d, c, u, damaged), u, "checkin.create",
                     Len(d.checkins) + 1)

LedgerStep(d, e) ==
  \E u \in Users :
    \/ \E r \in Resources, win \in Windows : Book(d, e, u, r, win[1], win[2])
    \/ \E k \in DOMAIN d.bookings : Cancel(d, e, u, k)
    \/ \E r \in Resources, k \in {NoBooking} \cup DOMAIN d.bookings : CheckOut(d, e, u, r, k)
    \/ \E c \in DOMAIN d.checkouts, damaged \in BOOLEAN : CheckIn(d, e, u, c, damaged)

LedgerSpec == db \in InitialDatabases /\ [][LedgerStep(db, db')]_db

-----------------------------------------------------------------------------
(* What the tables promise. *)

\* Two confirmed bookings of a resource never overlap, whatever bookings and
\* cancellations race (application.py:278-282, the trigger behind it).
NoDoubleBooking ==
  \A j, k \in DOMAIN db.bookings :
    /\ j # k
    /\ db.bookings[j].resource = db.bookings[k].resource
    /\ db.bookings[j].status = "confirmed"
    /\ db.bookings[k].status = "confirmed"
    => db.bookings[j].end <= db.bookings[k].start \/ db.bookings[k].end <= db.bookings[j].start

\* A resource has at most one open checkout, and says "checked_out" exactly
\* while it has one: the two tables the lifecycle routes update never disagree.
CustodyMatchesStatus ==
  \A r \in Resources :
    /\ (db.status[r] = "checked_out") = (OpenCheckouts(db, r) # {})
    /\ \A c1, c2 \in OpenCheckouts(db, r) : c1 = c2

\* A resource is out on a booking of the very person who took it, on a booking
\* nobody has completed, used for no other checkout; only an administrator has
\* one without a booking.
CheckoutsAreBacked ==
  \A c \in DOMAIN db.checkouts :
    LET out == db.checkouts[c] IN
    IF out.booking = NoBooking
      THEN IsAdmin(out.user)
      ELSE /\ out.booking \in DOMAIN db.bookings
           /\ db.bookings[out.booking].owner = out.user
           /\ db.bookings[out.booking].resource = out.resource
           /\ out.open => db.bookings[out.booking].status # "completed"
           /\ \A c2 \in DOMAIN db.checkouts :
                db.checkouts[c2].booking = out.booking => c2 = c

\* A checkout is closed by exactly one check-in, and a booking is completed only
\* by the return of the resource that was out on it.
ReturnsMatchCheckins ==
  /\ \A c \in DOMAIN db.checkouts :
       ~db.checkouts[c].open = (\E i \in DOMAIN db.checkins : db.checkins[i].checkout = c)
  /\ \A i, j \in DOMAIN db.checkins : db.checkins[i].checkout = db.checkins[j].checkout => i = j
  /\ \A k \in DOMAIN db.bookings :
       db.bookings[k].status = "completed" =>
         \E c \in DOMAIN db.checkouts : db.checkouts[c].booking = k /\ ~db.checkouts[c].open

\* Every row was written by someone entitled to it: bookings end at the hands of
\* their owner, the responsible manager or an administrator, a resource comes
\* back from its holder or those two, and a manager takes only what he manages.
EntitledActors ==
  \A i \in DOMAIN db.audit :
    LET a == db.audit[i] IN
    CASE a.action = "booking.create" -> db.bookings[a.id].owner = a.actor
      [] a.action = "booking.cancel" -> CanView(a.actor, db.bookings[a.id])
      [] a.action = "checkout.create" ->
           /\ db.checkouts[a.id].user = a.actor
           /\ a.actor \in Managers => CanManage(a.actor, db.checkouts[a.id].resource)
      [] a.action = "checkin.create" ->
           LET out == db.checkouts[db.checkins[a.id].checkout] IN
           out.user = a.actor \/ CanManage(a.actor, out.resource)

\* The audit rows about booking k, in the order they were written.
AboutBooking(d, k) ==
  {i \in DOMAIN d.audit :
     \/ d.audit[i].action \in {"booking.create", "booking.cancel"} /\ d.audit[i].id = k
     \/ /\ d.audit[i].action = "checkin.create"
        /\ d.checkouts[d.checkins[d.audit[i].id].checkout].booking = k}

StatusAfter(action) ==
  CASE action = "booking.create" -> "confirmed"
    [] action = "booking.cancel" -> "cancelled"
    [] action = "checkin.create" -> "completed"

WrittenOnce(d, action, n) ==
  \A id \in 1..n : \E i \in DOMAIN d.audit :
    /\ d.audit[i].action = action /\ d.audit[i].id = id
    /\ \A j \in DOMAIN d.audit : d.audit[j].action = action /\ d.audit[j].id = id => j = i

\* The audit trail alone explains the tables: the last row about a booking gives
\* its status, and every booking, checkout and check-in has one row, never two,
\* even when handlers race, fail half-way or die.
AuditExplainsTables ==
  /\ \A k \in DOMAIN db.bookings :
       \E i \in AboutBooking(db, k) :
         /\ \A j \in AboutBooking(db, k) : j <= i
         /\ db.bookings[k].status = StatusAfter(db.audit[i].action)
  /\ WrittenOnce(db, "booking.create", Len(db.bookings))
  /\ WrittenOnce(db, "checkout.create", Len(db.checkouts))
  /\ WrittenOnce(db, "checkin.create", Len(db.checkins))

=============================================================================
