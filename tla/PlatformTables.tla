--------------------------- MODULE PlatformTables ---------------------------
(***************************************************************************)
(* The SQLite tables the booking and lifecycle routes share, the SQL       *)
(* statements they run on them as pure operators over a database value,    *)
(* and the authorization rules of resource_platform/models.py.             *)
(*                                                                         *)
(* A database value is a record of tables.  Rows are appended and never    *)
(* deleted, so a table is a sequence and a row id is its position: SQLite  *)
(* gives an INTEGER PRIMARY KEY the value max(rowid) + 1.                  *)
(***************************************************************************)
EXTENDS Naturals, Sequences

CONSTANTS
  Users,        \* accounts whose users.status is 'active'
  Admins,       \* those with role administrator or super_administrator
  Managers,     \* those with role resource_manager
  Resources,    \* rows of resources
  Bookable,     \* those with is_bookable = 1; no route changes the column
  Responsible,  \* resources.responsible_manager_id; no route changes it
  Nobody,       \* an anonymous client, and the NULL responsible manager
  DayLength,    \* clock ticks in one UTC day
  Windows,      \* the <<start, end>> pairs clients ask for
  InitialStatuses  \* what a resource's status may be when the service starts

ASSUME RolesAssumption ==
  /\ Admins \subseteq Users
  /\ Managers \subseteq Users
  /\ Nobody \notin Users
  /\ Bookable \subseteq Resources
  /\ Responsible \in [Resources -> Users \cup {Nobody}]

ASSUME ClockAssumption ==
  /\ DayLength \in Nat \ {0}
  /\ Windows \subseteq Nat \X Nat

-----------------------------------------------------------------------------
(* Rows. *)

Statuses == {"available", "reserved", "checked_out", "under_maintenance",
             "damaged", "lost", "unavailable", "archived"}

\* The NULL of checkouts.booking_id: an administrator's override.
NoBooking == 0

BookingRows == [resource : Resources, owner : Users, start : Nat, end : Nat,
                status : {"confirmed", "cancelled", "completed"}]

\* "open" is checked_in_at IS NULL.
CheckoutRows == [resource : Resources, booking : Nat, user : Users, open : BOOLEAN]

CheckinRows == [checkout : Nat, user : Users, damaged : BOOLEAN]

AuditActions == {"booking.create", "booking.cancel", "checkout.create", "checkin.create"}

AuditRows == [actor : Users, action : AuditActions, id : Nat]

Database == [status    : [Resources -> Statuses],
             bookings  : Seq(BookingRows),
             checkouts : Seq(CheckoutRows),
             checkins  : Seq(CheckinRows),
             audit     : Seq(AuditRows)]

\* A resource is not out before its first checkout.
ASSUME StatusAssumption == InitialStatuses \subseteq Statuses \ {"checked_out"}

InitialDatabases ==
  [status : [Resources -> InitialStatuses], bookings : {<<>>},
   checkouts : {<<>>}, checkins : {<<>>}, audit : {<<>>}]

-----------------------------------------------------------------------------
(* Authorization. *)

IsAdmin(u) == u \in Admins

CanManage(u, r) == IsAdmin(u) \/ (u \in Managers /\ Responsible[r] = u)

OutOfService == {"archived", "damaged", "unavailable", "under_maintenance"}

CanUse(d, r) == d.status[r] \notin OutOfService /\ r \in Bookable

\* Mutant: a manager is treated as any other user.
MayCheckOutUsable(d, u, r) == IsAdmin(u) \/ CanUse(d, r)

\* A manager may check out only what he manages; the others what is usable.
MayCheckOut(d, u, r) ==
  \/ IsAdmin(u)
  \/ u \in Managers /\ CanManage(u, r)
  \/ u \notin Managers /\ CanUse(d, r)

CanView(u, b) == IsAdmin(u) \/ b.owner = u \/ CanManage(u, b.resource)

-----------------------------------------------------------------------------
(* Queries. *)

\* Mutant: looks only for a booking that is running when the new one starts.
OverlapsAtStart(b, s, e) == b.start <= s /\ s < b.end

\* Windows are half open: a booking may start when another ends.
Overlaps(b, s, e) == b.end > s /\ b.start < e

\* The overlap query the booking route runs before it inserts.
ConflictingBooking(d, r, s, e) ==
  \E k \in DOMAIN d.bookings :
    /\ d.bookings[k].resource = r
    /\ d.bookings[k].status = "confirmed"
    /\ Overlaps(d.bookings[k], s, e)

\* Trigger prevent_confirmed_booking_overlap.
OverlapTriggerAborts(d, new) ==
  new.status = "confirmed" /\ ConflictingBooking(d, new.resource, new.start, new.end)

Day(t) == t \div DayLength

\* start_at_utc <= CURRENT_TIMESTAMP AND end_at_utc >= CURRENT_TIMESTAMP is a
\* comparison of text.  The application stores "YYYY-MM-DDTHH:MM:SS+00:00",
\* SQLite's clock reads "YYYY-MM-DD HH:MM:SS", and "T" sorts after " ": on equal
\* dates the stored text is the greater one, whatever the times of day are.
DateStarted(b, t) == Day(b.start) <= Day(t)  \* Mutant: compares dates only
TextStarted(b, t) == Day(b.start) < Day(t)
TextNotEnded(b, t) == Day(b.end) >= Day(t)

\* Mutant: anybody's booking of the resource will do.
ActiveBookingsOfAnyone(d, u, r, t) ==
  {k \in DOMAIN d.bookings :
     /\ d.bookings[k].resource = r
     /\ d.bookings[k].status = "confirmed"
     /\ TextStarted(d.bookings[k], t)
     /\ TextNotEnded(d.bookings[k], t)}

\* The confirmed bookings of u that the checkout query takes as active at t.
ActiveBookings(d, u, r, t) ==
  {k \in DOMAIN d.bookings :
     /\ d.bookings[k].resource = r
     /\ d.bookings[k].owner = u
     /\ d.bookings[k].status = "confirmed"
     /\ TextStarted(d.bookings[k], t)
     /\ TextNotEnded(d.bookings[k], t)}

\* ORDER BY start_at_utc LIMIT 1
FirstToStart(d, ks) ==
  CHOOSE k \in ks : \A j \in ks : d.bookings[k].start <= d.bookings[j].start

\* Mutant: checked_in_at IS NULL forgotten.
AllCheckouts(d, r) == {c \in DOMAIN d.checkouts : d.checkouts[c].resource = r}

\* The checkouts of r that are not closed.
OpenCheckouts(d, r) ==
  {c \in DOMAIN d.checkouts : d.checkouts[c].resource = r /\ d.checkouts[c].open}

\* The one the check-in route closes: fetchone of the select by id.
CheckoutToClose(d, r) ==
  CHOOSE c \in OpenCheckouts(d, r) : \A j \in OpenCheckouts(d, r) : c <= j

\* Mutant: only the checkout state is read again, not the service status.
NotOut(d, r) == d.status[r] # "checked_out" /\ r \in Bookable

\* What the checkout route refuses when it reads the resource again.
Rentable(d, r) ==
  d.status[r] \notin OutOfService \cup {"checked_out"} /\ r \in Bookable

-----------------------------------------------------------------------------
(* Constraints of the schema, checked by the INSERT they guard. *)

\* UNIQUE(booking_id), and the partial index idx_active_checkout_resource.
CheckoutConstraintFails(d, new) ==
  \E c \in DOMAIN d.checkouts :
    \/ new.booking # NoBooking /\ d.checkouts[c].booking = new.booking
    \/ new.open /\ d.checkouts[c].open /\ d.checkouts[c].resource = new.resource

\* booking_id NOT NULL, which migration 0005 relaxed for checkouts only.
CheckinBookingIsNull(d, c) == d.checkouts[c].booking = NoBooking

\* checkout_id UNIQUE
CheckinExists(d, c) == \E i \in DOMAIN d.checkins : d.checkins[i].checkout = c

-----------------------------------------------------------------------------
(* The statements each route runs inside its transaction, audit row apart. *)

InsertBooking(d, new) == [d EXCEPT !.bookings = Append(@, new)]

CancelBooking(d, k) == [d EXCEPT !.bookings[k].status = "cancelled"]

InsertCheckout(d, new) ==
  [d EXCEPT !.checkouts = Append(@, new),
            !.status[new.resource] = "checked_out"]

\* Mutant: the booking is confirmed again instead of completed.
ReturnReconfirms(d, c, u, damaged) ==
  [status    |-> [d.status EXCEPT ![d.checkouts[c].resource] =
                    IF damaged THEN "damaged" ELSE "available"],
   bookings  |-> [k \in DOMAIN d.bookings |->
                    IF k = d.checkouts[c].booking
                      THEN [d.bookings[k] EXCEPT !.status = "confirmed"]
                      ELSE d.bookings[k]],
   checkouts |-> [d.checkouts EXCEPT ![c].open = FALSE],
   checkins  |-> Append(d.checkins, [checkout |-> c, user |-> u, damaged |-> damaged]),
   audit     |-> d.audit]

\* Mutants: the resource is left as it was; the checkout is left open; the
\* condition of the form is written where the status belongs.
ReturnForgetsResource(d, c, u, damaged) ==
  [ReturnReconfirms(d, c, u, damaged) EXCEPT !.status = d.status]
ReturnForgetsCheckout(d, c, u, damaged) ==
  [ReturnReconfirms(d, c, u, damaged) EXCEPT !.checkouts = d.checkouts]
ReturnWritesCondition(d, c, u, damaged) ==
  [ReturnReconfirms(d, c, u, damaged) EXCEPT
     !.status[d.checkouts[c].resource] = IF damaged THEN "minor_issue" ELSE "good"]

\* The checkin row, the checkout closed, its booking completed whatever its
\* status was, and the resource back in service or out of it.
ReturnCheckout(d, c, u, damaged) ==
  [status    |-> [d.status EXCEPT ![d.checkouts[c].resource] =
                    IF damaged THEN "damaged" ELSE "available"],
   bookings  |-> [k \in DOMAIN d.bookings |->
                    IF k = d.checkouts[c].booking
                      THEN [d.bookings[k] EXCEPT !.status = "completed"]
                      ELSE d.bookings[k]],
   checkouts |-> [d.checkouts EXCEPT ![c].open = FALSE],
   checkins  |-> Append(d.checkins, [checkout |-> c, user |-> u, damaged |-> damaged]),
   audit     |-> d.audit]

InsertAudit(d, actor, action, id) ==
  [d EXCEPT !.audit = Append(@, [actor |-> actor, action |-> action, id |-> id])]

=============================================================================
