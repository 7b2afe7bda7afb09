----------------------------- MODULE LocalTime -----------------------------
(***************************************************************************)
(* Local times, as users enter and see them.  schemas.py reads the fields  *)
(* of a booking form; time_handling.py does the same for repositories, and *)
(* takes text with an offset too.  A zone changes its offset at two        *)
(* instants: forward, one hour of local time never happens; back, one      *)
(* happens twice.                                                          *)
(***************************************************************************)
EXTENDS Integers, FiniteSets

CONSTANTS
  Zones,    \* [change : <<instant, instant>>, offset : <<before, between, after>>]
  Walls,    \* local times
  NoOffset,  \* text without an offset
  Pending, Rejected

VARIABLES
  parser,      \* "form" (schemas.py) or "shared" (time_handling.py)
  zone, value, \* what it is given
  fold,        \* the folds it has tried
  candidates,  \* the offsets that give the local time back
  instant      \* what it returns, or Rejected

\* Numbers, and zones whose clock has settled after one change before the next
\* makes it show a time again or skip one, as the clocks of the tz database do.
ZonesSettle ==
  /\ Walls \subseteq Int
  /\ \A z \in Zones :
       /\ z.change[1] \in Int /\ z.change[2] \in Int
       /\ \A k \in 1..3 : z.offset[k] \in Int
       /\ \A j \in 1..2, k \in 2..3 : z.change[1] + z.offset[j] <= z.change[2] + z.offset[k]

localTimeVars == <<parser, zone, value, fold, candidates, instant>>

Values == [wall : Walls, offset : {NoOffset} \cup UNION {{z.offset[k] : k \in 1..3} : z \in Zones}]

LocalTimeTypeOK ==
  /\ parser \in {"form", "shared"} /\ zone \in Zones /\ value \in Values
  /\ fold \in 0..2 /\ candidates \subseteq Int

LocalTimeInit ==
  /\ parser \in {"form", "shared"} /\ zone \in Zones /\ value \in Values
  /\ fold = 0 /\ candidates = {}
  /\ instant = Pending

-----------------------------------------------------------------------------
(* zoneinfo. *)

\* How many of the changes are over.
OffsetAfter(n) == zone.offset[n + 1]

OffsetAt(t) == OffsetAfter(Cardinality({k \in 1..2 : zone.change[k] <= t}))

\* local_display: an instant in local time.
Display(t) == t + OffsetAt(t)

\* Fold 0 reads a local time by the clock before a change for as long as that
\* clock shows times the other one has, or skips; fold 1 by the one after it.
OffsetOf(wall, f) ==
  LET around(k) == {zone.offset[k], zone.offset[k + 1]}
      least(k) == CHOOSE o \in around(k) : \A p \in around(k) : o <= p
      most(k) == CHOOSE o \in around(k) : \A p \in around(k) : p <= o
  IN  OffsetAfter(Cardinality({k \in 1..2 :
        zone.change[k] + (IF f = 0 THEN most(k) ELSE least(k)) <= wall}))

-----------------------------------------------------------------------------
(* The parsers. *)

\* Text with an offset: an instant for one, malformed for the other.
ParseAware ==
  /\ instant = Pending /\ value.offset # NoOffset
  /\ instant' = IF parser = "shared" THEN value.wall - value.offset ELSE Rejected
  /\ UNCHANGED <<parser, zone, value, fold, candidates>>

\* Mutant: tries fold 0 only, which zoneinfo takes if it is not told.
TryFirstFold ==
  LET offset == OffsetOf(value.wall, 0) IN
  /\ instant = Pending /\ value.offset = NoOffset /\ fold < 2
  /\ fold' = fold + 1
  /\ candidates' = IF Display(value.wall - offset) = value.wall
                     THEN candidates \cup {offset} ELSE candidates
  /\ UNCHANGED <<parser, zone, value, instant>>

TryFold ==
  LET offset == OffsetOf(value.wall, fold) IN
  /\ instant = Pending /\ value.offset = NoOffset /\ fold < 2
  /\ fold' = fold + 1
  /\ candidates' = IF Display(value.wall - offset) = value.wall
                     THEN candidates \cup {offset} ELSE candidates
  /\ UNCHANGED <<parser, zone, value, instant>>

Decide ==
  /\ instant = Pending /\ fold = 2
  /\ instant' = IF Cardinality(candidates) = 1
                  THEN value.wall - CHOOSE offset \in candidates : TRUE
                  ELSE Rejected
  /\ UNCHANGED <<parser, zone, value, fold, candidates>>

LocalTimeNext == ParseAware \/ TryFold \/ Decide

-----------------------------------------------------------------------------

\* The instants at which a clock of the zone shows the local time.
Happens(wall) ==
  {t \in {wall - zone.offset[k] : k \in 1..3} : Display(t) = wall}

\* A local time is accepted when it happens once, in the hours around a change
\* too, and means that instant; a user is shown what he has entered.
AcceptsWhatHappensOnce ==
  (instant # Pending /\ value.offset = NoOffset) =>
    instant = (IF Cardinality(Happens(value.wall)) = 1
                 THEN CHOOSE t \in Happens(value.wall) : TRUE
                 ELSE Rejected)

=============================================================================
