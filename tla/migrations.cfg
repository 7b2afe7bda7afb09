SPECIFICATION Spec
CONSTANTS
  Migrators = {m1, m2}
  Nobody = Nobody
  MaxStops = 2
INVARIANTS
  TypeOK
  ReadyIsMigrated
  RecordedIsMigrated
  RefusedOnlyWhenDone
PROPERTIES
  RowsAreKept
  Migrated
