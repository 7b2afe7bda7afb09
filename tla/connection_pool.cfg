SPECIFICATION Spec
CONSTANTS
  Threads = {t1, t2}
  Pools = {p1, p2}
  NoPool = NoPool
  NoConnection = NoConnection
  MinSize = 1
  MaxSize = 2
INVARIANTS
  TypeOK
  TransactionsArePrivate
  CapacityIsRecovered
PROPERTIES
  BoundIsRestored
  ShutdownIsClean
