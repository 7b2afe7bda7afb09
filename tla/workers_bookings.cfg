CONSTANTS
  Users = {"emp", "adm"}
  Admins = {"adm"}
  Managers = {}
  Resources = {"van"}
  Bookable = {"van"}
  Responsible <- Unmanaged
  Nobody = "nobody"
  DayLength = 1
  Windows <- Nights
  InitialStatuses = {"available"}
  Clients = {"emp"}
  Workers = {w1, w2}
  NoWorker = NoWorker
  MinDuration = 1
  MaxDuration = 2
  AdvanceLimit = 2
  MaxTime = 2
  MaxBookings = 2
SPECIFICATION Spec
SYMMETRY WorkerSymmetry
INVARIANTS
  NoDoubleBooking
  AuditExplainsTables
  OneActiveBooking
PROPERTIES
  HistoryIsKept
