CONSTANTS
  Users = {"mgr", "oth", "adm"}
  Admins = {"adm"}
  Managers = {"mgr", "oth"}
  Resources = {"van"}
  Bookable = {"van"}
  Responsible <- VanManaged
  Nobody = "nobody"
  DayLength = 2
  Windows <- FirstNight
  InitialStatuses = {"available"}
  Clients = {"nobody", "mgr", "oth"}
  Workers = {w1, w2}
  NoWorker = NoWorker
  MinDuration = 1
  MaxDuration = 2
  AdvanceLimit = 2
  MaxTime = 2
  MaxBookings = 1
SPECIFICATION FairSpec
INVARIANTS
  EntitledActors
PROPERTIES
  RequestsAreAnswered
  WriterLockIsReleased
