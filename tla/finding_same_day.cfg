CONSTANTS
  Users = {"emp", "adm"}
  Admins = {"adm"}
  Managers = {}
  Resources = {"van"}
  Bookable = {"van"}
  Responsible <- Unmanaged
  Nobody = "nobody"
  DayLength = 2
  Windows <- SameDay
  InitialStatuses = {"available"}
  Clients = {"emp"}
  Workers = {w1}
  NoWorker = NoWorker
  MinDuration = 1
  MaxDuration = 2
  AdvanceLimit = 2
  MaxTime = 2
  MaxBookings = 1
SPECIFICATION Spec
PROPERTIES
  ActiveBookingIsSeen
