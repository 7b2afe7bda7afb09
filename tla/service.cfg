SPECIFICATION Spec
CONSTANTS
  Users = {"admin", "mgr"}
  Nobody = "nobody"
  Hosts = {h1, h2}
  NoHost = NoHost
  NoCookie = NoCookie
  MaxAge = 2
  Tolerance = 1
  MaxSkew = 1
  MaxTime = 4
  MaxCookies = 2
  Admins = {"admin"}
  Managers = {"mgr"}
  Responsible = "mgr"
  Assets = {a}
  NoAsset = NoAsset
  MaxRows = 2
  MaxAudit = 4
  MaxSignals = 3
  Zones <- HalfHourZones
  Walls <- HalfHours
  NoOffset = NoOffset
  Pending = Pending
  Rejected = Rejected
  MaxTokens = 3
INVARIANTS
  TypeOK
  SessionLifetime
  LastAuditDescribesRow
  StopsOnce
  AcceptsWhatHappensOnce
  RendersMarkers
PROPERTIES
  ImplementsCatalogue
  Stops
CHECK_DEADLOCK FALSE
