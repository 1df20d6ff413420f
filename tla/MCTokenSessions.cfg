\* Two servers, logins in three units, no probe.
CONSTANTS
  NoFile = NoFile
  NoClient = NoClient
  Paths = {default}
  AuthPath = default
  ProbePath = default
  ServerPath = default
  Servers = {s1, s2}
  CredServers = {s1, s2}
  Checkers = {s1}
  CheckPath = default
  Grain = 3
  NoEstimate = NoEstimate
  ProbeCreds = TRUE
  DesktopWritable = TRUE
  Lifetime = 3
  Warn = 2
  Critical = 1
  MaxGap = 8
  LastLogin = 2
  MaxClock = 5
SPECIFICATION SessionSpec
INVARIANTS HealthCheckEstimate MtimeWithinLife OnlyIssuedGrants
PROPERTIES OnlyLiveGrantsReturn
