\* A scheduled probe on both its paths, one login, a server that refreshes.
CONSTANTS
  NoFile = NoFile
  NoClient = NoClient
  Paths = {default}
  AuthPath = default
  ProbePath = default
  ServerPath = default
  Servers = {s1}
  CredServers = {s1}
  Checkers = {s1}
  CheckPath = default
  Grain = 1
  NoEstimate = NoEstimate
  ProbeCreds = TRUE
  DesktopWritable = TRUE
  Lifetime = 3
  Warn = 2
  Critical = 1
  MaxGap = 1
  LastLogin = 0
  MaxClock = 6
SPECIFICATION FairSpec
INVARIANTS WarnedOnPrimaryPath
PROPERTIES EventuallyAlarms CallsEnd
