\* A re-login under a server that still refreshes the older grant.
CONSTANTS
  NoFile = NoFile
  NoClient = NoClient
  Paths = {default}
  AuthPath = default
  ProbePath = default
  ServerPath = default
  Servers = {s1}
  CredServers = {s1}
  Checkers = {}
  CheckPath = default
  Grain = 1
  NoEstimate = NoEstimate
  ProbeCreds = TRUE
  DesktopWritable = TRUE
  Lifetime = 3
  Warn = 2
  Critical = 1
  MaxGap = 1
  LastLogin = 1
  MaxClock = 6
SPECIFICATION Spec
INVARIANTS WarnedOnPrimaryPath
