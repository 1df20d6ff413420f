\* The server's SCHWAB_POSITIONS_TOKEN_PATH is not the auth CLI's default path.
CONSTANTS
  NoFile = NoFile
  NoClient = NoClient
  Paths = {default, override}
  AuthPath = default
  ProbePath = override
  ServerPath = override
  Servers = {s1}
  CredServers = {s1}
  Checkers = {}
  CheckPath = override
  Grain = 1
  NoEstimate = NoEstimate
  ProbeCreds = TRUE
  DesktopWritable = TRUE
  Lifetime = 3
  Warn = 2
  Critical = 1
  MaxGap = 8
  LastLogin = 1
  MaxClock = 6
SPECIFICATION SessionSpec
INVARIANTS LoginMakesAvailable
