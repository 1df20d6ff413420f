\* Memory: two threads, three keys, room for two.  ClickHouse: two clients, two keys and
\* two rows of responses; four rows of history.
CONSTANTS
  Miss = Miss
  dated = dated
  text = text
  Threads = {t1, t2}
  Keys = {k1, k2, k3}
  Values = {v1, v2}
  Clients = {c1, c2}
  CacheKeys = {r1, r2}
  Documents = {dated}
  Json <- DatesBecomeText
  Ttls <- MixedTtls
  Maxsize = 2
  MaxClock = 2
  MaxResponses = 2
  MaxSeconds = 2
  Limits = {0, 2, 3}
  MaxSeries = 4
  MaxStamp = 2
  BackendNames <- Names
SPECIFICATION BackendSpec
INVARIANTS BackendTypeOK Bounded
PROPERTIES EvictsLeastRecentlyUsed ImplementsResponseCache HitsGoBackOnlyPastExpiry ViewsGrow ImplementsCacheProtocol
SYMMETRY Symmetry
