\* Three logins, at once or one after the other.
CONSTANTS
  Logins = {l1, l2, l3}
  None = None
  Empty = Empty
  Torn = Torn
  NoFile = NoFile
  Lifetime = 2
  MaxClock = 1
SPECIFICATION Spec
SYMMETRY Symmetry
INVARIANTS TypeOK TornNeedsOverlap SoleLoginInstalls
PROPERTIES ImplementsLoginFlow
\* Each login is run once.
CHECK_DEADLOCK FALSE
