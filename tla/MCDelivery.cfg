CONSTANTS
  d1 = d1 d2 = d2 a = a b = b
  Ids = {1, 2}
  Dispatchers = {d1, d2}
  Nobody = Nobody
  BatchSize = 2
  LeaseTtl = 1
  BackoffCap = 1
  DupWindow = 1
  Retention = 0
  MaxCopies = 1
  Parts = {p1, p2}
  Completers = {c1}
  MaxBytes = 2
  MaxGeneration = 2
  MaxFaults = 1
  Peers = {a, b}
  PendingLimit = 1
  Plans <- MCPlans
  MaxOffers = 2
SPECIFICATION Spec
INVARIANTS RowsAreSound  PeersAgree
PROPERTIES LiveLeaseIsFence EventsAreDelivered  CallsSettle
