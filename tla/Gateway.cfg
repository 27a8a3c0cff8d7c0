SPECIFICATION Spec
CONSTANTS
  Requests = {r1, r2, r3}
  Keys = {k1, k2}
  NoKey = NoKey
  Clients = {c1, c2}
  Settings <- BothModes
  Capacity = 1
  TTL = 1
  Count = 1
  Interval = 2
  MaxIPs = 2
  NoStamp = NoStamp
  MaxTime = 2
SYMMETRY Symmetry
INVARIANTS
  TypeOK
  ClaimOwnership
  CacheHoldsFinalAnswers
  ReplayIsOriginal
  OkMeansDelivered
  OneOriginalPerLifetime
  SubmissionsBalance
  SendsAreRationed
PROPERTIES
  KeepsCacheContract
CHECK_DEADLOCK FALSE
