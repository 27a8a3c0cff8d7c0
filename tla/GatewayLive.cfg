SPECIFICATION FairScrapeSpec
CONSTANTS
  Requests = {r1, r2}
  Keys = {k1}
  NoKey = NoKey
  Clients = {c1}
  Settings <- SendingOrDry
  Capacity = 1
  TTL = 1
  Count = 1
  Interval = 2
  MaxIPs = 1
  NoStamp = NoStamp
  MaxTime = 2
INVARIANT
  PageAgrees
PROPERTIES
  ClaimsAreReleased
  RequestsEnd
CHECK_DEADLOCK FALSE
