SPECIFICATION HistSpec
CONSTANTS
  Callers = {g1, g2}
  Clients = {c1, c2}
  Count = 2
  Interval = 3
  MaxIPs = 1
  MaxTime = 5
  NoStamp = NoStamp
INVARIANTS
  TypeOK
  WindowBound
  DenialIsEarned
