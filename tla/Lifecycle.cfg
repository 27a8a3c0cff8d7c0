SPECIFICATION FairSpec
CONSTANTS
  Requests = {r1, r2}
  Sessions = {s1, s2}
  MaxSignals = 2
INVARIANTS
  TypeOK
  CleanExitDrains
PROPERTIES
  ShutdownEnds
CHECK_DEADLOCK FALSE
