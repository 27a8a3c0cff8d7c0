SPECIFICATION FairSpec
CONSTANTS
  To = {t1, t2}
  Configs <- AllConfigs
INVARIANTS
  TypeOK
  OutcomeIsHonest
  CopiesAreWhole
  RequireTLSHolds
PROPERTIES
  KeepsDeliveryPromise
  SendEnds
CHECK_DEADLOCK FALSE
