SPECIFICATION LocalSpec
CONSTANTS
  To = {t1}
  Configs <- AllConfigs
PROPERTIES
  TimeoutEndsSend
CHECK_DEADLOCK FALSE
