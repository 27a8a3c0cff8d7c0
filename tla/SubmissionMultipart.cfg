SPECIFICATION Spec
CONSTANTS
  Fields = {"email", "trap", "extra", "_csrf_token", "to_override"}
  NoField = "no field"
  Addresses = {"a"}
  DefaultTTL = 2
  Blank = "blank entry"
  Headers <- NoHeaders
  MaxHops = 0
  Endpoints <- Varied
  Requests <- Visitors
  Absent = Absent
  APIKey = "key"
  NoBucket = "no bucket"
INVARIANTS
  BothFormsAreParsed
CHECK_DEADLOCK FALSE
