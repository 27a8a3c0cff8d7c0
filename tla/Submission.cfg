SPECIFICATION Spec
CONSTANTS
  Fields = {"email", "trap", "extra", "_csrf_token", "to_override"}
  NoField = "no field"
  Addresses = {"a", "b", "p", "q"}
  DefaultTTL = 2
  Blank = "blank entry"
  Headers <- SomeHeaders
  MaxHops = 2
  Endpoints <- AllEndpoints
  Requests <- AllRequests
  Absent = Absent
  APIKey = "key"
  NoBucket = "no bucket"
INVARIANTS
  TypeOK
  
  VisitorIsServed
  
  RecipientsAreChosen
  TrapIsInvisible
  BucketIsTheVisitors
PROPERTIES
  ServesAsGateway
CHECK_DEADLOCK FALSE
