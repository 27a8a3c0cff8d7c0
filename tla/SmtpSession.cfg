SPECIFICATION Spec
CONSTANTS
  s1 = s1
  t1 = t1
  Configs <- AllConfigs
  Users = {u1}
  Senders = {s1, s2}
  Recipients = {t1, t2}
  NoUser = NoUser
  NoAddress = NoAddress
  NoMessage = NoMessage
  Nobody = Nobody
  Certified = Certified
  DefaultMaxRecipients = 2
  MaxListed = 3
INVARIANTS
  TypeOK
  TransactionIsAuthorized
  EnvelopeWithinPolicy
PROPERTIES
  KeepsSubmissionPromise
CHECK_DEADLOCK FALSE
