SPECIFICATION MCSpec
CONSTANTS
  s1 = s1
  t1 = t1
  Configs <- CappedConfigs
  Users = {u1}
  Senders = {s1, s2}
  Recipients = {t1, t2}
  NoUser = NoUser
  NoAddress = NoAddress
  NoMessage = NoMessage
  Nobody = Nobody
  Certified = Certified
  DefaultMaxRecipients = 2
  MaxListed = 3
INVARIANTS
  RecipientsPerSession
CHECK_DEADLOCK FALSE
