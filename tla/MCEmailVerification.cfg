SPECIFICATION Spec
CONSTANTS
  Requests = {q1, q2, q3}
  Codes = {k1, k2}
  RedisMayFail = TRUE
  BrokerMayFail = TRUE
  None = None
  lower = lower
  upperLocal = upperLocal
  upperDomain = upperDomain
  Emails <- MCEmails
  Normal <- MCNormal
CHECK_DEADLOCK FALSE
INVARIANTS
  TypeOK
  OnlyEldestVerified
  OnlyMailedCodesVerify
  LeftoverHasCause
PROPERTIES
  AccountsOnlyAdvance
