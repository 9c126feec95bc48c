CONSTANTS
  Clients = {c, d}
  Starter = Starter
  KeyIds = {k}
  Nobody = Nobody
  MaxKeys = 2
  MaxRequests = 2
  MaxChanges = 2
  MaxFaults = 1
SPECIFICATION Spec
INVARIANTS
  TypeOK
  VerdictForReason
PROPERTIES
  NeverOlder
  RevokedForGood
  Answered
CHECK_DEADLOCK FALSE
