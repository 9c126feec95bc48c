CONSTANTS
  Clients = {c, d}
  Users = {u, v}
  Ids = {id1, id2}
  Plans = {p, q}
  NoRow = NoRow
  NoCR = NoCR
  Nobody = Nobody
  MaxRequests = 4
  MaxFaults = 1
SPECIFICATION Spec
INVARIANTS
  TypeOK
  InSyncUnlessExcused
  AccessEndsWithTenant
PROPERTY ChangedByMembers
CHECK_DEADLOCK FALSE
