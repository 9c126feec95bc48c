CONSTANTS
  NoRow = NoRow
  NoCR = NoCR
  NoRequest = NoRequest
  NoDomains = NoDomains
  Unchanged = Unchanged
  Empty = Empty
  Values = {v}
  Hosts = {h}
  Clients = {c, d}
  Ids = {id1, id2}
  Images = {i, j}
  Keys = {x, y}
  Requests <- AllRequests
  MaxRequests = 4
  MaxFaults = 1
SPECIFICATION Spec
INVARIANTS
  TypeOK
  InSyncUnlessExcused
  CRWasCommitted
PROPERTIES
  DeletedForGood
  PatchMerges
CHECK_DEADLOCK FALSE
