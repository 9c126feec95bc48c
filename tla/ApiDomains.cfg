CONSTANTS
  NoRow = NoRow
  NoCR = NoCR
  NoRequest = NoRequest
  NoDomains = NoDomains
  Unchanged = Unchanged
  Empty = Empty
  Values = {v}
  Hosts = {h}
  Clients = {c, d}
  Ids = {id1}
  Images = {i}
  Keys = {x}
  Requests <- Additions
  MaxRequests = 2
  MaxFaults = 0
SPECIFICATION Spec
INVARIANT DomainsAttached
CHECK_DEADLOCK FALSE
