CONSTANTS
  System = System
  NoPod = NoPod
  Pods = {p, q}
  Capacity = 1
  TailLines = 1
  MaxLines = 2
  MaxFaults = 1
SPECIFICATION Spec
INVARIANTS
  TypeOK
  InOrder
  DoneMeansComplete
PROPERTIES
  Released
  Streamed
CHECK_DEADLOCK FALSE
