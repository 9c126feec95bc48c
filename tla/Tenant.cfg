CONSTANTS
  Apps = {x}
  free = free
  pro = pro
  Plans = {free, pro}
  Specs <- TwoSpecs
  NoTenant = NoTenant
  NoPlan = NoPlan
  MaxEdits = 4
  MaxFaults = 1
SPECIFICATION FairSpec
INVARIANTS
  TypeOK
  NeverForgotten
PROPERTIES
  KeepsContract
  ImplementsProtocol
  Convergence
CHECK_DEADLOCK FALSE
