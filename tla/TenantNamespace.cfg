CONSTANTS
  Apps = {x}
  free = free
  pro = pro
  Plans = {free, pro}
  Specs <- TwoSpecs
  NoTenant = NoTenant
  NoPlan = NoPlan
  MaxEdits = 2
  MaxFaults = 0
SPECIFICATION Spec
INVARIANT
  NamespaceRemoved
CHECK_DEADLOCK FALSE
