CONSTANTS
  Apps = {a}
  Images = {i, j}
  Hosts = {h}
  NoApp = NoApp
  NoService = NoService
  NoImage = NoImage
  Nobody = Nobody
  Specs <- AllSpecs
  MaxEdits = 3
  MaxFaults = 1
SPECIFICATION FairSpec
INVARIANTS
  TypeOK
  NoOrphans
  NeverForgotten
PROPERTIES
  KeepsContract
  SettledStays
  ImplementsProtocol
  Convergence
CHECK_DEADLOCK FALSE
