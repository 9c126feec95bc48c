CONSTANTS
  Apps = {a, b}
  Images = {i}
  Hosts = {h}
  NoApp = NoApp
  NoService = NoService
  NoImage = NoImage
  Nobody = Nobody
  Specs <- HostOrNot
  MaxEdits = 1
  MaxFaults = 0
SPECIFICATION ContentionSpec
PROPERTIES
  HostsStayWithOwner
  Convergence
CHECK_DEADLOCK FALSE
