CONSTANTS
  Clients = {c, d}
  Ids = {id1, id2}
  Images = {i, j}
  Names = {x}
  Commands <- EveryCommand
  NoApp = NoApp
  NoCR = NoCR
  NoService = NoService
  NoCommand = NoCommand
  NoId = NoId
  MaxCommands = 3
  MaxFaults = 1
SPECIFICATION Spec
INVARIANTS
  TypeOK
  Stored
PROPERTIES
  VerdictIsOwn
  ChangesWhatItFound
CHECK_DEADLOCK FALSE
