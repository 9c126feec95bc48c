CONSTANTS
  Clients = {c, d}
  Burst = 2
  Cost = 2
  StaleAfter = 4
  Nobody = Nobody
  NoBucket = NoBucket
  MaxTime = 9
SPECIFICATION Spec
INVARIANTS
  TypeOK
  RateRespected
PROPERTY ImplementsTokenBucket
