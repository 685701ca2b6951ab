SPECIFICATION Spec
CONSTANTS
  None = None
  Gateways = {"g", "h"}
  Selectors = {"s", "t"}
  Backends = {"near", "away", "odd"}
  Core = {"near", "away"}
  Away = {"away"}
  Specs <- MCSpecs
  Listenings <- MCListenings
  InitWorld <- MCWorld
  MaxLives = 2
  MaxGeneration = 2
  MaxChanges = 1
  MaxFaults = 1
INVARIANTS
  TypeOK
  SettledStatusIsTrue
PROPERTIES
  GoodNewsIsEarned
  NewestAnswered
CHECK_DEADLOCK FALSE
