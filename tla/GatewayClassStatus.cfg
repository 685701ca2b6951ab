SPECIFICATION Spec
CONSTANTS
  MaxLives = 3
  MaxGeneration = 2
  MaxFaults = 2
INVARIANT
  TypeOK
PROPERTIES
  ForeignAcceptedOnlyByName
  EveryClassAccepted
CHECK_DEADLOCK FALSE
