SPECIFICATION Spec
CONSTANTS
  None = None
  GatewaySpecs <- MCSpecs
  SecretNames = {"s1", "s2"}
  TooLong = {"long"}
  MaxGeneration = 3
  MaxSecretChanges = 1
  MaxFaults = 1
INVARIANTS
  TypeOK
  HashIsHonoured
  ServiceFollows
PROPERTIES
  ServesThroughRollout
  EventuallyCurrent
CHECK_DEADLOCK FALSE
