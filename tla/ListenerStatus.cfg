SPECIFICATION Spec
CONSTANTS
  None = None
  Home = "home"
  GatewaySpecs <- MCSpecs
  SecretRefs <- MCSecrets
  SecretContents <- MCContents
  GrantSets <- MCGrants
  InitWorld <- MCWorld
  MaxGeneration = 2
  MaxChanges = 2
  MaxFaults = 1
INVARIANT
  TypeOK
PROPERTIES
  NewsIsEarned
  EventuallyTrue
CHECK_DEADLOCK FALSE
