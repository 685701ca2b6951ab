SPECIFICATION Spec
CONSTANTS
  None = None
  Home = "home"
  GatewaySpecs <- MCSpecs
  SecretRefs <- MCSecrets
  SecretContents <- MCContents
  GrantSets <- MCGrants
  InitWorld <- MCWorld
  MaxGeneration = 2
  MaxChanges = 0
  MaxFaults = 0
INVARIANT ReferencedSecretMounted
CHECK_DEADLOCK FALSE
