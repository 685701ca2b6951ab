SPECIFICATION Spec
CONSTANTS
  None = None
  Named = Named
  ThisGateway = "gw"
  Namespace = "home"
  ListenerSpecs <- MCListeners
  RouteSpecs <- MCRoutes
  Backing <- MCBacking
  Namespaces = {"away"}
  ExcludedByExpressions = {}
  Requests <- MCRequests
  MaxListeners = 3
  MaxRoutes = 2
INVARIANTS
  RoutedOnlyToAttached
  RoutedWhenMatched
  MostSpecificServes
  ChildrenAgree
  ClusterHoldsItsBackends
  AddressesHeldOnce
  ControllersAgree
  FiltersReachTheirTraffic
CHECK_DEADLOCK FALSE
