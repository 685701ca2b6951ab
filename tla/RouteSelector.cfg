SPECIFICATION Spec
CONSTANTS
  None = None
  Named = Named
  ThisGateway = "gw"
  Namespace = "home"
  ListenerSpecs <- MCListeners
  RouteSpecs <- MCRoutes
  Backing <- MCBacking
  Namespaces = {"away"}
  ExcludedByExpressions = {"away"}
  Requests <- MCRequests
  MaxListeners = 2
  MaxRoutes = 2
INVARIANT SelectorRespected
CHECK_DEADLOCK FALSE
