SPECIFICATION Spec
CONSTANTS
  None = None
  Named = Named
  ThisGateway = "gw"
  Namespace = "home"
  ListenerSpecs <- MCListeners
  RouteSpecs <- MCRoutes
  Backing <- MCBacking
  Namespaces = {"away"}
  ExcludedByExpressions = {}
  Requests <- MCRequests
  MaxListeners = 2
  MaxRoutes = 2
INVARIANT FiltersScoped
CHECK_DEADLOCK FALSE
