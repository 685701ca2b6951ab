-------------------------- MODULE RouteAcceptance ---------------------------
(***************************************************************************)
(* What the HTTPRoute controller says of a route and one of its parentRefs *)
(* (httproute.rs), on the snapshot the Gateway controller works from, and  *)
(* the attached routes the Gateway controller counts per listener.  The    *)
(* two controllers decide independently of each other whether a route      *)
(* belongs to a Gateway.                                                   *)
(***************************************************************************)
EXTENDS ConfigGeneration

\* The listeners a parentRef targets.
Targeted(section) == {l \in ToSet(listeners) : section \in {None, l.name}}

\* This controller looks at the labels of matchLabels only.
AllowedByListener(l, ns) ==
  \/ l.from = "All"
  \/ l.from = "Same" /\ ns = Namespace
  \/ l.from = "Selector" /\ ns \in labelled

\* A mistake the runs must notice: the section is overlooked.
RouteAllowedByAnyListenerOfAll(ns, section) ==
  \E l \in ToSet(listeners) : AllowedByListener(l, ns)

RouteAllowedByListeners(ns, section) ==
  \E l \in Targeted(section) : AllowedByListener(l, ns)

HostnamesIntersect(route, section) ==
  \/ route.hosts = <<>>
  \/ \E l \in Targeted(section) :
       \/ l.hostname = None
       \/ \E h \in ToSet(route.hosts) : HostnameMatches(h, l.hostname)

\* The reason of the Accepted condition, the first check that fails.
AcceptedReason(route, section) ==
  IF Targeted(section) = {} /\ section # None         THEN "NoMatchingParent"
  ELSE IF ~RouteAllowedByListeners(route.ns, section) THEN "NotAllowedByListeners"
  ELSE IF ~HostnamesIntersect(route, section)         THEN "NoMatchingListenerHostname"
  ELSE "Accepted"

\* The Gateway controller's count: sections and hostnames, not namespaces.
CountedRoutes(l) ==
  LET collected == CollectRoutes
  IN  Only(collected,
           {a \in ToSet(collected) :
              /\ Targets(a.sections, l)
              /\ \/ a.route.hosts = <<>>
                 \/ l.hostname = None
                 \/ \E h \in ToSet(a.route.hosts) : HostnameMatches(h, l.hostname)})

-----------------------------------------------------------------------------
\* The supported listeners that count a route.
Counting(r) == {l \in ToSet(Supported) : \E a \in ToSet(CountedRoutes(l)) : a.route = r}

\* What the two controllers make of a route with code of their own fits
\* together.  A route is in the configuration exactly if one of its parentRefs
\* has the reason Accepted or NoMatchingListenerHostname: a hostname no
\* listener has keeps it from the status, not from the configuration.  If a
\* parentRef is Accepted and targets supported listeners only, one of these
\* counts the route; and if a listener counts a route with one section, that
\* section is Accepted.  (With several sections one may allow the namespace
\* and another have the hostname: the route is counted and accepted nowhere.)
ControllersAgree ==
  \A r \in ToSet(httpRoutes) :
    LET sections == ToSet(SectionNames(r))
    IN  /\ (\E a \in ToSet(CollectRoutes) : a.route = r)
             <=> \E s \in sections :
                   AcceptedReason(r, s) \in {"Accepted", "NoMatchingListenerHostname"}
        /\ \A s \in sections :
             AcceptedReason(r, s) = "Accepted" /\ Targeted(s) \subseteq ToSet(Supported)
               => Targeted(s) \cap Counting(r) # {}
        /\ \A s \in sections :
             sections = {s} /\ Counting(r) # {} => AcceptedReason(r, s) = "Accepted"

\* What namespace_matches_label_selector says it checks, and what the same
\* check of the Gateway controller does: a namespace is accepted only if its
\* labels match the selector, expressions included.
SelectorRespected ==
  \A r \in ToSet(httpRoutes) : \A l \in ToSet(listeners) :
    /\ l.from = "Selector"
    /\ l.name \in ToSet(SectionNames(r))
    /\ AcceptedReason(r, l.name) = "Accepted"
    => IsNamespaceAllowed(l, r.ns)
=============================================================================
