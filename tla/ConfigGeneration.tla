-------------------------- MODULE ConfigGeneration --------------------------
(***************************************************************************)
(* What the Gateway controller computes from one snapshot: the routes it   *)
(* collects (attachment.rs, gateway_helpers.rs), the proxy configuration   *)
(* it writes (config/), and the ports and secrets the Deployment and the   *)
(* Service are built from.                                                 *)
(*                                                                         *)
(* The state is the snapshot; users write Gateway listeners, HTTPRoutes    *)
(* and namespace labels in any order.  Names and namespaces are opaque.  A *)
(* path is a sequence of characters, because the conversion is about its   *)
(* last character and its length; a hostname is a sequence of labels.  A   *)
(* backend's namespace and name are one service.  The code reads no TLS    *)
(* mode.  What becomes of a rule's filters is in FilterConversion.         *)
(*                                                                         *)
(*   listener  [name, port, protocol, hostname, from, secrets]             *)
(*   route     [ns, parents, hosts, rules], parent [gateway, section],     *)
(*             rule [matches, backends, filters],                          *)
(*             match [type, path, header],                                 *)
(*             backend [kind, service, port, weight]                       *)
(***************************************************************************)
EXTENDS EndpointResolution, Integers, FiniteSets

CONSTANTS
  ThisGateway, Namespace,    \* the Gateway being reconciled, where it lives
  ListenerSpecs, RouteSpecs, \* what users may write
  Backing,                   \* what the API server holds for a service
  Namespaces,
  ExcludedByExpressions,     \* namespaces a selector's matchExpressions exclude
  Requests,                  \* [host, path, header] a client may send
  MaxListeners, MaxRoutes    \* bounds of the snapshot

\* The schemas of Endpoints and EndpointSlice: lists of addresses.
ASSUME BackingAssumption ==
  \A r \in RouteSpecs : \A rule \in ToSet(r.rules) : \A b \in ToSet(rule.backends) :
    LET backing == Backing[b.service]
    IN  backing # None =>
          /\ backing.listable \in BOOLEAN
          /\ IsSeq(backing.slices)
          /\ \A slice \in ToSet(backing.slices) : IsSeq(slice.endpoints)
          /\ backing.subsets # None =>
               /\ IsSeq(backing.subsets)
               /\ \A subset \in ToSet(backing.subsets) : IsSeq(subset.ready)

\* What the Gateway schema says of a listener: only HTTPS has certificates
\* among the protocols that are served.
ASSUME ListenersAssumption ==
  \A l \in ListenerSpecs :
    /\ l.name # None
    /\ l.from \in {"Same", "All", "Selector"}
    /\ IsSeq(l.secrets)
    /\ l.protocol = "HTTP" => l.secrets = <<>>

\* And the HTTPRoute schema of a route: the path of a match is absolute.
ASSUME RoutesAssumption ==
  \A r \in RouteSpecs :
    /\ IsSeq(r.parents) /\ IsSeq(r.hosts) /\ IsSeq(r.rules)
    /\ None \notin ToSet(r.hosts)
    /\ \A rule \in ToSet(r.rules) :
         /\ IsSeq(rule.matches) /\ IsSeq(rule.backends) /\ IsSeq(rule.filters)
         /\ \A m \in ToSet(rule.matches) :
              /\ m.type \in {None, "Regex", "Prefix", "Exact"}
              /\ m.type \in {"Prefix", "Exact"} =>
                   IsSeq(m.path) /\ m.path # <<>> /\ m.path[1] = "/"

ASSUME RequestsAssumption ==
  \A q \in Requests : IsSeq(q.path) /\ q.path # <<>> /\ q.path[1] = "/"

ASSUME NoneAssumption == None \notin {"Regex", "Prefix", "Exact"}

VARIABLES listeners, httpRoutes, labelled
vars == <<listeners, httpRoutes, labelled>>

Init ==
  /\ listeners = <<>>
  /\ httpRoutes = <<>>
  /\ labelled = {}           \* namespaces with the labels of matchLabels

\* The Gateway schema: names are unique, so are port, protocol and hostname.
AddListener(l) ==
  /\ Len(listeners) < MaxListeners
  /\ \A i \in DOMAIN listeners :
       /\ listeners[i].name # l.name
       /\ <<listeners[i].port, listeners[i].protocol, listeners[i].hostname>>
             # <<l.port, l.protocol, l.hostname>>
  /\ listeners' = Append(listeners, l)
  /\ UNCHANGED <<httpRoutes, labelled>>

AddRoute(r) ==
  /\ Len(httpRoutes) < MaxRoutes
  /\ httpRoutes' = Append(httpRoutes, r)
  /\ UNCHANGED <<listeners, labelled>>

Label(ns) ==
  /\ ns \notin labelled
  /\ labelled' = labelled \cup {ns}
  /\ UNCHANGED <<listeners, httpRoutes>>

Next ==
  \/ \E l \in ListenerSpecs : AddListener(l)
  \/ \E r \in RouteSpecs : AddRoute(r)
  \/ \E ns \in Namespaces : Label(ns)

Spec == Init /\ [][Next]_vars

-----------------------------------------------------------------------------
(* Which routes are collected, and how hostnames match.                    *)

\* Equal, or alike but for the first label with a wildcard on either side.
HostnameMatches(h, l) ==
  \/ h = l
  \/ /\ Len(h) > 1 /\ Len(l) > 1
     /\ Tail(h) = Tail(l)
     /\ "*" \in {Head(h), Head(l)}

\* One section per parentRef that names this Gateway, None for all of it.
SectionNames(route) ==
  LET here == Only(route.parents, {p \in ToSet(route.parents) : p.gateway = ThisGateway})
  IN  [i \in DOMAIN here |-> here[i].section]

AttachedRoutes ==
  LET all == [i \in DOMAIN httpRoutes |->
                [route |-> httpRoutes[i], sections |-> SectionNames(httpRoutes[i])]]
  IN  Only(all, {a \in ToSet(all) : a.sections # <<>>})

Targets(sections, listener) ==
  \E i \in DOMAIN sections : sections[i] \in {None, listener.name}

IsNamespaceAllowed(listener, ns) ==
  CASE listener.from = "Same"     -> ns = Namespace
    [] listener.from = "All"      -> TRUE
    [] listener.from = "Selector" -> ns \in labelled \ ExcludedByExpressions

RouteAllowedByAnyListener(a) ==
  \E l \in ToSet(listeners) :
    Targets(a.sections, l) /\ IsNamespaceAllowed(l, a.route.ns)

FilterRoutes(attached) ==
  Only(attached, {a \in ToSet(attached) : RouteAllowedByAnyListener(a)})

CollectRoutes == FilterRoutes(AttachedRoutes)

-----------------------------------------------------------------------------
(* Listeners.                                                              *)

Supported == Only(listeners, {l \in ToSet(listeners) : l.protocol \in {"HTTP", "HTTPS"}})

Group(port) == Only(Supported, {l \in ToSet(listeners) : l.port = port})

Certificates(l) ==
  [i \in DOMAIN l.secrets |-> [secret |-> l.secrets[i], server |-> l.hostname]]

\* The first listener of a port gives name, chain and protocol; the others
\* only their certificates.
MergeListeners(port) ==
  LET group == Group(port)
      own   == IF group[1].protocol = "HTTPS" THEN Certificates(group[1]) ELSE <<>>
      rest  == [i \in DOMAIN Tail(group) |-> Certificates(Tail(group)[i])]
  IN  [name |-> group[1].name, certificates |-> own \o FlattenSeq(rest)]

PraxisListeners ==
  [port \in {Supported[i].port : i \in DOMAIN Supported} |-> MergeListeners(port)]

\* A mistake the runs must notice: deduplicated by name instead of by port.
ListenerPortsByName == {<<Supported[i].name, Supported[i].port>> : i \in DOMAIN Supported}

ListenerPorts ==
  {<<Supported[i].name, Supported[i].port>> :
     i \in {j \in DOMAIN Supported :
              \A k \in 1..(j - 1) : Supported[k].port # Supported[j].port}}

TlsSecretNames ==
  UNION {ToSet(l.secrets) : l \in {k \in ToSet(listeners) : k.protocol = "HTTPS"}}

HostnameOf(section) ==
  LET named == Only(Supported, {l \in ToSet(listeners) : l.name = section})
  IN  IF named = <<>> THEN None ELSE named[1].hostname

-----------------------------------------------------------------------------
(* Router entries and clusters.                                            *)

Root == <<"/">>
EndsWithSlash(path) == Last(path) = "/"

Exactly(path)  == [exact |-> TRUE, path |-> path]
Prefixing(path) == [exact |-> FALSE, path |-> path]

\* A mistake the runs must notice: the prefix itself is forgotten.
ExtractPathBelow(m) ==
  CASE m.type \in {None, "Regex"}                  -> <<Prefixing(Root)>>
    [] m.type = "Prefix" /\ EndsWithSlash(m.path)  -> <<Prefixing(m.path)>>
    [] m.type = "Prefix" /\ ~EndsWithSlash(m.path) -> <<Prefixing(Append(m.path, "/"))>>
    [] m.type = "Exact"                            -> <<Exactly(m.path)>>

\* A prefix without a final slash is itself, exactly, and all below it.
ExtractPathMatch(m) ==
  CASE m.type \in {None, "Regex"}                      -> <<Prefixing(Root)>>
    [] m.type = "Prefix" /\ EndsWithSlash(m.path)      -> <<Prefixing(m.path)>>
    [] m.type = "Prefix" /\ ~EndsWithSlash(m.path)     ->
         <<Exactly(m.path), Prefixing(Append(m.path, "/"))>>
    [] m.type = "Exact"                                -> <<Exactly(m.path)>>

\* Header matches by regular expression are skipped.
ExtractHeaders(m) == m.header = "exact"

\* A rule without matches matches everything; a route without hosts, any.
Matches(rule) ==
  IF rule.matches = <<>> THEN <<[type |-> None, path |-> Root, header |-> None]>>
  ELSE rule.matches
Hosts(route) == IF route.hosts = <<>> THEN <<None>> ELSE route.hosts

\* The names of the backends, in order, of whatever kind they are.
MergedClusterName(rule) ==
  [i \in DOMAIN rule.backends |-> <<rule.backends[i].service, rule.backends[i].port>>]

ASSUME NamesAssumption ==
  \A r \in RouteSpecs : \A rule \in ToSet(r.rules) : MergedClusterName(rule) # None

EmitMatchRoutes(m, a, cluster) ==
  LET paths == ExtractPathMatch(m)
      hosts == Hosts(a.route)
  IN  FlattenSeq([p \in DOMAIN paths |-> [h \in DOMAIN hosts |->
        [exact |-> paths[p].exact, path |-> paths[p].path, host |-> hosts[h],
         header |-> ExtractHeaders(m), cluster |-> cluster, sections |-> a.sections]]])

\* A rule without backends routes nothing.
ProcessRule(rule, a) ==
  IF rule.backends = <<>> THEN <<>>
  ELSE LET ms == Matches(rule)
       IN  FlattenSeq([i \in DOMAIN ms |->
             EmitMatchRoutes(ms[i], a, MergedClusterName(rule))])

CollectedRules ==
  LET collected == CollectRoutes
  IN  FlattenSeq([i \in DOMAIN collected |->
        [j \in DOMAIN collected[i].route.rules |->
           [of |-> collected[i], rule |-> collected[i].route.rules[j]]]])

PraxisRoutes ==
  LET rules == CollectedRules
  IN  FlattenSeq([i \in DOMAIN rules |-> ProcessRule(rules[i].rule, rules[i].of)])

InCluster(b, cluster) ==
  [kind |-> b.kind, service |-> b.service, port |-> b.port, weight |-> b.weight,
   cluster |-> cluster]

RuleBackends(rule) ==
  [i \in DOMAIN rule.backends |-> InCluster(rule.backends[i], MergedClusterName(rule))]

\* A mistake the runs must notice: one endpoint list per Service, whatever
\* cluster it is for.
SameService(b, c) == <<b.service, b.port>> = <<c.service, c.port>>

\* Another: a Service entered once for each weight it is given.
SameWeighted(b, c) ==
  <<b.cluster, b.service, b.port, b.weight>> = <<c.cluster, c.service, c.port, c.weight>>

SameBackend(b, c) ==
  <<b.cluster, b.service, b.port>> = <<c.cluster, c.service, c.port>>

AllBackends ==
  LET rules == CollectedRules
  IN  FlattenSeq([i \in DOMAIN rules |-> RuleBackends(rules[i].rule)])

\* The first of each cluster, service and port.
FirstOfEach(backends) ==
  LET firsts == Only([i \in DOMAIN backends |-> i],
                     {i \in DOMAIN backends :
                        \A j \in 1..(i - 1) : ~SameBackend(backends[j], backends[i])})
  IN  [i \in DOMAIN firsts |-> backends[firsts[i]]]

OfServices(backends) == Only(backends, {b \in ToSet(backends) : b.kind = "Service"})

BackendRefs == FirstOfEach(OfServices(AllBackends))

Weight(b) == IF b.weight = None THEN 1 ELSE b.weight

WeightedEndpoints(b) ==
  LET addresses == ResolveEndpoints(Backing[b.service], b.port)
  IN  [i \in DOMAIN addresses |-> [address |-> addresses[i], weight |-> Weight(b)]]

ClustersOf(refs) ==
  [c \in {refs[i].cluster : i \in DOMAIN refs} |->
     LET mine == Only(refs, {b \in ToSet(refs) : b.cluster = c})
     IN  FlattenSeq([i \in DOMAIN mine |-> WeightedEndpoints(mine[i])])]

\* The clusters of every load balancer filter, by name.
ResolveClusters == ClustersOf(BackendRefs)

-----------------------------------------------------------------------------
(* Filter chains.                                                          *)

\* The hostname of the first section that has one, whichever chain this is.
ResolveRouteHostname(e) ==
  LET held == Only(e.sections, {s \in ToSet(e.sections) : s # None /\ HostnameOf(s) # None})
  IN  IF held = <<>> THEN None ELSE HostnameOf(held[1])

InjectListenerHostname(e) ==
  IF e.host # None THEN e ELSE [e EXCEPT !.host = ResolveRouteHostname(e)]

\* A mistake the runs must notice: shorter paths first.
RouteSortKeyUnreversed(e) ==
  <<IF e.exact THEN 0 ELSE 1, Len(e.path),
    IF e.host = None THEN 1 ELSE 0, IF e.header THEN 0 ELSE 1>>

RouteSortKey(e) ==
  <<IF e.exact THEN 0 ELSE 1, -Len(e.path),
    IF e.host = None THEN 1 ELSE 0, IF e.header THEN 0 ELSE 1>>

KeyLess(k, l) == \E i \in DOMAIN k : k[i] < l[i] /\ \A j \in 1..(i - 1) : k[j] = l[j]

Precedes(e, f) == KeyLess(RouteSortKey(e), RouteSortKey(f))

\* The sort is stable: an entry goes behind its equals that came before it.
Insert(sorted, e) ==
  LET later == {f \in ToSet(sorted) : Precedes(e, f)}
  IN  Only(sorted, ToSet(sorted) \ later) \o <<e>> \o Only(sorted, later)

SortBySpecificity(entries) ==
  LET sorted[n \in 0..Len(entries)] ==
        IF n = 0 THEN <<>> ELSE Insert(sorted[n - 1], entries[n])
  IN  sorted[Len(entries)]

\* A mistake the runs must notice: every route in every chain.
FilterChainUnpartitioned(port) ==
  LET all == PraxisRoutes
  IN  SortBySpecificity([i \in DOMAIN all |-> InjectListenerHostname(all[i])])

OfListener(entries, listener) ==
  Only(entries, {e \in ToSet(entries) : Targets(e.sections, listener)})

\* The router entries of the one chain of a port.
FilterChain(port) ==
  LET mine == OfListener(PraxisRoutes, [name |-> PraxisListeners[port].name])
  IN  SortBySpecificity([i \in DOMAIN mine |-> InjectListenerHostname(mine[i])])

\* The proxy takes the first entry that fits.
Fits(e, q) ==
  /\ IF e.exact THEN e.path = q.path ELSE IsPrefix(e.path, q.path)
  /\ e.host = None \/ HostnameMatches(q.host, e.host)
  /\ e.header => q.header

RoutedTo(chain, q) ==
  LET fitting == {i \in DOMAIN chain : Fits(chain[i], q)}
  IN  IF fitting = {} THEN None ELSE chain[Min(fitting)].cluster

-----------------------------------------------------------------------------
(* What a user means by a snapshot.                                        *)

\* A prefix matches whole path elements.
ElementPrefix(v, path) ==
  IsPrefix(v, path) /\ (EndsWithSlash(v) \/ v = path \/ path[Len(v) + 1] = "/")

Covers(m, q) ==
  /\ m.type = "Exact"  => m.path = q.path
  /\ m.type = "Prefix" => ElementPrefix(m.path, q.path)
  /\ m.header = "exact" => q.header

PathLength(m) ==
  IF m.type \in {None, "Regex"} \/ m.path = Root THEN 0
  ELSE Len(m.path) - (IF EndsWithSlash(m.path) THEN 1 ELSE 0)

\* The matches of collected rules with backends that cover a request.
Claims(q) ==
  UNION {{[of |-> c.of, rule |-> c.rule, match |-> m] :
            m \in {n \in ToSet(Matches(c.rule)) : Covers(n, q)}} :
         c \in {d \in ToSet(CollectedRules) : d.rule.backends # <<>>}}

Admits(h, host) == h = None \/ HostnameMatches(host, h)

\* A claim a port may serve: its route targets a listener of the port and
\* does not exclude the host.
MayServe(port, q) ==
  {c \in Claims(q) :
     /\ \E l \in ToSet(Group(port)) : Targets(c.of.sections, l)
     /\ \E h \in ToSet(Hosts(c.of.route)) : Admits(h, q.host)}

\* A claim a port must serve: its route targets the listener that names the
\* port's chain, and its hosts, else the hostnames of all the sections it
\* names, admit the host.
MustServe(port, q) ==
  {c \in MayServe(port, q) :
     /\ Targets(c.of.sections, PraxisListeners[port])
     /\ \/ c.of.route.hosts # <<>>
        \/ \A s \in ToSet(c.of.sections) \ {None} : Admits(HostnameOf(s), q.host)}

\* A longer path, or with the same path and hosts of its own a header more.
Beats(c, d) ==
  \/ PathLength(c.match) > PathLength(d.match)
  \/ /\ <<c.match.type, c.match.path>> = <<d.match.type, d.match.path>>
     /\ c.of.route.hosts # <<>> /\ d.of.route.hosts # <<>>
     /\ c.match.header = "exact" /\ d.match.header # "exact"

Addresses(endpoints) == {e.address.ip : e \in ToSet(endpoints)}

\* The addresses of a service that its slices report ready, else its
\* Endpoints object.
ReadyIPs(backing) ==
  IF backing = None THEN {}
  ELSE LET sliced == {e \in UNION {ToSet(backing.slices[i].endpoints) :
                                     i \in DOMAIN backing.slices} : e.ready # FALSE}
       IN  IF backing.listable /\ sliced # {} THEN {e.ip : e \in sliced}
           ELSE IF backing.subsets = None THEN {}
           ELSE UNION {ToSet(backing.subsets[i].ready) : i \in DOMAIN backing.subsets}

ServiceBackends(rule) == {b \in ToSet(rule.backends) : b.kind = "Service"}

-----------------------------------------------------------------------------
(* Properties.                                                             *)

\* No request reaches the backends of a route that was not collected for this
\* Gateway, that targets no listener of the port the request came in on, or
\* none of whose matches and hosts admit the request: attachment, namespace
\* policy, partitioning by chain and path conversion together let nothing
\* stray through (attachment.rs, generate.rs, routing.rs).
RoutedOnlyToAttached ==
  \A port \in DOMAIN PraxisListeners :
    LET chain == FilterChain(port)
    IN  \A q \in Requests :
          RoutedTo(chain, q) \in {None} \cup {MergedClusterName(c.rule) : c \in MayServe(port, q)}

\* A request that some collected route of the port's first listener covers is
\* never left without a route: neither the split of prefixes into elements
\* nor an injected hostname loses it (routing.rs, generate.rs).
RoutedWhenMatched ==
  \A port \in DOMAIN PraxisListeners :
    LET chain == FilterChain(port)
    IN  \A q \in Requests : MustServe(port, q) # {} => RoutedTo(chain, q) # None

\* The rule that serves a request is beaten by no other rule that must serve
\* it, in whatever order routes and rules were written: a longer path wins,
\* then a header match (route_sort_key).
MostSpecificServes ==
  \A port \in DOMAIN PraxisListeners :
    LET chain == FilterChain(port)
    IN  \A q \in Requests : \A c \in MustServe(port, q) :
          \E d \in MayServe(port, q) :
            MergedClusterName(d.rule) = RoutedTo(chain, q) /\ ~Beats(c, d)

\* The three children agree: the ports and names the Service and the
\* Deployment are given are those the configuration binds, no two of them
\* under one name, and every certificate the configuration names is mounted
\* (merge_listeners_by_port, collect_listener_ports, collect_tls_secret_names).
ChildrenAgree ==
  /\ ListenerPorts = {<<PraxisListeners[p].name, p>> : p \in DOMAIN PraxisListeners}
  /\ \A p, o \in DOMAIN PraxisListeners :
       PraxisListeners[p].name = PraxisListeners[o].name => p = o
  /\ \A p \in DOMAIN PraxisListeners :
       {c.secret : c \in ToSet(PraxisListeners[p].certificates)} \subseteq TlsSecretNames

\* The cluster of a rule holds the ready addresses of every Service the rule
\* names and of nothing the rule does not name, although rules share clusters
\* and clusters share Services (process_backend_ref, resolve_clusters).
ClusterHoldsItsBackends ==
  LET clusters == ResolveClusters
  IN  \A c \in ToSet(CollectedRules) : ServiceBackends(c.rule) # {} =>
        LET held == Addresses(clusters[MergedClusterName(c.rule)])
        IN  /\ UNION {ReadyIPs(Backing[b.service]) : b \in ServiceBackends(c.rule)} \subseteq held
            /\ held \subseteq UNION {ReadyIPs(Backing[b.service]) : b \in ToSet(c.rule.backends)}

\* An address is in a cluster once for each Service and port of the rule that
\* has it, however many rules and entries name the Service and with whatever
\* weights, so its share of the traffic is not multiplied (process_backend_ref).
AddressesHeldOnce ==
  LET clusters == ResolveClusters
  IN  \A c \in ToSet(CollectedRules) : ServiceBackends(c.rule) # {} =>
        LET held == clusters[MergedClusterName(c.rule)]
        IN  \A ip \in Addresses(held) :
              Cardinality({i \in DOMAIN held : held[i].address.ip = ip})
                <= Cardinality({s \in ToSet(MergedClusterName(c.rule)) : ip \in ReadyIPs(Backing[s[1]])})

\* What assemble_config says of a port: its chain has the routes of all the
\* Gateway listeners that share it.
SharedPortServed ==
  \A l \in ToSet(Supported) : \A e \in ToSet(PraxisRoutes) :
    Targets(e.sections, l) =>
      \E f \in ToSet(FilterChain(l.port)) : [f EXCEPT !.host = e.host] = e

=============================================================================
