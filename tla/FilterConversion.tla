-------------------------- MODULE FilterConversion --------------------------
(***************************************************************************)
(* The filters of a chain besides its router and its load balancer         *)
(* (filter_conversion.rs): what the filters of the collected rules become, *)
(* the condition each is given and their order.  Every chain of the        *)
(* Gateway has all of them, between the router and the load balancer.      *)
(*                                                                         *)
(* A filter of a rule is a record with a type.  A redirect has scheme,     *)
(* host, port, path and status; a header modifier the lists add, set and   *)
(* remove, None when absent; filters of other types (URLRewrite,           *)
(* RequestMirror, ExtensionRef) are ignored and need no more.  A header's  *)
(* name and value are one opaque operation.                                *)
(***************************************************************************)
EXTENDS ConfigGeneration

Modifiers == {"RequestHeaderModifier", "ResponseHeaderModifier"}

ASSUME FiltersAssumption ==
  \A r \in RouteSpecs : \A rule \in ToSet(r.rules) : \A f \in ToSet(rule.filters) :
    f.type \in Modifiers => \A list \in {f.add, f.set, f.remove} : list = None \/ IsSeq(list)

OrElse(value, default) == IF value = None THEN default ELSE value

\* A mistake the runs must notice: the condition is made as the router's
\* prefixes are, so that it leaves out the prefix itself.
ConditionBelow(rule) ==
  IF rule.matches = <<>> \/ rule.matches[1].type \notin {"Prefix", "Exact"} THEN None
  ELSE Last(ExtractPathMatch(rule.matches[1])).path

\* The path of the first match, unless that match is of another type.
Condition(rule) ==
  IF rule.matches = <<>> \/ rule.matches[1].type \notin {"Prefix", "Exact"} THEN None
  ELSE rule.matches[1].path

OfType(rule, type) == Only(rule.filters, {f \in ToSet(rule.filters) : f.type = type})

\* Whether there is a list that is converted, be it empty: a request's remove
\* is not.
HasHeaderMods(rule) ==
  \E f \in ToSet(rule.filters) :
    \/ f.type \in Modifiers /\ (f.add # None \/ f.set # None)
    \/ f.type = "ResponseHeaderModifier" /\ f.remove # None

\* One list of each kind from all the modifiers of a rule.  The proxy has no
\* request_set: what is to be set is added.
Operations(rule) ==
  LET requests  == OfType(rule, "RequestHeaderModifier")
      responses == OfType(rule, "ResponseHeaderModifier")
  IN  [request_add     |-> FlattenSeq([i \in DOMAIN requests |->
                             OrElse(requests[i].add, <<>>) \o OrElse(requests[i].set, <<>>)]),
       response_add    |-> FlattenSeq([i \in DOMAIN responses |-> OrElse(responses[i].add, <<>>)]),
       response_set    |-> FlattenSeq([i \in DOMAIN responses |-> OrElse(responses[i].set, <<>>)]),
       response_remove |-> FlattenSeq([i \in DOMAIN responses |-> OrElse(responses[i].remove, <<>>)])]

HeaderFilter(rule) ==
  IF ~HasHeaderMods(rule) THEN <<>>
  ELSE <<[filter |-> "headers", when |-> Condition(rule), ops |-> Operations(rule)]>>

\* The path of the request is kept, whatever path the redirect asks for; its
\* port is never part of the location.
RedirectLocation(f) ==
  [scheme |-> OrElse(f.scheme, "${scheme}"), host |-> OrElse(f.host, "${host}"),
   port |-> f.port, path |-> "${path}"]

Redirects(rule) ==
  LET fs == OfType(rule, "RequestRedirect")
  IN  [i \in DOMAIN fs |->
         [filter |-> "redirect", when |-> Condition(rule),
          status |-> OrElse(fs[i].status, 302), location |-> RedirectLocation(fs[i])]]

NoBackendResponse(rule) ==
  IF rule.backends # <<>> THEN <<>>
  ELSE <<[filter |-> "static_response", when |-> Condition(rule), status |-> 500]>>

\* The error first, then redirects, then header operations, whatever the
\* order of the rule's filters.
ConvertRuleFilters(rule) == NoBackendResponse(rule) \o Redirects(rule) \o HeaderFilter(rule)

\* What every chain holds, in order: rule by rule of the collected routes, the
\* filters of each.
CollectFilters ==
  LET rules == CollectedRules
  IN  [i \in DOMAIN rules |-> ConvertRuleFilters(rules[i].rule)]

\* The proxy applies a filter to a request whose path begins with its
\* condition, and to every request if it has none, unless a filter before it
\* in the chain has answered the request.
AppliesTo(f, q) == f.when = None \/ IsPrefix(f.when, q.path)

Answers(f, q) == f.filter \in {"static_response", "redirect"} /\ AppliesTo(f, q)

AnsweredBefore(chain, i, j, q) ==
  \E k \in 1..i : \E n \in DOMAIN chain[k] : (k < i \/ n < j) /\ Answers(chain[k][n], q)

\* The filters of the i-th rule that are applied to a request.
Applied(chain, i, q) ==
  {chain[i][j] : j \in {k \in DOMAIN chain[i] :
                          AppliesTo(chain[i][k], q) /\ ~AnsweredBefore(chain, i, k, q)}}

-----------------------------------------------------------------------------
\* The header operations a filter asks for, in the words of the Gateway API.
Asked(f) ==
  CASE f.type = "RequestHeaderModifier"  ->
         {<<"request_add", op>> : op \in ToSet(OrElse(f.add, <<>>))}
           \cup {<<"request_set", op>> : op \in ToSet(OrElse(f.set, <<>>))}
           \cup {<<"request_remove", op>> : op \in ToSet(OrElse(f.remove, <<>>))}
    [] f.type = "ResponseHeaderModifier" ->
         {<<"response_add", op>> : op \in ToSet(OrElse(f.add, <<>>))}
           \cup {<<"response_set", op>> : op \in ToSet(OrElse(f.set, <<>>))}
           \cup {<<"response_remove", op>> : op \in ToSet(OrElse(f.remove, <<>>))}
    [] OTHER -> {}

\* What the documentation of the conversion makes of them: a request's set is
\* an add, its remove is left out.
Promised(rule) ==
  LET asked == UNION {Asked(f) : f \in ToSet(rule.filters)}
  IN  {IF a[1] = "request_set" THEN <<"request_add", a[2]>> ELSE a :
         a \in {b \in asked : b[1] # "request_remove"}}

\* The operations a headers filter does, and a set of filters.
Operated(f) == UNION {{<<list, op>> : op \in ToSet(f.ops[list])} : list \in DOMAIN f.ops}

Done(filters) == UNION {Operated(f) : f \in {g \in filters : g.filter = "headers"}}

\* What a request gets of a rule: without backends the error and nothing else,
\* its redirects included; else the first redirect and nothing else; else the
\* promised header operations, all of them and no others.
Serves(filters, rule) ==
  LET redirects == OfType(rule, "RequestRedirect")
  IN  /\ rule.backends = <<>> =>
           \E f \in filters : filters = {f} /\ f.filter = "static_response" /\ f.status = 500
      /\ rule.backends # <<>> /\ redirects # <<>> =>
           \E f \in filters : /\ filters = {f} /\ f.filter = "redirect"
                             /\ f.location = RedirectLocation(redirects[1])
      /\ rule.backends # <<>> /\ redirects = <<>> =>
           /\ \A f \in filters : f.filter = "headers"
           /\ Done(filters) = Promised(rule)

\* A request that the first match of a collected rule covers, or any request
\* for a rule without matches, is served with that rule's own filters, unless
\* a rule before it in the chain has answered the request: none of the header
\* operations the conversion promises is lost in merging the modifiers or
\* kept from the traffic by the condition, none is done in a wrong list, and
\* the filter that answers is the first one there is.  Not promised are the
\* removal of request headers, the path of a redirect, and URL rewrites and
\* mirrors (dispatch_filter, extract_rule_condition).
FiltersReachTheirTraffic ==
  LET rules == CollectedRules
      chain == CollectFilters
  IN  \A i \in DOMAIN rules : \A q \in Requests :
        Covers(Matches(rules[i].rule)[1], q) /\ ~AnsweredBefore(chain, i, 1, q)
          => Serves(Applied(chain, i, q), rules[i].rule)

\* What convert_filters says its conditions ensure: header modifications and
\* redirects apply only to traffic that matches the originating rule.  Even
\* if the proxy reads a condition path element by path element, nothing is
\* applied to a request on a port but what a rule that claims it there asks.
FiltersScoped ==
  LET rules == CollectedRules
      chain == CollectFilters
  IN  \A port \in DOMAIN PraxisListeners : \A q \in Requests : \A i \in DOMAIN rules :
        (\E f \in Applied(chain, i, q) : f.when = None \/ ElementPrefix(f.when, q.path)) =>
          /\ \E m \in ToSet(Matches(rules[i].rule)) : Covers(m, q)
          /\ \E h \in ToSet(Hosts(rules[i].of.route)) : Admits(h, q.host)
          /\ \E l \in ToSet(Group(port)) : Targets(rules[i].of.sections, l)
=============================================================================
