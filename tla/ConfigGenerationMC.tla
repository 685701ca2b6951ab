------------------------- MODULE ConfigGenerationMC -------------------------
(* Small snapshots for ConfigGeneration, RouteAcceptance and FilterConversion. *)
EXTENDS RouteAcceptance, FilterConversion

HostA == <<"a", "x">>
HostB == <<"b", "x">>
Wild  == <<"*", "x">>

Listener(name, port, protocol, hostname, from, secrets) ==
  [name |-> name, port |-> port, protocol |-> protocol, hostname |-> hostname,
   from |-> from, secrets |-> secrets]

\* Two HTTP listeners of one port, two HTTPS ones, and one that is not served.
MCListeners ==
  {Listener("web",  80,  "HTTP",  None, "Same",     <<>>),
   Listener("api",  80,  "HTTP",  HostA, "All",      <<>>),
   Listener("tls",  443, "HTTPS", HostB, "Selector", <<"s1">>),
   Listener("tls2", 443, "HTTPS", Wild, "Same",     <<"s2", "s1">>),
   Listener("raw",  90,  "TCP",   None, "All",      <<>>)}

Here(section) == [gateway |-> "gw", section |-> section]
Elsewhere     == [gateway |-> "other", section |-> None]

PathSlash == <<"/", "a", "/">>
PathA     == <<"/", "a">>
PathAB    == <<"/", "a", "/", "b">>
PathAb    == <<"/", "a", "b">>

Match(type, path, header) == [type |-> type, path |-> path, header |-> header]
To(service, weight) == [kind |-> "Service", service |-> service, port |-> 80, weight |-> weight]
Odd(service)        == [kind |-> "Other", service |-> service, port |-> 80, weight |-> None]
RuleWith(filters, matches, backends) ==
  [matches |-> matches, backends |-> backends, filters |-> filters]
Rule(matches, backends) == RuleWith(<<>>, matches, backends)
Modifier(type, add, set, remove) == [type |-> type, add |-> add, set |-> set, remove |-> remove]
RequestHeaders  == Modifier("RequestHeaderModifier", <<"h1">>, <<"h2">>, <<"h3">>)
ResponseHeaders == Modifier("ResponseHeaderModifier", <<"h1">>, <<"h2">>, <<"h3">>)
MoreHeaders     == Modifier("ResponseHeaderModifier", <<"h4">>, None, <<"h5">>)
RemoveOnly      == Modifier("RequestHeaderModifier", None, None, <<"h1">>)
EmptyAdd        == Modifier("ResponseHeaderModifier", <<>>, None, None)
Redirect(scheme, path) ==
  [type |-> "RequestRedirect", scheme |-> scheme, host |-> None, port |-> None,
   path |-> path, status |-> None]
Mirror  == [type |-> "RequestMirror"]
Route(ns, parents, hosts, rules) ==
  [ns |-> ns, parents |-> parents, hosts |-> hosts, rules |-> rules]

MCRoutes ==
  {Route("home", <<Here(None)>>, <<>>,
         <<RuleWith(<<RequestHeaders, ResponseHeaders>>,
                    <<Match("Prefix", PathA, None)>>, <<To("A", None)>>)>>),
   Route("home", <<Here("web"), Elsewhere>>, <<HostA>>,
         <<Rule(<<Match("Prefix", PathAB, "exact"), Match("Exact", PathA, None)>>, <<To("B", None)>>),
           RuleWith(<<ResponseHeaders, RemoveOnly, RequestHeaders, MoreHeaders>>, <<>>,
                    <<To("A", None), To("B", None)>>)>>),
   Route("away", <<Here("api"), Here("tls")>>, <<>>,
         <<RuleWith(<<EmptyAdd, MoreHeaders>>, <<Match("Exact", PathA, None)>>, <<To("C", None)>>)>>),
   Route("home", <<Here("web")>>, <<HostA, HostB>>,
         <<Rule(<<Match("Prefix", PathA, "exact")>>, <<To("A", 1), To("B", 9)>>),
           RuleWith(<<ResponseHeaders, Redirect(None, PathAB), Redirect("http", None)>>,
                    <<Match("Prefix", PathA, "regex")>>, <<To("A", 9), To("B", 1)>>)>>),
   Route("away", <<Elsewhere, Here("tls2")>>, <<HostA>>,
         <<Rule(<<Match("Regex", PathA, None)>>, <<To("D", None), To("D", 2)>>)>>),
   Route("home", <<Here(None)>>, <<>>,
         <<RuleWith(<<Mirror, Redirect("https", None)>>, <<Match("Exact", PathAB, None)>>, <<>>),
           Rule(<<Match("Prefix", PathSlash, None)>>, <<Odd("B"), To("E", None)>>)>>)}

\* One service of each way to resolve: slices, two ports in a slice, slices
\* with nothing ready, a failed list, no Service.
MCBacking ==
  LET Ep(ip, ready) == [ip |-> ip, ready |-> ready]
      Target(t)     == [p \in {80} |-> t]
  IN  [s \in {"A", "B", "C", "D", "E"} |->
       CASE s = "A" -> [targets |-> Target(8080), listable |-> TRUE, subsets |-> None,
              slices |-> <<[ports |-> <<9090, 8080>>, endpoints |-> <<Ep("a1", TRUE), Ep("a2", FALSE)>>],
                           [ports |-> <<>>, endpoints |-> <<Ep("a3", None)>>]>>]
         [] s = "B" -> [targets |-> Target(Named), listable |-> TRUE,
              subsets |-> <<[ports |-> <<8080>>, ready |-> <<"b1">>], [ports |-> <<>>, ready |-> <<"b2">>]>>,
              slices |-> <<[ports |-> <<8080>>, endpoints |-> <<Ep("b1", FALSE)>>]>>]
         [] s = "C" -> [targets |-> Target(None), listable |-> FALSE,
              subsets |-> <<[ports |-> <<80>>, ready |-> <<"c1">>]>>,
              slices |-> <<[ports |-> <<None>>, endpoints |-> <<Ep("c2", TRUE)>>]>>]
         [] s = "D" -> [targets |-> Target(8080), listable |-> TRUE, subsets |-> None,
              slices |-> <<[ports |-> <<None>>, endpoints |-> <<Ep("d1", TRUE), Ep("d2", TRUE)>>]>>]
         [] s = "E" -> None]

MCRequests ==
  [host : {HostA, HostB}, path : {Root, PathA, PathSlash, PathAB, PathAb}, header : BOOLEAN]
=============================================================================
