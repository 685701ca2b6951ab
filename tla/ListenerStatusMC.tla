-------------------------- MODULE ListenerStatusMC --------------------------
(* One Secret name in two namespaces, one listener of each kind. *)
EXTENDS ListenerStatus

Port(name, protocol, kinds, certs) ==
  [name |-> name, protocol |-> protocol, kinds |-> kinds, certs |-> certs]
Cert_(kind, ns) == [kind |-> kind, ns |-> ns, name |-> "s"]
Written(params, listeners) == [params |-> params, listeners |-> listeners]

MCSpecs ==
  {Written(FALSE, <<Port("tls", "HTTPS", None, <<Cert_("Secret", Home), Cert_("Secret", "away")>>),
                    Port("raw", "TCP", None, None)>>),
   Written(FALSE, <<Port("web", "HTTP", {"HTTPRoute", "GRPCRoute"}, None),
                    Port("tls", "HTTPS", {"HTTPRoute"}, <<Cert_("Secret", "away"), Cert_("Other", Home)>>)>>),
   Written(FALSE, <<Port("raw", "TCP", None, None)>>),
   Written(TRUE, <<Port("web", "HTTP", None, None)>>)}

MCSecrets == {<<Home, "s">>, <<"away", "s">>}

MCContents ==
  {None, [crt |-> "pem", key |-> None], [crt |-> "pem", key |-> "text"], [crt |-> "pem", key |-> "pem"]}

Grant(from, name) ==
  [ns |-> "away", from |-> {[kind |-> from, ns |-> Home]}, to |-> {[kind |-> "Secret", name |-> name]}]

\* None, one that fits, one for routes and one for another Secret.
MCGrants == {{}, {Grant("Gateway", "s")}, {Grant("HTTPRoute", None), Grant("Gateway", "t")}}

MCWorld == [secrets |-> [s \in MCSecrets |-> [crt |-> "pem", key |-> "pem"]],
            grants |-> {Grant("Gateway", "s")}]
=============================================================================
