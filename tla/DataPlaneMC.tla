---------------------------- MODULE DataPlaneMC -----------------------------
(* Gateways that differ in certificates or in rules only, and three that   *)
(* cannot be served.                                                       *)
EXTENDS DataPlane

Gateway(rules, ports, names) == [ports |-> ports, secrets |-> names, rules |-> rules]

MCSpecs ==
  {Gateway("r1", {<<"web", 80>>}, {}),
   Gateway("r2", {<<"web", 80>>}, {}),
   Gateway("r1", {<<"web", 80>>, <<"tls", 443>>}, {"s1"}),
   Gateway("r1", {<<"tls", 443>>}, {"s1", "s2"}),
   Gateway("r1", {<<"web", 80>>, <<"admin", 8080>>}, {}),
   Gateway("r1", {<<"long", 80>>}, {}),
   Gateway("r1", {<<"web", AdminPort>>}, {})}
=============================================================================
