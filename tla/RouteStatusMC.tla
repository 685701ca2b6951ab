--------------------------- MODULE RouteStatusMC ----------------------------
(* Two Gateways, a few routes, three backends: a Service here, one in another
   namespace, and something that is no Service. *)
EXTENDS RouteStatus

MCSpecs == {[parents |-> None, backends |-> <<>>],
            [parents |-> <<>>, backends |-> <<>>],
            [parents |-> <<"g">>, backends |-> <<"near", "away">>],
            [parents |-> <<"g", "h">>, backends |-> <<"away", "odd">>]}

Open    == [selectors |-> <<>>, open |-> TRUE, meets |-> TRUE]
Elected == [selectors |-> <<"s", "t">>, open |-> FALSE, meets |-> TRUE]
Strange == [selectors |-> <<"t">>, open |-> TRUE, meets |-> FALSE]
MCListenings == {None, Open, Elected, Strange}

MCWorld == [gw |-> [g \in Gateways |-> IF g = "g" THEN Open ELSE Elected],
            ours |-> TRUE, granted |-> {"away"}, services |-> {"near", "away"},
            labelled |-> {"t"}]
=============================================================================
