-------------------------- MODULE GatewayControllerMC --------------------------
(***************************************************************************)
(* Constants for checking GatewayController.                               *)
(***************************************************************************)
EXTENDS GatewayInvariant

One == {"o1"}
Two == {"o1", "o2"}

\* The GatewayClass may be deleted, and created again as ours or as another
\* controller's; it does not come back from there.
ClassChanges == {<<"ours", "missing">>, <<"missing", "ours">>,
                 <<"missing", "foreign">>}
================================================================================
